--------------------------- MODULE DecisionProofs ---------------------------
(***************************************************************************)
(* Proofs about DecisionChecks, for any tasks, sources, decisions and      *)
(* texts: a quoted source has one number whatever adds evidence at once    *)
(* (NumbersStay), and an edit of what a decision quotes is neither taken   *)
(* for read before it was, nor left out of the window (EditsRead). An      *)
(* action has a lemma for either invariant: NumbersInv (names that end in  *)
(* Numbers) and EditsInv (names that end in Edits).                        *)
(***************************************************************************)
EXTENDS DecisionChecks, FiniteSetTheorems, TLAPS

\* Texts are numbered as they are written, there is a first, and they say passages.
CheckConstants ==
    /\ Texts \subseteq Nat /\ None \notin Texts
    /\ \E x \in Texts : \A y \in Texts : x <= y
    /\ \A x \in Texts : Says[x] \subseteq Passages
    /\ Near \subseteq Sources \X Decisions
    /\ MaxEvidence \in Nat /\ MaxTries \in Nat /\ MaxPerSource \in Nat

-----------------------------------------------------------------------------
(***************************************************************************)
(* The inductive invariant of DecisionChecks: evidence and its numbers     *)
(***************************************************************************)

Entry == [src : Sources, quote : Passages, fp : Texts, against : BOOLEAN, new : BOOLEAN]
Decision == [status : Statuses, evidence : Seq(Entry), sources : Seq(Sources), flag : BOOLEAN]
Founds == UNION {[S -> Texts \cup {None}] : S \in SUBSET Sources}
Snaps == UNION {[D -> SUBSET Entry] : D \in SUBSET Decisions}
Entries == Sources \X Decisions \X Texts
Stages == {"idle", "flag", "store", "look", "changed", "embed", "next", "ask", "cite", "add", "put", "record", "end", "release", "vector"}
Reading == {"next", "ask", "cite", "add", "put", "record", "end"}
Reader ==
    [pc : Stages, kind : {"request", "check", "scan"}, flags : SUBSET (Decisions \X BOOLEAN),
     changed : SUBSET Sources, born : SUBSET Sources, edited : SUBSET Sources, found : Founds, snap : Snaps, todo : SUBSET Entries,
     src : Sources \cup {None}, dec : Decisions \cup {None}, quote : Passages \cup {None}, against : BOOLEAN,
     fp : Texts \cup {None}, fresh : BOOLEAN, seen : Seq(Sources), tries : {0} \cup 1..MaxTries, capped : BOOLEAN]

Records ==
    /\ read \in [Sources -> Texts \cup {None}] /\ embedded \in [Sources -> Texts \cup {None}]
    /\ lease \in {"free", "held", "lapsed"} /\ scanned \in BOOLEAN
    /\ due \in SUBSET Sources /\ created \in SUBSET Sources
    /\ owed \in SUBSET (Sources \X Decisions) /\ missed \in SUBSET Sources

CheckTypes ==
    /\ text \in [Sources -> Texts \cup {None}] /\ Records
    /\ dec \in [Decisions -> Decision] /\ \A d \in Decisions : Len(dec[d].evidence) <= MaxEvidence
    /\ task \in [Tasks -> Reader]

\* A check alone compares, looks and embeds; what a task reads of is a source it has to
\* read; a decision a task read has at least the sources it saw.
Shape(k) ==
    /\ k.pc \in {"look", "changed", "embed", "release"} => k.kind = "check"
    /\ k.pc \in {"next", "ask", "record", "end"} => k.kind # "request"
    /\ k.todo # {} => k.kind # "request" /\ k.pc \in Reading
    /\ k.kind # "request" /\ k.pc \in {"ask", "cite", "add", "put", "record"} => \E q \in k.todo : q[1] = k.src
    /\ k.pc \in {"cite", "add", "put"} => k.src \in Sources /\ k.dec \in Decisions /\ k.quote \in Passages
    /\ k.pc \in {"add", "put"} => k.fp \in Texts
    /\ k.pc = "vector" => k.src \in Sources /\ k.fp \in Texts
    /\ k.pc = "put" => /\ Len(k.seen) <= Len(dec[k.dec].sources)
                       /\ Len(k.seen) = Len(dec[k.dec].sources) => k.seen = dec[k.dec].sources
    /\ k.pc = "embed" => \A s \in k.edited : s \in DOMAIN k.found /\ k.found[s] \in Texts

\* No source has two numbers, and every source that is quoted has one.
Numbered(d) ==
    /\ \A i, j \in 1..Len(dec[d].sources) : dec[d].sources[i] = dec[d].sources[j] => i = j
    /\ \A i \in 1..Len(dec[d].evidence) :
         \E j \in 1..Len(dec[d].sources) : dec[d].sources[j] = dec[d].evidence[i].src

NumbersInv ==
    /\ CheckTypes
    /\ \A t \in Tasks : Shape(task[t])
    /\ \A d \in Decisions : Numbered(d)

-----------------------------------------------------------------------------
(***************************************************************************)
(* The inductive invariants: who is inside, and what is owed a reading     *)
(***************************************************************************)

\* One check at a time, and it holds the lease.
Alone ==
    /\ \A t \in Tasks : Inside(t) => lease = "held"
    /\ \A t, u \in Tasks : Inside(t) /\ Inside(u) => t = u

\* x is nothing, or what s says or said before; nothing is known of one to be created.
Past(s, x) == x # None => s \notin Unborn /\ (text[s] # None => x <= text[s])

\* What a check has read is what sources said.
Ordered(k) ==
    /\ \A s \in DOMAIN k.found : Past(s, k.found[s])
    /\ \A q \in k.todo : Past(q[1], q[3])

\* Before it embeds: what is owed a reading it saw quoted, unless it found another text.
Shown(k) ==
    k.pc \in {"changed", "embed"} =>
      \A p \in owed : (k.pc = "embed" /\ p[1] \in DOMAIN k.found => k.found[p[1]] = text[p[1]]) => p \in Quoted(k.snap)

\* Once it reads: a source it reads as it is, it reads against all it is owed, or
\* against as many decisions as one reading takes.
Reads(k) ==
    \A q \in k.todo, p \in owed :
      q[3] = text[q[1]] /\ p[1] = q[1] => <<p[1], p[2], q[3]>> \in k.todo \/ Cardinality(Of(q[1], k.todo)) = MaxPerSource

\* What no check that ran to its end found as it is, it found or saw change; so what
\* it saw created.
Listed(k) ==
    /\ k.born \subseteq k.changed
    /\ k.pc \in Reading \cup {"embed"} => missed \subseteq DOMAIN k.found \cup k.changed

Tracked(k) == k.kind = "check" => Ordered(k) /\ Shown(k) /\ Reads(k) /\ Listed(k)

\* What is owed is of a source that is there, was not read as it is, and is quoted by an
\* accepted decision.
OwedInv ==
    /\ \A p \in owed : /\ dec[p[2]].status = "accepted" /\ Quotes(p[2], p[1])
                        /\ text[p[1]] # None /\ read[p[1]] # text[p[1]]
    /\ \A s \in Sources : Past(s, read[s]) /\ Past(s, text[s])

EditsInv ==
    /\ \A t \in Tasks : Tracked(task[t])
    /\ OwedInv
    /\ missed \subseteq due

-----------------------------------------------------------------------------
(***************************************************************************)
(* Types                                                                   *)
(***************************************************************************)

LEMMA ReaderFields ==
    ASSUME NEW k \in Reader
    PROVE  /\ k.pc \in Stages /\ k.kind \in {"request", "check", "scan"} /\ k.flags \in SUBSET (Decisions \X BOOLEAN)
           /\ k.changed \in SUBSET Sources /\ k.born \in SUBSET Sources /\ k.edited \in SUBSET Sources /\ k.found \in Founds /\ k.snap \in Snaps
           /\ k.todo \in SUBSET Entries
           /\ k.src \in Sources \cup {None} /\ k.dec \in Decisions \cup {None} /\ k.quote \in Passages \cup {None}
           /\ k.against \in BOOLEAN /\ k.fp \in Texts \cup {None} /\ k.fresh \in BOOLEAN /\ k.seen \in Seq(Sources)
           /\ k.tries \in {0} \cup 1..MaxTries /\ k.capped \in BOOLEAN
BY DEF Reader

LEMMA EntryFields ==
    ASSUME NEW q \in Entries
    PROVE  q[1] \in Sources /\ q[2] \in Decisions /\ q[3] \in Texts /\ q = <<q[1], q[2], q[3]>>
BY DEF Entries

LEMMA FoundsFacts ==
    ASSUME NEW f \in Founds
    PROVE  DOMAIN f \in SUBSET Sources /\ \A s \in DOMAIN f : f[s] \in Texts \cup {None}
BY DEF Founds

LEMMA FoundsMember ==
    ASSUME NEW S \in SUBSET Sources, NEW f \in [S -> Texts \cup {None}]
    PROVE  f \in Founds
BY DEF Founds

LEMMA SnapsFacts ==
    ASSUME NEW f \in Snaps
    PROVE  DOMAIN f \in SUBSET Decisions /\ \A d \in DOMAIN f : f[d] \in SUBSET Entry
BY DEF Snaps

LEMMA SnapsMember ==
    ASSUME NEW D \in SUBSET Decisions, NEW f \in [D -> SUBSET Entry]
    PROVE  f \in Snaps
BY DEF Snaps

\* What a task is once it is over.
Ended(k) == IF k.kind = "check" THEN [Idle EXCEPT !.pc = "release", !.kind = "check"] ELSE Idle

LEMMA IdleIs ==
    /\ Idle \in Reader /\ Shape(Idle)
    /\ [Idle EXCEPT !.pc = "release", !.kind = "check"] \in Reader
    /\ Shape([Idle EXCEPT !.pc = "release", !.kind = "check"])
<1>1. <<>> \in Founds /\ <<>> \in Snaps /\ <<>> \in Seq(Sources)
  <2>1. <<>> \in [{} -> Texts \cup {None}] /\ <<>> \in [{} -> SUBSET Entry]
    BY SMT
  <2>2. {} \in SUBSET Sources /\ {} \in SUBSET Decisions /\ <<>> \in Seq(Sources)
    OBVIOUS
  <2>3. <<>> \in Founds
    BY <2>1, <2>2, FoundsMember
  <2>4. <<>> \in Snaps
    BY <2>1, <2>2, SnapsMember
  <2> QED
    BY <2>2, <2>3, <2>4
<1>2. Idle \in Reader
  BY <1>1 DEF Idle, Reader, Stages
<1>3. [Idle EXCEPT !.pc = "release", !.kind = "check"] \in Reader
  BY <1>2 DEF Reader, Stages
<1>4. Shape(Idle)
  BY DEF Idle, Shape
<1>5. Shape([Idle EXCEPT !.pc = "release", !.kind = "check"])
  BY DEF Idle, Shape
<1> QED
  BY <1>2, <1>3, <1>4, <1>5

LEMMA EndedIs ==
    ASSUME NEW k
    PROVE  Ended(k) \in Reader /\ Shape(Ended(k))
BY IdleIs DEF Ended

LEMMA OverIs ==
    ASSUME NEW t, Over(t), task \in [Tasks -> Reader]
    PROVE  task' = [task EXCEPT ![t] = Ended(task[t])]
BY DEF Over, Ended

\* What the invariant says of a task.
LEMMA TaskFacts ==
    ASSUME NumbersInv, NEW t \in Tasks
    PROVE  task[t] \in Reader /\ Shape(task[t]) /\ DOMAIN task = Tasks
BY DEF NumbersInv, CheckTypes

LEMMA WorldFacts ==
    ASSUME NumbersInv
    PROVE  /\ text \in [Sources -> Texts \cup {None}] /\ embedded \in [Sources -> Texts \cup {None}]
           /\ read \in [Sources -> Texts \cup {None}]
           /\ dec \in [Decisions -> Decision] /\ \A d \in Decisions : Len(dec[d].evidence) <= MaxEvidence
           /\ lease \in {"free", "held", "lapsed"} /\ scanned \in BOOLEAN
           /\ due \in SUBSET Sources /\ created \in SUBSET Sources
           /\ owed \in SUBSET (Sources \X Decisions) /\ missed \in SUBSET Sources
           /\ task \in [Tasks -> Reader]
BY DEF NumbersInv, CheckTypes, Records

LEMMA SameRecords ==
    ASSUME NumbersInv, UNCHANGED <<lease, window, read, embedded, history>>
    PROVE  Records'
BY DEF NumbersInv, CheckTypes, Records, window, history

LEMMA DecisionFacts ==
    ASSUME NumbersInv, NEW d \in Decisions
    PROVE  /\ dec[d] \in Decision /\ dec[d].status \in Statuses
           /\ dec[d].evidence \in Seq(Entry) /\ dec[d].sources \in Seq(Sources) /\ dec[d].flag \in BOOLEAN
           /\ Evidence(d) \in SUBSET Entry
           /\ \A e : e \in Evidence(d) <=> \E i \in 1..Len(dec[d].evidence) : e = dec[d].evidence[i]
<1>1. dec[d] \in Decision
  BY WorldFacts
<1>2. dec[d].status \in Statuses /\ dec[d].evidence \in Seq(Entry) /\ dec[d].sources \in Seq(Sources) /\ dec[d].flag \in BOOLEAN
  BY <1>1 DEF Decision
<1>3. \A e : e \in Evidence(d) <=> \E i \in 1..Len(dec[d].evidence) : e = dec[d].evidence[i]
  BY <1>2 DEF Evidence, Range
<1> QED
  BY <1>1, <1>2, <1>3

-----------------------------------------------------------------------------
(***************************************************************************)
(* Every action keeps evidence and numbers                                 *)
(***************************************************************************)

\* A step of one task that leaves texts and decisions alone.
LEMMA LocalStep ==
    ASSUME NumbersInv, NEW t \in Tasks, NEW r \in Reader, task' = [task EXCEPT ![t] = r], Shape(r),
           UNCHANGED <<text, dec>>, Records'
    PROVE  NumbersInv'
<1>1. CheckTypes'
  BY DEF NumbersInv, CheckTypes
<1>2. ASSUME NEW b \in Tasks
      PROVE  Shape(task[b])'
  <2>1. CASE b = t
    <3>1. task'[b] = r
      BY <2>1, TaskFacts
    <3> QED
      BY <3>1 DEF Shape
  <2>2. CASE b # t
    <3>1. task'[b] = task[b] /\ Shape(task[b])
      BY <2>2, TaskFacts
    <3> QED
      BY <3>1 DEF Shape
  <2> QED
    BY <2>1, <2>2
<1>3. ASSUME NEW d \in Decisions
      PROVE  Numbered(d)'
  BY DEF NumbersInv, Numbered
<1> QED
  BY <1>1, <1>2, <1>3 DEF NumbersInv

\* One that leaves what is recorded alone, too.
LEMMA QuietStep ==
    ASSUME NumbersInv, NEW t \in Tasks, NEW r \in Reader, task' = [task EXCEPT ![t] = r], Shape(r),
           UNCHANGED <<text, dec, lease, window, read, embedded, history>>
    PROVE  NumbersInv'
BY LocalStep, SameRecords

LEMMA ClaimDoes ==
    ASSUME NEW t \in Tasks, Claim(t)
    PROVE  /\ task' = [task EXCEPT ![t] = [Idle EXCEPT !.pc = "flag", !.kind = "check"]]
           /\ UNCHANGED <<text, dec, scanned, read, embedded, owed>>
           /\ lease # "held" /\ lease' = "held" /\ task[t] = Idle
           /\ \E past \in SUBSET due : due' = due \ past /\ created' = created \ past /\ missed' = missed \ past
BY DEF Claim

LEMMA ClaimNumbers ==
    ASSUME NumbersInv, NEW t \in Tasks, Claim(t)
    PROVE  NumbersInv'
<1> DEFINE r == [Idle EXCEPT !.pc = "flag", !.kind = "check"]
<1>1. r \in Reader
  BY IdleIs DEF Reader, Stages
<1>2. Shape(r)
  BY DEF Idle, Shape
<1>3. Records'
  BY ClaimDoes, WorldFacts DEF Records
<1> QED
  BY <1>1, <1>2, <1>3, ClaimDoes, LocalStep

LEMMA ReleaseNumbers ==
    ASSUME NumbersInv, NEW t \in Tasks, Release(t)
    PROVE  NumbersInv'
<1>1. Records'
  BY WorldFacts DEF Release, Records, window, history
<1> QED
  BY <1>1, IdleIs, LocalStep DEF Release

LEMMA LapseNumbers ==
    ASSUME NumbersInv, Lapse
    PROVE  NumbersInv'
<1>1. CheckTypes'
  BY WorldFacts DEF Lapse, CheckTypes, Records, window, history
<1> QED
  BY <1>1 DEF Lapse, NumbersInv, Shape, Numbered

LEMMA OpenNumbers ==
    ASSUME NumbersInv, NEW t \in Tasks, Open(t)
    PROVE  NumbersInv'
<1> DEFINE r == [Idle EXCEPT !.pc = "flag"]
<1>1. r \in Reader
  BY IdleIs DEF Reader, Stages
<1>2. Shape(r)
  BY DEF Idle, Shape
<1>3. task' = [task EXCEPT ![t] = r]
  BY TaskFacts DEF Open, Goto
<1> QED
  BY <1>1, <1>2, <1>3, QuietStep DEF Open

LEMMA CompareNumbers ==
    ASSUME NumbersInv, NEW t \in Tasks, Compare(t)
    PROVE  NumbersInv'
<1> DEFINE k == task[t]
<1>1. PICK shown \in SUBSET Decisions : 
        /\ k.pc = "flag" /\ UNCHANGED <<text, dec, lease, window, read, embedded, history>>
        /\ task' = [task EXCEPT ![t] = [k EXCEPT !.pc = "store", !.flags = {<<d, NeedsAttention(d)>> : d \in shown}]]
  BY TaskFacts DEF Compare, Accepted
<1>2. {<<d, NeedsAttention(d)>> : d \in shown} \in SUBSET (Decisions \X BOOLEAN)
  <2>1. ASSUME NEW d
        PROVE  NeedsAttention(d) \in BOOLEAN
    BY DEF NeedsAttention
  <2> QED
    BY <2>1
<1>3. PICK flags \in SUBSET (Decisions \X BOOLEAN) : task' = [task EXCEPT ![t] = [k EXCEPT !.pc = "store", !.flags = flags]]
  BY <1>1, <1>2
<1> DEFINE r == [k EXCEPT !.pc = "store", !.flags = flags]
<1>4. r \in Reader
  <2>1. "store" \in Stages /\ k \in Reader
    BY TaskFacts DEF Stages
  <2> HIDE DEF k
  <2> QED
    BY <2>1 DEF Reader
<1>5. Shape(r)
  <2>1. r.pc = "store" /\ r.todo = k.todo /\ r.kind = k.kind
    BY TaskFacts DEF Reader
  <2> QED
    BY <1>1, <2>1, TaskFacts DEF Shape, Reading
<1> HIDE DEF r
<1> QED
  BY <1>1, <1>3, <1>4, <1>5, QuietStep DEF r

LEMMA LookNumbers ==
    ASSUME NumbersInv, NEW t \in Tasks, Look(t)
    PROVE  NumbersInv'
<1> DEFINE k == task[t]
           snap == [d \in Accepted |-> Evidence(d)]
           found == [s \in {e.src : e \in UNION {Evidence(d) : d \in Accepted}} |-> text[s]]
           r == [k EXCEPT !.pc = "changed", !.snap = snap, !.found = found]
<1>1. k.pc = "look" /\ task' = [task EXCEPT ![t] = r]
      /\ UNCHANGED <<text, dec, lease, window, read, embedded, history>>
  BY TaskFacts DEF Look
<1>2. snap \in Snaps
  <2>1. Accepted \in SUBSET Decisions
    BY DEF Accepted
  <2>2. snap \in [Accepted -> SUBSET Entry]
    BY <2>1, DecisionFacts
  <2> QED
    BY <2>1, <2>2, SnapsMember
<1>3. found \in Founds
  <2> DEFINE S == {e.src : e \in UNION {Evidence(d) : d \in Accepted}}
  <2>1. S \in SUBSET Sources
    <3>1. ASSUME NEW d \in Accepted, NEW e \in Evidence(d)
          PROVE  e.src \in Sources
      <4>1. d \in Decisions
        BY DEF Accepted
      <4>2. e \in Entry
        BY <4>1, DecisionFacts
      <4> QED
        BY <4>2 DEF Entry
    <3> QED
      BY <3>1
  <2>2. found \in [S -> Texts \cup {None}]
    BY <2>1, WorldFacts
  <2> QED
    BY <2>1, <2>2, FoundsMember
<1> HIDE DEF snap, found
<1>4. r \in Reader
  <2>1. "changed" \in Stages /\ k \in Reader
    BY TaskFacts DEF Stages
  <2> HIDE DEF k
  <2> QED
    BY <1>2, <1>3, <2>1 DEF Reader
<1>5. Shape(r)
  <2>1. r.pc = "changed" /\ r.todo = k.todo /\ r.kind = k.kind
    BY TaskFacts DEF Reader
  <2> QED
    BY <1>1, <2>1, TaskFacts DEF Shape, Reading
<1> HIDE DEF r
<1> QED
  BY <1>1, <1>4, <1>5, QuietStep

\* What is found of the changed sources, and which of them is edited.
Seen(k) == [s \in due \cup DOMAIN k.found |-> IF s \in due THEN text[s] ELSE k.found[s]]

LEMMA ChangedDoes ==
    ASSUME NumbersInv, NEW t \in Tasks, Changed(t)
    PROVE  /\ task[t].pc = "changed" /\ UNCHANGED <<text, dec, lease, window, read, embedded, history>>
           /\ task' = [task EXCEPT ![t] = [task[t] EXCEPT !.pc = "embed", !.found = Seen(task[t]), !.edited = Edited(due)]]
           /\ Seen(task[t]) \in Founds /\ Edited(due) \in SUBSET due
           /\ \A s \in Edited(due) : Seen(task[t])[s] = text[s] /\ text[s] \in Texts /\ s \in DOMAIN Seen(task[t])
<1>1. due \in SUBSET Sources /\ text \in [Sources -> Texts \cup {None}]
  BY WorldFacts
<1>2. Seen(task[t]) \in Founds
  <2>1. task[t].found \in Founds
    BY TaskFacts, ReaderFields
  <2>2. due \cup DOMAIN task[t].found \in SUBSET Sources
    BY <1>1, <2>1, FoundsFacts
  <2>3. Seen(task[t]) \in [due \cup DOMAIN task[t].found -> Texts \cup {None}]
    BY <1>1, <2>1, FoundsFacts DEF Seen
  <2> QED
    BY <2>2, <2>3, FoundsMember
<1>3. \A s \in Edited(due) : s \in due /\ text[s] # None
  BY DEF Edited
<1>4. \A s \in due : Seen(task[t])[s] = text[s] /\ s \in DOMAIN Seen(task[t])
  BY DEF Seen
<1>5. task' = [task EXCEPT ![t] = [task[t] EXCEPT !.pc = "embed", !.found = Seen(task[t]), !.edited = Edited(due)]]
  BY TaskFacts DEF Changed, Seen
<1> QED
  BY <1>1, <1>2, <1>3, <1>4, <1>5 DEF Changed

LEMMA ChangedNumbers ==
    ASSUME NumbersInv, NEW t \in Tasks, Changed(t)
    PROVE  NumbersInv'
<1> DEFINE k == task[t]
           r == [k EXCEPT !.pc = "embed", !.found = Seen(k), !.edited = Edited(due)]
<1>1. r \in Reader
  <2>1. "embed" \in Stages /\ k \in Reader /\ Seen(k) \in Founds /\ Edited(due) \in SUBSET Sources
    BY TaskFacts, ChangedDoes, WorldFacts DEF Stages
  <2> HIDE DEF k
  <2> QED
    BY <2>1 DEF Reader
<1>2. Shape(r)
  <2>1. r.pc = "embed" /\ r.todo = k.todo /\ r.kind = k.kind /\ r.edited = Edited(due) /\ r.found = Seen(k)
    BY TaskFacts DEF Reader
  <2>2. k.kind = "check" /\ k.todo = {}
    BY TaskFacts, ChangedDoes DEF Shape, Reading
  <2>3. \A s \in Edited(due) : s \in DOMAIN Seen(k) /\ Seen(k)[s] \in Texts
    BY ChangedDoes
  <2> HIDE DEF r
  <2> QED
    BY <2>1, <2>2, <2>3 DEF Shape, Reading
<1> HIDE DEF r
<1> QED
  BY <1>1, <1>2, ChangedDoes, QuietStep DEF r

\* What a check has a source's text for, and what it could read.
TextOf(k, s) == IF s \in DOMAIN k.found THEN k.found[s] ELSE text[s]
Order(k, near) == <<Quoted(k.snap), From(Linked, k.snap), From(Names, k.snap) \cup Mentioning(k.edited, k.snap), near>>
Related(k, near) == {p \in UNION Range(Order(k, near)) : Unread(p[1], TextOf(k, p[1]), k.snap)}
Todo(k, near) == {<<p[1], p[2], TextOf(k, p[1])>> : p \in Related(k, near)}

LEMMA OrderIs ==
    ASSUME NEW k, NEW near
    PROVE  \A p : p \in UNION Range(Order(k, near)) <=>
             \/ p \in Quoted(k.snap) \/ p \in From(Linked, k.snap) \/ p \in From(Names, k.snap)
             \/ p \in Mentioning(k.edited, k.snap) \/ p \in near
<1>1. ASSUME NEW a, NEW b, NEW c
      PROVE  Range(<<a, b, c, near>>) = {a, b, c, near}
  BY DEF Range
<1>2. Range(Order(k, near)) = {Quoted(k.snap), From(Linked, k.snap), From(Names, k.snap) \cup Mentioning(k.edited, k.snap), near}
  BY <1>1 DEF Order
<1> QED
  BY <1>2

\* What is related is of a decision that was read, and what is near an edited source.
LEMMA RelatedIs ==
    ASSUME CheckConstants, NumbersInv, NEW t \in Tasks, NEW near \in Similar(task[t].edited, task[t].snap) \cup {{}}
    PROVE  /\ \A p \in Related(task[t], near) : p[1] \in Sources /\ p[2] \in Decisions /\ Unread(p[1], TextOf(task[t], p[1]), task[t].snap)
           /\ \A p \in Quoted(task[t].snap) : Unread(p[1], TextOf(task[t], p[1]), task[t].snap) => p \in Related(task[t], near)
<1> DEFINE k == task[t]
<1>1. k.edited \in SUBSET Sources /\ DOMAIN k.snap \in SUBSET Decisions
  BY TaskFacts, ReaderFields, SnapsFacts
<1>2. near \subseteq Near
  BY DEF Similar, Cut
<1>3. ASSUME NEW p \in Related(k, near)
      PROVE  p[1] \in Sources /\ p[2] \in Decisions
  <2>1. \/ p \in Quoted(k.snap) \/ p \in From(Linked, k.snap) \/ p \in From(Names, k.snap)
        \/ p \in Mentioning(k.edited, k.snap) \/ p \in near
    BY OrderIs DEF Related
  <2>2. CASE p \in near
    BY <1>2, <2>2 DEF CheckConstants
  <2>3. CASE p \in Quoted(k.snap) \/ p \in From(Linked, k.snap) \/ p \in From(Names, k.snap)
    BY <1>1, <2>3 DEF Quoted, From
  <2>4. CASE p \in Mentioning(k.edited, k.snap)
    BY <1>1, <2>4 DEF Mentioning
  <2> QED
    BY <2>1, <2>2, <2>3, <2>4
<1>4. \A p \in Quoted(k.snap) : p \in UNION Range(Order(k, near))
  BY OrderIs
<1> HIDE DEF k
<1>5. \A p \in Related(k, near) : Unread(p[1], TextOf(k, p[1]), k.snap)
  BY DEF Related
<1>6. \A p \in Quoted(k.snap) : Unread(p[1], TextOf(k, p[1]), k.snap) => p \in Related(k, near)
  BY <1>4 DEF Related
<1> QED
  BY <1>3, <1>5, <1>6 DEF k

LEMMA TodoIs ==
    ASSUME CheckConstants, NumbersInv, NEW t \in Tasks, NEW near \in Similar(task[t].edited, task[t].snap) \cup {{}}
    PROVE  Todo(task[t], near) \in SUBSET Entries
<1> DEFINE k == task[t]
<1>1. k.found \in Founds
  BY TaskFacts, ReaderFields
<1>2. \A s \in Sources : TextOf(k, s) \in Texts \cup {None}
  BY <1>1, FoundsFacts, WorldFacts DEF TextOf
<1>3. \A p \in Related(k, near) : p[1] \in Sources /\ p[2] \in Decisions /\ TextOf(k, p[1]) # None
  BY RelatedIs DEF Unread
<1> HIDE DEF k
<1>4. \A p \in Related(k, near) : <<p[1], p[2], TextOf(k, p[1])>> \in Entries
  BY <1>2, <1>3 DEF Entries
<1>5. Todo(k, near) \in SUBSET Entries
  BY <1>4 DEF Todo
<1> QED
  BY <1>5 DEF k

LEMMA EmbedDoes ==
    ASSUME NumbersInv, NEW t \in Tasks, Embed(t)
    PROVE  /\ task[t].pc = "embed" /\ UNCHANGED <<text, dec, lease, window, read, history, crashes>>
           /\ embedded' \in [Sources -> Texts \cup {None}]
           /\ \E near \in Similar(task[t].edited, task[t].snap) \cup {{}} : \E todo \in Cut(Todo(task[t], near), MaxPerSource) :
                task' = [task EXCEPT ![t] = [task[t] EXCEPT !.pc = "next", !.todo = todo]]
<1> DEFINE k == task[t]
<1>1. PICK stored \in SUBSET k.edited, near \in Similar(k.edited, k.snap) \cup {{}}, some \in SUBSET Sources :
        /\ embedded' = Filled([s \in Sources |-> IF s \in stored THEN k.found[s] ELSE embedded[s]], some)
        /\ \E todo \in Strongest(Todo(k, near), Order(k, near)) : task' = [task EXCEPT ![t].pc = "next", ![t].todo = todo]
  BY Zenon DEF Embed, Todo, Related, TextOf, Order
<1>2. PICK todo \in Strongest(Todo(k, near), Order(k, near)) : task' = [task EXCEPT ![t].pc = "next", ![t].todo = todo]
  BY <1>1
<1>3. todo \in Cut(Todo(k, near), MaxPerSource)
  BY <1>2 DEF Strongest
<1>4. task' = [task EXCEPT ![t] = [task[t] EXCEPT !.pc = "next", !.todo = todo]]
  BY <1>2, TaskFacts
<1>5. k.pc = "embed" /\ UNCHANGED <<text, dec, lease, window, read, history, crashes>>
  BY DEF Embed
<1>6. \A s \in k.edited : k.found[s] \in Texts
  BY <1>5, TaskFacts DEF Shape
<1>7. embedded' \in [Sources -> Texts \cup {None}]
  BY <1>1, <1>6, WorldFacts DEF Filled
<1> QED
  BY <1>3, <1>4, <1>5, <1>7

LEMMA EmbedNumbers ==
    ASSUME CheckConstants, NumbersInv, NEW t \in Tasks, Embed(t)
    PROVE  NumbersInv'
<1> DEFINE k == task[t]
<1>0. PICK near \in Similar(k.edited, k.snap) \cup {{}} : \E todo \in Cut(Todo(k, near), MaxPerSource) :
        task' = [task EXCEPT ![t] = [k EXCEPT !.pc = "next", !.todo = todo]]
  BY EmbedDoes
<1>1. PICK todo \in Cut(Todo(k, near), MaxPerSource) :
        task' = [task EXCEPT ![t] = [k EXCEPT !.pc = "next", !.todo = todo]]
  BY <1>0
<1> DEFINE r == [k EXCEPT !.pc = "next", !.todo = todo]
<1>2. r \in Reader
  <2>1. "next" \in Stages /\ k \in Reader /\ todo \in SUBSET Entries
    BY <1>1, TaskFacts, TodoIs DEF Stages, Cut
  <2> HIDE DEF k
  <2> QED
    BY <2>1 DEF Reader
<1>3. Shape(r)
  <2>1. r.pc = "next" /\ r.kind = k.kind
    BY TaskFacts DEF Reader
  <2>2. k.kind = "check"
    BY EmbedDoes, TaskFacts DEF Shape
  <2> HIDE DEF r
  <2> QED
    BY <2>1, <2>2 DEF Shape, Reading
<1>4. Records'
  BY EmbedDoes, WorldFacts DEF Records, window, history
<1>5. task' = [task EXCEPT ![t] = r] /\ UNCHANGED <<text, dec>>
  BY <1>1, EmbedDoes
<1> HIDE DEF r
<1> QED
  BY <1>2, <1>3, <1>4, <1>5, LocalStep

LEMMA TakeCheckNumbers ==
    ASSUME NumbersInv, NEW t \in Tasks, TakeCheck(t)
    PROVE  NumbersInv'
<1> DEFINE k == task[t]
<1>1. k.pc = "next" /\ k.todo # {} /\ UNCHANGED <<text, dec, lease, window, read, embedded, history, crashes>> /\ k \in Reader
  BY TaskFacts DEF TakeCheck
<1>2. k.todo \in SUBSET Entries /\ k.kind # "request"
  BY <1>1, TaskFacts, ReaderFields DEF Shape
<1>3. CASE \E p \in k.todo : task' = [task EXCEPT ![t] = [k EXCEPT !.pc = "ask", !.src = p[1]]]
  <2>1. PICK p \in k.todo : task' = [task EXCEPT ![t] = [k EXCEPT !.pc = "ask", !.src = p[1]]]
    BY <1>3
  <2>2. p[1] \in Sources
    BY <1>2, EntryFields
  <2> DEFINE r == [k EXCEPT !.pc = "ask", !.src = p[1]]
  <2>3. r \in Reader /\ r.pc = "ask" /\ r.kind = k.kind /\ r.todo = k.todo /\ r.src = p[1]
    <3> HIDE DEF k
    <3> QED
      BY <1>1, <2>2 DEF Reader, Stages
  <2> HIDE DEF r
  <2>4. Shape(r)
    BY <1>2, <2>3 DEF Shape, Reading
  <2> QED
    BY <1>1, <2>1, <2>3, <2>4, QuietStep DEF r
<1>4. CASE task' = [task EXCEPT ![t] = [k EXCEPT !.pc = "end", !.capped = TRUE]]
  <2> DEFINE r == [k EXCEPT !.pc = "end", !.capped = TRUE]
  <2>1. r \in Reader /\ r.pc = "end" /\ r.kind = k.kind /\ r.todo = k.todo
    <3> HIDE DEF k
    <3> QED
      BY <1>1 DEF Reader, Stages
  <2> HIDE DEF r
  <2>2. Shape(r)
    BY <1>2, <2>1 DEF Shape, Reading
  <2> QED
    BY <1>1, <1>4, <2>1, <2>2, QuietStep DEF r
<1> QED
  BY <1>3, <1>4, TaskFacts DEF TakeCheck

LEMMA AskNumbers ==
    ASSUME CheckConstants, NumbersInv, NEW t \in Tasks, Ask(t)
    PROVE  NumbersInv'
<1> DEFINE k == task[t]
<1>1. k.pc = "ask" /\ UNCHANGED <<text, dec, lease, window, read, embedded, history>> /\ k \in Reader
  BY TaskFacts DEF Ask
<1>2. k.todo \in SUBSET Entries /\ k.kind # "request" /\ \E q \in k.todo : q[1] = k.src
  BY <1>1, TaskFacts, ReaderFields DEF Shape
<1>3. CASE task' = [task EXCEPT ![t] = [k EXCEPT !.pc = "record"]]
  <2> DEFINE r == [k EXCEPT !.pc = "record"]
  <2>1. r \in Reader /\ r.pc = "record" /\ r.kind = k.kind /\ r.todo = k.todo /\ r.src = k.src
    <3> HIDE DEF k
    <3> QED
      BY <1>1 DEF Reader, Stages
  <2> HIDE DEF r
  <2>2. Shape(r)
    BY <1>2, <2>1 DEF Shape, Reading
  <2> QED
    BY <1>1, <1>3, <2>1, <2>2, QuietStep DEF r
<1>4. CASE \E p \in k.todo : \E q \in Says[p[3]] :
             p[1] = k.src /\ task' = [task EXCEPT ![t] = [k EXCEPT !.pc = "cite", !.dec = p[2], !.quote = q]]
  <2>0. PICK p \in k.todo : \E q \in Says[p[3]] :
             p[1] = k.src /\ task' = [task EXCEPT ![t] = [k EXCEPT !.pc = "cite", !.dec = p[2], !.quote = q]]
    BY <1>4
  <2>1. PICK q \in Says[p[3]] :
             p[1] = k.src /\ task' = [task EXCEPT ![t] = [k EXCEPT !.pc = "cite", !.dec = p[2], !.quote = q]]
    BY <2>0
  <2>2. p[1] \in Sources /\ p[2] \in Decisions /\ q \in Passages
    BY <1>2, <2>1, EntryFields DEF CheckConstants
  <2> DEFINE r == [k EXCEPT !.pc = "cite", !.dec = p[2], !.quote = q]
  <2>3. r \in Reader /\ r.pc = "cite" /\ r.kind = k.kind /\ r.todo = k.todo /\ r.src = k.src /\ r.dec = p[2] /\ r.quote = q
    <3> HIDE DEF k
    <3> QED
      BY <1>1, <2>2 DEF Reader, Stages
  <2> HIDE DEF r
  <2>4. Shape(r)
    BY <1>2, <2>1, <2>2, <2>3 DEF Shape, Reading
  <2>5. task' = [task EXCEPT ![t] = r]
    BY <2>1 DEF r
  <2> QED
    BY <1>1, <2>3, <2>4, <2>5, QuietStep
<1>5. \/ Goto(t, "record")
      \/ \E p \in k.todo : \E q \in Says[p[3]] \ {e.quote : e \in k.snap[p[2]]} :
           p[1] = k.src /\ task' = [task EXCEPT ![t].pc = "cite", ![t].dec = p[2], ![t].quote = q]
  BY DEF Ask
<1>6. CASE Goto(t, "record")
  BY <1>3, <1>6, TaskFacts DEF Goto
<1>7. ASSUME NEW p \in k.todo, NEW q \in Says[p[3]] \ {e.quote : e \in k.snap[p[2]]}, p[1] = k.src,
             task' = [task EXCEPT ![t].pc = "cite", ![t].dec = p[2], ![t].quote = q]
      PROVE  NumbersInv'
  <2>1. task' = [task EXCEPT ![t] = [k EXCEPT !.pc = "cite", !.dec = p[2], !.quote = q]]
    BY <1>7, TaskFacts
  <2> QED
    BY <1>4, <1>7, <2>1
<1> QED
  BY <1>5, <1>6, <1>7

LEMMA CiteNumbers ==
    ASSUME CheckConstants, NumbersInv, NEW t \in Tasks, Cite(t)
    PROVE  NumbersInv'
<1> DEFINE k == task[t]
<1>1. k.pc = "cite" /\ UNCHANGED <<text, dec, lease, window, read, embedded, history, crashes>> /\ k \in Reader
  BY TaskFacts DEF Cite
<1>2. k.src \in Sources /\ k.dec \in Decisions /\ k.quote \in Passages
      /\ (k.kind # "request" => \E q \in k.todo : q[1] = k.src) /\ (k.todo # {} => k.kind # "request")
  BY <1>1, TaskFacts DEF Shape
<1>4. CASE Over(t)
  BY <1>1, <1>4, OverIs, EndedIs, QuietStep, WorldFacts
<1>5. CASE text[k.src] # None /\ task' = [task EXCEPT ![t] = [k EXCEPT !.pc = "add", !.fp = text[k.src], !.fresh = TRUE]]
  <2> DEFINE r == [k EXCEPT !.pc = "add", !.fp = text[k.src], !.fresh = TRUE]
  <2>1. text[k.src] \in Texts
    BY <1>2, <1>5, WorldFacts
  <2>2. /\ r \in Reader /\ r.pc = "add" /\ r.kind = k.kind /\ r.todo = k.todo
        /\ r.src = k.src /\ r.dec = k.dec /\ r.quote = k.quote /\ r.fp = text[k.src]
    <3> HIDE DEF k
    <3> QED
      BY <1>1, <2>1 DEF Reader, Stages
  <2> HIDE DEF r
  <2>3. Shape(r)
    BY <1>2, <2>1, <2>2 DEF Shape, Reading
  <2> QED
    BY <1>1, <1>5, <2>2, <2>3, QuietStep DEF r
<1>6. CASE k.kind # "request" /\ task' = [task EXCEPT ![t] = [k EXCEPT !.pc = "record"]]
  <2> DEFINE r == [k EXCEPT !.pc = "record"]
  <2>1. r \in Reader /\ r.pc = "record" /\ r.kind = k.kind /\ r.todo = k.todo /\ r.src = k.src
    <3> HIDE DEF k
    <3> QED
      BY <1>1 DEF Reader, Stages
  <2> HIDE DEF r
  <2>2. Shape(r)
    BY <1>2, <1>6, <2>1 DEF Shape, Reading
  <2> QED
    BY <1>1, <1>6, <2>1, <2>2, QuietStep DEF r
<1> QED
  BY <1>4, <1>5, <1>6, TaskFacts DEF Cite, Goto

LEMMA ReadDecisionNumbers ==
    ASSUME CheckConstants, NumbersInv, NEW t \in Tasks, ReadDecision(t)
    PROVE  NumbersInv'
<1> DEFINE k == task[t]
<1>1. k.pc = "add" /\ UNCHANGED <<text, dec, lease, window, read, embedded, history, crashes>> /\ k \in Reader
  BY TaskFacts DEF ReadDecision
<1>2. k.src \in Sources /\ k.dec \in Decisions /\ k.quote \in Passages /\ k.fp \in Texts
      /\ (k.kind # "request" => \E q \in k.todo : q[1] = k.src) /\ (k.todo # {} => k.kind # "request")
  BY <1>1, TaskFacts DEF Shape
<1>4. CASE Over(t)
  BY <1>1, <1>4, OverIs, EndedIs, QuietStep, WorldFacts
<1>5. CASE k.tries # MaxTries /\ task' = [task EXCEPT ![t] = [k EXCEPT !.pc = "put", !.tries = @ + 1, !.seen = dec[k.dec].sources]]
  <2> DEFINE n == k.tries + 1
             seen == dec[k.dec].sources
             r == [k EXCEPT !.pc = "put", !.tries = n, !.seen = seen]
  <2>0. k.tries \in {0} \cup 1..MaxTries /\ k.tries # MaxTries /\ MaxTries \in Nat
    BY <1>1, <1>5, ReaderFields DEF CheckConstants
  <2>1. n \in {0} \cup 1..MaxTries /\ seen \in Seq(Sources)
    BY <1>2, <2>0, DecisionFacts
  <2>2. task' = [task EXCEPT ![t] = r]
    BY <1>5
  <2> HIDE DEF n, seen
  <2>3. /\ r \in Reader /\ r.pc = "put" /\ r.kind = k.kind /\ r.todo = k.todo /\ r.seen = seen
        /\ r.src = k.src /\ r.dec = k.dec /\ r.quote = k.quote /\ r.fp = k.fp
    <3> HIDE DEF k
    <3> QED
      BY <1>1, <2>1 DEF Reader, Stages
  <2>4. Len(seen) \in Nat
    BY <2>1
  <2> HIDE DEF r
  <2>5. Shape(r)
    BY <1>2, <2>3, <2>4 DEF Shape, Reading, seen
  <2> QED
    BY <1>1, <2>2, <2>3, <2>5, QuietStep DEF r
<1>6. CASE k.kind # "request" /\ task' = [task EXCEPT ![t] = [k EXCEPT !.pc = "record"]]
  <2> DEFINE r == [k EXCEPT !.pc = "record"]
  <2>1. r \in Reader /\ r.pc = "record" /\ r.kind = k.kind /\ r.todo = k.todo /\ r.src = k.src
    <3> HIDE DEF k
    <3> QED
      BY <1>1 DEF Reader, Stages
  <2> HIDE DEF r
  <2>2. Shape(r)
    BY <1>2, <1>6, <2>1 DEF Shape, Reading
  <2> QED
    BY <1>1, <1>6, <2>1, <2>2, QuietStep DEF r
<1> QED
  BY <1>4, <1>5, <1>6, TaskFacts DEF ReadDecision, Goto

LEMMA RecordNumbers ==
    ASSUME CheckConstants, NumbersInv, NEW t \in Tasks, Record(t)
    PROVE  NumbersInv'
<1> DEFINE k == task[t]
           mine == Of(k.src, k.todo)
           x == (CHOOSE p \in mine : TRUE)[3]
           rest == k.todo \ mine
           r == [k EXCEPT !.pc = "next", !.todo = rest, !.src = None, !.dec = None, !.quote = None, !.fp = None,
                          !.fresh = TRUE, !.seen = <<>>, !.tries = 0]
<1>1. /\ k.pc = "record" /\ UNCHANGED <<text, dec, lease, window, embedded, missed, crashes>> /\ k \in Reader
      /\ read' = (IF Inside(t) THEN [read EXCEPT ![k.src] = x] ELSE read)
      /\ task' = [task EXCEPT ![t] = r]
      /\ owed' \in SUBSET (Sources \X Decisions)
  BY TaskFacts, WorldFacts DEF Record
<1>2. k.kind # "request" /\ mine # {} /\ mine \subseteq k.todo /\ k.todo \in SUBSET Entries
  BY <1>1, TaskFacts, ReaderFields DEF Shape, Of
<1>3. x \in Texts
  BY <1>2, EntryFields
<1>4. read' \in [Sources -> Texts \cup {None}]
  BY <1>1, <1>3, WorldFacts
<1>5. rest \in SUBSET Entries /\ "next" \in Stages /\ <<>> \in Seq(Sources)
  BY <1>2 DEF Stages
<1> HIDE DEF rest
<1>6. r \in Reader /\ r.pc = "next" /\ r.kind = k.kind
  <2> HIDE DEF k
  <2> QED
    BY <1>1, <1>5 DEF Reader
<1> HIDE DEF r
<1>7. Shape(r)
  BY <1>2, <1>6 DEF Shape, Reading
<1>8. Records'
  BY <1>1, <1>4, WorldFacts DEF Records, window
<1> QED
  BY <1>1, <1>6, <1>7, <1>8, LocalStep

LEMMA EndDoes ==
    ASSUME NumbersInv, NEW t \in Tasks, End(t)
    PROVE  /\ Over(t) /\ UNCHANGED <<text, dec, lease, read, embedded, owed>>
           /\ task[t].pc \in {"next", "end"}
           /\ \/ UNCHANGED <<window, missed>>
              \/ /\ Inside(t) /\ scanned' = TRUE /\ due' = task[t].changed /\ created' = Unborn \cup task[t].born
                 /\ missed' = missed \ (DOMAIN task[t].found \ task[t].changed)
BY DEF End, Finish

LEMMA EndNumbers ==
    ASSUME NumbersInv, NEW t \in Tasks, End(t)
    PROVE  NumbersInv'
<1>1. task[t].changed \in SUBSET Sources /\ task[t].born \in SUBSET Sources
  BY TaskFacts, ReaderFields
<1>2. Records'
  BY <1>1, EndDoes, WorldFacts DEF Records, Unborn, window
<1> QED
  BY <1>2, EndDoes, OverIs, EndedIs, LocalStep, WorldFacts

LEMMA FailNumbers ==
    ASSUME NumbersInv, NEW t \in Tasks, Fail(t)
    PROVE  NumbersInv'
BY OverIs, EndedIs, QuietStep, WorldFacts DEF Fail

LEMMA CrashNumbers ==
    ASSUME NumbersInv, NEW t \in Tasks, Crash(t)
    PROVE  NumbersInv'
BY IdleIs, QuietStep DEF Crash

LEMMA AskToAddNumbers ==
    ASSUME NumbersInv, NEW t \in Tasks, NEW d \in Decisions, NEW s \in Sources, NEW q \in Passages,
           NEW against \in BOOLEAN, AskToAdd(t, d, s, q, against)
    PROVE  NumbersInv'
<1> DEFINE r == [Idle EXCEPT !.pc = "cite", !.dec = d, !.src = s, !.quote = q, !.against = against]
<1>1. r \in Reader
  BY IdleIs DEF Reader, Stages
<1>2. Shape(r)
  BY DEF Idle, Shape
<1> QED
  BY <1>1, <1>2, QuietStep DEF AskToAdd

LEMMA ScanAcceptedNumbers ==
    ASSUME CheckConstants, NumbersInv, NEW t \in Tasks, NEW d \in Decisions, ScanAccepted(t, d)
    PROVE  NumbersInv'
<1>1. PICK close \in SUBSET Sources :
        task' = [task EXCEPT ![t] = [Idle EXCEPT !.pc = "next", !.kind = "scan", !.snap = [x \in {d} |-> Evidence(x)],
                                         !.todo = {<<s, d, text[s]>> : s \in {w \in close : text[w] # None}}]]
  BY DEF ScanAccepted
<1> DEFINE snap == [x \in {d} |-> Evidence(x)]
           todo == {<<s, d, text[s]>> : s \in {w \in close : text[w] # None}}
           r == [Idle EXCEPT !.pc = "next", !.kind = "scan", !.snap = snap, !.todo = todo]
<1>2. snap \in Snaps
  <2>1. snap \in [{d} -> SUBSET Entry]
    BY DecisionFacts
  <2> QED
    BY <2>1, SnapsMember
<1>3. todo \in SUBSET Entries
  BY WorldFacts DEF Entries
<1>4. task' = [task EXCEPT ![t] = r]
  BY <1>1
<1> HIDE DEF snap, todo
<1>5. r \in Reader
  BY <1>2, <1>3, IdleIs DEF Reader, Stages
<1>6. r.pc = "next" /\ r.kind = "scan"
  BY DEF Idle
<1> HIDE DEF r
<1>7. Shape(r)
  BY <1>6 DEF Shape, Reading
<1>8. Records'
  BY WorldFacts DEF ScanAccepted, Records, Filled, window, history
<1> QED
  BY <1>4, <1>5, <1>7, <1>8, LocalStep DEF ScanAccepted

LEMMA SuggestNumbers ==
    ASSUME NumbersInv, NEW t \in Tasks, NEW s \in Sources, Suggest(t, s)
    PROVE  NumbersInv'
<1> DEFINE r == [Idle EXCEPT !.pc = "vector", !.src = s, !.fp = text[s]]
<1>1. text[s] \in Texts
  BY WorldFacts DEF Suggest
<1>2. r \in Reader
  BY <1>1, IdleIs DEF Reader, Stages
<1>3. Shape(r)
  BY <1>1 DEF Idle, Shape, Reading
<1> QED
  BY <1>2, <1>3, QuietStep DEF Suggest

LEMMA RefreshVectorNumbers ==
    ASSUME NumbersInv, NEW t \in Tasks, RefreshVector(t)
    PROVE  NumbersInv'
<1>1. task[t].fp \in Texts
  BY TaskFacts DEF Shape, RefreshVector
<1>2. Records'
  BY <1>1, WorldFacts DEF RefreshVector, Records, window, history
<1> QED
  BY <1>2, OverIs, EndedIs, LocalStep, WorldFacts DEF RefreshVector

\* A step that adds no evidence and gives no number.
LEMMA DecisionStep ==
    ASSUME NumbersInv, dec' \in [Decisions -> Decision], task' \in [Tasks -> Reader],
           \A d \in Decisions :
             /\ dec'[d].sources = dec[d].sources /\ Len(dec'[d].evidence) <= Len(dec[d].evidence)
             /\ \A i \in 1..Len(dec'[d].evidence) : \E j \in 1..Len(dec[d].evidence) :
                  dec'[d].evidence[i].src = dec[d].evidence[j].src,
           \A b \in Tasks : \E c \in Reader : task'[b] = c /\ Shape(c),
           text' = text, Records', CheckConstants
    PROVE  NumbersInv'
<1>1. CheckTypes'
  <2>1. ASSUME NEW d \in Decisions
        PROVE  Len(dec'[d].evidence) <= MaxEvidence
    <3>1. dec'[d].evidence \in Seq(Entry) /\ dec[d].evidence \in Seq(Entry)
      BY DecisionFacts DEF Decision
    <3>2. Len(dec'[d].evidence) \in Nat /\ Len(dec[d].evidence) \in Nat /\ MaxEvidence \in Nat
      BY <3>1 DEF CheckConstants
    <3>3. Len(dec'[d].evidence) <= Len(dec[d].evidence) /\ Len(dec[d].evidence) <= MaxEvidence
      BY WorldFacts
    <3> QED
      BY <3>2, <3>3
  <2> QED
    BY <2>1 DEF NumbersInv, CheckTypes
<1>2. ASSUME NEW b \in Tasks
      PROVE  Shape(task[b])'
  <2>1. PICK c \in Reader : task'[b] = c /\ Shape(c)
    OBVIOUS
  <2>2. c.pc = "put" => c.dec \in Decisions
    BY <2>1 DEF Shape
  <2>3. c.pc = "put" => dec'[c.dec].sources = dec[c.dec].sources
    BY <2>2
  <2> QED
    BY <2>1, <2>3 DEF Shape
<1>3. ASSUME NEW d \in Decisions
      PROVE  Numbered(d)'
  <2>1. Numbered(d) /\ dec'[d].sources = dec[d].sources /\ text' = text
    BY DEF NumbersInv
  <2>2. \A i, j \in 1..Len(dec'[d].sources) : dec'[d].sources[i] = dec'[d].sources[j] => i = j
    BY <2>1 DEF Numbered
  <2>3. ASSUME NEW i \in 1..Len(dec'[d].evidence)
        PROVE  \E j \in 1..Len(dec'[d].sources) : dec'[d].sources[j] = dec'[d].evidence[i].src
    <3>1. PICK m \in 1..Len(dec[d].evidence) : dec'[d].evidence[i].src = dec[d].evidence[m].src
      OBVIOUS
    <3>2. \E j \in 1..Len(dec[d].sources) : dec[d].sources[j] = dec[d].evidence[m].src
      BY <2>1 DEF Numbered
    <3> QED
      BY <2>1, <3>1, <3>2
  <2> QED
    BY <2>1, <2>2, <2>3 DEF Numbered
<1> QED
  BY <1>1, <1>2, <1>3 DEF NumbersInv

LEMMA StoreAttentionNumbers ==
    ASSUME CheckConstants, NumbersInv, NEW t \in Tasks, StoreAttention(t)
    PROVE  NumbersInv'
<1> DEFINE k == task[t]
<1>1. k.pc = "store" /\ UNCHANGED <<text, lease, window, read, embedded, history>> /\ k \in Reader /\ Shape(k)
  BY TaskFacts DEF StoreAttention
<1>2. ASSUME NEW d \in Decisions
      PROVE  /\ dec'[d] \in Decision /\ dec'[d].sources = dec[d].sources /\ dec'[d].evidence = dec[d].evidence
             /\ dec'[d].status = dec[d].status
  <2>1. PICK b \in BOOLEAN : dec'[d] = [dec[d] EXCEPT !.flag = b] \/ dec'[d] = dec[d]
    BY DEF StoreAttention
  <2>2. dec[d] \in Decision
    BY WorldFacts
  <2> QED
    BY <2>1, <2>2 DEF Decision
<1>3. dec' \in [Decisions -> Decision]
  <2>1. dec' = [d \in Decisions |-> dec'[d]]
    BY DEF StoreAttention
  <2> QED
    BY <1>2, <2>1
<1>4. \E r \in Reader : Shape(r) /\ task' = [task EXCEPT ![t] = r]
  <2>1. CASE Inside(t)
    <3> DEFINE r == [k EXCEPT !.pc = "look", !.flags = {}]
    <3>1. r \in Reader /\ r.pc = "look" /\ r.kind = k.kind /\ r.todo = k.todo
      <4> HIDE DEF k
      <4> QED
        BY <1>1 DEF Reader, Stages
    <3>2. task' = [task EXCEPT ![t] = r]
      BY <2>1, TaskFacts DEF StoreAttention
    <3> HIDE DEF r
    <3>3. Shape(r)
      BY <1>1, <2>1, <3>1 DEF Shape, Reading, Inside
    <3> QED
      BY <3>1, <3>2, <3>3
  <2>2. CASE ~Inside(t)
    BY <2>2, IdleIs, TaskFacts DEF StoreAttention
  <2> QED
    BY <2>1, <2>2
<1>5. PICK r \in Reader : Shape(r) /\ task' = [task EXCEPT ![t] = r]
  BY <1>4
<1>6. task' \in [Tasks -> Reader]
  BY <1>5, WorldFacts
<1>7. \A b \in Tasks : \E c \in Reader : task'[b] = c /\ Shape(c)
  <2>1. \A b \in Tasks : task'[b] = IF b = t THEN r ELSE task[b]
    BY <1>5, WorldFacts
  <2> QED
    BY <1>5, <2>1, TaskFacts
<1>8. \A d \in Decisions : Len(dec[d].evidence) <= Len(dec[d].evidence)
  BY DecisionFacts
<1>9. Records'
  BY <1>1, SameRecords
<1> QED
  BY <1>1, <1>2, <1>3, <1>6, <1>7, <1>8, <1>9, DecisionStep

\* A task that a step changed only in what its shape does not say.
LEMMA SameShape ==
    ASSUME NEW k, NEW r, Shape(k), r.pc = k.pc, r.kind = k.kind, r.todo = k.todo, r.src = k.src, r.dec = k.dec,
           r.quote = k.quote, r.fp = k.fp, r.seen = k.seen, r.edited = k.edited, r.found = k.found
    PROVE  Shape(r)
BY DEF Shape

LEMMA ChangeStatusNumbers ==
    ASSUME CheckConstants, NumbersInv, NEW d \in Decisions, NEW status \in Statuses, ChangeStatus(d, status)
    PROVE  NumbersInv'
<1> DEFINE e == dec[d].evidence
           older == [i \in DOMAIN e |-> [e[i] EXCEPT !.new = FALSE]]
<1>1. /\ dec' = [dec EXCEPT ![d] = [dec[d] EXCEPT !.status = status, !.evidence = older]]
      /\ task' = [t \in Tasks |-> IF task[t].dec = d THEN [task[t] EXCEPT !.fresh = FALSE] ELSE task[t]]
      /\ text' = text /\ Records'
  BY WorldFacts DEF ChangeStatus, Records, window
<1>2. e \in Seq(Entry) /\ DOMAIN e = 1..Len(e)
  BY DecisionFacts
<1>3. \A i \in 1..Len(e) : [e[i] EXCEPT !.new = FALSE] \in Entry /\ [e[i] EXCEPT !.new = FALSE].src = e[i].src
  <2>1. \A i \in 1..Len(e) : e[i] \in Entry
    BY <1>2
  <2> HIDE DEF e
  <2> QED
    BY <2>1 DEF Entry
<1>4. older \in Seq(Entry) /\ Len(older) = Len(e) /\ \A i \in 1..Len(e) : older[i].src = e[i].src
  BY <1>2, <1>3
<1> HIDE DEF older
<1>5. [dec[d] EXCEPT !.status = status, !.evidence = older] \in Decision
  BY <1>4, DecisionFacts DEF Decision
<1>6. dec' \in [Decisions -> Decision]
  BY <1>1, <1>5, WorldFacts
<1>7. ASSUME NEW c \in Decisions
      PROVE  /\ dec'[c].sources = dec[c].sources /\ Len(dec'[c].evidence) <= Len(dec[c].evidence)
             /\ \A i \in 1..Len(dec'[c].evidence) : \E j \in 1..Len(dec[c].evidence) :
                  dec'[c].evidence[i].src = dec[c].evidence[j].src
  <2>1. Len(dec[c].evidence) \in Nat
    BY DecisionFacts
  <2>2. CASE c = d
    <3>1. dec'[c].sources = dec[c].sources /\ dec'[c].evidence = older
      BY <1>1, <2>2, DecisionFacts, WorldFacts DEF Decision
    <3> QED
      BY <1>4, <2>1, <2>2, <3>1
  <2>3. CASE c # d
    <3>1. dec'[c] = dec[c]
      BY <1>1, <2>3, WorldFacts
    <3> QED
      BY <2>1, <3>1
  <2> QED
    BY <2>2, <2>3
<1>8. ASSUME NEW b \in Tasks
      PROVE  \E c \in Reader : task'[b] = c /\ Shape(c)
  <2>1. task[b] \in Reader /\ Shape(task[b])
    BY TaskFacts
  <2>2. CASE task[b].dec = d
    <3> DEFINE c == [task[b] EXCEPT !.fresh = FALSE]
    <3>1. /\ c \in Reader /\ c.pc = task[b].pc /\ c.kind = task[b].kind /\ c.todo = task[b].todo /\ c.src = task[b].src
          /\ c.dec = task[b].dec /\ c.quote = task[b].quote /\ c.fp = task[b].fp /\ c.seen = task[b].seen
          /\ c.edited = task[b].edited /\ c.found = task[b].found
      BY <2>1 DEF Reader
    <3>2. task'[b] = c
      BY <1>1, <2>2
    <3> HIDE DEF c
    <3> QED
      BY <2>1, <3>1, <3>2, SameShape
  <2>3. CASE task[b].dec # d
    BY <1>1, <2>1, <2>3
  <2> QED
    BY <2>2, <2>3
<1>9. task' \in [Tasks -> Reader]
  <2>1. \A b \in Tasks : task'[b] \in Reader
    BY <1>8
  <2> QED
    BY <1>1, <2>1
<1> QED
  BY <1>1, <1>6, <1>7, <1>8, <1>9, DecisionStep

\* What is left of a sequence without its i-th.
LEMMA RemoveFacts ==
    ASSUME NEW S, NEW e \in Seq(S), NEW i \in 1..Len(e)
    PROVE  /\ RemoveAt(e, i) \in Seq(S) /\ Len(RemoveAt(e, i)) = Len(e) - 1
           /\ \A j \in 1..Len(RemoveAt(e, i)) : \E m \in 1..Len(e) : RemoveAt(e, i)[j] = e[m]
<1>1. SubSeq(e, 1, i - 1) \in Seq(S) /\ Len(SubSeq(e, 1, i - 1)) = i - 1
      /\ \A j \in 1..(i - 1) : SubSeq(e, 1, i - 1)[j] = e[j]
  OBVIOUS
<1>2. SubSeq(e, i + 1, Len(e)) \in Seq(S) /\ Len(SubSeq(e, i + 1, Len(e))) = Len(e) - i
      /\ \A j \in 1..(Len(e) - i) : SubSeq(e, i + 1, Len(e))[j] = e[j + i]
  OBVIOUS
<1> DEFINE a == SubSeq(e, 1, i - 1)
           b == SubSeq(e, i + 1, Len(e))
<1>3. RemoveAt(e, i) = a \o b
  BY DEF RemoveAt
<1> HIDE DEF a, b
<1>4. a \in Seq(S) /\ b \in Seq(S) /\ Len(a) = i - 1 /\ Len(b) = Len(e) - i /\ Len(e) \in Nat
  BY <1>1, <1>2 DEF a, b
<1>5. a \o b \in Seq(S) /\ Len(a \o b) = Len(e) - 1
  BY <1>4
<1>6. ASSUME NEW j \in 1..(Len(e) - 1)
      PROVE  \E m \in 1..Len(e) : (a \o b)[j] = e[m]
  <2>1. CASE j <= i - 1
    <3>1. (a \o b)[j] = a[j] /\ j \in 1..(i - 1) /\ j \in 1..Len(e)
      BY <1>4, <2>1
    <3> QED
      BY <1>1, <3>1 DEF a
  <2>2. CASE j > i - 1
    <3>1. (a \o b)[j] = b[j - (i - 1)] /\ j - (i - 1) \in 1..(Len(e) - i) /\ j + 1 \in 1..Len(e)
          /\ j - (i - 1) + i = j + 1
      BY <1>4, <2>2
    <3>2. b[j - (i - 1)] = e[j - (i - 1) + i]
      BY <1>2, <3>1 DEF b
    <3> QED
      BY <3>1, <3>2
  <2> QED
    BY <1>4, <2>1, <2>2
<1> QED
  BY <1>3, <1>4, <1>5, <1>6

LEMMA RemoveEvidenceNumbers ==
    ASSUME CheckConstants, NumbersInv, NEW d \in Decisions, NEW i, RemoveEvidence(d, i)
    PROVE  NumbersInv'
<1> DEFINE e == dec[d].evidence
           fewer == RemoveAt(e, i)
<1>1. e \in Seq(Entry) /\ i \in 1..Len(e)
  BY DecisionFacts DEF RemoveEvidence
<1>2. /\ dec' = [dec EXCEPT ![d] = [dec[d] EXCEPT !.evidence = fewer]]
      /\ UNCHANGED <<text, task>> /\ Records'
  BY WorldFacts DEF RemoveEvidence, Records, window
<1>3. fewer \in Seq(Entry) /\ Len(fewer) = Len(e) - 1 /\ \A j \in 1..Len(fewer) : \E m \in 1..Len(e) : fewer[j] = e[m]
  BY <1>1, RemoveFacts
<1> HIDE DEF fewer
<1>4. dec' \in [Decisions -> Decision]
  <2>1. [dec[d] EXCEPT !.evidence = fewer] \in Decision
    BY <1>3, DecisionFacts DEF Decision
  <2> QED
    BY <1>2, <2>1, WorldFacts
<1>5. ASSUME NEW c \in Decisions
      PROVE  /\ dec'[c].sources = dec[c].sources /\ Len(dec'[c].evidence) <= Len(dec[c].evidence)
             /\ \A j \in 1..Len(dec'[c].evidence) : \E m \in 1..Len(dec[c].evidence) :
                  dec'[c].evidence[j].src = dec[c].evidence[m].src
  <2>1. Len(dec[c].evidence) \in Nat
    BY DecisionFacts
  <2>2. CASE c = d
    <3>1. dec'[c].sources = dec[c].sources /\ dec'[c].evidence = fewer
      BY <1>2, <2>2, DecisionFacts, WorldFacts DEF Decision
    <3>2. Len(fewer) <= Len(e)
      BY <1>1, <1>3
    <3>3. \A j \in 1..Len(fewer) : \E m \in 1..Len(e) : fewer[j].src = e[m].src
      BY <1>3
    <3> QED
      BY <2>2, <3>1, <3>2, <3>3
  <2>3. CASE c # d
    <3>1. dec'[c] = dec[c]
      BY <1>2, <2>3, WorldFacts
    <3> QED
      BY <2>1, <3>1
  <2> QED
    BY <2>2, <2>3
<1> QED
  BY <1>2, <1>4, <1>5, DecisionStep, TaskFacts, WorldFacts

\* Numbering a source gives it one number and changes no other.
LEMMA WithSourcesFacts ==
    ASSUME NEW q \in Seq(Sources), NEW s \in Sources, \A i, j \in 1..Len(q) : q[i] = q[j] => i = j
    PROVE  /\ WithSources(q, s) \in Seq(Sources) /\ Len(WithSources(q, s)) \in Nat
           /\ Len(q) <= Len(WithSources(q, s)) /\ (Len(WithSources(q, s)) <= Len(q) => WithSources(q, s) = q)
           /\ \A i, j \in 1..Len(WithSources(q, s)) : WithSources(q, s)[i] = WithSources(q, s)[j] => i = j
           /\ \E j \in 1..Len(WithSources(q, s)) : WithSources(q, s)[j] = s
           /\ \A i \in 1..Len(q) : i \in 1..Len(WithSources(q, s)) /\ WithSources(q, s)[i] = q[i]
<1>1. s \in Range(q) <=> \E i \in 1..Len(q) : q[i] = s
  BY DEF Range
<1>2. CASE s \in Range(q)
  BY <1>1, <1>2 DEF WithSources
<1>3. CASE s \notin Range(q)
  <2>1. WithSources(q, s) = Append(q, s)
    BY <1>3 DEF WithSources
  <2>2. /\ Append(q, s) \in Seq(Sources) /\ Len(Append(q, s)) = Len(q) + 1 /\ Len(q) \in Nat
        /\ \A i \in 1..Len(q) : Append(q, s)[i] = q[i]
        /\ Append(q, s)[Len(q) + 1] = s
    OBVIOUS
  <2>3. \A i \in 1..Len(q) : q[i] # s
    BY <1>1, <1>3
  <2>4. ASSUME NEW i \in 1..(Len(q) + 1), NEW j \in 1..(Len(q) + 1), Append(q, s)[i] = Append(q, s)[j]
        PROVE  i = j
    BY <2>2, <2>3, <2>4
  <2>5. Len(q) + 1 \in 1..(Len(q) + 1) /\ \A i \in 1..Len(q) : i \in 1..(Len(q) + 1)
    BY <2>2
  <2>6. Len(q) + 1 \in Nat /\ Len(q) <= Len(q) + 1 /\ ~(Len(q) + 1 <= Len(q))
    BY <2>2
  <2> QED
    BY <2>1, <2>2, <2>4, <2>5, <2>6
<1> QED
  BY <1>2, <1>3

LEMMA AppendFacts ==
    ASSUME NEW S, NEW e \in Seq(S), NEW x \in S
    PROVE  /\ Append(e, x) \in Seq(S) /\ Len(Append(e, x)) = Len(e) + 1 /\ Len(e) \in Nat
           /\ \A i \in 1..Len(Append(e, x)) : Append(e, x)[i] = x \/ (i \in 1..Len(e) /\ Append(e, x)[i] = e[i])
OBVIOUS

\* What is put with a decision.
LEMMA PutDoes ==
    ASSUME CheckConstants, NumbersInv, NEW t \in Tasks, task[t].pc = "put", Put(t),
           Len(dec[task[t].dec].sources) = Len(task[t].seen)
    PROVE  /\ task[t].dec \in Decisions /\ task[t].src \in Sources /\ NewEvidence(task[t]) \in Entry
           /\ NewEvidence(task[t]).src = task[t].src
           /\ dec' = [dec EXCEPT ![task[t].dec] = [dec[task[t].dec] EXCEPT
                        !.evidence = Append(dec[task[t].dec].evidence, NewEvidence(task[t])),
                        !.sources = WithSources(dec[task[t].dec].sources, task[t].src)]]
<1> DEFINE k == task[t]
<1>1. k \in Reader /\ Shape(k)
  BY TaskFacts
<1>2. k.src \in Sources /\ k.dec \in Decisions /\ k.quote \in Passages /\ k.fp \in Texts
  BY <1>1 DEF Shape
<1>3. k.seen = dec[k.dec].sources
  BY <1>1 DEF Shape
<1>4. NewEvidence(k) \in Entry /\ NewEvidence(k).src = k.src
  <2>1. k.against \in BOOLEAN /\ k.fresh \in BOOLEAN
    BY <1>1, ReaderFields
  <2> HIDE DEF k
  <2> QED
    BY <1>2, <2>1 DEF NewEvidence, Entry
<1>5. dec' = [dec EXCEPT ![k.dec] = [dec[k.dec] EXCEPT !.evidence = Append(dec[k.dec].evidence, NewEvidence(k)),
                                       !.sources = WithSources(k.seen, k.src)]]
  BY <1>2, WorldFacts DEF Put, Decision
<1> QED
  BY <1>2, <1>3, <1>4, <1>5

\* A task that was at "put" or before and goes on or is over.
LEMMA MovesOn ==
    ASSUME NEW t \in Tasks, NumbersInv, task[t].pc = "put",
           IF task[t].kind # "request" THEN Goto(t, "record") ELSE Over(t)
    PROVE  \E r \in Reader : task' = [task EXCEPT ![t] = r] /\ Shape(r) /\ r.pc # "put"
<1> DEFINE k == task[t]
<1>1. k \in Reader /\ Shape(k)
  BY TaskFacts
<1>2. CASE k.kind # "request"
  <2> DEFINE r == [k EXCEPT !.pc = "record"]
  <2>1. r \in Reader /\ r.pc = "record" /\ r.kind = k.kind /\ r.todo = k.todo /\ r.src = k.src
    <3> HIDE DEF k
    <3> QED
      BY <1>1 DEF Reader, Stages
  <2>2. task' = [task EXCEPT ![t] = r]
    BY <1>2, TaskFacts DEF Goto
  <2> HIDE DEF r
  <2>3. Shape(r)
    BY <1>1, <1>2, <2>1 DEF Shape, Reading
  <2> QED
    BY <2>1, <2>2, <2>3
<1>3. CASE k.kind = "request"
  <2>1. task' = [task EXCEPT ![t] = Ended(k)] /\ Ended(k) \in Reader /\ Shape(Ended(k))
    BY <1>3, OverIs, EndedIs, WorldFacts
  <2>2. Ended(k).pc # "put"
    BY <1>3 DEF Ended, Idle
  <2> QED
    BY <2>1, <2>2
<1> QED
  BY <1>2, <1>3

LEMMA PutNumbers ==
    ASSUME CheckConstants, NumbersInv, NEW t \in Tasks, task[t].pc = "put", Put(t),
           Len(dec[task[t].dec].evidence) < MaxEvidence, Len(dec[task[t].dec].sources) = Len(task[t].seen),
           UNCHANGED <<text, lease, window, read, embedded, history>>
    PROVE  NumbersInv'
<1> DEFINE k == task[t]
           e == dec[k.dec].evidence
           q == dec[k.dec].sources
           n == NewEvidence(k)
           g == WithSources(q, k.src)
<1>1. /\ k.dec \in Decisions /\ k.src \in Sources /\ n \in Entry /\ n.src = k.src
      /\ dec' = [dec EXCEPT ![k.dec] = [dec[k.dec] EXCEPT !.evidence = Append(e, n), !.sources = g]]
  BY PutDoes
<1>2. e \in Seq(Entry) /\ q \in Seq(Sources) /\ \A i, j \in 1..Len(q) : q[i] = q[j] => i = j
  BY <1>1, DecisionFacts DEF NumbersInv, Numbered
<1>3. /\ g \in Seq(Sources) /\ Len(g) \in Nat /\ Len(q) <= Len(g) /\ (Len(g) <= Len(q) => g = q)
      /\ \A i, j \in 1..Len(g) : g[i] = g[j] => i = j
      /\ \E j \in 1..Len(g) : g[j] = k.src
      /\ \A i \in 1..Len(q) : i \in 1..Len(g) /\ g[i] = q[i]
  <2> DEFINE s == k.src
  <2>1. s \in Sources /\ q \in Seq(Sources) /\ \A i, j \in 1..Len(q) : q[i] = q[j] => i = j
    BY <1>1, <1>2
  <2> HIDE DEF q, s
  <2>2. /\ WithSources(q, s) \in Seq(Sources) /\ Len(WithSources(q, s)) \in Nat
        /\ Len(q) <= Len(WithSources(q, s)) /\ (Len(WithSources(q, s)) <= Len(q) => WithSources(q, s) = q)
        /\ \A i, j \in 1..Len(WithSources(q, s)) : WithSources(q, s)[i] = WithSources(q, s)[j] => i = j
        /\ \E j \in 1..Len(WithSources(q, s)) : WithSources(q, s)[j] = s
        /\ \A i \in 1..Len(q) : i \in 1..Len(WithSources(q, s)) /\ WithSources(q, s)[i] = q[i]
    BY <2>1, WithSourcesFacts
  <2> QED
    BY <2>2 DEF s
<1>4. /\ Append(e, n) \in Seq(Entry) /\ Len(Append(e, n)) = Len(e) + 1 /\ Len(e) \in Nat
      /\ \A i \in 1..Len(Append(e, n)) : Append(e, n)[i] = n \/ (i \in 1..Len(e) /\ Append(e, n)[i] = e[i])
  BY <1>1, <1>2, AppendFacts
<1> DEFINE a == Append(e, n)
<1> HIDE DEF g, a
<1>5. [dec[k.dec] EXCEPT !.evidence = a, !.sources = g] \in Decision
  BY <1>1, <1>3, <1>4, DecisionFacts DEF Decision, a
<1>6. dec' \in [Decisions -> Decision]
  BY <1>1, <1>5, WorldFacts DEF a
<1>7. dec'[k.dec].evidence = a /\ dec'[k.dec].sources = g /\ \A d \in Decisions \ {k.dec} : dec'[d] = dec[d]
  BY <1>1, WorldFacts DEF a, Decision
<1>8. PICK r \in Reader : task' = [task EXCEPT ![t] = r] /\ Shape(r) /\ r.pc # "put"
  <2>1. IF k.kind # "request" THEN Goto(t, "record") ELSE Over(t)
    BY DEF Put
  <2> QED
    BY <2>1, MovesOn
<1> HIDE DEF k
<1>9. CheckTypes'
  <2>1. ASSUME NEW d \in Decisions
        PROVE  Len(dec'[d].evidence) <= MaxEvidence
    <3>1. CASE d = k.dec
      <4>1. Len(a) = Len(e) + 1 /\ Len(e) < MaxEvidence /\ MaxEvidence \in Nat
        BY <1>4 DEF CheckConstants, a, k
      <4>2. Len(a) <= MaxEvidence
        BY <1>4, <4>1
      <4> QED
        BY <1>7, <3>1, <4>2
    <3>2. CASE d # k.dec
      BY <1>7, <3>2, WorldFacts
    <3> QED
      BY <3>1, <3>2
  <2>2. task' \in [Tasks -> Reader] /\ Records'
    BY <1>8, SameRecords, WorldFacts
  <2> QED
    BY <1>6, <2>1, <2>2 DEF NumbersInv, CheckTypes
<1>10. ASSUME NEW b \in Tasks
       PROVE  Shape(task[b])'
  <2>1. CASE b = t
    <3>1. task'[b] = r
      BY <1>8, <2>1, WorldFacts
    <3> QED
      BY <1>8, <3>1 DEF Shape
  <2>2. CASE b # t
    <3>1. task'[b] = task[b] /\ Shape(task[b]) /\ task[b] \in Reader
      BY <1>8, <2>2, TaskFacts
    <3>2. ASSUME task[b].pc = "put"
          PROVE  /\ Len(task[b].seen) <= Len(dec'[task[b].dec].sources)
                 /\ Len(task[b].seen) = Len(dec'[task[b].dec].sources) => task[b].seen = dec'[task[b].dec].sources
      <4>1. /\ task[b].dec \in Decisions /\ Len(task[b].seen) <= Len(dec[task[b].dec].sources)
            /\ (Len(task[b].seen) = Len(dec[task[b].dec].sources) => task[b].seen = dec[task[b].dec].sources)
        BY <3>1, <3>2 DEF Shape
      <4>2. CASE task[b].dec = k.dec
        <5>1. Len(task[b].seen) \in Nat /\ Len(q) \in Nat
          BY <1>2, <3>1, ReaderFields
        <5>2. Len(task[b].seen) <= Len(g)
          BY <1>3, <4>1, <4>2, <5>1
        <5>3. ASSUME Len(task[b].seen) = Len(g)
              PROVE  task[b].seen = g
          BY <1>3, <4>1, <4>2, <5>1, <5>3
        <5> QED
          BY <1>7, <4>2, <5>2, <5>3
      <4>3. CASE task[b].dec # k.dec
        BY <1>7, <4>1, <4>3
      <4> QED
        BY <4>2, <4>3
    <3> QED
      BY <3>1, <3>2 DEF Shape
  <2> QED
    BY <2>1, <2>2
<1>11. ASSUME NEW d \in Decisions
       PROVE  Numbered(d)'
  <2>1. Numbered(d) /\ text' = text
    BY DEF NumbersInv
  <2>2. CASE d = k.dec
    <3>1. ASSUME NEW i \in 1..Len(a)
          PROVE  \E j \in 1..Len(g) : g[j] = a[i].src
      <4>1. CASE a[i] = n
        BY <1>1, <1>3, <4>1 DEF k
      <4>2. CASE i \in 1..Len(e) /\ a[i] = e[i]
        <5>1. \E j \in 1..Len(q) : q[j] = e[i].src
          BY <2>1, <2>2, <4>2 DEF Numbered
        <5> QED
          BY <1>3, <4>2, <5>1
      <4> QED
        BY <1>4, <4>1, <4>2 DEF a
    <3> QED
      <4>1. \A i, j \in 1..Len(g) : g[i] = g[j] => i = j
        BY <1>3
      <4>2. dec'[d].sources = g /\ dec'[d].evidence = a
        BY <1>7, <2>2
      <4> HIDE DEF e, q, n
      <4> QED
        BY <3>1, <4>1, <4>2 DEF Numbered
  <2>3. CASE d # k.dec
    BY <1>7, <2>1, <2>3 DEF Numbered
  <2> QED
    BY <2>2, <2>3
<1> QED
  BY <1>9, <1>10, <1>11 DEF NumbersInv

LEMMA AddEvidenceNumbers ==
    ASSUME CheckConstants, NumbersInv, NEW t \in Tasks, AddEvidence(t)
    PROVE  NumbersInv'
<1> DEFINE k == task[t]
<1>1. k.pc = "put" /\ UNCHANGED <<text, lease, window, read, embedded, history>> /\ k \in Reader /\ Shape(k)
  BY TaskFacts DEF AddEvidence
<1>2. CASE Len(dec[k.dec].evidence) < MaxEvidence /\ Len(dec[k.dec].sources) = Len(k.seen)
  BY <1>1, <1>2, PutNumbers DEF AddEvidence
<1>3. CASE ~(Len(dec[k.dec].evidence) < MaxEvidence /\ Len(dec[k.dec].sources) = Len(k.seen))
  <2> DEFINE r == [k EXCEPT !.pc = "add"]
  <2>1. /\ r \in Reader /\ r.pc = "add" /\ r.kind = k.kind /\ r.todo = k.todo
        /\ r.src = k.src /\ r.dec = k.dec /\ r.quote = k.quote /\ r.fp = k.fp
    <3> HIDE DEF k
    <3> QED
      BY <1>1 DEF Reader, Stages
  <2>2. task' = [task EXCEPT ![t] = r] /\ UNCHANGED dec
    BY <1>3, TaskFacts DEF AddEvidence, Goto
  <2> HIDE DEF r
  <2>3. Shape(r)
    BY <1>1, <2>1 DEF Shape, Reading
  <2> QED
    BY <1>1, <2>1, <2>2, <2>3, QuietStep
<1> QED
  BY <1>2, <1>3

-----------------------------------------------------------------------------
\* A task under way marks a source that is written as changed.
Marked(k, s) == [k EXCEPT !.changed = @ \cup {s}, !.born = @ \cup ({s} \cap Unborn)]

LEMMA MarkedIs ==
    ASSUME NEW k \in Reader, NEW s \in Sources
    PROVE  /\ Marked(k, s) \in Reader /\ Marked(k, s).changed = k.changed \cup {s}
           /\ Marked(k, s).born = k.born \cup ({s} \cap Unborn)
           /\ Marked(k, s).pc = k.pc /\ Marked(k, s).kind = k.kind /\ Marked(k, s).todo = k.todo /\ Marked(k, s).src = k.src
           /\ Marked(k, s).dec = k.dec /\ Marked(k, s).quote = k.quote /\ Marked(k, s).fp = k.fp /\ Marked(k, s).seen = k.seen
           /\ Marked(k, s).edited = k.edited /\ Marked(k, s).found = k.found /\ Marked(k, s).snap = k.snap
<1> DEFINE c == k.changed \cup {s}
           b == k.born \cup ({s} \cap Unborn)
<1>1. c \in SUBSET Sources /\ b \in SUBSET Sources
  BY ReaderFields
<1>2. Marked(k, s) = [k EXCEPT !.changed = c, !.born = b]
  BY DEF Marked, Reader
<1> HIDE DEF b, c
<1>4. [k EXCEPT !.changed = c, !.born = b] \in Reader
  BY <1>1 DEF Reader
<1>5. /\ [k EXCEPT !.changed = c, !.born = b].changed = c /\ [k EXCEPT !.changed = c, !.born = b].born = b
      /\ [k EXCEPT !.changed = c, !.born = b].pc = k.pc
      /\ [k EXCEPT !.changed = c, !.born = b].kind = k.kind /\ [k EXCEPT !.changed = c, !.born = b].todo = k.todo
      /\ [k EXCEPT !.changed = c, !.born = b].src = k.src /\ [k EXCEPT !.changed = c, !.born = b].dec = k.dec
      /\ [k EXCEPT !.changed = c, !.born = b].quote = k.quote /\ [k EXCEPT !.changed = c, !.born = b].fp = k.fp
      /\ [k EXCEPT !.changed = c, !.born = b].seen = k.seen /\ [k EXCEPT !.changed = c, !.born = b].edited = k.edited
      /\ [k EXCEPT !.changed = c, !.born = b].found = k.found /\ [k EXCEPT !.changed = c, !.born = b].snap = k.snap
  BY DEF Reader
<1> QED
  BY <1>2, <1>4, <1>5 DEF b, c

LEMMA WriteDoes ==
    ASSUME CheckConstants, NumbersInv, NEW s \in Sources, NEW x, Write(s, x)
    PROVE  /\ x \in Texts \cup {None} /\ text' = [text EXCEPT ![s] = x] /\ text' \in [Sources -> Texts \cup {None}]
           /\ text[s] = None => s \in Unborn
           /\ text[s] # None /\ x # None => x > text[s] /\ x \in Nat /\ text[s] \in Nat
           /\ due' = due \cup {s} /\ created' = created
           /\ \A t \in Tasks : task'[t] = IF Inside(t) THEN Marked(task[t], s) ELSE task[t]
           /\ task' \in [Tasks -> Reader] /\ Records' /\ UNCHANGED <<dec, lease, read>>
<1>1. /\ x \in Texts \cup {None} /\ (text[s] = None => s \in Unborn)
      /\ (text[s] # None => x \in {None} \cup {y \in Texts : y > text[s]})
      /\ text' = [text EXCEPT ![s] = x] /\ due' = due \cup {s} /\ UNCHANGED <<dec, lease, scanned, created, read, embedded>>
      /\ task' = [t \in Tasks |-> IF Inside(t) THEN Marked(task[t], s) ELSE task[t]]
      /\ owed' \subseteq owed \cup {<<s, d>> : d \in Decisions} /\ missed' \subseteq missed \cup {s}
  <2>1. task' = [t \in Tasks |-> IF Inside(t) THEN Marked(task[t], s) ELSE task[t]]
    BY Zenon DEF Write, Marked
  <2>2. owed' \subseteq owed \cup {<<s, d>> : d \in Decisions} /\ missed' \subseteq missed \cup {s}
    BY DEF Write, Accepted
  <2> QED
    BY <2>1, <2>2 DEF Write
<1>2. task' \in [Tasks -> Reader]
  BY <1>1, MarkedIs, TaskFacts
<1>3. Records'
  BY <1>1, WorldFacts DEF Records
<1>4. text[s] # None /\ x # None => x > text[s] /\ x \in Nat /\ text[s] \in Nat
  BY <1>1, WorldFacts DEF CheckConstants
<1> QED
  BY <1>1, <1>2, <1>3, <1>4, WorldFacts

LEMMA WriteNumbers ==
    ASSUME CheckConstants, NumbersInv, NEW s \in Sources, NEW x, Write(s, x)
    PROVE  NumbersInv'
<1>1. CheckTypes'
  BY WriteDoes, WorldFacts DEF CheckTypes
<1>2. ASSUME NEW b \in Tasks
      PROVE  Shape(task[b])'
  <2>1. PICK k \in Reader : k = task[b] /\ Shape(k)
    BY TaskFacts
  <2>2. PICK r : task'[b] = r /\ Shape(r)
    <3>1. CASE Inside(b)
      <4>1. task'[b] = Marked(k, s)
        BY <2>1, <3>1, WriteDoes
      <4> QED
        BY <2>1, <4>1, MarkedIs, SameShape
    <3>2. CASE ~Inside(b)
      BY <2>1, <3>2, WriteDoes
    <3> QED
      BY <3>1, <3>2
  <2>3. dec' = dec
    BY WriteDoes
  <2> QED
    BY <2>2, <2>3 DEF Shape
<1>3. \A d \in Decisions : Numbered(d)'
  BY WriteDoes DEF NumbersInv, Numbered
<1> QED
  BY <1>1, <1>2, <1>3 DEF NumbersInv

-----------------------------------------------------------------------------
(***************************************************************************)
(* At most one check is under way, unless checks outlast their lease       *)
(***************************************************************************)

\* What one action of a task, or none, did of the tasks.
LEMMA NoneBegins ==
    ASSUME NumbersInv, NEW t \in Tasks, NEW r, task' = [task EXCEPT ![t] = r], r.kind = "check" => Inside(t)
    PROVE  \A u \in Tasks : Inside(u)' => Inside(u)
<1> TAKE u \in Tasks
<1>1. CASE u = t
  BY <1>1, TaskFacts DEF Inside
<1>2. CASE u # t
  BY <1>2, TaskFacts DEF Inside
<1> QED
  BY <1>1, <1>2

\* Ended is what it is: a check that has yet to release.
LEMMA EndedKind ==
    ASSUME NEW k
    PROVE  Ended(k).kind = "check" => k.kind = "check"
BY DEF Ended, Idle

LEMMA GotoKind ==
    ASSUME NumbersInv, NEW t \in Tasks, NEW pc, Goto(t, pc)
    PROVE  \A u \in Tasks : Inside(u)' => Inside(u)
<1>1. task' = [task EXCEPT ![t] = [task[t] EXCEPT !.pc = pc]] /\ task[t] \in Reader
  BY TaskFacts DEF Goto
<1>2. [task[t] EXCEPT !.pc = pc].kind = task[t].kind
  BY <1>1 DEF Reader
<1> QED
  BY <1>1, <1>2, NoneBegins DEF Inside

LEMMA OverKind ==
    ASSUME NumbersInv, NEW t \in Tasks, Over(t)
    PROVE  \A u \in Tasks : Inside(u)' => Inside(u)
BY EndedKind, OverIs, NoneBegins, WorldFacts DEF Inside

LEMMA CheckStepKind ==
    ASSUME NumbersInv, NEW t \in Tasks, CheckStep(t), ~Release(t)
    PROVE  lease' = lease /\ \A u \in Tasks : Inside(u)' => Inside(u)
<1> DEFINE k == task[t]
<1>1. k \in Reader /\ Shape(k)
  BY TaskFacts
<1>2. CASE Compare(t)
  <2>1. PICK flags : task' = [task EXCEPT ![t] = [k EXCEPT !.pc = "store", !.flags = flags]] /\ lease' = lease
    BY <1>2, TaskFacts DEF Compare
  <2>2. [k EXCEPT !.pc = "store", !.flags = flags].kind = k.kind
    BY <1>1 DEF Reader
  <2> QED
    BY <2>1, <2>2, NoneBegins DEF Inside
<1>3. CASE StoreAttention(t)
  <2>1. CASE Inside(t)
    <3>1. task' = [task EXCEPT ![t] = [k EXCEPT !.pc = "look", !.flags = {}]] /\ lease' = lease
      BY <1>3, <2>1, TaskFacts DEF StoreAttention
    <3> QED
      BY <2>1, <3>1, NoneBegins
  <2>2. CASE ~Inside(t)
    <3>1. task' = [task EXCEPT ![t] = Idle] /\ lease' = lease
      BY <1>3, <2>2, TaskFacts DEF StoreAttention
    <3>2. Idle.kind # "check"
      BY DEF Idle
    <3> QED
      BY <3>1, <3>2, NoneBegins
  <2> QED
    BY <2>1, <2>2
<1>4. CASE Look(t)
  <2>1. PICK snap, found : task' = [task EXCEPT ![t] = [k EXCEPT !.pc = "changed", !.snap = snap, !.found = found]] /\ lease' = lease
    BY <1>4, TaskFacts DEF Look
  <2>2. [k EXCEPT !.pc = "changed", !.snap = snap, !.found = found].kind = k.kind
    BY <1>1 DEF Reader
  <2> QED
    BY <2>1, <2>2, NoneBegins DEF Inside
<1>5. CASE Changed(t)
  <2>1. [k EXCEPT !.pc = "embed", !.found = Seen(k), !.edited = Edited(due)].kind = k.kind
    BY <1>1 DEF Reader
  <2>2. /\ task' = [task EXCEPT ![t] = [k EXCEPT !.pc = "embed", !.found = Seen(k), !.edited = Edited(due)]]
        /\ lease' = lease
    BY <1>5, ChangedDoes
  <2> QED
    BY <2>1, <2>2, NoneBegins DEF Inside
<1>6. CASE Embed(t)
  <2>0. \E todo : task' = [task EXCEPT ![t] = [k EXCEPT !.pc = "next", !.todo = todo]] /\ lease' = lease
    BY <1>6, EmbedDoes
  <2>1. PICK todo : task' = [task EXCEPT ![t] = [k EXCEPT !.pc = "next", !.todo = todo]] /\ lease' = lease
    BY <2>0
  <2>2. [k EXCEPT !.pc = "next", !.todo = todo].kind = k.kind
    BY <1>1 DEF Reader
  <2> QED
    BY <2>1, <2>2, NoneBegins DEF Inside
<1>7. CASE TakeCheck(t)
  <2>1. \/ \E s : task' = [task EXCEPT ![t] = [k EXCEPT !.pc = "ask", !.src = s]]
        \/ task' = [task EXCEPT ![t] = [k EXCEPT !.pc = "end", !.capped = TRUE]]
    BY <1>7, TaskFacts DEF TakeCheck
  <2>2. \A s : [k EXCEPT !.pc = "ask", !.src = s].kind = k.kind
    BY <1>1 DEF Reader
  <2>3. [k EXCEPT !.pc = "end", !.capped = TRUE].kind = k.kind
    BY <1>1 DEF Reader
  <2>4. lease' = lease
    BY <1>7 DEF TakeCheck
  <2> QED
    BY <2>1, <2>2, <2>3, <2>4, NoneBegins DEF Inside
<1>8. CASE Ask(t)
  <2>1. CASE Goto(t, "record")
    BY <1>8, <2>1, GotoKind DEF Ask
  <2>2. CASE \E d, q : task' = [task EXCEPT ![t] = [k EXCEPT !.pc = "cite", !.dec = d, !.quote = q]]
    <3>1. \A d, q : [k EXCEPT !.pc = "cite", !.dec = d, !.quote = q].kind = k.kind
      BY <1>1 DEF Reader
    <3>2. lease' = lease
      BY <1>8 DEF Ask
    <3> QED
      BY <2>2, <3>1, <3>2, NoneBegins DEF Inside
  <2>3. ASSUME NEW d, NEW q, task' = [task EXCEPT ![t].pc = "cite", ![t].dec = d, ![t].quote = q]
        PROVE  \E e, r : task' = [task EXCEPT ![t] = [k EXCEPT !.pc = "cite", !.dec = e, !.quote = r]]
    <3>1. task' = [task EXCEPT ![t] = [k EXCEPT !.pc = "cite", !.dec = d, !.quote = q]]
      BY <2>3, TaskFacts
    <3> QED
      BY <3>1
  <2>4. Goto(t, "record") \/ \E d, q : task' = [task EXCEPT ![t].pc = "cite", ![t].dec = d, ![t].quote = q]
    BY <1>8 DEF Ask
  <2> QED
    BY <2>1, <2>2, <2>3, <2>4
<1>9. CASE Cite(t)
  <2>1. CASE Over(t)
    BY <1>9, <2>1, OverKind DEF Cite
  <2>2. CASE Goto(t, "record")
    BY <1>9, <2>2, GotoKind DEF Cite
  <2>3. CASE task' = [task EXCEPT ![t].pc = "add", ![t].fp = text[k.src], ![t].fresh = TRUE]
    <3>1. task' = [task EXCEPT ![t] = [k EXCEPT !.pc = "add", !.fp = text[k.src], !.fresh = TRUE]] /\ lease' = lease
      BY <1>9, <2>3, TaskFacts DEF Cite
    <3>2. [k EXCEPT !.pc = "add", !.fp = text[k.src], !.fresh = TRUE].kind = k.kind
      BY <1>1 DEF Reader
    <3> QED
      BY <3>1, <3>2, NoneBegins DEF Inside
  <2> QED
    BY <1>9, <2>1, <2>2, <2>3 DEF Cite
<1>10. CASE ReadDecision(t)
  <2>1. CASE Over(t)
    BY <1>10, <2>1, OverKind DEF ReadDecision
  <2>2. CASE Goto(t, "record")
    BY <1>10, <2>2, GotoKind DEF ReadDecision
  <2>3. CASE task' = [task EXCEPT ![t].pc = "put", ![t].tries = @ + 1, ![t].seen = dec[k.dec].sources]
    <3>1. PICK n, seen : task' = [task EXCEPT ![t] = [k EXCEPT !.pc = "put", !.tries = n, !.seen = seen]] /\ lease' = lease
      BY <1>10, <2>3, TaskFacts DEF ReadDecision
    <3>2. [k EXCEPT !.pc = "put", !.tries = n, !.seen = seen].kind = k.kind
      BY <1>1 DEF Reader
    <3> QED
      BY <3>1, <3>2, NoneBegins DEF Inside
  <2> QED
    BY <1>10, <2>1, <2>2, <2>3 DEF ReadDecision
<1>11. CASE AddEvidence(t)
  <2>1. Over(t) \/ Goto(t, "record") \/ Goto(t, "add")
    BY <1>11 DEF AddEvidence, Put
  <2> QED
    BY <1>11, <2>1, OverKind, GotoKind DEF AddEvidence
<1>12. CASE Record(t)
  <2>1. PICK rest : task' = [task EXCEPT ![t] = [k EXCEPT !.pc = "next", !.todo = rest, !.src = None, !.dec = None, !.quote = None,
                              !.fp = None, !.fresh = TRUE, !.seen = <<>>, !.tries = 0]] /\ lease' = lease
    BY <1>12 DEF Record
  <2>2. [k EXCEPT !.pc = "next", !.todo = rest, !.src = None, !.dec = None, !.quote = None,
                  !.fp = None, !.fresh = TRUE, !.seen = <<>>, !.tries = 0].kind = k.kind
    BY <1>1 DEF Reader
  <2> QED
    BY <2>1, <2>2, NoneBegins DEF Inside
<1>13. CASE End(t)
  BY <1>13, EndDoes, OverKind
<1>14. CASE RefreshVector(t)
  BY <1>14, OverKind DEF RefreshVector
<1> QED
  BY <1>2, <1>3, <1>4, <1>5, <1>6, <1>7, <1>8, <1>9, <1>10, <1>11, <1>12, <1>13, <1>14 DEF CheckStep

LEMMA OtherStepsKind ==
    ASSUME CheckConstants, NumbersInv,
           \/ \E t \in Tasks : Fail(t) \/ Crash(t)
           \/ \E t \in Requests :
                \/ Open(t) \/ (\E d \in Decisions : ScanAccepted(t, d)) \/ \E s \in Sources : Suggest(t, s)
                \/ \E d \in Decisions, s \in Sources, q \in Passages, against \in BOOLEAN : AskToAdd(t, d, s, q, against)
           \/ \E s \in Sources, x \in Texts \cup {None} : Write(s, x)
           \/ \E d \in Decisions : (\E x \in Statuses : ChangeStatus(d, x)) \/ \E i \in 1..MaxEvidence : RemoveEvidence(d, i)
    PROVE  lease' = lease /\ \A u \in Tasks : Inside(u)' => Inside(u)
<1>0. Requests \subseteq Tasks /\ Idle.kind # "check"
  BY DEF Tasks, Idle
<1>1. ASSUME NEW t \in Tasks, Fail(t)
      PROVE  lease' = lease /\ \A u \in Tasks : Inside(u)' => Inside(u)
  BY <1>1, OverKind DEF Fail
<1>2. ASSUME NEW t \in Tasks, Crash(t)
      PROVE  lease' = lease /\ \A u \in Tasks : Inside(u)' => Inside(u)
  <2>1. task' = [task EXCEPT ![t] = Idle] /\ lease' = lease
    BY <1>2 DEF Crash
  <2> QED
    BY <1>0, <2>1, NoneBegins
<1>3. ASSUME NEW t \in Requests, Open(t)
      PROVE  lease' = lease /\ \A u \in Tasks : Inside(u)' => Inside(u)
  BY <1>0, <1>3, GotoKind DEF Open
<1>4. ASSUME NEW t \in Requests, NEW d, ScanAccepted(t, d)
      PROVE  lease' = lease /\ \A u \in Tasks : Inside(u)' => Inside(u)
  <2>1. PICK snap, todo :
          task' = [task EXCEPT ![t] = [Idle EXCEPT !.pc = "next", !.kind = "scan", !.snap = snap, !.todo = todo]]
    BY <1>4 DEF ScanAccepted
  <2>2. lease' = lease
    BY <1>4 DEF ScanAccepted
  <2>3. [Idle EXCEPT !.pc = "next", !.kind = "scan", !.snap = snap, !.todo = todo].kind = "scan"
    BY DEF Idle
  <2> QED
    BY <1>0, <2>1, <2>2, <2>3, NoneBegins
<1>5. ASSUME NEW t \in Requests, NEW d, NEW s, NEW q, NEW against, AskToAdd(t, d, s, q, against)
      PROVE  lease' = lease /\ \A u \in Tasks : Inside(u)' => Inside(u)
  <2>1. task' = [task EXCEPT ![t] = [Idle EXCEPT !.pc = "cite", !.dec = d, !.src = s, !.quote = q, !.against = against]] /\ lease' = lease
    BY <1>5 DEF AskToAdd
  <2>2. [Idle EXCEPT !.pc = "cite", !.dec = d, !.src = s, !.quote = q, !.against = against].kind = "request"
    BY DEF Idle
  <2> QED
    BY <1>0, <2>1, <2>2, NoneBegins
<1>6. ASSUME NEW s \in Sources, NEW x, Write(s, x)
      PROVE  lease' = lease /\ \A u \in Tasks : Inside(u)' => Inside(u)
  <2>1. \A u \in Tasks : task'[u] = IF Inside(u) THEN Marked(task[u], s) ELSE task[u]
    BY <1>6, WriteDoes
  <2>2. lease' = lease
    BY <1>6, WriteDoes
  <2>3. ASSUME NEW u \in Tasks, Inside(u)'
        PROVE  Inside(u)
    <3>1. Marked(task[u], s).kind = task[u].kind
      BY MarkedIs, TaskFacts
    <3> QED
      BY <2>1, <2>3, <3>1 DEF Inside
  <2> QED
    BY <2>2, <2>3
<1>7. ASSUME NEW d, NEW x, ChangeStatus(d, x)
      PROVE  lease' = lease /\ \A u \in Tasks : Inside(u)' => Inside(u)
  <2>1. ASSUME NEW u \in Tasks
        PROVE  Inside(u)' => Inside(u)
    <3>1. task'[u] = (IF task[u].dec = d THEN [task[u] EXCEPT !.fresh = FALSE] ELSE task[u]) /\ task[u] \in Reader
      BY <1>7, TaskFacts DEF ChangeStatus
    <3>2. [task[u] EXCEPT !.fresh = FALSE].kind = task[u].kind
      BY <3>1 DEF Reader
    <3> QED
      BY <3>1, <3>2 DEF Inside
  <2>2. lease' = lease
    BY <1>7 DEF ChangeStatus
  <2> QED
    BY <2>1, <2>2
<1>8. ASSUME NEW d, NEW i, RemoveEvidence(d, i)
      PROVE  lease' = lease /\ \A u \in Tasks : Inside(u)' => Inside(u)
  BY <1>8 DEF RemoveEvidence, Inside
<1>9. ASSUME NEW t \in Requests, NEW s, Suggest(t, s)
      PROVE  lease' = lease /\ \A u \in Tasks : Inside(u)' => Inside(u)
  <2>1. PICK x : x = text[s]
    OBVIOUS
  <2>2. task' = [task EXCEPT ![t] = [Idle EXCEPT !.pc = "vector", !.src = s, !.fp = x]] /\ lease' = lease
    BY <1>9, <2>1 DEF Suggest
  <2>3. [Idle EXCEPT !.pc = "vector", !.src = s, !.fp = x].kind = "request"
    BY DEF Idle
  <2> QED
    BY <1>0, <2>2, <2>3, NoneBegins
<1> QED
  BY <1>1, <1>2, <1>3, <1>4, <1>5, <1>6, <1>7, <1>8, <1>9

\* One check at a time: a lease that is held is not claimed, and is only taken from
\* a check that is over.
LEMMA AloneKept ==
    ASSUME CheckConstants, NumbersInv, ~SlowRuns, Alone, [Next]_vars
    PROVE  Alone'
<1>1. CASE lease' = lease /\ \A u \in Tasks : Inside(u)' => Inside(u)
  BY <1>1 DEF Alone
<1>2. ASSUME NEW t \in Tasks, Release(t)
      PROVE  Alone'
  <2>1. task[t].kind = "check" /\ Inside(t)
    BY <1>2, TaskFacts DEF Shape, Release, Inside
  <2>2. \A u \in Tasks : task'[u] = IF u = t THEN Idle ELSE task[u]
    BY <1>2, TaskFacts DEF Release
  <2>3. \A u \in Tasks : ~Inside(u)'
    BY <2>1, <2>2 DEF Alone, Inside, Idle
  <2> QED
    BY <2>3 DEF Alone
<1>3. ASSUME NEW t \in Checks, Claim(t)
      PROVE  Alone'
  <2>1. t \in Tasks /\ lease # "held" /\ lease' = "held"
    BY <1>3 DEF Tasks, Claim
  <2>2. \A u \in Tasks : ~Inside(u)
    BY <2>1 DEF Alone
  <2>3. \A u \in Tasks : u # t => task'[u] = task[u]
    BY <1>3, ClaimDoes, TaskFacts DEF Tasks
  <2>4. \A u \in Tasks : Inside(u)' => u = t
    BY <2>2, <2>3 DEF Inside
  <2> QED
    BY <2>1, <2>4 DEF Alone
<1>4. CASE Lapse
  BY <1>4 DEF Lapse, Alone, Inside
<1>5. CASE UNCHANGED vars
  BY <1>5 DEF vars, Alone, Inside
<1>6. ASSUME NEW t \in Tasks, CheckStep(t)
      PROVE  Alone'
  BY <1>1, <1>2, <1>6, CheckStepKind
<1> QED
  <2>1. CASE \E t \in Tasks : CheckStep(t)
    BY <1>6, <2>1
  <2>2. CASE \E t \in Checks : Claim(t)
    BY <1>3, <2>2
  <2>3. CASE \/ \E t \in Tasks : Fail(t) \/ Crash(t)
             \/ \E t \in Requests :
                  \/ Open(t) \/ (\E d \in Decisions : ScanAccepted(t, d)) \/ \E s \in Sources : Suggest(t, s)
                  \/ \E d \in Decisions, s \in Sources, q \in Passages, against \in BOOLEAN : AskToAdd(t, d, s, q, against)
             \/ \E s \in Sources, x \in Texts \cup {None} : Write(s, x)
             \/ \E d \in Decisions : (\E x \in Statuses : ChangeStatus(d, x)) \/ \E i \in 1..MaxEvidence : RemoveEvidence(d, i)
    BY <1>1, <2>3, OtherStepsKind
  <2> QED
    BY <1>4, <1>5, <2>1, <2>2, <2>3 DEF Next

-----------------------------------------------------------------------------
LEMMA InitHolds ==
    ASSUME CheckConstants, Init
    PROVE  NumbersInv /\ Alone
<1>1. PICK x \in Texts : x = (CHOOSE y \in Texts : \A z \in Texts : y <= z)
  BY DEF CheckConstants
<1>2. text = [s \in Sources |-> IF s \in created THEN None ELSE x] /\ embedded \in [Sources -> {None, x}]
  BY <1>1 DEF Init
<1>3. task = [t \in Tasks |-> Idle] /\ Idle \in Reader /\ Shape(Idle) /\ Idle.kind # "check"
  BY IdleIs DEF Init, Idle
<1>4. ASSUME NEW d \in Decisions
      PROVE  dec[d] \in Decision /\ Len(dec[d].evidence) = 0 /\ Len(dec[d].sources) = 0
  BY DEF Init, Decision, Statuses
<1>5. dec \in [Decisions -> Decision]
  BY <1>4 DEF Init
<1>6. CheckTypes
  <2>1. \A d \in Decisions : Len(dec[d].evidence) <= MaxEvidence
    BY <1>4 DEF CheckConstants
  <2>2. text \in [Sources -> Texts \cup {None}] /\ task \in [Tasks -> Reader]
    BY <1>2, <1>3
  <2>3. Records
    BY <1>2 DEF Init, Records
  <2> QED
    BY <1>5, <2>1, <2>2, <2>3 DEF CheckTypes
<1>7. \A t \in Tasks : Shape(task[t]) /\ ~Inside(t)
  BY <1>3 DEF Inside
<1>8. \A d \in Decisions : Numbered(d)
  BY <1>4 DEF Numbered
<1> QED
  BY <1>6, <1>7, <1>8 DEF NumbersInv, Alone

LEMMA NumbersKept ==
    ASSUME CheckConstants, NumbersInv, [Next]_vars
    PROVE  NumbersInv'
<1>1. Requests \subseteq Tasks /\ Checks \subseteq Tasks
  BY DEF Tasks
<1>2. CASE \E t \in Tasks : CheckStep(t)
  BY <1>2, CompareNumbers, StoreAttentionNumbers, LookNumbers, ChangedNumbers, EmbedNumbers, TakeCheckNumbers, AskNumbers,
     CiteNumbers, ReadDecisionNumbers, AddEvidenceNumbers, RecordNumbers, EndNumbers, RefreshVectorNumbers, ReleaseNumbers DEF CheckStep
<1>3. CASE \E t \in Tasks : Fail(t) \/ Crash(t)
  BY <1>3, FailNumbers, CrashNumbers
<1>4. CASE \E t \in Checks : Claim(t)
  BY <1>1, <1>4, ClaimNumbers
<1>5. CASE \E t \in Requests :
             \/ Open(t) \/ (\E d \in Decisions : ScanAccepted(t, d)) \/ \E s \in Sources : Suggest(t, s)
             \/ \E d \in Decisions, s \in Sources, q \in Passages, against \in BOOLEAN : AskToAdd(t, d, s, q, against)
  BY <1>1, <1>5, OpenNumbers, ScanAcceptedNumbers, SuggestNumbers, AskToAddNumbers
<1>6. CASE \E s \in Sources, x \in Texts \cup {None} : Write(s, x)
  BY <1>6, WriteNumbers
<1>7. CASE \E d \in Decisions : (\E x \in Statuses : ChangeStatus(d, x)) \/ \E i \in 1..MaxEvidence : RemoveEvidence(d, i)
  BY <1>7, ChangeStatusNumbers, RemoveEvidenceNumbers
<1>8. CASE Lapse
  BY <1>8, LapseNumbers
<1>9. CASE UNCHANGED vars
  BY <1>9 DEF vars, window, history, NumbersInv, CheckTypes, Records, Shape, Numbered
<1> QED
  BY <1>2, <1>3, <1>4, <1>5, <1>6, <1>7, <1>8, <1>9 DEF Next

\* What the invariants say.
LEMMA NumbersMean ==
    ASSUME CheckConstants, NumbersInv, SlowRuns \/ Alone
    PROVE  TypeOK /\ EvidenceSound
<1>1. TypeOK
  BY DecisionFacts, WorldFacts DEF TypeOK
<1>2. ASSUME NEW d \in Decisions
      PROVE  IsInjective(dec[d].sources) /\ {e.src : e \in Evidence(d)} \subseteq Range(dec[d].sources)
  <2>1. Numbered(d) /\ DOMAIN dec[d].sources = 1..Len(dec[d].sources)
    BY DecisionFacts DEF NumbersInv
  <2>2. IsInjective(dec[d].sources)
    BY <2>1 DEF IsInjective, Numbered
  <2>3. ASSUME NEW e \in Evidence(d)
        PROVE  e.src \in Range(dec[d].sources)
    <3>1. PICK i \in 1..Len(dec[d].evidence) : e = dec[d].evidence[i]
      BY DecisionFacts
    <3> QED
      BY <2>1, <3>1 DEF Numbered, Range
  <2> QED
    BY <2>2, <2>3
<1>3. ASSUME Alone
      PROVE  Cardinality({t \in Tasks : Inside(t)}) <= 1
  <2> DEFINE inside == {t \in Tasks : Inside(t)}
  <2>1. CASE inside = {}
    <3>1. Cardinality(inside) = 0
      BY <2>1, FS_EmptySet
    <3> QED
      BY <3>1
  <2>2. CASE inside # {}
    <3>1. PICK t \in inside : inside = {t}
      BY <1>3, <2>2 DEF Alone
    <3>2. Cardinality({t}) = 1
      BY FS_Singleton
    <3> QED
      BY <3>1, <3>2
  <2> QED
    BY <2>1, <2>2
<1> QED
  BY <1>1, <1>2, <1>3 DEF EvidenceSound

\* Every quoted source has one number that stays its own, and one check runs at a time
\* unless checks outlast their lease (service.py:178, leases.py:1).
THEOREM NumbersStay ==
    ASSUME CheckConstants
    PROVE  Spec => [](TypeOK /\ EvidenceSound)
<1>1. CASE SlowRuns
  <2>1. Init => NumbersInv
    BY InitHolds
  <2>2. NumbersInv /\ [Next]_vars => NumbersInv'
    BY NumbersKept
  <2>3. NumbersInv => TypeOK /\ EvidenceSound
    BY <1>1, NumbersMean
  <2> QED
    BY <2>1, <2>2, <2>3, PTL DEF Spec
<1>2. CASE ~SlowRuns
  <2>1. Init => NumbersInv /\ Alone
    BY InitHolds
  <2>2. NumbersInv /\ Alone /\ [Next]_vars => (NumbersInv /\ Alone)'
    BY <1>2, NumbersKept, AloneKept
  <2>3. NumbersInv /\ Alone => TypeOK /\ EvidenceSound
    BY NumbersMean
  <2> QED
    BY <2>1, <2>2, <2>3, PTL DEF Spec
<1> QED
  BY <1>1, <1>2
-----------------------------------------------------------------------------
(***************************************************************************)
(* What is owed a reading: steps that leave the texts alone                *)
(***************************************************************************)

\* Texts stay, and what is to be created, owed and missed only shrinks.
Settled == text' = text /\ Unborn' \subseteq Unborn /\ owed' \subseteq owed /\ missed' \subseteq missed

LEMMA WindowKept ==
    ASSUME UNCHANGED window
    PROVE  Unborn' = Unborn /\ due' = due
BY DEF Unborn, window

\* A task that does not move tracks what is owed as before.
LEMMA StillTracked ==
    ASSUME NEW k, Tracked(k), Settled
    PROVE  Tracked(k)'
<1>1. CASE k.kind # "check"
  BY <1>1 DEF Tracked
<1>2. CASE k.kind = "check"
  <2>1. Ordered(k) /\ Shown(k) /\ Reads(k) /\ Listed(k)
    BY <1>2 DEF Tracked
  <2>2. \A s, x : Past(s, x) => Past(s, x)'
    BY DEF Settled, Past
  <2>3. Ordered(k)'
    BY <2>1, <2>2 DEF Ordered
  <2>4. Shown(k)'
    BY <2>1 DEF Shown, Settled
  <2>5. Reads(k)'
    BY <2>1 DEF Reads, Settled
  <2>6. Listed(k)'
    BY <2>1 DEF Listed, Settled
  <2> QED
    BY <2>3, <2>4, <2>5, <2>6 DEF Tracked
<1> QED
  BY <1>1, <1>2

\* A check that goes on with what it has to read.
LEMMA GoesOn ==
    ASSUME NEW k, NEW r, Tracked(k), r.kind = k.kind, r.found = k.found, r.snap = k.snap, r.todo = k.todo,
           r.changed = k.changed, r.born = k.born, r.pc \notin {"changed", "embed"}, r.pc \in Reading => k.pc \in Reading
    PROVE  Tracked(r)
BY DEF Tracked, Ordered, Shown, Reads, Listed

\* What is no check, or has nothing to read, tracks nothing.
LEMMA BlankTracked ==
    ASSUME NEW k
    PROVE  Tracked(Idle) /\ Tracked(Ended(k)) /\ Tracked([Idle EXCEPT !.pc = "flag", !.kind = "check"])
<1>1. Tracked(Idle)
  BY DEF Tracked, Idle
<1>2. \A s : s \notin DOMAIN <<>>
  OBVIOUS
<1>3. ASSUME NEW r, r.kind = "check", r.pc \in {"flag", "release"}, r.found = <<>>, r.todo = {}, r.born = {}
      PROVE  Tracked(r)
  BY <1>2, <1>3 DEF Tracked, Ordered, Shown, Reads, Listed, Reading
<1>4. Tracked([Idle EXCEPT !.pc = "flag", !.kind = "check"])
  BY <1>3 DEF Idle
<1>5. Tracked([Idle EXCEPT !.pc = "release", !.kind = "check"])
  BY <1>3 DEF Idle
<1> QED
  BY <1>1, <1>4, <1>5 DEF Ended

LEMMA NoCheckTracked ==
    ASSUME NEW k, k.kind # "check"
    PROVE  Tracked(k)
BY DEF Tracked

\* What is owed stays sound as long as no decision stops to quote it.
LEMMA OwedKept ==
    ASSUME OwedInv, Settled, UNCHANGED read,
           \A p \in owed' : dec'[p[2]].status = "accepted" /\ Quotes(p[2], p[1])'
    PROVE  OwedInv'
<1>1. \A s, x : Past(s, x) => Past(s, x)'
  BY DEF Settled, Past
<1>2. \A s \in Sources : (Past(s, read[s]) /\ Past(s, text[s]))'
  BY <1>1 DEF OwedInv, Settled, Past
<1>3. \A p \in owed' : text'[p[1]] # None /\ read'[p[1]] # text'[p[1]]
  BY DEF OwedInv, Settled
<1> QED
  BY <1>2, <1>3 DEF OwedInv

LEMMA OwedStays ==
    ASSUME OwedInv, Settled, UNCHANGED <<read, dec>>
    PROVE  OwedInv'
BY OwedKept DEF OwedInv, Settled, Quotes, Evidence

\* A step of one task.
LEMMA StepEdits ==
    ASSUME NumbersInv, EditsInv, Settled, NEW t \in Tasks, NEW r, task' = [task EXCEPT ![t] = r], Tracked(r)',
           OwedInv', missed' \subseteq due'
    PROVE  EditsInv'
<1>1. ASSUME NEW u \in Tasks
      PROVE  Tracked(task[u])'
  <2>1. PICK c : task'[u] = c /\ Tracked(c)'
    <3>1. CASE u = t
      BY <3>1, TaskFacts
    <3>2. CASE u # t
      <4>1. PICK c : c = task[u] /\ Tracked(c)
        BY DEF EditsInv
      <4>2. Tracked(c)'
        BY <4>1, StillTracked
      <4>3. task'[u] = c
        BY <3>2, <4>1, TaskFacts
      <4> QED
        BY <4>2, <4>3
    <3> QED
      BY <3>1, <3>2
  <2> QED
    BY <2>1 DEF Tracked, Ordered, Past, Shown, Reads, Listed
<1> QED
  BY <1>1 DEF EditsInv

\* One that changes nothing that a check relies on.
LEMMA QuietEdits ==
    ASSUME NumbersInv, EditsInv, NEW t \in Tasks, NEW r, task' = [task EXCEPT ![t] = r], Tracked(r),
           UNCHANGED <<text, dec, window, read, history>>
    PROVE  EditsInv'
<1>1. Settled /\ missed' = missed /\ due' = due
  BY WindowKept DEF Settled, history
<1>2. Tracked(r)'
  BY <1>1, StillTracked
<1>3. OwedInv'
  BY <1>1, OwedStays DEF EditsInv
<1> QED
  BY <1>1, <1>2, <1>3, StepEdits DEF EditsInv

LEMMA OverEdits ==
    ASSUME NumbersInv, EditsInv, NEW t \in Tasks, Over(t), UNCHANGED <<text, dec, window, read, history>>
    PROVE  EditsInv'
<1>1. task' = [task EXCEPT ![t] = Ended(task[t])]
  BY OverIs, WorldFacts
<1>2. PICK r : r = Ended(task[t])
  OBVIOUS
<1>3. Tracked(r)
  BY <1>2, BlankTracked
<1> QED
  BY <1>1, <1>2, <1>3, QuietEdits

\* A check that reads goes on.
LEMMA ReadsOn ==
    ASSUME EditsInv, NumbersInv, NEW t \in Tasks, NEW r, task[t].pc \in Reading, r.pc \in Reading,
           r.kind = task[t].kind, r.found = task[t].found, r.snap = task[t].snap, r.todo = task[t].todo,
           r.changed = task[t].changed, r.born = task[t].born
    PROVE  Tracked(r)
<1>1. PICK k : k = task[t] /\ Tracked(k)
  BY DEF EditsInv
<1>2. r.pc \notin {"changed", "embed"}
  BY DEF Reading
<1> QED
  BY <1>1, <1>2, GoesOn

LEMMA GotoTracked ==
    ASSUME EditsInv, NumbersInv, NEW t \in Tasks, task[t].pc \in Reading, NEW pc \in Reading
    PROVE  Tracked([task[t] EXCEPT !.pc = pc])
<1>1. PICK k \in Reader : k = task[t]
  BY TaskFacts
<1>2. PICK r : r = [k EXCEPT !.pc = pc]
  OBVIOUS
<1>3. /\ r.kind = k.kind /\ r.found = k.found /\ r.snap = k.snap /\ r.todo = k.todo /\ r.changed = k.changed /\ r.born = k.born
      /\ r.pc = pc
  BY <1>2 DEF Reader
<1>4. Tracked(r)
  BY <1>1, <1>3, ReadsOn
<1> QED
  BY <1>1, <1>2, <1>4

LEMMA GotoEdits ==
    ASSUME NumbersInv, EditsInv, NEW t \in Tasks, task[t].pc \in Reading, NEW pc \in Reading, Goto(t, pc),
           UNCHANGED <<text, dec, window, read, history>>
    PROVE  EditsInv'
<1>1. PICK r : r = [task[t] EXCEPT !.pc = pc]
  OBVIOUS
<1>2. task' = [task EXCEPT ![t] = r]
  BY <1>1, TaskFacts DEF Goto
<1>3. Tracked(r)
  BY <1>1, GotoTracked
<1> QED
  BY <1>2, <1>3, QuietEdits

\* Nothing that a check relies on changes.
LEMMA SameEdits ==
    ASSUME NumbersInv, EditsInv, UNCHANGED <<text, dec, window, read, task, history>>
    PROVE  EditsInv'
<1>1. Settled /\ missed' = missed /\ due' = due
  BY WindowKept DEF Settled, history
<1>2. ASSUME NEW t \in Tasks
      PROVE  Tracked(task[t])'
  <2>1. PICK k : k = task[t] /\ Tracked(k)
    BY DEF EditsInv
  <2>2. Tracked(k)' /\ task'[t] = k
    BY <1>1, <2>1, StillTracked
  <2> QED
    BY <2>2 DEF Tracked, Ordered, Past, Shown, Reads, Listed
<1>3. OwedInv'
  BY <1>1, OwedStays DEF EditsInv
<1> QED
  BY <1>1, <1>2, <1>3 DEF EditsInv

LEMMA ClaimEdits ==
    ASSUME NumbersInv, EditsInv, NEW t \in Tasks, Claim(t)
    PROVE  EditsInv'
<1>1. PICK past \in SUBSET due : due' = due \ past /\ created' = created \ past /\ missed' = missed \ past
  BY ClaimDoes
<1>2. Settled
  BY <1>1, ClaimDoes DEF Settled, Unborn
<1>3. missed' \subseteq due'
  BY <1>1 DEF EditsInv
<1>4. OwedInv'
  BY <1>2, ClaimDoes, OwedStays DEF EditsInv
<1>5. PICK r : r = [Idle EXCEPT !.pc = "flag", !.kind = "check"]
  OBVIOUS
<1>6. Tracked(r)'
  BY <1>2, <1>5, BlankTracked, StillTracked
<1> QED
  BY <1>2, <1>3, <1>4, <1>5, <1>6, ClaimDoes, StepEdits

LEMMA ReleaseEdits ==
    ASSUME NumbersInv, EditsInv, NEW t \in Tasks, Release(t)
    PROVE  EditsInv'
<1>1. Tracked(Idle)
  BY BlankTracked
<1> QED
  BY <1>1, QuietEdits DEF Release

LEMMA OpenEdits ==
    ASSUME NumbersInv, EditsInv, NEW t \in Tasks, Open(t)
    PROVE  EditsInv'
<1>1. PICK r : r = [Idle EXCEPT !.pc = "flag"]
  OBVIOUS
<1>2. task' = [task EXCEPT ![t] = r]
  BY <1>1, TaskFacts DEF Open, Goto
<1>3. Tracked(r)
  BY <1>1, NoCheckTracked DEF Idle
<1> QED
  BY <1>2, <1>3, QuietEdits DEF Open

LEMMA CompareEdits ==
    ASSUME NumbersInv, EditsInv, NEW t \in Tasks, Compare(t)
    PROVE  EditsInv'
<1>1. PICK k \in Reader : k = task[t] /\ Tracked(k) /\ k.pc = "flag"
  BY TaskFacts DEF EditsInv, Compare
<1>2. PICK flags : task' = [task EXCEPT ![t] = [k EXCEPT !.pc = "store", !.flags = flags]]
  BY <1>1, TaskFacts DEF Compare
<1>3. PICK r : r = [k EXCEPT !.pc = "store", !.flags = flags]
  OBVIOUS
<1>4. /\ r.kind = k.kind /\ r.found = k.found /\ r.snap = k.snap /\ r.todo = k.todo /\ r.changed = k.changed /\ r.born = k.born
      /\ r.pc = "store"
  BY <1>3 DEF Reader
<1>5. Tracked(r)
  BY <1>1, <1>4, GoesOn DEF Reading
<1> QED
  BY <1>2, <1>3, <1>5, QuietEdits DEF Compare

LEMMA AskToAddEdits ==
    ASSUME NumbersInv, EditsInv, NEW t \in Tasks, NEW d, NEW s, NEW q, NEW against, AskToAdd(t, d, s, q, against)
    PROVE  EditsInv'
<1>1. PICK r : r = [Idle EXCEPT !.pc = "cite", !.dec = d, !.src = s, !.quote = q, !.against = against]
  OBVIOUS
<1>2. Tracked(r)
  BY <1>1, NoCheckTracked DEF Idle
<1> QED
  BY <1>1, <1>2, QuietEdits DEF AskToAdd

LEMMA ScanAcceptedEdits ==
    ASSUME NumbersInv, EditsInv, NEW t \in Tasks, NEW d, ScanAccepted(t, d)
    PROVE  EditsInv'
<1>1. PICK snap, todo : task' = [task EXCEPT ![t] = [Idle EXCEPT !.pc = "next", !.kind = "scan", !.snap = snap, !.todo = todo]]
  BY DEF ScanAccepted
<1>2. PICK r : r = [Idle EXCEPT !.pc = "next", !.kind = "scan", !.snap = snap, !.todo = todo]
  OBVIOUS
<1>3. Tracked(r)
  BY <1>2, NoCheckTracked DEF Idle
<1> QED
  BY <1>1, <1>2, <1>3, QuietEdits DEF ScanAccepted

LEMMA SuggestEdits ==
    ASSUME NumbersInv, EditsInv, NEW t \in Tasks, NEW s, Suggest(t, s)
    PROVE  EditsInv'
<1>1. PICK r : r = [Idle EXCEPT !.pc = "vector", !.src = s, !.fp = text[s]]
  OBVIOUS
<1>2. Tracked(r)
  BY <1>1, NoCheckTracked DEF Idle
<1> QED
  BY <1>1, <1>2, QuietEdits DEF Suggest

LEMMA EndingEdits ==
    ASSUME NumbersInv, EditsInv, NEW t \in Tasks, Fail(t) \/ Crash(t) \/ RefreshVector(t)
    PROVE  EditsInv'
<1>1. CASE Fail(t) \/ RefreshVector(t)
  BY <1>1, OverEdits DEF Fail, RefreshVector
<1>2. CASE Crash(t)
  <2>1. Tracked(Idle)
    BY BlankTracked
  <2> QED
    BY <1>2, <2>1, QuietEdits DEF Crash
<1> QED
  BY <1>1, <1>2

-----------------------------------------------------------------------------
(***************************************************************************)
(* What is owed a reading: a check looks, compares and embeds              *)
(***************************************************************************)

LEMMA LookEdits ==
    ASSUME NumbersInv, EditsInv, NEW t \in Tasks, Look(t)
    PROVE  EditsInv'
<1>1. PICK k \in Reader : k = task[t] /\ Shape(k) /\ k.pc = "look" /\ Tracked(k)
  BY TaskFacts DEF EditsInv, Look
<1>2. PICK snap, found :
        /\ snap = [d \in Accepted |-> Evidence(d)]
        /\ found = [s \in {e.src : e \in UNION {Evidence(d) : d \in Accepted}} |-> text[s]]
        /\ task' = [task EXCEPT ![t] = [k EXCEPT !.pc = "changed", !.snap = snap, !.found = found]]
  BY <1>1, TaskFacts DEF Look
<1>3. PICK r : r = [k EXCEPT !.pc = "changed", !.snap = snap, !.found = found]
  OBVIOUS
<1>4. /\ r.pc = "changed" /\ r.kind = k.kind /\ r.snap = snap /\ r.found = found /\ r.todo = k.todo
      /\ r.changed = k.changed /\ r.born = k.born
  BY <1>3 DEF Reader
<1>5. k.todo = {} /\ k.kind = "check"
  BY <1>1 DEF Shape, Reading
<1>6. ASSUME NEW s \in DOMAIN found
      PROVE  Past(s, found[s])
  <2>1. PICK d \in Accepted : \E e \in Evidence(d) : s = e.src
    BY <1>2
  <2>2. d \in Decisions /\ Evidence(d) \subseteq Entry
    BY <2>1, DecisionFacts DEF Accepted
  <2>3. s \in Sources /\ found[s] = text[s]
    BY <1>2, <2>1, <2>2 DEF Entry
  <2> QED
    BY <2>3 DEF EditsInv, OwedInv
<1>7. ASSUME NEW p \in owed
      PROVE  p \in Quoted(snap)
  <2>1. p[1] \in Sources /\ p[2] \in Decisions /\ p = <<p[1], p[2]>>
    BY WorldFacts
  <2>2. p[2] \in Accepted /\ Quotes(p[2], p[1])
    BY <2>1 DEF EditsInv, OwedInv, Accepted
  <2>3. p[2] \in DOMAIN snap /\ \E e \in snap[p[2]] : e.src = p[1]
    BY <1>2, <2>2 DEF Quotes
  <2> QED
    BY <2>1, <2>3 DEF Quoted
<1>8. Tracked(r)
  <2>1. Listed(r)
    BY <1>1, <1>4, <1>5 DEF Tracked, Listed, Reading
  <2>2. Ordered(r) /\ Reads(r) /\ Shown(r)
    BY <1>4, <1>5, <1>6, <1>7 DEF Ordered, Reads, Shown
  <2> QED
    BY <2>1, <2>2 DEF Tracked
<1> QED
  BY <1>2, <1>3, <1>8, QuietEdits DEF Look

LEMMA ChangedEdits ==
    ASSUME NumbersInv, EditsInv, NEW t \in Tasks, Changed(t)
    PROVE  EditsInv'
<1>1. PICK k \in Reader : k = task[t] /\ Shape(k) /\ k.pc = "changed" /\ Tracked(k)
  BY ChangedDoes, TaskFacts DEF EditsInv
<1>2. PICK r : r = [k EXCEPT !.pc = "embed", !.found = Seen(k), !.edited = Edited(due)]
  OBVIOUS
<1>3. /\ r.pc = "embed" /\ r.kind = k.kind /\ r.snap = k.snap /\ r.found = Seen(k) /\ r.todo = k.todo
      /\ r.changed = k.changed /\ r.born = k.born
  BY <1>2 DEF Reader
<1>4. k.todo = {} /\ k.kind = "check"
  BY <1>1 DEF Shape, Reading
<1>5. DOMAIN Seen(k) = due \cup DOMAIN k.found /\ \A s \in due : Seen(k)[s] = text[s]
  BY DEF Seen
<1>6. \A s \in DOMAIN Seen(k) : Past(s, Seen(k)[s])
  <2>1. \A s \in due : Past(s, text[s])
    BY WorldFacts DEF EditsInv, OwedInv
  <2>2. \A s \in DOMAIN k.found : Past(s, k.found[s])
    BY <1>1, <1>4 DEF Tracked, Ordered
  <2>3. \A s \in DOMAIN Seen(k) : (Seen(k)[s] = text[s] /\ s \in due) \/ (Seen(k)[s] = k.found[s] /\ s \in DOMAIN k.found)
    BY DEF Seen
  <2> QED
    BY <2>1, <2>2, <2>3
<1>7. \A p \in owed : p \in Quoted(k.snap)
  BY <1>1, <1>4 DEF Tracked, Shown
<1>8. missed \subseteq DOMAIN Seen(k) /\ k.born \subseteq k.changed
  BY <1>1, <1>4, <1>5 DEF EditsInv, Tracked, Listed
<1>9. Tracked(r)
  <2>1. Ordered(r)
    BY <1>3, <1>4, <1>6 DEF Ordered
  <2>2. Shown(r)
    BY <1>3, <1>7 DEF Shown
  <2>3. Reads(r) /\ Listed(r)
    BY <1>3, <1>4, <1>8 DEF Reads, Listed
  <2> QED
    BY <2>1, <2>2, <2>3 DEF Tracked
<1>10. task' = [task EXCEPT ![t] = r] /\ UNCHANGED <<text, dec, window, read, history>>
  BY <1>1, <1>2, ChangedDoes
<1> QED
  BY <1>9, <1>10, QuietEdits

\* None is dropped while there is room.
LEMMA CutFilled ==
    ASSUME NEW R, NEW n, NEW kept \in Cut(R, n), NEW p \in R, p \notin kept
    PROVE  Cardinality(Of(p[1], kept)) = n
BY DEF Cut

LEMMA EmbedEdits ==
    ASSUME CheckConstants, NumbersInv, EditsInv, NEW t \in Tasks, Embed(t)
    PROVE  EditsInv'
<1>1. PICK k \in Reader : k = task[t] /\ Shape(k) /\ k.pc = "embed" /\ Tracked(k)
  BY EmbedDoes, TaskFacts DEF EditsInv
<1>2. PICK near \in Similar(k.edited, k.snap) \cup {{}} : \E todo \in Cut(Todo(k, near), MaxPerSource) :
        task' = [task EXCEPT ![t] = [k EXCEPT !.pc = "next", !.todo = todo]]
  BY <1>1, EmbedDoes
<1>3. PICK todo \in Cut(Todo(k, near), MaxPerSource) : task' = [task EXCEPT ![t] = [k EXCEPT !.pc = "next", !.todo = todo]]
  BY <1>2
<1>4. PICK r : r = [k EXCEPT !.pc = "next", !.todo = todo]
  OBVIOUS
<1>5. /\ r.pc = "next" /\ r.kind = k.kind /\ r.snap = k.snap /\ r.found = k.found /\ r.todo = todo
      /\ r.changed = k.changed /\ r.born = k.born
  BY <1>4 DEF Reader
<1>6. k.kind = "check" /\ Ordered(k) /\ Shown(k) /\ Listed(k)
  BY <1>1 DEF Shape, Tracked
<1>7. ASSUME NEW q \in todo
      PROVE  q[1] \in Sources /\ q[3] = TextOf(k, q[1]) /\ Unread(q[1], q[3], k.snap)
  <2>1. q \in Todo(k, near)
    BY DEF Cut
  <2>2. PICK p \in Related(k, near) : q = <<p[1], p[2], TextOf(k, p[1])>>
    BY <2>1 DEF Todo
  <2>3. p[1] \in Sources /\ Unread(p[1], TextOf(k, p[1]), k.snap)
    BY <1>1, <1>2, RelatedIs
  <2> QED
    BY <2>2, <2>3
<1>8. \A q \in todo : Past(q[1], q[3])
  <2>1. \A s \in Sources : Past(s, TextOf(k, s))
    BY <1>6 DEF TextOf, Ordered, EditsInv, OwedInv
  <2> QED
    BY <1>7, <2>1
<1>9. ASSUME NEW q \in todo, NEW p \in owed, q[3] = text[q[1]], p[1] = q[1]
      PROVE  <<p[1], p[2], q[3]>> \in todo \/ Cardinality(Of(q[1], todo)) = MaxPerSource
  <2>1. p[1] \in DOMAIN k.found => k.found[p[1]] = text[p[1]]
    BY <1>7, <1>9 DEF TextOf
  <2>2. p \in Quoted(k.snap)
    BY <1>1, <1>6, <2>1 DEF Shown
  <2>3. Unread(p[1], TextOf(k, p[1]), k.snap)
    BY <1>7, <1>9
  <2>4. p \in Related(k, near)
    BY <1>1, <1>2, <2>2, <2>3, RelatedIs
  <2>5. <<p[1], p[2], TextOf(k, p[1])>> \in Todo(k, near)
    BY <2>4 DEF Todo
  <2>6. <<p[1], p[2], q[3]>> \in Todo(k, near)
    BY <1>7, <1>9, <2>5
  <2>7. PICK w \in Todo(k, near) : w = <<p[1], p[2], q[3]>>
    BY <2>6
  <2>8. w \notin todo => Cardinality(Of(w[1], todo)) = MaxPerSource
    BY CutFilled
  <2>9. w[1] = q[1]
    BY <1>9, <2>7
  <2>10. w \in todo \/ Cardinality(Of(q[1], todo)) = MaxPerSource
    BY <2>8, <2>9, Zenon
  <2>11. CASE w \in todo
    BY <2>7, <2>11, Zenon
  <2> QED
    BY <2>10, <2>11
<1>10. Tracked(r)
  <2>1. Ordered(r)
    BY <1>5, <1>6, <1>8 DEF Ordered
  <2>2. Reads(r)
    BY <1>5, <1>9 DEF Reads
  <2>3. Shown(r) /\ Listed(r)
    BY <1>1, <1>5, <1>6 DEF Shown, Listed
  <2> QED
    BY <2>1, <2>2, <2>3 DEF Tracked
<1> QED
  BY <1>3, <1>4, <1>10, QuietEdits, EmbedDoes

-----------------------------------------------------------------------------
(***************************************************************************)
(* What is owed a reading: a check reads                                   *)
(***************************************************************************)

LEMMA TakeCheckEdits ==
    ASSUME NumbersInv, EditsInv, NEW t \in Tasks, TakeCheck(t)
    PROVE  EditsInv'
<1>1. PICK k \in Reader : k = task[t] /\ k.pc = "next"
  BY TaskFacts DEF TakeCheck
<1>2. \/ \E s : task' = [task EXCEPT ![t] = [k EXCEPT !.pc = "ask", !.src = s]]
      \/ task' = [task EXCEPT ![t] = [k EXCEPT !.pc = "end", !.capped = TRUE]]
  BY <1>1, TaskFacts DEF TakeCheck
<1>3. PICK r : task' = [task EXCEPT ![t] = r] /\ ((\E s : r = [k EXCEPT !.pc = "ask", !.src = s]) \/ r = [k EXCEPT !.pc = "end", !.capped = TRUE])
  BY <1>2
<1>4. /\ r.kind = k.kind /\ r.found = k.found /\ r.snap = k.snap /\ r.todo = k.todo /\ r.changed = k.changed /\ r.born = k.born
      /\ r.pc \in {"ask", "end"}
  BY <1>3 DEF Reader
<1>5. Tracked(r)
  BY <1>1, <1>4, ReadsOn DEF Reading
<1> QED
  BY <1>3, <1>5, QuietEdits DEF TakeCheck

LEMMA AskEdits ==
    ASSUME NumbersInv, EditsInv, NEW t \in Tasks, Ask(t)
    PROVE  EditsInv'
<1>1. PICK k \in Reader : k = task[t] /\ k.pc = "ask"
  BY TaskFacts DEF Ask
<1>2. CASE Goto(t, "record")
  BY <1>1, <1>2, GotoEdits DEF Ask, Reading
<1>3. ASSUME NEW d, NEW q, task' = [task EXCEPT ![t].pc = "cite", ![t].dec = d, ![t].quote = q]
      PROVE  EditsInv'
  <2>1. PICK r : r = [k EXCEPT !.pc = "cite", !.dec = d, !.quote = q]
    OBVIOUS
  <2>2. task' = [task EXCEPT ![t] = r]
    BY <1>1, <1>3, <2>1, TaskFacts
  <2>3. /\ r.kind = k.kind /\ r.found = k.found /\ r.snap = k.snap /\ r.todo = k.todo /\ r.changed = k.changed /\ r.born = k.born
        /\ r.pc = "cite"
    BY <2>1 DEF Reader
  <2>4. Tracked(r)
    BY <1>1, <2>3, ReadsOn DEF Reading
  <2> QED
    BY <2>2, <2>4, QuietEdits DEF Ask
<1> QED
  BY <1>2, <1>3 DEF Ask

\* A task that adds evidence, a check or a person's.
LEMMA CiteEdits ==
    ASSUME NumbersInv, EditsInv, NEW t \in Tasks, Cite(t)
    PROVE  EditsInv'
<1>1. PICK k \in Reader : k = task[t] /\ k.pc = "cite"
  BY TaskFacts DEF Cite
<1>2. CASE Goto(t, "record")
  BY <1>1, <1>2, GotoEdits DEF Cite, Reading
<1>3. CASE Over(t)
  BY <1>3, OverEdits DEF Cite
<1>4. CASE task' = [task EXCEPT ![t].pc = "add", ![t].fp = text[task[t].src], ![t].fresh = TRUE]
  <2>1. PICK r : r = [k EXCEPT !.pc = "add", !.fp = text[k.src], !.fresh = TRUE]
    OBVIOUS
  <2>2. task' = [task EXCEPT ![t] = r]
    BY <1>1, <1>4, <2>1, TaskFacts
  <2>3. /\ r.kind = k.kind /\ r.found = k.found /\ r.snap = k.snap /\ r.todo = k.todo /\ r.changed = k.changed /\ r.born = k.born
        /\ r.pc = "add"
    BY <2>1 DEF Reader
  <2>4. Tracked(r)
    BY <1>1, <2>3, ReadsOn DEF Reading
  <2> QED
    BY <2>2, <2>4, QuietEdits DEF Cite
<1> QED
  BY <1>2, <1>3, <1>4 DEF Cite

LEMMA ReadDecisionEdits ==
    ASSUME NumbersInv, EditsInv, NEW t \in Tasks, ReadDecision(t)
    PROVE  EditsInv'
<1>1. PICK k \in Reader : k = task[t] /\ k.pc = "add"
  BY TaskFacts DEF ReadDecision
<1>2. CASE Goto(t, "record")
  BY <1>1, <1>2, GotoEdits DEF ReadDecision, Reading
<1>3. CASE Over(t)
  BY <1>3, OverEdits DEF ReadDecision
<1>4. CASE task' = [task EXCEPT ![t].pc = "put", ![t].tries = @ + 1, ![t].seen = dec[task[t].dec].sources]
  <2>1. PICK n, seen : task' = [task EXCEPT ![t] = [k EXCEPT !.pc = "put", !.tries = n, !.seen = seen]]
    BY <1>1, <1>4, TaskFacts
  <2>2. PICK r : r = [k EXCEPT !.pc = "put", !.tries = n, !.seen = seen]
    OBVIOUS
  <2>3. /\ r.kind = k.kind /\ r.found = k.found /\ r.snap = k.snap /\ r.todo = k.todo /\ r.changed = k.changed /\ r.born = k.born
        /\ r.pc = "put"
    BY <2>2 DEF Reader
  <2>4. Tracked(r)
    BY <1>1, <2>3, ReadsOn DEF Reading
  <2> QED
    BY <2>1, <2>2, <2>4, QuietEdits DEF ReadDecision
<1> QED
  BY <1>2, <1>3, <1>4 DEF ReadDecision

\* No decision is settled otherwise, and none quotes less.
LEMMA OwedQuoted ==
    ASSUME NumbersInv, EditsInv, UNCHANGED <<text, window, read, history>>,
           \A d \in Decisions : dec'[d].status = dec[d].status /\ Evidence(d) \subseteq Evidence(d)'
    PROVE  Settled /\ OwedInv' /\ missed' \subseteq due'
<1>1. Settled /\ missed' = missed /\ due' = due /\ owed' = owed
  BY WindowKept DEF Settled, history
<1>2. \A p \in owed : p[2] \in Decisions /\ dec[p[2]].status = "accepted" /\ \E e \in Evidence(p[2]) : e.src = p[1]
  BY WorldFacts DEF EditsInv, OwedInv, Quotes
<1>3. ASSUME NEW p \in owed'
      PROVE  dec'[p[2]].status = "accepted" /\ Quotes(p[2], p[1])'
  <2>1. p[2] \in Decisions /\ dec[p[2]].status = "accepted" /\ \E e \in Evidence(p[2]) : e.src = p[1]
    BY <1>1, <1>2
  <2>2. \E e \in Evidence(p[2])' : e.src = p[1]
    BY <2>1
  <2> QED
    BY <2>1, <2>2 DEF Quotes
<1> QED
  BY <1>1, <1>3, OwedKept DEF EditsInv

LEMMA StoreAttentionEdits ==
    ASSUME NumbersInv, EditsInv, NEW t \in Tasks, StoreAttention(t)
    PROVE  EditsInv'
<1>1. task[t].pc = "store" /\ UNCHANGED <<text, window, read, history>>
  BY DEF StoreAttention
<1>2. ASSUME NEW d \in Decisions
      PROVE  dec'[d].evidence = dec[d].evidence /\ dec'[d].status = dec[d].status
  <2>1. PICK b \in BOOLEAN : dec'[d] = [dec[d] EXCEPT !.flag = b] \/ dec'[d] = dec[d]
    BY DEF StoreAttention
  <2>2. dec[d] \in Decision
    BY WorldFacts
  <2> QED
    BY <2>1, <2>2 DEF Decision
<1>3. Settled /\ OwedInv' /\ missed' \subseteq due'
  BY <1>1, <1>2, OwedQuoted DEF Evidence
<1>4. PICK r : task' = [task EXCEPT ![t] = r] /\ Tracked(r)
  <2>1. CASE Inside(t)
    <3>1. PICK k \in Reader : k = task[t] /\ Tracked(k)
      BY TaskFacts DEF EditsInv
    <3>2. PICK r : r = [k EXCEPT !.pc = "look", !.flags = {}]
      OBVIOUS
    <3>3. /\ r.kind = k.kind /\ r.found = k.found /\ r.snap = k.snap /\ r.todo = k.todo /\ r.changed = k.changed /\ r.born = k.born
          /\ r.pc = "look"
      BY <3>2 DEF Reader
    <3>4. task' = [task EXCEPT ![t] = r]
      BY <2>1, <3>1, <3>2, TaskFacts DEF StoreAttention
    <3> QED
      BY <3>1, <3>3, <3>4, GoesOn DEF Reading
  <2>2. CASE ~Inside(t)
    <3>1. task' = [task EXCEPT ![t] = Idle]
      BY <2>2, TaskFacts DEF StoreAttention
    <3> QED
      BY <3>1, BlankTracked
  <2> QED
    BY <2>1, <2>2
<1> QED
  BY <1>3, <1>4, StepEdits, StillTracked

LEMMA AddEvidenceEdits ==
    ASSUME CheckConstants, NumbersInv, EditsInv, NEW t \in Tasks, AddEvidence(t)
    PROVE  EditsInv'
<1>1. task[t].pc = "put" /\ task[t].pc \in Reading /\ UNCHANGED <<text, window, read, history>>
  BY DEF AddEvidence, Reading
<1>2. CASE Len(dec[task[t].dec].evidence) < MaxEvidence /\ Len(dec[task[t].dec].sources) = Len(task[t].seen)
  <2>1. Put(t)
    BY <1>2 DEF AddEvidence
  <2>2. PICK c, n, old, g :
          /\ c = task[t].dec /\ n = NewEvidence(task[t]) /\ old = dec[task[t].dec].evidence
          /\ g = WithSources(dec[task[t].dec].sources, task[t].src)
    OBVIOUS
  <2>10. c \in Decisions /\ n \in Entry /\ old = dec[c].evidence
         /\ dec' = [dec EXCEPT ![c] = [dec[c] EXCEPT !.evidence = Append(old, n), !.sources = g]]
    <3>1. /\ task[t].dec \in Decisions /\ NewEvidence(task[t]) \in Entry
          /\ dec' = [dec EXCEPT ![task[t].dec] = [dec[task[t].dec] EXCEPT
                        !.evidence = Append(dec[task[t].dec].evidence, NewEvidence(task[t])),
                        !.sources = WithSources(dec[task[t].dec].sources, task[t].src)]]
      BY <1>1, <1>2, <2>1, PutDoes
    <3> QED
      BY <2>2, <3>1
  <2>11. old \in Seq(Entry)
    BY <2>10, DecisionFacts
  <2>3. ASSUME NEW d \in Decisions
        PROVE  dec'[d].status = dec[d].status /\ Evidence(d) \subseteq Evidence(d)'
    <3>1. CASE d = c
      <4>1. dec'[d].status = dec[d].status /\ dec'[d].evidence = Append(old, n)
        BY <2>10, <3>1, WorldFacts DEF Decision
      <4>2. \A i \in 1..Len(old) : i \in DOMAIN Append(old, n) /\ Append(old, n)[i] = old[i]
        BY <2>10, <2>11
      <4>3. \A e \in Evidence(d) : \E i \in 1..Len(old) : e = old[i]
        BY <2>10, <3>1, DecisionFacts
      <4>4. Evidence(d)' = Range(Append(old, n))
        BY <4>1 DEF Evidence
      <4> QED
        BY <4>1, <4>2, <4>3, <4>4 DEF Range
    <3>2. CASE d # c
      <4>1. dec'[d] = dec[d]
        BY <2>10, <3>2, WorldFacts
      <4> QED
        BY <4>1 DEF Evidence
    <3> QED
      BY <3>1, <3>2
  <2>4. Settled /\ OwedInv' /\ missed' \subseteq due'
    BY <1>1, <2>3, OwedQuoted
  <2>5. PICK r : task' = [task EXCEPT ![t] = r] /\ Tracked(r)
    <3>1. CASE Goto(t, "record")
      <4>1. task' = [task EXCEPT ![t] = [task[t] EXCEPT !.pc = "record"]]
        BY <3>1, TaskFacts DEF Goto
      <4> QED
        BY <1>1, <4>1, GotoTracked DEF Reading
    <3>2. CASE Over(t)
      BY <3>2, OverIs, BlankTracked, WorldFacts
    <3> QED
      BY <2>1, <3>1, <3>2 DEF Put
  <2> QED
    BY <2>4, <2>5, StepEdits, StillTracked
<1>3. CASE ~(Len(dec[task[t].dec].evidence) < MaxEvidence /\ Len(dec[task[t].dec].sources) = Len(task[t].seen))
  <2>1. Goto(t, "add") /\ UNCHANGED dec
    BY <1>3 DEF AddEvidence
  <2> QED
    BY <1>1, <2>1, GotoEdits DEF Reading
<1> QED
  BY <1>2, <1>3

LEMMA RecordEdits ==
    ASSUME CheckConstants, NumbersInv, EditsInv, NEW t \in Tasks, Record(t)
    PROVE  EditsInv'
<1>1. PICK k \in Reader : k = task[t] /\ Shape(k) /\ k.pc = "record" /\ Tracked(k)
  BY TaskFacts DEF EditsInv, Record
<1>2. PICK src, mine, x, rest :
        src = k.src /\ mine = Of(k.src, k.todo) /\ x = (CHOOSE p \in mine : TRUE)[3] /\ rest = k.todo \ mine
  OBVIOUS
<1>3. /\ read' = (IF Inside(t) THEN [read EXCEPT ![src] = x] ELSE read)
      /\ task' = [task EXCEPT ![t] = [k EXCEPT !.pc = "next", !.todo = rest, !.src = None, !.dec = None, !.quote = None, !.fp = None,
                                               !.fresh = TRUE, !.seen = <<>>, !.tries = 0]]
      /\ owed' = (IF Inside(t) /\ x = text[src]
                  THEN {p \in owed : p[1] = src => <<p[1], p[2], x>> \notin mine /\ Cardinality(mine) < MaxPerSource} ELSE owed)
      /\ UNCHANGED <<text, dec, window, missed>>
  BY <1>1, <1>2, TaskFacts DEF Record
<1>4. PICK r : r = [k EXCEPT !.pc = "next", !.todo = rest, !.src = None, !.dec = None, !.quote = None, !.fp = None,
                             !.fresh = TRUE, !.seen = <<>>, !.tries = 0]
  OBVIOUS
<1>5. /\ r.pc = "next" /\ r.kind = k.kind /\ r.snap = k.snap /\ r.found = k.found /\ r.todo = rest
      /\ r.changed = k.changed /\ r.born = k.born
  BY <1>4 DEF Reader
<1>6. Settled /\ missed' = missed /\ due' = due
  BY <1>3, WindowKept DEF Settled
<1>7. \A q : q \in mine <=> q \in k.todo /\ q[1] = src
  BY <1>2 DEF Of
<1>8. PICK w \in k.todo : w[1] = src /\ w[3] = x /\ src \in Sources
  <2>1. \E q \in k.todo : q[1] = k.src
    BY <1>1 DEF Shape
  <2>2. PICK w : w = (CHOOSE p \in mine : TRUE) /\ w \in mine
    BY <1>2, <1>7, <2>1
  <2>3. k.todo \subseteq Entries
    BY ReaderFields
  <2>4. w \in k.todo /\ w[1] = src /\ w \in Entries
    BY <1>7, <2>2, <2>3
  <2>5. w[3] = x
    BY <1>2, <2>2
  <2> QED
    BY <2>4, <2>5, EntryFields
<1>9. Tracked(r)
  <2>1. CASE k.kind # "check"
    BY <1>5, <2>1 DEF Tracked
  <2>2. CASE k.kind = "check"
    <3>1. Ordered(k) /\ Reads(k) /\ Listed(k)
      BY <1>1, <2>2 DEF Tracked
    <3>2. Ordered(r)
      BY <1>2, <1>5, <3>1 DEF Ordered
    <3>3. ASSUME NEW q \in rest, NEW p \in owed, q[3] = text[q[1]], p[1] = q[1]
          PROVE  <<p[1], p[2], q[3]>> \in rest \/ Cardinality(Of(q[1], rest)) = MaxPerSource
      <4>1. q \in k.todo /\ q[1] # src
        BY <1>2, <1>7
      <4>2. <<p[1], p[2], q[3]>> \in k.todo \/ Cardinality(Of(q[1], k.todo)) = MaxPerSource
        BY <3>1, <3>3, <4>1 DEF Reads
      <4>3. Of(q[1], rest) = Of(q[1], k.todo)
        BY <1>2, <1>7, <4>1 DEF Of
      <4>4. PICK z : z = <<p[1], p[2], q[3]>>
        OBVIOUS
      <4>5. z[1] # src
        BY <3>3, <4>1, <4>4
      <4>6. z \in k.todo => z \in rest
        BY <1>2, <1>7, <4>5
      <4> QED
        BY <4>2, <4>3, <4>4, <4>6
    <3>4. Reads(r)
      BY <1>5, <3>3 DEF Reads
    <3>5. Shown(r) /\ Listed(r)
      BY <1>1, <1>5, <3>1 DEF Shown, Listed, Reading
    <3> QED
      BY <3>2, <3>4, <3>5 DEF Tracked
  <2> QED
    BY <2>1, <2>2
<1>10. CASE ~Inside(t)
  <2>1. OwedInv'
    BY <1>3, <1>6, <1>10, OwedStays DEF EditsInv
  <2> QED
    BY <1>3, <1>4, <1>6, <1>9, <2>1, StepEdits, StillTracked DEF EditsInv
<1>11. CASE Inside(t)
  <2>1. Ordered(k) /\ Reads(k)
    BY <1>1, <1>11 DEF Tracked, Inside
  <2>2. \A s \in Sources : read'[s] = IF s = src THEN x ELSE read[s]
    BY <1>3, <1>8, <1>11, WorldFacts
  <2>3. ASSUME NEW p \in owed'
        PROVE  /\ p \in owed /\ text'[p[1]] # None /\ read'[p[1]] # text'[p[1]]
               /\ dec'[p[2]].status = "accepted" /\ Quotes(p[2], p[1])'
    <3>1. /\ p \in owed /\ text[p[1]] # None /\ dec[p[2]].status = "accepted" /\ Quotes(p[2], p[1])
          /\ p[1] \in Sources /\ read[p[1]] # text[p[1]]
      BY <1>6, WorldFacts DEF Settled, EditsInv, OwedInv
    <3>2. ASSUME p[1] = src, x = text[src]
          PROVE  FALSE
      <4>1. <<p[1], p[2], x>> \notin mine /\ Cardinality(mine) < MaxPerSource
        BY <1>3, <1>11, <3>2
      <4>2. <<p[1], p[2], w[3]>> \in k.todo \/ Cardinality(Of(w[1], k.todo)) = MaxPerSource
        BY <1>8, <2>1, <3>1, <3>2 DEF Reads
      <4>3. Cardinality(mine) # MaxPerSource
        BY <4>1 DEF CheckConstants
      <4>4. PICK z : z = <<p[1], p[2], x>>
        OBVIOUS
      <4>5. z[1] = src /\ z \in k.todo
        BY <1>2, <1>8, <3>2, <4>2, <4>3, <4>4
      <4> QED
        BY <1>7, <4>1, <4>4, <4>5
    <3>3. read'[p[1]] # text[p[1]]
      BY <2>2, <3>1, <3>2
    <3>4. Quotes(p[2], p[1])'
      BY <1>3, <3>1 DEF Quotes, Evidence
    <3> QED
      BY <1>3, <3>1, <3>3, <3>4
  <2>4. ASSUME NEW s \in Sources
        PROVE  (Past(s, read[s]) /\ Past(s, text[s]))'
    <3>1. Past(s, read'[s]) /\ Past(s, text[s])
      BY <1>8, <2>1, <2>2 DEF Ordered, EditsInv, OwedInv
    <3>2. Unborn' = Unborn /\ text' = text
      BY <1>3, WindowKept
    <3> QED
      BY <3>1, <3>2 DEF Past
  <2>5. OwedInv'
    BY <2>3, <2>4 DEF OwedInv
  <2> QED
    BY <1>3, <1>4, <1>6, <1>9, <2>5, StepEdits, StillTracked DEF EditsInv
<1> QED
  BY <1>10, <1>11

LEMMA EndEdits ==
    ASSUME NumbersInv, EditsInv, NEW t \in Tasks, End(t)
    PROVE  EditsInv'
<1>1. CASE UNCHANGED <<window, missed>>
  BY <1>1, EndDoes, OverEdits DEF history
<1>2. CASE /\ Inside(t) /\ due' = task[t].changed /\ created' = Unborn \cup task[t].born
           /\ missed' = missed \ (DOMAIN task[t].found \ task[t].changed)
  <2>1. PICK k : k = task[t] /\ Tracked(k) /\ k.pc \in Reading
    BY EndDoes DEF EditsInv, Reading
  <2>2. k.born \subseteq k.changed /\ missed \subseteq DOMAIN k.found \cup k.changed
    BY <1>2, <2>1 DEF Tracked, Listed, Inside
  <2>3. Settled /\ missed' \subseteq due'
    BY <1>2, <2>1, <2>2, EndDoes DEF Settled, Unborn
  <2>4. OwedInv'
    BY <2>3, EndDoes, OwedStays DEF EditsInv
  <2>5. PICK r : r = Ended(k)
    OBVIOUS
  <2>6. Tracked(r)' /\ task' = [task EXCEPT ![t] = r]
    BY <2>1, <2>3, <2>5, BlankTracked, StillTracked, EndDoes, OverIs, WorldFacts
  <2> QED
    BY <2>3, <2>4, <2>6, StepEdits
<1> QED
  BY <1>1, <1>2, EndDoes

-----------------------------------------------------------------------------
(***************************************************************************)
(* What is owed a reading: what changes under a check                      *)
(***************************************************************************)

\* All but the i-th are left.
LEMMA RemoveLeaves ==
    ASSUME NEW S, NEW e \in Seq(S), NEW i \in 1..Len(e), NEW j \in (1..Len(e)) \ {i}
    PROVE  \E m \in 1..Len(RemoveAt(e, i)) : RemoveAt(e, i)[m] = e[j]
<1>1. PICK a, b, n : a = SubSeq(e, 1, i - 1) /\ b = SubSeq(e, i + 1, Len(e)) /\ n = Len(e)
  OBVIOUS
<1>2. a \in Seq(S) /\ Len(a) = i - 1 /\ \A m \in 1..(i - 1) : a[m] = e[m]
  BY <1>1
<1>3. b \in Seq(S) /\ Len(b) = n - i /\ \A m \in 1..(n - i) : b[m] = e[m + i]
  BY <1>1
<1>4. RemoveAt(e, i) = a \o b /\ n \in Nat /\ i \in 1..n /\ j \in 1..n /\ i # j
  BY <1>1 DEF RemoveAt
<1>5. /\ Len(a \o b) = n - 1 /\ \A m \in 1..(i - 1) : (a \o b)[m] = a[m]
      /\ \A m \in i..(n - 1) : (a \o b)[m] = b[m - (i - 1)]
  <2>1. Len(a \o b) = n - 1
    <3>1. a \in Seq(S) /\ b \in Seq(S)
      BY <1>2, <1>3
    <3>2. Len(a \o b) = Len(a) + Len(b)
      BY <3>1
    <3> QED
      BY <1>2, <1>3, <1>4, <3>2
  <2>2. ASSUME NEW m \in 1..(i - 1)
        PROVE  (a \o b)[m] = a[m]
    BY <1>2, <1>3, <1>4
  <2>3. ASSUME NEW m \in i..(n - 1)
        PROVE  (a \o b)[m] = b[m - (i - 1)]
    <3>1. m \in (Len(a) + 1)..(Len(a) + Len(b)) /\ Len(a) \in Nat /\ Len(b) \in Nat /\ Len(a) = i - 1
      BY <1>2, <1>3, <1>4
    <3>2. (a \o b)[m] = b[m - Len(a)]
      BY <1>2, <1>3, <3>1
    <3> QED
      BY <3>1, <3>2
  <2> QED
    BY <2>1, <2>2, <2>3
<1>6. CASE j < i
  <2>1. j \in 1..(i - 1) /\ j \in 1..(n - 1)
    BY <1>4, <1>6
  <2> QED
    BY <1>2, <1>4, <1>5, <2>1
<1>7. CASE j > i
  <2>1. j - 1 \in 1..(n - 1) /\ j - 1 \in i..(n - 1) /\ j - 1 - (i - 1) = j - i /\ j - i \in 1..(n - i) /\ j - i + i = j
    BY <1>4, <1>7
  <2>2. (a \o b)[j - 1] = b[j - i]
    BY <1>5, <2>1
  <2>3. b[j - i] = e[j]
    BY <1>3, <2>1
  <2> QED
    BY <1>4, <1>5, <2>1, <2>2, <2>3
<1>8. j < i \/ j > i
  BY <1>4
<1> QED
  BY <1>6, <1>7, <1>8

LEMMA RemoveEvidenceEdits ==
    ASSUME NumbersInv, EditsInv, NEW d \in Decisions, NEW i, RemoveEvidence(d, i)
    PROVE  EditsInv'
<1>1. PICK e \in Seq(Entry) : e = dec[d].evidence /\ i \in 1..Len(e)
  BY DecisionFacts DEF RemoveEvidence
<1>2. PICK fewer \in Seq(Entry) : fewer = RemoveAt(e, i)
  BY <1>1, RemoveFacts
<1>3. /\ dec' = [dec EXCEPT ![d] = [dec[d] EXCEPT !.evidence = fewer]] /\ UNCHANGED <<text, window, read, task, missed>>
      /\ \A p \in owed' : p \in owed /\ (p[2] = d => \E j \in (1..Len(e)) \ {i} : e[j].src = p[1])
  <2>1. dec' = [dec EXCEPT ![d] = [dec[d] EXCEPT !.evidence = fewer]]
    BY <1>1, <1>2, WorldFacts DEF RemoveEvidence
  <2>2. UNCHANGED <<text, window, read, task, missed>>
    BY DEF RemoveEvidence
  <2>3. DOMAIN e = 1..Len(e)
    OBVIOUS
  <2>4. owed' = {p \in owed : p[2] = d => \E j \in DOMAIN e \ {i} : e[j].src = p[1]}
    BY <1>1 DEF RemoveEvidence
  <2> QED
    BY <2>1, <2>2, <2>3, <2>4
<1>4. Settled /\ missed' = missed /\ due' = due
  BY <1>3, WindowKept DEF Settled
<1>5. ASSUME NEW j \in (1..Len(e)) \ {i}
      PROVE  \E m \in 1..Len(fewer) : fewer[m] = e[j]
  BY <1>1, <1>2, RemoveLeaves
<1>6. ASSUME NEW p \in owed'
      PROVE  dec'[p[2]].status = "accepted" /\ Quotes(p[2], p[1])'
  <2>1. p \in owed /\ p[2] \in Decisions /\ dec[p[2]].status = "accepted" /\ Quotes(p[2], p[1])
    BY <1>3, WorldFacts DEF EditsInv, OwedInv
  <2>2. CASE p[2] # d
    BY <1>3, <2>1, <2>2, WorldFacts DEF Quotes, Evidence
  <2>3. CASE p[2] = d
    <3>1. dec'[d].evidence = fewer /\ dec'[d].status = dec[d].status
      BY <1>3, WorldFacts DEF Decision
    <3>2. PICK j \in (1..Len(e)) \ {i} : e[j].src = p[1]
      BY <1>3, <2>3
    <3>3. PICK m \in 1..Len(fewer) : fewer[m] = e[j]
      BY <1>5
    <3>4. fewer[m] \in Range(fewer) /\ fewer[m].src = p[1]
      BY <3>2, <3>3 DEF Range
    <3> QED
      BY <2>1, <2>3, <3>1, <3>4 DEF Quotes, Evidence
  <2> QED
    BY <2>2, <2>3
<1>7. OwedInv'
  BY <1>3, <1>4, <1>6, OwedKept DEF EditsInv
<1>8. ASSUME NEW t \in Tasks
      PROVE  Tracked(task[t])'
  <2>1. PICK k : k = task[t] /\ Tracked(k)
    BY DEF EditsInv
  <2>2. Tracked(k)' /\ task'[t] = k
    BY <1>3, <1>4, <2>1, StillTracked
  <2> QED
    BY <2>2 DEF Tracked, Ordered, Past, Shown, Reads, Listed
<1> QED
  BY <1>4, <1>7, <1>8 DEF EditsInv

LEMMA ChangeStatusEdits ==
    ASSUME NumbersInv, EditsInv, NEW d \in Decisions, NEW status \in Statuses, ChangeStatus(d, status)
    PROVE  EditsInv'
<1>1. PICK e \in Seq(Entry) : e = dec[d].evidence /\ DOMAIN e = 1..Len(e)
  BY DecisionFacts
<1>2. PICK older : older = [i \in DOMAIN e |-> [e[i] EXCEPT !.new = FALSE]]
  OBVIOUS
<1>3. /\ dec' = [dec EXCEPT ![d] = [dec[d] EXCEPT !.status = status, !.evidence = older]]
      /\ task' = [t \in Tasks |-> IF task[t].dec = d THEN [task[t] EXCEPT !.fresh = FALSE] ELSE task[t]]
      /\ UNCHANGED <<text, window, read, missed>>
      /\ owed' = {p \in owed : p[2] # d \/ status = "accepted"}
  BY <1>1, <1>2, WorldFacts DEF ChangeStatus
<1>4. Settled /\ missed' = missed /\ due' = due
  BY <1>3, WindowKept DEF Settled
<1>5. DOMAIN older = 1..Len(e) /\ \A i \in 1..Len(e) : older[i].src = e[i].src
  <2>1. \A i \in 1..Len(e) : e[i] \in Entry
    OBVIOUS
  <2>2. \A y \in Entry : [y EXCEPT !.new = FALSE].src = y.src
    BY DEF Entry
  <2> QED
    BY <1>1, <1>2, <2>1, <2>2
<1>6. ASSUME NEW p \in owed'
      PROVE  dec'[p[2]].status = "accepted" /\ Quotes(p[2], p[1])'
  <2>1. p \in owed /\ p[2] \in Decisions /\ dec[p[2]].status = "accepted" /\ Quotes(p[2], p[1])
    BY <1>3, WorldFacts DEF EditsInv, OwedInv
  <2>2. CASE p[2] # d
    BY <1>3, <2>1, <2>2, WorldFacts DEF Quotes, Evidence
  <2>3. CASE p[2] = d
    <3>1. dec'[d].evidence = older /\ dec'[d].status = "accepted"
      BY <1>3, <2>3, WorldFacts DEF Decision
    <3>2. PICK y \in Evidence(d) : y.src = p[1]
      BY <2>1, <2>3 DEF Quotes
    <3>3. PICK i \in 1..Len(e) : y = e[i]
      BY <1>1, <3>2, DecisionFacts
    <3>4. older[i] \in Range(older) /\ older[i].src = p[1]
      BY <1>5, <3>2, <3>3 DEF Range
    <3> QED
      BY <2>3, <3>1, <3>4 DEF Quotes, Evidence
  <2> QED
    BY <2>2, <2>3
<1>7. OwedInv'
  BY <1>3, <1>4, <1>6, OwedKept DEF EditsInv
<1>8. ASSUME NEW t \in Tasks
      PROVE  Tracked(task[t])'
  <2>1. PICK k \in Reader : k = task[t] /\ Tracked(k)
    BY TaskFacts DEF EditsInv
  <2>2. PICK r : r = IF k.dec = d THEN [k EXCEPT !.fresh = FALSE] ELSE k
    OBVIOUS
  <2>3. /\ r.kind = k.kind /\ r.found = k.found /\ r.snap = k.snap /\ r.todo = k.todo /\ r.changed = k.changed /\ r.born = k.born
        /\ r.pc = k.pc
    BY <2>2 DEF Reader
  <2>4. Tracked(r)
    BY <2>1, <2>3 DEF Tracked, Ordered, Shown, Reads, Listed
  <2>5. Tracked(r)' /\ task'[t] = r
    BY <1>3, <1>4, <2>1, <2>2, <2>4, StillTracked
  <2> QED
    BY <2>5 DEF Tracked, Ordered, Past, Shown, Reads, Listed
<1> QED
  BY <1>4, <1>7, <1>8 DEF EditsInv

\* What a source said it said before the next text is written, which it never said.
LEMMA PastWritten ==
    ASSUME CheckConstants, NumbersInv, NEW s \in Sources, NEW x, Write(s, x),
           NEW v \in Sources, NEW y \in Texts \cup {None}, Past(v, y)
    PROVE  Past(v, y)' /\ (v = s /\ y # None => y # x)
<1>1. /\ \A u \in Sources : text'[u] = IF u = s THEN x ELSE text[u]
      /\ Unborn' = Unborn \ {s}
  BY WriteDoes, WorldFacts DEF Unborn
<1>2. CASE v # s \/ y = None
  BY <1>1, <1>2 DEF Past
<1>3. CASE v = s /\ y # None
  <2>1. text[s] # None /\ y <= text[s] /\ y \in Nat
    BY <1>3, WriteDoes DEF Past, CheckConstants
  <2>2. x # None => x > text[s] /\ x \in Nat /\ text[s] \in Nat
    BY <2>1, WriteDoes
  <2>3. x # None => y <= x /\ y # x
    BY <2>1, <2>2
  <2> QED
    BY <1>1, <1>3, <2>3 DEF Past
<1> QED
  BY <1>2, <1>3

\* What is owed after a write is of sources and decisions.
LEMMA OwedOf ==
    ASSUME CheckConstants, NumbersInv, NEW s \in Sources, NEW x, Write(s, x), NEW p \in owed'
    PROVE  p[1] \in Sources /\ p[2] \in Decisions /\ p = <<p[1], p[2]>>
<1>1. owed' \in SUBSET (Sources \X Decisions)
  BY WriteDoes DEF Records
<1> QED
  BY <1>1

LEMMA WriteEdits ==
    ASSUME CheckConstants, NumbersInv, EditsInv, NEW s \in Sources, NEW x, Write(s, x)
    PROVE  EditsInv'
<1>1. /\ \A v \in Sources : text'[v] = IF v = s THEN x ELSE text[v]
      /\ due' = due \cup {s} /\ UNCHANGED <<dec, read>> /\ x \in Texts \cup {None}
      /\ \A t \in Tasks : task'[t] = IF Inside(t) THEN Marked(task[t], s) ELSE task[t]
  BY WriteDoes, WorldFacts
<1>2. /\ missed' \subseteq missed \cup {s}
      /\ \A p \in owed' : /\ p \in owed \/ (p[1] = s /\ p[2] \in Accepted /\ Quotes(p[2], s) /\ SeenByChecks(s, p[2]))
                          /\ p[1] = s => x # None
  <2>1. CASE x = None
    <3>1. owed' = {p \in owed : p[1] # s} /\ missed' = missed \ {s}
      BY <2>1 DEF Write
    <3> QED
      BY <3>1
  <2>2. CASE x # None
    <3>1. /\ owed' = owed \cup {<<s, d>> : d \in {c \in Accepted : Quotes(c, s) /\ SeenByChecks(s, c)}}
          /\ missed' = missed \cup {s}
      BY <2>2 DEF Write
    <3>2. ASSUME NEW p \in owed', p \notin owed
          PROVE  p[1] = s /\ p[2] \in Accepted /\ Quotes(p[2], s) /\ SeenByChecks(s, p[2])
      <4>1. PICK d \in Accepted : p = <<s, d>> /\ Quotes(d, s) /\ SeenByChecks(s, d)
        BY <3>1, <3>2
      <4>2. p[1] = s /\ p[2] = d
        BY <4>1
      <4> QED
        BY <4>1, <4>2
    <3> QED
      BY <2>2, <3>1, <3>2
  <2> QED
    BY <2>1, <2>2
<1>3. \A v \in Sources : \A y \in Texts \cup {None} : Past(v, y) => Past(v, y)' /\ (v = s /\ y # None => y # x)
  BY PastWritten
<1>4. \A v \in Sources : Past(v, text[v]) /\ Past(v, read[v])
  BY DEF EditsInv, OwedInv
<1>5. Unborn' = Unborn \ {s}
  BY WriteDoes DEF Unborn
<1>6. ASSUME NEW v \in Sources
      PROVE  (Past(v, read[v]) /\ Past(v, text[v]))'
  <2>1. Past(v, read[v])'
    BY <1>1, <1>3, <1>4, WorldFacts DEF Past
  <2>2. CASE v # s
    BY <1>1, <1>4, <1>5, <2>1, <2>2 DEF Past
  <2>3. CASE v = s
    <3>1. x # None => x \in Nat
      BY <1>1 DEF CheckConstants
    <3>2. x # None => x <= x
      BY <3>1
    <3> QED
      BY <1>1, <1>5, <2>1, <2>3, <3>2 DEF Past
  <2> QED
    BY <2>2, <2>3
<1>7. ASSUME NEW p \in owed'
      PROVE  /\ dec'[p[2]].status = "accepted" /\ Quotes(p[2], p[1])'
             /\ text'[p[1]] # None /\ read'[p[1]] # text'[p[1]]
  <2>1. p[1] \in Sources /\ p[2] \in Decisions
    BY OwedOf
  <2>2. dec[p[2]].status = "accepted" /\ Quotes(p[2], p[1])
    BY <1>2 DEF EditsInv, OwedInv, Accepted
  <2>3. Quotes(p[2], p[1])'
    BY <1>1, <2>2 DEF Quotes, Evidence
  <2>4. CASE p[1] = s
    <3>1. x # None /\ text'[s] = x
      BY <1>1, <1>2, <2>4
    <3>2. read[s] # x
      BY <1>3, <1>4, <3>1, WorldFacts
    <3> QED
      BY <1>1, <2>2, <2>3, <2>4, <3>1, <3>2
  <2>5. CASE p[1] # s
    <3>1. p \in owed
      BY <1>2, <2>5
    <3>2. text[p[1]] # None /\ read[p[1]] # text[p[1]]
      BY <3>1 DEF EditsInv, OwedInv
    <3> QED
      BY <1>1, <2>1, <2>2, <2>3, <2>5, <3>2
  <2> QED
    BY <2>4, <2>5
<1>8. OwedInv'
  BY <1>6, <1>7 DEF OwedInv
<1>9. ASSUME NEW t \in Tasks, Inside(t)
      PROVE  Tracked(task[t])'
  <2>1. PICK k \in Reader : k = task[t] /\ k.kind = "check"
    BY <1>9, TaskFacts DEF Inside
  <2>2. Ordered(k) /\ Shown(k) /\ Reads(k) /\ Listed(k)
    BY <2>1 DEF EditsInv, Tracked
  <2>3. PICK r : r = Marked(k, s)
    OBVIOUS
  <2>4. /\ r.pc = k.pc /\ r.kind = k.kind /\ r.found = k.found /\ r.snap = k.snap /\ r.todo = k.todo
        /\ r.changed = k.changed \cup {s} /\ r.born = k.born \cup ({s} \cap Unborn)
    BY <2>3, MarkedIs
  <2>5. task'[t] = r
    BY <1>1, <1>9, <2>1, <2>3
  <2>6. \A v \in DOMAIN k.found : v \in Sources /\ k.found[v] \in Texts \cup {None}
    BY ReaderFields, FoundsFacts
  <2>7. \A q \in k.todo : q[1] \in Sources /\ q[3] \in Texts
    BY ReaderFields, EntryFields
  <2>8. Ordered(r)'
    BY <1>3, <2>2, <2>4, <2>6, <2>7 DEF Ordered
  <2>9. ASSUME k.pc \in {"changed", "embed"}, NEW p \in owed', k.pc = "embed" /\ p[1] \in DOMAIN k.found => k.found[p[1]] = text'[p[1]]
        PROVE  p \in Quoted(k.snap)
    <3>1. CASE p[1] # s
      <4>1. p \in owed /\ p[1] \in Sources
        BY <1>2, <3>1, WorldFacts
      <4> QED
        BY <1>1, <2>2, <2>9, <3>1, <4>1 DEF Shown
    <3>2. CASE p[1] = s
      <4>1. ~(k.pc = "embed" /\ s \in DOMAIN k.found)
        <5>1. x # None /\ text'[s] = x
          BY <1>1, <1>2, <3>2
        <5> QED
          BY <1>3, <2>2, <2>6, <2>9, <3>2, <5>1 DEF Ordered
      <4>2. CASE p \in owed
        BY <2>2, <2>9, <3>2, <4>1, <4>2 DEF Shown
      <4>3. CASE SeenByChecks(s, p[2])
        <5>1. <<s, p[2]>> \in Quoted(k.snap)
          BY <1>9, <2>1, <2>9, <4>1, <4>3 DEF SeenByChecks
        <5>2. p = <<p[1], p[2]>>
          BY OwedOf
        <5> QED
          BY <3>2, <5>1, <5>2
      <4> QED
        BY <1>2, <4>2, <4>3
    <3> QED
      BY <3>1, <3>2
  <2>10. Shown(r)'
    BY <2>4, <2>9 DEF Shown
  <2>11. ASSUME NEW q \in k.todo, NEW p \in owed', q[3] = text'[q[1]], p[1] = q[1]
         PROVE  <<p[1], p[2], q[3]>> \in k.todo \/ Cardinality(Of(q[1], k.todo)) = MaxPerSource
    <3>1. q[1] \in Sources /\ q[3] \in Texts /\ q[3] # None
      BY <2>7 DEF CheckConstants
    <3>2. q[1] # s
      BY <1>1, <1>3, <2>2, <2>11, <3>1 DEF Ordered
    <3>3. p \in owed /\ q[3] = text[q[1]]
      BY <1>1, <1>2, <2>11, <3>1, <3>2
    <3> QED
      BY <2>2, <2>11, <3>3 DEF Reads
  <2>12. Reads(r)'
    BY <2>4, <2>11 DEF Reads
  <2>13. Listed(r)'
    BY <1>2, <2>2, <2>4 DEF Listed
  <2>14. Tracked(r)'
    BY <2>8, <2>10, <2>12, <2>13 DEF Tracked
  <2> QED
    BY <2>5, <2>14 DEF Tracked, Ordered, Past, Shown, Reads, Listed
<1>10. ASSUME NEW t \in Tasks, ~Inside(t)
       PROVE  Tracked(task[t])'
  BY <1>1, <1>10 DEF Tracked, Inside
<1>11. missed' \subseteq due'
  BY <1>1, <1>2 DEF EditsInv
<1> QED
  BY <1>8, <1>9, <1>10, <1>11 DEF EditsInv

-----------------------------------------------------------------------------
LEMMA EditsInit ==
    ASSUME CheckConstants, Init
    PROVE  EditsInv
<1>1. PICK x \in Texts : text = [s \in Sources |-> IF s \in created THEN None ELSE x]
  <2>1. PICK x \in Texts : x = (CHOOSE y \in Texts : \A z \in Texts : y <= z)
    BY DEF CheckConstants
  <2> QED
    BY <2>1 DEF Init
<1>2. owed = {} /\ missed = {} /\ \A t \in Tasks : task[t] = Idle
  BY DEF Init
<1>3. ASSUME NEW s \in Sources
      PROVE  Past(s, read[s]) /\ Past(s, text[s])
  <2>1. read[s] = None /\ (text[s] # None => s \notin Unborn /\ text[s] \in Nat)
    BY <1>1 DEF Init, Unborn, CheckConstants
  <2>2. text[s] # None => text[s] <= text[s]
    BY <2>1
  <2> QED
    BY <2>1, <2>2 DEF Past
<1>4. \A t \in Tasks : Tracked(task[t])
  BY <1>2, BlankTracked
<1> QED
  BY <1>2, <1>3, <1>4 DEF EditsInv, OwedInv

LEMMA EditsKept ==
    ASSUME CheckConstants, NumbersInv, EditsInv, [Next]_vars
    PROVE  EditsInv'
<1>1. Requests \subseteq Tasks /\ Checks \subseteq Tasks
  BY DEF Tasks
<1>2. CASE \E t \in Tasks : CheckStep(t)
  BY <1>2, CompareEdits, StoreAttentionEdits, LookEdits, ChangedEdits, EmbedEdits, TakeCheckEdits, AskEdits,
     CiteEdits, ReadDecisionEdits, AddEvidenceEdits, RecordEdits, EndEdits, EndingEdits, ReleaseEdits DEF CheckStep
<1>3. CASE \E t \in Tasks : Fail(t) \/ Crash(t)
  BY <1>3, EndingEdits
<1>4. CASE \E t \in Checks : Claim(t)
  BY <1>1, <1>4, ClaimEdits
<1>5. CASE \E t \in Requests :
             \/ Open(t) \/ (\E d \in Decisions : ScanAccepted(t, d)) \/ \E s \in Sources : Suggest(t, s)
             \/ \E d \in Decisions, s \in Sources, q \in Passages, against \in BOOLEAN : AskToAdd(t, d, s, q, against)
  BY <1>1, <1>5, OpenEdits, ScanAcceptedEdits, SuggestEdits, AskToAddEdits
<1>6. CASE \E s \in Sources, x \in Texts \cup {None} : Write(s, x)
  BY <1>6, WriteEdits
<1>7. CASE \E d \in Decisions : (\E x \in Statuses : ChangeStatus(d, x)) \/ \E i \in 1..MaxEvidence : RemoveEvidence(d, i)
  BY <1>7, ChangeStatusEdits, RemoveEvidenceEdits
<1>8. CASE Lapse
  BY <1>8, SameEdits DEF Lapse
<1>9. CASE UNCHANGED vars
  BY <1>9, SameEdits DEF vars
<1> QED
  BY <1>2, <1>3, <1>4, <1>5, <1>6, <1>7, <1>8, <1>9 DEF Next

LEMMA EditsMean == ASSUME EditsInv PROVE EditsAreRead /\ EditsAreListed
BY DEF EditsInv, OwedInv, EditsAreRead, EditsAreListed

\* What a decision quotes is not recorded as read before a check showed it with that
\* decision (checks.py:6), whatever the day's cap refuses, fails or dies, also when checks
\* outlast their lease; and no edit leaves the window before a check that found it so ran
\* to its end (checks.py:301).
THEOREM EditsRead ==
    ASSUME CheckConstants
    PROVE  Spec => [](EditsAreRead /\ EditsAreListed)
<1>1. Init => NumbersInv /\ EditsInv
  BY InitHolds, EditsInit
<1>2. NumbersInv /\ EditsInv /\ [Next]_vars => (NumbersInv /\ EditsInv)'
  BY NumbersKept, EditsKept
<1>3. EditsInv => EditsAreRead /\ EditsAreListed
  BY EditsMean
<1> QED
  BY <1>1, <1>2, <1>3, PTL DEF Spec
=============================================================================
