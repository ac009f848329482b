--------------------------- MODULE DecisionChecks ---------------------------
(***************************************************************************)
(* The checks of accepted decisions against what changed                   *)
(* (decisions/checks.py), with what they write and what changes under      *)
(* them: the lease (leases.py), the decisions, their evidence and the      *)
(* attention they ask for (service.py), and the vectors of the sources     *)
(* (embeddings/service.py). One workspace.                                 *)
(*                                                                         *)
(* A fingerprint tells texts apart, so a text is its own fingerprint; Says *)
(* gives the passages in it. Texts are versions: an edit that takes one    *)
(* back is not modelled. What a check reads before it asks is three        *)
(* actions: what decisions quote, what was written, the rest. A reply has  *)
(* at most one contradiction. Time is which sources a window holds: one    *)
(* that was written leaves `due` only as the window moves on.              *)
(***************************************************************************)
EXTENDS Naturals, SequencesExt, FiniteSets

CONSTANTS Sources,      \* work items and pages
          Decisions,
          Texts,        \* what a source may say, in the order it is written
          Passages,
          Says,         \* [Texts -> SUBSET Passages]: the passages in a text
          Near,         \* <<source, decision>>: close in meaning
          Names,        \* <<source, source>>: the first names the second
          Linked,       \* <<source, source>>: linked items
          Checks,       \* tasks that check
          Requests,     \* tasks that read decisions or add evidence; one may do both
          MaxEvidence,  \* MAX_EVIDENCE
          MaxTries,     \* of an update that keeps missing
          EmbeddingsOn, \* whether an embedder is set up
          MaxSimilar,   \* decision_similar_per_source
          MaxPerSource, \* MAX_DECISIONS_PER_SOURCE
          ScanLimit,    \* decision_accept_scan_limit
          SlowRuns,     \* whether a check may outlast its lease
          MaxCrashes,   \* bound on tasks that die
          None

VARIABLES
  text,     \* what each source says; None when it is gone
  dec,      \* decisions
  lease,    \* running_until of the workspace's check settings
  scanned,  \* whether scanned_until is set: a check has run to its end
  due,      \* the sources updated since then; before, all that ever were
  created,  \* the sources created since then, and those not created yet
  read,     \* decision_checks: the text each source was last read with
  embedded, \* embeddings: the text each source's vector was made from
  task,     \* the locals of each task
  crashes,  \* tasks that died
  owed,     \* history: <<source, decision that quotes it>>, edited since it was read
  missed    \* history: the sources edited since a check that found them so ran to its end

window == <<scanned, due, created>>
history == <<owed, missed>>
vars == <<text, dec, lease, window, read, embedded, task, crashes, history>>

Tasks == Checks \cup Requests
Statuses == {"open", "accepted", "superseded"}
Idle == [pc |-> "idle", kind |-> "request", flags |-> {}, changed |-> {}, born |-> {}, edited |-> {}, found |-> <<>>, snap |-> <<>>,
         todo |-> {}, src |-> None, dec |-> None, quote |-> None, against |-> TRUE, fp |-> None, fresh |-> TRUE,
         seen |-> <<>>, tries |-> 0, capped |-> FALSE]

Accepted == {d \in Decisions : dec[d].status = "accepted"}
Evidence(d) == Range(dec[d].evidence)
Inside(t) == task[t].kind = "check"         \* between the claim and the release
Goto(t, pc) == task' = [task EXCEPT ![t].pc = pc]
Over(t) == task' = [task EXCEPT ![t] = IF @.kind = "check" THEN [Idle EXCEPT !.pc = "release", !.kind = "check"] ELSE Idle]

Unborn == created \ due

(* Some sources are there, with a vector or without, and lately written or *)
(* not; others come later.                                                 *)
Init ==
  LET first == CHOOSE x \in Texts : \A y \in Texts : x <= y IN
  /\ scanned \in BOOLEAN
  /\ created \in SUBSET Sources
  /\ text = [s \in Sources |-> IF s \in created THEN None ELSE first]
  /\ due \in SUBSET (Sources \ created)
  /\ embedded \in [Sources -> {None, first}]
  /\ \A s \in Sources : s \in created \/ ~EmbeddingsOn => embedded[s] = None
  /\ dec = [d \in Decisions |-> [status |-> "open", evidence |-> <<>>, sources |-> <<>>, flag |-> FALSE]]
  /\ lease = "free"
  /\ read = [s \in Sources |-> None]
  /\ task = [t \in Tasks |-> Idle]
  /\ crashes = 0
  /\ owed = {}
  /\ missed = {}

-----------------------------------------------------------------------------
(* leases.lease around check_workspace: claimed when it is free or ran out *)
(* (otherwise the check is refused), freed whoever holds it by then.       *)
(* Until one has run to its end, what was written longer ago than the      *)
(* interval before the check started is not looked at.                     *)

\* Slip: a lease that ran out is not claimed again.
ClaimFree(t) ==
  /\ task[t] = Idle /\ lease = "free"
  /\ lease' = "held"
  /\ task' = [task EXCEPT ![t] = [Idle EXCEPT !.pc = "flag", !.kind = "check"]]
  /\ UNCHANGED <<text, dec, window, read, embedded, history, crashes>>

Claim(t) ==
  /\ task[t] = Idle /\ lease # "held"
  /\ lease' = "held"
  /\ task' = [task EXCEPT ![t] = [Idle EXCEPT !.pc = "flag", !.kind = "check"]]
  /\ \E past \in IF scanned THEN {{}} ELSE SUBSET due :
       /\ due' = due \ past
       /\ created' = created \ past
       /\ missed' = missed \ past
  /\ UNCHANGED <<text, dec, scanned, read, embedded, owed, crashes>>

Release(t) ==
  /\ task[t].pc = "release"
  /\ lease' = "free"
  /\ task' = [task EXCEPT ![t] = Idle]
  /\ UNCHANGED <<text, dec, window, read, embedded, history, crashes>>

Lapse ==
  /\ lease = "held"
  /\ SlowRuns \/ \A t \in Tasks : ~Inside(t)
  /\ lease' = "lapsed"
  /\ UNCHANGED <<text, dec, window, read, embedded, task, history, crashes>>

-----------------------------------------------------------------------------
(* _to_decisions: every read of decisions compares their evidence with the *)
(* sources, then stores which of them need attention. A check begins with  *)
(* such a read (refresh_attention).                                        *)

Broken(e) == text[e.src] = None \/ e.quote \notin Says[text[e.src]]
NeedsAttention(d) == dec[d].status = "accepted" /\ \E e \in Evidence(d) : Broken(e) \/ (e.against /\ e.new)

Open(t) ==
  /\ task[t] = Idle
  /\ Goto(t, "flag")
  /\ UNCHANGED <<text, dec, lease, window, read, embedded, history, crashes>>

Compare(t) ==
  LET shown == IF Inside(t) THEN Accepted ELSE Decisions
  IN /\ task[t].pc = "flag"
     /\ task' = [task EXCEPT ![t].pc = "store", ![t].flags = {<<d, NeedsAttention(d)>> : d \in shown}]
     /\ UNCHANGED <<text, dec, lease, window, read, embedded, history, crashes>>

\* Slip: attention, once asked for, is never taken back, nor asked for by a check.
StoreOnRead(t) ==
  /\ task[t].pc = "store"
  /\ dec' = [d \in Decisions |-> IF ~Inside(t) /\ <<d, TRUE>> \in task[t].flags THEN [dec[d] EXCEPT !.flag = TRUE] ELSE dec[d]]
  /\ task' = [task EXCEPT ![t] = IF Inside(t) THEN [@ EXCEPT !.pc = "look", !.flags = {}] ELSE Idle]
  /\ UNCHANGED <<text, lease, window, read, embedded, history, crashes>>

StoreAttention(t) ==
  /\ task[t].pc = "store"
  /\ dec' = [d \in Decisions |-> IF <<d, TRUE>> \in task[t].flags THEN [dec[d] EXCEPT !.flag = TRUE]
                                 ELSE IF <<d, FALSE>> \in task[t].flags THEN [dec[d] EXCEPT !.flag = FALSE] ELSE dec[d]]
  /\ task' = [task EXCEPT ![t] = IF Inside(t) THEN [@ EXCEPT !.pc = "look", !.flags = {}] ELSE Idle]
  /\ UNCHANGED <<text, lease, window, read, embedded, history, crashes>>

-----------------------------------------------------------------------------
(* _check: the accepted decisions and the sources they quote; then what    *)
(* was written since scanned_until, and which of it is not what its vector *)
(* was made from (_edited).                                                *)

Look(t) ==
  /\ task[t].pc = "look"
  /\ task' = [task EXCEPT ![t].pc = "changed", ![t].snap = [d \in Accepted |-> Evidence(d)],
                ![t].found = [s \in {e.src : e \in UNION {Evidence(d) : d \in Accepted}} |-> text[s]]]
  /\ UNCHANGED <<text, dec, lease, window, read, embedded, history, crashes>>

(* What a source says is not what its vector was made from; one that never *)
(* had a vector counts if it is new. Without embeddings all that is        *)
(* written counts.                                                         *)
Edited(written) ==
  {s \in written : /\ text[s] # None
                   /\ EmbeddingsOn => IF embedded[s] = None THEN s \in created ELSE text[s] # embedded[s]}

Changed(t) ==
  /\ task[t].pc = "changed"
  /\ task' = [task EXCEPT ![t].pc = "embed", ![t].found = [s \in due \cup DOMAIN @ |-> IF s \in due THEN text[s] ELSE @[s]],
                ![t].edited = Edited(due)]
  /\ UNCHANGED <<text, dec, lease, window, read, embedded, history, crashes>>

Quoted(snap) == {p \in Sources \X DOMAIN snap : \E e \in snap[p[2]] : e.src = p[1]}
From(relation, snap) == {p \in Sources \X DOMAIN snap : \E w \in Sources : <<w, p[1]>> \in relation /\ <<w, p[2]>> \in Quoted(snap)}
Mentioning(edited, snap) == {p \in edited \X DOMAIN snap : \E w \in Sources : <<p[1], w>> \in Names /\ <<w, p[2]>> \in Quoted(snap)}

(* At most n of what relates to a source are kept, and none dropped while  *)
(* there is room.                                                          *)
Of(s, related) == {p \in related : p[1] = s}
Cut(related, n) ==
  {kept \in SUBSET related :
     \A p \in related : Cardinality(Of(p[1], kept)) <= n /\ (p \notin kept => Cardinality(Of(p[1], kept)) = n)}
Similar(edited, snap) == Cut({p \in Near : p[1] \in edited /\ p[2] \in DOMAIN snap}, MaxSimilar)

(* _strongest: by MATCH_ORDER; which of two changed last is open.          *)
Strongest(related, order) ==
  LET weaker(p, q) == \E i \in DOMAIN order : <<q[1], q[2]>> \in order[i] /\ \A j \in 1..i : <<p[1], p[2]>> \notin order[j]
  IN {kept \in Cut(related, MaxPerSource) : \A p \in kept, q \in related \ kept : p[1] = q[1] => ~weaker(p, q)}

(* What its last reader, or who quoted it, has not seen as it is.          *)
Unread(s, x, snap) ==
  /\ x # None
  /\ x # (IF read[s] # None THEN read[s] ELSE IF \E d \in DOMAIN snap : \E e \in snap[d] : e.src = s /\ e.fp = x THEN x ELSE None)

(* _fill_backlog: some of what never had a vector gets one.                *)
Filled(vectors, some) == [s \in Sources |-> IF s \in some /\ vectors[s] = None THEN text[s] ELSE vectors[s]]

(* The vectors of the edited sources are refreshed, then the decisions'.   *)
(* When one cannot be, nothing is near in meaning. What is related is read *)
(* unless it was read before.                                              *)
Embed(t) ==
  LET k == task[t]
      text_of(s) == IF s \in DOMAIN k.found THEN k.found[s] ELSE text[s]
      order(near) == <<Quoted(k.snap), From(Linked, k.snap), From(Names, k.snap) \cup Mentioning(k.edited, k.snap), near>>
      unread(near) == {<<p[1], p[2], text_of(p[1])>> : p \in {q \in UNION Range(order(near)) : Unread(q[1], text_of(q[1]), k.snap)}}
  IN /\ k.pc = "embed"
     /\ \E stored \in SUBSET k.edited, near \in Similar(k.edited, k.snap) \cup {{}}, some \in SUBSET Sources :
          /\ near # {} => stored = k.edited
          /\ ~EmbeddingsOn => stored = {} /\ near = {} /\ some = {}
          /\ embedded' = Filled([s \in Sources |-> IF s \in stored THEN k.found[s] ELSE embedded[s]], some)
          /\ \E todo \in Strongest(unread(near), order(near)) : task' = [task EXCEPT ![t].pc = "next", ![t].todo = todo]
     /\ UNCHANGED <<text, dec, lease, window, read, history, crashes>>

(* Source after source, what is quoted first; take_check may refuse.       *)
TakeCheck(t) ==
  LET k == task[t]
      first == {p \in k.todo : <<p[1], p[2]>> \in Quoted(k.snap)}
  IN /\ k.pc = "next" /\ k.todo # {}
     /\ \/ \E p \in IF first # {} THEN first ELSE k.todo : task' = [task EXCEPT ![t].pc = "ask", ![t].src = p[1]]
        \/ task' = [task EXCEPT ![t].pc = "end", ![t].capped = TRUE]
     /\ UNCHANGED <<text, dec, lease, window, read, embedded, history, crashes>>

(* _check_source: a passage of the text as it was read, not quoted by the  *)
(* decision as it was read.                                                *)
Ask(t) ==
  LET k == task[t] IN
  /\ k.pc = "ask"
  /\ \/ Goto(t, "record")
     \/ \E p \in k.todo : \E q \in Says[p[3]] \ {e.quote : e \in k.snap[p[2]]} :
          /\ p[1] = k.src
          /\ task' = [task EXCEPT ![t].pc = "cite", ![t].dec = p[2], ![t].quote = q]
  /\ UNCHANGED <<text, dec, lease, window, read, embedded, history, crashes>>

(* service.add_evidence, of a check or a person: the passage must be in    *)
(* the source as it is now. A check skips one that is not, and ends where  *)
(* the source is gone.                                                     *)
Cite(t) ==
  LET k == task[t] IN
  /\ k.pc = "cite"
  /\ IF text[k.src] # None /\ k.quote \in Says[text[k.src]]
     THEN task' = [task EXCEPT ![t].pc = "add", ![t].fp = text[k.src], ![t].fresh = TRUE]
     ELSE IF text[k.src] # None /\ k.kind # "request" THEN Goto(t, "record") ELSE Over(t)
  /\ UNCHANGED <<text, dec, lease, window, read, embedded, history, crashes>>

(* The decision is read, and the update only matches while it has room and *)
(* no source was numbered since; else it is read again (three tries).      *)
ReadDecision(t) ==
  LET k == task[t] IN
  /\ k.pc = "add"
  /\ IF Len(dec[k.dec].evidence) >= MaxEvidence \/ k.tries = MaxTries
     THEN IF k.kind # "request" /\ k.tries < MaxTries THEN Goto(t, "record") ELSE Over(t)
     ELSE task' = [task EXCEPT ![t].pc = "put", ![t].tries = @ + 1, ![t].seen = dec[k.dec].sources]
  /\ UNCHANGED <<text, dec, lease, window, read, embedded, history, crashes>>

NewEvidence(k) == [src |-> k.src, quote |-> k.quote, fp |-> k.fp, against |-> k.against, new |-> k.fresh]
WithSources(numbered, src) == IF src \in Range(numbered) THEN numbered ELSE Append(numbered, src)

Put(t) ==
  LET k == task[t] IN
  /\ dec' = [dec EXCEPT ![k.dec].evidence = Append(@, NewEvidence(k)), ![k.dec].sources = WithSources(k.seen, k.src)]
  /\ IF k.kind # "request" THEN Goto(t, "record") ELSE Over(t)

\* Slip: the update matches the decision's id and room alone.
PutWhileRoom(t) ==
  LET k == task[t] IN
  /\ k.pc = "put"
  /\ IF Len(dec[k.dec].evidence) < MaxEvidence THEN Put(t)
     ELSE Goto(t, "add") /\ UNCHANGED dec
  /\ UNCHANGED <<text, lease, window, read, embedded, history, crashes>>

AddEvidence(t) ==
  LET k == task[t] IN
  /\ k.pc = "put"
  /\ IF Len(dec[k.dec].evidence) < MaxEvidence /\ Len(dec[k.dec].sources) = Len(k.seen) THEN Put(t)
     ELSE Goto(t, "add") /\ UNCHANGED dec
  /\ UNCHANGED <<text, lease, window, read, embedded, history, crashes>>

(* What it was read with is recorded, not what it is now; a scan records   *)
(* nothing. It was read against the decisions shown with it.               *)
Record(t) ==
  LET k == task[t]
      mine == Of(k.src, k.todo)
      x == (CHOOSE p \in mine : TRUE)[3]
  IN /\ k.pc = "record"
     /\ read' = IF Inside(t) THEN [read EXCEPT ![k.src] = x] ELSE read
     /\ task' = [task EXCEPT ![t] = [k EXCEPT !.pc = "next", !.todo = @ \ mine, !.src = None, !.dec = None,
                                    !.quote = None, !.fp = None, !.fresh = TRUE, !.seen = <<>>, !.tries = 0]]
     /\ owed' = IF Inside(t) /\ x = text[k.src]
                THEN {p \in owed : p[1] = k.src => <<p[1], p[2], x>> \notin mine /\ Cardinality(mine) < MaxPerSource}
                ELSE owed
     /\ UNCHANGED <<text, dec, lease, window, embedded, missed, crashes>>

Finish(t, since, new) ==
  /\ task[t].pc = "end" \/ (task[t].pc = "next" /\ task[t].todo = {})
  /\ IF task[t].capped \/ ~Inside(t) THEN UNCHANGED <<window, missed>>
     ELSE /\ scanned' = TRUE /\ due' = since /\ created' = Unborn \cup new
          /\ missed' = missed \ (DOMAIN task[t].found \ task[t].changed)
  /\ Over(t)
  /\ UNCHANGED <<text, dec, lease, read, embedded, owed, crashes>>

\* Slip: scanned_until is when the check ended.
EndNow(t) == Finish(t, {}, {})

(* scanned_until becomes when the check started, unless it was capped.     *)
End(t) == Finish(t, task[t].changed, task[t].born)

(* The AI, the tracker's text or the database fails; or the process dies.  *)
Fail(t) ==
  /\ task[t].pc \in {"embed", "ask", "vector"}
  /\ Over(t)
  /\ UNCHANGED <<text, dec, lease, window, read, embedded, history, crashes>>

Crash(t) ==
  /\ task[t] # Idle
  /\ crashes < MaxCrashes /\ crashes' = crashes + 1
  /\ task' = [task EXCEPT ![t] = Idle]
  /\ UNCHANGED <<text, dec, lease, window, read, embedded, history>>

-----------------------------------------------------------------------------
(* What people and syncs do meanwhile.                                     *)

Quotes(d, s) == \E e \in Evidence(d) : e.src = s

\* Accepted and quoting s before each check that has yet to find s as it is looked.
SeenByChecks(s, d) ==
  \A t \in Tasks : Inside(t) /\ task[t].pc \in {"changed", "embed"} /\ (task[t].pc = "embed" => s \notin DOMAIN task[t].found)
                    => <<s, d>> \in Quoted(task[t].snap)

(* A source is created, edited, or goes.                                   *)
Write(s, x) ==
  /\ IF text[s] = None THEN s \in Unborn /\ x \in Texts ELSE x \in {None} \cup {y \in Texts : y > text[s]}
  /\ text' = [text EXCEPT ![s] = x]
  /\ due' = due \cup {s}
  /\ task' = [t \in Tasks |-> IF Inside(t) THEN [task[t] EXCEPT !.changed = @ \cup {s}, !.born = @ \cup ({s} \cap Unborn)] ELSE task[t]]
  /\ IF x = None THEN /\ owed' = {p \in owed : p[1] # s}
                      /\ missed' = missed \ {s}
     ELSE /\ owed' = owed \cup {<<s, d>> : d \in {c \in Accepted : Quotes(c, s) /\ SeenByChecks(s, c)}}
          /\ missed' = missed \cup {s}
  /\ UNCHANGED <<dec, lease, scanned, created, read, embedded, crashes>>

ChangeStatus(d, status) ==
  /\ dec[d].status # status \/ dec[d].flag
  /\ dec' = [dec EXCEPT ![d].status = status, ![d].evidence = [i \in DOMAIN @ |-> [@[i] EXCEPT !.new = FALSE]]]
  /\ task' = [t \in Tasks |-> IF task[t].dec = d THEN [task[t] EXCEPT !.fresh = FALSE] ELSE task[t]]
  /\ owed' = {p \in owed : p[2] # d \/ status = "accepted"}
  /\ UNCHANGED <<text, lease, window, read, embedded, missed, crashes>>

AskToAdd(t, d, s, q, against) ==
  /\ task[t] = Idle
  /\ task' = [task EXCEPT ![t] = [Idle EXCEPT !.pc = "cite", !.dec = d, !.src = s, !.quote = q, !.against = against]]
  /\ UNCHANGED <<text, dec, lease, window, read, embedded, history, crashes>>

(* scan_accepted, after an accept was answered: some of the closest sources *)
(* as they are, those the decision quotes apart, read one after the other.  *)
ScanAccepted(t, d) ==
  LET quoted == {e.src : e \in Evidence(d)}
      naming == {s \in Sources : \E w \in quoted : <<s, w>> \in Names}
  IN /\ task[t] = Idle /\ d \in Accepted
     /\ \E some \in SUBSET Sources :
          /\ EmbeddingsOn \/ some = {}
          /\ embedded' = Filled(embedded, some)
     /\ \E close \in SUBSET ((naming \cup {s \in Sources : EmbeddingsOn /\ <<s, d>> \in Near}) \ quoted) :
          /\ Cardinality(close) <= ScanLimit
          /\ task' = [task EXCEPT ![t] = [Idle EXCEPT !.pc = "next", !.kind = "scan", !.snap = [x \in {d} |-> Evidence(x)],
                                         !.todo = {<<s, d, text[s]>> : s \in {w \in close : text[w] # None}}]]
     /\ UNCHANGED <<text, dec, lease, window, read, history, crashes>>

(* suggest._related: who asks what a source suggests refreshes its vector. *)
Suggest(t, s) ==
  /\ EmbeddingsOn /\ task[t] = Idle /\ text[s] # None
  /\ task' = [task EXCEPT ![t] = [Idle EXCEPT !.pc = "vector", !.src = s, !.fp = text[s]]]
  /\ UNCHANGED <<text, dec, lease, window, read, embedded, history, crashes>>

RefreshVector(t) ==
  /\ task[t].pc = "vector"
  /\ embedded' = [embedded EXCEPT ![task[t].src] = task[t].fp]
  /\ Over(t)
  /\ UNCHANGED <<text, dec, lease, window, read, history, crashes>>

RemoveEvidence(d, i) ==
  /\ i \in DOMAIN dec[d].evidence
  /\ dec' = [dec EXCEPT ![d].evidence = RemoveAt(@, i)]
  /\ owed' = {p \in owed : p[2] = d => \E j \in DOMAIN dec[d].evidence \ {i} : dec[d].evidence[j].src = p[1]}
  /\ UNCHANGED <<text, lease, window, read, embedded, task, missed, crashes>>

CheckStep(t) ==
  \/ Compare(t) \/ StoreAttention(t) \/ Look(t) \/ Changed(t) \/ Embed(t) \/ TakeCheck(t) \/ Ask(t)
  \/ Cite(t) \/ ReadDecision(t) \/ AddEvidence(t) \/ Record(t) \/ End(t) \/ RefreshVector(t) \/ Release(t)

Next ==
  \/ \E t \in Tasks :
       \/ CheckStep(t) \/ Fail(t) \/ Crash(t)
  \/ \E t \in Checks : Claim(t)
  \/ \E t \in Requests :
       \/ Open(t) \/ (\E d \in Decisions : ScanAccepted(t, d)) \/ \E s \in Sources : Suggest(t, s)
       \/ \E d \in Decisions, s \in Sources, q \in Passages, against \in BOOLEAN : AskToAdd(t, d, s, q, against)
  \/ \E s \in Sources, x \in Texts \cup {None} : Write(s, x)
  \/ \E d \in Decisions : (\E x \in Statuses : ChangeStatus(d, x)) \/ \E i \in 1..MaxEvidence : RemoveEvidence(d, i)
  \/ Lapse

Spec == Init /\ [][Next]_vars

(* The loop of main.py calls run_due for ever; tasks run, and time passes. *)
Fairness == WF_vars(Lapse) /\ WF_vars(\E t \in Checks : Claim(t)) /\ \A t \in Tasks : WF_vars(CheckStep(t))
FairSpec == Spec /\ Fairness
-----------------------------------------------------------------------------
TypeOK ==
  /\ text \in [Sources -> Texts \cup {None}] /\ read \in [Sources -> Texts \cup {None}] /\ embedded \in [Sources -> Texts \cup {None}]
  /\ lease \in {"free", "held", "lapsed"}
  /\ scanned \in BOOLEAN /\ due \subseteq Sources /\ created \subseteq Sources
  /\ \A d \in Decisions : dec[d].status \in Statuses /\ Len(dec[d].evidence) <= MaxEvidence

(* "A number, once given, stays with its source" (service.py:178) and "so  *)
(* one AI read of a source (or one workspace's check) runs at a time"      *)
(* (leases.py:1), for checks that end within their lease: whatever adds,   *)
(* checks and removals race, each quoted source has one number.            *)
EvidenceSound ==
  /\ \A d \in Decisions : /\ IsInjective(dec[d].sources)
                          /\ {e.src : e \in Evidence(d)} \subseteq Range(dec[d].sources)
  /\ SlowRuns \/ Cardinality({t \in Tasks : Inside(t)}) <= 1

(* "Only sources whose text changed since they were last read are read"    *)
(* (checks.py:6), so what counts as read must have been: an edit of a      *)
(* source an accepted decision quotes is not recorded as read before a     *)
(* check showed it with that decision, or with as many as one reading      *)
(* takes, whatever checks overlap, run into the cap, fail or die.          *)
EditsAreRead == \A p \in owed : read[p[1]] # text[p[1]]

(* Nor does the window of the next check move past it: what was edited is  *)
(* in it until a check that found it so ran to its end, also when several  *)
(* overlap. (Before the first did, an edit older than the interval is.)    *)
EditsAreListed == missed \subseteq due

(* "It goes to Needs you" (checks.py:8): a decision whose evidence stays   *)
(* broken or contradicted is flagged in the end, whichever stale reads     *)
(* store what they saw.                                                    *)
AttentionAsked == \A d \in Decisions : <>[]NeedsAttention(d) => <>[](dec[d].flag)
=============================================================================
