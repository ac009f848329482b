-------------------------- MODULE DocumentParts --------------------------
(***************************************************************************)
(* Proofs about the components MCDocuments runs beside DocPush, each for   *)
(* any constants: Chat, whose windows count exactly what they let through, *)
(* whose provider calls are within the budget and billed once, and whose   *)
(* conversation holds each question that was saved.                        *)
(***************************************************************************)
EXTENDS Chat, FiniteSetTheorems, TLAPS

\* There are finitely many requests, a conversation has room for a question and its
\* answer, and the limits are numbers.
ChatConstants ==
    /\ IsFiniteSet(Asks)
    /\ \A w \in Windows : Limit[w] \in Nat
    /\ MaxMessages \in Nat /\ MaxMessages >= 2
    /\ MaxLookups \in Nat /\ MaxPerRound \in Nat \ {0}

-----------------------------------------------------------------------------
(***************************************************************************)
(* The inductive invariant of Chat                                         *)
(***************************************************************************)

Places == {"idle", "take", "insert", "give back", "call", "stream", "read", "next", "save", "over"}
Request ==
    [pc : Places, kind : Kinds, old : BOOLEAN, taken : Nat, extra : Nat, calls : Nat, free : {0, 1},
     looked : Nat, looking : BOOLEAN, tries : Nat, saved : BOOLEAN]
Charge == [times : {0, 1}, later : BOOLEAN]

ChatTypes ==
    /\ count \in [Windows -> Nat \cup {Missing}]
    /\ conv \in [n : 0..MaxMessages, first : 0..MaxMessages, there : BOOLEAN]
    /\ ask \in [Asks -> Request]
    /\ bill \in [Asks -> Seq(Charge)]

\* How many windows a plan has.
Steps(k) == Len(Plan[k])

\* A request takes its windows in order, the day's last, and calls the provider only
\* with all of them; each further call follows a lookup, and the last is not counted.
PlanInv(a) ==
    /\ ask[a].pc = "idle" => ask[a].taken = 0
    /\ ask[a].pc \in {"idle", "take", "insert", "give back"} =>
         ask[a].taken < Steps(ask[a].kind) /\ ask[a].extra = 0 /\ ask[a].calls = 0 /\ ask[a].free = 0
    /\ ask[a].pc \in {"call", "stream", "read", "next", "save"} => ask[a].taken = Steps(ask[a].kind)
    /\ ask[a].free > 0 => ask[a].looking = FALSE /\ ask[a].pc # "next"
    /\ ask[a].extra + ask[a].free <= ask[a].looked /\ ask[a].looked <= MaxLookups
    /\ ask[a].pc = "next" => ask[a].extra + ask[a].free < ask[a].looked
    /\ ask[a].saved = TRUE => ask[a].pc = "over"

\* A call is made for each count of the day, and is billed now or later.
CallInv(a) ==
    /\ ask[a].calls = Len(bill[a])
    /\ ask[a].calls <= Takes("day", a) + ask[a].free
    /\ ask[a].pc = "call" => ask[a].calls < Takes("day", a) + ask[a].free
    /\ ask[a].pc = "stream" => ask[a].calls > 0 /\ bill[a][ask[a].calls] = [times |-> 0, later |-> FALSE]
    /\ \A i \in DOMAIN bill[a] : bill[a][i].later = TRUE => bill[a][i].times = 0

\* A counter is what is held of its window; nothing is held of one that is not there.
WindowInv(w) ==
    /\ IsFiniteSet(Held(w))
    /\ count[w] = Missing => Held(w) = {}
    /\ count[w] # Missing => count[w] = Cardinality(Held(w)) /\ count[w] <= Limit[w]

Kept == {a \in Asks : ask[a].old = TRUE /\ ask[a].saved = TRUE}

ChatInv ==
    /\ ChatTypes
    /\ \A a \in Asks : PlanInv(a) /\ CallInv(a)
    /\ \A w \in Windows : WindowInv(w)
    /\ conv.n = conv.first + 2 * Cardinality(Kept)

-----------------------------------------------------------------------------
(***************************************************************************)
(* What is held of the windows                                             *)
(***************************************************************************)

\* The plans: no window twice, the day's last.
LEMMA Plans ==
    /\ Kinds = {"ask", "suggest", "check"}
    /\ \A k \in Kinds : /\ Steps(k) \in 1..3
                        /\ \A i \in 1..Steps(k) : Plan[k][i] \in Windows
                        /\ Plan[k][Steps(k)] = "day"
                        /\ \A i, j \in 1..Steps(k) : i # j => Plan[k][i] # Plan[k][j]
BY DEF Kinds, Plan, Windows, Steps

\* What one request holds of a window, by its plan.
Counts(k, n, w) == IF \E i \in 1..n : Plan[k][i] = w THEN 1 ELSE 0

\* The next window of the plan is one that was not taken.
LEMMA CountsNext ==
    ASSUME NEW k \in Kinds, NEW n \in Nat, n < Steps(k), NEW w
    PROVE  Counts(k, n + 1, w) = IF w = Plan[k][n + 1] THEN Counts(k, n, w) + 1 ELSE Counts(k, n, w)
<1>1. Steps(k) \in Nat
    BY Plans
<1>2. n + 1 \in 1..Steps(k) /\ \A i \in 1..n : i \in 1..Steps(k) /\ i # n + 1
    BY <1>1
<1>3. \A i \in 1..n : Plan[k][i] # Plan[k][n + 1]
    BY <1>2, Plans
<1>4. \A i : i \in 1..(n + 1) <=> i \in 1..n \/ i = n + 1
    OBVIOUS
<1>5. CASE w = Plan[k][n + 1]
    BY <1>3, <1>4, <1>5 DEF Counts
<1>6. CASE w # Plan[k][n + 1]
    BY <1>4, <1>6 DEF Counts
<1>7. QED
    BY <1>5, <1>6

\* How often each request holds a window, and the pairs this stands for.
Taken(w) == [a \in Asks |-> Takes(w, a)]
Pairs(f) == UNION {{a} \X (1..f[a]) : a \in Asks}

LEMMA HeldIs ==
    ASSUME NEW w
    PROVE  Held(w) = Pairs(Taken(w)) /\ Held(w)' = Pairs(Taken(w)')
<1>1. Held(w) = Pairs(Taken(w))
    BY DEF Held, Pairs, Taken
<1>2. Held(w)' = Pairs(Taken(w)')
    BY DEF Held, Pairs, Taken
<1>3. QED
    BY <1>1, <1>2

LEMMA PairsMember ==
    ASSUME NEW f, NEW p
    PROVE  p \in Pairs(f) <=> \E a \in Asks : \E i \in 1..f[a] : p = <<a, i>>
BY DEF Pairs

\* One more of a request is one more pair.
LEMMA PairsGrow ==
    ASSUME NEW f \in [Asks -> Nat], NEW g \in [Asks -> Nat], NEW a \in Asks,
           g[a] = f[a] + 1, \A b \in Asks \ {a} : g[b] = f[b]
    PROVE  Pairs(g) = Pairs(f) \cup {<<a, f[a] + 1>>} /\ <<a, f[a] + 1>> \notin Pairs(f)
<1>1. ASSUME NEW p
      PROVE  p \in Pairs(g) <=> p \in Pairs(f) \/ p = <<a, f[a] + 1>>
    <2>1. ASSUME NEW b \in Asks, NEW i \in 1..g[b], p = <<b, i>>
          PROVE  p \in Pairs(f) \/ p = <<a, f[a] + 1>>
        <3>1. CASE b = a
            BY <2>1, <3>1, PairsMember
        <3>2. CASE b # a
            BY <2>1, <3>2, PairsMember
        <3>3. QED
            BY <3>1, <3>2
    <2>2. ASSUME NEW b \in Asks, NEW i \in 1..f[b], p = <<b, i>>
          PROVE  p \in Pairs(g)
        <3>1. i \in 1..g[b]
            BY <2>2
        <3>2. QED
            BY <2>2, <3>1, PairsMember
    <2>3. p = <<a, f[a] + 1>> => p \in Pairs(g)
        BY PairsMember
    <2>4. QED
        BY <2>1, <2>2, <2>3, PairsMember
<1>2. <<a, f[a] + 1>> \notin Pairs(f)
    BY PairsMember
<1>3. QED
    BY <1>1, <1>2

\* One less of a request is one pair less.
LEMMA PairsShrink ==
    ASSUME NEW f \in [Asks -> Nat], NEW g \in [Asks -> Nat], NEW a \in Asks,
           f[a] = g[a] + 1, \A b \in Asks \ {a} : g[b] = f[b]
    PROVE  Pairs(g) = Pairs(f) \ {<<a, f[a]>>} /\ <<a, f[a]>> \in Pairs(f)
<1>1. Pairs(f) = Pairs(g) \cup {<<a, g[a] + 1>>} /\ <<a, g[a] + 1>> \notin Pairs(g)
    BY PairsGrow
<1>2. QED
    BY <1>1

LEMMA TakesIs ==
    ASSUME NEW w, NEW b
    PROVE  /\ Takes(w, b) = Counts(ask[b].kind, ask[b].taken, w) + (IF w = "day" THEN ask[b].extra ELSE 0)
           /\ Takes(w, b)' = Counts(ask'[b].kind, ask'[b].taken, w) + (IF w = "day" THEN ask'[b].extra ELSE 0)
BY DEF Takes, Counts

LEMMA CountsType ==
    ASSUME NEW k, NEW n, NEW w
    PROVE  Counts(k, n, w) \in {0, 1}
BY DEF Counts

LEMMA TakenType ==
    ASSUME NEW w
    PROVE  /\ ChatTypes => Taken(w) \in [Asks -> Nat]
           /\ ChatTypes' => Taken(w)' \in [Asks -> Nat]
<1>1. ASSUME ChatTypes
      PROVE  Taken(w) \in [Asks -> Nat]
    <2>1. \A b \in Asks : ask[b].extra \in Nat
        BY <1>1 DEF ChatTypes, Request
    <2>2. ASSUME NEW b \in Asks
          PROVE  Takes(w, b) \in Nat
        BY <2>1, TakesIs, CountsType
    <2>3. QED
        BY <2>2 DEF Taken
<1>2. ASSUME ChatTypes'
      PROVE  Taken(w)' \in [Asks -> Nat]
    <2>1. \A b \in Asks : ask'[b].extra \in Nat
        BY <1>2 DEF ChatTypes, Request
    <2>2. ASSUME NEW b \in Asks
          PROVE  Takes(w, b)' \in Nat
        BY <2>1, TakesIs, CountsType
    <2>3. QED
        BY <2>2 DEF Taken
<1>3. QED
    BY <1>1, <1>2

LEMMA KeepWindow ==
    ASSUME NEW w, WindowInv(w), Taken(w)' = Taken(w), count'[w] = count[w]
    PROVE  WindowInv(w)'
<1>1. Held(w)' = Held(w)
    BY HeldIs
<1>2. QED
    BY <1>1 DEF WindowInv

LEMMA CountWindow ==
    ASSUME ChatConstants, ChatTypes, ChatTypes', NEW w \in Windows, NEW a \in Asks, WindowInv(w), Room(w),
           count'[w] = IF count[w] = Missing THEN 1 ELSE count[w] + 1,
           Takes(w, a)' = Takes(w, a) + 1, \A b \in Asks \ {a} : Taken(w)'[b] = Taken(w)[b]
    PROVE  WindowInv(w)'
<1> DEFINE p == <<a, Taken(w)[a] + 1>>
<1>1. Taken(w)'[a] = Taken(w)[a] + 1
    BY DEF Taken
<1>2. Held(w)' = Held(w) \cup {p} /\ p \notin Held(w)
    BY <1>1, PairsGrow, HeldIs, TakenType
<1>3. IsFiniteSet(Held(w)') /\ Cardinality(Held(w)') = Cardinality(Held(w)) + 1
    <2> HIDE DEF p
    <2>1. QED
        BY <1>2, FS_AddElement DEF WindowInv
<1>4. count[w] \in Nat \cup {Missing} /\ Limit[w] \in Nat
    BY DEF ChatTypes, ChatConstants
<1>5. CASE count[w] = Missing
    <2>1. Cardinality(Held(w)') = 1
        BY <1>3, <1>5, FS_EmptySet DEF WindowInv
    <2>2. QED
        BY <1>3, <1>4, <1>5, <2>1 DEF WindowInv, Missing, Room
<1>6. CASE count[w] # Missing
    BY <1>3, <1>4, <1>6 DEF WindowInv, Missing, Room
<1>7. QED
    BY <1>5, <1>6

LEMMA ReturnWindow ==
    ASSUME ChatConstants, ChatTypes, ChatTypes', NEW w \in Windows, NEW a \in Asks, WindowInv(w),
           count'[w] = count[w] - 1,
           Takes(w, a) = Takes(w, a)' + 1, \A b \in Asks \ {a} : Taken(w)'[b] = Taken(w)[b]
    PROVE  WindowInv(w)' /\ count[w] \in Nat \ {0}
<1> DEFINE p == <<a, Taken(w)[a]>>
<1>1. Taken(w)[a] = Taken(w)'[a] + 1
    BY DEF Taken
<1>2. Held(w)' = Held(w) \ {p} /\ p \in Held(w)
    BY <1>1, PairsShrink, HeldIs, TakenType
<1>3. IsFiniteSet(Held(w)') /\ Cardinality(Held(w)') = Cardinality(Held(w)) - 1
    <2> HIDE DEF p
    <2>1. QED
        BY <1>2, FS_RemoveElement DEF WindowInv
<1>4. Cardinality(Held(w)') \in Nat
    BY <1>3, FS_CardinalityType
<1>5. count[w] \in Nat \cup {Missing} /\ Limit[w] \in Nat
    BY DEF ChatTypes, ChatConstants
<1>6. count[w] # Missing
    BY <1>2 DEF WindowInv
<1>7. QED
    BY <1>3, <1>4, <1>5, <1>6 DEF WindowInv, Missing

-----------------------------------------------------------------------------
(***************************************************************************)
(* Every action keeps the invariant                                        *)
(***************************************************************************)

\* What ChatInv says of one request.
LEMMA RequestFacts ==
    ASSUME ChatInv, NEW a \in Asks
    PROVE  /\ ask[a] \in Request /\ bill[a] \in Seq(Charge) /\ PlanInv(a) /\ CallInv(a)
           /\ DOMAIN ask = Asks /\ DOMAIN bill = Asks
           /\ ask[a].pc \in Places /\ ask[a].kind \in Kinds /\ ask[a].old \in BOOLEAN
           /\ ask[a].taken \in Nat /\ ask[a].extra \in Nat /\ ask[a].calls \in Nat
           /\ ask[a].free \in {0, 1} /\ ask[a].looked \in Nat /\ ask[a].looking \in BOOLEAN
           /\ ask[a].tries \in Nat /\ ask[a].saved \in BOOLEAN
           /\ Takes("day", a) \in Nat
<1>1. ask[a] \in Request /\ bill[a] \in Seq(Charge) /\ DOMAIN ask = Asks /\ DOMAIN bill = Asks
    BY DEF ChatInv, ChatTypes
<1>2. /\ ask[a].pc \in Places /\ ask[a].kind \in Kinds /\ ask[a].old \in BOOLEAN
      /\ ask[a].taken \in Nat /\ ask[a].extra \in Nat /\ ask[a].calls \in Nat
      /\ ask[a].free \in {0, 1} /\ ask[a].looked \in Nat /\ ask[a].looking \in BOOLEAN
      /\ ask[a].tries \in Nat /\ ask[a].saved \in BOOLEAN
    BY <1>1 DEF Request
<1>3. Takes("day", a) \in Nat
    BY <1>2, TakesIs, CountsType
<1>4. PlanInv(a) /\ CallInv(a)
    BY DEF ChatInv
<1>5. QED
    BY <1>1, <1>2, <1>3, <1>4

\* What it says of one at each place.
LEMMA PlanFacts ==
    ASSUME ChatInv, NEW a \in Asks
    PROVE  /\ ask[a].pc = "idle" => ask[a].taken = 0
           /\ ask[a].pc \in {"idle", "take", "insert", "give back"} =>
                ask[a].taken < Steps(ask[a].kind) /\ ask[a].extra = 0 /\ ask[a].calls = 0 /\ ask[a].free = 0
           /\ ask[a].pc \in {"call", "stream", "read", "next", "save"} => ask[a].taken = Steps(ask[a].kind)
           /\ ask[a].pc = "next" => ask[a].free = 0 /\ ask[a].extra < ask[a].looked
           /\ ask[a].looking = TRUE => ask[a].free = 0
           /\ ask[a].extra + ask[a].free <= ask[a].looked /\ ask[a].looked <= MaxLookups
           /\ ask[a].pc # "over" => ask[a].saved = FALSE
<1>1. PlanInv(a) /\ ask[a].saved \in BOOLEAN /\ ask[a].free \in {0, 1} /\ ask[a].looking \in BOOLEAN
      /\ ask[a].extra \in Nat
    BY RequestFacts
<1>2. ask[a].pc # "over" => ask[a].saved = FALSE
    BY <1>1 DEF PlanInv
<1>3. ask[a].looking = TRUE => ask[a].free = 0
    <2>1. ask[a].free > 0 => ask[a].looking = FALSE
        BY <1>1 DEF PlanInv
    <2>2. ask[a].free \in {0, 1} /\ ask[a].looking \in BOOLEAN
        BY <1>1
    <2>3. QED
        BY <2>1, <2>2
<1>4. ask[a].pc = "next" => ask[a].free = 0 /\ ask[a].extra < ask[a].looked
    BY <1>1 DEF PlanInv
<1>5. QED
    BY <1>1, <1>2, <1>3, <1>4 DEF PlanInv

\* What it says of its calls.
LEMMA CallFacts ==
    ASSUME ChatInv, NEW a \in Asks
    PROVE  /\ ask[a].calls = Len(bill[a]) /\ ask[a].calls <= Takes("day", a) + ask[a].free
           /\ ask[a].pc = "call" => ask[a].calls < Takes("day", a) + ask[a].free
           /\ ask[a].pc = "stream" => /\ ask[a].calls > 0
                                     /\ bill[a][ask[a].calls] = [times |-> 0, later |-> FALSE]
           /\ \A i \in DOMAIN bill[a] : bill[a][i].later = TRUE => bill[a][i].times = 0
<1>1. CallInv(a)
    BY RequestFacts
<1>2. QED
    BY <1>1 DEF CallInv

\* What is kept of the calls of a request that makes none.
LEMMA CallsKeep ==
    ASSUME ChatInv, NEW a \in Asks, bill'[a] = bill[a], ask'[a].calls = ask[a].calls,
           ask'[a].calls <= Takes("day", a)' + ask'[a].free, ask'[a].pc \notin {"call", "stream"}
    PROVE  CallInv(a)'
<1>1. CallInv(a)
    BY RequestFacts
<1>2. QED
    BY <1>1 DEF CallInv

\* What is kept of a request that a step leaves alone.
LEMMA OthersKeep ==
    ASSUME ChatInv, NEW b \in Asks, ask'[b] = ask[b], bill'[b] = bill[b]
    PROVE  PlanInv(b)' /\ CallInv(b)'
<1>1. Takes("day", b)' = Takes("day", b)
    BY TakesIs
<1>2. PlanInv(b) /\ CallInv(b)
    BY DEF ChatInv
<1>3. PlanInv(b)'
    BY <1>2 DEF PlanInv
<1>4. CallInv(b)'
    BY <1>1, <1>2 DEF CallInv
<1>5. QED
    BY <1>3, <1>4

\* A step of one request that counts nothing and saves nothing.
LEMMA QuietStep ==
    ASSUME ChatInv, ChatTypes', NEW a \in Asks,
           \A b \in Asks \ {a} : ask'[b] = ask[b] /\ bill'[b] = bill[b],
           ask'[a].extra = ask[a].extra,
           \A w \in Windows : Counts(ask'[a].kind, ask'[a].taken, w) = Counts(ask[a].kind, ask[a].taken, w),
           (ask'[a].old = TRUE /\ ask'[a].saved = TRUE) <=> (ask[a].old = TRUE /\ ask[a].saved = TRUE),
           UNCHANGED <<count, conv>>, PlanInv(a)', CallInv(a)'
    PROVE  ChatInv'
<1>1. ASSUME NEW w \in Windows
      PROVE  WindowInv(w)'
    <2>1. ASSUME NEW b \in Asks
          PROVE  Takes(w, b)' = Takes(w, b)
        BY TakesIs
    <2>2. Taken(w)' = Taken(w)
        BY <2>1 DEF Taken
    <2>3. QED
        BY <2>2, KeepWindow DEF ChatInv
<1>2. ASSUME NEW b \in Asks
      PROVE  PlanInv(b)' /\ CallInv(b)'
    <2>1. CASE b = a
        BY <2>1
    <2>2. CASE b # a
        BY <2>2, OthersKeep
    <2>3. QED
        BY <2>1, <2>2
<1>3. Kept' = Kept
    <2>1. \A b \in Asks : (ask'[b].old = TRUE /\ ask'[b].saved = TRUE) <=> (ask[b].old = TRUE /\ ask[b].saved = TRUE)
        OBVIOUS
    <2>2. QED
        BY <2>1 DEF Kept
<1>4. QED
    BY <1>1, <1>2, <1>3 DEF ChatInv


\* A step that only moves a request on, without taking, calling or saving.
LEMMA MoveOn ==
    ASSUME ChatInv, NEW a \in Asks, NEW to \in Places,
           ask' = [ask EXCEPT ![a] = [ask[a] EXCEPT !.pc = to]],
           UNCHANGED <<count, conv, bill>>,
           PlanInv(a)', to \notin {"call", "stream"}
    PROVE  ChatInv'
<1>1. /\ ask'[a].pc = to /\ ask'[a].kind = ask[a].kind /\ ask'[a].old = ask[a].old
      /\ ask'[a].taken = ask[a].taken /\ ask'[a].extra = ask[a].extra
      /\ ask'[a].calls = ask[a].calls /\ ask'[a].free = ask[a].free
      /\ ask'[a].looked = ask[a].looked /\ ask'[a].looking = ask[a].looking
      /\ ask'[a].saved = ask[a].saved
      /\ \A b \in Asks \ {a} : ask'[b] = ask[b]
    <2>1. ask'[a] = [ask[a] EXCEPT !.pc = to] /\ \A b \in Asks \ {a} : ask'[b] = ask[b]
        BY RequestFacts
    <2>2. QED
        BY <2>1, RequestFacts DEF Request
<1>2. [ask[a] EXCEPT !.pc = to] \in Request
    BY RequestFacts DEF Request
<1>3. ChatTypes'
    BY <1>2 DEF ChatInv, ChatTypes
<1>4. Takes("day", a)' = Takes("day", a)
    BY <1>1, TakesIs
<1>5. CallInv(a)'
    BY <1>1, <1>4, RequestFacts DEF CallInv
<1>6. QED
    BY <1>1, <1>3, <1>5, QuietStep

\* A window is counted for a request: the next of its plan, or the day again.
LEMMA CountedTakes ==
    ASSUME ChatInv, NEW a \in Asks, NEW w, NEW v,
           ask'[a].kind = ask[a].kind,
           \/ /\ ask[a].taken < Steps(ask[a].kind) /\ w = Plan[ask[a].kind][ask[a].taken + 1]
              /\ ask'[a].taken = ask[a].taken + 1 /\ ask'[a].extra = ask[a].extra
           \/ /\ w = "day"
              /\ ask'[a].taken = ask[a].taken /\ ask'[a].extra = ask[a].extra + 1
    PROVE  Takes(v, a)' = IF v = w THEN Takes(v, a) + 1 ELSE Takes(v, a)
<1> DEFINE k == ask[a].kind
           n == ask[a].taken
<1>1. k \in Kinds /\ n \in Nat /\ ask[a].extra \in Nat /\ Counts(k, n, v) \in {0, 1}
    BY RequestFacts, CountsType DEF Request
<1>2. CASE n < Steps(k) /\ w = Plan[k][n + 1] /\ ask'[a].taken = n + 1 /\ ask'[a].extra = ask[a].extra
    <2>1. Counts(k, n + 1, v) = IF v = w THEN Counts(k, n, v) + 1 ELSE Counts(k, n, v)
        BY <1>1, <1>2, CountsNext
    <2>2. QED
        BY <1>1, <1>2, <2>1, TakesIs
<1>3. CASE w = "day" /\ ask'[a].taken = n /\ ask'[a].extra = ask[a].extra + 1
    BY <1>1, <1>3, TakesIs
<1>4. QED
    BY <1>2, <1>3

\* A step that counts a window for one request, and saves nothing.
LEMMA CountingStep ==
    ASSUME ChatConstants, ChatInv, ChatTypes', NEW a \in Asks, NEW w \in Windows, Room(w),
           count' = [count EXCEPT ![w] = IF count[w] = Missing THEN 1 ELSE count[w] + 1],
           \A b \in Asks \ {a} : ask'[b] = ask[b],
           ask'[a].kind = ask[a].kind,
           \/ /\ ask[a].taken < Steps(ask[a].kind) /\ w = Plan[ask[a].kind][ask[a].taken + 1]
              /\ ask'[a].taken = ask[a].taken + 1 /\ ask'[a].extra = ask[a].extra
           \/ /\ w = "day"
              /\ ask'[a].taken = ask[a].taken /\ ask'[a].extra = ask[a].extra + 1,
           ask'[a].old = ask[a].old, ask'[a].saved = ask[a].saved,
           UNCHANGED <<conv, bill>>, PlanInv(a)', CallInv(a)'
    PROVE  ChatInv'
<1>1. ASSUME NEW v
      PROVE  Takes(v, a)' = IF v = w THEN Takes(v, a) + 1 ELSE Takes(v, a)
    BY CountedTakes
<1>2. ASSUME NEW v, NEW b \in Asks \ {a}
      PROVE  Takes(v, b)' = Takes(v, b)
    BY TakesIs
<1>3. ASSUME NEW v \in Windows
      PROVE  WindowInv(v)'
    <2>1. \A b \in Asks \ {a} : Taken(v)'[b] = Taken(v)[b]
        BY <1>2 DEF Taken
    <2>2. CASE v = w
        <3>1. count'[v] = IF count[v] = Missing THEN 1 ELSE count[v] + 1
            BY <2>2 DEF ChatInv, ChatTypes
        <3>2. Room(v) /\ Takes(v, a)' = Takes(v, a) + 1
            BY <1>1, <2>2
        <3>3. QED
            BY <2>1, <3>1, <3>2, CountWindow DEF ChatInv
    <2>3. CASE v # w
        <3>1. count'[v] = count[v]
            BY <2>3 DEF ChatInv, ChatTypes
        <3>2. Takes(v, a)' = Takes(v, a)
            BY <1>1, <2>3
        <3>3. Taken(v)' = Taken(v)
            BY <3>2, <1>2 DEF Taken
        <3>4. QED
            BY <3>1, <3>3, KeepWindow DEF ChatInv
    <2>4. QED
        BY <2>2, <2>3
<1>4. ASSUME NEW b \in Asks
      PROVE  PlanInv(b)' /\ CallInv(b)'
    <2>1. CASE b = a
        BY <2>1
    <2>2. CASE b # a
        BY <2>2, OthersKeep
    <2>3. QED
        BY <2>1, <2>2
<1>5. Kept' = Kept
    <2>1. \A b \in Asks : (ask'[b].old = TRUE /\ ask'[b].saved = TRUE) <=> (ask[b].old = TRUE /\ ask[b].saved = TRUE)
        OBVIOUS
    <2>2. QED
        BY <2>1 DEF Kept
<1>6. QED
    BY <1>3, <1>4, <1>5 DEF ChatInv

LEMMA BeginKeeps ==
    ASSUME ChatConstants, ChatInv, NEW a \in Asks, NEW kind \in Kinds, NEW old \in BOOLEAN, Begin(a, kind, old)
    PROVE  ChatInv'
<1>1. /\ ask[a].pc = "idle"
      /\ ask' = [ask EXCEPT ![a] = [ask[a] EXCEPT !.pc = "take", !.kind = kind, !.old = old]]
      /\ UNCHANGED <<count, conv, bill>>
    BY RequestFacts DEF Begin
<1>2. /\ ask'[a].pc = "take" /\ ask'[a].kind = kind /\ ask'[a].old = old
      /\ ask'[a].taken = ask[a].taken /\ ask'[a].extra = ask[a].extra
      /\ ask'[a].calls = ask[a].calls /\ ask'[a].free = ask[a].free
      /\ ask'[a].looked = ask[a].looked /\ ask'[a].looking = ask[a].looking
      /\ ask'[a].saved = ask[a].saved
      /\ \A b \in Asks \ {a} : ask'[b] = ask[b]
    <2>1. ask'[a] = [ask[a] EXCEPT !.pc = "take", !.kind = kind, !.old = old] /\ \A b \in Asks \ {a} : ask'[b] = ask[b]
        BY <1>1, RequestFacts
    <2>2. QED
        BY <2>1, RequestFacts DEF Request
<1>3. [ask[a] EXCEPT !.pc = "take", !.kind = kind, !.old = old] \in Request
    BY RequestFacts DEF Request, Places
<1>4. ChatTypes'
    BY <1>1, <1>3 DEF ChatInv, ChatTypes
<1>5. /\ ask[a].taken = 0 /\ ask[a].extra = 0 /\ ask[a].calls = 0 /\ ask[a].free = 0
      /\ ask[a].saved = FALSE /\ 0 <= ask[a].looked /\ ask[a].looked <= MaxLookups
    <2>1. ask[a].looked \in Nat
        BY RequestFacts
    <2>2. ask[a].pc = "idle"
        BY <1>1
    <2>3. /\ ask[a].taken = 0 /\ ask[a].extra = 0 /\ ask[a].calls = 0 /\ ask[a].free = 0
          /\ ask[a].saved = FALSE /\ ask[a].looked <= MaxLookups
        BY <2>2, PlanFacts
    <2>4. QED
        BY <2>1, <2>3
<1>6. \A k, w : Counts(k, 0, w) = 0
    BY DEF Counts
<1>7. Takes("day", a)' = 0
    BY <1>2, <1>5, <1>6, TakesIs
<1>8. PlanInv(a)'
    <2>1. 0 < Steps(kind)
        BY Plans
    <2>2. QED
        BY <1>2, <1>5, <2>1 DEF PlanInv
<1>9. CallInv(a)'
    BY <1>1, <1>2, <1>5, <1>7, CallsKeep
<1>10. ask'[a].saved = FALSE /\ ask'[a].extra = ask[a].extra /\ ask'[a].taken = 0
    BY <1>2, <1>5
<1>11. \A w \in Windows : Counts(ask'[a].kind, ask'[a].taken, w) = Counts(ask[a].kind, ask[a].taken, w)
    BY <1>5, <1>6, <1>10
<1>12. \A b \in Asks \ {a} : ask'[b] = ask[b] /\ bill'[b] = bill[b]
    BY <1>1, <1>2
<1>13. UNCHANGED <<count, conv>>
    BY <1>1
<1>14. QED
    BY <1>4, <1>5, <1>8, <1>9, <1>10, <1>11, <1>12, <1>13, QuietStep

LEMMA TakeWindowKeeps ==
    ASSUME ChatConstants, ChatInv, NEW a \in Asks, TakeWindow(a)
    PROVE  ChatInv'
<1> DEFINE k == ask[a].kind
           n == ask[a].taken
           w == Window(a)
<1>1. ask[a].pc \in {"take", "insert"} /\ UNCHANGED <<conv, bill>>
    BY DEF TakeWindow
<1>2. /\ n < Steps(k) /\ ask[a].extra = 0 /\ ask[a].calls = 0 /\ ask[a].free = 0 /\ ask[a].saved = FALSE
      /\ ask[a].looked <= MaxLookups
    BY <1>1, RequestFacts DEF PlanInv
<1>3. k \in Kinds /\ n \in Nat /\ ask[a].looked \in Nat
    BY RequestFacts
<1>4. w \in Windows /\ w = Plan[k][n + 1]
    <2>1. n + 1 \in 1..Steps(k)
        BY <1>2, <1>3, Plans
    <2>2. QED
        BY <1>3, <2>1, Plans DEF Window
<1>5. CASE /\ Room(w) /\ Counted(w)
           /\ ask' = [ask EXCEPT ![a].taken = @ + 1, ![a].pc = IF n + 1 = Steps(k) THEN "call" ELSE "take"]
    <2> DEFINE to == IF n + 1 = Steps(k) THEN "call" ELSE "take"
    <2>1. ask' = [ask EXCEPT ![a] = [ask[a] EXCEPT !.taken = n + 1, !.pc = to]]
        BY <1>5, RequestFacts
    <2>2. to \in Places /\ to \in {"call", "take"}
        BY DEF Places
    <2>3. n + 1 = Steps(k) => to = "call"
        OBVIOUS
    <2>4. to = "call" => n + 1 = Steps(k)
        OBVIOUS
    <2> HIDE DEF to
    <2>5. /\ ask'[a].pc = to /\ ask'[a].kind = ask[a].kind /\ ask'[a].old = ask[a].old
          /\ ask'[a].taken = n + 1 /\ ask'[a].extra = ask[a].extra
          /\ ask'[a].calls = ask[a].calls /\ ask'[a].free = ask[a].free
          /\ ask'[a].looked = ask[a].looked /\ ask'[a].looking = ask[a].looking
          /\ ask'[a].saved = ask[a].saved
          /\ \A b \in Asks \ {a} : ask'[b] = ask[b]
        <3>1. ask'[a] = [ask[a] EXCEPT !.pc = to, !.taken = n + 1] /\ \A b \in Asks \ {a} : ask'[b] = ask[b]
            BY <2>1, RequestFacts
        <3>2. QED
            BY <3>1, RequestFacts DEF Request
    <2>6. count' = [count EXCEPT ![w] = IF count[w] = Missing THEN 1 ELSE count[w] + 1]
        BY <1>5 DEF Counted
    <2>7. ChatTypes'
        <3>1. count' \in [Windows -> Nat \cup {Missing}]
            BY <2>6, <1>4 DEF ChatInv, ChatTypes, Missing
        <3>2. [ask[a] EXCEPT !.taken = n + 1, !.pc = to] \in Request
            <4> DEFINE m == n + 1
            <4>1. m \in Nat
                BY <1>3
            <4> HIDE DEF m
            <4>2. [ask[a] EXCEPT !.taken = m, !.pc = to] \in Request
                BY <2>2, <4>1, RequestFacts DEF Request
            <4>3. QED
                BY <4>2 DEF m
        <3>3. ask' \in [Asks -> Request]
            BY <2>1, <3>2 DEF ChatInv, ChatTypes
        <3>4. QED
            BY <1>1, <3>1, <3>3 DEF ChatInv, ChatTypes
    <2>8. Takes("day", a)' = IF "day" = w THEN Takes("day", a) + 1 ELSE Takes("day", a)
        <3> HIDE DEF w
        <3>1. QED
            BY <1>2, <1>4, <2>5, CountedTakes
    <2>9. PlanInv(a)'
        <3>1. Steps(k) \in Nat
            BY <1>3, Plans
        <3>2. n + 1 < Steps(k) \/ to = "call"
            BY <1>2, <1>3, <2>3, <3>1
        <3>3. ask'[a].extra = 0 /\ ask'[a].calls = 0 /\ ask'[a].free = 0 /\ ask'[a].saved = FALSE
            BY <1>2, <2>5
        <3>4. /\ ask'[a].pc \in {"call", "take"} /\ ask'[a].taken = n + 1 /\ ask'[a].kind = k
              /\ ask'[a].pc = "call" => n + 1 = Steps(k)
              /\ n + 1 < Steps(k) \/ ask'[a].pc = "call"
            BY <2>2, <2>4, <2>5, <3>2
        <3>5. ask'[a].looked <= MaxLookups /\ 0 <= ask'[a].looked
            BY <1>2, <1>3, <2>5
        <3> HIDE DEF n, k
        <3>6. Steps(k) = Steps(ask'[a].kind)
            BY <3>4
        <3>7. ask'[a].pc = "take" => ask'[a].taken < Steps(ask'[a].kind)
            BY <3>4
        <3>8. ask'[a].pc = "call" => ask'[a].taken = Steps(ask'[a].kind)
            BY <3>4
        <3>9. ask'[a].extra + ask'[a].free <= ask'[a].looked
            BY <3>3, <3>5
        <3>10. ask'[a].pc = "take" \/ ask'[a].pc = "call"
            BY <3>4
        <3>11. CASE ask'[a].pc = "take"
            BY <3>3, <3>5, <3>7, <3>9, <3>11 DEF PlanInv
        <3>12. CASE ask'[a].pc = "call"
            BY <3>3, <3>5, <3>8, <3>9, <3>12 DEF PlanInv
        <3>13. QED
            BY <3>10, <3>11, <3>12
    <2>10. CallInv(a)'
        <3>1. to = "call" => w = "day"
            BY <1>3, <1>4, <2>4, Plans
        <3>2. Takes("day", a)' \in Nat /\ (to = "call" => Takes("day", a)' > 0)
            BY <2>8, <3>1, RequestFacts
        <3>3. to # "stream"
            BY <2>2
        <3>4. Len(bill[a]) = 0 /\ bill'[a] = bill[a] /\ \A i \in DOMAIN bill[a] : bill[a][i].later = TRUE => bill[a][i].times = 0
            BY <1>1, <1>2, RequestFacts DEF CallInv
        <3>5. QED
            BY <1>2, <2>5, <3>2, <3>3, <3>4 DEF CallInv
    <2>11. Room(w)
        BY <1>5
    <2> HIDE DEF w
    <2>12. \A b \in Asks \ {a} : ask'[b] = ask[b]
        BY <2>1, RequestFacts
    <2>13. QED
        BY <1>1, <1>2, <1>4, <2>5, <2>6, <2>7, <2>9, <2>10, <2>11, <2>12, CountingStep
<1>6. ASSUME NEW to \in {"insert", "over", "give back"}, Goto(a, to), UNCHANGED count
      PROVE  ChatInv'
    <2>1. ask' = [ask EXCEPT ![a] = [ask[a] EXCEPT !.pc = to]] /\ to \in Places
        BY <1>6, RequestFacts DEF Goto, Places
    <2>2. /\ ask'[a].pc = to /\ ask'[a].kind = ask[a].kind /\ ask'[a].old = ask[a].old
          /\ ask'[a].taken = ask[a].taken /\ ask'[a].extra = ask[a].extra
          /\ ask'[a].calls = ask[a].calls /\ ask'[a].free = ask[a].free
          /\ ask'[a].looked = ask[a].looked /\ ask'[a].looking = ask[a].looking
          /\ ask'[a].saved = ask[a].saved
          /\ \A b \in Asks \ {a} : ask'[b] = ask[b]
        <3>1. ask'[a] = [ask[a] EXCEPT !.pc = to] /\ \A b \in Asks \ {a} : ask'[b] = ask[b]
            BY <2>1, RequestFacts
        <3>2. QED
            BY <3>1, RequestFacts DEF Request
    <2>3. PlanInv(a)'
        BY <1>2, <1>3, <1>6, <2>2, RequestFacts DEF PlanInv
    <2>4. to \notin {"call", "stream"}
        BY <1>6
    <2>5. QED
        BY <1>1, <1>6, <2>1, <2>3, <2>4, MoveOn
<1>7. QED
    BY <1>5, <1>6 DEF TakeWindow, Steps

LEMMA GiveBackKeeps ==
    ASSUME ChatConstants, ChatInv, NEW a \in Asks, GiveBack(a)
    PROVE  ChatInv'
<1> DEFINE k == ask[a].kind
           n == ask[a].taken
<1>1. /\ ask[a].pc = "give back" /\ UNCHANGED <<conv, bill>>
      /\ count' = [w \in Windows |-> IF Counts(k, n, w) = 1 THEN count[w] - 1 ELSE count[w]]
    <2>1. /\ ask[a].pc = "give back" /\ UNCHANGED <<conv, bill>>
          /\ count' = [w \in Windows |-> IF \E i \in 1..n : Plan[k][i] = w THEN count[w] - 1 ELSE count[w]]
        BY DEF GiveBack
    <2>2. \A w : Counts(k, n, w) = 1 <=> \E i \in 1..n : Plan[k][i] = w
        BY DEF Counts
    <2>3. QED
        BY <2>1, <2>2
<1>2. /\ ask[a].extra = 0 /\ ask[a].calls = 0 /\ ask[a].free = 0 /\ ask[a].saved = FALSE
      /\ ask[a].looked <= MaxLookups /\ ask[a].looked \in Nat
    BY <1>1, RequestFacts, PlanFacts
<1>3. ask' = [ask EXCEPT ![a] = [ask[a] EXCEPT !.pc = "over", !.taken = 0]]
    BY RequestFacts DEF GiveBack
<1>4. /\ ask'[a].pc = "over" /\ ask'[a].kind = ask[a].kind
      /\ ask'[a].old = ask[a].old /\ ask'[a].taken = 0
      /\ ask'[a].extra = ask[a].extra /\ ask'[a].calls = ask[a].calls
      /\ ask'[a].free = ask[a].free /\ ask'[a].looked = ask[a].looked
      /\ ask'[a].looking = ask[a].looking /\ ask'[a].saved = ask[a].saved
      /\ \A b \in Asks \ {a} : ask'[b] = ask[b]
    <2>1. ask'[a] = [ask[a] EXCEPT !.pc = "over", !.taken = 0] /\ \A b \in Asks \ {a} : ask'[b] = ask[b]
        BY <1>3, RequestFacts
    <2>2. QED
        BY <2>1, RequestFacts DEF Request
<1>5. ask' \in [Asks -> Request]
    <2>1. [ask[a] EXCEPT !.pc = "over", !.taken = 0] \in Request
        BY RequestFacts DEF Request, Places
    <2>2. QED
        BY <1>3, <2>1 DEF ChatInv, ChatTypes
<1>6. ASSUME NEW w
      PROVE  Takes(w, a) = Counts(k, n, w) /\ Takes(w, a)' = 0 /\ Counts(k, n, w) \in {0, 1}
    <2>1. Counts(ask'[a].kind, ask'[a].taken, w) = 0
        BY <1>4 DEF Counts
    <2>2. Counts(k, n, w) \in {0, 1}
        BY CountsType
    <2>3. QED
        BY <1>2, <1>4, <2>1, <2>2, TakesIs
<1>7. ASSUME NEW w, NEW b \in Asks \ {a}
      PROVE  Takes(w, b)' = Takes(w, b)
    BY <1>4, TakesIs
<1>8. ASSUME NEW w \in Windows, Counts(k, n, w) = 1
      PROVE  count[w] \in Nat \ {0}
    <2>1. Taken(w)[a] = 1
        BY <1>6, <1>8 DEF Taken
    <2>2. <<a, 1>> \in Pairs(Taken(w))
        BY <2>1, PairsMember
    <2>3. Held(w) # {}
        BY <2>2, HeldIs
    <2>4. count[w] # Missing /\ count[w] = Cardinality(Held(w)) /\ IsFiniteSet(Held(w))
        BY <2>3 DEF ChatInv, WindowInv
    <2>5. count[w] \in Nat \cup {Missing}
        BY DEF ChatInv, ChatTypes
    <2>6. QED
        BY <2>3, <2>4, <2>5, FS_EmptySet
<1>9. ChatTypes'
    <2>1. ASSUME NEW w \in Windows
          PROVE  count'[w] \in Nat \cup {Missing}
        <3>1. CASE Counts(k, n, w) = 1
            <4>1. count'[w] = count[w] - 1
                BY <1>1, <3>1
            <4>2. QED
                BY <1>8, <3>1, <4>1
        <3>2. CASE Counts(k, n, w) # 1
            BY <1>1, <3>2 DEF ChatInv, ChatTypes
        <3>3. QED
            BY <3>1, <3>2
    <2>2. DOMAIN count' = Windows /\ count' = [w \in Windows |-> count'[w]]
        BY <1>1
    <2>3. count' \in [Windows -> Nat \cup {Missing}]
        BY <2>1, <2>2
    <2>4. QED
        BY <1>1, <1>5, <2>3 DEF ChatInv, ChatTypes
<1>10. ASSUME NEW w \in Windows
      PROVE  WindowInv(w)'
    <2>1. \A b \in Asks \ {a} : Taken(w)'[b] = Taken(w)[b]
        BY <1>7 DEF Taken
    <2>2. CASE Counts(k, n, w) = 1
        <3>1. count'[w] = count[w] - 1
            BY <1>1, <2>2
        <3>2. Takes(w, a) = Takes(w, a)' + 1
            BY <1>6, <2>2
        <3>3. QED
            BY <1>9, <2>1, <3>1, <3>2, ReturnWindow DEF ChatInv
    <2>3. CASE Counts(k, n, w) # 1
        <3>1. count'[w] = count[w]
            BY <1>1, <2>3
        <3>2. Takes(w, a)' = Takes(w, a)
            BY <1>6, <2>3
        <3>3. Taken(w)' = Taken(w)
            BY <3>2, <1>7 DEF Taken
        <3>4. QED
            BY <3>1, <3>3, KeepWindow DEF ChatInv
    <2>4. QED
        BY <2>2, <2>3
<1>11. PlanInv(a)'
    BY <1>2, <1>4 DEF PlanInv
<1>12. CallInv(a)'
    <2>1. Takes("day", a)' = 0
        BY <1>6
    <2>2. bill'[a] = bill[a] /\ ask'[a].calls = ask[a].calls /\ ask'[a].pc \notin {"call", "stream"}
        BY <1>1, <1>4
    <2>3. ask'[a].calls <= Takes("day", a)' + ask'[a].free
        BY <1>2, <1>4, <2>1
    <2>4. QED
        BY <2>2, <2>3, CallsKeep
<1>13. ASSUME NEW b \in Asks
      PROVE  PlanInv(b)' /\ CallInv(b)'
    <2>1. CASE b = a
        BY <1>11, <1>12, <2>1
    <2>2. CASE b # a
        BY <1>1, <1>4, <2>2, OthersKeep
    <2>3. QED
        BY <2>1, <2>2
<1>14. Kept' = Kept
    <2>1. \A b \in Asks : (ask'[b].old = TRUE /\ ask'[b].saved = TRUE) <=> (ask[b].old = TRUE /\ ask[b].saved = TRUE)
        BY <1>4
    <2>2. QED
        BY <2>1 DEF Kept
<1>15. QED
    BY <1>1, <1>9, <1>10, <1>13, <1>14 DEF ChatInv

LEMMA NextCallKeeps ==
    ASSUME ChatConstants, ChatInv, NEW a \in Asks, NextCall(a)
    PROVE  ChatInv'
<1>1. ask[a].pc = "next" /\ UNCHANGED <<conv, bill>>
    BY DEF NextCall
<1>2. /\ ask[a].free = 0 /\ ask[a].extra + ask[a].free < ask[a].looked /\ ask[a].saved = FALSE
      /\ ask[a].taken = Steps(ask[a].kind) /\ ask[a].looked <= MaxLookups
    <2>1. ask[a].extra \in Nat
        BY RequestFacts
    <2>2. /\ ask[a].free = 0 /\ ask[a].extra < ask[a].looked /\ ask[a].saved = FALSE
          /\ ask[a].taken = Steps(ask[a].kind) /\ ask[a].looked <= MaxLookups
        BY <1>1, PlanFacts
    <2>3. QED
        BY <2>1, <2>2
<1>3. /\ ask[a].looked \in Nat /\ ask[a].extra \in Nat /\ ask[a].calls \in Nat /\ Takes("day", a) \in Nat
      /\ ask[a].calls = Len(bill[a]) /\ ask[a].calls <= Takes("day", a) + ask[a].free
      /\ \A i \in DOMAIN bill[a] : bill[a][i].later = TRUE => bill[a][i].times = 0
    BY RequestFacts, CallFacts
<1>4. CASE Room("day")
    <2>1. /\ ask' = [ask EXCEPT ![a] = [ask[a] EXCEPT !.extra = ask[a].extra + 1, !.pc = "call"]]
          /\ count' = [count EXCEPT !["day"] = IF count["day"] = Missing THEN 1 ELSE count["day"] + 1]
        BY <1>4, RequestFacts DEF NextCall, Counted
    <2>2. /\ ask'[a].pc = "call" /\ ask'[a].kind = ask[a].kind
          /\ ask'[a].old = ask[a].old /\ ask'[a].taken = ask[a].taken
          /\ ask'[a].extra = ask[a].extra + 1 /\ ask'[a].calls = ask[a].calls
          /\ ask'[a].free = ask[a].free /\ ask'[a].looked = ask[a].looked
          /\ ask'[a].looking = ask[a].looking /\ ask'[a].saved = ask[a].saved
          /\ \A b \in Asks \ {a} : ask'[b] = ask[b]
        <3>1. ask'[a] = [ask[a] EXCEPT !.extra = ask[a].extra + 1, !.pc = "call"] /\ \A b \in Asks \ {a} : ask'[b] = ask[b]
            BY <2>1, RequestFacts
        <3>2. QED
            BY <3>1, RequestFacts DEF Request
    <2>3. ChatTypes'
        <3>1. count' \in [Windows -> Nat \cup {Missing}]
            BY <2>1 DEF ChatInv, ChatTypes, Missing, Windows
        <3>2. [ask[a] EXCEPT !.extra = ask[a].extra + 1, !.pc = "call"] \in Request
            <4> DEFINE m == ask[a].extra + 1
            <4>1. m \in Nat
                BY <1>3
            <4> HIDE DEF m
            <4>2. [ask[a] EXCEPT !.extra = m, !.pc = "call"] \in Request
                BY <4>1, RequestFacts DEF Request, Places
            <4>3. QED
                BY <4>2 DEF m
        <3>3. ask' \in [Asks -> Request]
            BY <2>1, <3>2 DEF ChatInv, ChatTypes
        <3>4. QED
            BY <1>1, <3>1, <3>3 DEF ChatInv, ChatTypes
    <2>4. Takes("day", a)' = Takes("day", a) + 1
        BY <2>2, CountedTakes
    <2>5. "day" \in Windows
        BY DEF Windows
    <2>6. PlanInv(a)'
        BY <1>2, <1>3, <2>2 DEF PlanInv
    <2>7. CallInv(a)'
        BY <1>1, <1>2, <1>3, <2>2, <2>4 DEF CallInv
    <2>8. QED
        BY <1>1, <1>4, <2>1, <2>2, <2>3, <2>5, <2>6, <2>7, CountingStep
<1>5. CASE ~Room("day")
    <2>1. /\ ask' = [ask EXCEPT ![a] = [ask[a] EXCEPT !.free = 1, !.looking = FALSE, !.pc = "call"]]
          /\ UNCHANGED count
        <3>1. /\ ask' = [ask EXCEPT ![a] = [ask[a] EXCEPT !.free = ask[a].free + 1, !.looking = FALSE, !.pc = "call"]]
              /\ UNCHANGED count
            BY <1>5, RequestFacts DEF NextCall
        <3>2. ask[a].free + 1 = 1
            BY <1>2
        <3>3. QED
            BY <3>1, <3>2
    <2>2. /\ ask'[a].pc = "call" /\ ask'[a].kind = ask[a].kind
          /\ ask'[a].old = ask[a].old /\ ask'[a].taken = ask[a].taken
          /\ ask'[a].extra = ask[a].extra /\ ask'[a].calls = ask[a].calls
          /\ ask'[a].free = 1 /\ ask'[a].looked = ask[a].looked
          /\ ask'[a].looking = FALSE /\ ask'[a].saved = ask[a].saved
          /\ \A b \in Asks \ {a} : ask'[b] = ask[b]
        <3>1. ask'[a] = [ask[a] EXCEPT !.free = 1, !.looking = FALSE, !.pc = "call"] /\ \A b \in Asks \ {a} : ask'[b] = ask[b]
            BY <2>1, RequestFacts
        <3>2. QED
            BY <3>1, RequestFacts DEF Request
    <2>3. ChatTypes'
        <3>1. [ask[a] EXCEPT !.free = 1, !.looking = FALSE, !.pc = "call"] \in Request
            BY RequestFacts DEF Request, Places
        <3>2. QED
            BY <1>1, <2>1, <3>1 DEF ChatInv, ChatTypes
    <2>4. Takes("day", a)' = Takes("day", a)
        BY <2>2, TakesIs
    <2>5. PlanInv(a)'
        BY <1>2, <1>3, <2>2 DEF PlanInv
    <2>6. CallInv(a)'
        BY <1>1, <1>2, <1>3, <2>2, <2>4 DEF CallInv
    <2>7. QED
        BY <1>1, <2>1, <2>2, <2>3, <2>5, <2>6, QuietStep
<1>6. QED
    BY <1>4, <1>5

LEMMA PostKeeps ==
    ASSUME ChatConstants, ChatInv, NEW a \in Asks, Post(a)
    PROVE  ChatInv'
<1>1. ask[a].pc = "call" /\ UNCHANGED <<count, conv>>
    BY DEF Post
<1>2. /\ ask[a].calls = Len(bill[a]) /\ ask[a].calls < Takes("day", a) + ask[a].free
      /\ \A i \in DOMAIN bill[a] : bill[a][i].later = TRUE => bill[a][i].times = 0
      /\ ask[a].taken = Steps(ask[a].kind) /\ ask[a].saved = FALSE
    BY <1>1, PlanFacts, CallFacts
<1>3. CASE /\ ask' = [ask EXCEPT ![a].pc = "stream", ![a].calls = @ + 1, ![a].tries = 0]
           /\ bill' = [bill EXCEPT ![a] = Append(@, [times |-> 0, later |-> FALSE])]
    <2> DEFINE new == [times |-> 0, later |-> FALSE]
    <2>1. ask' = [ask EXCEPT ![a] = [ask[a] EXCEPT !.pc = "stream", !.calls = ask[a].calls + 1, !.tries = 0]]
        BY <1>3, RequestFacts
    <2>2. /\ ask'[a].pc = "stream" /\ ask'[a].kind = ask[a].kind
          /\ ask'[a].old = ask[a].old /\ ask'[a].taken = ask[a].taken
          /\ ask'[a].extra = ask[a].extra /\ ask'[a].calls = ask[a].calls + 1
          /\ ask'[a].free = ask[a].free /\ ask'[a].looked = ask[a].looked
          /\ ask'[a].looking = ask[a].looking /\ ask'[a].saved = ask[a].saved
          /\ \A b \in Asks \ {a} : ask'[b] = ask[b]
        <3>1. ask'[a] = [ask[a] EXCEPT !.pc = "stream", !.calls = ask[a].calls + 1, !.tries = 0] /\ \A b \in Asks \ {a} : ask'[b] = ask[b]
            BY <2>1, RequestFacts
        <3>2. QED
            BY <3>1, RequestFacts DEF Request
    <2>3. bill' = [bill EXCEPT ![a] = Append(bill[a], new)] /\ new \in Charge
        BY <1>3 DEF Charge
    <2> HIDE DEF new
    <2>4. bill'[a] = Append(bill[a], new) /\ \A b \in Asks \ {a} : bill'[b] = bill[b]
        BY <2>3, RequestFacts
    <2>5. /\ bill'[a] \in Seq(Charge) /\ Len(bill'[a]) = Len(bill[a]) + 1 /\ Len(bill[a]) \in Nat
          /\ \A i \in 1..Len(bill[a]) : bill'[a][i] = bill[a][i]
          /\ bill'[a][Len(bill[a]) + 1] = new
        BY <2>3, <2>4, RequestFacts
    <2>6. ChatTypes'
        <3>1. [ask[a] EXCEPT !.pc = "stream", !.calls = ask[a].calls + 1, !.tries = 0] \in Request
            <4> DEFINE m == ask[a].calls + 1
            <4>1. m \in Nat
                BY RequestFacts
            <4> HIDE DEF m
            <4>2. [ask[a] EXCEPT !.pc = "stream", !.calls = m, !.tries = 0] \in Request
                BY <4>1, RequestFacts DEF Request, Places
            <4>3. QED
                BY <4>2 DEF m
        <3>2. ask' \in [Asks -> Request]
            BY <2>1, <3>1 DEF ChatInv, ChatTypes
        <3>3. Append(bill[a], new) \in Seq(Charge)
            BY <2>4, <2>5
        <3>4. bill' \in [Asks -> Seq(Charge)]
            BY <2>3, <3>3 DEF ChatInv, ChatTypes
        <3>5. QED
            BY <1>1, <3>2, <3>4 DEF ChatInv, ChatTypes
    <2>7. Takes("day", a)' = Takes("day", a)
        BY <2>2, TakesIs
    <2>8. PlanInv(a)'
        BY <1>1, <1>2, <2>2, RequestFacts DEF PlanInv
    <2>9. CallInv(a)'
        <3>1. ask'[a].calls = Len(bill'[a])
            BY <1>2, <2>2, <2>5
        <3>2. ask'[a].calls <= Takes("day", a)' + ask'[a].free
            BY <1>2, <2>2, <2>7, RequestFacts
        <3>3. ASSUME NEW i \in DOMAIN bill'[a], bill'[a][i].later = TRUE
              PROVE  bill'[a][i].times = 0
            <4>1. i \in 1..Len(bill[a]) \/ i = Len(bill[a]) + 1
                BY <2>5
            <4>2. CASE i \in 1..Len(bill[a])
                <5>1. i \in DOMAIN bill[a] /\ bill'[a][i] = bill[a][i]
                    BY <2>5, <4>2, RequestFacts
                <5>2. QED
                    BY <1>2, <3>3, <5>1
            <4>3. CASE i = Len(bill[a]) + 1
                BY <2>5, <4>3 DEF new
            <4>4. QED
                BY <4>1, <4>2, <4>3
        <3>4. bill'[a][ask'[a].calls] = [times |-> 0, later |-> FALSE] /\ ask'[a].calls > 0
            BY <1>2, <2>2, <2>5 DEF new
        <3>5. QED
            BY <2>2, <3>1, <3>2, <3>3, <3>4 DEF CallInv
    <2>10. QED
        BY <1>1, <2>2, <2>4, <2>6, <2>8, <2>9, QuietStep
<1>4. CASE ask' = [ask EXCEPT ![a].tries = @ + 1] /\ UNCHANGED bill
    <2>1. ask' = [ask EXCEPT ![a] = [ask[a] EXCEPT !.tries = ask[a].tries + 1]]
        BY <1>4, RequestFacts
    <2>2. /\ ask'[a].pc = ask[a].pc /\ ask'[a].kind = ask[a].kind
          /\ ask'[a].old = ask[a].old /\ ask'[a].taken = ask[a].taken
          /\ ask'[a].extra = ask[a].extra /\ ask'[a].calls = ask[a].calls
          /\ ask'[a].free = ask[a].free /\ ask'[a].looked = ask[a].looked
          /\ ask'[a].looking = ask[a].looking /\ ask'[a].saved = ask[a].saved
          /\ \A b \in Asks \ {a} : ask'[b] = ask[b]
        <3>1. ask'[a] = [ask[a] EXCEPT !.tries = ask[a].tries + 1] /\ \A b \in Asks \ {a} : ask'[b] = ask[b]
            BY <2>1, RequestFacts
        <3>2. QED
            BY <3>1, RequestFacts DEF Request
    <2>3. ChatTypes'
        <3>1. [ask[a] EXCEPT !.tries = ask[a].tries + 1] \in Request
            <4> DEFINE m == ask[a].tries + 1
            <4>1. m \in Nat
                BY RequestFacts
            <4> HIDE DEF m
            <4>2. [ask[a] EXCEPT !.tries = m] \in Request
                BY <4>1, RequestFacts DEF Request
            <4>3. QED
                BY <4>2 DEF m
        <3>2. QED
            BY <1>1, <1>4, <2>1, <3>1 DEF ChatInv, ChatTypes
    <2>4. Takes("day", a)' = Takes("day", a)
        BY <2>2, TakesIs
    <2>5. PlanInv(a)'
        BY <2>2, RequestFacts DEF PlanInv
    <2>6. CallInv(a)'
        BY <1>4, <2>2, <2>4, RequestFacts DEF CallInv
    <2>7. QED
        BY <1>1, <1>4, <2>2, <2>3, <2>5, <2>6, QuietStep
<1>5. CASE Over(a) /\ UNCHANGED bill
    <2>1. ask' = [ask EXCEPT ![a] = [ask[a] EXCEPT !.pc = "over"]]
        BY <1>5, RequestFacts DEF Over, Goto
    <2>2. /\ ask'[a].pc = "over" /\ ask'[a].kind = ask[a].kind
          /\ ask'[a].old = ask[a].old /\ ask'[a].taken = ask[a].taken
          /\ ask'[a].extra = ask[a].extra /\ ask'[a].calls = ask[a].calls
          /\ ask'[a].free = ask[a].free /\ ask'[a].looked = ask[a].looked
          /\ ask'[a].looking = ask[a].looking /\ ask'[a].saved = ask[a].saved
          /\ \A b \in Asks \ {a} : ask'[b] = ask[b]
        <3>1. ask'[a] = [ask[a] EXCEPT !.pc = "over"] /\ \A b \in Asks \ {a} : ask'[b] = ask[b]
            BY <2>1, RequestFacts
        <3>2. QED
            BY <3>1, RequestFacts DEF Request
    <2>3. PlanInv(a)'
        BY <1>1, <2>2, RequestFacts DEF PlanInv
    <2>4. "over" \in Places
        BY DEF Places
    <2>5. QED
        BY <1>1, <1>5, <2>1, <2>3, <2>4, MoveOn
<1>6. QED
    BY <1>3, <1>4, <1>5 DEF Post

\* A call that has no bill gets one, or is asked about later.
LEMMA Learned ==
    ASSUME NEW c, c = [times |-> 0, later |-> FALSE]
    PROVE  /\ [c EXCEPT !.times = c.times + 1] = [times |-> 1, later |-> FALSE]
           /\ [c EXCEPT !.later = TRUE] = [times |-> 0, later |-> TRUE]
<1>1. c \in Charge /\ c.times = 0 /\ c.later = FALSE
    BY DEF Charge
<1>2. \A d \in Charge, e \in Charge : d.times = e.times /\ d.later = e.later => d = e
    BY DEF Charge
<1>3. [times |-> 1, later |-> FALSE] \in Charge /\ [times |-> 0, later |-> TRUE] \in Charge
    BY DEF Charge
<1>4. [c EXCEPT !.times = c.times + 1] = [times |-> 1, later |-> FALSE]
    <2> DEFINE d == [c EXCEPT !.times = 1]
    <2>1. d \in Charge /\ d.times = 1 /\ d.later = FALSE
        BY <1>1 DEF Charge
    <2> HIDE DEF d
    <2>2. d = [times |-> 1, later |-> FALSE]
        BY <1>2, <1>3, <2>1
    <2>3. c.times + 1 = 1
        BY <1>1
    <2>4. QED
        BY <2>2, <2>3 DEF d
<1>5. [c EXCEPT !.later = TRUE] = [times |-> 0, later |-> TRUE]
    <2> DEFINE d == [c EXCEPT !.later = TRUE]
    <2>1. d \in Charge /\ d.times = 0 /\ d.later = TRUE
        BY <1>1 DEF Charge
    <2> HIDE DEF d
    <2>2. d = [times |-> 0, later |-> TRUE]
        BY <1>2, <1>3, <2>1
    <2>3. QED
        BY <2>2 DEF d
<1>6. QED
    BY <1>4, <1>5

\* A step that changes what is billed of one call.
LEMMA ChargeStep ==
    ASSUME ChatInv, NEW a \in Asks, NEW i \in DOMAIN bill[a], NEW c \in Charge, c.later = TRUE => c.times = 0,
           bill' = [bill EXCEPT ![a] = [bill[a] EXCEPT ![i] = c]],
           NEW to \in Places, ask' = [ask EXCEPT ![a] = [ask[a] EXCEPT !.pc = to]],
           to = "stream" => ask[a].pc = "stream" /\ bill[a][i] # [times |-> 0, later |-> FALSE],
           to = "call" => ask[a].pc = "call",
           UNCHANGED <<count, conv>>, PlanInv(a)'
    PROVE  ChatInv'
<1>1. /\ ask'[a].pc = to /\ ask'[a].kind = ask[a].kind /\ ask'[a].old = ask[a].old
      /\ ask'[a].taken = ask[a].taken /\ ask'[a].extra = ask[a].extra
      /\ ask'[a].calls = ask[a].calls /\ ask'[a].free = ask[a].free
      /\ ask'[a].looked = ask[a].looked /\ ask'[a].looking = ask[a].looking
      /\ ask'[a].saved = ask[a].saved
      /\ \A b \in Asks \ {a} : ask'[b] = ask[b]
    <2>1. ask'[a] = [ask[a] EXCEPT !.pc = to] /\ \A b \in Asks \ {a} : ask'[b] = ask[b]
        BY RequestFacts
    <2>2. QED
        BY <2>1, RequestFacts DEF Request
<1>2. bill'[a] = [bill[a] EXCEPT ![i] = c] /\ \A b \in Asks \ {a} : bill'[b] = bill[b]
    BY RequestFacts
<1> DEFINE n == Len(bill[a])
<1>3. DOMAIN bill[a] = 1..n /\ n \in Nat /\ bill[a] \in [1..n -> Charge]
    BY RequestFacts
<1> HIDE DEF n
<1>4. /\ bill'[a] \in [1..n -> Charge] /\ DOMAIN bill'[a] = 1..n
      /\ bill'[a][i] = c /\ \A j \in DOMAIN bill[a] \ {i} : bill'[a][j] = bill[a][j]
    BY <1>2, <1>3
<1>5. bill'[a] \in Seq(Charge) /\ Len(bill'[a]) = n
    BY <1>3, <1>4
<1>6. ChatTypes'
    <2>1. [bill[a] EXCEPT ![i] = c] \in Seq(Charge)
        BY <1>2, <1>5
    <2>2. bill' \in [Asks -> Seq(Charge)]
        BY <2>1 DEF ChatInv, ChatTypes
    <2>3. [ask[a] EXCEPT !.pc = to] \in Request
        BY RequestFacts DEF Request
    <2>4. ask' \in [Asks -> Request]
        BY <2>3 DEF ChatInv, ChatTypes
    <2>5. QED
        BY <2>2, <2>4 DEF ChatInv, ChatTypes
<1>7. Takes("day", a)' = Takes("day", a)
    BY <1>1, TakesIs
<1>8. CallInv(a)'
    <2>1. ask[a].calls = n /\ ask[a].calls <= Takes("day", a) + ask[a].free
        BY RequestFacts DEF CallInv, n
    <2>2. ASSUME NEW j \in DOMAIN bill'[a], bill'[a][j].later = TRUE
          PROVE  bill'[a][j].times = 0
        <3>1. CASE j = i
            BY <1>4, <2>2, <3>1
        <3>2. CASE j # i
            <4>1. j \in DOMAIN bill[a] /\ bill'[a][j] = bill[a][j]
                BY <1>3, <1>4, <2>2, <3>2
            <4>2. QED
                BY <2>2, <4>1, RequestFacts DEF CallInv
        <3>3. QED
            BY <3>1, <3>2
    <2>3. to = "call" => ask[a].calls < Takes("day", a) + ask[a].free
        BY RequestFacts DEF CallInv
    <2>4. ASSUME to = "stream"
          PROVE  ask'[a].calls > 0 /\ bill'[a][ask'[a].calls] = [times |-> 0, later |-> FALSE]
        <3>1. ask[a].calls > 0 /\ bill[a][ask[a].calls] = [times |-> 0, later |-> FALSE]
            BY <2>4, RequestFacts DEF CallInv
        <3>2. ask[a].calls \in DOMAIN bill[a] \ {i}
            BY <1>3, <2>1, <2>4, <3>1
        <3>3. QED
            BY <1>1, <1>4, <3>1, <3>2
    <2>5. QED
        BY <1>1, <1>5, <1>7, <2>1, <2>2, <2>3, <2>4 DEF CallInv
<1>9. QED
    BY <1>1, <1>2, <1>6, <1>8, QuietStep

LEMMA StreamKeeps ==
    ASSUME ChatConstants, ChatInv, NEW a \in Asks, Stream(a)
    PROVE  ChatInv'
<1> DEFINE i == ask[a].calls
           once == [times |-> 1, later |-> FALSE]
           asked == [times |-> 0, later |-> TRUE]
<1>1. /\ ask[a].pc = "stream" /\ UNCHANGED <<count, conv>>
      /\ i \in DOMAIN bill[a] /\ bill[a][i] = [times |-> 0, later |-> FALSE]
    <2>1. ask[a].pc = "stream" /\ UNCHANGED <<count, conv>>
        BY DEF Stream
    <2>2. i > 0 /\ i = Len(bill[a]) /\ bill[a][i] = [times |-> 0, later |-> FALSE] /\ bill[a] \in Seq(Charge)
        BY <2>1, RequestFacts DEF CallInv
    <2>3. QED
        BY <2>1, <2>2
<1>2. PICK to \in {"read", "over", "save"} : Goto(a, to)
    BY DEF Stream, Over
<1>3. \E c \in {once, asked} : bill' = [bill EXCEPT ![a] = [bill[a] EXCEPT ![i] = c]]
    <2>1. CASE bill' = [bill EXCEPT ![a][i].times = @ + 1]
        <3>1. bill' = [bill EXCEPT ![a] = [bill[a] EXCEPT ![i] = [bill[a][i] EXCEPT !.times = bill[a][i].times + 1]]]
            BY <2>1
        <3>2. [bill[a][i] EXCEPT !.times = bill[a][i].times + 1] = once
            BY <1>1, Learned
        <3>3. QED
            BY <3>1, <3>2
    <2>2. CASE bill' = [bill EXCEPT ![a][i].later = TRUE]
        <3>1. bill' = [bill EXCEPT ![a] = [bill[a] EXCEPT ![i] = [bill[a][i] EXCEPT !.later = TRUE]]]
            BY <2>2
        <3>2. [bill[a][i] EXCEPT !.later = TRUE] = asked
            BY <1>1, Learned
        <3>3. QED
            BY <3>1, <3>2
    <2>3. QED
        BY <2>1, <2>2 DEF Stream
<1>4. PICK c \in {once, asked} : bill' = [bill EXCEPT ![a] = [bill[a] EXCEPT ![i] = c]]
    BY <1>3
<1>5. c \in Charge /\ (c.later = TRUE => c.times = 0)
    <2>1. once \in Charge /\ once.later = FALSE /\ asked \in Charge /\ asked.times = 0
        BY DEF Charge
    <2> HIDE DEF once, asked
    <2>2. QED
        BY <1>4, <2>1
<1>6. ask' = [ask EXCEPT ![a] = [ask[a] EXCEPT !.pc = to]] /\ to \in Places
    BY <1>2, RequestFacts DEF Goto, Places
<1>7. /\ ask'[a].pc = to /\ ask'[a].kind = ask[a].kind /\ ask'[a].old = ask[a].old
      /\ ask'[a].taken = ask[a].taken /\ ask'[a].extra = ask[a].extra
      /\ ask'[a].calls = ask[a].calls /\ ask'[a].free = ask[a].free
      /\ ask'[a].looked = ask[a].looked /\ ask'[a].looking = ask[a].looking
      /\ ask'[a].saved = ask[a].saved
      /\ \A b \in Asks \ {a} : ask'[b] = ask[b]
    <2>1. ask'[a] = [ask[a] EXCEPT !.pc = to] /\ \A b \in Asks \ {a} : ask'[b] = ask[b]
        BY <1>6, RequestFacts
    <2>2. QED
        BY <2>1, RequestFacts DEF Request
<1>8. PlanInv(a)'
    BY <1>1, <1>2, <1>7, RequestFacts DEF PlanInv
<1>9. to # "stream" /\ to # "call"
    BY <1>2
<1>10. QED
    BY <1>1, <1>4, <1>5, <1>6, <1>8, <1>9, ChargeStep

LEMMA RecordBilledKeeps ==
    ASSUME ChatConstants, ChatInv, NEW a \in Asks, RecordBilled(a)
    PROVE  ChatInv'
<1>1. PICK i \in DOMAIN bill[a] :
        /\ bill[a][i].later
        /\ bill' = [bill EXCEPT ![a][i] = [times |-> @.times + 1, later |-> FALSE]]
        /\ UNCHANGED <<count, ask, conv>>
    BY DEF RecordBilled
<1> DEFINE c == [times |-> 1, later |-> FALSE]
<1>2. bill[a][i].times = 0
    BY <1>1, RequestFacts DEF CallInv
<1>3. bill' = [bill EXCEPT ![a] = [bill[a] EXCEPT ![i] = c]] /\ c \in Charge /\ c.later = FALSE
    BY <1>1, <1>2 DEF Charge
<1>4. ask' = [ask EXCEPT ![a] = [ask[a] EXCEPT !.pc = ask[a].pc]] /\ ask[a].pc \in Places
    BY <1>1, RequestFacts DEF Request, ChatInv, ChatTypes
<1>5. PlanInv(a)'
    BY <1>1, RequestFacts DEF PlanInv
<1>6. bill[a][i] # [times |-> 0, later |-> FALSE]
    BY <1>1
<1>7. QED
    BY <1>1, <1>3, <1>4, <1>5, <1>6, ChargeStep

LEMMA LookUpKeeps ==
    ASSUME ChatConstants, ChatInv, NEW a \in Asks, NEW calls \in 1..(MaxPerRound + 1), LookUp(a, calls)
    PROVE  ChatInv'
<1> DEFINE room == MaxLookups - ask[a].looked
           ran == Min({calls, room, MaxPerRound})
<1>1. /\ ask[a].pc = "read" /\ UNCHANGED <<count, conv, bill>>
      /\ ask' = [ask EXCEPT ![a] = [ask[a] EXCEPT !.looked = ask[a].looked + ran, !.pc = "next"]]
      /\ ask[a].looking = TRUE /\ ask[a].looked < MaxLookups
      /\ ask[a].looked \in Nat /\ MaxLookups \in Nat /\ MaxPerRound \in Nat \ {0} /\ calls \in Nat \ {0}
    <2>1. /\ ask[a].pc = "read" /\ UNCHANGED <<count, conv, bill>> /\ ~LookingIsOver(a)
          /\ ask' = [ask EXCEPT ![a].looked = @ + ran, ![a].pc = "next"]
        BY DEF LookUp
    <2> HIDE DEF ran
    <2>2. ask' = [ask EXCEPT ![a] = [ask[a] EXCEPT !.looked = ask[a].looked + ran, !.pc = "next"]]
        BY <2>1, RequestFacts
    <2>3. ask[a].looked \in Nat /\ MaxLookups \in Nat /\ MaxPerRound \in Nat \ {0} /\ calls \in Nat \ {0}
        BY RequestFacts DEF ChatConstants
    <2>4. ask[a].looked < MaxLookups
        BY <2>1, <2>3 DEF LookingIsOver
    <2>5. ask[a].looking
        BY <2>1 DEF LookingIsOver
    <2>6. ask[a].looking = TRUE
        BY <2>5, RequestFacts
    <2>7. QED
        BY <2>1, <2>2, <2>3, <2>4, <2>6
<1>2. ran \in {calls, room, MaxPerRound} /\ ran <= room
    <2>1. \E x \in {calls, room, MaxPerRound} : \A y \in {calls, room, MaxPerRound} : x =< y
        BY <1>1
    <2>2. ran \in {calls, room, MaxPerRound} /\ \A y \in {calls, room, MaxPerRound} : ran =< y
        <3> HIDE DEF room
        <3>1. QED
            BY <2>1 DEF Min
    <2>3. QED
        BY <2>2
<1>3. ran \in Nat \ {0} /\ ask[a].looked + ran <= MaxLookups
    BY <1>1, <1>2
<1> HIDE DEF ran
<1>4. /\ ask'[a].pc = "next" /\ ask'[a].kind = ask[a].kind
      /\ ask'[a].old = ask[a].old /\ ask'[a].taken = ask[a].taken
      /\ ask'[a].extra = ask[a].extra /\ ask'[a].calls = ask[a].calls
      /\ ask'[a].free = ask[a].free /\ ask'[a].looked = ask[a].looked + ran
      /\ ask'[a].looking = ask[a].looking /\ ask'[a].saved = ask[a].saved
      /\ \A b \in Asks \ {a} : ask'[b] = ask[b]
    <2>1. ask'[a] = [ask[a] EXCEPT !.looked = ask[a].looked + ran, !.pc = "next"] /\ \A b \in Asks \ {a} : ask'[b] = ask[b]
        BY <1>1, RequestFacts
    <2>2. QED
        BY <2>1, RequestFacts DEF Request
<1>5. ChatTypes'
    <2>1. [ask[a] EXCEPT !.looked = ask[a].looked + ran, !.pc = "next"] \in Request
        <3> DEFINE m == ask[a].looked + ran
        <3>1. m \in Nat
            BY <1>1, <1>3
        <3> HIDE DEF m
        <3>2. [ask[a] EXCEPT !.looked = m, !.pc = "next"] \in Request
            BY <3>1, RequestFacts DEF Request, Places
        <3>3. QED
            BY <3>2 DEF m
    <2>2. QED
        BY <1>1, <2>1 DEF ChatInv, ChatTypes
<1>6. Takes("day", a)' = Takes("day", a)
    BY <1>4, TakesIs
<1>7. PlanInv(a)'
    <2>1. /\ ask[a].taken = Steps(ask[a].kind) /\ ask[a].free = 0 /\ ask[a].saved = FALSE
          /\ ask[a].extra + ask[a].free <= ask[a].looked /\ ask[a].extra \in Nat
        <3>1. ask[a].extra \in Nat /\ ask[a].free \in {0, 1}
            BY RequestFacts
        <3>2. /\ ask[a].taken = Steps(ask[a].kind) /\ ask[a].free = 0 /\ ask[a].saved = FALSE
              /\ ask[a].extra + ask[a].free <= ask[a].looked
            <4>1. ask[a].pc = "read" /\ ask[a].looking = TRUE
                BY <1>1
            <4>2. QED
                BY <4>1, PlanFacts
        <3>3. QED
            BY <3>1, <3>2
    <2>2. /\ ask'[a].pc = "next" /\ ask'[a].taken = Steps(ask'[a].kind) /\ ask'[a].free = 0
          /\ ask'[a].saved = FALSE /\ ask'[a].extra = ask[a].extra /\ ask'[a].looked = ask[a].looked + ran
        BY <1>4, <2>1
    <2>3. ask'[a].extra + ask'[a].free < ask'[a].looked /\ ask'[a].looked <= MaxLookups
        BY <1>1, <1>3, <2>1, <2>2
    <2>4. ask'[a].extra + ask'[a].free <= ask'[a].looked
        BY <1>1, <1>3, <2>1, <2>2, <2>3
    <2>5. QED
        BY <2>2, <2>3, <2>4 DEF PlanInv
<1>8. CallInv(a)'
    BY <1>1, <1>4, <1>6, RequestFacts DEF CallInv
<1>9. QED
    BY <1>1, <1>4, <1>5, <1>7, <1>8, QuietStep

LEMMA StopLookingKeeps ==
    ASSUME ChatConstants, ChatInv, NEW a \in Asks, StopLooking(a)
    PROVE  ChatInv'
<1>1. /\ ask[a].pc = "next" /\ UNCHANGED <<count, conv, bill>>
      /\ ask' = [ask EXCEPT ![a] = [ask[a] EXCEPT !.looking = FALSE]]
    BY RequestFacts DEF StopLooking
<1>2. /\ ask'[a].pc = ask[a].pc /\ ask'[a].kind = ask[a].kind
      /\ ask'[a].old = ask[a].old /\ ask'[a].taken = ask[a].taken
      /\ ask'[a].extra = ask[a].extra /\ ask'[a].calls = ask[a].calls
      /\ ask'[a].free = ask[a].free /\ ask'[a].looked = ask[a].looked
      /\ ask'[a].looking = FALSE /\ ask'[a].saved = ask[a].saved
      /\ \A b \in Asks \ {a} : ask'[b] = ask[b]
    <2>1. ask'[a] = [ask[a] EXCEPT !.looking = FALSE] /\ \A b \in Asks \ {a} : ask'[b] = ask[b]
        BY <1>1, RequestFacts
    <2>2. QED
        BY <2>1, RequestFacts DEF Request
<1>3. ChatTypes'
    <2>1. [ask[a] EXCEPT !.looking = FALSE] \in Request
        BY RequestFacts DEF Request
    <2>2. QED
        BY <1>1, <2>1 DEF ChatInv, ChatTypes
<1>4. Takes("day", a)' = Takes("day", a)
    BY <1>2, TakesIs
<1>5. PlanInv(a)'
    BY <1>1, <1>2, RequestFacts DEF PlanInv
<1>6. CallInv(a)'
    BY <1>1, <1>2, <1>4, RequestFacts DEF CallInv
<1>7. QED
    BY <1>1, <1>2, <1>3, <1>5, <1>6, QuietStep

LEMMA AnswerKeeps ==
    ASSUME ChatConstants, ChatInv, NEW a \in Asks, Answer(a)
    PROVE  ChatInv'
<1>1. /\ ask[a].pc = "read" /\ UNCHANGED <<count, conv, bill>>
      /\ ask' = [ask EXCEPT ![a] = [ask[a] EXCEPT !.pc = "save"]]
    BY RequestFacts DEF Answer, Goto
<1>2. /\ ask'[a].pc = "save" /\ ask'[a].kind = ask[a].kind
      /\ ask'[a].old = ask[a].old /\ ask'[a].taken = ask[a].taken
      /\ ask'[a].extra = ask[a].extra /\ ask'[a].calls = ask[a].calls
      /\ ask'[a].free = ask[a].free /\ ask'[a].looked = ask[a].looked
      /\ ask'[a].looking = ask[a].looking /\ ask'[a].saved = ask[a].saved
      /\ \A b \in Asks \ {a} : ask'[b] = ask[b]
    <2>1. ask'[a] = [ask[a] EXCEPT !.pc = "save"] /\ \A b \in Asks \ {a} : ask'[b] = ask[b]
        BY <1>1, RequestFacts
    <2>2. QED
        BY <2>1, RequestFacts DEF Request
<1>3. PlanInv(a)'
    BY <1>1, <1>2, RequestFacts DEF PlanInv
<1>4. "save" \in Places
    BY DEF Places
<1>5. QED
    BY <1>1, <1>3, <1>4, MoveOn

LEMMA SaveKeeps ==
    ASSUME ChatConstants, ChatInv, NEW a \in Asks, Save(a)
    PROVE  ChatInv'
<1> DEFINE room == conv.there /\ conv.n <= MaxMessages - 2
           stored == ~ask[a].old \/ room
<1>1. /\ ask[a].pc = "save" /\ UNCHANGED <<count, bill>>
      /\ conv' = IF ask[a].old /\ room THEN [conv EXCEPT !.n = @ + 2] ELSE conv
      /\ ask' = [ask EXCEPT ![a] = [ask[a] EXCEPT !.pc = "over", !.saved = stored]]
    BY RequestFacts DEF Save
<1> stored \in BOOLEAN
    OBVIOUS
<1>2. conv \in [n : 0..MaxMessages, first : 0..MaxMessages, there : BOOLEAN] /\ MaxMessages \in Nat
    BY DEF ChatInv, ChatTypes, ChatConstants
<1>0. ask[a].saved = FALSE
    BY <1>1, RequestFacts DEF PlanInv
<1>3. IsFiniteSet(Kept) /\ a \notin Kept /\ Cardinality(Kept) \in Nat
    <2>1. Kept \subseteq Asks /\ a \notin Kept
        BY <1>0 DEF Kept
    <2>2. QED
        BY <2>1, FS_Subset, FS_CardinalityType DEF ChatConstants
<1>4. ask' = [ask EXCEPT ![a] = [ask[a] EXCEPT !.pc = "over", !.saved = stored]] /\ stored \in BOOLEAN
    BY <1>1
<1> HIDE DEF stored
<1>5. /\ ask'[a].pc = "over" /\ ask'[a].kind = ask[a].kind
      /\ ask'[a].old = ask[a].old /\ ask'[a].taken = ask[a].taken
      /\ ask'[a].extra = ask[a].extra /\ ask'[a].calls = ask[a].calls
      /\ ask'[a].free = ask[a].free /\ ask'[a].looked = ask[a].looked
      /\ ask'[a].looking = ask[a].looking /\ ask'[a].saved = stored
      /\ \A b \in Asks \ {a} : ask'[b] = ask[b]
    <2>1. ask'[a] = [ask[a] EXCEPT !.pc = "over", !.saved = stored] /\ \A b \in Asks \ {a} : ask'[b] = ask[b]
        BY <1>4, RequestFacts
    <2>2. QED
        BY <2>1, RequestFacts DEF Request
<1>6. conv' \in [n : 0..MaxMessages, first : 0..MaxMessages, there : BOOLEAN]
    BY <1>1, <1>2
<1>7. conv'.n = conv'.first + 2 * Cardinality(Kept')
    <2>1. CASE ask[a].old /\ room
        <3>1. Kept' = Kept \cup {a}
            BY <1>5, <2>1 DEF Kept, stored
        <3>2. Cardinality(Kept') = Cardinality(Kept) + 1
            BY <1>3, <3>1, FS_AddElement
        <3>3. conv'.n = conv.n + 2 /\ conv'.first = conv.first
            BY <1>1, <1>2, <2>1
        <3>4. QED
            BY <1>2, <1>3, <3>2, <3>3 DEF ChatInv
    <2>2. CASE ~(ask[a].old /\ room)
        <3>1. Kept' = Kept
            BY <1>0, <1>5, <2>2 DEF Kept, stored
        <3>2. conv' = conv
            BY <1>1, <2>2
        <3>3. QED
            BY <3>1, <3>2 DEF ChatInv
    <2>3. QED
        BY <2>1, <2>2
<1>8. ChatTypes'
    <2>1. [ask[a] EXCEPT !.pc = "over", !.saved = stored] \in Request
        BY <1>4, RequestFacts DEF Request, Places
    <2>2. ask' \in [Asks -> Request]
        BY <1>4, <2>1 DEF ChatInv, ChatTypes
    <2>3. QED
        BY <1>1, <1>6, <2>2 DEF ChatInv, ChatTypes
<1>9. ASSUME NEW w, NEW b \in Asks
      PROVE  Takes(w, b)' = Takes(w, b)
    <2>1. ask'[b].kind = ask[b].kind /\ ask'[b].taken = ask[b].taken /\ ask'[b].extra = ask[b].extra
        BY <1>5
    <2>2. QED
        BY <2>1, TakesIs
<1>10. ASSUME NEW w \in Windows
      PROVE  WindowInv(w)'
    <2>1. Taken(w)' = Taken(w)
        BY <1>9 DEF Taken
    <2>2. QED
        BY <1>1, <2>1, KeepWindow DEF ChatInv
<1>11. ASSUME NEW b \in Asks
       PROVE  PlanInv(b)' /\ CallInv(b)'
    <2>1. Takes("day", b)' = Takes("day", b)
        BY <1>9
    <2>2. CASE b = a
        <3>1. PlanInv(a)'
            BY <1>1, <1>5, RequestFacts DEF PlanInv
        <3>2. CallInv(a)'
            BY <1>1, <1>5, <2>1, <2>2, RequestFacts DEF CallInv
        <3>3. QED
            BY <2>2, <3>1, <3>2
    <2>3. CASE b # a
        BY <1>1, <1>5, <2>3, OthersKeep
    <2>4. QED
        BY <2>2, <2>3
<1>12. QED
    BY <1>7, <1>8, <1>10, <1>11 DEF ChatInv

LEMMA DeleteConversationKeeps ==
    ASSUME ChatConstants, ChatInv, DeleteConversation
    PROVE  ChatInv'
<1>1. conv' = [conv EXCEPT !.there = FALSE] /\ UNCHANGED <<count, ask, bill>>
    BY DEF DeleteConversation
<1>2. ChatTypes' /\ conv'.n = conv.n /\ conv'.first = conv.first
    BY <1>1 DEF ChatInv, ChatTypes
<1>3. Kept' = Kept
    BY <1>1 DEF Kept
<1>4. ASSUME NEW w
      PROVE  Held(w)' = Held(w)
    BY <1>1 DEF Held, Takes
<1>5. ASSUME NEW w \in Windows
      PROVE  WindowInv(w)'
    BY <1>1, <1>4 DEF ChatInv, WindowInv
<1>6. ASSUME NEW a \in Asks
      PROVE  PlanInv(a)' /\ CallInv(a)'
    BY <1>1 DEF ChatInv, PlanInv, CallInv, Takes
<1>7. QED
    BY <1>2, <1>3, <1>5, <1>6 DEF ChatInv

LEMMA StopKeeps ==
    ASSUME ChatConstants, ChatInv, NEW a \in Asks, Stop(a)
    PROVE  ChatInv'
<1>1. /\ ask[a].pc \notin {"idle", "over"} /\ UNCHANGED <<count, conv>>
      /\ ask' = [ask EXCEPT ![a] = [ask[a] EXCEPT !.pc = "over"]] /\ "over" \in Places
    BY RequestFacts DEF Stop, Over, Goto, Places
<1>6. /\ ask'[a].pc = "over" /\ ask'[a].kind = ask[a].kind
      /\ ask'[a].old = ask[a].old /\ ask'[a].taken = ask[a].taken
      /\ ask'[a].extra = ask[a].extra /\ ask'[a].calls = ask[a].calls
      /\ ask'[a].free = ask[a].free /\ ask'[a].looked = ask[a].looked
      /\ ask'[a].looking = ask[a].looking /\ ask'[a].saved = ask[a].saved
      /\ \A b \in Asks \ {a} : ask'[b] = ask[b]
    <2>1. ask'[a] = [ask[a] EXCEPT !.pc = "over"] /\ \A b \in Asks \ {a} : ask'[b] = ask[b]
        BY <1>1, RequestFacts
    <2>2. QED
        BY <2>1, RequestFacts DEF Request
<1>2. PlanInv(a)'
    BY <1>1, <1>6, RequestFacts DEF PlanInv, Places
<1>3. CASE UNCHANGED bill
    BY <1>1, <1>2, <1>3, MoveOn
<1>4. CASE ask[a].pc = "stream" /\ bill' = [bill EXCEPT ![a][ask[a].calls].later = TRUE]
    <2> DEFINE i == ask[a].calls
               asked == [times |-> 0, later |-> TRUE]
    <2>1. i \in DOMAIN bill[a] /\ bill[a][i] = [times |-> 0, later |-> FALSE]
        <3>1. i > 0 /\ i = Len(bill[a]) /\ bill[a][i] = [times |-> 0, later |-> FALSE] /\ bill[a] \in Seq(Charge)
            BY <1>4, RequestFacts DEF CallInv
        <3>2. QED
            BY <3>1
    <2>2. bill' = [bill EXCEPT ![a] = [bill[a] EXCEPT ![i] = [bill[a][i] EXCEPT !.later = TRUE]]]
        BY <1>4
    <2>3. [bill[a][i] EXCEPT !.later = TRUE] = asked /\ asked \in Charge /\ asked.times = 0
        BY <2>1, Learned DEF Charge
    <2>4. bill' = [bill EXCEPT ![a] = [bill[a] EXCEPT ![i] = asked]]
        BY <2>2, <2>3
    <2> HIDE DEF asked
    <2>5. QED
        BY <1>1, <1>2, <2>1, <2>3, <2>4, ChargeStep
<1>5. QED
    BY <1>1, <1>3, <1>4 DEF Stop

-----------------------------------------------------------------------------
(***************************************************************************)
(* The theorem of Chat                                                     *)
(***************************************************************************)

LEMMA ChatStarts ==
    ASSUME ChatConstants, Init
    PROVE  ChatInv
<1>1. \A a \in Asks : ask[a] = Idle
    BY DEF Init
<1>2. Idle \in Request
    BY Plans DEF Idle, Request, Places, ChatConstants
<1>3. ChatTypes
    <2>1. conv \in [n : 0..MaxMessages, first : 0..MaxMessages, there : BOOLEAN]
        <3>1. PICK k \in {2, MaxMessages - 2} : conv = [n |-> k, first |-> k, there |-> TRUE]
            BY DEF Init
        <3>2. k \in 0..MaxMessages
            BY DEF ChatConstants
        <3>3. QED
            BY <3>1, <3>2
    <2>2. <<>> \in Seq(Charge)
        OBVIOUS
    <2>3. QED
        BY <1>2, <2>1, <2>2 DEF Init, ChatTypes
<1>4. ASSUME NEW w, NEW a \in Asks
      PROVE  Takes(w, a) = 0
    BY <1>1, TakesIs DEF Idle, Counts
<1>5. ASSUME NEW w \in Windows
      PROVE  WindowInv(w)
    <2>1. Held(w) = {}
        BY <1>4 DEF Held
    <2>2. QED
        BY <2>1, FS_EmptySet DEF Init, WindowInv
<1>6. ASSUME NEW a \in Asks
      PROVE  PlanInv(a) /\ CallInv(a)
    <2>1. Steps("ask") > 0
        BY Plans
    <2>2. bill[a] = <<>>
        BY DEF Init
    <2>3. MaxLookups \in Nat
        BY DEF ChatConstants
    <2>4. ask[a] = Idle /\ Takes("day", a) = 0
        BY <1>1, <1>4
    <2>5. PlanInv(a)
        BY <2>1, <2>3, <2>4 DEF Idle, PlanInv
    <2>6. CallInv(a)
        BY <2>2, <2>4 DEF Idle, CallInv
    <2>7. QED
        BY <2>5, <2>6
<1>7. conv.n = conv.first + 2 * Cardinality(Kept)
    <2>1. Kept = {}
        BY <1>1 DEF Kept, Idle
    <2>2. Cardinality(Kept) = 0
        BY <2>1, FS_EmptySet
    <2>3. conv.n = conv.first /\ conv.n \in Nat
        BY <1>3 DEF Init, ChatConstants
    <2>4. QED
        BY <2>2, <2>3
<1>8. QED
    BY <1>3, <1>5, <1>6, <1>7 DEF ChatInv

LEMMA ChatSteps ==
    ASSUME ChatConstants, ChatInv, [Next]_vars
    PROVE  ChatInv'
<1>1. CASE UNCHANGED vars
    <2>1. UNCHANGED <<count, ask, conv, bill>>
        BY <1>1 DEF vars
    <2>2. QED
        <3>1. \A w : Held(w)' = Held(w)
            BY <2>1 DEF Held, Takes
        <3>2. \A w \in Windows : WindowInv(w)'
            BY <2>1, <3>1 DEF ChatInv, WindowInv
        <3>3. \A a \in Asks : PlanInv(a)' /\ CallInv(a)'
            BY <2>1 DEF ChatInv, PlanInv, CallInv, Takes
        <3>4. Kept' = Kept
            BY <2>1 DEF Kept
        <3>5. QED
            BY <2>1, <3>2, <3>3, <3>4 DEF ChatInv, ChatTypes
<1>2. CASE Next
    <2>1. CASE DeleteConversation
        BY <2>1, DeleteConversationKeeps
    <2>2. ASSUME NEW a \in Asks,
                 \/ TakeWindow(a) \/ GiveBack(a) \/ NextCall(a) \/ Post(a) \/ Stream(a) \/ RecordBilled(a)
                 \/ StopLooking(a) \/ Answer(a) \/ Save(a) \/ Stop(a)
          PROVE  ChatInv'
        <3>1. CASE TakeWindow(a) \/ GiveBack(a) \/ NextCall(a) \/ Post(a) \/ Stream(a)
            BY <3>1, TakeWindowKeeps, GiveBackKeeps, NextCallKeeps, PostKeeps, StreamKeeps
        <3>2. CASE RecordBilled(a) \/ StopLooking(a) \/ Answer(a) \/ Save(a) \/ Stop(a)
            BY <3>2, RecordBilledKeeps, StopLookingKeeps, AnswerKeeps, SaveKeeps, StopKeeps
        <3>3. QED
            BY <2>2, <3>1, <3>2
    <2>3. ASSUME NEW a \in Asks, NEW k \in Kinds, NEW old \in BOOLEAN, Begin(a, k, old)
          PROVE  ChatInv'
        BY <2>3, BeginKeeps
    <2>4. ASSUME NEW a \in Asks, NEW n \in 1..(MaxPerRound + 1), LookUp(a, n)
          PROVE  ChatInv'
        BY <2>4, LookUpKeeps
    <2>5. QED
        BY <1>2, <2>1, <2>2, <2>3, <2>4 DEF Next
<1>3. QED
    BY <1>1, <1>2

\* The invariant gives what the runs check. No request takes more of a window than one
\* for its plan and one for each lookup, which bounds the counters.
LEMMA ChatHolds ==
    ASSUME ChatConstants, ChatInv
    PROVE  TypeOK /\ BudgetHolds /\ AnswersSaved
<1>1. ASSUME NEW w \in Windows
      PROVE  Cardinality(Held(w)) <= Cardinality(Asks) * (MaxLookups + 2) /\ Cardinality(Held(w)) \in Nat
    <2> DEFINE most == MaxLookups + 2
    <2>1. ASSUME NEW a \in Asks
          PROVE  Takes(w, a) \in 0..most
        <3>1. ask[a].extra \in Nat /\ ask[a].looked \in Nat /\ ask[a].free \in {0, 1} /\ MaxLookups \in Nat
            BY RequestFacts DEF ChatConstants
        <3>2. ask[a].extra + ask[a].free <= ask[a].looked /\ ask[a].looked <= MaxLookups
            BY RequestFacts DEF PlanInv
        <3>3. Counts(ask[a].kind, ask[a].taken, w) \in {0, 1}
            BY CountsType
        <3>4. QED
            BY <3>1, <3>2, <3>3, TakesIs
    <2>2. IsFiniteSet(1..most) /\ Cardinality(1..most) = most
        BY FS_Interval DEF ChatConstants
    <2>3. Held(w) \in SUBSET (Asks \X (1..most))
        BY <2>1 DEF Held, ChatConstants
    <2>4. IsFiniteSet(Asks \X (1..most)) /\ Cardinality(Asks \X (1..most)) = Cardinality(Asks) * most
        BY <2>2, FS_Product DEF ChatConstants
    <2>5. IsFiniteSet(Held(w)) /\ Cardinality(Held(w)) <= Cardinality(Asks \X (1..most))
        BY <2>3, <2>4, FS_Subset
    <2>6. QED
        BY <2>4, <2>5, FS_CardinalityType
<1>2. TypeOK
    <2>1. ASSUME NEW w \in Windows
          PROVE  count[w] \in -1..Cardinality(Asks) * (MaxLookups + 2)
        <3> DEFINE top == Cardinality(Asks) * (MaxLookups + 2)
        <3>1. top \in Nat
            BY <1>1, FS_CardinalityType DEF ChatConstants
        <3>2. count[w] = -1 \/ count[w] = Cardinality(Held(w))
            BY DEF ChatInv, WindowInv, Missing
        <3> HIDE DEF top
        <3>3. Cardinality(Held(w)) <= top /\ Cardinality(Held(w)) \in Nat
            BY <1>1 DEF top
        <3>4. count[w] \in -1..top
            BY <3>1, <3>2, <3>3
        <3>5. QED
            BY <3>4 DEF top
    <2>2. \A a \in Asks : ask[a].kind \in Kinds /\ ask[a].calls = Len(bill[a]) /\ ask[a].looked <= MaxLookups
        BY RequestFacts DEF PlanInv, CallInv
    <2>3. QED
        BY <2>1, <2>2 DEF TypeOK, ChatInv, ChatTypes
<1>3. BudgetHolds
    <2>1. ASSUME NEW a \in Asks, NEW i \in DOMAIN bill[a]
          PROVE  bill[a][i].times + (IF bill[a][i].later THEN 1 ELSE 0) <= 1
        <3>1. bill[a][i].times \in {0, 1} /\ bill[a][i].later \in BOOLEAN
            <4>1. bill[a] \in Seq(Charge)
                BY RequestFacts
            <4>2. bill[a][i] \in Charge
                BY <4>1
            <4>3. QED
                BY <4>2 DEF Charge
        <3>2. bill[a][i].later = TRUE => bill[a][i].times = 0
            BY CallFacts
        <3>3. CASE bill[a][i].later = TRUE
            BY <3>1, <3>2, <3>3
        <3>4. CASE bill[a][i].later = FALSE
            BY <3>1, <3>4
        <3>5. QED
            BY <3>1, <3>3, <3>4
    <2>2. ASSUME NEW a \in Asks
          PROVE  ask[a].calls <= Takes("day", a) + ask[a].free /\ ask[a].free <= 1
        <3>1. ask[a].free \in {0, 1}
            BY RequestFacts
        <3>2. ask[a].calls <= Takes("day", a) + ask[a].free
            BY CallFacts
        <3>3. QED
            BY <3>1, <3>2
    <2>3. QED
        BY <2>1, <2>2 DEF BudgetHolds, ChatInv, WindowInv
<1>4. AnswersSaved
    <2>1. {a \in Asks : ask[a].old /\ ask[a].saved} = Kept
        <3>1. \A a \in Asks : ask[a].old \in BOOLEAN /\ ask[a].saved \in BOOLEAN
            BY RequestFacts
        <3>2. QED
            BY <3>1 DEF Kept
    <2>2. conv.n <= MaxMessages
        BY DEF ChatInv, ChatTypes, ChatConstants
    <2>3. QED
        BY <2>1, <2>2 DEF AnswersSaved, ChatInv
<1>5. QED
    BY <1>2, <1>3, <1>4

(* Whatever asks race, stop or are refused: a window counts exactly the    *)
(* requests it let through or that still hold it, never more than its      *)
(* limit; the provider is called once per count of the day, but for the    *)
(* last answer of a question; no call is billed twice; and a conversation  *)
(* holds a pair for each question that was told to be saved, never more    *)
(* than it may (core/rate_limit.py, usage/service.py, chat/service.py).    *)
THEOREM ChatKeepsItsPromise ==
    ASSUME ChatConstants
    PROVE  Spec => [](TypeOK /\ BudgetHolds /\ AnswersSaved)
<1>1. Init => ChatInv
    BY ChatStarts
<1>2. ChatInv /\ [Next]_vars => ChatInv'
    BY ChatSteps
<1>3. ChatInv => TypeOK /\ BudgetHolds /\ AnswersSaved
    BY ChatHolds
<1>4. QED
    BY <1>1, <1>2, <1>3, PTL DEF Spec
=============================================================================
