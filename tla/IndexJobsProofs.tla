--------------------------- MODULE IndexJobsProofs ---------------------------
(***************************************************************************)
(* Proofs about IndexJobs, for any number of tasks, workspaces, commits    *)
(* and follow-ups, about the discussions that MCIndexJobs checks beside    *)
(* it, and about Realtime, which MCRecovery checks.                        *)
(***************************************************************************)
EXTENDS MCIndexJobs, Sequences, FiniteSetTheorems, TLAPS

-----------------------------------------------------------------------------
(***************************************************************************)
(* Types                                                                   *)
(***************************************************************************)

\* The phases actions assign are phases.
LEMMA Phases ==
    /\ "idle" \in Phase /\ "dispatch" \in Phase /\ "queued" \in Phase
    /\ "defer" \in Phase /\ "mark" \in Phase /\ "find" \in Phase
    /\ "checkout" \in Phase /\ "graph" \in Phase /\ "facts" \in Phase
    /\ "record" \in Phase /\ "drain" \in Phase /\ "done" \in Phase
    /\ "failed" \in Phase /\ "unlock" \in Phase /\ "unlock_failed" \in Phase
BY DEF Phase, Holding, Indexing

\* So are the other values of their types.
LEMMA Values ==
    /\ 0 \in 0 .. MaxFollowUps /\ MaxFollowUps \in 0 .. MaxFollowUps
    /\ Commit \subseteq Version /\ 0 \in Version /\ 1 \in Commit
    /\ Idle \in Run
    /\ NoConnection \in Connection
<1>1. Commit \subseteq Version /\ 0 \in Version /\ 1 \in Commit
  BY CommitsAssumption DEF Commit, Version
<1>2. 0 \in 0 .. MaxFollowUps /\ MaxFollowUps \in 0 .. MaxFollowUps
  BY FollowUpsAssumption
<1>3. Idle \in Run
  BY <1>1, <1>2 DEF Idle, Run, Phase
<1>4. NoConnection \in Connection
  BY DEF NoConnection, Connection, Status
<1> QED
  BY <1>1, <1>2, <1>3, <1>4

\* A full or an incremental run that waits for its turn is a run.
LEMMA QueuedIsRun == ASSUME NEW full \in BOOLEAN PROVE Queued(full) \in Run
BY Values, Phases DEF Queued, Run

\* update_all keeps connections connections.
LEMMA UpdateAllTypes ==
    ASSUME conn \in [Workspaces -> Connection], NEW status \in Status, UpdateAll(status)
    PROVE  conn' \in [Workspaces -> Connection]
BY DEF UpdateAll, Connected, Connection

\* Every step keeps every variable in its type.
LEMMA TypeStep == TypeOK /\ [Next]_vars => TypeOK'
<1> SUFFICES ASSUME TypeOK, [Next]_vars PROVE TypeOK'
  OBVIOUS
<1> USE Values, Phases DEF TypeOK
<1>1. CASE Push
  BY <1>1, CommitsAssumption DEF Push, Commit
<1>2. ASSUME NEW r \in Runs, NEW c \in Commit, Deliver(r, c) PROVE TypeOK'
  <2>1. [Idle EXCEPT !.phase = "dispatch", !.commit = c] \in Run
    BY DEF Run
  <2> QED
    BY <1>2, <2>1 DEF Deliver
<1>3. ASSUME NEW r \in Runs, Handle(r) PROVE TypeOK'
  <2>1. CASE Dispatch(r)
    BY <2>1, QueuedIsRun DEF Dispatch, Finish, Commit, Version
  <2>2. CASE DispatchFails(r)
    BY <2>2 DEF DispatchFails, Finish
  <2> QED
    BY <1>3, <2>1, <2>2 DEF Handle
<1>4. ASSUME NEW r \in Runs, NEW w \in Workspaces, Connect(w, r) PROVE TypeOK'
  <2>1. [NoConnection EXCEPT !.status = "pending"] \in Connection
    BY DEF Connection, Status
  <2> QED
    BY <1>4, <2>1, QueuedIsRun DEF Connect
<1>5. ASSUME NEW r \in Runs, NEW w \in Workspaces, Reindex(w, r) PROVE TypeOK'
  <2>1. conn' \in [Workspaces -> Connection]
    BY <1>5 DEF Reindex, Connection, Status
  <2> QED
    BY <1>5, <2>1, QueuedIsRun DEF Reindex
<1>6. ASSUME NEW r \in Runs, IndexStep(r) PROVE TypeOK'
  <2>1. CASE Claim(r)
    BY <2>1 DEF Claim, Become, Lock, Run
  <2>2. CASE ClaimFails(r)
    BY <2>2 DEF ClaimFails, Become, Run
  <2>3. CASE RecordPending(r)
    BY <2>3 DEF RecordPending, Finish, Lock, Run
  <2>4. CASE MarkRunning(r)
    <3>1. conn' \in [Workspaces -> Connection]
      BY <2>4, UpdateAllTypes DEF MarkRunning, Status
    <3> QED
      BY <2>4, <3>1 DEF MarkRunning, Run
  <2>5. CASE FindNone(r)
    BY <2>5 DEF FindNone, Become, Run
  <2>6. CASE Find(r)
    <3>1. PICK w \in Workspaces :
            run' = [run EXCEPT ![r].phase = "checkout", ![r].full = @ \/ ~conn[w].built]
      BY <2>6 DEF Find, Connected
    <3>2. (run[r].full \/ ~conn[w].built) \in BOOLEAN
      BY DEF Run, Connection
    <3>3. run' \in [Runs -> Run]
      BY <3>1, <3>2 DEF Run
    <3> QED
      BY <2>6, <3>3 DEF Find
  <2>7. CASE Checkout(r)
    BY <2>7 DEF Checkout, Run
  <2>8. CASE WriteGraph(r)
    BY <2>8 DEF WriteGraph, Become, Run
  <2>9. CASE WriteFacts(r)
    BY <2>9 DEF WriteFacts, Become, Run
  <2>10. CASE Record(r)
    <3>1. conn' \in [Workspaces -> Connection]
      BY <2>10 DEF Record, Connected, Connection
    <3> QED
      BY <2>10, <3>1 DEF Record, Run
  <2>11. CASE TakePending(r)
    <3>1. lock' \in Lock
      BY <2>11 DEF TakePending, Lock
    <3>2. run[r].left - 1 \in 0 .. MaxFollowUps
      BY <2>11, FollowUpsAssumption DEF TakePending, Run
    <3> QED
      BY <2>11, <3>1, <3>2 DEF TakePending, Run, Lock
  <2>12. CASE StopDraining(r)
    BY <2>12 DEF StopDraining, Become, Run
  <2>13. CASE ReleaseStatus(r)
    <3>1. conn' \in [Workspaces -> Connection]
      BY <2>13, UpdateAllTypes DEF ReleaseStatus, Status
    <3> QED
      BY <2>13, <3>1 DEF ReleaseStatus, Become, Run
  <2>14. CASE ReleaseLock(r)
    BY <2>14 DEF ReleaseLock, Finish, Lock
  <2> QED
    BY <1>6, <2>1, <2>2, <2>3, <2>4, <2>5, <2>6, <2>7, <2>8, <2>9, <2>10, <2>11,
       <2>12, <2>13, <2>14 DEF IndexStep
<1>7. ASSUME NEW r \in Runs, Fail(r) PROVE TypeOK'
  BY <1>7 DEF Fail, Become, Run
<1>8. ASSUME NEW r \in Runs, Crash(r) PROVE TypeOK'
  BY <1>8 DEF Crash, Finish
<1>9. ASSUME NEW w \in Workspaces, LeaveStep(w) PROVE TypeOK'
  BY <1>9 DEF LeaveStep, LeaveCheck, LeaveDelete, PurgeGraph, PurgeFacts, Leaving
<1>10. ASSUME NEW w \in Workspaces, PendingGoesStale(w) PROVE TypeOK'
  BY <1>10 DEF PendingGoesStale, Connection
<1>11. CASE LockGoesStale
  BY <1>11 DEF LockGoesStale, Connection, Lock
<1>12. CASE UNCHANGED vars
  BY <1>12 DEF vars
<1> QED
  BY <1>1, <1>2, <1>3, <1>4, <1>5, <1>6, <1>7, <1>8, <1>9, <1>10, <1>11, <1>12 DEF Next

\* So does the initial state.
LEMMA InitTypes == Init => TypeOK
<1> SUFFICES ASSUME Init PROVE TypeOK
  OBVIOUS
<1>1. lock \in Lock
  BY DEF Init, Lock
<1>2. leave \in [Workspaces -> Leaving]
  BY DEF Init, Leaving
<1> QED
  BY <1>1, <1>2, Values DEF Init, TypeOK

\* Whatever tasks run, fail or die, every document and every task keeps its type.
THEOREM TypeCorrect == Spec => []TypeOK
BY InitTypes, TypeStep, PTL DEF Spec

-----------------------------------------------------------------------------
(***************************************************************************)
(* One index at a time, when no live run outlasts the stale lock timeout   *)
(***************************************************************************)

\* A step that takes no lock, hands none over and lets none go stale keeps it.
LEMMA HoldersShrink ==
    ASSUME OneIndexAtATime, Holders' \subseteq Holders, lock'.started = lock.started
    PROVE  OneIndexAtATime'
BY DEF OneIndexAtATime

\* A task that is idle or queued holds nothing.
LEMMA NotHolding ==
    /\ Idle.phase \notin Holding
    /\ \A full \in BOOLEAN : Queued(full).phase \notin Holding
BY Values DEF Idle, Queued, Run, Holding, Indexing

\* No step breaks it: only Claim takes the lock, and only when nobody holds it.
LEMMA OneIndexStep ==
    ASSUME ~SlowRuns, TypeOK, OneIndexAtATime, [Next]_vars
    PROVE  OneIndexAtATime'
<1> USE DEF TypeOK
<1>1. CASE Push
  BY <1>1, HoldersShrink DEF Push, Holders
<1>2. ASSUME NEW r \in Runs, NEW c \in Commit, Deliver(r, c) PROVE OneIndexAtATime'
  BY <1>2, HoldersShrink DEF Deliver, Idle, Holders, Holding, Indexing
<1>3. ASSUME NEW r \in Runs, Handle(r) PROVE OneIndexAtATime'
  BY <1>3, HoldersShrink, NotHolding
     DEF Handle, Dispatch, DispatchFails, Finish, Holders
<1>4. ASSUME NEW r \in Runs, NEW w \in Workspaces, Connect(w, r) \/ Reindex(w, r)
      PROVE  OneIndexAtATime'
  BY <1>4, HoldersShrink, NotHolding DEF Connect, Reindex, Holders
<1>5. ASSUME NEW r \in Runs, IndexStep(r) PROVE OneIndexAtATime'
  <2>1. CASE Claim(r)
    <3>1. Holders = {}
      BY <2>1 DEF Claim, OneIndexAtATime
    <3>2. lock'.started = "fresh"
      BY <2>1 DEF Claim, Lock
    <3>3. Holders' \subseteq {r}
      BY <2>1, <3>1 DEF Claim, Become, Holders
    <3> QED
      BY <3>2, <3>3 DEF OneIndexAtATime
  <2>2. CASE ClaimFails(r)
    BY <2>2, HoldersShrink DEF ClaimFails, Become, Holders, Holding, Indexing, Run
  <2>9. CASE RecordPending(r)
    BY <2>9, HoldersShrink, NotHolding DEF RecordPending, Finish, Holders, Lock
  <2>3. CASE MarkRunning(r) \/ FindNone(r) \/ Checkout(r)
    BY <2>3, HoldersShrink
       DEF MarkRunning, FindNone, Checkout, Become, Holders, Holding, Indexing, Run
  <2>4. CASE Find(r)
    BY <2>4, HoldersShrink DEF Find, Connected, Holders, Holding, Indexing, Run
  <2>5. CASE WriteGraph(r) \/ WriteFacts(r) \/ Record(r)
    BY <2>5, HoldersShrink
       DEF WriteGraph, WriteFacts, Record, Become, Holders, Holding, Indexing, Run
  <2>6. CASE TakePending(r)
    BY <2>6, HoldersShrink DEF TakePending, Holders, Holding, Indexing, Run, Lock
  <2>7. CASE StopDraining(r) \/ ReleaseStatus(r)
    BY <2>7, HoldersShrink
       DEF StopDraining, ReleaseStatus, Become, Holders, Holding, Indexing, Run
  <2>8. CASE ReleaseLock(r)
    <3>1. r \in Holders
      BY <2>8 DEF ReleaseLock, Holders, Holding
    <3>2. Holders' = {}
      BY <2>8, <3>1
         DEF ReleaseLock, Finish, Idle, Holders, Holding, Indexing, OneIndexAtATime
    <3> QED
      BY <3>2 DEF OneIndexAtATime
  <2> QED
    BY <1>5, <2>1, <2>2, <2>3, <2>4, <2>5, <2>6, <2>7, <2>8, <2>9 DEF IndexStep
<1>6. ASSUME NEW r \in Runs, Fail(r) \/ Crash(r) PROVE OneIndexAtATime'
  BY <1>6, HoldersShrink DEF Fail, Crash, Become, Finish, Idle, Holders, Holding, Indexing, Run
<1>7. ASSUME NEW w \in Workspaces, LeaveStep(w) \/ PendingGoesStale(w)
      PROVE  OneIndexAtATime'
  BY <1>7, HoldersShrink
     DEF LeaveStep, LeaveCheck, LeaveDelete, PurgeGraph, PurgeFacts, PendingGoesStale, Holders
<1>8. CASE LockGoesStale
  <2>1. Holders' = {}
    BY <1>8, ~SlowRuns DEF LockGoesStale, Holders
  <2> QED
    BY <2>1 DEF OneIndexAtATime
<1>9. CASE UNCHANGED vars
  BY <1>9, HoldersShrink DEF vars, Holders
<1> QED
  BY <1>1, <1>2, <1>3, <1>4, <1>5, <1>6, <1>7, <1>8, <1>9 DEF Next

\* jobs.py: "one index per repo at a time", however many tasks and workspaces,
\* and whatever crashes, as long as no live run is slower than the lock's timeout.
THEOREM OneIndex == ASSUME ~SlowRuns PROVE Spec => []OneIndexAtATime
<1>1. Init => TypeOK /\ OneIndexAtATime
  BY InitTypes DEF Init, OneIndexAtATime, Holders, Idle, Holding, Indexing
<1>2. TypeOK /\ OneIndexAtATime /\ [Next]_vars => (TypeOK /\ OneIndexAtATime)'
  BY TypeStep, OneIndexStep
<1> QED
  BY <1>1, <1>2, PTL DEF Spec

-----------------------------------------------------------------------------
(***************************************************************************)
(* Every push ends up in the graph                                         *)
(***************************************************************************)

\* Commits are not from the future, and what a run is about to write is at least
\* as new as the graph.
InOrder ==
    /\ graph <= head
    /\ lost <= head
    /\ \A c \in seen : c <= head
    /\ \A r \in Runs : run[r].phase = "graph" => graph <= run[r].commit /\ run[r].commit <= head

\* PushesNotForgotten with the witness pinned down: before its index is queued, a
\* delivery's own handler answers for it, and no other delivery's.
Answers(r, c) ==
    \/ run[r].phase = "dispatch" /\ run[r].commit = c
    \/ run[r].phase \in {"queued", "defer", "mark", "find", "checkout"}
    \/ run[r].phase = "graph" /\ run[r].commit >= c

Covered(c) == c <= lost \/ graph >= c \/ lock.requested \/ \E r \in Runs : Answers(r, c)

PushInv == InOrder /\ \A c \in seen : Covered(c)

LEMMA PushInvSuffices == PushInv => PushesNotForgotten
BY DEF PushInv, Covered, Answers, PushesNotForgotten, WillIndex

\* A step covers every delivery that was covered when every task still answers
\* for what it did, and neither the graph nor the lock forgets.
LEMMA StillCovered ==
    ASSUME TypeOK, TypeOK', PushInv, seen' \subseteq seen, lost <= lost', graph <= graph',
           lock.requested => lock'.requested,
           \A s \in Runs : \A c \in seen' : Answers(s, c) => Answers(s, c)'
    PROVE  \A c \in seen' : Covered(c)'
<1> SUFFICES ASSUME NEW c \in seen' PROVE Covered(c)'
  OBVIOUS
<1>1. /\ c \in Nat /\ lost \in Nat /\ lost' \in Nat
      /\ graph \in Nat /\ graph' \in Nat
  BY DEF TypeOK, Commit, Version
<1>2. Covered(c)
  BY DEF PushInv
<1> QED
  BY <1>1, <1>2 DEF Covered

\* A step that excuses every delivery covers them.
LEMMA Excused ==
    ASSUME PushInv, seen' \subseteq seen, lost' = head
    PROVE  \A c \in seen' : Covered(c)'
BY DEF PushInv, InOrder, Covered

\* A step after which some task is going to read the branch's head covers them.
LEMMA AnsweredByOne ==
    ASSUME NEW r \in Runs, run'[r].phase \in {"queued", "defer", "mark", "find", "checkout"}
    PROVE  \A c \in seen' : Covered(c)'
BY DEF Covered, Answers

\* No step forgets a push: a task that stops answering for deliveries has put
\* them in the graph, on the lock, or among the excused.
LEMMA PushStep ==
    ASSUME TypeOK, TypeOK', OneIndexAtATime, PushInv, [Next]_vars
    PROVE  PushInv'
<1> SUFFICES InOrder' /\ \A c \in seen' : Covered(c)'
  BY DEF PushInv
<1> head \in Nat /\ graph \in Nat /\ lost \in Nat
  BY DEF TypeOK, Commit, Version
<1> InOrder
  BY DEF PushInv
<1> seen \subseteq Nat /\ \A r \in Runs : run[r].commit \in Nat
  BY DEF TypeOK, Commit, Version, Run
<1> run \in [Runs -> Run] /\ lock \in Lock
  BY DEF TypeOK
<1>1. CASE Push
  <2>1. InOrder'
    BY <1>1 DEF Push, InOrder
  <2> QED
    BY <1>1, <2>1, StillCovered DEF Push, Answers
<1>2. ASSUME NEW r \in Runs, NEW c \in Commit, Deliver(r, c)
      PROVE  InOrder' /\ \A d \in seen' : Covered(d)'
  <2>1. run' = [run EXCEPT ![r] = [Idle EXCEPT !.phase = "dispatch", !.commit = c]]
    BY <1>2 DEF Deliver
  <2>2. run'[r].phase = "dispatch" /\ run'[r].commit = c
    BY <2>1, Values DEF Run
  <2>3. InOrder'
    BY <1>2, <2>1, <2>2 DEF Deliver, InOrder
  <2>4. Covered(c)'
    BY <2>2 DEF Covered, Answers
  <2>5. ASSUME NEW d \in seen PROVE Covered(d)'
    <3>1. Covered(d)
      BY DEF PushInv
    <3>2. \A s \in Runs : Answers(s, d) => Answers(s, d)'
      BY <1>2, <2>1 DEF Deliver, Answers
    <3> QED
      BY <1>2, <3>1, <3>2 DEF Deliver, Covered
  <2> QED
    BY <1>2, <2>3, <2>4, <2>5 DEF Deliver
<1>3. ASSUME NEW r \in Runs, Dispatch(r) PROVE InOrder' /\ \A c \in seen' : Covered(c)'
  <2>1. CASE Connected # {}
    <3>1. run'[r].phase = "queued"
      BY <1>3, <2>1, Values DEF Dispatch, Queued, Run
    <3>2. InOrder'
      BY <1>3, <2>1, <3>1 DEF Dispatch, InOrder
    <3> QED
      BY <3>1, <3>2, AnsweredByOne
  <2>2. CASE Connected = {}
    <3>1. InOrder'
      BY <1>3, <2>2 DEF Dispatch, Finish, Idle, InOrder
    <3> QED
      BY <1>3, <2>2, <3>1, Excused DEF Dispatch
  <2> QED
    BY <2>1, <2>2
<1>4. ASSUME NEW r \in Runs, DispatchFails(r) PROVE InOrder' /\ \A c \in seen' : Covered(c)'
  <2>1. InOrder'
    BY <1>4 DEF DispatchFails, Finish, Idle, InOrder
  <2>2. \A s \in Runs : \A c \in seen' : Answers(s, c) => Answers(s, c)'
    BY <1>4 DEF DispatchFails, Finish, Answers
  <2> QED
    BY <1>4, <2>1, <2>2, StillCovered DEF DispatchFails
<1>5. ASSUME NEW r \in Runs, NEW w \in Workspaces, Connect(w, r) \/ Reindex(w, r)
      PROVE  InOrder' /\ \A c \in seen' : Covered(c)'
  <2>1. run'[r].phase = "queued" /\ \A s \in Runs : s # r => run'[s] = run[s]
    BY <1>5, Values DEF Connect, Reindex, Queued, Run
  <2>2. InOrder'
    BY <1>5, <2>1 DEF Connect, Reindex, InOrder
  <2> QED
    BY <2>1, <2>2, AnsweredByOne
<1>6. ASSUME NEW r \in Runs, IndexStep(r) PROVE InOrder' /\ \A c \in seen' : Covered(c)'
  <2>1. CASE Claim(r) \/ ClaimFails(r) \/ MarkRunning(r)
    <3>1. run'[r].phase \in {"mark", "defer", "find"}
      BY <2>1 DEF Claim, ClaimFails, MarkRunning, Become, Run
    <3>2. InOrder'
      BY <2>1, <3>1 DEF Claim, ClaimFails, MarkRunning, Become, InOrder, Run
    <3> QED
      BY <3>1, <3>2, AnsweredByOne
  <2>2. CASE RecordPending(r)
    <3>1. InOrder'
      BY <2>2 DEF RecordPending, Finish, Idle, InOrder
    <3>2. lock'.requested
      BY <2>2 DEF RecordPending, Lock
    <3> QED
      BY <3>1, <3>2 DEF Covered
  <2>3. CASE FindNone(r)
    <3>1. InOrder'
      BY <2>3 DEF FindNone, Become, InOrder, Run
    <3> QED
      BY <2>3, <3>1, Excused DEF FindNone
  <2>4. CASE Find(r)
    <3>1. run'[r].phase = "checkout" /\ \A s \in Runs : s # r => run'[s] = run[s]
      BY <2>4 DEF Find, Run
    <3>2. InOrder'
      BY <2>4, <3>1 DEF Find, InOrder
    <3> QED
      BY <3>1, <3>2, AnsweredByOne
  <2>5. CASE Checkout(r)
    <3>1. InOrder'
      BY <2>5 DEF Checkout, InOrder, Run
    <3>2. \A c \in seen : Answers(r, c)'
      BY <2>5 DEF Checkout, Answers, InOrder, Run
    <3>3. seen' = seen
      BY <2>5 DEF Checkout
    <3> QED
      BY <3>1, <3>2, <3>3 DEF Covered
  <2>6. CASE WriteGraph(r)
    <3>1. graph' = run[r].commit /\ graph <= graph' /\ graph' <= head
      BY <2>6 DEF WriteGraph, InOrder
    <3>2. \A s \in Runs : run[s].phase = "graph" => s = r
      BY <2>6 DEF WriteGraph, OneIndexAtATime, Holders, Holding, Indexing
    <3>3. /\ run'[r].phase = "facts"
          /\ \A s \in Runs : s # r => run'[s] = run[s]
      BY <2>6 DEF WriteGraph, Become, Run
    <3>4. InOrder'
      BY <2>6, <3>1, <3>2, <3>3 DEF WriteGraph, InOrder
    <3>5. ASSUME NEW c \in seen PROVE Covered(c)'
      <4>1. Covered(c)
        BY DEF PushInv
      <4>2. \A s \in Runs : Answers(s, c) => Answers(s, c)' \/ graph' >= c
        BY <2>6, <3>1, <3>3 DEF WriteGraph, Answers
      <4>3. graph >= c => graph' >= c
        BY <3>1
      <4> QED
        BY <2>6, <4>1, <4>2, <4>3 DEF WriteGraph, Covered
    <3> QED
      BY <2>6, <3>4, <3>5 DEF WriteGraph
  <2>7. CASE WriteFacts(r) \/ StopDraining(r)
    <3>1. InOrder'
      BY <2>7 DEF WriteFacts, StopDraining, Become, InOrder, Run
    <3>2. \A s \in Runs : \A c \in seen' : Answers(s, c) => Answers(s, c)'
      BY <2>7 DEF WriteFacts, StopDraining, Become, Answers, Run
    <3> QED
      BY <2>7, <3>1, <3>2, StillCovered DEF WriteFacts, StopDraining
  <2>8. CASE Record(r)
    <3>1. /\ run'[r].phase = "drain" /\ run[r].phase = "record"
          /\ \A s \in Runs : s # r => run'[s] = run[s]
      BY <2>8 DEF Record, Run
    <3>2. InOrder'
      BY <2>8, <3>1 DEF Record, InOrder
    <3>3. \A s \in Runs : \A c \in seen' : Answers(s, c) => Answers(s, c)'
      BY <3>1 DEF Answers
    <3>4. UNCHANGED <<seen, lock, graph, lost>>
      BY <2>8 DEF Record
    <3> QED
      BY <3>2, <3>3, <3>4, StillCovered
  <2>9. CASE TakePending(r)
    <3>1. run'[r].phase = "find" /\ \A s \in Runs : s # r => run'[s] = run[s]
      BY <2>9 DEF TakePending, Run
    <3>2. InOrder'
      BY <2>9, <3>1 DEF TakePending, InOrder
    <3> QED
      BY <3>1, <3>2, AnsweredByOne
  <2>10. CASE ReleaseStatus(r)
    <3>1. /\ run'[r].phase \in {"unlock", "unlock_failed"}
          /\ run[r].phase \in {"done", "failed"}
          /\ \A s \in Runs : s # r => run'[s] = run[s]
      BY <2>10 DEF ReleaseStatus, Become, Run
    <3>2. InOrder'
      BY <2>10, <3>1 DEF ReleaseStatus, InOrder
    <3>3. \A s \in Runs : \A c \in seen' : Answers(s, c) => Answers(s, c)'
      BY <3>1 DEF Answers
    <3> QED
      BY <2>10, <3>2, <3>3, StillCovered DEF ReleaseStatus
  <2>11. CASE ReleaseLock(r)
    <3>1. InOrder'
      BY <2>11 DEF ReleaseLock, Finish, Idle, InOrder
    <3>2. \A s \in Runs : \A c \in seen' : Answers(s, c) => Answers(s, c)'
      BY <2>11 DEF ReleaseLock, Finish, Answers
    <3>3. lock'.requested = lock.requested
      BY <2>11 DEF ReleaseLock, Lock
    <3> QED
      BY <2>11, <3>1, <3>2, <3>3, StillCovered DEF ReleaseLock
  <2> QED
    BY <1>6, <2>1, <2>2, <2>3, <2>4, <2>5, <2>6, <2>7, <2>8, <2>9, <2>10, <2>11
       DEF IndexStep
<1>7. ASSUME NEW r \in Runs, Fail(r) \/ Crash(r)
      PROVE  InOrder' /\ \A c \in seen' : Covered(c)'
  <2>1. InOrder'
    BY <1>7 DEF Fail, Crash, Become, Finish, Idle, InOrder, Run
  <2> QED
    BY <1>7, <2>1, Excused DEF Fail, Crash
<1>8. ASSUME NEW w \in Workspaces, LeaveStep(w)
      PROVE  InOrder' /\ \A c \in seen' : Covered(c)'
  <2>1. CASE PurgeGraph(w)
    <3>1. graph' = 0 /\ lost' = head /\ UNCHANGED <<head, seen, run>>
      BY <2>1 DEF PurgeGraph
    <3>2. graph' <= head' /\ \A s \in Runs : run[s].phase = "graph" => graph' <= run[s].commit
      BY <3>1
    <3>3. InOrder'
      BY <3>1, <3>2 DEF InOrder
    <3> QED
      BY <2>1, <3>3, Excused DEF PurgeGraph
  <2>2. CASE LeaveCheck(w) \/ LeaveDelete(w) \/ PurgeFacts(w)
    <3>1. UNCHANGED <<head, seen, lock, run, graph, lost>>
      BY <2>2 DEF LeaveCheck, LeaveDelete, PurgeFacts
    <3> QED
      BY <3>1, StillCovered DEF Answers, InOrder
  <2> QED
    BY <1>8, <2>1, <2>2 DEF LeaveStep
<1>9. CASE (\E w \in Workspaces : PendingGoesStale(w)) \/ UNCHANGED vars
  <2>1. UNCHANGED <<head, seen, lock, run, graph, lost>>
    BY <1>9 DEF PendingGoesStale, vars
  <2> QED
    BY <2>1, StillCovered DEF Answers, InOrder
<1>10. CASE LockGoesStale
  <2>1. UNCHANGED <<head, seen, run, graph, lost>> /\ lock'.requested = lock.requested
    BY <1>10 DEF LockGoesStale, Lock
  <2> QED
    BY <2>1, StillCovered DEF Answers, InOrder
<1> QED
  BY <1>1, <1>2, <1>3, <1>4, <1>5, <1>6, <1>7, <1>8, <1>9, <1>10 DEF Next, Handle

\* Neo4j only ever moves forward, or is purged: the one run that may write it has
\* read a head at least as new as what is there.
LEMMA GraphStep ==
    ASSUME TypeOK, OneIndexAtATime, PushInv, [Next]_vars
    PROVE  graph' >= graph \/ graph' = 0
<1> graph \in Nat
  BY DEF TypeOK, Version
<1>1. ASSUME NEW r \in Runs, WriteGraph(r) PROVE graph' >= graph
  <2>1. run[r].commit \in Nat
    BY DEF TypeOK, Run, Version
  <2> QED
    BY <1>1, <2>1 DEF WriteGraph, PushInv, InOrder
<1>2. ASSUME NEW w \in Workspaces, PurgeGraph(w) PROVE graph' = 0
  BY <1>2 DEF PurgeGraph
<1>3. CASE UNCHANGED graph
  BY <1>3
<1>4. \/ UNCHANGED graph
      \/ \E r \in Runs : WriteGraph(r)
      \/ \E w \in Workspaces : PurgeGraph(w)
  BY DEF Next, vars, Push, Deliver, Handle, Dispatch, DispatchFails, Connect, Reindex,
         IndexStep, Claim, ClaimFails, RecordPending, MarkRunning, FindNone, Find, Checkout,
         WriteFacts, Record, TakePending, StopDraining, ReleaseStatus, ReleaseLock, Fail,
         Crash, LeaveStep, LeaveCheck, LeaveDelete, PurgeFacts, PendingGoesStale, LockGoesStale
<1> QED
  BY <1>1, <1>2, <1>3, <1>4

\* What holds all along when no live run outlasts the lock's timeout.
Inv == TypeOK /\ OneIndexAtATime /\ PushInv

LEMMA InvHolds == ASSUME ~SlowRuns PROVE Spec => []Inv
<1>1. Init => Inv
  <2>1. Init => PushInv
    BY DEF Init, PushInv, InOrder, Idle
  <2> QED
    BY <2>1, InitTypes
       DEF Inv, Init, OneIndexAtATime, Holders, Idle, Holding, Indexing
<1>2. Inv /\ [Next]_vars => Inv'
  BY TypeStep, OneIndexStep, PushStep DEF Inv
<1> QED
  BY <1>1, <1>2, PTL DEF Spec

\* A push delivered while the repository is being indexed, deferred, drained or
\* released is not lost, except to a task that failed or died: jobs.py's deferral
\* for any number of tasks and pushes.
THEOREM PushesSurvive == ASSUME ~SlowRuns PROVE Spec => []PushesNotForgotten
<1>1. Inv => PushesNotForgotten
  BY PushInvSuffices DEF Inv
<1> QED
  BY <1>1, InvHolds, PTL

\* No run replaces the graph by the graph of an older commit.
THEOREM GraphMonotone == ASSUME ~SlowRuns PROVE Spec => GraphNeverGoesBack
<1>1. Inv /\ [Next]_vars => [graph' >= graph \/ graph' = 0]_graph
  BY GraphStep DEF Inv
<1> QED
  BY <1>1, InvHolds, PTL DEF Spec, GraphNeverGoesBack

-----------------------------------------------------------------------------
(***************************************************************************)
(* What the connections show, and what becomes of full rebuilds            *)
(***************************************************************************)

\* The second half of a release: the status is written, the lock still taken.
Releasing(r) == run[r].phase \in {"unlock", "unlock_failed"}

\* StatusFollowsLock, and why a release may free the lock: by then no connection
\* shows in_progress any more.
StatusInv ==
    /\ \A w \in Workspaces : conn[w].status = "in_progress" =>
         lock.started # "none" /\ \A r \in Runs : ~Releasing(r)
    /\ \A r \in Runs : run[r].phase \in Indexing =>
         \A w \in Workspaces : conn[w].status \in {"none", "pending", "in_progress"}

LEMMA StatusInvSuffices == StatusInv => StatusFollowsLock
BY DEF StatusInv, StatusFollowsLock, Connected

\* A step keeps it that starts neither an index nor a release, frees no lock, and
\* leaves every connection as it was, or pending, or gone.
LEMMA StatusKept ==
    ASSUME StatusInv,
           lock'.started = "none" => lock.started = "none",
           \A s \in Runs : /\ Releasing(s)' => Releasing(s)
                           /\ run'[s].phase \in Indexing => run[s].phase \in Indexing,
           \A w \in Workspaces : \/ conn'[w].status = conn[w].status
                                 \/ conn'[w].status \in {"none", "pending"}
    PROVE  StatusInv'
BY DEF StatusInv

\* What update_all shows on every connection.
LEMMA Shown ==
    ASSUME TypeOK, NEW status \in Status, UpdateAll(status), NEW w \in Workspaces
    PROVE  conn'[w].status \in {"none", status}
BY DEF TypeOK, UpdateAll, Connected, Connection

\* A task that is idle or queued neither indexes nor releases.
LEMMA WaitingShowsNothing ==
    \A q \in {Idle, Queued(TRUE), Queued(FALSE)} :
        q.phase \notin Indexing \cup {"unlock", "unlock_failed"}
<1>1. Idle.phase = "idle" /\ Queued(TRUE).phase = "queued" /\ Queued(FALSE).phase = "queued"
  BY DEF Idle, Queued
<1> QED
  BY <1>1 DEF Indexing

LEMMA StatusStep ==
    ASSUME TypeOK, OneIndexAtATime, StatusInv, [Next]_vars PROVE StatusInv'
<1> USE DEF TypeOK
<1>1. CASE Push \/ LockGoesStale
  BY <1>1, StatusKept DEF Push, LockGoesStale, Releasing, Lock, Connection
<1>2. ASSUME NEW r \in Runs, NEW c \in Commit, Deliver(r, c) PROVE StatusInv'
  BY <1>2, StatusKept DEF Deliver, Releasing, Idle, Indexing
<1>3. ASSUME NEW r \in Runs, Handle(r) \/ Crash(r) \/ Fail(r) PROVE StatusInv'
  <2>1. CASE Dispatch(r)
    BY <2>1, WaitingShowsNothing, StatusKept DEF Dispatch, Finish, Releasing
  <2>2. CASE DispatchFails(r) \/ Crash(r)
    BY <2>2, WaitingShowsNothing, StatusKept DEF DispatchFails, Crash, Finish, Releasing
  <2>3. CASE Fail(r)
    <3>1. /\ run'[r].phase = "failed" /\ \A s \in Runs \ {r} : run'[s] = run[s]
          /\ UNCHANGED <<conn, lock>>
      BY <2>3 DEF Fail, Become, Run
    <3> QED
      BY <3>1, StatusKept DEF Releasing, Indexing
  <2> QED
    BY <1>3, <2>1, <2>2, <2>3 DEF Handle
<1>4. ASSUME NEW r \in Runs, NEW w \in Workspaces, Connect(w, r) \/ Reindex(w, r)
      PROVE  StatusInv'
  <2>1. /\ UNCHANGED lock /\ run' = [run EXCEPT ![r] = Queued(TRUE)]
        /\ conn'[w].status = "pending" /\ \A v \in Workspaces \ {w} : conn'[v] = conn[v]
    BY <1>4 DEF Connect, Reindex, NoConnection, Connection
  <2> QED
    BY <2>1, WaitingShowsNothing, StatusKept DEF Releasing
<1>5. ASSUME NEW w \in Workspaces, LeaveStep(w) \/ PendingGoesStale(w) PROVE StatusInv'
  BY <1>5, StatusKept DEF LeaveStep, LeaveCheck, LeaveDelete, PurgeGraph, PurgeFacts,
     PendingGoesStale, Releasing, NoConnection, Connection
<1>6. ASSUME NEW r \in Runs, IndexStep(r) PROVE StatusInv'
  <2>1. CASE Claim(r) \/ ClaimFails(r) \/ RecordPending(r)
    <3>1. /\ \A s \in Runs \ {r} : run'[s] = run[s]
          /\ UNCHANGED conn
      BY <2>1 DEF Claim, ClaimFails, RecordPending, Become, Finish
    <3>2. lock'.started = "none" => lock.started = "none"
      BY <2>1 DEF Claim, ClaimFails, RecordPending, Lock
    <3>3. run'[r].phase \in {"mark", "defer", "idle"}
      BY <2>1 DEF Claim, ClaimFails, RecordPending, Become, Finish, Idle, Run
    <3> QED
      BY <3>1, <3>2, <3>3, StatusKept DEF Releasing, Indexing
  <2>2. CASE MarkRunning(r)
    <3>1. lock.started = "fresh" /\ \A s \in Runs : run[s].phase \in Holding => s = r
      BY <2>2 DEF MarkRunning, OneIndexAtATime, Holders, Holding
    <3>2. run'[r].phase = "find" /\ \A s \in Runs \ {r} : run'[s] = run[s]
      BY <2>2 DEF MarkRunning, Run
    <3>3. \A s \in Runs : ~Releasing(s)'
      BY <3>1, <3>2 DEF Releasing, Holding
    <3>4. \A w \in Workspaces : conn'[w].status \in {"none", "in_progress"}
      BY <2>2, Shown DEF MarkRunning, Status
    <3> QED
      BY <2>2, <3>1, <3>3, <3>4 DEF MarkRunning, StatusInv
  <2>3. CASE \/ FindNone(r) \/ Checkout(r) \/ WriteGraph(r) \/ WriteFacts(r)
             \/ TakePending(r) \/ StopDraining(r)
    BY <2>3, StatusKept DEF FindNone, Checkout, WriteGraph, WriteFacts, TakePending,
       StopDraining, Become, Releasing, Indexing, Lock, Run
  <2>4. CASE Find(r)
    BY <2>4, StatusKept DEF Find, Releasing, Indexing, Run
  <2>5. CASE Record(r)
    <3>1. \A w \in Workspaces : conn'[w].status = conn[w].status
      BY <2>5 DEF Record, Connection
    <3> QED
      BY <2>5, <3>1, StatusKept DEF Record, Releasing, Indexing, Run
  <2>6. CASE ReleaseStatus(r)
    <3>1. run[r].phase \in {"done", "failed"}
          /\ \A s \in Runs : run[s].phase \in Holding => s = r
      BY <2>6 DEF ReleaseStatus, OneIndexAtATime, Holders, Holding
    <3>2. run'[r].phase \notin Indexing /\ \A s \in Runs \ {r} : run'[s] = run[s]
      BY <2>6 DEF ReleaseStatus, Become, Indexing, Run
    <3>3. \A w \in Workspaces : conn'[w].status \in {"none", "done", "failed"}
      BY <2>6, <3>1, Shown DEF ReleaseStatus, Status
    <3> QED
      BY <2>6, <3>1, <3>2, <3>3 DEF StatusInv, Holding
  <2>7. CASE ReleaseLock(r)
    <3>1. Releasing(r) /\ conn' = conn
      BY <2>7 DEF ReleaseLock, Releasing
    <3>2. \A w \in Workspaces : conn[w].status # "in_progress"
      BY <3>1 DEF StatusInv
    <3>3. \A s \in Runs : run'[s].phase \in Indexing => run[s].phase \in Indexing
      BY <2>7 DEF ReleaseLock, Finish, Idle, Indexing
    <3> QED
      BY <3>1, <3>2, <3>3 DEF StatusInv
  <2> QED
    BY <1>6, <2>1, <2>2, <2>3, <2>4, <2>5, <2>6, <2>7 DEF IndexStep
<1>7. CASE UNCHANGED vars
  BY <1>7, StatusKept DEF vars, Releasing
<1> QED
  BY <1>1, <1>2, <1>3, <1>4, <1>5, <1>6, <1>7 DEF Next

\* The dashboard's status and the lock agree: in_progress only under a taken lock,
\* and nothing finished is shown while a task indexes.
THEOREM StatusAgrees == ASSUME ~SlowRuns PROVE Spec => []StatusFollowsLock
<1>1. Init => StatusInv
  BY DEF Init, StatusInv, NoConnection, Idle, Indexing
<1>2. Inv /\ StatusInv /\ [Next]_vars => StatusInv'
  BY StatusStep DEF Inv
<1> QED
  BY <1>1, <1>2, InvHolds, StatusInvSuffices, PTL DEF Spec

\* A recorded full rebuild is cleared only by the task that will do it, even when
\* runs outlast the lock.
THEOREM FullNotDowngraded == Spec => FullIsServed
<1>1. TypeOK /\ [Next]_vars
        => [lock.full /\ ~lock'.full =>
              \E r \in Runs : run'[r].phase = "find" /\ run'[r].full]_<<lock, run>>
  <2> SUFFICES ASSUME TypeOK, [Next]_vars, lock.full, ~lock'.full
               PROVE  \E r \in Runs : run'[r].phase = "find" /\ run'[r].full
    OBVIOUS
  <2>1. ASSUME NEW r \in Runs, TakePending(r)
        PROVE  run'[r].phase = "find" /\ run'[r].full
    BY <2>1 DEF TakePending, TypeOK, Run
  <2>2. ASSUME NEW r \in Runs, Claim(r) \/ RecordPending(r) \/ ReleaseLock(r)
        PROVE  lock'.full
    BY <2>2 DEF Claim, RecordPending, ReleaseLock, TypeOK, Lock
  <2>3. CASE LockGoesStale
    BY <2>3 DEF LockGoesStale, TypeOK, Lock
  <2>4. \/ UNCHANGED lock
        \/ LockGoesStale
        \/ \E r \in Runs : \/ TakePending(r)
                           \/ Claim(r) \/ RecordPending(r) \/ ReleaseLock(r)
    BY DEF Next, vars, Push, Deliver, Handle, Dispatch, DispatchFails, Connect, Reindex,
           IndexStep, ClaimFails, MarkRunning, FindNone, Find, Checkout, WriteGraph,
           WriteFacts, Record, StopDraining, ReleaseStatus, Fail, Crash, LeaveStep,
           LeaveCheck, LeaveDelete, PurgeGraph, PurgeFacts, PendingGoesStale
  <2> QED
    BY <2>1, <2>2, <2>3, <2>4
<1> QED
  BY <1>1, TypeCorrect, PTL DEF Spec, FullIsServed

-----------------------------------------------------------------------------
(***************************************************************************)
(* The discussions of MCIndexJobs, of which DiscussionProofs proves what   *)
(* they keep: `Filed`, `Talked` are the two with their proofs.       *)
(***************************************************************************)
Filed == INSTANCE DiscussionProofs WITH Users <- {"u"}, Admins <- {}, Ids <- {"m", "n"}, Clients <- {"c"},
  Files <- {"f"}, Bodies <- {1}, Emojis <- {}, MaxReactions <- 1, Tasks <- Runs, MaxVersion <- 1, MaxCrashes <- 0
Talked == INSTANCE DiscussionProofs WITH Users <- Workspaces, Admins <- {}, Ids <- {"m"}, Clients <- {"c"},
  Files <- {}, Bodies <- {1, 2}, Emojis <- {"e1", "e2"}, MaxReactions <- 1, Tasks <- Runs, MaxVersion <- 3,
  MaxCrashes <- 0

\* What they count is what FiniteSets counts.
LEMMA Counts ==
    ASSUME NEW S
    PROVE  /\ Shared!Cardinality(S) = Cardinality(S) /\ Filed!Cardinality(S) = Cardinality(S)
           /\ Reacting!Cardinality(S) = Cardinality(S) /\ Talked!Cardinality(S) = Cardinality(S)
<1>1. Shared!Cardinality(S) = Cardinality(S)
  BY DEF Shared!Cardinality, Cardinality
<1>2. Filed!Cardinality(S) = Cardinality(S)
  BY DEF Filed!Cardinality, Cardinality
<1>3. Reacting!Cardinality(S) = Cardinality(S)
  BY DEF Reacting!Cardinality, Cardinality
<1>4. Talked!Cardinality(S) = Cardinality(S)
  BY DEF Talked!Cardinality, Cardinality
<1> QED
  BY <1>1, <1>2, <1>3, <1>4

\* An action is the same in both.
LEMMA FilesActions ==
    ASSUME NEW r \in Runs
    PROVE  /\ Shared!InsertUpload(r) => Filed!InsertUpload(r)
           /\ Shared!MakeReady(r) => Filed!MakeReady(r)
           /\ Shared!DropFile(r) => Filed!DropFile(r)
           /\ Shared!ForgetFile(r) => Filed!ForgetFile(r)
           /\ Shared!Claim(r) => Filed!Claim(r)
           /\ Shared!ReadClaimed(r) => Filed!ReadClaimed(r)
           /\ Shared!Insert(r) => Filed!Insert(r)
           /\ Shared!Release(r) => Filed!Release(r)
           /\ Shared!Publish(r) => Filed!Publish(r)
           /\ Shared!DeleteOne(r) => Filed!DeleteOne(r)
           /\ Shared!ListFiles(r) => Filed!ListFiles(r)
           /\ Shared!DeleteMessages(r) => Filed!DeleteMessages(r)
           /\ Shared!Sweep(r) => Filed!Sweep(r)
           /\ Shared!DeleteDecision(r) => Filed!DeleteDecision(r)
           /\ Shared!StartUpload(r, "u", "f") => Filed!StartUpload(r, "u", "f")
           /\ Shared!Complete(r, "f") => Filed!Complete(r, "f")
           /\ \A F \in SUBSET {"f"}, id \in {"m", "n"} : Shared!Send(r, "u", "c", F, id) =>
             Filed!Send(r, "u", "c", F, id)
           /\ \A id \in {"m", "n"} : Shared!Delete(r, "u", id) => Filed!Delete(r, "u", id)
           /\ Shared!A_Day("f") => Filed!A_Day("f")
           /\ \A kind \in {"right", "wrong"} : Shared!Arrive("f", kind) => Filed!Arrive("f", kind)
<1>1. Shared!InsertUpload(r) => Filed!InsertUpload(r)
  BY DEF Shared!InsertUpload, Filed!InsertUpload, Shared!Over, Filed!Over, Shared!Idle, Filed!Idle
<1>2. Shared!MakeReady(r) => Filed!MakeReady(r)
  BY DEF Shared!MakeReady, Filed!MakeReady, Shared!Over, Filed!Over, Shared!Idle, Filed!Idle
<1>3. Shared!DropFile(r) => Filed!DropFile(r)
  BY DEF Shared!DropFile, Filed!DropFile, Shared!After, Filed!After, Shared!Idle, Filed!Idle
<1>4. Shared!ForgetFile(r) => Filed!ForgetFile(r)
  BY DEF Shared!ForgetFile, Filed!ForgetFile, Shared!After, Filed!After, Shared!Idle, Filed!Idle
<1>5. Shared!Claim(r) => Filed!Claim(r)
  BY DEF Shared!Claim, Filed!Claim, Shared!Claimable, Filed!Claimable, Shared!Goto, Filed!Goto
<1>6. Shared!ReadClaimed(r) => Filed!ReadClaimed(r)
  BY DEF Shared!ReadClaimed, Filed!ReadClaimed
<1>7. Shared!Insert(r) => Filed!Insert(r)
  BY DEF Shared!Insert, Filed!Insert, Shared!Sent, Filed!Sent, Shared!Messages, Filed!Messages,
         Shared!There, Filed!There, Shared!Gone, Filed!Gone, Shared!Goto, Filed!Goto
<1>8. Shared!Release(r) => Filed!Release(r)
  BY DEF Shared!Release, Filed!Release, Shared!Over, Filed!Over, Shared!Idle, Filed!Idle
<1>9. Shared!Publish(r) => Filed!Publish(r)
  BY DEF Shared!Publish, Filed!Publish, Shared!Newest, Filed!Newest, Shared!Gone, Filed!Gone,
         Shared!Over, Filed!Over, Shared!Idle, Filed!Idle
<1>10. Shared!DeleteOne(r) => Filed!DeleteOne(r)
  BY DEF Shared!DeleteOne, Filed!DeleteOne, Shared!Gone, Filed!Gone, Shared!Goto, Filed!Goto
<1>11. Shared!ListFiles(r) => Filed!ListFiles(r)
  BY DEF Shared!ListFiles, Filed!ListFiles, Shared!Remove, Filed!Remove
<1>12. Shared!DeleteMessages(r) => Filed!DeleteMessages(r)
  BY DEF Shared!DeleteMessages, Filed!DeleteMessages, Shared!There, Filed!There, Shared!Gone,
         Filed!Gone, Shared!Goto, Filed!Goto
<1>13. Shared!Sweep(r) => Filed!Sweep(r)
  BY DEF Shared!Sweep, Filed!Sweep, Shared!Remove, Filed!Remove, Shared!Idle, Filed!Idle
<1>14. Shared!DeleteDecision(r) => Filed!DeleteDecision(r)
  BY DEF Shared!DeleteDecision, Filed!DeleteDecision, Shared!Idle, Filed!Idle
<1>15. Shared!StartUpload(r, "u", "f") => Filed!StartUpload(r, "u", "f")
  BY DEF Shared!StartUpload, Filed!StartUpload, Shared!Idle, Filed!Idle, Shared!Messages,
         Filed!Messages, Shared!There, Filed!There, Shared!Gone, Filed!Gone
<1>16. Shared!Complete(r, "f") => Filed!Complete(r, "f")
  BY DEF Shared!Complete, Filed!Complete, Shared!Idle, Filed!Idle
<1>17. \A F \in SUBSET {"f"}, id \in {"m", "n"} : Shared!Send(r, "u", "c", F, id) =>
             Filed!Send(r, "u", "c", F, id)
  BY DEF Shared!Send, Filed!Send, Shared!Idle, Filed!Idle, Shared!Sent, Filed!Sent, Shared!Messages,
         Filed!Messages, Shared!There, Filed!There, Shared!Gone, Filed!Gone, Shared!Fresh, Filed!Fresh
<1>18. \A id \in {"m", "n"} : Shared!Delete(r, "u", id) => Filed!Delete(r, "u", id)
  BY DEF Shared!Delete, Filed!Delete, Shared!Idle, Filed!Idle, Shared!There, Filed!There, Shared!Gone,
         Filed!Gone
<1>19. Shared!A_Day("f") => Filed!A_Day("f")
  BY DEF Shared!A_Day, Filed!A_Day
<1>20. \A kind \in {"right", "wrong"} : Shared!Arrive("f", kind) => Filed!Arrive("f", kind)
  BY DEF Shared!Arrive, Filed!Arrive
<1> QED
  BY <1>1, <1>2, <1>3, <1>4, <1>5, <1>6, <1>7, <1>8, <1>9, <1>10, <1>11, <1>12, <1>13, <1>14, <1>15,
         <1>16, <1>17, <1>18, <1>19, <1>20

LEMMA ReactionsActions ==
    ASSUME NEW r \in Runs
    PROVE  /\ Reacting!Insert(r) => Talked!Insert(r)
           /\ Reacting!Publish(r) => Talked!Publish(r)
           /\ Reacting!Seek(r) => Talked!Seek(r)
           /\ Reacting!Join(r) => Talked!Join(r)
           /\ Reacting!StartGroup(r) => Talked!StartGroup(r)
           /\ Reacting!Look(r) => Talked!Look(r)
           /\ Reacting!Leave(r) => Talked!Leave(r)
           /\ Reacting!Prune(r) => Talked!Prune(r)
           /\ Reacting!Reread(r) => Talked!Reread(r)
           /\ Reacting!DeleteOne(r) => Talked!DeleteOne(r)
           /\ Reacting!ListFiles(r) => Talked!ListFiles(r)
           /\ Reacting!DropFile(r) => Talked!DropFile(r)
           /\ \A u \in Workspaces : Reacting!Send(r, u, "c", {}, "m") => Talked!Send(r, u, "c", {}, "m")
           /\ \A u \in Workspaces : Reacting!Delete(r, u, "m") => Talked!Delete(r, u, "m")
           /\ \A u \in Workspaces, n \in {1, 2} : Reacting!Edit(r, u, "m", n) => Talked!Edit(r, u, "m", n)
           /\ \A u \in Workspaces, x \in {"e1", "e2"} : Reacting!React(r, u, "m", x) => Talked!React(r, u, "m", x)
           /\ \A u \in Workspaces, x \in {"e1", "e2"} : Reacting!Unreact(r, u, "m", x) => Talked!Unreact(r, u, "m", x)
<1>1. Reacting!Insert(r) => Talked!Insert(r)
  BY DEF Reacting!Insert, Talked!Insert, Reacting!Sent, Talked!Sent, Reacting!Messages, Talked!Messages,
         Reacting!There, Talked!There, Reacting!Gone, Talked!Gone, Reacting!Goto, Talked!Goto
<1>2. Reacting!Publish(r) => Talked!Publish(r)
  BY DEF Reacting!Publish, Talked!Publish, Reacting!Newest, Talked!Newest, Reacting!Gone, Talked!Gone,
         Reacting!Over, Talked!Over, Reacting!Idle, Talked!Idle
<1>3. Reacting!Seek(r) => Talked!Seek(r)
  BY DEF Reacting!Seek, Talked!Seek, Reacting!Reacted, Talked!Reacted, Reacting!Groups, Talked!Groups,
         Reacting!There, Talked!There, Reacting!Gone, Talked!Gone, Reacting!Goto, Talked!Goto
<1>4. Reacting!Join(r) => Talked!Join(r)
  BY DEF Reacting!Join, Talked!Join, Reacting!There, Talked!There, Reacting!Gone, Talked!Gone,
         Reacting!Groups, Talked!Groups, Reacting!WithGroups, Talked!WithGroups, Reacting!Goto,
         Talked!Goto
<1>5. Reacting!StartGroup(r) => Talked!StartGroup(r)
  BY Counts DEF Reacting!StartGroup, Talked!StartGroup, Reacting!There, Talked!There, Reacting!Gone,
         Talked!Gone, Reacting!Groups, Talked!Groups, Reacting!WithGroups, Talked!WithGroups,
         Reacting!Goto, Talked!Goto
<1>6. Reacting!Look(r) => Talked!Look(r)
  BY DEF Reacting!Look, Talked!Look, Reacting!There, Talked!There, Reacting!Gone, Talked!Gone,
         Reacting!Groups, Talked!Groups, Reacting!Goto, Talked!Goto, Reacting!Over, Talked!Over,
         Reacting!Idle, Talked!Idle
<1>7. Reacting!Leave(r) => Talked!Leave(r)
  BY DEF Reacting!Leave, Talked!Leave, Reacting!Reacted, Talked!Reacted, Reacting!There, Talked!There,
         Reacting!Gone, Talked!Gone, Reacting!Groups, Talked!Groups, Reacting!WithGroups,
         Talked!WithGroups, Reacting!Goto, Talked!Goto
<1>8. Reacting!Prune(r) => Talked!Prune(r)
  BY DEF Reacting!Prune, Talked!Prune, Reacting!There, Talked!There, Reacting!Gone, Talked!Gone,
         Reacting!Peopled, Talked!Peopled, Reacting!Goto, Talked!Goto, Reacting!Restrict,
         Talked!Restrict
<1>9. Reacting!Reread(r) => Talked!Reread(r)
  BY DEF Reacting!Reread, Talked!Reread, Reacting!There, Talked!There, Reacting!Gone, Talked!Gone,
         Reacting!Over, Talked!Over, Reacting!Idle, Talked!Idle
<1>10. Reacting!DeleteOne(r) => Talked!DeleteOne(r)
  BY DEF Reacting!DeleteOne, Talked!DeleteOne, Reacting!Gone, Talked!Gone, Reacting!Goto, Talked!Goto
<1>11. Reacting!ListFiles(r) => Talked!ListFiles(r)
  BY DEF Reacting!ListFiles, Talked!ListFiles, Reacting!Remove, Talked!Remove
<1>12. Reacting!DropFile(r) => Talked!DropFile(r)
  BY DEF Reacting!DropFile, Talked!DropFile, Reacting!After, Talked!After, Reacting!Idle, Talked!Idle
<1>13. \A u \in Workspaces : Reacting!Send(r, u, "c", {}, "m") => Talked!Send(r, u, "c", {}, "m")
  BY DEF Reacting!Send, Talked!Send, Reacting!Idle, Talked!Idle, Reacting!Sent, Talked!Sent,
         Reacting!Messages, Talked!Messages, Reacting!There, Talked!There, Reacting!Gone, Talked!Gone,
         Reacting!Fresh, Talked!Fresh
<1>14. \A u \in Workspaces : Reacting!Delete(r, u, "m") => Talked!Delete(r, u, "m")
  BY DEF Reacting!Delete, Talked!Delete, Reacting!Idle, Talked!Idle, Reacting!There, Talked!There,
         Reacting!Gone, Talked!Gone
<1>15. \A u \in Workspaces, n \in {1, 2} : Reacting!Edit(r, u, "m", n) => Talked!Edit(r, u, "m", n)
  BY DEF Reacting!Edit, Talked!Edit, Reacting!Idle, Talked!Idle, Reacting!There, Talked!There,
         Reacting!Gone, Talked!Gone
<1>16. \A u \in Workspaces, x \in {"e1", "e2"} : Reacting!React(r, u, "m", x) => Talked!React(r, u, "m", x)
  BY DEF Reacting!React, Talked!React, Reacting!Idle, Talked!Idle, Reacting!There, Talked!There,
         Reacting!Gone, Talked!Gone
<1>17. \A u \in Workspaces, x \in {"e1", "e2"} : Reacting!Unreact(r, u, "m", x) => Talked!Unreact(r, u, "m", x)
  BY DEF Reacting!Unreact, Talked!Unreact, Reacting!Idle, Talked!Idle, Reacting!There, Talked!There,
         Reacting!Gone, Talked!Gone
<1> QED
  BY <1>1, <1>2, <1>3, <1>4, <1>5, <1>6, <1>7, <1>8, <1>9, <1>10, <1>11, <1>12, <1>13, <1>14, <1>15,
         <1>16, <1>17

\* So are their initial states, and what is promised of them.
LEMMA SamePromise ==
    /\ Shared!Init => Filed!Init
    /\ Reacting!Init => Talked!Init
    /\ Filed!DiscussionSafe => Shared!DiscussionSafe
    /\ Talked!DiscussionSafe => Reacting!DiscussionSafe
<1>1. Shared!Init => Filed!Init
  BY DEF Shared!Init, Filed!Init, Shared!Idle, Filed!Idle
<1>2. Reacting!Init => Talked!Init
  BY DEF Reacting!Init, Talked!Init, Reacting!Idle, Talked!Idle
<1>3. Filed!DiscussionSafe => Shared!DiscussionSafe
  BY Counts DEF Shared!DiscussionSafe, Filed!DiscussionSafe, Shared!TypeOK, Filed!TypeOK, Shared!FilesStay,
         Filed!FilesStay, Shared!ViewersCatchUp, Filed!ViewersCatchUp, Shared!Messages, Filed!Messages,
         Shared!There, Filed!There, Shared!Gone, Filed!Gone, Shared!Idle, Filed!Idle, Shared!Peopled,
         Filed!Peopled, Shared!Restrict, Filed!Restrict
<1>4. Talked!DiscussionSafe => Reacting!DiscussionSafe
  BY Counts DEF Reacting!DiscussionSafe, Talked!DiscussionSafe, Reacting!TypeOK, Talked!TypeOK,
         Reacting!FilesStay, Talked!FilesStay, Reacting!ViewersCatchUp, Talked!ViewersCatchUp,
         Reacting!Messages, Talked!Messages, Reacting!There, Talked!There, Reacting!Gone, Talked!Gone,
         Reacting!Idle, Talked!Idle, Reacting!Peopled, Talked!Peopled, Reacting!Restrict,
         Talked!Restrict
<1> QED
  BY <1>1, <1>2, <1>3, <1>4

LEMMA FilesStep == ASSUME SharedNext PROVE Filed!Next
<1>1. ASSUME NEW r \in Runs,
             \/ Shared!InsertUpload(r) \/ Shared!MakeReady(r) \/ Shared!DropFile(r) \/ Shared!ForgetFile(r)
             \/ Shared!Claim(r) \/ Shared!ReadClaimed(r) \/ Shared!Insert(r) \/ Shared!Release(r)
             \/ Shared!Publish(r) \/ Shared!DeleteOne(r) \/ Shared!ListFiles(r) \/ Shared!DeleteMessages(r)
      PROVE  Filed!Next
  <2>1. Filed!TaskStep(r)
    BY <1>1, FilesActions DEF Filed!TaskStep
  <2> QED
    BY <2>1 DEF Filed!Next
<1>2. ASSUME NEW r \in Runs, Shared!Sweep(r) \/ Shared!DeleteDecision(r) PROVE Filed!Next
  BY <1>2, FilesActions DEF Filed!Next
<1>3. ASSUME NEW r \in Runs, Shared!StartUpload(r, "u", "f") \/ Shared!Complete(r, "f") PROVE Filed!Next
  BY <1>3, FilesActions DEF Filed!Next
<1>4. ASSUME NEW r \in Runs, NEW F \in SUBSET {"f"}, NEW id \in {"m", "n"}, Shared!Send(r, "u", "c", F, id)
      PROVE  Filed!Next
  BY <1>4, FilesActions DEF Filed!Next
<1>5. ASSUME NEW r \in Runs, NEW id \in {"m", "n"}, Shared!Delete(r, "u", id) PROVE Filed!Next
  BY <1>5, FilesActions DEF Filed!Next
<1>6. ASSUME Shared!A_Day("f") \/ Shared!Arrive("f", "right") \/ Shared!Arrive("f", "wrong") PROVE Filed!Next
  BY <1>6 DEF Filed!Next, Shared!A_Day, Filed!A_Day, Shared!Arrive, Filed!Arrive
<1> QED
  BY <1>1, <1>2, <1>3, <1>4, <1>5, <1>6 DEF SharedNext

LEMMA ReactionsStep == ASSUME ReactingNext PROVE Talked!Next
<1>1. ASSUME NEW r \in Runs,
             \/ Reacting!Insert(r) \/ Reacting!Publish(r) \/ Reacting!Seek(r) \/ Reacting!Join(r)
             \/ Reacting!StartGroup(r) \/ Reacting!Look(r) \/ Reacting!Leave(r) \/ Reacting!Prune(r)
             \/ Reacting!Reread(r) \/ Reacting!DeleteOne(r) \/ Reacting!ListFiles(r) \/ Reacting!DropFile(r)
      PROVE  Talked!Next
  <2>1. Talked!TaskStep(r)
    BY <1>1, ReactionsActions DEF Talked!TaskStep
  <2> QED
    BY <2>1 DEF Talked!Next
<1>2. ASSUME NEW r \in Runs, NEW u \in Workspaces, Reacting!Send(r, u, "c", {}, "m") PROVE Talked!Next
  BY <1>2, ReactionsActions DEF Talked!Next
<1>3. ASSUME NEW r \in Runs, NEW u \in Workspaces, Reacting!Delete(r, u, "m") PROVE Talked!Next
  BY <1>3, ReactionsActions DEF Talked!Next
<1>4. ASSUME NEW r \in Runs, NEW u \in Workspaces, NEW n \in {1, 2}, Reacting!Edit(r, u, "m", n) PROVE Talked!Next
  BY <1>4, ReactionsActions DEF Talked!Next
<1>5. ASSUME NEW r \in Runs, NEW u \in Workspaces, NEW x \in {"e1", "e2"},
             Reacting!React(r, u, "m", x) \/ Reacting!Unreact(r, u, "m", x)
      PROVE  Talked!Next
  BY <1>5, ReactionsActions DEF Talked!Next
<1> QED
  BY <1>1, <1>2, <1>3, <1>4, <1>5 DEF ReactingNext

\* attachments.py, service.py, schemas.py: a file is sent with one message and is there
\* as long as the message is, but for one that a sweep had listed as unsent; once the
\* requests have ended, what the viewers hold is what is stored. However many requests
\* and workspaces there are; None is nothing else that a variable holds.
THEOREM DiscussionsAreSafe ==
    ASSUME Filed!DiscussionConstants, Talked!DiscussionConstants
    PROVE  MCSpec => []DiscussionSafe
<1> DEFINE I == /\ part = "files" => Filed!DiscussionInv
                /\ part = "reactions" => Talked!DiscussionInv
<1>1. MCInit => I
  BY SamePromise, Filed!DiscussionInit, Talked!DiscussionInit DEF MCInit
<1>2. I /\ [MCNext]_allVars => I'
  <2> SUFFICES ASSUME I, [MCNext]_allVars PROVE I'
    OBVIOUS
  <2>1. CASE UNCHANGED allVars
    <3>1. part' = part /\ UNCHANGED Filed!vars /\ UNCHANGED Talked!vars
      BY <2>1 DEF allVars, ofShared, Filed!vars, Talked!vars
    <3> QED
      BY <3>1, Filed!DiscussionStep, Talked!DiscussionStep
  <2>2. CASE IndexJobsNext
    BY <2>2 DEF IndexJobsNext, InIndexJobs
  <2>3. CASE SharedNext
    <3>1. part = "files" /\ part' = part
      BY <2>3 DEF SharedNext, InShared
    <3> QED
      BY <2>3, <3>1, FilesStep, Filed!DiscussionStep
  <2>4. CASE ReactingNext
    <3>1. part = "reactions" /\ part' = part
      BY <2>4 DEF ReactingNext, InReacting
    <3> QED
      BY <2>4, <3>1, ReactionsStep, Talked!DiscussionStep
  <2> QED
    BY <2>1, <2>2, <2>3, <2>4 DEF MCNext
<1>3. I => DiscussionSafe
  BY SamePromise, Filed!DiscussionHolds, Talked!DiscussionHolds DEF DiscussionSafe
<1> QED
  BY <1>1, <1>2, <1>3, PTL DEF MCSpec

-----------------------------------------------------------------------------
(***************************************************************************)
(* Realtime, the hub that tells who listens to a discussion                *)
(***************************************************************************)

CONSTANTS Conns, Readers, Topics, OutboxSize, MaxPerUser, MaxEvents, MaxRemovals
VARIABLES member, gone, telling, socket, heard, reader, events, removals, due, got

Hub == INSTANCE Realtime WITH Users <- Readers, conn <- socket

\* There are finitely many sockets and topics, an outbox has room for a frame, and None
\* is no user.
HubConstants ==
    /\ IsFiniteSet(Conns) /\ IsFiniteSet(Topics) /\ None \notin Readers
    /\ OutboxSize \in Nat \ {0} /\ MaxPerUser \in Nat /\ MaxEvents \in Nat

Socket == [user : Readers \cup {None}, topics : SUBSET Topics, outbox : Seq(Nat), closing : BOOLEAN,
           age : {"new", "old", "out"}]
At == [doing : {"away", "receive", "authorize", "authorized"}, topic : Topics \cup {None},
       left : SUBSET Topics, allowed : BOOLEAN]

HubTypes ==
    /\ member \subseteq Readers /\ gone \subseteq Topics /\ telling \subseteq Readers \cup Topics
    /\ socket \in [Conns -> Socket] /\ reader \in [Conns -> At]
    /\ events \in 0..MaxEvents
    /\ due \in [Conns -> SUBSET Nat] /\ got \in [Conns -> Seq(Nat)]

\* A socket that nobody has is on no topic, and only one that somebody has is read
\* beyond the next frame, about a topic.
Open(c) == Hub!Connected(c)
PlaceInv ==
    \A c \in Conns :
        /\ ~Open(c) => socket[c].topics = {}
        /\ reader[c].doing \in {"authorize", "authorized"} => Open(c) /\ reader[c].topic \in Topics

\* What is in an outbox fits, and of a socket that is to be closed it is the close.
Fits(k) == Len(k.outbox) <= OutboxSize /\ (k.closing => k.outbox = <<Hub!Close>>)

\* The events written, g, rise, and those that wait among the frames o after them; none is
\* past n.
Rising(n, g, o) ==
    /\ \A i \in 1..Len(g) : g[i] \in 1..n
    /\ \A i \in 1..Len(o) : o[i] \in 0..n
    /\ \A i, j \in 1..Len(g) : i < j => g[i] < g[j]
    /\ \A i, j \in 1..Len(o) : i < j /\ o[i] # 0 /\ o[j] # 0 => o[i] < o[j]
    /\ \A i \in 1..Len(g), j \in 1..Len(o) : o[j] # 0 => g[i] < o[j]

\* They are the events of d, in order.
Frames(s) == {s[i] : i \in 1..Len(s)}
InTurnTo(n, g, o, d) == Rising(n, g, o) /\ d = Frames(g) \cup (Frames(o) \ {0})

InTurn(c) == socket[c].closing \/ InTurnTo(events, got[c], socket[c].outbox, due[c])

\* Who is on a topic is heard there.
HeardInv == DOMAIN heard = Topics /\ \A t \in Topics : heard[t] = {c \in Conns : t \in socket[c].topics}

HubInv ==
    /\ HubTypes /\ PlaceInv /\ HeardInv
    /\ \A c \in Conns : Fits(socket[c]) /\ InTurn(c)
    /\ \A u \in Readers : Cardinality(Hub!SocketsOf(u)) <= MaxPerUser

LEMMA HubCardinality == ASSUME NEW S PROVE Hub!Cardinality(S) = Cardinality(S)
  BY DEF Hub!Cardinality, Cardinality

\* l is k after control frames: they wait behind what waited, or l is to be closed.
Told(k, l) ==
    /\ l \in Socket /\ l.user = k.user /\ Fits(l)
    /\ \/ l.closing
       \/ /\ ~k.closing
          /\ \E n \in Nat : l.outbox = k.outbox \o [i \in 1..n |-> 0]

LEMMA NothingTold == ASSUME NEW k \in Socket, NEW l \in Socket, Fits(k), l.user = k.user, l.outbox = k.outbox,
                            l.closing = k.closing
                     PROVE Told(k, l)
<1>1. Fits(l)
  BY DEF Fits
<1>2. k.outbox = k.outbox \o [i \in 1..0 |-> 0]
  BY DEF Socket
<1> QED
  BY <1>1, <1>2 DEF Told

LEMMA ShutIsTold == ASSUME HubConstants, NEW k \in Socket, Fits(k)
                    PROVE Told(k, Hub!Shut(k)) /\ Hub!Shut(k).topics = k.topics
<1>1. CASE k.closing
  BY <1>1 DEF Told, Hub!Shut
<1>2. CASE ~k.closing
  <2> PICK o : o = <<Hub!Close>>
    OBVIOUS
  <2> DEFINE l == [k EXCEPT !.closing = TRUE, !.outbox = o]
  <2>1. Hub!Shut(k) = l
    BY <1>2 DEF Hub!Shut
  <2>2. o \in Seq(Nat) /\ Len(o) = 1
    BY DEF HubConstants, Hub!Close
  <2>3. l \in Socket /\ l.user = k.user /\ l.closing /\ l.outbox = o /\ l.topics = k.topics
    BY <2>2 DEF Socket
  <2> HIDE DEF l
  <2>4. Fits(l)
    BY <2>2, <2>3 DEF Fits, HubConstants
  <2> QED
    BY <2>1, <2>3, <2>4 DEF Told
<1> QED
  BY <1>1, <1>2 DEF Socket

\* As many control frames as there is room for.
LEMMA FramesAreTold ==
    ASSUME HubConstants, NEW k \in Socket, Fits(k), NEW n \in Nat, ~k.closing, Len(k.outbox) + n <= OutboxSize,
           NEW l \in Socket, l.user = k.user, l.closing = k.closing, l.outbox = k.outbox \o [i \in 1..n |-> 0]
    PROVE  Told(k, l)
<1>1. k.outbox \in Seq(Nat) /\ [i \in 1..n |-> 0] \in Seq(Nat) /\ Len([i \in 1..n |-> 0]) = n
  BY DEF Socket
<1>2. Len(l.outbox) = Len(k.outbox) + n
  BY <1>1
<1>3. Fits(l)
  BY <1>2 DEF Fits
<1> QED
  BY <1>3 DEF Told

LEMMA SendIsTold ==
    ASSUME HubConstants, NEW k \in Socket, Fits(k)
    PROVE  Told(k, Hub!Send(k, Hub!Control)) /\ Hub!Send(k, Hub!Control).topics = k.topics
<1>1. CASE k.closing
  BY <1>1 DEF Told, Hub!Send
<1>2. CASE ~k.closing /\ Len(k.outbox) = OutboxSize
  BY <1>2, ShutIsTold DEF Hub!Send
<1>3. CASE ~k.closing /\ Len(k.outbox) # OutboxSize
  <2> DEFINE l == [k EXCEPT !.outbox = Append(k.outbox, 0)]
  <2>1. Hub!Send(k, Hub!Control) = l
    BY <1>3 DEF Hub!Send, Hub!Control
  <2>2. k.outbox \in Seq(Nat) /\ Len(k.outbox) + 1 <= OutboxSize
    BY <1>3 DEF Socket, Fits, HubConstants
  <2>3. Append(k.outbox, 0) = k.outbox \o [i \in 1..1 |-> 0] /\ Append(k.outbox, 0) \in Seq(Nat)
    BY <2>2
  <2>4. l \in Socket /\ l.user = k.user /\ l.closing = k.closing /\ l.topics = k.topics
        /\ l.outbox = k.outbox \o [i \in 1..1 |-> 0]
    BY <2>3 DEF Socket
  <2> HIDE DEF l
  <2> QED
    BY <1>3, <2>1, <2>2, <2>4, FramesAreTold
<1> QED
  BY <1>1, <1>2, <1>3 DEF Socket

LEMMA LeavingIsTold ==
    ASSUME HubConstants, NEW k \in Socket, Fits(k), NEW S \in SUBSET Topics
    PROVE  Told(k, Hub!LeaveTopics(k, S)) /\ Hub!LeaveTopics(k, S).topics = k.topics \ S
<1> DEFINE left == [k EXCEPT !.topics = k.topics \ S]
           n == Cardinality(S)
<1>1. left \in Socket /\ left.user = k.user /\ left.outbox = k.outbox /\ left.closing = k.closing
      /\ left.topics = k.topics \ S
  BY DEF Socket
<1>2. n \in Nat /\ Hub!Cardinality(S) = n
  BY FS_Subset, FS_CardinalityType, HubCardinality DEF HubConstants
<1>3. Fits(left)
  BY <1>1 DEF Fits
<1>4. Hub!LeaveTopics(k, S) = IF k.closing THEN left ELSE IF Len(k.outbox) + n > OutboxSize THEN Hub!Shut(left)
                              ELSE [left EXCEPT !.outbox = left.outbox \o [i \in 1..n |-> 0]]
  BY <1>2 DEF Hub!LeaveTopics, Hub!Control
<1>5. CASE k.closing
  BY <1>1, <1>3, <1>4, <1>5, NothingTold
<1>6. CASE ~k.closing /\ Len(k.outbox) + n > OutboxSize
  <2> HIDE DEF left, n
  <2>1. Told(left, Hub!Shut(left)) /\ Hub!Shut(left).topics = left.topics
    BY <1>1, <1>3, ShutIsTold
  <2>2. Hub!LeaveTopics(k, S) = Hub!Shut(left)
    BY <1>4, <1>6
  <2> QED
    BY <1>1, <2>1, <2>2 DEF Told
<1>7. CASE ~k.closing /\ ~(Len(k.outbox) + n > OutboxSize)
  <2> DEFINE o == k.outbox \o [i \in 1..n |-> 0]
             l == [left EXCEPT !.outbox = o]
  <2>1. Hub!LeaveTopics(k, S) = l
    BY <1>1, <1>4, <1>7
  <2>2. o \in Seq(Nat) /\ Len(k.outbox) \in Nat
    BY <1>2 DEF Socket
  <2> HIDE DEF left, n
  <2>3. l \in Socket /\ l.user = k.user /\ l.closing = k.closing /\ l.topics = k.topics \ S /\ l.outbox = o
    <3> HIDE DEF o
    <3> QED
      BY <1>1, <2>2 DEF Socket
  <2> HIDE DEF l
  <2>4. Len(k.outbox) + n <= OutboxSize
    BY <1>2, <1>7, <2>2 DEF HubConstants
  <2> QED
    BY <1>2, <1>7, <2>1, <2>3, <2>4, FramesAreTold
<1> QED
  BY <1>5, <1>6, <1>7 DEF Socket

-----------------------------------------------------------------------------
LEMMA AppendedFrames ==
    ASSUME NEW s \in Seq(Nat), NEW x \in Nat
    PROVE  LET p == Append(s, x)
           IN  /\ p \in Seq(Nat) /\ Len(s) \in Nat /\ Len(p) = Len(s) + 1 /\ p[Len(s) + 1] = x
               /\ \A i \in 1..Len(s) : p[i] = s[i]
               /\ \A i \in 1..Len(p) : i \in 1..Len(s) \/ i = Len(s) + 1
               /\ Frames(p) = Frames(s) \cup {x}
<1> DEFINE p == Append(s, x)
<1>1. /\ p \in Seq(Nat) /\ Len(s) \in Nat /\ Len(p) = Len(s) + 1 /\ p[Len(s) + 1] = x
      /\ \A i \in 1..Len(s) : p[i] = s[i]
  OBVIOUS
<1> HIDE DEF p
<1>2. 1..Len(p) = 1..Len(s) \cup {Len(s) + 1}
  BY <1>1
<1>3. Frames(p) = Frames(s) \cup {x}
  BY <1>1, <1>2 DEF Frames
<1> QED
  BY <1>1, <1>2, <1>3 DEF p

\* Control frames change nothing that is due.
LEMMA FramesKeepOrder ==
    ASSUME NEW n \in Nat, NEW g \in Seq(Nat), NEW o \in Seq(Nat), NEW d, InTurnTo(n, g, o, d), NEW m \in Nat
    PROVE  InTurnTo(n, g, o \o [i \in 1..m |-> 0], d)
<1> DEFINE p == o \o [i \in 1..m |-> 0]
<1>1. /\ Len(p) = Len(o) + m /\ Len(o) \in Nat
      /\ \A i \in 1..Len(p) : p[i] = IF i <= Len(o) THEN o[i] ELSE 0
  OBVIOUS
<1> HIDE DEF p
<1>2. /\ \A i \in 1..Len(p) : p[i] = 0 \/ (i \in 1..Len(o) /\ p[i] = o[i])
      /\ \A i \in 1..Len(o) : i \in 1..Len(p) /\ p[i] = o[i]
  BY <1>1
<1>3. Frames(p) \ {0} = Frames(o) \ {0}
  BY <1>2 DEF Frames
<1>4. Rising(n, g, o)
  BY DEF InTurnTo
<1>5. Rising(n, g, p)
  <2>1. \A i \in 1..Len(p) : p[i] \in 0..n
    BY <1>2, <1>4 DEF Rising
  <2>2. \A i, j \in 1..Len(p) : i < j /\ p[i] # 0 /\ p[j] # 0 => p[i] < p[j]
    BY <1>2, <1>4 DEF Rising
  <2>3. \A i \in 1..Len(g), j \in 1..Len(p) : p[j] # 0 => g[i] < p[j]
    BY <1>2, <1>4 DEF Rising
  <2> QED
    BY <1>4, <2>1, <2>2, <2>3 DEF Rising
<1> QED
  BY <1>3, <1>5 DEF InTurnTo, p

\* The next event goes behind all others.
LEMMA NextEventLast ==
    ASSUME NEW n \in Nat, NEW g \in Seq(Nat), NEW o \in Seq(Nat), NEW d, InTurnTo(n, g, o, d)
    PROVE  InTurnTo(n + 1, g, Append(o, n + 1), d \cup {n + 1})
<1> DEFINE p == Append(o, n + 1)
<1>1. /\ Len(o) \in Nat /\ Len(p) = Len(o) + 1 /\ p[Len(o) + 1] = n + 1
      /\ \A i \in 1..Len(o) : p[i] = o[i]
      /\ \A i \in 1..Len(p) : i \in 1..Len(o) \/ i = Len(o) + 1
      /\ Frames(p) = Frames(o) \cup {n + 1}
  BY AppendedFrames
<1> HIDE DEF p
<1>2. Rising(n, g, o)
  BY DEF InTurnTo
<1>3. Rising(n + 1, g, p)
  <2>1. \A i \in 1..Len(p) : p[i] \in 0..(n + 1)
    BY <1>1, <1>2 DEF Rising
  <2>2. \A i, j \in 1..Len(p) : i < j /\ p[i] # 0 /\ p[j] # 0 => p[i] < p[j]
    <3> SUFFICES ASSUME NEW i \in 1..Len(p), NEW j \in 1..Len(p), i < j, p[i] # 0, p[j] # 0 PROVE p[i] < p[j]
      OBVIOUS
    <3>1. i \in 1..Len(o)
      BY <1>1
    <3>2. CASE j \in 1..Len(o)
      BY <1>1, <1>2, <3>1, <3>2 DEF Rising
    <3>3. CASE j = Len(o) + 1
      BY <1>1, <1>2, <3>1, <3>3 DEF Rising
    <3> QED
      BY <1>1, <3>2, <3>3
  <2>3. ASSUME NEW i \in 1..Len(g), NEW j \in 1..Len(p), p[j] # 0 PROVE g[i] < p[j]
    <3>1. CASE j \in 1..Len(o)
      BY <1>1, <1>2, <2>3, <3>1 DEF Rising
    <3>2. CASE j = Len(o) + 1
      <4>1. g[i] \in 1..n /\ p[j] = n + 1
        BY <1>1, <1>2, <3>2 DEF Rising
      <4> QED
        BY <4>1
    <3> QED
      BY <1>1, <3>1, <3>2
  <2>4. \A i \in 1..Len(g) : g[i] \in 1..(n + 1)
    BY <1>2 DEF Rising
  <2> QED
    BY <1>2, <2>1, <2>2, <2>3, <2>4 DEF Rising
<1> QED
  BY <1>1, <1>3 DEF InTurnTo, p

LEMMA LaterEvents ==
    ASSUME NEW n \in Nat, NEW g, NEW o, NEW d, InTurnTo(n, g, o, d)
    PROVE  InTurnTo(n + 1, g, o, d)
<1>1. Rising(n + 1, g, o)
  BY DEF InTurnTo, Rising
<1> QED
  BY <1>1 DEF InTurnTo

\* The first frame that waits is written.
LEMMA WrittenInOrder ==
    ASSUME NEW n \in Nat, NEW g \in Seq(Nat), NEW o \in Seq(Nat), NEW d, InTurnTo(n, g, o, d), o # <<>>
    PROVE  InTurnTo(n, IF Head(o) = 0 THEN g ELSE Append(g, Head(o)), Tail(o), d)
<1> DEFINE p == Tail(o)
           x == o[1]
<1>1. /\ Len(p) = Len(o) - 1 /\ Len(o) \in Nat \ {0} /\ Len(g) \in Nat
      /\ \A i \in 1..Len(p) : p[i] = o[i + 1]
      /\ Head(o) = x /\ 1 \in 1..Len(o) /\ x \in Nat
  OBVIOUS
<1> HIDE DEF p
<1>2. \A i \in 1..Len(p) : i + 1 \in 1..Len(o) /\ 1 < i + 1
  BY <1>1
<1>3. \A j \in 1..Len(o) : j = 1 \/ \E i \in 1..Len(p) : j = i + 1
  <2> SUFFICES ASSUME NEW j \in 1..Len(o), j # 1 PROVE \E i \in 1..Len(p) : j = i + 1
    OBVIOUS
  <2>1. j - 1 \in 1..Len(p) /\ j = (j - 1) + 1
    BY <1>1
  <2> QED
    BY <2>1
<1>4. Frames(o) = Frames(p) \cup {x}
  <2>1. ASSUME NEW y \in Frames(o) PROVE y \in Frames(p) \cup {x}
    <3>1. PICK j \in 1..Len(o) : y = o[j]
      BY <2>1 DEF Frames
    <3>2. CASE j = 1
      BY <3>1, <3>2
    <3>3. CASE j # 1
      <4>1. PICK i \in 1..Len(p) : j = i + 1
        BY <1>3, <3>3
      <4> QED
        BY <1>1, <3>1, <4>1 DEF Frames
    <3> QED
      BY <3>2, <3>3
  <2>2. ASSUME NEW y \in Frames(p) PROVE y \in Frames(o)
    BY <1>1, <1>2, <2>2 DEF Frames
  <2>3. x \in Frames(o)
    BY <1>1 DEF Frames
  <2> QED
    BY <2>1, <2>2, <2>3
<1>5. Rising(n, g, o) /\ d = Frames(g) \cup (Frames(o) \ {0})
  BY DEF InTurnTo
<1>6. Rising(n, g, p)
  <2>1. \A i \in 1..Len(p) : p[i] \in 0..n
    BY <1>1, <1>2, <1>5 DEF Rising
  <2>2. \A i, j \in 1..Len(p) : i < j /\ p[i] # 0 /\ p[j] # 0 => p[i] < p[j]
    <3> SUFFICES ASSUME NEW i \in 1..Len(p), NEW j \in 1..Len(p), i < j, p[i] # 0, p[j] # 0 PROVE p[i] < p[j]
      OBVIOUS
    <3>1. i + 1 < j + 1
      BY <1>1
    <3> QED
      BY <1>1, <1>2, <1>5, <3>1 DEF Rising
  <2>3. \A i \in 1..Len(g), j \in 1..Len(p) : p[j] # 0 => g[i] < p[j]
    BY <1>1, <1>2, <1>5 DEF Rising
  <2> QED
    BY <1>5, <2>1, <2>2, <2>3 DEF Rising
<1>7. CASE x = 0
  <2>1. d = Frames(g) \cup (Frames(p) \ {0})
    BY <1>4, <1>5, <1>7
  <2> QED
    BY <1>1, <1>6, <1>7, <2>1 DEF InTurnTo, p
<1>8. CASE x # 0
  <2> DEFINE h == Append(g, x)
  <2>1. /\ Len(h) = Len(g) + 1 /\ h[Len(g) + 1] = x
        /\ \A i \in 1..Len(g) : h[i] = g[i]
        /\ \A i \in 1..Len(h) : i \in 1..Len(g) \/ i = Len(g) + 1
        /\ Frames(h) = Frames(g) \cup {x}
    BY <1>1, AppendedFrames
  <2> HIDE DEF h
  <2>2. d = Frames(h) \cup (Frames(p) \ {0})
    BY <1>4, <1>5, <1>8, <2>1
  <2>3. (x \in 1..n) /\ (\A i \in 1..Len(g) : g[i] < x) /\ \A j \in 1..Len(p) : p[j] # 0 => x < p[j]
    <3>1. x \in 0..n /\ \A i \in 1..Len(g) : g[i] < x
      BY <1>1, <1>5, <1>8 DEF Rising
    <3>2. ASSUME NEW j \in 1..Len(p), p[j] # 0 PROVE x < p[j]
      BY <1>1, <1>2, <1>5, <1>8, <3>2 DEF Rising
    <3> QED
      BY <1>8, <3>1, <3>2
  <2>4. Rising(n, h, p)
    <3>1. \A i \in 1..Len(h) : h[i] \in 1..n
      BY <1>6, <2>1, <2>3 DEF Rising
    <3>2. \A i, j \in 1..Len(h) : i < j => h[i] < h[j]
      <4> SUFFICES ASSUME NEW i \in 1..Len(h), NEW j \in 1..Len(h), i < j PROVE h[i] < h[j]
        OBVIOUS
      <4>1. i \in 1..Len(g)
        BY <1>1, <2>1
      <4>2. CASE j \in 1..Len(g)
        BY <1>6, <2>1, <4>1, <4>2 DEF Rising
      <4>3. CASE j = Len(g) + 1
        BY <2>1, <2>3, <4>1, <4>3
      <4> QED
        BY <2>1, <4>2, <4>3
    <3>3. \A i \in 1..Len(h), j \in 1..Len(p) : p[j] # 0 => h[i] < p[j]
      BY <1>6, <2>1, <2>3 DEF Rising
    <3> QED
      BY <1>6, <3>1, <3>2, <3>3 DEF Rising
  <2> QED
    BY <1>1, <1>8, <2>2, <2>4 DEF InTurnTo, p, h
<1> QED
  BY <1>7, <1>8

-----------------------------------------------------------------------------
\* Told once more.
LEMMA ToldTwice == ASSUME NEW k \in Socket, NEW l, NEW m, Told(k, l), Told(l, m) PROVE Told(k, m)
<1>1. CASE m.closing
  BY <1>1 DEF Told
<1>2. CASE ~m.closing
  <2>1. PICK i \in Nat : l.outbox = k.outbox \o [x \in 1..i |-> 0]
    BY <1>2 DEF Told
  <2>2. PICK j \in Nat : m.outbox = l.outbox \o [x \in 1..j |-> 0]
    BY <1>2 DEF Told
  <2>3. k.outbox \in Seq(Nat)
    BY DEF Socket
  <2>4. m.outbox = k.outbox \o [x \in 1..(i + j) |-> 0]
    BY <2>1, <2>2, <2>3
  <2>5. i + j \in Nat /\ ~k.closing /\ ~l.closing
    BY <1>2 DEF Told
  <2> QED
    BY <2>4, <2>5 DEF Told
<1> QED
  BY <1>1, <1>2

\* Control frames go to sockets, and what is due to each stays in order.
LEMMA ToldInOrder ==
    ASSUME HubInv, NEW c \in Conns, NEW k, Told(socket[c], k)
    PROVE  k.closing \/ InTurnTo(events, got[c], k.outbox, due[c])
<1>1. CASE ~k.closing
  <2>1. PICK n \in Nat : ~socket[c].closing /\ k.outbox = socket[c].outbox \o [i \in 1..n |-> 0]
    BY <1>1 DEF Told
  <2>2. InTurnTo(events, got[c], socket[c].outbox, due[c])
    BY <2>1 DEF HubInv, InTurn
  <2>3. events \in Nat /\ got[c] \in Seq(Nat) /\ socket[c].outbox \in Seq(Nat)
    BY DEF HubInv, HubTypes, Socket
  <2> QED
    BY <2>1, <2>2, <2>3, FramesKeepOrder
<1> QED
  BY <1>1

LEMMA SocketsTold ==
    ASSUME HubInv,
           socket' \in [Conns -> Socket],
           \A c \in Conns : Told(socket[c], socket'[c]) /\ (~Open(c) => socket'[c].topics = {}),
           reader' \in [Conns -> At],
           \A c \in Conns : reader'[c].doing \in {"authorize", "authorized"} => Open(c) /\ reader'[c].topic \in Topics,
           HeardInv', UNCHANGED <<events, due, got>>,
           member' \subseteq Readers, gone' \subseteq Topics, telling' \subseteq Readers \cup Topics
    PROVE  HubInv'
<1>1. HubTypes'
  BY DEF HubInv, HubTypes
<1>2. \A c \in Conns : socket'[c].user = socket[c].user /\ Fits(socket'[c])
  BY DEF Told
<1>3. PlaceInv'
  BY <1>2 DEF PlaceInv, Open, Hub!Connected
<1>4. ASSUME NEW c \in Conns PROVE InTurn(c)'
  <2>1. socket'[c].closing \/ InTurnTo(events, got[c], socket'[c].outbox, due[c])
    BY ToldInOrder
  <2> QED
    BY <2>1 DEF InTurn, InTurnTo, Rising, Frames
<1>5. \A u : Hub!SocketsOf(u)' = Hub!SocketsOf(u)
  BY <1>2 DEF Hub!SocketsOf
<1>6. \A u \in Readers : Cardinality(Hub!SocketsOf(u)') <= MaxPerUser
  BY <1>5 DEF HubInv
<1>7. \A c \in Conns : Fits(socket[c])'
  BY <1>2
<1> QED
  BY <1>1, <1>3, <1>4, <1>6, <1>7 DEF HubInv

\* A socket that somebody has is told; it may come to a topic and go from it.
LEMMA SocketTold ==
    ASSUME HubInv, NEW c \in Conns, Open(c), NEW k, Told(socket[c], k),
           socket' = [socket EXCEPT ![c] = k],
           NEW r \in At, r.doing \in {"authorize", "authorized"} => r.topic \in Topics,
           reader' = [reader EXCEPT ![c] = r],
           DOMAIN heard' = Topics,
           \A t \in Topics : heard'[t] = IF t \in k.topics THEN heard[t] \cup {c} ELSE heard[t] \ {c},
           UNCHANGED <<events, due, got, member, gone, telling>>
    PROVE  HubInv'
<1>1. socket \in [Conns -> Socket] /\ reader \in [Conns -> At] /\ k \in Socket
  BY DEF HubInv, HubTypes, Told
<1>2. socket' \in [Conns -> Socket] /\ reader' \in [Conns -> At]
  BY <1>1
<1>3. /\ socket'[c] = k /\ reader'[c] = r
      /\ \A d \in Conns \ {c} : socket'[d] = socket[d] /\ reader'[d] = reader[d]
  BY <1>1
<1>4. ASSUME NEW d \in Conns PROVE Told(socket[d], socket'[d]) /\ (~Open(d) => socket'[d].topics = {})
  <2>1. CASE d = c
    BY <1>3, <2>1
  <2>2. CASE d # c
    <3>1. Told(socket[d], socket[d])
      BY <1>1, NothingTold DEF HubInv
    <3>2. ~Open(d) => socket[d].topics = {}
      BY DEF HubInv, PlaceInv
    <3> QED
      BY <1>3, <2>2, <3>1, <3>2
  <2> QED
    BY <2>1, <2>2
<1>5. \A d \in Conns : reader'[d].doing \in {"authorize", "authorized"} => Open(d) /\ reader'[d].topic \in Topics
  BY <1>3 DEF HubInv, PlaceInv
<1>6. HeardInv'
  <2>1. ASSUME NEW t \in Topics PROVE heard'[t] = {d \in Conns : t \in socket'[d].topics}
    <3>1. heard[t] = {d \in Conns : t \in socket[d].topics}
      BY DEF HubInv, HeardInv
    <3> QED
      BY <1>3, <3>1
  <2> QED
    BY <2>1 DEF HeardInv
<1>7. member' \subseteq Readers /\ gone' \subseteq Topics /\ telling' \subseteq Readers \cup Topics
  BY DEF HubInv, HubTypes
<1> QED
  BY <1>2, <1>4, <1>5, <1>6, <1>7, SocketsTold

\* No socket is told anything, and no reader goes on.
LEMMA WorldStep ==
    ASSUME HubInv, UNCHANGED <<socket, heard, reader, events, due, got>>,
           member' \subseteq Readers, gone' \subseteq Topics, telling' \subseteq Readers \cup Topics
    PROVE  HubInv'
<1>1. socket \in [Conns -> Socket] /\ reader \in [Conns -> At]
  BY DEF HubInv, HubTypes
<1>2. \A c \in Conns : Told(socket[c], socket[c])
  BY <1>1, NothingTold DEF HubInv
<1>3. HeardInv'
  BY DEF HubInv, HeardInv
<1>4. \A c \in Conns : ~Open(c) => socket[c].topics = {}
  BY DEF HubInv, PlaceInv
<1>5. \A c \in Conns : reader[c].doing \in {"authorize", "authorized"} => Open(c) /\ reader[c].topic \in Topics
  BY DEF HubInv, PlaceInv
<1> QED
  BY <1>1, <1>2, <1>3, <1>4, <1>5, SocketsTold

\* The socket is told nothing, and its topics stay.
LEMMA HeardStays ==
    ASSUME HubInv, NEW c \in Conns, NEW k, k.topics = socket[c].topics, heard' = heard
    PROVE  /\ DOMAIN heard' = Topics
           /\ \A t \in Topics : heard'[t] = IF t \in k.topics THEN heard[t] \cup {c} ELSE heard[t] \ {c}
BY DEF HubInv, HeardInv

LEMMA AtReader ==
    ASSUME HubInv, NEW c \in Conns
    PROVE  /\ reader[c] \in At /\ reader = [reader EXCEPT ![c] = reader[c]]
           /\ socket[c] \in Socket /\ Fits(socket[c]) /\ socket = [socket EXCEPT ![c] = socket[c]]
           /\ Told(socket[c], socket[c])
           /\ reader[c].doing \in {"authorize", "authorized"} => Open(c) /\ reader[c].topic \in Topics
<1>1. /\ reader[c] \in At /\ reader = [reader EXCEPT ![c] = reader[c]]
      /\ socket[c] \in Socket /\ socket = [socket EXCEPT ![c] = socket[c]]
  BY DEF HubInv, HubTypes
<1>2. Fits(socket[c]) /\ (reader[c].doing \in {"authorize", "authorized"} => Open(c) /\ reader[c].topic \in Topics)
  BY DEF HubInv, PlaceInv
<1> QED
  BY <1>1, <1>2, NothingTold

-----------------------------------------------------------------------------
LEMMA OtherSocket ==
    ASSUME HubInv, NEW d \in Conns, events' = events, socket'[d] = socket[d], due'[d] = due[d], got'[d] = got[d]
    PROVE  (Fits(socket[d]) /\ InTurn(d))'
<1>1. Fits(socket[d]) /\ InTurn(d)
  BY DEF HubInv
<1>2. Fits(socket[d])'
  BY <1>1 DEF Fits
<1>3. InTurn(d)'
  BY <1>1 DEF InTurn, InTurnTo, Rising, Frames
<1> QED
  BY <1>2, <1>3

\* Steps of one socket.
LEMMA OpenStep == ASSUME HubConstants, HubInv, NEW c \in Conns, NEW u \in Readers, Hub!Open(c, u) PROVE HubInv'
<1>0. PICK z : z = [Hub!Closed EXCEPT !.user = u, !.age = "new"]
  OBVIOUS
<1>a. z \in Socket /\ z.user = u /\ z.topics = {} /\ z.outbox = <<>> /\ ~z.closing
  <2>1. PICK y : y = Hub!Closed
    OBVIOUS
  <2>2. y \in Socket /\ y.topics = {} /\ y.outbox = <<>> /\ ~y.closing
    BY <2>1 DEF Hub!Closed, Socket
  <2>3. z = [y EXCEPT !.user = u, !.age = "new"]
    BY <1>0, <2>1
  <2> QED
    BY <2>2, <2>3 DEF Socket
<1>b. PICK k : k = Hub!Send(z, Hub!Control)
  OBVIOUS
<1>1. k \in Socket /\ k.user = u /\ k.topics = {} /\ k.outbox = <<0>> /\ ~k.closing
  <2>1. Len(z.outbox) # OutboxSize /\ Append(z.outbox, 0) = <<0>>
    BY <1>a DEF HubConstants
  <2>2. PICK o \in Seq(Nat) : o = <<0>>
    <3>1. Append(z.outbox, 0) \in Seq(Nat)
      BY <1>a DEF Socket
    <3> QED
      BY <2>1, <3>1
  <2>3. k = [z EXCEPT !.outbox = o]
    BY <1>a, <1>b, <2>1, <2>2 DEF Hub!Send, Hub!Control
  <2>4. k \in Socket /\ k.user = u /\ k.topics = {} /\ k.outbox = o /\ ~k.closing
    BY <1>a, <2>3 DEF Socket
  <2> QED
    BY <2>2, <2>4
<1>3. socket' = [socket EXCEPT ![c] = k] /\ due' = [due EXCEPT ![c] = {}] /\ got' = [got EXCEPT ![c] = <<>>]
      /\ UNCHANGED <<member, gone, telling, heard, events>> /\ ~Open(c) /\ Hub!Cardinality(Hub!SocketsOf(u)) < MaxPerUser
  BY <1>0, <1>b DEF Hub!Open, Hub!world, Open
<1>4. /\ socket' \in [Conns -> Socket] /\ socket'[c] = k /\ due'[c] = {} /\ got'[c] = <<>>
      /\ \A d \in Conns \ {c} : socket'[d] = socket[d] /\ due'[d] = due[d] /\ got'[d] = got[d]
  BY <1>1, <1>3 DEF HubInv, HubTypes
<1>5. reader' \in [Conns -> At] /\ reader'[c].doing = "receive" /\ \A d \in Conns \ {c} : reader'[d] = reader[d]
  <2>1. Hub!Waiting \in At /\ Hub!Waiting.doing = "receive"
    BY DEF At, Hub!Waiting
  <2> QED
    BY <2>1 DEF Hub!Open, HubInv, HubTypes
<1>6. HubTypes'
  <2>1. due' \in [Conns -> SUBSET Nat] /\ got' \in [Conns -> Seq(Nat)]
    BY <1>3 DEF HubInv, HubTypes
  <2> QED
    BY <1>3, <1>4, <1>5, <2>1 DEF HubInv, HubTypes
<1>7. PlaceInv'
  BY <1>1, <1>4, <1>5 DEF HubInv, PlaceInv, Open, Hub!Connected
<1>8. HeardInv'
  <2>1. \A d \in Conns : socket'[d].topics = socket[d].topics
    BY <1>1, <1>3, <1>4 DEF HubInv, PlaceInv
  <2> QED
    BY <1>3, <2>1 DEF HubInv, HeardInv
<1>9. ASSUME NEW d \in Conns PROVE (Fits(socket[d]) /\ InTurn(d))'
  <2>1. CASE d # c
    BY <1>3, <1>4, <2>1, OtherSocket
  <2>2. CASE d = c
    <3>1. Fits(k)
      BY <1>1 DEF Fits, HubConstants
    <3>2. InTurnTo(events, <<>>, <<0>>, {})
      BY DEF HubInv, HubTypes, InTurnTo, Rising, Frames
    <3>3. Fits(socket'[c]) /\ InTurnTo(events', got'[c], socket'[c].outbox, due'[c])
      BY <1>1, <1>3, <1>4, <3>1, <3>2
    <3> QED
      BY <2>2, <3>3 DEF InTurn, Fits, InTurnTo, Rising, Frames
  <2> QED
    BY <2>1, <2>2
<1>10. ASSUME NEW v \in Readers PROVE Cardinality(Hub!SocketsOf(v)') <= MaxPerUser
  <2>1. CASE v # u
    <3>1. Hub!SocketsOf(v)' = Hub!SocketsOf(v)
      BY <1>1, <1>3, <1>4, <2>1 DEF Hub!SocketsOf, Open, Hub!Connected, HubConstants
    <3> QED
      BY <3>1 DEF HubInv
  <2>2. CASE v = u
    <3>1. Hub!SocketsOf(u)' = Hub!SocketsOf(u) \cup {c} /\ c \notin Hub!SocketsOf(u)
      BY <1>1, <1>3, <1>4 DEF Hub!SocketsOf, Open, Hub!Connected, HubConstants
    <3>2. IsFiniteSet(Hub!SocketsOf(u))
      BY FS_Subset DEF Hub!SocketsOf, HubConstants
    <3>3. Cardinality(Hub!SocketsOf(u) \cup {c}) = Cardinality(Hub!SocketsOf(u)) + 1 /\ Cardinality(Hub!SocketsOf(u)) \in Nat
      BY <3>1, <3>2, FS_AddElement, FS_CardinalityType
    <3>4. Cardinality(Hub!SocketsOf(u)) < MaxPerUser
      BY <1>3, HubCardinality
    <3> QED
      BY <2>2, <3>1, <3>3, <3>4 DEF HubConstants
  <2> QED
    BY <2>1, <2>2
<1> QED
  BY <1>6, <1>7, <1>8, <1>9, <1>10 DEF HubInv

LEMMA DisconnectStep == ASSUME HubConstants, HubInv, NEW c \in Conns, Hub!Disconnect(c) PROVE HubInv'
<1>1. Hub!Closed \in Socket /\ Hub!Closed.user = None /\ Hub!Closed.topics = {} /\ Hub!Closed.outbox = <<>> /\ ~Hub!Closed.closing
  BY DEF Socket, Hub!Closed
<1>2. PICK k \in Socket : k = Hub!Closed /\ k.user = None /\ k.topics = {} /\ k.outbox = <<>> /\ ~k.closing
  BY <1>1
<1>3. /\ socket' = [socket EXCEPT ![c] = k] /\ heard' = [t \in Topics |-> heard[t] \ {c}]
      /\ reader' = [reader EXCEPT ![c].doing = "away"]
      /\ due' = [due EXCEPT ![c] = {}] /\ got' = [got EXCEPT ![c] = <<>>]
      /\ UNCHANGED <<member, gone, telling, events>>
  BY <1>2 DEF Hub!Disconnect, Hub!world
<1>4. /\ socket' \in [Conns -> Socket] /\ socket'[c] = k /\ due'[c] = {} /\ got'[c] = <<>>
      /\ \A d \in Conns \ {c} : socket'[d] = socket[d] /\ due'[d] = due[d] /\ got'[d] = got[d]
  BY <1>2, <1>3 DEF HubInv, HubTypes
<1>5. reader' \in [Conns -> At] /\ reader'[c].doing = "away" /\ \A d \in Conns \ {c} : reader'[d] = reader[d]
  <2>1. PICK r : r = [reader[c] EXCEPT !.doing = "away"]
    OBVIOUS
  <2>2. r \in At /\ r.doing = "away"
    BY <2>1, AtReader DEF At
  <2>3. reader' = [reader EXCEPT ![c] = r] /\ reader \in [Conns -> At]
    BY <1>3, <2>1 DEF HubInv, HubTypes
  <2> QED
    BY <2>2, <2>3
<1>6. HubTypes'
  <2>1. due' \in [Conns -> SUBSET Nat] /\ got' \in [Conns -> Seq(Nat)]
    BY <1>3 DEF HubInv, HubTypes
  <2> QED
    BY <1>3, <1>4, <1>5, <2>1 DEF HubInv, HubTypes
<1>7. PlaceInv'
  BY <1>2, <1>4, <1>5 DEF HubInv, PlaceInv, Open, Hub!Connected
<1>8. HeardInv'
  <2>1. ASSUME NEW t \in Topics PROVE heard'[t] = {d \in Conns : t \in socket'[d].topics}
    <3>1. heard[t] = {d \in Conns : t \in socket[d].topics} /\ heard'[t] = heard[t] \ {c}
      BY <1>3 DEF HubInv, HeardInv
    <3> QED
      BY <1>2, <1>4, <3>1
  <2>2. DOMAIN heard' = Topics
    BY <1>3
  <2> QED
    BY <2>1, <2>2 DEF HeardInv
<1>9. ASSUME NEW d \in Conns PROVE (Fits(socket[d]) /\ InTurn(d))'
  <2>1. CASE d # c
    BY <1>3, <1>4, <2>1, OtherSocket
  <2>2. CASE d = c
    <3>1. Fits(k)
      BY <1>2 DEF Fits, HubConstants
    <3>2. InTurnTo(events, <<>>, <<>>, {})
      BY DEF InTurnTo, Rising, Frames
    <3>3. Fits(socket'[c]) /\ InTurnTo(events', got'[c], socket'[c].outbox, due'[c])
      BY <1>2, <1>3, <1>4, <3>1, <3>2
    <3> QED
      BY <2>2, <3>3 DEF InTurn, Fits, InTurnTo, Rising, Frames
  <2> QED
    BY <2>1, <2>2
<1>10. ASSUME NEW v \in Readers PROVE Cardinality(Hub!SocketsOf(v)') <= MaxPerUser
  <2>1. Hub!SocketsOf(v)' \subseteq Hub!SocketsOf(v)
    BY <1>2, <1>4 DEF Hub!SocketsOf, HubConstants
  <2>2. IsFiniteSet(Hub!SocketsOf(v))
    BY FS_Subset DEF Hub!SocketsOf, HubConstants
  <2>3. /\ Cardinality(Hub!SocketsOf(v)') <= Cardinality(Hub!SocketsOf(v))
        /\ Cardinality(Hub!SocketsOf(v)') \in Nat /\ Cardinality(Hub!SocketsOf(v)) \in Nat
    BY <2>1, <2>2, FS_Subset, FS_CardinalityType
  <2>4. Cardinality(Hub!SocketsOf(v)) <= MaxPerUser
    BY DEF HubInv
  <2> QED
    BY <2>3, <2>4 DEF HubConstants
<1> QED
  BY <1>6, <1>7, <1>8, <1>9, <1>10 DEF HubInv

LEMMA WriteStep == ASSUME HubConstants, HubInv, NEW c \in Conns, Hub!Write(c) PROVE HubInv'
<1>1. socket[c] \in Socket /\ socket[c].outbox \in Seq(Nat) /\ got[c] \in Seq(Nat) /\ events \in Nat
  BY DEF HubInv, HubTypes, Socket
<1>2. PICK o \in Seq(Nat) : o = socket[c].outbox
  BY <1>1
<1>3. PICK g : g = IF Head(o) = 0 THEN got[c] ELSE Append(got[c], Head(o))
  OBVIOUS
<1>4. o # <<>> /\ Head(o) # Hub!Close
  BY <1>2 DEF Hub!Write
<1>5. /\ Tail(o) \in Seq(Nat) /\ Len(Tail(o)) <= Len(o) /\ Len(Tail(o)) \in Nat /\ Len(o) \in Nat /\ Head(o) \in Nat
      /\ g \in Seq(Nat)
  <2>1. Tail(o) \in Seq(Nat) /\ Len(Tail(o)) <= Len(o) /\ Len(Tail(o)) \in Nat /\ Len(o) \in Nat /\ Head(o) \in Nat
    BY <1>4
  <2> QED
    BY <1>1, <1>3, <2>1
<1> DEFINE k == [socket[c] EXCEPT !.outbox = Tail(o)]
<1>6. k \in Socket /\ k.user = socket[c].user /\ k.topics = socket[c].topics /\ k.closing = socket[c].closing
      /\ k.outbox = Tail(o)
  BY <1>1, <1>5 DEF Socket
<1>7. socket' = [socket EXCEPT ![c] = k] /\ got' = [got EXCEPT ![c] = g]
      /\ UNCHANGED <<member, gone, telling, heard, reader, events, due>>
  BY <1>2, <1>3 DEF Hub!Write, Hub!world, Hub!Control
<1> HIDE DEF k
<1>8. /\ socket' \in [Conns -> Socket] /\ socket'[c] = k /\ got'[c] = g /\ got' \in [Conns -> Seq(Nat)]
      /\ \A d \in Conns \ {c} : socket'[d] = socket[d] /\ got'[d] = got[d]
  BY <1>5, <1>6, <1>7 DEF HubInv, HubTypes
<1>9. ~socket[c].closing
  <2>1. socket[c].closing => o = <<Hub!Close>>
    BY <1>2 DEF HubInv, Fits
  <2> QED
    BY <1>4, <2>1
<1>10. HubTypes' /\ PlaceInv' /\ HeardInv'
  <2>1. HubTypes'
    BY <1>7, <1>8 DEF HubInv, HubTypes
  <2>2. \A d \in Conns : socket'[d].user = socket[d].user /\ socket'[d].topics = socket[d].topics
    BY <1>6, <1>8
  <2>3. PlaceInv'
    BY <1>7, <2>2 DEF HubInv, PlaceInv, Open, Hub!Connected
  <2>4. HeardInv'
    BY <1>7, <2>2 DEF HubInv, HeardInv
  <2> QED
    BY <2>1, <2>3, <2>4
<1>11. ASSUME NEW d \in Conns PROVE (Fits(socket[d]) /\ InTurn(d))'
  <2>1. CASE d # c
    BY <1>7, <1>8, <2>1, OtherSocket
  <2>2. CASE d = c
    <3>1. Fits(k)
      <4>1. Len(o) <= OutboxSize
        BY <1>2 DEF HubInv, Fits
      <4> QED
        BY <1>5, <1>6, <1>9, <4>1 DEF Fits, HubConstants
    <3>2. InTurnTo(events, got[c], o, due[c])
      BY <1>2, <1>9 DEF HubInv, InTurn
    <3>3. InTurnTo(events, g, Tail(o), due[c])
      BY <1>1, <1>3, <1>4, <3>2, WrittenInOrder
    <3>4. Fits(socket'[c]) /\ InTurnTo(events', got'[c], socket'[c].outbox, due'[c])
      BY <1>6, <1>7, <1>8, <3>1, <3>3
    <3> QED
      BY <2>2, <3>4 DEF InTurn, Fits, InTurnTo, Rising, Frames
  <2> QED
    BY <2>1, <2>2
<1>12. \A v \in Readers : Cardinality(Hub!SocketsOf(v)') <= MaxPerUser
  <2>1. \A v : Hub!SocketsOf(v)' = Hub!SocketsOf(v)
    BY <1>6, <1>8 DEF Hub!SocketsOf
  <2> QED
    BY <2>1 DEF HubInv
<1> QED
  BY <1>10, <1>11, <1>12 DEF HubInv

LEMMA HeardWritten ==
    ASSUME NEW h, NEW i, NEW t \in Topics, NEW S, DOMAIN h = Topics, i = [h EXCEPT ![t] = S]
    PROVE  DOMAIN i = Topics /\ \A s \in Topics : i[s] = IF s = t THEN S ELSE h[s]
OBVIOUS

\* The reader's steps, and the clock's.
LEMMA TellStep ==
    ASSUME HubConstants, HubInv, NEW c \in Conns,
           Hub!Age(c) \/ Hub!TokenRunsOut(c) \/ Hub!Ping(c)
    PROVE  HubInv'
<1>1. PICK k : k \in {[socket[c] EXCEPT !.age = "old"], [socket[c] EXCEPT !.age = "out"],
                      Hub!Shut(socket[c]), Hub!Send(socket[c], Hub!Control)}
               /\ socket' = [socket EXCEPT ![c] = k]
  <2>1. CASE Hub!Age(c)
    <3>1. CASE socket[c].age = "new"
      BY <2>1, <3>1 DEF Hub!Age
    <3>2. CASE socket[c].age # "new"
      BY <2>1, <3>2 DEF Hub!Age
    <3> QED
      BY <3>1, <3>2
  <2>2. CASE Hub!TokenRunsOut(c) \/ Hub!Ping(c)
    BY <2>2 DEF Hub!TokenRunsOut, Hub!Ping
  <2> QED
    BY <2>1, <2>2
<1>2. Open(c) /\ UNCHANGED <<member, gone, telling, heard, reader, events, due, got>>
  BY DEF Hub!Age, Hub!TokenRunsOut, Hub!Ping, Hub!Reads, Hub!world, Open
<1>3. /\ reader[c] \in At /\ reader = [reader EXCEPT ![c] = reader[c]]
      /\ socket[c] \in Socket /\ Fits(socket[c])
      /\ reader[c].doing \in {"authorize", "authorized"} => reader[c].topic \in Topics
  BY AtReader
<1>4. Told(socket[c], k) /\ k.topics = socket[c].topics
  <2>1. CASE k \in {[socket[c] EXCEPT !.age = "old"], [socket[c] EXCEPT !.age = "out"]}
    <3>1. k \in Socket /\ k.user = socket[c].user /\ k.outbox = socket[c].outbox /\ k.closing = socket[c].closing
          /\ k.topics = socket[c].topics
      BY <1>3, <2>1 DEF Socket
    <3> QED
      BY <1>3, <3>1, NothingTold
  <2>2. CASE k \in {Hub!Shut(socket[c]), Hub!Send(socket[c], Hub!Control)}
    BY <1>3, <2>2, ShutIsTold, SendIsTold
  <2> QED
    BY <1>1, <2>1, <2>2
<1>5. /\ DOMAIN heard' = Topics
      /\ \A t \in Topics : heard'[t] = IF t \in k.topics THEN heard[t] \cup {c} ELSE heard[t] \ {c}
  BY <1>2, <1>4, HeardStays
<1> QED
  BY <1>1, <1>2, <1>3, <1>4, <1>5, SocketTold

\* The reader of a socket that somebody has goes on, and the socket is as it was, or is
\* told something.
LEMMA ReaderGoesOn ==
    ASSUME HubInv, NEW c \in Conns, Open(c), NEW r \in At,
           r.doing \in {"authorize", "authorized"} => r.topic \in Topics,
           reader' = [reader EXCEPT ![c] = r],
           NEW k, Told(socket[c], k), k.topics = socket[c].topics, socket' = [socket EXCEPT ![c] = k],
           UNCHANGED <<heard, events, due, got, member, gone, telling>>
    PROVE  HubInv'
<1>1. /\ DOMAIN heard' = Topics
      /\ \A t \in Topics : heard'[t] = IF t \in k.topics THEN heard[t] \cup {c} ELSE heard[t] \ {c}
  BY HeardStays
<1> QED
  BY <1>1, SocketTold

LEMMA AskStep == ASSUME HubInv, NEW c \in Conns, NEW t \in Topics, Hub!AskSubscribe(c, t) PROVE HubInv'
<1>1. PICK r : r = [Hub!Waiting EXCEPT !.doing = "authorize", !.topic = t]
  OBVIOUS
<1>2. r \in At /\ r.topic = t
  BY <1>1 DEF At, Hub!Waiting
<1>3. reader' = [reader EXCEPT ![c] = r] /\ Open(c)
      /\ UNCHANGED <<socket, heard, events, due, got, member, gone, telling>>
  BY <1>1 DEF Hub!AskSubscribe, Hub!Reader, Hub!Reads, Hub!world, Open
<1>4. Told(socket[c], socket[c]) /\ socket' = [socket EXCEPT ![c] = socket[c]]
  BY <1>3, AtReader
<1> QED
  BY <1>2, <1>3, <1>4, ReaderGoesOn

LEMMA AuthorizeStep == ASSUME HubInv, NEW c \in Conns, Hub!Authorize(c) PROVE HubInv'
<1>1. PICK yes \in BOOLEAN : yes = Hub!MaySee(c, reader[c].topic)
  BY DEF Hub!MaySee
<1>2. PICK r : r = [reader[c] EXCEPT !.doing = "authorized", !.allowed = yes]
  OBVIOUS
<1>3. reader[c] \in At /\ reader[c].topic \in Topics /\ Open(c)
      /\ Told(socket[c], socket[c]) /\ socket = [socket EXCEPT ![c] = socket[c]]
  BY AtReader DEF Hub!Authorize
<1>4. r \in At /\ r.topic \in Topics
  BY <1>2, <1>3 DEF At
<1>5. reader' = [reader EXCEPT ![c] = r]
      /\ UNCHANGED <<socket, heard, events, due, got, member, gone, telling>>
  BY <1>1, <1>2 DEF Hub!Authorize, Hub!Reader, Hub!world
<1>6. socket' = [socket EXCEPT ![c] = socket[c]]
  BY <1>3, <1>5
<1> QED
  BY <1>3, <1>4, <1>5, <1>6, ReaderGoesOn

LEMMA WaitingReader == Hub!Waiting \in At /\ Hub!Waiting.doing = "receive"
BY DEF At, Hub!Waiting

LEMMA SubscribeStep == ASSUME HubConstants, HubInv, NEW c \in Conns, Hub!Subscribe(c) PROVE HubInv'
<1>1. PICK t \in Topics : t = reader[c].topic
  BY AtReader DEF Hub!Subscribe
<1>2. Open(c) /\ socket[c] \in Socket /\ Fits(socket[c])
  BY AtReader DEF Hub!Subscribe
<1>3. /\ reader' = [reader EXCEPT ![c] = Hub!Waiting]
      /\ UNCHANGED <<events, due, got, member, gone, telling>>
  BY DEF Hub!Subscribe, Hub!Reader, Hub!world
<1>4. CASE reader[c].allowed
  <2>1. PICK l : l = [socket[c] EXCEPT !.topics = socket[c].topics \cup {t}]
    OBVIOUS
  <2>2. l \in Socket /\ l.user = socket[c].user /\ l.outbox = socket[c].outbox /\ l.closing = socket[c].closing
        /\ l.topics = socket[c].topics \cup {t}
    BY <1>2, <2>1 DEF Socket
  <2>3. Told(socket[c], l) /\ Fits(l)
    BY <1>2, <2>2, NothingTold DEF Fits
  <2>4. PICK k : k = Hub!Send(l, Hub!Control)
    OBVIOUS
  <2>5. Told(l, k) /\ k.topics = l.topics
    BY <2>2, <2>3, <2>4, SendIsTold
  <2>6. Told(socket[c], k) /\ k.topics = socket[c].topics \cup {t}
    BY <1>2, <2>2, <2>3, <2>5, ToldTwice
  <2>7. socket' = [socket EXCEPT ![c] = k] /\ heard' = [heard EXCEPT ![t] = heard[t] \cup {c}]
    <3>1. /\ socket' = [socket EXCEPT ![c] = Hub!Send([socket[c] EXCEPT !.topics = socket[c].topics \cup {t}], Hub!Control)]
          /\ heard' = [heard EXCEPT ![t] = heard[t] \cup {c}]
      BY <1>1, <1>4 DEF Hub!Subscribe
    <3> QED
      BY <2>1, <2>4, <3>1
  <2>8. /\ DOMAIN heard' = Topics
        /\ \A s \in Topics : heard'[s] = IF s \in k.topics THEN heard[s] \cup {c} ELSE heard[s] \ {c}
    <3>1. DOMAIN heard = Topics /\ \A s \in Topics : heard[s] = {d \in Conns : s \in socket[d].topics}
      BY DEF HubInv, HeardInv
    <3>2. DOMAIN heard' = Topics /\ \A s \in Topics : heard'[s] = IF s = t THEN heard[t] \cup {c} ELSE heard[s]
      BY <2>7, <3>1, HeardWritten
    <3> QED
      BY <2>6, <3>1, <3>2
  <2> QED
    BY <1>2, <1>3, <2>6, <2>7, <2>8, SocketTold, WaitingReader
<1>5. CASE ~reader[c].allowed
  <2>1. PICK k : k = Hub!Send(socket[c], Hub!Control)
    OBVIOUS
  <2>2. Told(socket[c], k) /\ k.topics = socket[c].topics
    BY <1>2, <2>1, SendIsTold
  <2>3. socket' = [socket EXCEPT ![c] = k] /\ heard' = heard
    BY <1>5, <2>1 DEF Hub!Subscribe
  <2> QED
    BY <1>2, <1>3, <2>2, <2>3, ReaderGoesOn, WaitingReader
<1> QED
  BY <1>4, <1>5

\* A socket goes from a topic, and hears no more of it.
LEMMA LeavesTopic ==
    ASSUME HubConstants, HubInv, NEW c \in Conns, Open(c), NEW t \in Topics,
           socket' = [socket EXCEPT ![c] = Hub!LeaveTopics(socket[c], {t})],
           heard' = [heard EXCEPT ![t] = heard[t] \ {c}],
           NEW r \in At, r.doing \in {"authorize", "authorized"} => r.topic \in Topics,
           reader' = [reader EXCEPT ![c] = r],
           UNCHANGED <<events, due, got, member, gone, telling>>
    PROVE  HubInv'
<1>1. PICK k : k = Hub!LeaveTopics(socket[c], {t})
  OBVIOUS
<1>2. socket[c] \in Socket /\ Fits(socket[c])
  BY AtReader
<1>3. Told(socket[c], k) /\ k.topics = socket[c].topics \ {t}
  BY <1>1, <1>2, LeavingIsTold
<1>4. /\ DOMAIN heard' = Topics
      /\ \A s \in Topics : heard'[s] = IF s \in k.topics THEN heard[s] \cup {c} ELSE heard[s] \ {c}
  <2>1. DOMAIN heard = Topics /\ \A s \in Topics : heard[s] = {d \in Conns : s \in socket[d].topics}
    BY DEF HubInv, HeardInv
  <2>2. DOMAIN heard' = Topics /\ \A s \in Topics : heard'[s] = IF s = t THEN heard[t] \ {c} ELSE heard[s]
    BY <2>1, HeardWritten
  <2>3. ASSUME NEW s \in Topics PROVE heard'[s] = IF s \in k.topics THEN heard[s] \cup {c} ELSE heard[s] \ {c}
    <3>1. CASE s = t
      BY <1>3, <2>2, <3>1
    <3>2. CASE s # t
      <4>1. heard'[s] = heard[s] /\ (s \in k.topics <=> s \in socket[c].topics)
        BY <1>3, <2>2, <3>2
      <4>2. c \in heard[s] <=> s \in socket[c].topics
        BY <2>1
      <4> QED
        BY <4>1, <4>2
    <3> QED
      BY <3>1, <3>2
  <2> QED
    BY <2>2, <2>3
<1> QED
  BY <1>1, <1>3, <1>4, SocketTold

LEMMA UnsubscribeStep ==
    ASSUME HubConstants, HubInv, NEW c \in Conns, NEW t \in Topics, Hub!Unsubscribe(c, t) PROVE HubInv'
<1>1. Open(c) /\ UNCHANGED <<reader, events, due, got, member, gone, telling>>
      /\ socket' = [socket EXCEPT ![c] = Hub!LeaveTopics(socket[c], {t})]
      /\ heard' = [heard EXCEPT ![t] = heard[t] \ {c}]
  BY DEF Hub!Unsubscribe, Hub!Reads, Hub!world, Open
<1>2. reader[c] \in At /\ reader' = [reader EXCEPT ![c] = reader[c]]
      /\ (reader[c].doing \in {"authorize", "authorized"} => reader[c].topic \in Topics)
  BY <1>1, AtReader
<1> QED
  BY <1>1, <1>2, LeavesTopic

LEMMA ReauthStep == ASSUME HubInv, NEW c \in Conns, Hub!Reauth(c) PROVE HubInv'
<1>1. PICK k : k = [socket[c] EXCEPT !.age = "new"]
  OBVIOUS
<1>2. Open(c) /\ socket' = [socket EXCEPT ![c] = k] /\ UNCHANGED <<heard, events, due, got, member, gone, telling>>
  BY <1>1 DEF Hub!Reauth, Hub!Reads, Hub!world, Open
<1>3. socket[c] \in Socket /\ Fits(socket[c]) /\ reader[c] \in At /\ reader = [reader EXCEPT ![c] = reader[c]]
      /\ (reader[c].doing \in {"authorize", "authorized"} => reader[c].topic \in Topics)
  BY AtReader
<1>4. Told(socket[c], k) /\ k.topics = socket[c].topics
  <2>1. k \in Socket /\ k.user = socket[c].user /\ k.outbox = socket[c].outbox /\ k.closing = socket[c].closing
        /\ k.topics = socket[c].topics
    BY <1>1, <1>3 DEF Socket
  <2> QED
    BY <1>3, <2>1, NothingTold
<1>5. CASE UNCHANGED reader
  BY <1>2, <1>3, <1>4, <1>5, ReaderGoesOn
<1>6. ASSUME NEW t \in socket[c].topics,
             Hub!Reader(c, [Hub!Waiting EXCEPT !.doing = "authorize", !.topic = t, !.left = socket[c].topics])
      PROVE  HubInv'
  <2>1. PICK r : r = [Hub!Waiting EXCEPT !.doing = "authorize", !.topic = t, !.left = socket[c].topics]
    OBVIOUS
  <2>2. t \in Topics /\ socket[c].topics \subseteq Topics
    BY <1>3 DEF Socket
  <2>3. r \in At /\ r.topic = t
    BY <2>1, <2>2 DEF At, Hub!Waiting
  <2>4. reader' = [reader EXCEPT ![c] = r]
    BY <1>6, <2>1 DEF Hub!Reader
  <2> QED
    BY <1>2, <1>4, <2>2, <2>3, <2>4, ReaderGoesOn
<1> QED
  BY <1>5, <1>6 DEF Hub!Reauth

LEMMA RecheckStep == ASSUME HubConstants, HubInv, NEW c \in Conns, Hub!Recheck(c) PROVE HubInv'
<1>1. PICK t \in Topics : t = reader[c].topic
  BY AtReader DEF Hub!Recheck
<1>2. Open(c) /\ reader[c] \in At /\ Told(socket[c], socket[c]) /\ socket = [socket EXCEPT ![c] = socket[c]]
  BY AtReader DEF Hub!Recheck
<1>3. UNCHANGED <<events, due, got, member, gone, telling>>
  BY DEF Hub!Recheck, Hub!world
<1>4. PICK r \in At : reader' = [reader EXCEPT ![c] = r] /\ (r.doing \in {"authorize", "authorized"} => r.topic \in Topics)
  <2>1. PICK left : left = reader[c].left \ {t}
    OBVIOUS
  <2>2. left \subseteq Topics
    BY <1>2, <2>1 DEF At
  <2>3. CASE Hub!Reader(c, Hub!Waiting)
    BY <2>3, WaitingReader DEF Hub!Reader
  <2>4. ASSUME NEW n \in left, Hub!Reader(c, [Hub!Waiting EXCEPT !.doing = "authorize", !.topic = n, !.left = left])
        PROVE  \E r \in At : reader' = [reader EXCEPT ![c] = r]
                             /\ (r.doing \in {"authorize", "authorized"} => r.topic \in Topics)
    <3>1. PICK r : r = [Hub!Waiting EXCEPT !.doing = "authorize", !.topic = n, !.left = left]
      OBVIOUS
    <3>2. r \in At /\ r.topic \in Topics
      BY <2>2, <3>1 DEF At, Hub!Waiting
    <3> QED
      BY <2>4, <3>1, <3>2 DEF Hub!Reader
  <2> QED
    BY <1>1, <2>1, <2>3, <2>4 DEF Hub!Recheck
<1>5. CASE reader[c].allowed
  <2>1. socket' = [socket EXCEPT ![c] = socket[c]] /\ heard' = heard
    BY <1>2, <1>5 DEF Hub!Recheck
  <2> QED
    BY <1>2, <1>3, <1>4, <2>1, ReaderGoesOn
<1>6. CASE ~reader[c].allowed
  <2>1. socket' = [socket EXCEPT ![c] = Hub!LeaveTopics(socket[c], {t})] /\ heard' = [heard EXCEPT ![t] = heard[t] \ {c}]
    BY <1>1, <1>6 DEF Hub!Recheck
  <2> QED
    BY <1>2, <1>3, <1>4, <2>1, LeavesTopic
<1> QED
  BY <1>5, <1>6

-----------------------------------------------------------------------------
\* Steps of many sockets.
LEMMA EventSent ==
    ASSUME HubConstants, NEW k \in Socket, Fits(k), NEW n \in Nat
    PROVE  LET l == Hub!Send(k, n)
           IN  /\ l \in Socket /\ l.user = k.user /\ l.topics = k.topics /\ Fits(l)
               /\ l.closing \/ (~k.closing /\ l.outbox = Append(k.outbox, n))
<1>1. CASE k.closing
  BY <1>1 DEF Hub!Send
<1>2. CASE ~k.closing /\ Len(k.outbox) = OutboxSize
  <2>1. Hub!Send(k, n) = Hub!Shut(k)
    BY <1>2 DEF Hub!Send
  <2>2. Hub!Shut(k).closing
    BY <1>2 DEF Hub!Shut, Socket
  <2> QED
    BY <2>1, <2>2, ShutIsTold DEF Told
<1>3. CASE ~k.closing /\ Len(k.outbox) # OutboxSize
  <2>1. PICK o : o = Append(k.outbox, n)
    OBVIOUS
  <2>2. PICK l : l = [k EXCEPT !.outbox = o]
    OBVIOUS
  <2>3. Hub!Send(k, n) = l
    BY <1>3, <2>1, <2>2 DEF Hub!Send
  <2>4. o \in Seq(Nat) /\ Len(o) = Len(k.outbox) + 1 /\ Len(k.outbox) \in Nat
    BY <2>1 DEF Socket
  <2>5. l \in Socket /\ l.user = k.user /\ l.topics = k.topics /\ l.closing = k.closing /\ l.outbox = o
    BY <2>2, <2>4 DEF Socket
  <2>6. Fits(l)
    BY <1>3, <2>4, <2>5 DEF Fits, HubConstants
  <2> QED
    BY <1>3, <2>1, <2>3, <2>5, <2>6
<1> QED
  BY <1>1, <1>2, <1>3 DEF Socket

LEMMA PublishStep ==
    ASSUME HubConstants, HubInv, NEW t \in Topics, NEW u \in Readers \cup {None}, Hub!Publish(t, u)
    PROVE  HubInv'
<1>1. PICK n : n = events + 1
  OBVIOUS
<1>2. events \in Nat /\ n \in Nat /\ n <= MaxEvents /\ events' = n
      /\ UNCHANGED <<member, gone, telling, heard, reader, got>>
  BY <1>1 DEF HubInv, HubTypes, Hub!Publish, Hub!world
<1> DEFINE Out(c) == t \in socket[c].topics /\ socket[c].user # u
<1>3. /\ socket' = [c \in Conns |-> IF Out(c) THEN Hub!Send(socket[c], n) ELSE socket[c]]
      /\ due' = [c \in Conns |-> IF Out(c) THEN due[c] \cup {n} ELSE due[c]]
  <2>1. ASSUME NEW c \in Conns
        PROVE  /\ c \in {d \in heard[t] : socket[d].user # u} <=> Out(c)
               /\ Hub!Connected(c) /\ t \in socket[c].topics /\ socket[c].user # u <=> Out(c)
    <3>1. heard[t] = {d \in Conns : t \in socket[d].topics}
      BY DEF HubInv, HeardInv
    <3>2. t \in socket[c].topics => Hub!Connected(c)
      BY DEF HubInv, PlaceInv, Open
    <3> QED
      BY <3>1, <3>2
  <2>2. socket' = [c \in Conns |-> IF c \in {d \in heard[t] : socket[d].user # u} THEN Hub!Send(socket[c], n)
                                   ELSE socket[c]]
    BY <1>1 DEF Hub!Publish
  <2>3. due' = [c \in Conns |-> IF Hub!Connected(c) /\ t \in socket[c].topics /\ socket[c].user # u
                                THEN due[c] \cup {n} ELSE due[c]]
    BY <1>1 DEF Hub!Publish
  <2> HIDE DEF Out
  <2> QED
    BY <2>1, <2>2, <2>3
<1>4. ASSUME NEW c \in Conns
      PROVE  /\ socket'[c] \in Socket /\ socket'[c].user = socket[c].user /\ socket'[c].topics = socket[c].topics
             /\ (Fits(socket[c]) /\ InTurn(c))'
  <2>1. socket[c] \in Socket /\ Fits(socket[c]) /\ InTurn(c) /\ got[c] \in Seq(Nat) /\ socket[c].outbox \in Seq(Nat)
    BY DEF HubInv, HubTypes, Socket
  <2>2. CASE Out(c)
    <3>1. socket'[c] = Hub!Send(socket[c], n) /\ due'[c] = due[c] \cup {n}
      BY <1>3, <2>2
    <3>2. PICK l : l = socket'[c] /\ l \in Socket /\ l.user = socket[c].user /\ l.topics = socket[c].topics /\ Fits(l)
                   /\ (l.closing \/ (~socket[c].closing /\ l.outbox = Append(socket[c].outbox, n)))
      BY <1>2, <2>1, <3>1, EventSent
    <3>3. l.closing \/ InTurnTo(n, got[c], l.outbox, due'[c])
      <4>1. CASE ~socket[c].closing /\ l.outbox = Append(socket[c].outbox, n)
        <5>1. InTurnTo(events, got[c], socket[c].outbox, due[c])
          BY <2>1, <4>1 DEF InTurn
        <5>2. InTurnTo(events + 1, got[c], Append(socket[c].outbox, events + 1), due[c] \cup {events + 1})
          BY <1>2, <2>1, <5>1, NextEventLast
        <5> QED
          BY <1>1, <3>1, <4>1, <5>2
      <4> QED
        BY <3>2, <4>1
    <3>4. Fits(socket'[c]) /\ (socket'[c].closing \/ InTurnTo(events', got'[c], socket'[c].outbox, due'[c]))
      BY <1>2, <3>2, <3>3
    <3> QED
      BY <3>2, <3>4 DEF Fits, InTurn, InTurnTo, Rising, Frames
  <2>3. CASE ~Out(c)
    <3>1. socket'[c] = socket[c] /\ due'[c] = due[c]
      BY <1>3, <2>3
    <3>2. socket[c].closing \/ InTurnTo(n, got[c], socket[c].outbox, due[c])
      BY <1>1, <1>2, <2>1, LaterEvents DEF InTurn
    <3>4. Fits(socket'[c]) /\ (socket'[c].closing \/ InTurnTo(events', got'[c], socket'[c].outbox, due'[c]))
      BY <1>2, <2>1, <3>1, <3>2
    <3> QED
      BY <2>1, <3>1, <3>4 DEF Fits, InTurn, InTurnTo, Rising, Frames
  <2> QED
    BY <2>2, <2>3
<1>5. HubTypes'
  <2>1. socket' \in [Conns -> Socket]
    BY <1>3, <1>4
  <2>2. due' \in [Conns -> SUBSET Nat]
    BY <1>2, <1>3 DEF HubInv, HubTypes
  <2>3. events' \in 0..MaxEvents
    BY <1>2 DEF HubConstants
  <2> QED
    BY <1>2, <2>1, <2>2, <2>3 DEF HubInv, HubTypes
<1> HIDE DEF Out
<1>6. PlaceInv'
  BY <1>2, <1>4 DEF HubInv, PlaceInv, Open, Hub!Connected
<1>7. HeardInv'
  BY <1>2, <1>4 DEF HubInv, HeardInv
<1>8. \A v \in Readers : Cardinality(Hub!SocketsOf(v)') <= MaxPerUser
  <2>1. \A v : Hub!SocketsOf(v)' = Hub!SocketsOf(v)
    BY <1>4 DEF Hub!SocketsOf
  <2> QED
    BY <2>1 DEF HubInv
<1>9. \A c \in Conns : (Fits(socket[c]) /\ InTurn(c))'
  BY <1>4
<1> QED
  BY <1>5, <1>6, <1>7, <1>8, <1>9 DEF HubInv

\* Readers stay where they are, and some of the sockets go from topics.
LEMMA ManyTold ==
    ASSUME HubInv,
           socket' \in [Conns -> Socket],
           \A c \in Conns : Told(socket[c], socket'[c]) /\ socket'[c].topics \subseteq socket[c].topics,
           HeardInv', UNCHANGED <<reader, events, due, got>>,
           member' \subseteq Readers, gone' \subseteq Topics, telling' \subseteq Readers \cup Topics
    PROVE  HubInv'
<1>1. reader' \in [Conns -> At]
      /\ \A c \in Conns : reader'[c].doing \in {"authorize", "authorized"} => Open(c) /\ reader'[c].topic \in Topics
  BY DEF HubInv, HubTypes, PlaceInv
<1>2. \A c \in Conns : ~Open(c) => socket'[c].topics = {}
  BY DEF HubInv, PlaceInv
<1> QED
  BY <1>1, <1>2, SocketsTold

LEMMA RevokeStep == ASSUME HubConstants, HubInv, NEW u \in Readers, Hub!Revoke(u) PROVE HubInv'
<1>1. /\ socket' = [c \in Conns |-> IF socket[c].user = u THEN Hub!LeaveTopics(socket[c], socket[c].topics) ELSE socket[c]]
      /\ heard' = [t \in Topics |-> heard[t] \ Hub!SocketsOf(u)]
      /\ telling' = telling \ {u} /\ UNCHANGED <<member, gone, reader, events, due, got>>
  BY DEF Hub!Revoke
<1>2. ASSUME NEW c \in Conns
      PROVE  Told(socket[c], socket'[c]) /\ socket'[c].topics = IF socket[c].user = u THEN {} ELSE socket[c].topics
  <2>1. socket[c] \in Socket /\ Fits(socket[c]) /\ Told(socket[c], socket[c]) /\ socket[c].topics \subseteq Topics
    BY AtReader DEF Socket
  <2>2. CASE socket[c].user = u
    <3>1. socket'[c] = Hub!LeaveTopics(socket[c], socket[c].topics)
      BY <1>1, <2>2
    <3>2. Told(socket[c], socket'[c]) /\ socket'[c].topics = socket[c].topics \ socket[c].topics
      BY <2>1, <3>1, LeavingIsTold
    <3> QED
      BY <2>2, <3>2
  <2>3. CASE socket[c].user # u
    BY <1>1, <2>1, <2>3
  <2> QED
    BY <2>2, <2>3
<1>3. socket' \in [Conns -> Socket]
  BY <1>1, <1>2 DEF Told
<1>4. HeardInv'
  <2>1. ASSUME NEW t \in Topics PROVE heard'[t] = {c \in Conns : t \in socket'[c].topics}
    <3>1. heard[t] = {c \in Conns : t \in socket[c].topics} /\ heard'[t] = heard[t] \ {c \in Conns : socket[c].user = u}
      BY <1>1 DEF HubInv, HeardInv, Hub!SocketsOf
    <3> QED
      BY <1>2, <3>1
  <2> QED
    BY <1>1, <2>1 DEF HeardInv
<1>5. member' \subseteq Readers /\ gone' \subseteq Topics /\ telling' \subseteq Readers \cup Topics
  BY <1>1 DEF HubInv, HubTypes
<1> QED
  BY <1>1, <1>2, <1>3, <1>4, <1>5, ManyTold

LEMMA CloseTopicStep == ASSUME HubConstants, HubInv, NEW t \in Topics, Hub!CloseTopic(t) PROVE HubInv'
<1>1. /\ socket' = [c \in Conns |-> IF c \in heard[t] THEN Hub!LeaveTopics(Hub!Send(socket[c], Hub!Control), {t})
                                    ELSE socket[c]]
      /\ heard' = [heard EXCEPT ![t] = {}]
      /\ telling' = telling \ {t} /\ UNCHANGED <<member, gone, reader, events, due, got>>
  BY DEF Hub!CloseTopic
<1>2. DOMAIN heard = Topics /\ \A s \in Topics : heard[s] = {c \in Conns : s \in socket[c].topics}
  BY DEF HubInv, HeardInv
<1>3. ASSUME NEW c \in Conns
      PROVE  Told(socket[c], socket'[c]) /\ socket'[c].topics = socket[c].topics \ {t}
  <2>1. socket[c] \in Socket /\ Fits(socket[c]) /\ Told(socket[c], socket[c])
    BY AtReader
  <2>2. CASE t \in socket[c].topics
    <3>1. PICK l : l = Hub!Send(socket[c], Hub!Control)
      OBVIOUS
    <3>2. Told(socket[c], l) /\ l.topics = socket[c].topics
      BY <2>1, <3>1, SendIsTold
    <3>3. l \in Socket /\ Fits(l)
      BY <3>2 DEF Told
    <3>4. PICK m : m = Hub!LeaveTopics(l, {t})
      OBVIOUS
    <3>5. Told(l, m) /\ m.topics = l.topics \ {t}
      BY <3>3, <3>4, LeavingIsTold
    <3>6. Told(socket[c], m)
      BY <2>1, <3>2, <3>5, ToldTwice
    <3>7. socket'[c] = m
      BY <1>1, <1>2, <2>2, <3>1, <3>4
    <3> QED
      BY <3>2, <3>5, <3>6, <3>7
  <2>3. CASE t \notin socket[c].topics
    BY <1>1, <1>2, <2>1, <2>3
  <2> QED
    BY <2>2, <2>3
<1>4. socket' \in [Conns -> Socket]
  BY <1>1, <1>3 DEF Told
<1>5. HeardInv'
  <2>1. DOMAIN heard' = Topics /\ \A s \in Topics : heard'[s] = IF s = t THEN {} ELSE heard[s]
    BY <1>1, <1>2, HeardWritten
  <2>2. ASSUME NEW s \in Topics PROVE heard'[s] = {c \in Conns : s \in socket'[c].topics}
    BY <1>2, <1>3, <2>1
  <2> QED
    BY <2>1, <2>2 DEF HeardInv
<1>6. member' \subseteq Readers /\ gone' \subseteq Topics /\ telling' \subseteq Readers \cup Topics
  BY <1>1 DEF HubInv, HubTypes
<1> QED
  BY <1>1, <1>3, <1>4, <1>5, <1>6, ManyTold

-----------------------------------------------------------------------------
LEMMA HubInit == ASSUME HubConstants, Hub!Init PROVE HubInv
<1>1. Hub!Closed \in Socket /\ Hub!Closed.user = None /\ Hub!Closed.topics = {} /\ Hub!Closed.outbox = <<>> /\ ~Hub!Closed.closing
  BY DEF Socket, Hub!Closed
<1>2. PICK k \in Socket : k = Hub!Closed /\ k.user = None /\ k.topics = {} /\ k.outbox = <<>> /\ ~k.closing
  BY <1>1
<1>3. PICK r : r = [Hub!Waiting EXCEPT !.doing = "away"]
  OBVIOUS
<1>4. r \in At /\ r.doing = "away"
  BY <1>3 DEF At, Hub!Waiting
<1>5. /\ socket = [c \in Conns |-> k] /\ reader = [c \in Conns |-> r] /\ heard = [t \in Topics |-> {}] /\ events = 0
      /\ due = [c \in Conns |-> {}] /\ got = [c \in Conns |-> <<>>]
      /\ member = Readers /\ gone = {} /\ telling = {}
  BY <1>2, <1>3 DEF Hub!Init
<1>6. HubTypes
  <2>1. got \in [Conns -> Seq(Nat)]
    BY <1>5
  <2>2. socket \in [Conns -> Socket] /\ reader \in [Conns -> At] /\ due \in [Conns -> SUBSET Nat]
    BY <1>4, <1>5
  <2> QED
    BY <1>5, <2>1, <2>2 DEF HubTypes, HubConstants
<1>7. PlaceInv /\ HeardInv
  BY <1>2, <1>4, <1>5 DEF PlaceInv, HeardInv
<1>8. ASSUME NEW c \in Conns PROVE Fits(socket[c]) /\ InTurn(c)
  <2>1. Fits(k)
    BY <1>2 DEF Fits, HubConstants
  <2>2. InTurnTo(0, <<>>, <<>>, {})
    BY DEF InTurnTo, Rising, Frames
  <2> QED
    BY <1>2, <1>5, <2>1, <2>2 DEF InTurn
<1>9. ASSUME NEW u \in Readers PROVE Cardinality(Hub!SocketsOf(u)) <= MaxPerUser
  <2>1. Hub!SocketsOf(u) = {}
    BY <1>2, <1>5 DEF Hub!SocketsOf, HubConstants
  <2> QED
    BY <2>1, FS_EmptySet DEF HubConstants
<1> QED
  BY <1>6, <1>7, <1>8, <1>9 DEF HubInv

LEMMA HubSocketStep ==
    ASSUME HubConstants, HubInv, NEW c \in Conns,
           \/ Hub!Step(c) \/ Hub!Disconnect(c) \/ Hub!Write(c) \/ Hub!Ping(c) \/ Hub!Reauth(c)
           \/ \E u \in Readers : Hub!Open(c, u)
           \/ \E t \in Topics : Hub!AskSubscribe(c, t) \/ Hub!Unsubscribe(c, t)
    PROVE  HubInv'
<1>1. CASE Hub!Step(c)
  BY <1>1, AuthorizeStep, SubscribeStep, RecheckStep, TellStep DEF Hub!Step
<1>2. CASE Hub!Disconnect(c) \/ Hub!Write(c) \/ Hub!Ping(c) \/ Hub!Reauth(c)
  BY <1>2, DisconnectStep, WriteStep, TellStep, ReauthStep
<1>3. CASE \E u \in Readers : Hub!Open(c, u)
  BY <1>3, OpenStep
<1>4. CASE \E t \in Topics : Hub!AskSubscribe(c, t) \/ Hub!Unsubscribe(c, t)
  BY <1>4, AskStep, UnsubscribeStep
<1> QED
  BY <1>1, <1>2, <1>3, <1>4

LEMMA HubTopicStep ==
    ASSUME HubConstants, HubInv, NEW t \in Topics,
           Hub!Dismiss(t) \/ Hub!CloseTopic(t) \/ Hub!NeverTold(t) \/ \E u \in Readers \cup {None} : Hub!Publish(t, u)
    PROVE  HubInv'
<1>1. CASE Hub!Dismiss(t) \/ Hub!NeverTold(t)
  <2>1. UNCHANGED <<socket, heard, reader, events, due, got>>
        /\ member' \subseteq Readers /\ gone' \subseteq Topics /\ telling' \subseteq Readers \cup Topics
    BY <1>1 DEF HubInv, HubTypes, Hub!Dismiss, Hub!NeverTold
  <2> QED
    BY <2>1, WorldStep
<1>2. CASE Hub!CloseTopic(t)
  BY <1>2, CloseTopicStep
<1>3. CASE \E u \in Readers \cup {None} : Hub!Publish(t, u)
  BY <1>3, PublishStep
<1> QED
  BY <1>1, <1>2, <1>3

LEMMA HubReaderStep ==
    ASSUME HubConstants, HubInv, NEW u \in Readers,
           Hub!Leave(u) \/ Hub!Rejoin(u) \/ Hub!Revoke(u) \/ Hub!NeverTold(u)
    PROVE  HubInv'
<1>1. CASE Hub!Leave(u) \/ Hub!Rejoin(u) \/ Hub!NeverTold(u)
  <2>1. UNCHANGED <<socket, heard, reader, events, due, got>>
        /\ member' \subseteq Readers /\ gone' \subseteq Topics /\ telling' \subseteq Readers \cup Topics
    BY <1>1 DEF HubInv, HubTypes, Hub!Leave, Hub!Rejoin, Hub!NeverTold
  <2> QED
    BY <2>1, WorldStep
<1>2. CASE Hub!Revoke(u)
  BY <1>2, RevokeStep
<1> QED
  BY <1>1, <1>2

LEMMA HubStep == ASSUME HubConstants, HubInv, [Hub!Next]_Hub!vars PROVE HubInv'
<1>1. CASE Hub!Next
  BY <1>1, HubSocketStep, HubTopicStep, HubReaderStep DEF Hub!Next
<1>2. CASE UNCHANGED Hub!vars
  <2>1. UNCHANGED <<socket, heard, reader, events, due, got, member, gone, telling>>
    BY <1>2 DEF Hub!vars
  <2>2. member \subseteq Readers /\ gone \subseteq Topics /\ telling \subseteq Readers \cup Topics
    BY DEF HubInv, HubTypes
  <2> QED
    BY <2>1, <2>2, WorldStep
<1> QED
  BY <1>1, <1>2

\* What is written and what waits, put together, are the events that were due, in order.
LEMMA WrittenThenWaiting ==
    ASSUME NEW n \in Nat, NEW g \in Seq(Nat), NEW o \in Seq(Nat), NEW d, InTurnTo(n, g, o, d)
    PROVE  LET sent == g \o o
           IN  /\ {sent[i] : i \in DOMAIN sent} \ {0} = d
               /\ \A i, j \in DOMAIN sent : i < j /\ 0 \notin {sent[i], sent[j]} => sent[i] < sent[j]
<1> DEFINE sent == g \o o
<1>1. /\ Len(g) \in Nat /\ Len(o) \in Nat /\ DOMAIN sent = 1..(Len(g) + Len(o))
      /\ \A i \in 1..(Len(g) + Len(o)) : sent[i] = IF i <= Len(g) THEN g[i] ELSE o[i - Len(g)]
  OBVIOUS
<1>2. Rising(n, g, o) /\ d = Frames(g) \cup (Frames(o) \ {0})
  BY DEF InTurnTo
<1> HIDE DEF sent
<1>3. ASSUME NEW i \in DOMAIN sent
      PROVE  (i \in 1..Len(g) /\ sent[i] = g[i]) \/ (i - Len(g) \in 1..Len(o) /\ sent[i] = o[i - Len(g)])
  BY <1>1
<1>4. \A i \in 1..Len(g) : i \in DOMAIN sent /\ sent[i] = g[i]
  BY <1>1
<1>5. ASSUME NEW i \in 1..Len(o) PROVE i + Len(g) \in DOMAIN sent /\ sent[i + Len(g)] = o[i]
  <2>1. PICK j \in Nat : j = i + Len(g)
    BY <1>1
  <2>2. j \in 1..(Len(g) + Len(o)) /\ ~(j <= Len(g)) /\ j - Len(g) = i
    BY <1>1, <2>1
  <2>3. sent[j] = o[j - Len(g)]
    BY <1>1, <2>2
  <2> QED
    BY <1>1, <2>1, <2>2, <2>3
<1>6. {sent[i] : i \in DOMAIN sent} = Frames(g) \cup Frames(o)
  <2>1. ASSUME NEW i \in DOMAIN sent PROVE sent[i] \in Frames(g) \cup Frames(o)
    BY <1>3 DEF Frames
  <2>2. ASSUME NEW x \in Frames(g) PROVE x \in {sent[i] : i \in DOMAIN sent}
    BY <1>4, <2>2 DEF Frames
  <2>3. ASSUME NEW x \in Frames(o) PROVE x \in {sent[i] : i \in DOMAIN sent}
    BY <1>5, <2>3 DEF Frames
  <2> QED
    BY <2>1, <2>2, <2>3
<1>7. 0 \notin Frames(g)
  BY <1>2 DEF Frames, Rising
<1>8. ASSUME NEW i \in DOMAIN sent, NEW j \in DOMAIN sent, i < j, sent[i] # 0, sent[j] # 0 PROVE sent[i] < sent[j]
  <2>1. CASE j \in 1..Len(g)
    <3>1. i \in 1..Len(g) /\ sent[i] = g[i] /\ sent[j] = g[j]
      BY <1>1, <1>8, <2>1
    <3> QED
      BY <1>2, <1>8, <2>1, <3>1 DEF Rising
  <2>2. CASE i \in 1..Len(g) /\ j \notin 1..Len(g)
    <3>1. sent[i] = g[i] /\ sent[j] = o[j - Len(g)] /\ j - Len(g) \in 1..Len(o)
      BY <1>3, <1>4, <2>2
    <3> QED
      BY <1>2, <1>8, <2>2, <3>1 DEF Rising
  <2>3. CASE i \notin 1..Len(g) /\ j \notin 1..Len(g)
    <3>1. /\ sent[i] = o[i - Len(g)] /\ i - Len(g) \in 1..Len(o)
          /\ sent[j] = o[j - Len(g)] /\ j - Len(g) \in 1..Len(o)
      BY <1>3, <2>3
    <3>2. i - Len(g) < j - Len(g)
      BY <1>1, <1>8
    <3> QED
      BY <1>2, <1>8, <3>1, <3>2 DEF Rising
  <2> QED
    BY <2>1, <2>2, <2>3
<1> QED
  BY <1>2, <1>6, <1>7, <1>8 DEF sent

LEMMA HubHolds == ASSUME HubConstants, HubInv PROVE Hub!TypeOK /\ Hub!NoSilentGap
<1>1. Hub!TypeOK
  <2>1. member \subseteq Readers /\ gone \subseteq Topics /\ telling \subseteq Readers \cup Topics
    BY DEF HubInv, HubTypes
  <2>2. ASSUME NEW c \in Conns
        PROVE  /\ socket[c].topics \subseteq Topics /\ Len(socket[c].outbox) <= OutboxSize
               /\ socket[c].closing => socket[c].outbox = <<Hub!Close>>
    BY DEF HubInv, HubTypes, Socket, Fits
  <2>3. \A t \in Topics : heard[t] = {c \in Conns : t \in socket[c].topics}
    BY DEF HubInv, HeardInv
  <2>4. \A u \in Readers : Hub!Cardinality(Hub!SocketsOf(u)) <= MaxPerUser
    BY HubCardinality DEF HubInv
  <2> QED
    BY <2>1, <2>2, <2>3, <2>4 DEF Hub!TypeOK
<1>2. Hub!NoSilentGap
  <2>1. ASSUME NEW c \in Conns, ~socket[c].closing
        PROVE  LET sent == got[c] \o socket[c].outbox
               IN  /\ {sent[i] : i \in DOMAIN sent} \ {Hub!Control} = due[c]
                   /\ \A i, j \in DOMAIN sent : i < j /\ Hub!Control \notin {sent[i], sent[j]} => sent[i] < sent[j]
    <3>1. InTurnTo(events, got[c], socket[c].outbox, due[c])
      BY <2>1 DEF HubInv, InTurn
    <3>2. events \in Nat /\ got[c] \in Seq(Nat) /\ socket[c].outbox \in Seq(Nat)
      BY DEF HubInv, HubTypes, Socket
    <3> QED
      BY <3>1, <3>2, WrittenThenWaiting DEF Hub!Control
  <2> QED
    BY <2>1 DEF Hub!NoSilentGap
<1> QED
  BY <1>1, <1>2

\* The hub never silently misses an event (hub.py:5): however many sockets, topics and
\* events there are and however slow a socket is, what was written to it and what waits
\* for it is every event published while it listened, in order, or it is being closed;
\* outboxes stay within their size, and readers within their number of sockets.
THEOREM HubMissesNothing ==
    ASSUME HubConstants PROVE Hub!Spec => [](Hub!TypeOK /\ Hub!NoSilentGap)
<1>1. Hub!Init => HubInv
  BY HubInit
<1>2. HubInv /\ [Hub!Next]_Hub!vars => HubInv'
  BY HubStep
<1>3. HubInv => Hub!TypeOK /\ Hub!NoSilentGap
  BY HubHolds
<1> QED
  BY <1>1, <1>2, <1>3, PTL DEF Hub!Spec
=============================================================================
