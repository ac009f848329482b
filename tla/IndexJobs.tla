------------------------------ MODULE IndexJobs ------------------------------
(***************************************************************************)
(* Repository indexing jobs: app/workers/jobs.py with the handlers that    *)
(* start them (app/github/webhooks.py, service.py, router.py) and the      *)
(* collections they share (repos, index_locks, webhook_deliveries).        *)
(*                                                                         *)
(* One repository, connected by any number of workspaces.  Every await on  *)
(* Mongo, GitHub, git or Neo4j is a point where another task may run, so   *)
(* each database call is an action of its own.  A commit is its position   *)
(* on the default branch.                                                  *)
(*                                                                         *)
(* Time is what the code tests: is a timestamp older than                  *)
(* parse_lock_stale_minutes?  A timestamp is fresh, then stale.            *)
(***************************************************************************)
EXTENDS Naturals, FiniteSets

CONSTANTS
    Runs,           \* background tasks and the request handlers that start them
    Workspaces,     \* workspaces that may connect the repository
    MaxCommit,      \* bound: commits pushed to the default branch
    MaxFollowUps,   \* MAX_FOLLOW_UP_SYNCS
    SlowRuns        \* may a live run outlast parse_lock_stale_minutes?

ASSUME CommitsAssumption == MaxCommit \in Nat /\ MaxCommit >= 1
ASSUME FollowUpsAssumption == MaxFollowUps \in Nat
ASSUME SlowAssumption == SlowRuns \in BOOLEAN

VARIABLES
    head,       \* last commit of the default branch at GitHub
    seen,       \* webhook_deliveries: the pushes recorded as delivered
    conn,       \* repos: one connection document per workspace
    lock,       \* the index_locks document of the repository
    run,        \* local state of each task
    leave,      \* progress of each workspace's disconnect request
    graph,      \* commit whose graph Neo4j holds, 0 when it holds none
    facts,      \* does file_facts hold any of the repository?
    lost        \* history: pushes up to here are excused (their run failed)

vars == <<head, seen, conn, lock, run, leave, graph, facts, lost>>

Commit == 1 .. MaxCommit
Version == 0 .. MaxCommit

Status == {"none", "pending", "in_progress", "done", "failed"}

\* status "none" is a workspace without a connection document
Connection == [status: Status, stale: BOOLEAN, built: BOOLEAN]
Lock == [started: {"none", "fresh", "stale"}, requested: BOOLEAN, full: BOOLEAN]

NoConnection == [status |-> "none", stale |-> FALSE, built |-> FALSE]

\* Phases in which a task believes it holds the index lock.
Indexing == {"find", "checkout", "graph", "facts", "record", "drain"}
Holding == {"mark", "done", "failed", "unlock", "unlock_failed"} \cup Indexing
Phase == {"idle", "dispatch", "queued", "defer"} \cup Holding

Run == [phase: Phase, full: BOOLEAN, left: 0 .. MaxFollowUps, commit: Version]

Idle == [phase |-> "idle", full |-> FALSE, left |-> 0, commit |-> 0]
Queued(full) == [Idle EXCEPT !.phase = "queued", !.full = full]

Leaving == {"no", "sole", "shared", "purge_graph", "purge_facts"}

TypeOK ==
    /\ head \in Commit
    /\ seen \subseteq Commit
    /\ conn \in [Workspaces -> Connection]
    /\ lock \in Lock
    /\ run \in [Runs -> Run]
    /\ leave \in [Workspaces -> Leaving]
    /\ graph \in Version
    /\ facts \in BOOLEAN
    /\ lost \in Version

Connected == {w \in Workspaces : conn[w].status # "none"}
Holders == {r \in Runs : run[r].phase \in Holding}
Active == {r \in Runs : run[r].phase # "idle"}

Init ==
    /\ head = 1
    /\ seen = {}
    /\ conn = [w \in Workspaces |-> NoConnection]
    /\ lock = [started |-> "none", requested |-> FALSE, full |-> FALSE]
    /\ run = [r \in Runs |-> Idle]
    /\ leave = [w \in Workspaces |-> "no"]
    /\ graph = 0
    /\ facts = FALSE
    /\ lost = 1

\* repository.update_all with a status: one update_many over every connection
UpdateAll(status) ==
    conn' = [w \in Workspaces |->
               IF w \in Connected
                 THEN [conn[w] EXCEPT !.status = status, !.stale = FALSE]
                 ELSE conn[w]]

\* local steps of a task
Become(r, phase) == run' = [run EXCEPT ![r].phase = phase]
Finish(r) == run' = [run EXCEPT ![r] = Idle]

-----------------------------------------------------------------------------
(***************************************************************************)
(* GitHub and the request handlers                                         *)
(***************************************************************************)

\* Someone pushes to the default branch; GitHub will deliver the webhook.
Push ==
    /\ head < MaxCommit
    /\ head' = head + 1
    /\ UNCHANGED <<seen, conn, lock, run, leave, graph, facts, lost>>

\* _first_delivery: the unique index lets one handler through per delivery.
\* GitHub may redeliver at any time; a redelivery that was seen is ignored.
Deliver(r, c) ==
    /\ run[r].phase = "idle"
    /\ c \in 2 .. head
    /\ c \notin seen
    /\ seen' = seen \cup {c}
    /\ run' = [run EXCEPT ![r] = [Idle EXCEPT !.phase = "dispatch", !.commit = c]]
    /\ UNCHANGED <<head, conn, lock, leave, graph, facts, lost>>

\* _on_push: index once whatever the number of workspaces, or ignore the push
Dispatch(r) ==
    /\ run[r].phase = "dispatch"
    /\ IF Connected # {}
         THEN /\ run' = [run EXCEPT ![r] = Queued(FALSE)]
              /\ UNCHANGED lost
         ELSE /\ Finish(r)
              /\ lost' = head
    /\ UNCHANGED <<head, seen, conn, lock, leave, graph, facts>>

\* the handler failed: the delivery is forgotten so GitHub's retry counts
DispatchFails(r) ==
    /\ run[r].phase = "dispatch"
    /\ seen' = seen \ {run[r].commit}
    /\ Finish(r)
    /\ UNCHANGED <<head, conn, lock, leave, graph, facts, lost>>

\* service.connect, then the router queues a full index
Connect(w, r) ==
    /\ conn[w].status = "none"
    /\ run[r].phase = "idle"
    /\ conn' = [conn EXCEPT ![w] = [NoConnection EXCEPT !.status = "pending"]]
    /\ run' = [run EXCEPT ![r] = Queued(TRUE)]
    /\ UNCHANGED <<head, seen, lock, leave, graph, facts, lost>>

\* Slip: an attempt whose process died is never taken for stale.
MayReindexFinished(c) == c.status \in {"done", "failed"}

\* repository.mark_pending's filter: nothing queued or running, or it went stale
MayReindex(c) ==
    \/ c.status \in {"done", "failed"}
    \/ c.status \in {"pending", "in_progress"} /\ c.stale

\* service.request_index, then the router queues a full index
Reindex(w, r) ==
    /\ run[r].phase = "idle"
    /\ MayReindex(conn[w])
    /\ conn' = [conn EXCEPT ![w].status = "pending", ![w].stale = FALSE]
    /\ run' = [run EXCEPT ![r] = Queued(TRUE)]
    /\ UNCHANGED <<head, seen, lock, leave, graph, facts, lost>>

-----------------------------------------------------------------------------
(***************************************************************************)
(* service.disconnect: look for other connections, delete this one, and    *)
(* purge when it was the last                                              *)
(***************************************************************************)

LeaveCheck(w) ==
    /\ w \in Connected
    /\ leave[w] = "no"
    /\ leave' = [leave EXCEPT ![w] = IF Connected = {w} THEN "sole" ELSE "shared"]
    /\ UNCHANGED <<head, seen, conn, lock, run, graph, facts, lost>>

LeaveDelete(w) ==
    /\ leave[w] \in {"sole", "shared"}
    /\ conn' = [conn EXCEPT ![w] = NoConnection]
    /\ leave' = [leave EXCEPT ![w] = IF leave[w] = "sole" THEN "purge_graph" ELSE "no"]
    /\ UNCHANGED <<head, seen, lock, run, graph, facts, lost>>

\* _purge: the graph, then the facts and the checkout
PurgeGraph(w) ==
    /\ leave[w] = "purge_graph"
    /\ graph' = 0
    /\ lost' = head
    /\ leave' = [leave EXCEPT ![w] = "purge_facts"]
    /\ UNCHANGED <<head, seen, conn, lock, run, facts>>

PurgeFacts(w) ==
    /\ leave[w] = "purge_facts"
    /\ facts' = FALSE
    /\ leave' = [leave EXCEPT ![w] = "no"]
    /\ UNCHANGED <<head, seen, conn, lock, run, graph, lost>>

-----------------------------------------------------------------------------
(***************************************************************************)
(* run_index                                                               *)
(***************************************************************************)

\* Slip: the filter forgets started_at, so a held lock is taken too.
ClaimAnyLock(r) ==
    /\ run[r].phase = "queued"
    /\ lock' = [lock EXCEPT !.started = "fresh"]
    /\ Become(r, "mark")
    /\ UNCHANGED <<head, seen, conn, leave, graph, facts, lost>>

\* _claim's update_one: a free or stale lock matches the filter
Claim(r) ==
    /\ run[r].phase = "queued"
    /\ lock.started \in {"none", "stale"}
    /\ lock' = [lock EXCEPT !.started = "fresh"]
    /\ Become(r, "mark")
    /\ UNCHANGED <<head, seen, conn, leave, graph, facts, lost>>

\* a held lock does not match and the upsert collides on _id
ClaimFails(r) ==
    /\ run[r].phase = "queued"
    /\ lock.started = "fresh"
    /\ Become(r, "defer")
    /\ UNCHANGED <<head, seen, conn, lock, leave, graph, facts, lost>>

\* Slip: pending_full is whatever the last request asked for.
RecordLatest(r) ==
    /\ run[r].phase = "defer"
    /\ lock' = [lock EXCEPT !.requested = TRUE, !.full = run[r].full]
    /\ Finish(r)
    /\ UNCHANGED <<head, seen, conn, leave, graph, facts, lost>>

\* _record_pending, in its own write after the failed claim
RecordPending(r) ==
    /\ run[r].phase = "defer"
    /\ lock' = [lock EXCEPT !.requested = TRUE, !.full = @ \/ run[r].full]
    /\ Finish(r)
    /\ UNCHANGED <<head, seen, conn, leave, graph, facts, lost>>

\* the rest of _claim, and the start of the first _index
MarkRunning(r) ==
    /\ run[r].phase = "mark"
    /\ UpdateAll("in_progress")
    /\ run' = [run EXCEPT ![r].phase = "find", ![r].left = MaxFollowUps]
    /\ UNCHANGED <<head, seen, lock, leave, graph, facts, lost>>

\* _index: nothing to do once the repository is disconnected everywhere
FindNone(r) ==
    /\ run[r].phase = "find"
    /\ Connected = {}
    /\ Become(r, "drain")
    /\ lost' = head
    /\ UNCHANGED <<head, seen, conn, lock, leave, graph, facts>>

\* A connection whose graph an older builder wrote, or none did, makes it full.
\* find_any prefers readable connections but not otherwise one over another.
Find(r) ==
    /\ run[r].phase = "find"
    /\ \E w \in Connected :
         run' = [run EXCEPT ![r].phase = "checkout",
                            ![r].full = @ \/ ~conn[w].built]
    /\ UNCHANGED <<head, seen, conn, lock, leave, graph, facts, lost>>

\* checkout.update and current_commit: the branch's head as it is now
Checkout(r) ==
    /\ run[r].phase = "checkout"
    /\ run' = [run EXCEPT ![r].phase = "graph", ![r].commit = head]
    /\ UNCHANGED <<head, seen, conn, lock, leave, graph, facts, lost>>

\* pipeline.index, "graph first, facts second"
WriteGraph(r) ==
    /\ run[r].phase = "graph"
    /\ graph' = run[r].commit
    /\ Become(r, "facts")
    /\ UNCHANGED <<head, seen, conn, lock, leave, facts, lost>>

WriteFacts(r) ==
    /\ run[r].phase = "facts"
    /\ facts' = TRUE
    /\ Become(r, "record")
    /\ UNCHANGED <<head, seen, conn, lock, leave, graph, lost>>

\* the end of _index: what was built, on every connection
Record(r) ==
    /\ run[r].phase = "record"
    /\ conn' = [w \in Workspaces |->
                  IF w \in Connected
                    THEN [conn[w] EXCEPT !.built = TRUE,
                                         !.stale = @ /\ conn[w].status = "in_progress"]
                    ELSE conn[w]]
    /\ run' = [run EXCEPT ![r].phase = "drain", ![r].full = FALSE, ![r].commit = 0]
    /\ UNCHANGED <<head, seen, lock, leave, graph, facts, lost>>

\* Slip: nothing bounds the follow-ups.
TakePendingForEver(r) ==
    /\ run[r].phase = "drain"
    /\ lock.requested
    /\ lock' = [lock EXCEPT !.requested = FALSE, !.full = FALSE]
    /\ run' = [run EXCEPT ![r].phase = "find", ![r].full = lock.full,
                          ![r].left = @ - 1]
    /\ UNCHANGED <<head, seen, conn, leave, graph, facts, lost>>

\* _take_pending finds a request: clear it and index again
TakePending(r) ==
    /\ run[r].phase = "drain"
    /\ run[r].left > 0
    /\ lock.requested
    /\ lock' = [lock EXCEPT !.requested = FALSE, !.full = FALSE]
    /\ run' = [run EXCEPT ![r].phase = "find", ![r].full = lock.full,
                          ![r].left = @ - 1]
    /\ UNCHANGED <<head, seen, conn, leave, graph, facts, lost>>

\* nothing queued, or MAX_FOLLOW_UP_SYNCS follow-ups were drained
StopDraining(r) ==
    /\ run[r].phase = "drain"
    /\ run[r].left = 0 \/ ~lock.requested
    /\ Become(r, "done")
    /\ UNCHANGED <<head, seen, conn, lock, leave, graph, facts, lost>>

\* an exception inside the try, the first release included
Fail(r) ==
    /\ run[r].phase \in (Indexing \cup {"done", "unlock"})
    /\ Become(r, "failed")
    /\ lost' = head
    /\ UNCHANGED <<head, seen, conn, lock, leave, graph, facts>>

\* Slip: the lock is freed first, and the status is lost when a task dies after it.
ReleaseLockFirst(r) ==
    /\ run[r].phase \in {"done", "failed"}
    /\ lock' = [lock EXCEPT !.started = "none"]
    /\ Become(r, IF run[r].phase = "done" THEN "unlock" ELSE "unlock_failed")
    /\ UNCHANGED <<head, seen, conn, leave, graph, facts, lost>>

\* _release: the status first, the lock second
ReleaseStatus(r) ==
    /\ run[r].phase \in {"done", "failed"}
    /\ UpdateAll(run[r].phase)
    /\ Become(r, IF run[r].phase = "done" THEN "unlock" ELSE "unlock_failed")
    /\ UNCHANGED <<head, seen, lock, leave, graph, facts, lost>>

\* Slip: the release replaces the document, with whatever was requested since.
ReleaseWholeLock(r) ==
    /\ run[r].phase \in {"unlock", "unlock_failed"}
    /\ lock' = [started |-> "none", requested |-> FALSE, full |-> FALSE]
    /\ Finish(r)
    /\ UNCHANGED <<head, seen, conn, leave, graph, facts, lost>>

ReleaseLock(r) ==
    /\ run[r].phase \in {"unlock", "unlock_failed"}
    /\ lock' = [lock EXCEPT !.started = "none"]
    /\ Finish(r)
    /\ UNCHANGED <<head, seen, conn, leave, graph, facts, lost>>

-----------------------------------------------------------------------------
(***************************************************************************)
(* Crashes and time                                                        *)
(***************************************************************************)

\* The task dies with its process, or its database connection does.
Crash(r) ==
    /\ run[r].phase # "idle"
    /\ Finish(r)
    /\ lost' = head
    /\ UNCHANGED <<head, seen, conn, lock, leave, graph, facts>>

\* Slip: the timeout is shorter than a live run.
LockGoesStaleEarly ==
    /\ lock.started = "fresh"
    /\ lock' = [lock EXCEPT !.started = "stale"]
    /\ UNCHANGED <<head, seen, conn, run, leave, graph, facts, lost>>

\* parse_lock_stale_minutes pass.  parse_started_at is the lock's started_at,
\* so a connection that shows in_progress goes stale with the lock.
LockGoesStale ==
    /\ lock.started = "fresh"
    /\ SlowRuns \/ Holders = {}
    /\ lock' = [lock EXCEPT !.started = "stale"]
    /\ conn' = [w \in Workspaces |->
                  IF conn[w].status = "in_progress" THEN [conn[w] EXCEPT !.stale = TRUE]
                                                    ELSE conn[w]]
    /\ UNCHANGED <<head, seen, run, leave, graph, facts, lost>>

\* a pending connection nothing wrote for as long (updated_at), whether its
\* task was lost or is still waiting for its turn
PendingGoesStale(w) ==
    /\ conn[w].status = "pending"
    /\ ~conn[w].stale
    /\ conn' = [conn EXCEPT ![w].stale = TRUE]
    /\ UNCHANGED <<head, seen, lock, run, leave, graph, facts, lost>>

-----------------------------------------------------------------------------

Handle(r) == Dispatch(r) \/ DispatchFails(r)

IndexStep(r) ==
    \/ Claim(r) \/ ClaimFails(r) \/ RecordPending(r) \/ MarkRunning(r)
    \/ FindNone(r) \/ Find(r) \/ Checkout(r) \/ WriteGraph(r) \/ WriteFacts(r)
    \/ Record(r) \/ TakePending(r) \/ StopDraining(r)
    \/ ReleaseStatus(r) \/ ReleaseLock(r)

LeaveStep(w) == LeaveCheck(w) \/ LeaveDelete(w) \/ PurgeGraph(w) \/ PurgeFacts(w)

Next ==
    \/ Push
    \/ \E r \in Runs, c \in Commit : Deliver(r, c)
    \/ \E r \in Runs : Handle(r)
    \/ \E r \in Runs, w \in Workspaces : Connect(w, r) \/ Reindex(w, r)
    \/ \E r \in Runs : IndexStep(r) \/ Fail(r) \/ Crash(r)
    \/ \E w \in Workspaces : LeaveStep(w) \/ PendingGoesStale(w)
    \/ LockGoesStale

\* The event loop runs every ready task, and time passes; nothing makes anyone
\* push, connect, reindex or disconnect.
Fairness ==
    /\ \A r \in Runs : WF_vars(IndexStep(r)) /\ WF_vars(Handle(r))
    /\ WF_vars(LockGoesStale)
    /\ \A w \in Workspaces : WF_vars(PendingGoesStale(w))

Spec == Init /\ [][Next]_vars
FairSpec == Spec /\ Fairness

-----------------------------------------------------------------------------
(***************************************************************************)
(* Properties                                                              *)
(***************************************************************************)

\* At most one task is between _claim and the end of _release, and while one
\* is, the lock says so (jobs.py: "one index per repo at a time").
OneIndexAtATime ==
    /\ \A r, s \in Holders : r = s
    /\ Holders # {} => lock.started = "fresh"

\* A task that will still read the branch's head before it lets go of the lock
\* or records its request.
WillIndex(r) ==
    \/ run[r].phase \in {"dispatch", "queued", "defer", "mark", "find", "checkout"}

\* A push that was delivered is in the graph, or recorded on the lock, or some
\* task will index the branch as of that push or later, unless a task failed or
\* died since.  Nothing between the failed claim and the drain forgets it.
PushesNotForgotten ==
    \A c \in seen :
        \/ c <= lost
        \/ graph >= c
        \/ lock.requested
        \/ \E r \in Runs : WillIndex(r) \/ (run[r].phase = "graph" /\ run[r].commit >= c)

\* A connection shows in_progress only while the lock is taken, and while a task
\* indexes no connection shows a finished index: _claim takes the lock before it
\* writes the status and _release writes the status before it frees the lock.
StatusFollowsLock ==
    /\ (\E w \in Workspaces : conn[w].status = "in_progress") => lock.started # "none"
    /\ \A r \in Runs : run[r].phase \in Indexing =>
         \A w \in Connected : conn[w].status \in {"pending", "in_progress"}

\* Neo4j never goes back to an older commit: a later index is of a later head.
GraphNeverGoesBack == [][graph' >= graph \/ graph' = 0]_graph

\* A full rebuild that was asked for while the lock was held is not downgraded
\* by a later incremental request: whoever clears it indexes in full.
FullIsServed ==
    [][lock.full /\ ~lock'.full =>
         \E r \in Runs : run'[r].phase = "find" /\ run'[r].full]_<<lock, run>>

\* Whatever tasks crash, a connected repository does not stay queued or running
\* for ever: sooner or later mark_pending accepts another attempt.
EventuallyRetryable ==
    \A w \in Workspaces : w \in Connected ~> (w \notin Connected \/ MayReindex(conn[w]))

\* jobs.py: "a push that arrives mid-index is recorded and run before the lock
\* is released".  A run that ends well leaves no recorded request behind, unless
\* it used up its follow-ups.
RequestRunBeforeRelease ==
    [][\A r \in Runs :
         run[r].phase = "unlock" /\ run[r].left > 0 /\ lock'.started = "none"
           => ~lock'.requested]_lock
=============================================================================
