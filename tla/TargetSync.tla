----------------------------- MODULE TargetSync -----------------------------
(***************************************************************************)
(* One sync target of a tracker and its mirrored work items:               *)
(* app/connectors/sync.py (run_target and the work-item body _sync), the   *)
(* target document of app/connectors/repository.py, the handlers that      *)
(* change it (app/connectors/service.py), and the item edits that go to    *)
(* the tracker first (app/work_items/service.py).                          *)
(*                                                                         *)
(* Timestamps appear as what is derived from them: what changed since      *)
(* last_synced_at (less the overlap), whether last_full_sync_at is an hour *)
(* old, whether the lock is stale.  A page is one item.                    *)
(***************************************************************************)
EXTENDS Naturals, FiniteSets

CONSTANTS
    Items,          \* items the tracker may hold
    Values,         \* what an item may look like there
    Absent,         \* not there
    Runs,           \* calls of run_target: polling, requests, boards opened
    Edits,          \* requests that change an item through us
    SlowRuns        \* may a live run outlast sync_lock_stale_minutes?

ASSUME AbsentAssumption == Absent \notin Values
ASSUME SlowAssumption == SlowRuns \in BOOLEAN

VARIABLES
    tracker,    \* the items at the tracker
    recent,     \* those changed within the last OVERLAP_MINUTES
    mirror,     \* work_items
    target,     \* the sync_targets document
    dirty,      \* changed there since the target's last_synced_at, overlap
                \* included: everything when it has none
    run,        \* local state of each run
    edit,       \* local state of each request
    overlapped  \* history: were two runs ever in flight at once?

vars == <<tracker, recent, mirror, target, dirty, run, edit, overlapped>>

ItemOrNone == Values \cup {Absent}

\* synced: last_synced_at is set.  full: last_full_sync_at is none ("asked" when
\* a full sync was asked for that no run claimed yet), within FULL_SYNC_EVERY
\* ("recent"), or older.
Target == [active: BOOLEAN, status: {"pending", "in_progress", "done", "failed"},
           started: {"none", "fresh", "stale"}, synced: BOOLEAN,
           full: {"none", "asked", "recent", "old"}]

\* todo: items the pages still have to show; seen: those they showed (kept by a
\* full run); changed: those that changed since the run started, overlap included
Run == [phase: {"idle", "read", "write", "sweep", "drop", "end"}, full: BOOLEAN,
        todo: SUBSET Items, page: [Items -> ItemOrNone], seen: SUBSET Items,
        gone: SUBSET Items, changed: SUBSET Items]

Nothing == [i \in Items |-> Absent]
NoRun == [phase |-> "idle", full |-> FALSE, todo |-> {}, page |-> Nothing,
          seen |-> {}, gone |-> {}, changed |-> {}]

\* an edit of item `item`: refetch it, store what was fetched; or remove it
Edit == [phase: {"idle", "fetch", "store", "remove"}, item: SUBSET Items, value: ItemOrNone]
NoEdit == [phase |-> "idle", item |-> {}, value |-> Absent]

TypeOK ==
    /\ {tracker, mirror} \subseteq [Items -> ItemOrNone]
    /\ recent \subseteq dirty /\ dirty \subseteq Items
    /\ target \in Target
    /\ run \in [Runs -> Run]
    /\ edit \in [Edits -> Edit]
    /\ overlapped \in BOOLEAN

Init ==
    /\ tracker = Nothing
    /\ recent = {}
    /\ mirror = Nothing
    /\ target = [active |-> FALSE, status |-> "pending", started |-> "none",
                 synced |-> FALSE, full |-> "none"]
    /\ dirty = Items
    /\ run = [r \in Runs |-> NoRun]
    /\ edit = [e \in Edits |-> NoEdit]
    /\ overlapped = FALSE

Active == {r \in Runs : run[r].phase # "idle"}

Reading == {r \in Runs : run[r].phase \in {"read", "write"}}

\* item i changes at the tracker, to v: the runs that are still reading may find
\* it on a later page, or not
Changes(i, v) ==
    /\ tracker[i] # v
    /\ tracker' = [tracker EXCEPT ![i] = v]
    /\ recent' = recent \cup {i}
    /\ dirty' = dirty \cup {i}
    /\ \E shown \in SUBSET Reading :
         run' = [r \in Runs |->
                   IF r \notin Active THEN run[r]
                   ELSE [run[r] EXCEPT !.changed = @ \cup {i},
                                       !.todo = IF r \in shown THEN @ \cup {i} ELSE @]]

-----------------------------------------------------------------------------
(***************************************************************************)
(* The tracker, and the requests that change an item there first           *)
(***************************************************************************)

\* someone creates, edits or deletes an item in the tracker
Change(i, v) ==
    /\ Changes(i, v)
    /\ UNCHANGED <<mirror, target, edit, overlapped>>

\* work_items.create, update, move: the tracker first
EditItem(e, i, v) ==
    /\ edit[e].phase = "idle"
    /\ target.active
    /\ Changes(i, v)
    /\ edit' = [edit EXCEPT ![e] = [phase |-> "fetch", item |-> {i}, value |-> Absent]]
    /\ UNCHANGED <<mirror, target, overlapped>>

\* _refresh reads the item back; one that is gone is an error
FetchItem(e) ==
    /\ edit[e].phase = "fetch"
    /\ \E i \in edit[e].item :
         edit' = [edit EXCEPT ![e] = IF tracker[i] = Absent THEN NoEdit
                    ELSE [phase |-> "store", item |-> {i}, value |-> tracker[i]]]
    /\ UNCHANGED <<tracker, recent, mirror, target, dirty, run, overlapped>>

\* upsert_synced
StoreItem(e) ==
    /\ edit[e].phase = "store"
    /\ mirror' = [i \in Items |-> IF i \in edit[e].item THEN edit[e].value ELSE mirror[i]]
    /\ edit' = [edit EXCEPT ![e] = NoEdit]
    /\ UNCHANGED <<tracker, recent, target, dirty, run, overlapped>>

\* work_items.delete: the tracker first
DeleteItem(e, i) ==
    /\ edit[e].phase = "idle"
    /\ target.active
    /\ mirror[i] # Absent
    /\ Changes(i, Absent)
    /\ edit' = [edit EXCEPT ![e] = [phase |-> "remove", item |-> {i}, value |-> Absent]]
    /\ UNCHANGED <<mirror, target, overlapped>>

RemoveItem(e) ==
    /\ edit[e].phase = "remove"
    /\ mirror' = [i \in Items |-> IF i \in edit[e].item THEN Absent ELSE mirror[i]]
    /\ edit' = [edit EXCEPT ![e] = NoEdit]
    /\ UNCHANGED <<tracker, recent, target, dirty, run, overlapped>>

\* the request fails or its process dies after the tracker took the change
EditStops(e) ==
    /\ edit[e].phase # "idle"
    /\ edit' = [edit EXCEPT ![e] = NoEdit]
    /\ UNCHANGED <<tracker, recent, mirror, target, dirty, run, overlapped>>

-----------------------------------------------------------------------------
(***************************************************************************)
(* The target document                                                     *)
(***************************************************************************)

\* repository.add_target, of a target that is not connected (any more)
AddTarget ==
    /\ ~target.active
    /\ target' = [target EXCEPT !.active = TRUE, !.status = "pending",
                                !.synced = FALSE, !.full = "none"]
    /\ dirty' = Items
    /\ UNCHANGED <<tracker, recent, mirror, run, edit, overlapped>>

\* repository.remove_target, or disconnect: what was synced is kept
RemoveTarget ==
    /\ target.active
    /\ target' = [target EXCEPT !.active = FALSE]
    /\ UNCHANGED <<tracker, recent, mirror, dirty, run, edit, overlapped>>

\* service.request_full_sync
RequestFullSync ==
    /\ target.active
    /\ target' = [target EXCEPT !.full = "asked"]
    /\ UNCHANGED <<tracker, recent, mirror, dirty, run, edit, overlapped>>

-----------------------------------------------------------------------------
(***************************************************************************)
(* run_target                                                              *)
(***************************************************************************)

\* claim_target's filter
Claimable ==
    /\ target.active
    /\ target.status # "in_progress" \/ target.started \in {"none", "stale"}

\* `full` of run_target, from the document as it was before the claim
IsFull(scheduled) ==
    \/ ~target.synced
    \/ target.full \in {"none", "asked"}
    \/ scheduled /\ target.full = "old"

\* Slip: the next run reads from the moment this one starts, not from before.
ClaimWithoutOverlap(r, scheduled) ==
    /\ run[r].phase = "idle"
    /\ Claimable
    /\ target' = [target EXCEPT !.status = "in_progress", !.started = "fresh",
                                !.full = IF @ = "asked" THEN "none" ELSE @]
    /\ run' = [run EXCEPT ![r] = [NoRun EXCEPT
                 !.phase = "read", !.full = IsFull(scheduled),
                 !.todo = IF IsFull(scheduled) THEN Items ELSE dirty]]
    /\ overlapped' = (overlapped \/ Active # {})
    /\ UNCHANGED <<tracker, recent, mirror, dirty, edit>>

\* claim_target, then `started`: a claim that fails changes nothing.  An
\* incremental run reads what changed since last_synced_at, a full one everything.
Claim(r, scheduled) ==
    /\ run[r].phase = "idle"
    /\ Claimable
    /\ target' = [target EXCEPT !.status = "in_progress", !.started = "fresh",
                                !.full = IF @ = "asked" THEN "none" ELSE @]
    /\ run' = [run EXCEPT ![r] = [NoRun EXCEPT
                 !.phase = "read", !.full = IsFull(scheduled),
                 !.todo = IF IsFull(scheduled) THEN Items ELSE dirty,
                 !.changed = recent]]
    /\ overlapped' = (overlapped \/ Active # {})
    /\ UNCHANGED <<tracker, recent, mirror, dirty, edit>>

\* fetch_page: items the tracker does not have are not on any page
ReadPage(r, i) ==
    /\ run[r].phase = "read"
    /\ i \in run[r].todo
    /\ run' = [run EXCEPT ![r].todo = @ \ {i}, ![r].phase = "write",
                          ![r].page = [Nothing EXCEPT ![i] = tracker[i]],
                          ![r].seen = IF run[r].full /\ tracker[i] # Absent THEN @ \cup {i}
                                                                           ELSE @]
    /\ UNCHANGED <<tracker, recent, mirror, target, dirty, edit, overlapped>>

\* upsert_many_synced
WritePage(r) ==
    /\ run[r].phase = "write"
    /\ mirror' = [i \in Items |-> IF run[r].page[i] # Absent THEN run[r].page[i] ELSE mirror[i]]
    /\ run' = [run EXCEPT ![r].phase = "read", ![r].page = Nothing]
    /\ UNCHANGED <<tracker, recent, target, dirty, edit, overlapped>>

\* the last page was read
LastPage(r) ==
    /\ run[r].phase = "read"
    /\ run[r].todo = {}
    /\ run' = [run EXCEPT ![r].phase = IF run[r].full THEN "sweep" ELSE "end"]
    /\ UNCHANGED <<tracker, recent, mirror, target, dirty, edit, overlapped>>

\* sweep: look for the items no page showed, then delete those
SweepFind(r) ==
    /\ run[r].phase = "sweep"
    /\ run' = [run EXCEPT ![r].phase = "drop",
                          ![r].gone = {i \in Items : mirror[i] # Absent} \ run[r].seen]
    /\ UNCHANGED <<tracker, recent, mirror, target, dirty, edit, overlapped>>

\* Slip: nothing is ever swept.
SweepNothing(r) ==
    /\ run[r].phase = "drop"
    /\ run' = [run EXCEPT ![r].phase = "end", ![r].seen = {}, ![r].gone = {}]
    /\ UNCHANGED <<tracker, recent, mirror, target, dirty, edit, overlapped>>

SweepDrop(r) ==
    /\ run[r].phase = "drop"
    /\ mirror' = [i \in Items |-> IF i \in run[r].gone THEN Absent ELSE mirror[i]]
    /\ run' = [run EXCEPT ![r].phase = "end", ![r].seen = {}, ![r].gone = {}]
    /\ UNCHANGED <<tracker, recent, target, dirty, edit, overlapped>>

\* Slip: last_synced_at is the time the run ended.
EndNow(r) ==
    /\ run[r].phase = "end"
    /\ target' = [target EXCEPT !.status = "done", !.started = "none", !.synced = TRUE,
                                !.full = IF run[r].full THEN "recent" ELSE @]
    /\ dirty' = recent
    /\ run' = [run EXCEPT ![r] = NoRun]
    /\ UNCHANGED <<tracker, recent, mirror, edit, overlapped>>

\* end_sync, with last_synced_at = started
End(r) ==
    /\ run[r].phase = "end"
    /\ target' = [target EXCEPT !.status = "done", !.started = "none", !.synced = TRUE,
                                !.full = IF run[r].full THEN "recent" ELSE @]
    /\ dirty' = run[r].changed
    /\ run' = [run EXCEPT ![r] = NoRun]
    /\ UNCHANGED <<tracker, recent, mirror, edit, overlapped>>

\* an exception: end_sync frees the lock and nothing else
Fail(r) ==
    /\ run[r].phase # "idle"
    /\ target' = [target EXCEPT !.status = "failed", !.started = "none"]
    /\ run' = [run EXCEPT ![r] = NoRun]
    /\ UNCHANGED <<tracker, recent, mirror, dirty, edit, overlapped>>

\* the process dies in the middle of a run
Crash(r) ==
    /\ run[r].phase # "idle"
    /\ run' = [run EXCEPT ![r] = NoRun]
    /\ UNCHANGED <<tracker, recent, mirror, target, dirty, edit, overlapped>>

-----------------------------------------------------------------------------
(***************************************************************************)
(* Time                                                                    *)
(***************************************************************************)

\* sync_lock_stale_minutes pass
LockGoesStale ==
    /\ target.status = "in_progress" /\ target.started = "fresh"
    /\ SlowRuns \/ Active = {}
    /\ target' = [target EXCEPT !.started = "stale"]
    /\ UNCHANGED <<tracker, recent, mirror, dirty, run, edit, overlapped>>

\* FULL_SYNC_EVERY passes
FullGetsOld ==
    /\ target.full = "recent"
    /\ target' = [target EXCEPT !.full = "old"]
    /\ UNCHANGED <<tracker, recent, mirror, dirty, run, edit, overlapped>>

\* OVERLAP_MINUTES pass since i changed.  A request stores what it fetched, or
\* removes what it deleted, sooner than that.
OverlapPasses(i) ==
    /\ i \in recent
    /\ \A e \in Edits : edit[e].phase \in {"store", "remove"} => i \notin edit[e].item
    /\ recent' = recent \ {i}
    /\ UNCHANGED <<tracker, mirror, target, dirty, run, edit, overlapped>>

-----------------------------------------------------------------------------

EditStep(e) == FetchItem(e) \/ StoreItem(e) \/ RemoveItem(e)

RunStep(r) ==
    \/ \E i \in Items : ReadPage(r, i)
    \/ WritePage(r) \/ LastPage(r) \/ SweepFind(r) \/ SweepDrop(r) \/ End(r)

\* what may go on for ever, or not happen at all
Disturbance ==
    \/ \E i \in Items, v \in ItemOrNone : Change(i, v)
    \/ \E e \in Edits, i \in Items, v \in Values : EditItem(e, i, v)
    \/ \E e \in Edits, i \in Items : DeleteItem(e, i)
    \/ \E e \in Edits : EditStops(e)
    \/ RemoveTarget \/ RequestFullSync
    \/ \E r \in Runs : Fail(r) \/ Crash(r)

\* what happens by itself
Routine ==
    \/ AddTarget
    \/ \E r \in Runs, scheduled \in BOOLEAN : Claim(r, scheduled)
    \/ \E r \in Runs : RunStep(r)
    \/ \E e \in Edits : EditStep(e)
    \/ LockGoesStale \/ FullGetsOld
    \/ \E i \in Items : OverlapPasses(i)

Next == Disturbance \/ Routine

\* Tasks run, and time passes.  The polling loop comes back to the target for
\* ever, and does not find a board someone opened syncing it each time.
Fairness ==
    /\ \A r \in Runs : WF_vars(RunStep(r))
    /\ SF_vars(\E r \in Runs : Claim(r, TRUE))
    /\ \A e \in Edits : WF_vars(EditStep(e))
    /\ WF_vars(LockGoesStale) /\ WF_vars(FullGetsOld)

Spec == Init /\ [][Next]_vars
FairSpec == Spec /\ Fairness

-----------------------------------------------------------------------------
(***************************************************************************)
(* Properties                                                              *)
(***************************************************************************)

\* An item whose mirror is out of date is one the next incremental sync reads
\* again, whatever was edited, swept, read or failed since ("so clock skew or a
\* slow page can't drop an update"): unless two runs were in flight at once.
\* Items deleted at the tracker wait for a full sync.
StaleIsDirty ==
    ~overlapped /\ target.synced =>
        \A i \in Items : tracker[i] \notin {Absent, mirror[i]} => i \in dirty

\* Once nothing disturbs it any more, a connected target ends up with exactly
\* the tracker's items: what was deleted there is swept, what changed is read.
EventuallyMirrors ==
    <>[][Routine]_vars => <>[](target.active => mirror = tracker)
=============================================================================
