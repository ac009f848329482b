-------------------------- MODULE TargetSyncProofs --------------------------
(***************************************************************************)
(* Proofs about TargetSync, for any number of items, values, runs and      *)
(* requests, whether or not a run may outlast the staleness timeout.       *)
(***************************************************************************)
EXTENDS MCMirrors, TLAPS

-----------------------------------------------------------------------------
(***************************************************************************)
(* The inductive invariant                                                 *)
(***************************************************************************)

Stale(i) == tracker[i] \notin {Absent, mirror[i]}

\* What changed within the overlap, every run in flight will leave dirty.
RecentInv == \A r \in Active : recent \subseteq run[r].changed

\* A request is about to undo only what changed within the overlap.
EditInv ==
    \A e \in Edits : \A i \in edit[e].item :
        /\ edit[e].phase = "store" /\ edit[e].value # tracker[i] => i \in recent
        /\ edit[e].phase = "remove" /\ tracker[i] # Absent => i \in recent

AtMostOne == \A r, s \in Active : r = s

Pages == {"read", "write"}

\* Run r leaves item i dirty, or will read it, or has read it and not stored it.
Answers(r, i) ==
    \/ i \in run[r].changed
    \/ run[r].phase \in Pages /\ i \in run[r].todo
    \/ run[r].phase = "write" /\ run[r].page[i] = tracker[i]

\* What run r is about to store or to sweep is as the tracker has it, but for
\* what changed since it started.
RunInv(r) ==
    /\ run[r].changed \subseteq dirty
    /\ \A i \in Items :
         /\ Stale(i) => Answers(r, i)
         /\ run[r].phase = "write" /\ run[r].page[i] \notin {Absent, tracker[i]}
              => i \in run[r].changed
         /\ (run[r].phase \in Pages /\ run[r].full) \/ run[r].phase = "sweep"
              => \/ tracker[i] = Absent \/ i \in run[r].seen \/ i \in run[r].changed
                 \/ run[r].phase \in Pages /\ i \in run[r].todo
         /\ run[r].phase = "drop" /\ i \in run[r].gone /\ tracker[i] # Absent
              => i \in run[r].changed

AloneInv == ~overlapped => AtMostOne /\ \A r \in Active : RunInv(r)

Inv == TypeOK /\ RecentInv /\ EditInv /\ AloneInv /\ StaleIsDirty

-----------------------------------------------------------------------------
(***************************************************************************)
(* Types                                                                   *)
(***************************************************************************)

\* Nothing, and a page with one item, are maps of the items.
LEMMA Maps ==
    /\ Nothing \in [Items -> ItemOrNone] /\ Absent \in ItemOrNone
    /\ \A i \in Items, v \in ItemOrNone : [Nothing EXCEPT ![i] = v] \in [Items -> ItemOrNone]
BY DEF Nothing, ItemOrNone

\* The records that are no run and no request.
LEMMA Idles == NoRun \in Run /\ NoEdit \in Edit /\ NoRun.phase = "idle"
BY Maps DEF NoRun, Run, NoEdit, Edit

\* The run a claim starts.
LEMMA Claimed ==
    ASSUME NEW full \in BOOLEAN, NEW todo \in SUBSET Items, NEW changed \in SUBSET Items
    PROVE  [NoRun EXCEPT !.phase = "read", !.full = full, !.todo = todo, !.changed = changed]
             \in Run
BY Maps DEF NoRun, Run

\* A request's record.
LEMMA Editing ==
    ASSUME NEW phase \in {"fetch", "store", "remove"}, NEW i \in Items, NEW v \in ItemOrNone
    PROVE  [phase |-> phase, item |-> {i}, value |-> v] \in Edit
BY DEF Edit

\* A change at the tracker leaves the runs where they are; those in flight know of it.
LEMMA ChangesRuns ==
    ASSUME TypeOK, NEW i \in Items, NEW v \in ItemOrNone, Changes(i, v)
    PROVE  /\ run' \in [Runs -> Run]
           /\ Active' = Active
           /\ \A r \in Active :
                /\ run'[r].phase = run[r].phase /\ run'[r].full = run[r].full
                /\ run'[r].page = run[r].page /\ run'[r].seen = run[r].seen
                /\ run'[r].gone = run[r].gone
                /\ run'[r].changed = run[r].changed \cup {i}
                /\ run[r].todo \subseteq run'[r].todo
<1>1. PICK shown \in SUBSET Reading :
         run' = [r \in Runs |->
                   IF r \notin Active THEN run[r]
                   ELSE [run[r] EXCEPT !.changed = @ \cup {i},
                                       !.todo = IF r \in shown THEN @ \cup {i} ELSE @]]
  BY DEF Changes
<1> DEFINE new(r) == [run[r] EXCEPT !.changed = @ \cup {i},
                                    !.todo = IF r \in shown THEN @ \cup {i} ELSE @]
<1>2. ASSUME NEW r \in Runs
      PROVE  /\ new(r) \in Run
             /\ new(r).phase = run[r].phase /\ new(r).full = run[r].full
             /\ new(r).page = run[r].page /\ new(r).seen = run[r].seen
             /\ new(r).gone = run[r].gone
             /\ new(r).changed = run[r].changed \cup {i}
             /\ run[r].todo \subseteq new(r).todo
  <2>1. run[r] \in Run
    BY DEF TypeOK
  <2> QED
    BY <2>1 DEF Run
<1>3. \A r \in Runs : run'[r] = IF r \notin Active THEN run[r] ELSE new(r)
  BY <1>1
<1>4. Active \subseteq Runs
  BY DEF Active
<1>5. run' \in [Runs -> Run]
  BY <1>1, <1>2 DEF TypeOK
<1> HIDE DEF new
<1>6. Active' = Active
  BY <1>2, <1>3 DEF Active
<1> QED
  BY <1>2, <1>3, <1>4, <1>5, <1>6

\* An item that changes at the tracker stays typed, and is recent and dirty.
LEMMA ChangesTypes ==
    ASSUME TypeOK, RecentInv, NEW i \in Items, NEW v \in ItemOrNone, Changes(i, v)
    PROVE  /\ tracker' \in [Items -> ItemOrNone]
           /\ recent' \subseteq dirty' /\ dirty' \subseteq Items
           /\ run' \in [Runs -> Run]
           /\ RecentInv'
<1>1. tracker' \in [Items -> ItemOrNone] /\ recent' \subseteq dirty' /\ dirty' \subseteq Items
  BY DEF Changes, TypeOK
<1>2. RecentInv'
  <2>1. recent' = recent \cup {i}
    BY DEF Changes
  <2>2. ASSUME NEW r \in Active PROVE recent' \subseteq run'[r].changed
    BY <2>1, <2>2, ChangesRuns DEF RecentInv
  <2> QED
    BY <2>2, ChangesRuns DEF RecentInv
<1> QED
  BY <1>1, <1>2, ChangesRuns

\* Every step keeps every variable in its type.
LEMMA TypeStep == TypeOK /\ RecentInv /\ [Next]_vars => TypeOK' /\ RecentInv'
<1> SUFFICES ASSUME TypeOK, RecentInv, [Next]_vars PROVE TypeOK' /\ RecentInv'
  OBVIOUS
<1> USE Maps, Idles DEF TypeOK
<1>1. CASE Disturbance
  <2>1. ASSUME NEW i \in Items, NEW v \in ItemOrNone, Change(i, v) PROVE TypeOK' /\ RecentInv'
    BY <2>1, ChangesTypes DEF Change
  <2>2. ASSUME NEW e \in Edits, NEW i \in Items, NEW v \in Values, EditItem(e, i, v)
        PROVE  TypeOK' /\ RecentInv'
    <3>1. v \in ItemOrNone
      BY DEF ItemOrNone
    <3> QED
      BY <2>2, <3>1, ChangesTypes, Editing DEF EditItem
  <2>3. ASSUME NEW e \in Edits, NEW i \in Items, DeleteItem(e, i) PROVE TypeOK' /\ RecentInv'
    BY <2>3, ChangesTypes, Editing DEF DeleteItem
  <2>4. ASSUME NEW e \in Edits, EditStops(e) PROVE TypeOK' /\ RecentInv'
    BY <2>4 DEF EditStops, RecentInv, Active
  <2>5. CASE RemoveTarget
    BY <2>5 DEF RemoveTarget, Target, RecentInv, Active
  <2>6. CASE RequestFullSync
    BY <2>6 DEF RequestFullSync, Target, RecentInv, Active
  <2>7. ASSUME NEW r \in Runs, Fail(r) PROVE TypeOK' /\ RecentInv'
    BY <2>7 DEF Fail, Target, RecentInv, Active
  <2>8. ASSUME NEW r \in Runs, Crash(r) PROVE TypeOK' /\ RecentInv'
    BY <2>8 DEF Crash, RecentInv, Active
  <2> QED
    BY <1>1, <2>1, <2>2, <2>3, <2>4, <2>5, <2>6, <2>7, <2>8 DEF Disturbance
<1>2. CASE AddTarget
  BY <1>2 DEF AddTarget, Target, RecentInv, Active
<1>3. ASSUME NEW r \in Runs, NEW scheduled \in BOOLEAN, Claim(r, scheduled)
      PROVE  TypeOK' /\ RecentInv'
  <2>1. target' \in Target
    BY <1>3 DEF Claim, Target
  <2> DEFINE todo == IF IsFull(scheduled) THEN Items ELSE dirty
             new == [NoRun EXCEPT !.phase = "read", !.full = IsFull(scheduled),
                                  !.todo = todo, !.changed = recent]
  <2>2. IsFull(scheduled) \in BOOLEAN
    BY DEF IsFull, Target
  <2>3. todo \in SUBSET Items
    OBVIOUS
  <2>4. new \in Run /\ new.changed = recent
    BY <2>2, <2>3, Claimed DEF NoRun
  <2>5. run' = [run EXCEPT ![r] = new]
    BY <1>3 DEF Claim
  <2> HIDE DEF new
  <2>6. run' \in [Runs -> Run]
    BY <2>4, <2>5
  <2>7. RecentInv'
    BY <1>3, <2>4, <2>5 DEF Claim, RecentInv, Active
  <2>8. overlapped' \in BOOLEAN
    BY <1>3 DEF Claim
  <2> QED
    BY <1>3, <2>1, <2>6, <2>7, <2>8 DEF Claim
<1>4. ASSUME NEW r \in Runs, RunStep(r) PROVE TypeOK' /\ RecentInv'
  <2>1. ASSUME NEW i \in Items, ReadPage(r, i) PROVE TypeOK' /\ RecentInv'
    <3>1. [Nothing EXCEPT ![i] = tracker[i]] \in [Items -> ItemOrNone]
      OBVIOUS
    <3>2. run' \in [Runs -> Run]
      BY <2>1, <3>1 DEF ReadPage, Run
    <3>3. RecentInv'
      BY <2>1 DEF ReadPage, RecentInv, Active, Run
    <3> QED
      BY <2>1, <3>2, <3>3 DEF ReadPage
  <2>2. CASE WritePage(r)
    <3>1. mirror' \in [Items -> ItemOrNone]
      BY <2>2 DEF WritePage, Run
    <3>2. run' \in [Runs -> Run]
      <4>1. [run[r] EXCEPT !.phase = "read", !.page = Nothing] \in Run
        BY DEF Run
      <4> QED
        BY <2>2, <4>1 DEF WritePage
    <3>3. RecentInv'
      BY <2>2 DEF WritePage, RecentInv, Active, Run
    <3> QED
      BY <2>2, <3>1, <3>2, <3>3 DEF WritePage
  <2>3. CASE LastPage(r)
    BY <2>3 DEF LastPage, RecentInv, Active, Run
  <2>4. CASE SweepFind(r)
    <3>1. run' \in [Runs -> Run]
      <4> DEFINE found == {i \in Items : mirror[i] # Absent} \ run[r].seen
      <4>1. found \subseteq Items
        OBVIOUS
      <4> HIDE DEF found
      <4>2. [run[r] EXCEPT !.phase = "drop", !.gone = found] \in Run
        BY <4>1 DEF Run
      <4>3. run' = [run EXCEPT ![r] = [run[r] EXCEPT !.phase = "drop", !.gone = found]]
        BY <2>4 DEF SweepFind, found
      <4> QED
        BY <4>2, <4>3
    <3>2. RecentInv'
      BY <2>4 DEF SweepFind, RecentInv, Active, Run
    <3> QED
      BY <2>4, <3>1, <3>2 DEF SweepFind
  <2>5. CASE SweepDrop(r)
    <3>1. run' \in [Runs -> Run]
      <4>1. [run[r] EXCEPT !.phase = "end", !.seen = {}, !.gone = {}] \in Run
        BY DEF Run
      <4> QED
        BY <2>5, <4>1 DEF SweepDrop
    <3>2. RecentInv'
      BY <2>5 DEF SweepDrop, RecentInv, Active, Run
    <3> QED
      BY <2>5, <3>1, <3>2 DEF SweepDrop
  <2>6. CASE End(r)
    <3>1. target' \in Target
      BY <2>6 DEF End, Target
    <3>2. recent' \subseteq dirty' /\ dirty' \subseteq Items
      BY <2>6 DEF End, RecentInv, Active, Run
    <3> QED
      BY <2>6, <3>1, <3>2 DEF End, RecentInv, Active
  <2> QED
    BY <1>4, <2>1, <2>2, <2>3, <2>4, <2>5, <2>6 DEF RunStep
<1>5. ASSUME NEW e \in Edits, EditStep(e) PROVE TypeOK' /\ RecentInv'
  <2>1. CASE FetchItem(e)
    <3>1. edit' \in [Edits -> Edit]
      <4>1. PICK i \in edit[e].item :
               edit' = [edit EXCEPT ![e] = IF tracker[i] = Absent THEN NoEdit
                          ELSE [phase |-> "store", item |-> {i}, value |-> tracker[i]]]
        BY <2>1 DEF FetchItem
      <4>2. i \in Items /\ tracker[i] \in ItemOrNone
        BY DEF Edit
      <4> QED
        BY <4>1, <4>2, Editing
    <3> QED
      BY <2>1, <3>1 DEF FetchItem, RecentInv, Active
  <2>2. CASE StoreItem(e)
    BY <2>2 DEF StoreItem, RecentInv, Active, Edit
  <2>3. CASE RemoveItem(e)
    BY <2>3 DEF RemoveItem, RecentInv, Active
  <2> QED
    BY <1>5, <2>1, <2>2, <2>3 DEF EditStep
<1>6. CASE LockGoesStale
  BY <1>6 DEF LockGoesStale, Target, RecentInv, Active
<1>7. CASE FullGetsOld
  BY <1>7 DEF FullGetsOld, Target, RecentInv, Active
<1>8. ASSUME NEW i \in Items, OverlapPasses(i) PROVE TypeOK' /\ RecentInv'
  BY <1>8 DEF OverlapPasses, RecentInv, Active
<1>9. CASE UNCHANGED vars
  BY <1>9 DEF vars, RecentInv, Active
<1> QED
  BY <1>1, <1>2, <1>3, <1>4, <1>5, <1>6, <1>7, <1>8, <1>9 DEF Next, Routine

-----------------------------------------------------------------------------
(***************************************************************************)
(* Requests                                                                *)
(***************************************************************************)

\* A change at the tracker, with the request that made it or without.
LEMMA ChangesKeepEdits ==
    ASSUME TypeOK, EditInv, NEW i \in Items, NEW v \in ItemOrNone, Changes(i, v),
           NEW e \in Edits, edit'[e] = edit[e], NEW j \in edit'[e].item
    PROVE  /\ edit'[e].phase = "store" /\ edit'[e].value # tracker'[j] => j \in recent'
           /\ edit'[e].phase = "remove" /\ tracker'[j] # Absent => j \in recent'
<1>1. tracker' = [tracker EXCEPT ![i] = v] /\ recent' = recent \cup {i}
  BY DEF Changes
<1>2. edit[e] \in Edit /\ tracker \in [Items -> ItemOrNone]
  BY DEF TypeOK
<1>3. j \in Items
  BY <1>2 DEF Edit
<1> QED
  BY <1>1, <1>2, <1>3 DEF EditInv

LEMMA EditStepInv == TypeOK /\ EditInv /\ [Next]_vars => EditInv'
<1> SUFFICES ASSUME TypeOK, EditInv, [Next]_vars PROVE EditInv'
  OBVIOUS
<1> USE Idles
<1>1. ASSUME NEW i \in Items, NEW v \in ItemOrNone, Change(i, v) PROVE EditInv'
  BY <1>1, ChangesKeepEdits DEF Change, EditInv
<1>2. ASSUME NEW e \in Edits, NEW i \in Items, NEW v \in Values, EditItem(e, i, v)
      PROVE  EditInv'
  <2>1. v \in ItemOrNone /\ Changes(i, v)
    BY <1>2 DEF EditItem, ItemOrNone
  <2>2. /\ edit'[e] = [phase |-> "fetch", item |-> {i}, value |-> Absent]
        /\ \A f \in Edits \ {e} : edit'[f] = edit[f]
    BY <1>2 DEF EditItem, TypeOK
  <2> QED
    BY <2>1, <2>2, ChangesKeepEdits DEF EditInv
<1>3. ASSUME NEW e \in Edits, NEW i \in Items, DeleteItem(e, i) PROVE EditInv'
  <2>1. Absent \in ItemOrNone /\ Changes(i, Absent)
    BY <1>3 DEF DeleteItem, ItemOrNone
  <2>2. /\ edit'[e] = [phase |-> "remove", item |-> {i}, value |-> Absent]
        /\ \A f \in Edits \ {e} : edit'[f] = edit[f]
    BY <1>3 DEF DeleteItem, TypeOK
  <2>3. i \in recent'
    BY <2>1 DEF Changes
  <2> QED
    BY <2>1, <2>2, <2>3, ChangesKeepEdits DEF EditInv
<1>4. ASSUME NEW e \in Edits, edit' = [edit EXCEPT ![e] = NoEdit],
             tracker' = tracker, recent' = recent
      PROVE  EditInv'
  <2>1. NoEdit.item = {}
    BY DEF NoEdit
  <2> QED
    BY <1>4, <2>1 DEF EditInv, TypeOK
<1>5. ASSUME NEW e \in Edits, FetchItem(e) PROVE EditInv'
  <2>1. PICK i \in edit[e].item :
           edit' = [edit EXCEPT ![e] = IF tracker[i] = Absent THEN NoEdit
                      ELSE [phase |-> "store", item |-> {i}, value |-> tracker[i]]]
    BY <1>5 DEF FetchItem
  <2>2. tracker' = tracker /\ recent' = recent
    BY <1>5 DEF FetchItem
  <2>3. CASE tracker[i] = Absent
    BY <1>4, <2>1, <2>2, <2>3
  <2>4. CASE tracker[i] # Absent
    <3>1. /\ edit'[e] = [phase |-> "store", item |-> {i}, value |-> tracker[i]]
          /\ \A f \in Edits \ {e} : edit'[f] = edit[f]
      BY <2>1, <2>4 DEF TypeOK
    <3> QED
      BY <2>2, <3>1 DEF EditInv
  <2> QED
    BY <2>3, <2>4
<1>6. ASSUME NEW i \in Items, OverlapPasses(i) PROVE EditInv'
  BY <1>6 DEF OverlapPasses, EditInv
<1>7. ASSUME UNCHANGED <<tracker, recent, edit>> PROVE EditInv'
  BY <1>7 DEF EditInv
<1>8. ASSUME NEW r \in Runs, RunStep(r) PROVE EditInv'
  BY <1>7, <1>8 DEF RunStep, ReadPage, WritePage, LastPage, SweepFind, SweepDrop, End
<1>9. ASSUME NEW e \in Edits, EditStep(e) \/ EditStops(e) PROVE EditInv'
  BY <1>4, <1>5, <1>9 DEF EditStep, EditStops, StoreItem, RemoveItem
<1>10. CASE Disturbance
  BY <1>1, <1>2, <1>3, <1>7, <1>9, <1>10
     DEF Disturbance, RemoveTarget, RequestFullSync, Fail, Crash
<1>11. CASE \/ AddTarget \/ LockGoesStale \/ FullGetsOld \/ UNCHANGED vars
            \/ \E r \in Runs, scheduled \in BOOLEAN : Claim(r, scheduled)
  BY <1>7, <1>11 DEF AddTarget, LockGoesStale, FullGetsOld, vars, Claim
<1> QED
  BY <1>6, <1>8, <1>9, <1>10, <1>11 DEF Next, Routine

-----------------------------------------------------------------------------
(***************************************************************************)
(* Runs                                                                    *)
(***************************************************************************)

\* A change at the tracker is dirty, and every run in flight leaves it so.
LEMMA ChangesKeepRuns ==
    ASSUME Inv, NEW i \in Items, NEW v \in ItemOrNone, Changes(i, v),
           mirror' = mirror, target' = target, overlapped' = overlapped
    PROVE  AloneInv' /\ StaleIsDirty'
<1>1. /\ tracker' = [tracker EXCEPT ![i] = v] /\ dirty' = dirty \cup {i}
      /\ tracker \in [Items -> ItemOrNone]
  BY DEF Changes, Inv, TypeOK
<1>2. StaleIsDirty'
  BY <1>1 DEF Inv, StaleIsDirty
<1>3. ASSUME ~overlapped, NEW r \in Active PROVE RunInv(r)'
  <2>1. RunInv(r)
    BY <1>3 DEF Inv, AloneInv
  <2>2. /\ run'[r].phase = run[r].phase /\ run'[r].full = run[r].full
        /\ run'[r].page = run[r].page /\ run'[r].seen = run[r].seen
        /\ run'[r].gone = run[r].gone
        /\ run'[r].changed = run[r].changed \cup {i}
        /\ run[r].todo \subseteq run'[r].todo
    BY <1>3, ChangesRuns DEF Inv
  <2>3. run'[r].changed \subseteq dirty'
    BY <1>1, <2>1, <2>2 DEF RunInv
  <2>4. ASSUME NEW j \in Items, j # i
        PROVE  tracker'[j] = tracker[j]
    BY <1>1, <2>4
  <2> QED
    BY <2>1, <2>2, <2>3, <2>4 DEF RunInv, Answers, Stale
<1>4. Active' = Active
  BY ChangesRuns DEF Inv
<1> QED
  BY <1>2, <1>3, <1>4 DEF Inv, AloneInv, AtMostOne

\* A step that changes no item, no page and no lock.
LEMMA Quiet ==
    ASSUME Inv, UNCHANGED <<tracker, mirror, run, overlapped>>, dirty \subseteq dirty',
           target'.synced => target.synced
    PROVE  AloneInv' /\ StaleIsDirty'
<1>1. StaleIsDirty'
  BY DEF Inv, StaleIsDirty
<1>2. Active' = Active
  BY DEF Active
<1>3. ASSUME NEW r, RunInv(r) PROVE RunInv(r)'
  BY <1>3 DEF RunInv, Answers, Stale
<1> QED
  BY <1>1, <1>2, <1>3 DEF Inv, AloneInv, AtMostOne

\* A request stores or removes an item: what it makes stale is recent.
LEMMA MirrorMoves ==
    ASSUME Inv, UNCHANGED <<tracker, run, overlapped, dirty, target>>,
           \A i \in Items : tracker[i] \notin {Absent, mirror'[i]} => Stale(i) \/ i \in recent
    PROVE  AloneInv' /\ StaleIsDirty'
<1>1. recent \subseteq dirty
  BY DEF Inv, TypeOK
<1>2. StaleIsDirty'
  BY <1>1 DEF Inv, StaleIsDirty, Stale
<1>3. Active' = Active
  BY DEF Active
<1>4. ASSUME NEW r \in Active, RunInv(r) PROVE RunInv(r)'
  <2>1. recent \subseteq run[r].changed
    BY DEF Inv, RecentInv
  <2> QED
    BY <1>4, <2>1 DEF RunInv, Answers, Stale
<1> QED
  BY <1>2, <1>3, <1>4 DEF Inv, AloneInv, AtMostOne

\* The only run in flight moves on.
LEMMA OnlyRunMoves ==
    ASSUME Inv, NEW r \in Active, \A s \in Runs \ {r} : run'[s] = run[s],
           overlapped' = overlapped,
           r \in Active' /\ ~overlapped => RunInv(r)'
    PROVE  AloneInv'
<1>1. Active' \subseteq Active
  BY DEF Active
<1>2. ~overlapped => Active' \subseteq {r}
  BY <1>1 DEF Inv, AloneInv, AtMostOne
<1> QED
  BY <1>2 DEF AloneInv, AtMostOne

\* A run's steps keep its promise: whatever it stores, sweeps or misses and
\* that is out of date changed since it started, and so is left dirty.
LEMMA RunStepInv ==
    ASSUME Inv, NEW r \in Runs, RunStep(r) PROVE AloneInv' /\ StaleIsDirty'
<1>1. r \in Active /\ run[r] \in Run /\ run \in [Runs -> Run] /\ r \in Runs
  BY DEF RunStep, ReadPage, WritePage, LastPage, SweepFind, SweepDrop, End, Active, Inv, TypeOK
<1>2. /\ overlapped' = overlapped
      /\ \A s \in Runs \ {r} : run'[s] = run[s]
      /\ tracker' = tracker
  BY <1>1 DEF RunStep, ReadPage, WritePage, LastPage, SweepFind, SweepDrop, End
<1>3. ~overlapped => RunInv(r)
  BY <1>1 DEF Inv, AloneInv
<1>4. ASSUME NEW i \in Items, ReadPage(r, i) PROVE AloneInv' /\ StaleIsDirty'
  <2> DEFINE page == [Nothing EXCEPT ![i] = tracker[i]]
  <2>1. /\ run'[r].phase = "write" /\ run'[r].full = run[r].full
        /\ run'[r].page = page /\ run'[r].changed = run[r].changed
        /\ run'[r].todo = run[r].todo \ {i}
        /\ run'[r].seen = IF run[r].full /\ tracker[i] # Absent THEN run[r].seen \cup {i}
                                                                 ELSE run[r].seen
        /\ run[r].phase = "read"
    BY <1>1, <1>4 DEF ReadPage, Run
  <2>2. page[i] = tracker[i] /\ \A j \in Items \ {i} : page[j] = Absent
    BY DEF Nothing
  <2>3. mirror' = mirror /\ dirty' = dirty /\ target' = target
    BY <1>4 DEF ReadPage
  <2> HIDE DEF page
  <2>4. ~overlapped => RunInv(r)'
    BY <1>2, <1>3, <2>1, <2>2, <2>3 DEF RunInv, Answers, Stale, Pages
  <2> QED
    BY <1>1, <1>2, <2>3, <2>4, OnlyRunMoves DEF Inv, StaleIsDirty
<1>5. CASE WritePage(r)
  <2>1. /\ run'[r].phase = "read" /\ run'[r].full = run[r].full
        /\ run'[r].changed = run[r].changed /\ run'[r].todo = run[r].todo
        /\ run'[r].seen = run[r].seen
        /\ run[r].phase = "write"
    BY <1>1, <1>5 DEF WritePage, Run
  <2>2. /\ dirty' = dirty /\ target' = target
        /\ \A i \in Items : mirror'[i] = IF run[r].page[i] # Absent THEN run[r].page[i]
                                                                    ELSE mirror[i]
    BY <1>5 DEF WritePage
  <2>3. ASSUME ~overlapped, NEW i \in Items, Stale(i)'
        PROVE  \/ i \in run[r].changed
               \/ Stale(i) /\ i \in run[r].todo
    BY <1>2, <1>3, <2>1, <2>2, <2>3 DEF RunInv, Answers, Stale, Pages
  <2>4. ~overlapped => RunInv(r)'
    BY <1>2, <1>3, <2>1, <2>2, <2>3 DEF RunInv, Answers, Pages
  <2>5. StaleIsDirty'
    BY <1>2, <1>3, <2>2, <2>3 DEF StaleIsDirty, Stale, RunInv, Inv
  <2> QED
    BY <1>1, <1>2, <2>4, <2>5, OnlyRunMoves
<1>6. CASE LastPage(r)
  <2>1. /\ run'[r].phase = IF run[r].full THEN "sweep" ELSE "end"
        /\ run'[r].changed = run[r].changed /\ run'[r].seen = run[r].seen
        /\ run[r].phase = "read" /\ run[r].todo = {}
    BY <1>1, <1>6 DEF LastPage, Run
  <2>2. mirror' = mirror /\ dirty' = dirty /\ target' = target
    BY <1>6 DEF LastPage
  <2>3. ~overlapped => RunInv(r)'
    BY <1>2, <1>3, <2>1, <2>2 DEF RunInv, Answers, Stale, Pages
  <2> QED
    BY <1>1, <1>2, <2>2, <2>3, OnlyRunMoves DEF Inv, StaleIsDirty
<1>7. CASE SweepFind(r)
  <2>1. /\ run'[r].phase = "drop" /\ run'[r].changed = run[r].changed
        /\ \A i \in Items : i \in run'[r].gone => i \notin run[r].seen
        /\ run[r].phase = "sweep"
    BY <1>1, <1>7 DEF SweepFind, Run
  <2>2. mirror' = mirror /\ dirty' = dirty /\ target' = target
    BY <1>7 DEF SweepFind
  <2>3. ~overlapped => RunInv(r)'
    BY <1>2, <1>3, <2>1, <2>2 DEF RunInv, Answers, Stale, Pages
  <2> QED
    BY <1>1, <1>2, <2>2, <2>3, OnlyRunMoves DEF Inv, StaleIsDirty
<1>8. CASE SweepDrop(r)
  <2>1. run'[r].phase = "end" /\ run'[r].changed = run[r].changed /\ run[r].phase = "drop"
    BY <1>1, <1>8 DEF SweepDrop, Run
  <2>2. /\ dirty' = dirty /\ target' = target
        /\ \A i \in Items : mirror'[i] = IF i \in run[r].gone THEN Absent ELSE mirror[i]
    BY <1>8 DEF SweepDrop
  <2>3. ASSUME ~overlapped, NEW i \in Items, Stale(i)' PROVE i \in run[r].changed
    BY <1>2, <1>3, <2>1, <2>2, <2>3 DEF RunInv, Answers, Stale, Pages
  <2>4. ~overlapped => RunInv(r)'
    BY <1>2, <1>3, <2>1, <2>2, <2>3 DEF RunInv, Answers, Pages
  <2>5. StaleIsDirty'
    BY <1>2, <1>3, <2>2, <2>3 DEF StaleIsDirty, Stale, RunInv
  <2> QED
    BY <1>1, <1>2, <2>4, <2>5, OnlyRunMoves
<1>9. CASE End(r)
  <2>1. /\ dirty' = run[r].changed /\ mirror' = mirror /\ run[r].phase = "end"
        /\ run' = [run EXCEPT ![r] = NoRun]
    BY <1>9 DEF End
  <2>2. r \notin Active'
    BY <1>1, <2>1, Idles DEF Active
  <2>3. StaleIsDirty'
    BY <1>2, <1>3, <2>1 DEF StaleIsDirty, RunInv, Answers, Stale, Pages
  <2> QED
    BY <1>1, <1>2, <2>2, <2>3, OnlyRunMoves
<1> QED
  BY <1>4, <1>5, <1>6, <1>7, <1>8, <1>9 DEF RunStep

\* A run that starts has everything that is out of date on its pages.
LEMMA ClaimInv ==
    ASSUME Inv, NEW r \in Runs, NEW scheduled \in BOOLEAN, Claim(r, scheduled)
    PROVE  AloneInv' /\ StaleIsDirty'
<1> DEFINE todo == IF IsFull(scheduled) THEN Items ELSE dirty
           new == [NoRun EXCEPT !.phase = "read", !.full = IsFull(scheduled),
                                !.todo = todo, !.changed = recent]
<1>1. run' = [run EXCEPT ![r] = new] /\ run \in [Runs -> Run]
  BY DEF Claim, Inv, TypeOK
<1>2. /\ new.phase = "read" /\ new.full = IsFull(scheduled)
      /\ new.todo = todo /\ new.changed = recent
  BY DEF NoRun
<1> HIDE DEF new
<1>3. /\ UNCHANGED <<tracker, mirror, dirty>>
      /\ overlapped' = (overlapped \/ Active # {})
      /\ target'.synced = target.synced
  BY DEF Claim, Inv, TypeOK, Target
<1>4. StaleIsDirty'
  BY <1>3 DEF Inv, StaleIsDirty
<1>5. ASSUME ~overlapped', NEW s \in Active' PROVE s = r
  BY <1>1, <1>3, <1>5 DEF Active
<1>6. ~overlapped' => RunInv(r)'
  <2>1. SUFFICES ASSUME ~overlapped' PROVE RunInv(r)'
    OBVIOUS
  <2>2. ~overlapped /\ run'[r] = new /\ recent \subseteq dirty
    BY <1>1, <1>3, <2>1 DEF Inv, TypeOK
  <2>3. \A i \in Items : Stale(i) => i \in todo
    BY <2>2 DEF IsFull, Inv, StaleIsDirty, Stale
  <2> HIDE DEF todo
  <2>4. IsFull(scheduled) => todo = Items
    BY DEF todo
  <2> QED
    BY <1>2, <1>3, <2>2, <2>3, <2>4 DEF RunInv, Answers, Stale, Pages
<1> QED
  BY <1>4, <1>5, <1>6 DEF AloneInv, AtMostOne

-----------------------------------------------------------------------------
(***************************************************************************)
(* Theorems                                                                *)
(***************************************************************************)

LEMMA InvInit == Init => Inv
<1> SUFFICES ASSUME Init PROVE Inv
  OBVIOUS
<1>1. TypeOK
  BY Maps, Idles DEF Init, TypeOK, Target
<1>2. Active = {}
  BY Idles DEF Init, Active
<1>3. EditInv
  BY DEF Init, EditInv, NoEdit
<1>4. StaleIsDirty
  BY DEF Init, StaleIsDirty
<1> QED
  BY <1>1, <1>2, <1>3, <1>4 DEF Inv, RecentInv, AloneInv, AtMostOne

LEMMA InvStep == Inv /\ [Next]_vars => Inv'
<1> SUFFICES ASSUME Inv, [Next]_vars PROVE Inv'
  OBVIOUS
<1>1. TypeOK' /\ RecentInv' /\ EditInv'
  BY TypeStep, EditStepInv DEF Inv
<1> SUFFICES AloneInv' /\ StaleIsDirty'
  BY <1>1 DEF Inv
<1>2. TypeOK
  BY DEF Inv
<1>3. ASSUME NEW r \in Runs, Fail(r) \/ Crash(r) PROVE AloneInv' /\ StaleIsDirty'
  <2>1. /\ r \in Active /\ run' = [run EXCEPT ![r] = NoRun]
        /\ UNCHANGED <<tracker, mirror, dirty, overlapped>>
        /\ target'.synced = target.synced
    BY <1>2, <1>3 DEF Fail, Crash, Active, TypeOK, Target
  <2>2. r \notin Active' /\ \A s \in Runs \ {r} : run'[s] = run[s]
    BY <1>2, <2>1, Idles DEF Active, TypeOK
  <2>3. StaleIsDirty'
    BY <2>1 DEF Inv, StaleIsDirty
  <2> QED
    BY <2>1, <2>2, <2>3, OnlyRunMoves
<1>4. CASE Disturbance
  <2>1. ASSUME NEW i \in Items, NEW v \in ItemOrNone, Changes(i, v),
               mirror' = mirror, target' = target, overlapped' = overlapped
        PROVE  AloneInv' /\ StaleIsDirty'
    BY <2>1, ChangesKeepRuns
  <2>2. ASSUME NEW e \in Edits, EditStops(e) PROVE AloneInv' /\ StaleIsDirty'
    BY <2>2, Quiet DEF EditStops
  <2>3. CASE RemoveTarget \/ RequestFullSync
    BY <1>2, <2>3, Quiet DEF RemoveTarget, RequestFullSync, TypeOK, Target
  <2> QED
    BY <1>3, <1>4, <2>1, <2>2, <2>3, Maps
       DEF Disturbance, Change, EditItem, DeleteItem, ItemOrNone
<1>5. CASE AddTarget
  <2>1. target'.synced = FALSE /\ dirty \subseteq dirty'
    BY <1>2, <1>5 DEF AddTarget, TypeOK, Target
  <2> QED
    BY <1>5, <2>1, Quiet DEF AddTarget
<1>6. ASSUME NEW e \in Edits, EditStep(e) PROVE AloneInv' /\ StaleIsDirty'
  <2>1. CASE FetchItem(e)
    BY <2>1, Quiet DEF FetchItem
  <2>2. CASE StoreItem(e)
    BY <1>2, <2>2, MirrorMoves DEF StoreItem, Inv, EditInv, Stale
  <2>3. CASE RemoveItem(e)
    BY <1>2, <2>3, MirrorMoves DEF RemoveItem, Inv, EditInv, Stale
  <2> QED
    BY <1>6, <2>1, <2>2, <2>3 DEF EditStep
<1>7. CASE LockGoesStale \/ FullGetsOld
  BY <1>2, <1>7, Quiet DEF LockGoesStale, FullGetsOld, TypeOK, Target
<1>8. ASSUME NEW i \in Items, OverlapPasses(i) PROVE AloneInv' /\ StaleIsDirty'
  BY <1>8, Quiet DEF OverlapPasses
<1>9. CASE UNCHANGED vars
  BY <1>9, Quiet DEF vars
<1> QED
  BY <1>4, <1>5, <1>6, <1>7, <1>8, <1>9, RunStepInv, ClaimInv DEF Next, Routine

LEMMA Invariance == Spec => []Inv
BY InvInit, InvStep, PTL DEF Spec

\* Type correctness, which needs to know what every run leaves dirty: what is
\* within the overlap is always dirty.
THEOREM TypeCorrect == Spec => []TypeOK
BY Invariance, PTL DEF Inv

\* An item that is out of date is read again by the next incremental sync,
\* whatever was edited, swept, read, lost or failed since, as long as the lock
\* never let two runs in at once (connectors/sync.py, repository.claim_target).
THEOREM StaleItemsAreDirty == Spec => []StaleIsDirty
BY Invariance, PTL DEF Inv

-----------------------------------------------------------------------------
(***************************************************************************)
(* The parts MCMirrors runs beside TargetSync: the indexing pipeline, the  *)
(* suggestions and, at the end, the boards.                                *)
(***************************************************************************)

Parts == INSTANCE MirrorParts WITH run <- pipeRun,
  Sources <- {Edited, Quoted}, Texts <- {1}, Passages <- {Passage}, Says <- Says, Related <- {<<Quoted, Edited>>},
  Tasks <- Runs, Ids <- Values, MaxQuotes <- 2, SlowRuns <- FALSE,
  text <- c1, scan <- c2, dec <- c3, task <- c4, dismissed <- c5, finished <- c6, overtaken <- c7,
  Issues <- {"i"}, Layouts <- Columns, Sprints <- {"sprint"}, Slots <- Runs, First <- "open", MaxChanges <- 2,
  tracker <- c1, theirs <- c2, recent <- c3, mirror <- c4, noted <- c5, board <- c6, sync <- c7, slot <- c8, made <- c9,
  calm <- c10, declined <- c11, blurred <- c12, stray <- c13, ids <- c14,
  Items <- Values, Iterations <- {"a", "b"}, Names <- {"task", "bug", "own"}, TASK <- "task", BUG <- "bug",
  MaxTypes <- 3, MaxRequests <- 2, columns <- c1, item <- c2, unused <- c3, stage <- c4, types <- c5, comments <- c6,
  desk <- c7, asked <- c8, astray <- c9

\* What Pipeline names and what the proofs name are one.
LEMMA SamePipeline ==
    /\ Pipeline!Init = Parts!Init
    /\ Pipeline!Edges = Parts!Edges
    /\ Parts!TypeOK /\ Parts!CompletedRunMirrors => Pipeline!TypeOK /\ Pipeline!CompletedRunMirrors
<1>1. Pipeline!Init = Parts!Init
  BY DEF Pipeline!Init, Parts!Init, Pipeline!NoTree, Parts!NoTree, Pipeline!NoRun, Parts!NoRun,
         Pipeline!FullDelta, Parts!FullDelta, Pipeline!Files, Parts!Files, Pipeline!EdgesOf, Parts!EdgesOf,
         Pipeline!Edges, Parts!Edges
<1>2. Pipeline!Edges = Parts!Edges
  BY DEF Pipeline!Edges, Parts!Edges
<1>3. Parts!TypeOK => Pipeline!TypeOK
  BY <1>2 DEF Pipeline!TypeOK, Parts!TypeOK, Pipeline!Trees, Parts!Trees, Pipeline!Files, Parts!Files,
         Pipeline!Run, Parts!Run, Pipeline!Phases, Parts!Phases, Pipeline!Delta, Parts!Delta
<1>4. Parts!CompletedRunMirrors => Pipeline!CompletedRunMirrors
  BY <1>2 DEF Pipeline!CompletedRunMirrors, Parts!CompletedRunMirrors, Pipeline!Mirrors, Parts!Mirrors,
         Pipeline!Without, Parts!Without, Pipeline!EdgesOf, Parts!EdgesOf
<1> QED
  BY <1>1, <1>2, <1>3, <1>4

LEMMA PipelineWrites ==
    /\ \A p \in Paths : Pipeline!UpsertNode(p) => Parts!UpsertNode(p)
    /\ \A p \in Paths : Pipeline!DeleteNode(p) => Parts!DeleteNode(p)
    /\ \A p \in Paths : Pipeline!SaveFacts(p) => Parts!SaveFacts(p)
    /\ \A e \in Pipeline!Edges : Pipeline!UpsertEdge(e) => Parts!UpsertEdge(e)
    /\ \A e \in Pipeline!Edges : Pipeline!DeleteEdge(e) => Parts!DeleteEdge(e)
BY DEF Pipeline!UpsertNode, Parts!UpsertNode, Pipeline!DeleteNode, Parts!DeleteNode, Pipeline!SaveFacts, Parts!SaveFacts,
       Pipeline!UpsertEdge, Parts!UpsertEdge, Pipeline!DeleteEdge, Parts!DeleteEdge, Pipeline!Files, Parts!Files

LEMMA PipelineStarts ==
    \A full \in BOOLEAN : \A skipped \in SUBSET Paths : Pipeline!Start(full, skipped) => Parts!Start(full, skipped)
<1> SUFFICES ASSUME NEW full \in BOOLEAN, NEW skipped \in SUBSET Paths, Pipeline!Start(full, skipped)
             PROVE  Parts!Start(full, skipped)
  OBVIOUS
<1>1. \A t : Pipeline!Files(t) = Parts!Files(t) /\ \A S : Pipeline!Without(t, S) = Parts!Without(t, S)
  BY DEF Pipeline!Files, Parts!Files, Pipeline!Without, Parts!Without
<1>2. \A t : Pipeline!EdgesOf(t) = Parts!EdgesOf(t)
  BY SamePipeline DEF Pipeline!EdgesOf, Parts!EdgesOf
<1>3. \A t : Pipeline!FullDelta(t) = Parts!FullDelta(t) /\ \A u : Pipeline!Diff(u, t) = Parts!Diff(u, t)
  BY <1>1, <1>2 DEF Pipeline!FullDelta, Parts!FullDelta, Pipeline!Diff, Parts!Diff
<1>4. \A t : Pipeline!ToExtract(t) = Parts!ToExtract(t) /\ Pipeline!Deleted(t) = Parts!Deleted(t)
  BY <1>1 DEF Pipeline!ToExtract, Parts!ToExtract, Pipeline!Deleted, Parts!Deleted
<1>5. \A t, S, D : Pipeline!MergeFacts(t, S, D) = Parts!MergeFacts(t, S, D)
  BY <1>1 DEF Pipeline!MergeFacts, Parts!MergeFacts, Pipeline!Overlay, Parts!Overlay
<1>6. Pipeline!NoTree = Parts!NoTree /\ Pipeline!Fingerprints = Parts!Fingerprints
  BY <1>1 DEF Pipeline!NoTree, Parts!NoTree, Pipeline!Fingerprints, Parts!Fingerprints
<1>7. \A t : Pipeline!Trust(full, skipped, t) = Parts!Trust(full, skipped, t)
  BY <1>1 DEF Pipeline!Trust, Parts!Trust, Pipeline!SoundCache, Parts!SoundCache
<1>8. \A u, t : Pipeline!BuildDelta(u, t) = Parts!BuildDelta(u, t)
  BY <1>3, <1>6 DEF Pipeline!BuildDelta, Parts!BuildDelta
<1> QED
  BY <1>4, <1>5, <1>6, <1>7, <1>8, Zenon DEF Pipeline!Start, Parts!Start

LEMMA PipelineActions ==
    /\ Pipeline!Push => Parts!Push
    /\ Pipeline!Deploy => Parts!Deploy
    /\ Pipeline!Wipe => Parts!Wipe
    /\ Pipeline!NextStage => Parts!NextStage
    /\ Pipeline!ClearFacts => Parts!ClearFacts
    /\ Pipeline!ForgetFacts => Parts!ForgetFacts
    /\ Pipeline!Finish => Parts!Finish
    /\ Pipeline!Crash => Parts!Crash
<1>1. /\ Pipeline!Push => Parts!Push
      /\ Pipeline!Deploy => Parts!Deploy
      /\ Pipeline!Wipe => Parts!Wipe
      /\ Pipeline!NextStage => Parts!NextStage
      /\ Pipeline!ClearFacts => Parts!ClearFacts
      /\ Pipeline!ForgetFacts => Parts!ForgetFacts
  BY DEF Pipeline!Push, Parts!Push, Pipeline!Deploy, Parts!Deploy, Pipeline!Files, Parts!Files, Pipeline!Wipe, Parts!Wipe,
         Pipeline!NoTree, Parts!NoTree, Pipeline!NextStage, Parts!NextStage, Pipeline!Following, Parts!Following,
         Pipeline!ClearFacts, Parts!ClearFacts, Pipeline!ForgetFacts, Parts!ForgetFacts, Pipeline!Without, Parts!Without
<1>2. Pipeline!NoRun = Parts!NoRun /\ Pipeline!Trees = Parts!Trees
  BY DEF Pipeline!NoRun, Parts!NoRun, Pipeline!NoTree, Parts!NoTree, Pipeline!FullDelta, Parts!FullDelta,
         Pipeline!Files, Parts!Files, Pipeline!EdgesOf, Parts!EdgesOf, Pipeline!Edges, Parts!Edges, Pipeline!Trees, Parts!Trees
<1>3. (Pipeline!Finish => Parts!Finish) /\ (Pipeline!Crash => Parts!Crash)
  BY <1>2 DEF Pipeline!Finish, Parts!Finish, Pipeline!Crash, Parts!Crash
<1> QED
  BY <1>1, <1>3

\* A step of any part is one of the pipeline, or leaves it as it is.
LEMMA PipelineMoves == [MCNext]_allVars => [Parts!Next]_(Parts!vars)
<1> SUFFICES ASSUME [MCNext]_allVars PROVE [Parts!Next]_(Parts!vars)
  OBVIOUS
<1>1. CASE PipelineNext
  BY <1>1, SamePipeline, PipelineWrites, PipelineStarts, PipelineActions, Zenon DEF PipelineNext, Parts!Next
<1>2. CASE UNCHANGED allVars
  BY <1>2 DEF allVars, ofPipeline, Parts!vars
<1>3. CASE TargetSyncNext \/ SuggestionsNext \/ TrackedNext \/ NativeNext \/ ViewsNext \/ BuildsNext \/ SettingsNext
  <2>1. UNCHANGED ofPipeline
    BY <1>3 DEF TargetSyncNext, InTargetSync, SuggestionsNext, InSuggestions, TrackedNext, InTracked, NativeNext, InNative,
                ViewsNext, InViews, BuildsNext, InBuilds, SettingsNext, InSettings
  <2> QED
    BY <2>1 DEF ofPipeline, Parts!vars
<1> QED
  BY <1>1, <1>2, <1>3 DEF MCNext

LEMMA PipelineRuns == MCSpec => Parts!Spec
<1>1. MCInit => Parts!Init
  BY SamePipeline DEF MCInit
<1> QED
  BY <1>1, PipelineMoves, PTL DEF MCSpec, Parts!Spec

\* pipeline.py, sync_plan.py, diff.py: a run that completes leaves exactly the tree it
\* read, in the graph and in the facts, after whatever was pushed and interrupted.
THEOREM PipelineKeepsItsPromise == ASSUME Parts!PipelineConstants PROVE MCSpec => []CompletedRunMirrors
<1>1. Parts!Spec => [](Parts!TypeOK /\ Parts!CompletedRunMirrors)
  BY Parts!PipelineMirrors
<1>2. Parts!TypeOK /\ Parts!CompletedRunMirrors => CompletedRunMirrors
  BY SamePipeline DEF CompletedRunMirrors
<1> QED
  BY <1>1, <1>2, PipelineRuns, PTL

\* pipeline.py: the graph first, the facts second, so that no later sync takes a file
\* for indexed that the graph does not have.
THEOREM PipelineStoresLast == ASSUME Parts!PipelineConstants PROVE MCSpec => GraphBeforeFacts
<1>1. Parts!Spec => Parts!GraphBeforeFacts
  BY Parts!GraphComesFirst
<1> QED
  BY <1>1, PipelineRuns, PTL DEF GraphBeforeFacts, Pipeline!GraphBeforeFacts, Parts!GraphBeforeFacts

\* Suggestions' actions are those the proofs are about.
LEMMA SameDrafts ==
    /\ Suggestions!Idle = Parts!Drafts!Idle
    /\ \A t : (Suggestions!Over(t) => Parts!Drafts!Over(t)) /\ \A pc : Suggestions!Goto(t, pc) => Parts!Drafts!Goto(t, pc)
    /\ \A i : Suggestions!Quotes(i) = Parts!Drafts!Quotes(i)
    /\ \A s : Suggestions!Holding(s) = Parts!Drafts!Holding(s)
BY DEF Suggestions!Idle, Parts!Drafts!Idle, Suggestions!Over, Parts!Drafts!Over, Suggestions!Goto, Parts!Drafts!Goto,
       Suggestions!Quotes, Parts!Drafts!Quotes, Suggestions!Holding, Parts!Drafts!Holding

LEMMA DraftsCardinality == ASSUME NEW S PROVE Suggestions!Cardinality(S) = Parts!Drafts!Cardinality(S)
BY DEF Suggestions!Cardinality, Parts!Drafts!Cardinality, Suggestions!IsFiniteSet, Parts!Drafts!IsFiniteSet

LEMMA SourceActions ==
    /\ \A s : Suggestions!Lapse(s) => Parts!Drafts!Lapse(s)
    /\ \A s, x : Suggestions!Write(s, x) => Parts!Drafts!Write(s, x)
BY SameDrafts DEF Suggestions!Lapse, Parts!Drafts!Lapse, Suggestions!Write, Parts!Drafts!Write

LEMMA DraftActions ==
    ASSUME NEW t \in Runs
    PROVE  /\ Suggestions!Claim(t) => Parts!Drafts!Claim(t)
           /\ Suggestions!Release(t) => Parts!Drafts!Release(t)
           /\ Suggestions!Look(t) => Parts!Drafts!Look(t)
           /\ Suggestions!KnownDismissed(t) => Parts!Drafts!KnownDismissed(t)
           /\ Suggestions!KnownQuoted(t) => Parts!Drafts!KnownQuoted(t)
           /\ Suggestions!Draft(t) => Parts!Drafts!Draft(t)
           /\ Suggestions!Create(t) => Parts!Drafts!Create(t)
           /\ Suggestions!Finish(t) => Parts!Drafts!Finish(t)
           /\ Suggestions!RecordDismissed(t) => Parts!Drafts!RecordDismissed(t)
           /\ Suggestions!Fail(t) => Parts!Drafts!Fail(t)
           /\ Suggestions!Crash(t) => Parts!Drafts!Crash(t)
           /\ \A s : Suggestions!Suggest(t, s) => Parts!Drafts!Suggest(t, s)
           /\ \A i : Suggestions!Dismiss(t, i) => Parts!Drafts!Dismiss(t, i)
<1>1. /\ Suggestions!Claim(t) => Parts!Drafts!Claim(t)
      /\ Suggestions!Release(t) => Parts!Drafts!Release(t)
      /\ \A s : Suggestions!Suggest(t, s) => Parts!Drafts!Suggest(t, s)
  BY SameDrafts DEF Suggestions!Claim, Parts!Drafts!Claim, Suggestions!Release, Parts!Drafts!Release,
         Suggestions!Suggest, Parts!Drafts!Suggest
<1>2. /\ Suggestions!Look(t) => Parts!Drafts!Look(t)
      /\ Suggestions!Finish(t) => Parts!Drafts!Finish(t)
      /\ Suggestions!Fail(t) => Parts!Drafts!Fail(t)
      /\ Suggestions!Crash(t) => Parts!Drafts!Crash(t)
  BY SameDrafts DEF Suggestions!Look, Parts!Drafts!Look, Suggestions!Finish, Parts!Drafts!Finish,
         Suggestions!Fail, Parts!Drafts!Fail, Suggestions!Crash, Parts!Drafts!Crash
<1>3. Suggestions!KnownDismissed(t) => Parts!Drafts!KnownDismissed(t)
  BY DEF Suggestions!KnownDismissed, Parts!Drafts!KnownDismissed
<1>4. Suggestions!KnownQuoted(t) => Parts!Drafts!KnownQuoted(t)
  BY DEF Suggestions!KnownQuoted, Parts!Drafts!KnownQuoted, Suggestions!Quotes, Parts!Drafts!Quotes
<1>5. \A i : Suggestions!Dismiss(t, i) => Parts!Drafts!Dismiss(t, i)
  BY SameDrafts DEF Suggestions!Dismiss, Parts!Drafts!Dismiss
<1>6. Suggestions!RecordDismissed(t) => Parts!Drafts!RecordDismissed(t)
  BY SameDrafts DEF Suggestions!RecordDismissed, Parts!Drafts!RecordDismissed
<1>7. Suggestions!Draft(t) => Parts!Drafts!Draft(t)
  BY SameDrafts, DraftsCardinality DEF Suggestions!Draft, Parts!Drafts!Draft
<1>8. Suggestions!Create(t) => Parts!Drafts!Create(t)
  BY SameDrafts DEF Suggestions!Create, Parts!Drafts!Create
<1> QED
  BY <1>1, <1>2, <1>3, <1>4, <1>5, <1>6, <1>7, <1>8

\* suggest.py: whatever suggests and dismissals overlap, fail or die, a text is drafted
\* from once, a passage is drafted once, and what was dismissed stays so.
THEOREM DraftsKeepTheirPromise == ASSUME Parts!DraftConstants PROVE MCSpec => []SuggestionsSafe
<1> DEFINE I == part = "suggestions" => Parts!DraftInv
<1>1. MCInit => I
  <2>1. Suggestions!Init => Parts!Drafts!Init
    BY SameDrafts DEF Suggestions!Init, Parts!Drafts!Init
  <2>2. MCInit /\ part = "suggestions" => Suggestions!Init
    BY DEF MCInit
  <2> QED
    BY <2>1, <2>2, Parts!DraftInit
<1>2. I /\ [MCNext]_allVars => I'
  <2> SUFFICES ASSUME I, [MCNext]_allVars PROVE I'
    OBVIOUS
  <2>1. CASE UNCHANGED allVars
    <3>1. part' = part /\ UNCHANGED Parts!Drafts!vars
      BY <2>1 DEF allVars, ofShared, Parts!Drafts!vars
    <3> QED
      BY <3>1, Parts!DraftsStep
  <2>2. CASE SuggestionsNext
    <3>1. part = "suggestions" /\ part' = part
      BY <2>2 DEF SuggestionsNext, InSuggestions
    <3>2. Parts!Drafts!Next
      <4>1. CASE \E t \in Runs :
                   \/ Suggestions!Claim(t) \/ Suggestions!Release(t) \/ Suggestions!Look(t) \/ Suggestions!KnownDismissed(t)
                   \/ Suggestions!KnownQuoted(t) \/ Suggestions!Draft(t) \/ Suggestions!Create(t) \/ Suggestions!Finish(t)
                   \/ Suggestions!RecordDismissed(t) \/ Suggestions!Fail(t) \/ Suggestions!Crash(t)
        BY <4>1, DraftActions DEF Parts!Drafts!Next
      <4>2. CASE (\E t \in Runs, s \in {Edited, Quoted} : Suggestions!Suggest(t, s)) \/ \E t \in Runs, i \in Values : Suggestions!Dismiss(t, i)
        BY <4>2, DraftActions DEF Parts!Drafts!Next
      <4>3. CASE (\E s \in {Edited, Quoted} : Suggestions!Lapse(s)) \/ Suggestions!Write(Edited, None)
        BY <4>3, SourceActions DEF Parts!Drafts!Next
      <4> QED
        BY <2>2, <4>1, <4>2, <4>3 DEF SuggestionsNext
    <3> QED
      BY <3>1, <3>2, Parts!DraftsStep
  <2>3. CASE TargetSyncNext \/ PipelineNext \/ TrackedNext \/ NativeNext \/ ViewsNext \/ BuildsNext \/ SettingsNext
    <3>1. part # "suggestions" /\ part' = part
      BY <2>3 DEF TargetSyncNext, InTargetSync, PipelineNext, InPipeline, TrackedNext, InTracked, NativeNext, InNative,
                  ViewsNext, InViews, BuildsNext, InBuilds, SettingsNext, InSettings
    <3> QED
      BY <3>1
  <2> QED
    BY <2>1, <2>2, <2>3 DEF MCNext
<1>3. I => SuggestionsSafe
  <2>1. Parts!DraftInv => Parts!Drafts!TypeOK /\ Parts!Drafts!AskedOnce /\ Parts!Drafts!DraftedOnce /\ Parts!Drafts!DismissedStays
    BY Parts!AskedOnceHolds, Parts!DraftTypeCorrect DEF Parts!DraftInv
  <2>2. /\ Parts!Drafts!TypeOK => Suggestions!TypeOK
        /\ Parts!Drafts!AskedOnce => Suggestions!AskedOnce
        /\ Parts!Drafts!DraftedOnce => Suggestions!DraftedOnce
        /\ Parts!Drafts!DismissedStays => Suggestions!DismissedStays
    BY SameDrafts DEF Parts!Drafts!TypeOK, Suggestions!TypeOK, Parts!Drafts!AskedOnce, Suggestions!AskedOnce,
       Parts!Drafts!DraftedOnce, Suggestions!DraftedOnce, Parts!Drafts!DismissedStays, Suggestions!DismissedStays
  <2> QED
    BY <2>1, <2>2 DEF SuggestionsSafe
<1> QED
  BY <1>1, <1>2, <1>3, PTL DEF MCSpec

-----------------------------------------------------------------------------
(***************************************************************************)
(* The boards                                                              *)
(***************************************************************************)

\* TrackerBoard's operators and actions are those the proofs are about.
LEMMA SameBoard ==
    /\ Tracked!Free = Parts!Board!Free
    /\ Tracked!Busy = Parts!Board!Busy
    /\ Tracked!Mirrored = Parts!Board!Mirrored
    /\ Tracked!AtTracker = Parts!Board!AtTracker
    /\ \A i : Tracked!Item(i) = Parts!Board!Item(i)
    /\ Tracked!ItemsHere = Parts!Board!ItemsHere
    /\ \A b, s : Tracked!ResolveColumn(b, s) = Parts!Board!ResolveColumn(b, s)
    /\ \A b, issue : Tracked!Place(b, issue) = Parts!Board!Place(b, issue)
    /\ \A cols : Tracked!Shown(cols) = Parts!Board!Shown(cols)
    /\ \A s : Tracked!New(s) = Parts!Board!New(s)
    /\ \A items, shown : Tracked!MarkHidden(items, shown) = Parts!Board!MarkHidden(items, shown)
    /\ \A items, b : Tracked!Marked(items, b) = Parts!Board!Marked(items, b)
    /\ \A items, b : Tracked!PlaceAll(items, b) = Parts!Board!PlaceAll(items, b)
    /\ Tracked!Listed = Parts!Board!Listed
    /\ \A s : Tracked!Column(s) = Parts!Board!Column(s)
    /\ \A q, column, op : Tracked!Then(q, column, op) = Parts!Board!Then(q, column, op)
    /\ \A q : Tracked!Scheduled(q) = Parts!Board!Scheduled(q)
    /\ Tracked!HalfWay = Parts!Board!HalfWay
BY DEF Tracked!Free, Parts!Board!Free, Tracked!Busy, Parts!Board!Busy, Tracked!Mirrored, Parts!Board!Mirrored,
       Tracked!AtTracker, Parts!Board!AtTracker, Tracked!Item, Parts!Board!Item, Tracked!ItemsHere,
       Parts!Board!ItemsHere, Tracked!ResolveColumn, Parts!Board!ResolveColumn, Tracked!Place, Parts!Board!Place,
       Tracked!Shown, Parts!Board!Shown, Tracked!New, Parts!Board!New, Tracked!MarkHidden, Parts!Board!MarkHidden,
       Tracked!Marked, Parts!Board!Marked, Tracked!PlaceAll, Parts!Board!PlaceAll, Tracked!Listed, Parts!Board!Listed,
       Tracked!Column, Parts!Board!Column, Tracked!Then, Parts!Board!Then, Tracked!Scheduled, Parts!Board!Scheduled,
       Tracked!HalfWay, Parts!Board!HalfWay

LEMMA SameBoardSteps ==
    /\ \A i, item : Tracked!Upsert(i, item) => Parts!Board!Upsert(i, item)
    /\ \A r, what : Tracked!Go(r, what) => Parts!Board!Go(r, what)
    /\ \A r : Tracked!Finish(r) => Parts!Board!Finish(r)
    /\ \A r, what : Tracked!Begin(r, what) => Parts!Board!Begin(r, what)
    /\ \A r, i, issue, what : Tracked!Tell(r, i, issue, what) => Parts!Board!Tell(r, i, issue, what)
    /\ \A r, op, issue, what : Tracked!TellOf(r, op, issue, what) => Parts!Board!TellOf(r, op, issue, what)
BY SameBoard DEF Tracked!Upsert, Parts!Board!Upsert, Tracked!Go, Parts!Board!Go, Tracked!Finish, Parts!Board!Finish,
       Tracked!Begin, Parts!Board!Begin, Tracked!Count, Parts!Board!Count, Tracked!Unread, Parts!Board!Unread,
       Tracked!Mirror, Parts!Board!Mirror, Tracked!History, Parts!Board!History, Tracked!Tell, Parts!Board!Tell,
       Tracked!TellOf, Parts!Board!TellOf

LEMMA TrackerActions ==
    /\ \A i, issue : Tracked!TrackerChanges(i, issue) => Parts!Board!TrackerChanges(i, issue)
    /\ \A cols : Tracked!TrackerRearranges(cols) => Parts!Board!TrackerRearranges(cols)
<1>1. \A i, issue : Tracked!TrackerChanges(i, issue) => Parts!Board!TrackerChanges(i, issue)
  BY SameBoard, SameBoardSteps DEF Tracked!TrackerChanges, Parts!Board!TrackerChanges, Tracked!Count,
         Parts!Board!Count, Tracked!Mirror, Parts!Board!Mirror, Tracked!History, Parts!Board!History
<1>2. \A cols : Tracked!TrackerRearranges(cols) => Parts!Board!TrackerRearranges(cols)
  BY SameBoard, SameBoardSteps DEF Tracked!TrackerRearranges, Parts!Board!TrackerRearranges, Tracked!Count,
         Parts!Board!Count, Tracked!Mirror, Parts!Board!Mirror, Tracked!History, Parts!Board!History
<1> QED
  BY <1>1, <1>2

LEMMA SyncActions ==
    /\ \A full : Tracked!StartSync(full) => Parts!Board!StartSync(full)
    /\ Tracked!ReadColumns => Parts!Board!ReadColumns
    /\ Tracked!ShowStatuses => Parts!Board!ShowStatuses
    /\ Tracked!HideItems => Parts!Board!HideItems
    /\ Tracked!OfferColumns => Parts!Board!OfferColumns
    /\ Tracked!SyncPlaces => Parts!Board!SyncPlaces
    /\ Tracked!ColumnsFail => Parts!Board!ColumnsFail
    /\ Tracked!ReadDetails => Parts!Board!ReadDetails
    /\ Tracked!List => Parts!Board!List
    /\ \A i : Tracked!ReadIssue(i) => Parts!Board!ReadIssue(i)
    /\ Tracked!WriteIssue => Parts!Board!WriteIssue
    /\ Tracked!FindGone => Parts!Board!FindGone
    /\ Tracked!SweepComments => Parts!Board!SweepComments
    /\ Tracked!SweepItems => Parts!Board!SweepItems
    /\ Tracked!SyncStops => Parts!Board!SyncStops
<1>1. \A full : Tracked!StartSync(full) => Parts!Board!StartSync(full)
  BY SameBoard, SameBoardSteps DEF Tracked!StartSync, Parts!Board!StartSync, Tracked!Mirror, Parts!Board!Mirror,
         Tracked!Ours, Parts!Board!Ours, Tracked!History, Parts!Board!History
<1>2. Tracked!ReadColumns => Parts!Board!ReadColumns
  BY SameBoard, SameBoardSteps DEF Tracked!ReadColumns, Parts!Board!ReadColumns, Tracked!Unread, Parts!Board!Unread,
         Tracked!Mirror, Parts!Board!Mirror, Tracked!Ours, Parts!Board!Ours, Tracked!History, Parts!Board!History
<1>3. Tracked!ShowStatuses => Parts!Board!ShowStatuses
  BY SameBoard, SameBoardSteps DEF Tracked!ShowStatuses, Parts!Board!ShowStatuses, Tracked!Unread, Parts!Board!Unread,
         Tracked!Mirror, Parts!Board!Mirror, Tracked!Ours, Parts!Board!Ours, Tracked!History, Parts!Board!History
<1>4. Tracked!HideItems => Parts!Board!HideItems
  BY SameBoard, SameBoardSteps DEF Tracked!HideItems, Parts!Board!HideItems, Tracked!Unread, Parts!Board!Unread,
         Tracked!Ours, Parts!Board!Ours, Tracked!History, Parts!Board!History
<1>5. Tracked!OfferColumns => Parts!Board!OfferColumns
  BY SameBoard, SameBoardSteps DEF Tracked!OfferColumns, Parts!Board!OfferColumns, Tracked!Unread, Parts!Board!Unread,
         Tracked!Mirror, Parts!Board!Mirror, Tracked!Ours, Parts!Board!Ours
<1>6. Tracked!SyncPlaces => Parts!Board!SyncPlaces
  BY SameBoard, SameBoardSteps DEF Tracked!SyncPlaces, Parts!Board!SyncPlaces, Tracked!Unread, Parts!Board!Unread,
         Tracked!Ours, Parts!Board!Ours, Tracked!History, Parts!Board!History
<1>7. Tracked!ColumnsFail => Parts!Board!ColumnsFail
  BY SameBoard, SameBoardSteps DEF Tracked!ColumnsFail, Parts!Board!ColumnsFail, Tracked!Unread, Parts!Board!Unread,
         Tracked!Mirror, Parts!Board!Mirror, Tracked!Ours, Parts!Board!Ours, Tracked!History, Parts!Board!History
<1>8. Tracked!ReadDetails => Parts!Board!ReadDetails
  BY SameBoard, SameBoardSteps DEF Tracked!ReadDetails, Parts!Board!ReadDetails, Tracked!Unread, Parts!Board!Unread,
         Tracked!Mirror, Parts!Board!Mirror, Tracked!Ours, Parts!Board!Ours, Tracked!History, Parts!Board!History
<1>9. Tracked!List => Parts!Board!List
  BY SameBoard, SameBoardSteps DEF Tracked!List, Parts!Board!List, Tracked!Unread, Parts!Board!Unread, Tracked!Mirror,
         Parts!Board!Mirror, Tracked!Ours, Parts!Board!Ours, Tracked!History, Parts!Board!History
<1>10. \A i : Tracked!ReadIssue(i) => Parts!Board!ReadIssue(i)
  BY SameBoard, SameBoardSteps DEF Tracked!ReadIssue, Parts!Board!ReadIssue, Tracked!Unread, Parts!Board!Unread,
         Tracked!Mirror, Parts!Board!Mirror, Tracked!Ours, Parts!Board!Ours, Tracked!History, Parts!Board!History
<1>11. Tracked!WriteIssue => Parts!Board!WriteIssue
  BY SameBoard, SameBoardSteps DEF Tracked!WriteIssue, Parts!Board!WriteIssue, Tracked!Unread, Parts!Board!Unread,
         Tracked!Ours, Parts!Board!Ours, Tracked!History, Parts!Board!History
<1>12. Tracked!FindGone => Parts!Board!FindGone
  <2>1. \A S : {Tracked!Item(i) : i \in Tracked!Mirrored \ S} = {Parts!Board!Item(i) : i \in Parts!Board!Mirrored \ S}
    BY SameBoard
  <2> QED
    BY <2>1, SameBoard, SameBoardSteps DEF Tracked!FindGone, Parts!Board!FindGone, Tracked!Unread, Parts!Board!Unread,
           Tracked!Mirror, Parts!Board!Mirror, Tracked!Ours, Parts!Board!Ours, Tracked!History, Parts!Board!History
<1>13. Tracked!SweepComments => Parts!Board!SweepComments
  BY SameBoard, SameBoardSteps DEF Tracked!SweepComments, Parts!Board!SweepComments, Tracked!Unread,
         Parts!Board!Unread, Tracked!Mirror, Parts!Board!Mirror, Tracked!Ours, Parts!Board!Ours, Tracked!History,
         Parts!Board!History
<1>14. Tracked!SweepItems => Parts!Board!SweepItems
  BY SameBoard, SameBoardSteps DEF Tracked!SweepItems, Parts!Board!SweepItems, Tracked!Unread, Parts!Board!Unread,
         Tracked!Ours, Parts!Board!Ours, Tracked!History, Parts!Board!History
<1>15. Tracked!SyncStops => Parts!Board!SyncStops
  BY SameBoard, SameBoardSteps DEF Tracked!SyncStops, Parts!Board!SyncStops, Tracked!Mirror, Parts!Board!Mirror,
         Tracked!Ours, Parts!Board!Ours, Tracked!History, Parts!Board!History
<1> QED
  BY <1>1, <1>2, <1>3, <1>4, <1>5, <1>6, <1>7, <1>8, <1>9, <1>10, <1>11, <1>12, <1>13, <1>14, <1>15

LEMMA AskActions ==
    /\ \A r : Tracked!AskUse(r) => Parts!Board!AskUse(r)
    /\ \A r : Tracked!AskKeep(r) => Parts!Board!AskKeep(r)
    /\ \A r, i, s : Tracked!AskMove(r, i, s) => Parts!Board!AskMove(r, i, s)
    /\ \A r, i, s, sprint : Tracked!AskCreate(r, i, s, sprint) => Parts!Board!AskCreate(r, i, s, sprint)
    /\ \A r, i : Tracked!AskUpdate(r, i) => Parts!Board!AskUpdate(r, i)
    /\ \A r, i, s : Tracked!AskSprint(r, i, s) => Parts!Board!AskSprint(r, i, s)
    /\ \A r, i : Tracked!AskDelete(r, i) => Parts!Board!AskDelete(r, i)
    /\ \A r, i : Tracked!AskComment(r, i) => Parts!Board!AskComment(r, i)
<1>1. \A r : Tracked!AskUse(r) => Parts!Board!AskUse(r)
  BY SameBoard, SameBoardSteps DEF Tracked!AskUse, Parts!Board!AskUse
<1>2. \A r : Tracked!AskKeep(r) => Parts!Board!AskKeep(r)
  BY SameBoard, SameBoardSteps DEF Tracked!AskKeep, Parts!Board!AskKeep
<1>3. \A r, i, s : Tracked!AskMove(r, i, s) => Parts!Board!AskMove(r, i, s)
  BY SameBoard, SameBoardSteps DEF Tracked!AskMove, Parts!Board!AskMove
<1>4. \A r, i, s, sprint : Tracked!AskCreate(r, i, s, sprint) => Parts!Board!AskCreate(r, i, s, sprint)
  BY SameBoard, SameBoardSteps DEF Tracked!AskCreate, Parts!Board!AskCreate
<1>5. \A r, i : Tracked!AskUpdate(r, i) => Parts!Board!AskUpdate(r, i)
  BY SameBoard, SameBoardSteps DEF Tracked!AskUpdate, Parts!Board!AskUpdate
<1>6. \A r, i, s : Tracked!AskSprint(r, i, s) => Parts!Board!AskSprint(r, i, s)
  BY SameBoard, SameBoardSteps DEF Tracked!AskSprint, Parts!Board!AskSprint
<1>7. \A r, i : Tracked!AskDelete(r, i) => Parts!Board!AskDelete(r, i)
  BY SameBoard, SameBoardSteps DEF Tracked!AskDelete, Parts!Board!AskDelete
<1>8. \A r, i : Tracked!AskComment(r, i) => Parts!Board!AskComment(r, i)
  BY SameBoard, SameBoardSteps DEF Tracked!AskComment, Parts!Board!AskComment
<1> QED
  BY <1>1, <1>2, <1>3, <1>4, <1>5, <1>6, <1>7, <1>8

LEMMA RequestActions ==
    /\ \A r : Tracked!UseTrackerColumns(r) => Parts!Board!UseTrackerColumns(r)
    /\ \A r : Tracked!KeepDefaultColumns(r) => Parts!Board!KeepDefaultColumns(r)
    /\ \A r : Tracked!PlaceItems(r) => Parts!Board!PlaceItems(r)
    /\ \A r, s : Tracked!Transition(r, s) => Parts!Board!Transition(r, s)
    /\ \A r : Tracked!Create(r) => Parts!Board!Create(r)
    /\ \A r : Tracked!Update(r) => Parts!Board!Update(r)
    /\ \A r : Tracked!Refresh(r) => Parts!Board!Refresh(r)
    /\ \A r : Tracked!Fetch(r) => Parts!Board!Fetch(r)
    /\ \A r : Tracked!Store(r) => Parts!Board!Store(r)
    /\ \A r : Tracked!CompareColumn(r) => Parts!Board!CompareColumn(r)
    /\ \A r : Tracked!Schedule(r) => Parts!Board!Schedule(r)
    /\ \A r : Tracked!SetSprint(r) => Parts!Board!SetSprint(r)
    /\ \A r : Tracked!StoreSprint(r) => Parts!Board!StoreSprint(r)
    /\ \A r : Tracked!Delete(r) => Parts!Board!Delete(r)
    /\ \A r : Tracked!DeleteItem(r) => Parts!Board!DeleteItem(r)
    /\ \A r : Tracked!DeleteComments(r) => Parts!Board!DeleteComments(r)
    /\ \A r : Tracked!PostComment(r) => Parts!Board!PostComment(r)
    /\ \A r : Tracked!RecordComment(r) => Parts!Board!RecordComment(r)
    /\ \A r : Tracked!RequestStops(r) => Parts!Board!RequestStops(r)
<1>1. \A r : Tracked!UseTrackerColumns(r) => Parts!Board!UseTrackerColumns(r)
  BY SameBoard, SameBoardSteps DEF Tracked!UseTrackerColumns, Parts!Board!UseTrackerColumns, Tracked!Unread,
         Parts!Board!Unread, Tracked!Mirror, Parts!Board!Mirror, Tracked!History, Parts!Board!History
<1>2. \A r : Tracked!KeepDefaultColumns(r) => Parts!Board!KeepDefaultColumns(r)
  BY SameBoard, SameBoardSteps DEF Tracked!KeepDefaultColumns, Parts!Board!KeepDefaultColumns, Tracked!Unread,
         Parts!Board!Unread, Tracked!Mirror, Parts!Board!Mirror
<1>3. \A r : Tracked!PlaceItems(r) => Parts!Board!PlaceItems(r)
  BY SameBoard, SameBoardSteps DEF Tracked!PlaceItems, Parts!Board!PlaceItems, Tracked!Unread, Parts!Board!Unread,
         Tracked!History, Parts!Board!History
<1>4. \A r, s : Tracked!Transition(r, s) => Parts!Board!Transition(r, s)
  BY SameBoard, SameBoardSteps DEF Tracked!Transition, Parts!Board!Transition
<1>5. \A r : Tracked!Create(r) => Parts!Board!Create(r)
  BY SameBoard, SameBoardSteps DEF Tracked!Create, Parts!Board!Create
<1>6. \A r : Tracked!Update(r) => Parts!Board!Update(r)
  BY SameBoard, SameBoardSteps DEF Tracked!Update, Parts!Board!Update
<1>7. \A r : Tracked!Refresh(r) => Parts!Board!Refresh(r)
  BY SameBoard, SameBoardSteps DEF Tracked!Refresh, Parts!Board!Refresh, Tracked!Unread, Parts!Board!Unread,
         Tracked!Mirror, Parts!Board!Mirror, Tracked!History, Parts!Board!History
<1>8. \A r : Tracked!Fetch(r) => Parts!Board!Fetch(r)
  BY SameBoard, SameBoardSteps DEF Tracked!Fetch, Parts!Board!Fetch, Tracked!Unread, Parts!Board!Unread,
         Tracked!Mirror, Parts!Board!Mirror, Tracked!History, Parts!Board!History
<1>9. \A r : Tracked!Store(r) => Parts!Board!Store(r)
  BY SameBoard, SameBoardSteps DEF Tracked!Store, Parts!Board!Store, Tracked!Unread, Parts!Board!Unread,
         Tracked!History, Parts!Board!History
<1>10. \A r : Tracked!CompareColumn(r) => Parts!Board!CompareColumn(r)
  BY SameBoard, SameBoardSteps DEF Tracked!CompareColumn, Parts!Board!CompareColumn, Tracked!Unread,
         Parts!Board!Unread, Tracked!Mirror, Parts!Board!Mirror, Tracked!History, Parts!Board!History
<1>11. \A r : Tracked!Schedule(r) => Parts!Board!Schedule(r)
  BY SameBoard, SameBoardSteps DEF Tracked!Schedule, Parts!Board!Schedule
<1>12. \A r : Tracked!SetSprint(r) => Parts!Board!SetSprint(r)
  BY SameBoard, SameBoardSteps DEF Tracked!SetSprint, Parts!Board!SetSprint
<1>13. \A r : Tracked!StoreSprint(r) => Parts!Board!StoreSprint(r)
  BY SameBoard, SameBoardSteps DEF Tracked!StoreSprint, Parts!Board!StoreSprint, Tracked!Unread, Parts!Board!Unread,
         Tracked!History, Parts!Board!History
<1>14. \A r : Tracked!Delete(r) => Parts!Board!Delete(r)
  BY SameBoard, SameBoardSteps DEF Tracked!Delete, Parts!Board!Delete
<1>15. \A r : Tracked!DeleteItem(r) => Parts!Board!DeleteItem(r)
  BY SameBoard, SameBoardSteps DEF Tracked!DeleteItem, Parts!Board!DeleteItem, Tracked!Unread, Parts!Board!Unread,
         Tracked!History, Parts!Board!History
<1>16. \A r : Tracked!DeleteComments(r) => Parts!Board!DeleteComments(r)
  BY SameBoard, SameBoardSteps DEF Tracked!DeleteComments, Parts!Board!DeleteComments, Tracked!Unread,
         Parts!Board!Unread, Tracked!Mirror, Parts!Board!Mirror, Tracked!History, Parts!Board!History
<1>17. \A r : Tracked!PostComment(r) => Parts!Board!PostComment(r)
  BY SameBoard, SameBoardSteps DEF Tracked!PostComment, Parts!Board!PostComment
<1>18. \A r : Tracked!RecordComment(r) => Parts!Board!RecordComment(r)
  BY SameBoard, SameBoardSteps DEF Tracked!RecordComment, Parts!Board!RecordComment, Tracked!Unread,
         Parts!Board!Unread, Tracked!Mirror, Parts!Board!Mirror
<1>19. \A r : Tracked!RequestStops(r) => Parts!Board!RequestStops(r)
  BY SameBoard, SameBoardSteps DEF Tracked!RequestStops, Parts!Board!RequestStops, Tracked!Unread, Parts!Board!Unread,
         Tracked!Mirror, Parts!Board!Mirror
<1> QED
  BY <1>1, <1>2, <1>3, <1>4, <1>5, <1>6, <1>7, <1>8, <1>9, <1>10, <1>11, <1>12, <1>13, <1>14, <1>15, <1>16, <1>17,
     <1>18, <1>19

\* NativeBoard's operators and actions are those the proofs are about.
LEMMA SameOwn ==
    /\ Native!Free = Parts!Own!Free
    /\ \A cols : Native!Ids(cols) = Parts!Own!Ids(cols)
    /\ \A cols, id : Native!Column(cols, id) = Parts!Own!Column(cols, id)
    /\ Native!Present = Parts!Own!Present
    /\ Native!Known = Parts!Own!Known
    /\ Native!OpenSprints = Parts!Own!OpenSprints
    /\ Native!Active = Parts!Own!Active
    /\ \A cols, from : Native!NativeTargets(cols, from) = Parts!Own!NativeTargets(cols, from)
    /\ \A r, op : Native!Changing(r, op) = Parts!Own!Changing(r, op)
    /\ \A r, cols : Native!ColumnsMoved(r, cols) = Parts!Own!ColumnsMoved(r, cols)
    /\ \A r, s : Native!SprintMoved(r, s) = Parts!Own!SprintMoved(r, s)
    /\ \A r, t : Native!TypeMoved(r, t) = Parts!Own!TypeMoved(r, t)
    /\ \A r, i, cat : Native!Reopened(r, i, cat) = Parts!Own!Reopened(r, i, cat)
    /\ Native!WithDefaults = Parts!Own!WithDefaults
    /\ \A ts : Native!DefaultType(ts) = Parts!Own!DefaultType(ts)
    /\ \A s : Native!OneActive(s) = Parts!Own!OneActive(s)
    /\ \A s : Native!Unfinished(s) = Parts!Own!Unfinished(s)
    /\ \A from, to, cat : Native!MoveItems(from, to, cat) = Parts!Own!MoveItems(from, to, cat)
    /\ \A t : Native!UsedBy(t) = Parts!Own!UsedBy(t)
BY DEF Native!Free, Parts!Own!Free, Native!Ids, Parts!Own!Ids, Native!Column, Parts!Own!Column, Native!Present,
       Parts!Own!Present, Native!Known, Parts!Own!Known, Native!OpenSprints, Parts!Own!OpenSprints, Native!Active,
       Parts!Own!Active, Native!NativeTargets, Parts!Own!NativeTargets, Native!Changing, Parts!Own!Changing,
       Native!ColumnsMoved, Parts!Own!ColumnsMoved, Native!SprintMoved, Parts!Own!SprintMoved, Native!TypeMoved,
       Parts!Own!TypeMoved, Native!Reopened, Parts!Own!Reopened, Native!WithDefaults, Parts!Own!WithDefaults,
       Native!DefaultType, Parts!Own!DefaultType, Native!OneActive, Parts!Own!OneActive, Native!Unfinished,
       Parts!Own!Unfinished, Native!MoveItems, Parts!Own!MoveItems, Native!UsedBy, Parts!Own!UsedBy

LEMMA SameOwnSteps ==
    /\ \A r, what : Native!Start(r, what) => Parts!Own!Start(r, what)
    /\ \A r : Native!Finish(r) => Parts!Own!Finish(r)
    /\ \A r, what : Native!Go(r, what) => Parts!Own!Go(r, what)
    /\ \A marks : Native!Stray(marks) => Parts!Own!Stray(marks)
    /\ \A r, what : Native!Read(r, what) => Parts!Own!Read(r, what)
BY SameOwn DEF Native!Start, Parts!Own!Start, Native!Finish, Parts!Own!Finish, Native!Go, Parts!Own!Go, Native!Stray,
       Parts!Own!Stray, Native!Read, Parts!Own!Read

LEMMA ItemActions ==
    /\ \A r, col, s, t : Native!ReadCreate(r, col, s, t) => Parts!Own!ReadCreate(r, col, s, t)
    /\ \A r, i : Native!Insert(r, i) => Parts!Own!Insert(r, i)
    /\ \A r, i, col : Native!ReadMove(r, i, col) => Parts!Own!ReadMove(r, i, col)
    /\ \A r : Native!Move(r) => Parts!Own!Move(r)
    /\ \A r, i, s : Native!ReadSetSprint(r, i, s) => Parts!Own!ReadSetSprint(r, i, s)
    /\ \A r : Native!SetSprint(r) => Parts!Own!SetSprint(r)
    /\ \A r, i, t : Native!ReadSetType(r, i, t) => Parts!Own!ReadSetType(r, i, t)
    /\ \A r : Native!SetType(r) => Parts!Own!SetType(r)
    /\ \A r, i : Native!Delete(r, i) => Parts!Own!Delete(r, i)
    /\ \A r : Native!DropComments(r) => Parts!Own!DropComments(r)
    /\ \A r, i : Native!ReadComment(r, i) => Parts!Own!ReadComment(r, i)
    /\ \A r : Native!Comment(r) => Parts!Own!Comment(r)
<1>1. \A r, col, s, t : Native!ReadCreate(r, col, s, t) => Parts!Own!ReadCreate(r, col, s, t)
  BY SameOwn, SameOwnSteps DEF Native!ReadCreate, Parts!Own!ReadCreate
<1>2. \A r, i : Native!Insert(r, i) => Parts!Own!Insert(r, i)
  BY SameOwn, SameOwnSteps DEF Native!Insert, Parts!Own!Insert
<1>3. \A r, i, col : Native!ReadMove(r, i, col) => Parts!Own!ReadMove(r, i, col)
  BY SameOwn, SameOwnSteps DEF Native!ReadMove, Parts!Own!ReadMove
<1>4. \A r : Native!Move(r) => Parts!Own!Move(r)
  BY SameOwn, SameOwnSteps DEF Native!Move, Parts!Own!Move
<1>5. \A r, i, s : Native!ReadSetSprint(r, i, s) => Parts!Own!ReadSetSprint(r, i, s)
  BY SameOwn, SameOwnSteps DEF Native!ReadSetSprint, Parts!Own!ReadSetSprint
<1>6. \A r : Native!SetSprint(r) => Parts!Own!SetSprint(r)
  BY SameOwn, SameOwnSteps DEF Native!SetSprint, Parts!Own!SetSprint
<1>7. \A r, i, t : Native!ReadSetType(r, i, t) => Parts!Own!ReadSetType(r, i, t)
  BY SameOwn, SameOwnSteps DEF Native!ReadSetType, Parts!Own!ReadSetType
<1>8. \A r : Native!SetType(r) => Parts!Own!SetType(r)
  BY SameOwn, SameOwnSteps DEF Native!SetType, Parts!Own!SetType
<1>9. \A r, i : Native!Delete(r, i) => Parts!Own!Delete(r, i)
  BY SameOwn, SameOwnSteps DEF Native!Delete, Parts!Own!Delete
<1>10. \A r : Native!DropComments(r) => Parts!Own!DropComments(r)
  BY SameOwn, SameOwnSteps DEF Native!DropComments, Parts!Own!DropComments
<1>11. \A r, i : Native!ReadComment(r, i) => Parts!Own!ReadComment(r, i)
  BY SameOwn, SameOwnSteps DEF Native!ReadComment, Parts!Own!ReadComment
<1>12. \A r : Native!Comment(r) => Parts!Own!Comment(r)
  BY SameOwn, SameOwnSteps DEF Native!Comment, Parts!Own!Comment
<1> QED
  BY <1>1, <1>2, <1>3, <1>4, <1>5, <1>6, <1>7, <1>8, <1>9, <1>10, <1>11, <1>12

LEMMA SprintActions ==
    /\ \A r, s : Native!CreateSprint(r, s) => Parts!Own!CreateSprint(r, s)
    /\ \A r, s : Native!ReadStart(r, s) => Parts!Own!ReadStart(r, s)
    /\ \A r : Native!StartSprint(r) => Parts!Own!StartSprint(r)
    /\ \A r, s, to : Native!ReadComplete(r, s, to) => Parts!Own!ReadComplete(r, s, to)
    /\ \A r : Native!MoveOpen(r) => Parts!Own!MoveOpen(r)
    /\ \A r : Native!CloseSprint(r) => Parts!Own!CloseSprint(r)
<1>1. \A r, s : Native!CreateSprint(r, s) => Parts!Own!CreateSprint(r, s)
  BY SameOwn, SameOwnSteps DEF Native!CreateSprint, Parts!Own!CreateSprint
<1>2. \A r, s : Native!ReadStart(r, s) => Parts!Own!ReadStart(r, s)
  BY SameOwn, SameOwnSteps DEF Native!ReadStart, Parts!Own!ReadStart
<1>3. \A r : Native!StartSprint(r) => Parts!Own!StartSprint(r)
  BY SameOwn, SameOwnSteps DEF Native!StartSprint, Parts!Own!StartSprint
<1>4. \A r, s, to : Native!ReadComplete(r, s, to) => Parts!Own!ReadComplete(r, s, to)
  BY SameOwn, SameOwnSteps DEF Native!ReadComplete, Parts!Own!ReadComplete
<1>5. \A r : Native!MoveOpen(r) => Parts!Own!MoveOpen(r)
  BY SameOwn, SameOwnSteps DEF Native!MoveOpen, Parts!Own!MoveOpen
<1>6. \A r : Native!CloseSprint(r) => Parts!Own!CloseSprint(r)
  BY SameOwn, SameOwnSteps DEF Native!CloseSprint, Parts!Own!CloseSprint
<1> QED
  BY <1>1, <1>2, <1>3, <1>4, <1>5, <1>6

LEMMA ColumnActions ==
    /\ \A r, cols, reassign : Native!ReadColumns(r, cols, reassign) => Parts!Own!ReadColumns(r, cols, reassign)
    /\ \A r : Native!EmptyColumn(r) => Parts!Own!EmptyColumn(r)
    /\ \A r : Native!Recategorise(r) => Parts!Own!Recategorise(r)
    /\ \A r : Native!SetColumns(r) => Parts!Own!SetColumns(r)
<1>1. \A r, cols, reassign : Native!ReadColumns(r, cols, reassign) => Parts!Own!ReadColumns(r, cols, reassign)
  BY SameOwn, SameOwnSteps DEF Native!ReadColumns, Parts!Own!ReadColumns
<1>2. \A r : Native!EmptyColumn(r) => Parts!Own!EmptyColumn(r)
  BY SameOwn, SameOwnSteps DEF Native!EmptyColumn, Parts!Own!EmptyColumn
<1>3. \A r : Native!Recategorise(r) => Parts!Own!Recategorise(r)
  BY SameOwn, SameOwnSteps DEF Native!Recategorise, Parts!Own!Recategorise
<1>4. \A r : Native!SetColumns(r) => Parts!Own!SetColumns(r)
  BY SameOwn, SameOwnSteps DEF Native!SetColumns, Parts!Own!SetColumns
<1> QED
  BY <1>1, <1>2, <1>3, <1>4

LEMMA OwnCardinality == ASSUME NEW S PROVE Native!Cardinality(S) = Parts!Own!Cardinality(S)
BY DEF Native!Cardinality, Parts!Own!Cardinality, Native!IsFiniteSet, Parts!Own!IsFiniteSet

LEMMA TypeActions ==
    /\ \A r, name : Native!CreateType(r, name) => Parts!Own!CreateType(r, name)
    /\ \A r, t, to : Native!ReadDeleteType(r, t, to) => Parts!Own!ReadDeleteType(r, t, to)
    /\ \A r : Native!ReassignType(r) => Parts!Own!ReassignType(r)
    /\ \A r : Native!DeleteType(r) => Parts!Own!DeleteType(r)
<1>1. \A r, name : Native!CreateType(r, name) => Parts!Own!CreateType(r, name)
  BY SameOwn, SameOwnSteps DEF Native!CreateType, Parts!Own!CreateType, Native!ToSet, Parts!Own!ToSet
<1>2. \A r, t, to : Native!ReadDeleteType(r, t, to) => Parts!Own!ReadDeleteType(r, t, to)
  BY SameOwn, SameOwnSteps, OwnCardinality DEF Native!ReadDeleteType, Parts!Own!ReadDeleteType
<1>3. \A r : Native!ReassignType(r) => Parts!Own!ReassignType(r)
  BY SameOwn, SameOwnSteps DEF Native!ReassignType, Parts!Own!ReassignType
<1>4. \A r : Native!DeleteType(r) => Parts!Own!DeleteType(r)
  BY SameOwn, SameOwnSteps DEF Native!DeleteType, Parts!Own!DeleteType
<1> QED
  BY <1>1, <1>2, <1>3, <1>4

\* Each step of the two boards, as it is composed, is one the proofs are about.
LEMMA BoardMoves == TrackedNext => Parts!Board!Next
<1>1. ASSUME \/ Tracked!ReadColumns \/ Tracked!ShowStatuses \/ Tracked!HideItems \/ Tracked!OfferColumns \/ Tracked!SyncPlaces
             \/ Tracked!ColumnsFail \/ Tracked!ReadDetails \/ Tracked!List \/ Tracked!WriteIssue \/ Tracked!FindGone
             \/ Tracked!SweepComments \/ Tracked!SweepItems \/ Tracked!SyncStops
             \/ \E full \in BOOLEAN : Tracked!StartSync(full)
             \/ Tracked!ReadIssue("i")
      PROVE  Parts!Board!Next
  BY <1>1, SyncActions DEF Parts!Board!Next
<1>2. ASSUME \/ \E cols \in Columns : Tracked!TrackerRearranges(cols)
             \/ \E s \in Statuses : Tracked!TrackerChanges("i", Tracked!New(s))
             \/ Tracked!TrackerChanges("i", None)
      PROVE  Parts!Board!Next
  <2>1. CASE \E cols \in Columns : Tracked!TrackerRearranges(cols)
    BY <2>1, TrackerActions DEF Parts!Board!Next
  <2>2. CASE \E s \in Statuses : Tracked!TrackerChanges("i", Tracked!New(s))
    <3>1. PICK s \in Statuses : Tracked!TrackerChanges("i", Tracked!New(s))
      BY <2>2
    <3>2. Parts!Board!TrackerChanges("i", Parts!Board!New(s))
      BY <3>1, TrackerActions, SameBoard
    <3>3. "i" \in {"i"} /\ Parts!Board!New(s) \in {Parts!Board!New(t) : t \in Statuses} \cup {None}
      OBVIOUS
    <3> QED
      BY <3>2, <3>3 DEF Parts!Board!Next
  <2>3. CASE Tracked!TrackerChanges("i", None)
    <3>1. Parts!Board!TrackerChanges("i", None)
      BY <2>3, TrackerActions
    <3>2. "i" \in {"i"} /\ None \in {Parts!Board!New(t) : t \in Statuses} \cup {None}
      OBVIOUS
    <3> QED
      BY <3>1, <3>2 DEF Parts!Board!Next
  <2> QED
    BY <1>2, <2>1, <2>2, <2>3
<1>3. ASSUME NEW r \in Runs,
             \/ Tracked!AskUse(r) \/ Tracked!AskKeep(r) \/ Tracked!UseTrackerColumns(r) \/ Tracked!KeepDefaultColumns(r)
             \/ Tracked!PlaceItems(r) \/ Tracked!Create(r) \/ Tracked!Update(r) \/ Tracked!Refresh(r) \/ Tracked!Fetch(r)
             \/ Tracked!Store(r) \/ Tracked!CompareColumn(r) \/ Tracked!Schedule(r) \/ Tracked!SetSprint(r)
             \/ Tracked!StoreSprint(r) \/ Tracked!Delete(r) \/ Tracked!DeleteItem(r) \/ Tracked!DeleteComments(r)
             \/ Tracked!PostComment(r) \/ Tracked!RecordComment(r) \/ Tracked!RequestStops(r)
             \/ Tracked!AskUpdate(r, "i") \/ Tracked!AskDelete(r, "i") \/ Tracked!AskComment(r, "i")
      PROVE  Parts!Board!Next
  <2>1. \/ Parts!Board!AskUse(r) \/ Parts!Board!AskKeep(r) \/ Parts!Board!UseTrackerColumns(r) \/ Parts!Board!KeepDefaultColumns(r)
        \/ Parts!Board!PlaceItems(r) \/ Parts!Board!Create(r) \/ Parts!Board!Update(r) \/ Parts!Board!Refresh(r) \/ Parts!Board!Fetch(r)
        \/ Parts!Board!Store(r) \/ Parts!Board!CompareColumn(r) \/ Parts!Board!Schedule(r) \/ Parts!Board!SetSprint(r)
        \/ Parts!Board!StoreSprint(r) \/ Parts!Board!Delete(r) \/ Parts!Board!DeleteItem(r) \/ Parts!Board!DeleteComments(r)
        \/ Parts!Board!PostComment(r) \/ Parts!Board!RecordComment(r) \/ Parts!Board!RequestStops(r)
        \/ Parts!Board!AskUpdate(r, "i") \/ Parts!Board!AskDelete(r, "i") \/ Parts!Board!AskComment(r, "i")
    BY <1>3, AskActions, RequestActions
  <2> QED
    BY <2>1 DEF Parts!Board!Next
<1>4. ASSUME NEW r \in Runs,
             \/ \E s \in Statuses : Tracked!Transition(r, s) \/ Tracked!AskMove(r, "i", s)
             \/ \E s \in {"sprint", None} : Tracked!AskSprint(r, "i", s)
      PROVE  Parts!Board!Next
  <2>1. \/ \E s \in Statuses : Parts!Board!Transition(r, s) \/ Parts!Board!AskMove(r, "i", s)
        \/ \E s \in {"sprint"} \cup {None} : Parts!Board!AskSprint(r, "i", s)
    BY <1>4, AskActions, RequestActions
  <2> QED
    BY <2>1 DEF Parts!Board!Next
<1>5. ASSUME NEW r \in Runs, Tracked!AskCreate(r, "i", "open", "sprint") \/ Tracked!AskCreate(r, "i", "old", None)
      PROVE  Parts!Board!Next
  <2>1. Parts!Board!AskCreate(r, "i", "open", "sprint") \/ Parts!Board!AskCreate(r, "i", "old", None)
    BY <1>5, AskActions
  <2>2. "open" \in Statuses /\ "old" \in Statuses
    BY DEF Statuses
  <2> QED
    BY <2>1, <2>2 DEF Parts!Board!Next
<1> QED
  BY <1>1, <1>2, <1>3, <1>4, <1>5 DEF TrackedNext

LEMMA OwnMoves == NativeNext => Parts!Own!Next
<1>1. ASSUME NEW r \in Runs,
             \/ Native!Move(r) \/ Native!SetSprint(r) \/ Native!SetType(r) \/ Native!DropComments(r) \/ Native!Comment(r)
             \/ Native!StartSprint(r) \/ Native!MoveOpen(r) \/ Native!CloseSprint(r) \/ Native!EmptyColumn(r)
             \/ Native!Recategorise(r) \/ Native!SetColumns(r) \/ Native!ReassignType(r) \/ Native!DeleteType(r)
      PROVE  Parts!Own!Next
  <2>1. \/ Parts!Own!Move(r) \/ Parts!Own!SetSprint(r) \/ Parts!Own!SetType(r) \/ Parts!Own!DropComments(r) \/ Parts!Own!Comment(r)
        \/ Parts!Own!StartSprint(r) \/ Parts!Own!MoveOpen(r) \/ Parts!Own!CloseSprint(r) \/ Parts!Own!EmptyColumn(r)
        \/ Parts!Own!Recategorise(r) \/ Parts!Own!SetColumns(r) \/ Parts!Own!ReassignType(r) \/ Parts!Own!DeleteType(r)
    BY <1>1, ItemActions, SprintActions, ColumnActions, TypeActions
  <2> QED
    BY <2>1 DEF Parts!Own!Next
<1>2. ASSUME NEW r \in Runs, NEW i \in Values,
             \/ Native!Insert(r, i) \/ Native!Delete(r, i) \/ Native!ReadComment(r, i)
             \/ \E col \in {"todo", "doing", "done"} : Native!ReadMove(r, i, col)
             \/ \E s \in {"a", "b", None} : Native!ReadSetSprint(r, i, s)
             \/ \E t \in 1..3 : Native!ReadSetType(r, i, t)
      PROVE  Parts!Own!Next
  <2>1. \/ Parts!Own!Insert(r, i) \/ Parts!Own!Delete(r, i) \/ Parts!Own!ReadComment(r, i)
        \/ \E col \in {"todo", "doing", "review", "done"} : Parts!Own!ReadMove(r, i, col)
        \/ \E s \in {"a", "b"} \cup {None} : Parts!Own!ReadSetSprint(r, i, s)
        \/ \E t \in 1..3 : Parts!Own!ReadSetType(r, i, t)
    BY <1>2, ItemActions
  <2> QED
    BY <2>1 DEF Parts!Own!Next
<1>3. ASSUME NEW r \in Runs, NEW s \in {"a", "b"},
             \/ Native!CreateSprint(r, s) \/ Native!ReadStart(r, s)
             \/ \E to \in {"a", "b", None} : Native!ReadComplete(r, s, to)
      PROVE  Parts!Own!Next
  <2>1. \/ Parts!Own!CreateSprint(r, s) \/ Parts!Own!ReadStart(r, s)
        \/ \E to \in {"a", "b"} \cup {None} : Parts!Own!ReadComplete(r, s, to)
    BY <1>3, SprintActions
  <2> QED
    BY <2>1 DEF Parts!Own!Next
<1>4. ASSUME NEW r \in Runs, NEW col \in {"todo", "doing", "done"}, NEW s \in {"a", "b", None}, NEW t \in {1, 2, 3, None},
             Native!ReadCreate(r, col, s, t)
      PROVE  Parts!Own!Next
  <2>1. Parts!Own!ReadCreate(r, col, s, t)
    BY <1>4, ItemActions
  <2>2. col \in {"todo", "doing", "review", "done"} /\ s \in {"a", "b"} \cup {None} /\ t \in 1..3 \cup {None}
    OBVIOUS
  <2> QED
    BY <2>1, <2>2 DEF Parts!Own!Next
<1>5. ASSUME NEW r \in Runs, NEW cols \in Boards, NEW to \in {"todo", "doing", "done"}, Native!ReadColumns(r, cols, to)
      PROVE  Parts!Own!Next
  <2>1. Parts!Own!ReadColumns(r, cols, to)
    BY <1>5, ColumnActions
  <2>2. to = cols[1].id \/ to \in Parts!Own!Ids(cols)
    BY <2>1 DEF Parts!Own!ReadColumns
  <2>3. 1 \in DOMAIN cols
    BY DEF Boards, OwnColumns
  <2>4. to \in Parts!Own!Ids(cols)
    BY <2>2, <2>3 DEF Parts!Own!Ids
  <2> QED
    BY <2>1, <2>4 DEF Parts!Own!Next
<1>6. ASSUME NEW r \in Runs,
             \/ \E name \in {"task", "own"} : Native!CreateType(r, name)
             \/ \E t \in 1..3, to \in {1, 2, 3, None} : Native!ReadDeleteType(r, t, to)
      PROVE  Parts!Own!Next
  <2>1. CASE \E name \in {"task", "own"} : Native!CreateType(r, name)
    <3>1. \E name \in {"task", "bug", "own"} : Parts!Own!CreateType(r, name)
      BY <2>1, TypeActions
    <3> QED
      BY <3>1 DEF Parts!Own!Next
  <2>2. ASSUME NEW t \in 1..3, NEW to \in {1, 2, 3, None}, Native!ReadDeleteType(r, t, to)
        PROVE  Parts!Own!Next
    <3>1. Parts!Own!ReadDeleteType(r, t, to)
      BY <2>2, TypeActions
    <3>2. to \in 1..3 \cup {None}
      OBVIOUS
    <3> QED
      BY <3>1, <3>2 DEF Parts!Own!Next
  <2> QED
    BY <1>6, <2>1, <2>2
<1> QED
  BY <1>1, <1>2, <1>3, <1>4, <1>5, <1>6 DEF NativeNext

\* boards/service.py and work_items/service.py over a tracker, and a workspace's own board:
\* whatever syncs, requests and people interleave, what is here is what the tracker has,
\* where the board in use puts it, once nothing is half-way; columns once declined are
\* not offered again; and no item of the workspace's own board falls off it.
THEOREM BoardsAreSafe == ASSUME Parts!BoardConstants, Parts!OwnConstants PROVE MCSpec => []BoardsSafe
<1> DEFINE I == (part = "tracked" => Parts!BoardInv) /\ (part = "native" => Parts!OwnInv)
<1>1. MCInit => I
  <2>1. Tracked!Init => Parts!Board!Init
    BY SameBoard DEF Tracked!Init, Parts!Board!Init
  <2>2. Native!Init => Parts!Own!Init
    BY SameOwn DEF Native!Init, Parts!Own!Init
  <2>3. (MCInit /\ part = "tracked" => Tracked!Init) /\ (MCInit /\ part = "native" => Native!Init)
    BY DEF MCInit
  <2> QED
    BY <2>1, <2>2, <2>3, Parts!BoardInit, Parts!OwnStarts
<1>2. I /\ [MCNext]_allVars => I'
  <2> SUFFICES ASSUME I, [MCNext]_allVars PROVE I'
    OBVIOUS
  <2>1. CASE UNCHANGED allVars
    <3>1. part' = part /\ UNCHANGED Parts!Board!vars /\ UNCHANGED Parts!Own!vars
      BY <2>1 DEF allVars, ofShared, Parts!Board!vars, Parts!Own!vars
    <3> QED
      BY <3>1, Parts!BoardStep, Parts!OwnStep
  <2>2. CASE TrackedNext
    <3>1. part = "tracked" /\ part' = part
      BY <2>2 DEF TrackedNext, InTracked
    <3> QED
      BY <2>2, <3>1, BoardMoves, Parts!BoardStep
  <2>3. CASE NativeNext
    <3>1. part = "native" /\ part' = part
      BY <2>3 DEF NativeNext, InNative
    <3> QED
      BY <2>3, <3>1, OwnMoves, Parts!OwnStep
  <2>4. CASE TargetSyncNext \/ PipelineNext \/ SuggestionsNext \/ ViewsNext \/ BuildsNext \/ SettingsNext
    <3>1. part \notin {"tracked", "native"} /\ part' = part
      BY <2>4 DEF TargetSyncNext, InTargetSync, PipelineNext, InPipeline, SuggestionsNext, InSuggestions,
                  ViewsNext, InViews, BuildsNext, InBuilds, SettingsNext, InSettings
    <3> QED
      BY <3>1
  <2> QED
    BY <2>1, <2>2, <2>3, <2>4 DEF MCNext
<1>3. I => BoardsSafe
  <2>1. Parts!Board!MirrorSafe => Tracked!MirrorSafe
    <3>1. Parts!Board!TypeOK => Tracked!TypeOK
      BY DEF Parts!Board!TypeOK, Tracked!TypeOK
    <3>2. Parts!Board!Torn = Tracked!Torn
      BY DEF Parts!Board!Torn, Tracked!Torn
    <3>3. Parts!Board!TornByRace => Tracked!TornByRace
      BY <3>2 DEF Parts!Board!TornByRace, Tracked!TornByRace
    <3>4. Parts!Board!MirrorPlaced => Tracked!MirrorPlaced
      BY <3>2, SameBoard DEF Parts!Board!MirrorPlaced, Tracked!MirrorPlaced
    <3>5. Parts!Board!RecordsFollow => Tracked!RecordsFollow
      BY SameBoard DEF Parts!Board!RecordsFollow, Tracked!RecordsFollow
    <3>6. Parts!Board!AskedOnce => Tracked!AskedOnce
      BY DEF Parts!Board!AskedOnce, Tracked!AskedOnce
    <3> QED
      BY <3>1, <3>3, <3>4, <3>5, <3>6 DEF Parts!Board!MirrorSafe, Tracked!MirrorSafe
  <2>2. Parts!Own!BoardSound => Native!BoardSound
    <3>1. Parts!Own!TypeOK => Native!TypeOK
      BY SameOwn DEF Parts!Own!TypeOK, Native!TypeOK, Parts!Own!ToSet, Native!ToSet
    <3>2. Parts!Own!AtMostOneActive => Native!AtMostOneActive
      BY SameOwn, OwnCardinality DEF Parts!Own!AtMostOneActive, Native!AtMostOneActive
    <3>3. Parts!Own!NothingLost => Native!NothingLost
      BY SameOwn DEF Parts!Own!NothingLost, Native!NothingLost
    <3> QED
      BY <3>1, <3>2, <3>3 DEF Parts!Own!BoardSound, Native!BoardSound
  <2> QED
    BY <2>1, <2>2, Parts!BoardHolds, Parts!OwnHolds DEF BoardsSafe
<1> QED
  BY <1>1, <1>2, <1>3, PTL DEF MCSpec
=============================================================================
