----------------------------- MODULE NativeBoard -----------------------------
(***************************************************************************)
(* A workspace's own board (boards/service.py set_native_columns,          *)
(* work_items/service.py, sprints/service.py, work_item_types/service.py,  *)
(* comments/service.py): items in columns, sprints and types that people   *)
(* change at the same time. Every request reads what it needs, then        *)
(* writes, one collection at a time; the reads before a request's first    *)
(* write are one step. Titles, ranks, assignees and keys are left out.     *)
(***************************************************************************)
EXTENDS Naturals, FiniteSets, SequencesExt

CONSTANTS Slots,       \* requests that may be under way at once
          Items,       \* every item ever created
          Sprints,
          Names,       \* the names of types, TASK among them
          TASK, BUG,   \* the defaults (a third one is left out)
          Layouts,     \* what the columns may be made: sequences of [id, cat, next]
          DefaultColumns,
          MaxTypes,    \* bound on the types ever made
          MaxRequests, \* bound on the requests made
          None

VARIABLES
  columns,   \* boards.columns
  item,      \* work_items
  unused,    \* the items not created so far
  sprint,    \* the state of each sprint
  types,     \* work_item_types as they were made: a name, or None once deleted
  comments,  \* the items with comments kept for them
  slot,      \* the requests under way
  made,      \* the requests made so far
  astray     \* history: <<item, field>> a request wrote across another's change

vars == <<columns, item, unused, sprint, types, comments, slot, made, astray>>

Free == [op |-> "none"]
Ids(cols) == {cols[i].id : i \in DOMAIN cols}
Column(cols, id) == cols[CHOOSE k \in DOMAIN cols : cols[k].id = id]
Present == {i \in Items : item[i] # None}
Known == {t \in DOMAIN types : types[t] # None}
OpenSprints == {None} \cup {s \in Sprints : sprint[s] \in {"future", "active"}}
Active == {s \in Sprints : sprint[s] = "active"}

(* A new board, or one with a sprint under way and one item in it.         *)
Init ==
  /\ columns = DefaultColumns
  /\ \/ /\ item = [i \in Items |-> None] /\ unused = Items
        /\ sprint = [s \in Sprints |-> "none"]
        /\ types = <<>>
     \/ \E s \in Sprints, i \in Items, col \in {columns[1], columns[Len(columns)]}, state \in {"active", "future"} :
          /\ sprint = [p \in Sprints |-> IF p = s THEN state ELSE "future"]
          /\ types = <<TASK, BUG>>
          /\ unused = Items \ {i}
          /\ item = [j \in Items |-> IF j = i THEN [column |-> col.id, cat |-> col.cat, sprint |-> s, type |-> 1] ELSE None]
  /\ comments = {}
  /\ slot = [r \in Slots |-> Free]
  /\ made = 0
  /\ astray = {}

(* workflow.native_targets: where a card in `from` can go.                 *)
NativeTargets(cols, from) ==
  LET ruled == from \in Ids(cols) /\ Column(cols, from).next # None IN
  {id \in Ids(cols) \ {from} : ruled => id \in Column(cols, from).next}

(* Histories: another request under way that changes the same thing.       *)
Changing(r, op) == {q \in Slots \ {r} : slot[q].op = op}
ColumnsMoved(r, cols) == columns # cols \/ Changing(r, "columns") # {}
SprintMoved(r, s) ==
  s # None /\ (s \notin OpenSprints \/ \E q \in Slots \ {r} : slot[q].op = "complete" /\ s \in {slot[q].s, slot[q].to})
TypeMoved(r, t) == t \notin Known \/ \E q \in Changing(r, "untype") : slot[q].t = t
\* an item is unfinished again in a sprint that is, or is being, completed
Reopened(r, i, cat) == cat # "done" /\ item[i] # None /\ SprintMoved(r, item[i].sprint)

Start(r, what) == made < MaxRequests /\ made' = made + 1 /\ slot[r] = Free /\ slot' = [slot EXCEPT ![r] = what]
Finish(r) == slot' = [slot EXCEPT ![r] = Free] /\ UNCHANGED made
Go(r, what) == slot' = [slot EXCEPT ![r] = what] /\ UNCHANGED made
Stray(marks) == astray' = astray \cup marks
Read(r, what) == Start(r, what) /\ UNCHANGED <<columns, item, unused, sprint, types, comments, astray>>
-----------------------------------------------------------------------------
(* Items. list_types makes the defaults when there are no types; without a *)
(* type asked for an item takes Task, or the first there is.               *)
WithDefaults == IF Known = {} THEN types \o <<TASK, BUG>> ELSE types
DefaultType(ts) ==
  LET known == {t \in DOMAIN ts : ts[t] # None}
      tasks == {t \in known : ts[t] = TASK}
      best == IF tasks = {} THEN known ELSE tasks
  IN CHOOSE t \in best : \A u \in best : t <= u

ReadCreate(r, col, s, t) ==
  /\ col \in Ids(columns) /\ s \in OpenSprints
  /\ \/ t = None /\ Len(WithDefaults) <= MaxTypes /\ types' = WithDefaults
     \/ t \in Known /\ UNCHANGED types
  /\ Start(r, [op |-> "insert", cols |-> columns, col |-> col, sprint |-> s, type |-> IF t = None THEN DefaultType(types') ELSE t])
  /\ UNCHANGED <<columns, item, unused, sprint, comments, astray>>

Insert(r, i) ==
  LET req == slot[r] IN
  /\ req.op = "insert" /\ i \in unused
  /\ unused' = unused \ {i}
  /\ item' = [item EXCEPT ![i] =
       [column |-> req.col, cat |-> Column(req.cols, req.col).cat, sprint |-> req.sprint, type |-> req.type]]
  /\ Stray({<<i, f>> : f \in {g \in {"column", "sprint", "type"} :
       CASE g = "column" -> ColumnsMoved(r, req.cols)
         [] g = "sprint" -> SprintMoved(r, req.sprint)
         [] g = "type" -> TypeMoved(r, req.type)}})
  /\ Finish(r) /\ UNCHANGED <<columns, sprint, types, comments>>

ReadMove(r, i, col) ==
  /\ i \in Present /\ col \in Ids(columns)
  /\ col \in {item[i].column} \cup NativeTargets(columns, item[i].column)
  /\ Read(r, [op |-> "move", i |-> i, cols |-> columns, col |-> col])

(* The write names the item only: one deleted meanwhile is not written.    *)
Move(r) ==
  LET req == slot[r]
      cat == Column(req.cols, req.col).cat
  IN
  /\ req.op = "move"
  /\ IF item[req.i] = None THEN UNCHANGED <<item, astray>>
     ELSE /\ item' = [item EXCEPT ![req.i].column = req.col, ![req.i].cat = cat]
          /\ Stray((IF ColumnsMoved(r, req.cols) THEN {<<req.i, "column">>} ELSE {})
                   \cup (IF Reopened(r, req.i, cat) THEN {<<req.i, "sprint">>} ELSE {}))
  /\ Finish(r) /\ UNCHANGED <<columns, unused, sprint, types, comments>>

ReadSetSprint(r, i, s) ==
  /\ i \in Present /\ s \in OpenSprints
  /\ Read(r, [op |-> "plan", i |-> i, s |-> s])

SetSprint(r) ==
  LET req == slot[r] IN
  /\ req.op = "plan"
  /\ IF item[req.i] = None THEN UNCHANGED <<item, astray>>
     ELSE /\ item' = [item EXCEPT ![req.i].sprint = req.s]
          /\ Stray(IF SprintMoved(r, req.s) THEN {<<req.i, "sprint">>} ELSE {})
  /\ Finish(r) /\ UNCHANGED <<columns, unused, sprint, types, comments>>

ReadSetType(r, i, t) == i \in Present /\ t \in Known /\ Read(r, [op |-> "retype", i |-> i, t |-> t])

SetType(r) ==
  LET req == slot[r] IN
  /\ req.op = "retype"
  /\ IF item[req.i] = None THEN UNCHANGED <<item, astray>>
     ELSE /\ item' = [item EXCEPT ![req.i].type = req.t]
          /\ Stray(IF TypeMoved(r, req.t) THEN {<<req.i, "type">>} ELSE {})
  /\ Finish(r) /\ UNCHANGED <<columns, unused, sprint, types, comments>>

(* Two writes: the item, then its comments.                                *)
Delete(r, i) ==
  /\ i \in Present /\ Start(r, [op |-> "drop comments", i |-> i])
  /\ item' = [item EXCEPT ![i] = None]
  /\ UNCHANGED <<columns, unused, sprint, types, comments, astray>>

DropComments(r) ==
  /\ slot[r].op = "drop comments"
  /\ comments' = comments \ {slot[r].i}
  /\ Finish(r) /\ UNCHANGED <<columns, item, unused, sprint, types, astray>>

ReadComment(r, i) == i \in Present /\ Read(r, [op |-> "comment", i |-> i])

Comment(r) ==
  LET i == slot[r].i IN
  /\ slot[r].op = "comment"
  /\ comments' = comments \cup {i}
  /\ Stray(IF i \notin Present THEN {<<i, "comments">>} ELSE {})
  /\ Finish(r) /\ UNCHANGED <<columns, item, unused, sprint, types>>
-----------------------------------------------------------------------------
(* Sprints. A unique index keeps two from being active (`start`).          *)
CreateSprint(r, s) ==
  /\ sprint[s] = "none" /\ slot[r] = Free /\ made < MaxRequests
  /\ made' = made + 1 /\ sprint' = [sprint EXCEPT ![s] = "future"]
  /\ UNCHANGED <<columns, item, unused, types, comments, slot, astray>>

ReadStart(r, s) == sprint[s] = "future" /\ Active = {} /\ Read(r, [op |-> "start", s |-> s])

OneActive(s) == Active \subseteq {s}
StartSprint(r) ==
  LET s == slot[r].s IN
  /\ slot[r].op = "start"
  /\ sprint' = IF OneActive(s) THEN [sprint EXCEPT ![s] = "active"] ELSE sprint
  /\ Finish(r) /\ UNCHANGED <<columns, item, unused, types, comments, astray>>

(* Complete: the unfinished items are listed, then moved, then the sprint  *)
(* is closed.                                                              *)
(* Slip: only what nobody began is unfinished.                             *)
Unbegun(s) == {i \in Present : item[i].sprint = s /\ item[i].cat = "todo"}
Unfinished(s) == {i \in Present : item[i].sprint = s /\ item[i].cat # "done"}
ReadComplete(r, s, to) ==
  /\ sprint[s] = "active" /\ to \in OpenSprints
  /\ Read(r, [op |-> "complete", s |-> s, to |-> to, open |-> Unfinished(s), moved |-> FALSE])

MoveOpen(r) ==
  LET req == slot[r] IN
  /\ req.op = "complete" /\ ~req.moved
  /\ item' = [i \in Items |-> IF i \in req.open /\ item[i] # None THEN [item[i] EXCEPT !.sprint = req.to] ELSE item[i]]
  /\ Stray({<<i, "sprint">> : i \in {j \in req.open : req.to = req.s \/ SprintMoved(r, req.to)}})
  /\ Go(r, [req EXCEPT !.moved = TRUE]) /\ UNCHANGED <<columns, unused, sprint, types, comments>>

CloseSprint(r) ==
  /\ slot[r].op = "complete" /\ slot[r].moved
  /\ sprint' = [sprint EXCEPT ![slot[r].s] = "closed"]
  /\ Finish(r) /\ UNCHANGED <<columns, item, unused, types, comments, astray>>
-----------------------------------------------------------------------------
(* Columns: the items of each removed column, then those of each kept one  *)
(* (whose category may be another now), then the board.                    *)
ReadColumns(r, cols, reassign) ==
  LET removed == Ids(columns) \ Ids(cols) IN
  /\ cols \in Layouts /\ cols # columns
  /\ IF removed = {} THEN reassign = cols[1].id ELSE reassign \in Ids(cols)
  /\ Read(r, [op |-> "columns", read |-> columns, cols |-> cols, to |-> reassign, left |-> removed, placed |-> FALSE])

MoveItems(from, to, cat) ==
  [i \in Items |-> IF item[i] # None /\ item[i].column = from THEN [item[i] EXCEPT !.column = to, !.cat = cat] ELSE item[i]]

EmptyColumn(r) ==
  LET req == slot[r] IN
  /\ req.op = "columns"
  /\ \E id \in req.left :
       LET cat == Column(req.cols, req.to).cat IN
       /\ item' = MoveItems(id, req.to, cat)
       /\ Stray({<<i, "sprint">> : i \in {j \in Present : item[j].column = id /\ Reopened(r, j, cat)}})
       /\ Go(r, [req EXCEPT !.left = @ \ {id}])
  /\ UNCHANGED <<columns, unused, sprint, types, comments>>

(* One write per kept column: items are in one each, so one step.          *)
Recategorise(r) ==
  LET req == slot[r]
      cat(i) == Column(req.cols, item[i].column).cat
      held == {i \in Present : item[i].column \in Ids(req.cols)}
  IN
  /\ req.op = "columns" /\ req.left = {} /\ ~req.placed
  /\ item' = [i \in Items |-> IF i \in held THEN [item[i] EXCEPT !.cat = cat(i)] ELSE item[i]]
  /\ Stray({<<i, "sprint">> : i \in {j \in held : Reopened(r, j, cat(j))}})
  /\ Go(r, [req EXCEPT !.placed = TRUE]) /\ UNCHANGED <<columns, unused, sprint, types, comments>>

SetColumns(r) ==
  LET req == slot[r] IN
  /\ req.op = "columns" /\ req.placed
  /\ columns' = req.cols
  /\ Stray(IF ColumnsMoved(r, req.read) THEN {<<i, "column">> : i \in Items} ELSE {})
  /\ Finish(r) /\ UNCHANGED <<item, unused, sprint, types, comments>>
-----------------------------------------------------------------------------
(* Types. Their names are unique (an upsert by name).                      *)
CreateType(r, name) ==
  LET base == WithDefaults IN
  /\ slot[r] = Free /\ made < MaxRequests /\ made' = made + 1
  /\ types' = IF name \in ToSet(base) THEN base ELSE Append(base, name)
  /\ Len(types') <= MaxTypes
  /\ UNCHANGED <<columns, item, unused, sprint, comments, slot, astray>>

UsedBy(t) == {i \in Present : item[i].type = t}
ReadDeleteType(r, t, to) ==
  /\ t \in Known /\ Cardinality(Known) > 1
  /\ IF UsedBy(t) = {} THEN to = None ELSE to \in Known \ {t}
  /\ Read(r, [op |-> "untype", t |-> t, to |-> to, reassign |-> to # None])

ReassignType(r) ==
  LET req == slot[r] IN
  /\ req.op = "untype" /\ req.reassign
  /\ item' = [i \in Items |-> IF i \in UsedBy(req.t) THEN [item[i] EXCEPT !.type = req.to] ELSE item[i]]
  /\ Stray({<<i, "type">> : i \in {j \in UsedBy(req.t) : TypeMoved(r, req.to)}})
  /\ Go(r, [req EXCEPT !.reassign = FALSE]) /\ UNCHANGED <<columns, unused, sprint, types, comments>>

DeleteType(r) ==
  /\ slot[r].op = "untype" /\ ~slot[r].reassign
  /\ types' = [types EXCEPT ![slot[r].t] = None]
  /\ Finish(r) /\ UNCHANGED <<columns, item, unused, sprint, comments, astray>>
-----------------------------------------------------------------------------
Next ==
  \E r \in Slots :
    \/ \E col \in {"todo", "doing", "review", "done"}, s \in Sprints \cup {None}, t \in 1..MaxTypes \cup {None} : ReadCreate(r, col, s, t)
    \/ \E i \in Items : Insert(r, i)
    \/ \E i \in Items, col \in {"todo", "doing", "review", "done"} : ReadMove(r, i, col)
    \/ Move(r)
    \/ \E i \in Items, s \in Sprints \cup {None} : ReadSetSprint(r, i, s)
    \/ SetSprint(r)
    \/ \E i \in Items, t \in 1..MaxTypes : ReadSetType(r, i, t)
    \/ SetType(r)
    \/ \E i \in Items : Delete(r, i)
    \/ DropComments(r)
    \/ \E i \in Items : ReadComment(r, i)
    \/ Comment(r)
    \/ \E s \in Sprints : CreateSprint(r, s)
    \/ \E s \in Sprints : ReadStart(r, s)
    \/ StartSprint(r)
    \/ \E s \in Sprints, to \in Sprints \cup {None} : ReadComplete(r, s, to)
    \/ MoveOpen(r) \/ CloseSprint(r)
    \/ \E cols \in Layouts : \E to \in Ids(cols) : ReadColumns(r, cols, to)
    \/ EmptyColumn(r) \/ Recategorise(r) \/ SetColumns(r)
    \/ \E name \in Names : CreateType(r, name)
    \/ \E t \in 1..MaxTypes, to \in 1..MaxTypes \cup {None} : ReadDeleteType(r, t, to)
    \/ ReassignType(r) \/ DeleteType(r)
Spec == Init /\ [][Next]_vars
-----------------------------------------------------------------------------
(* Type correctness of the board, its items and its requests.              *)
TypeOK ==
  /\ columns \in Layouts \cup {DefaultColumns}
  /\ \A i \in Present : item[i].sprint \in Sprints \cup {None} /\ item[i].type \in DOMAIN types
  /\ sprint \in [Sprints -> {"none", "future", "active", "closed"}]
  /\ ToSet(types) \subseteq Names \cup {None}
  /\ unused \cap Present = {} /\ comments \subseteq Items

(* At most one sprint of the board is active, whatever two starts read.    *)
AtMostOneActive == Cardinality(Active) <= 1

(* Nothing is lost from the board once nobody is at work on it: an item is *)
(* in a column of the board and of that column's category, is done or in   *)
(* the backlog or in an open sprint, and has a type that exists; unless a  *)
(* request wrote across another's change, or reopened an item of a         *)
(* completed sprint.                                                       *)
NothingLost ==
  (\A r \in Slots : slot[r] = Free) =>
    /\ \A i \in Present :
         /\ <<i, "column">> \notin astray =>
              item[i].column \in Ids(columns) /\ item[i].cat = Column(columns, item[i].column).cat
         /\ <<i, "sprint">> \notin astray => item[i].sprint \in OpenSprints \/ item[i].cat = "done"
         /\ <<i, "type">> \notin astray => item[i].type \in Known
    /\ \A i \in comments \ Present : <<i, "comments">> \in astray

(* The three, of the workspace's own board.                                *)
BoardSound == TypeOK /\ AtMostOneActive /\ NothingLost
=============================================================================
