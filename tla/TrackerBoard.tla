---------------------------- MODULE TrackerBoard ----------------------------
(***************************************************************************)
(* A tracker's board mirrored here: its columns are offered, used and      *)
(* followed (boards/service.py, repository.py), its issues are placed in   *)
(* them by each sync (connectors/sync.py, _sync) and by every change made  *)
(* here, which goes to the tracker first (work_items/service.py,           *)
(* sprints/service.py, comments/service.py).                               *)
(*                                                                         *)
(* One sync at a time (TargetSync has its lock, its pages and its cursor); *)
(* a page is one issue. A board's columns are the column each status is    *)
(* in, None for a status in no column; a layout shows some status. The     *)
(* tracker's sprint field is known. Each read and each write of a sync or  *)
(* a request is an action, but place_items, mark_hidden: one each.         *)
(***************************************************************************)
EXTENDS Naturals, FiniteSets

CONSTANTS Issues, Statuses,
          Category,    \* [Statuses -> category]
          Layouts,     \* the columns the tracker's board may have
          Sprints,     \* the tracker's open sprints
          Slots,       \* requests that may be under way at once
          First,       \* the status the tracker gives a new issue
          MaxChanges,  \* bound on the requests and the tracker's own changes
          None

VARIABLES
  tracker,   \* the issues there: [status, sprint], None when gone
  theirs,    \* the columns of its board
  recent,    \* issues changed there since the last sync that ended began
  mirror,    \* work_items
  ids,       \* the last _id given to an item of each issue
  noted,     \* items with comment records (work_item_comments)
  board,     \* the boards document
  sync, slot,
  made,      \* requests made, and changes the tracker made by itself
  calm,      \* history: since a full sync nothing overlapped, nothing failed
             \* half-way, and the tracker changed no issue by itself
  declined,  \* history: the columns last declined, until others are offered
  blurred,   \* history: declined across a sync, or while following columns
             \* that were never offered
  stray      \* history: items whose comments crossed their deletion, or were
             \* left when it stopped

vars == <<tracker, theirs, recent, mirror, ids, noted, board, sync, slot, made, calm, declined, blurred, stray>>

Free == [op |-> "none"]
Busy == sync # Free \/ \E r \in Slots : slot[r] # Free
Mirrored == {i \in Issues : mirror[i] # None}
AtTracker == {i \in Issues : tracker[i] # None}
Item(i) == <<i, ids[i]>>
ItemsHere == {Item(i) : i \in Mirrored}

(* boards.service.place: the column of a status, and whether the tracker's *)
(* board shows it.                                                         *)
ResolveColumn(b, s) == IF b.mode = "tracker" THEN b.cols[s] ELSE Category[s]
Place(b, issue) ==
  [status |-> issue.status, sprint |-> issue.sprint, column |-> ResolveColumn(b, issue.status),
   hidden |-> b.shown # {} /\ issue.status \notin b.shown]
Shown(cols) == {s \in Statuses : cols[s] # None}

New(s) == [status |-> s, sprint |-> None]

(* A board seen for the first time, or one that uses the tracker's columns. *)
Init ==
  /\ tracker \in [Issues -> {New(First), None}]
  /\ theirs \in Layouts
  /\ \/ /\ board = [mode |-> "default", cols |-> None, prompt |-> "none", offered |-> None, shown |-> {}]
        /\ mirror = [i \in Issues |-> None] /\ recent = Issues
     \/ /\ board = [mode |-> "tracker", cols |-> theirs, prompt |-> "none", offered |-> theirs, shown |-> Shown(theirs)]
        /\ mirror = [i \in Issues |-> IF tracker[i] = None THEN None ELSE Place(board, tracker[i])] /\ recent = {}
  /\ ids = [i \in Issues |-> 0] /\ noted = {}
  /\ sync = Free /\ slot = [r \in Slots |-> Free]
  /\ made = 0
  /\ calm = (recent = {})
  /\ declined = None
  /\ blurred = FALSE /\ stray = {}

Ours == <<made, slot>>
Unread == <<tracker, theirs, recent>>
Mirror == <<mirror, ids>>
History == <<declined, blurred, stray>>
Count == made < MaxChanges /\ made' = made + 1
-----------------------------------------------------------------------------
(* The tracker's own people.                                               *)
TrackerChanges(i, issue) ==
  /\ tracker[i] # issue /\ Count
  /\ tracker' = [tracker EXCEPT ![i] = issue]
  /\ recent' = recent \cup {i}
  /\ calm' = FALSE
  /\ UNCHANGED <<theirs, Mirror, noted, board, sync, slot, History>>

TrackerRearranges(cols) ==
  /\ cols # theirs /\ theirs' = cols /\ Count
  /\ UNCHANGED <<tracker, recent, Mirror, noted, board, sync, slot, calm, History>>
-----------------------------------------------------------------------------
(* An item's columns, when its board's changed; what the board shows of it. *)
MarkHidden(items, shown) ==
  [i \in Issues |-> IF items[i] = None THEN None ELSE [items[i] EXCEPT !.hidden = items[i].status \notin shown]]
Marked(items, b) == IF b.shown = {} THEN items ELSE MarkHidden(items, b.shown)
(* Slip: only the items that show are placed.                              *)
PlaceColumns(items, b) ==
  [i \in Issues |-> IF items[i] = None \/ items[i].hidden THEN items[i] ELSE [items[i] EXCEPT !.column = ResolveColumn(b, items[i].status)]]
PlaceAll(items, b) ==
  LET marked == Marked(items, b) IN
  [i \in Issues |-> IF marked[i] = None THEN None ELSE [marked[i] EXCEPT !.column = ResolveColumn(b, marked[i].status)]]

(* An item is written over the one of its issue, or is a new one.          *)
Upsert(i, item) ==
  /\ mirror' = [mirror EXCEPT ![i] = item]
  /\ ids' = IF mirror[i] = None THEN [ids EXCEPT ![i] = @ + 1] ELSE ids

(* A sync: the columns and the board's details when it is full, then the   *)
(* issues, then what it did not see is dropped. It keeps the board it read. *)
StartSync(full) ==
  /\ sync = Free
  /\ sync' = [op |-> IF full THEN "read columns" ELSE "list", full |-> full, board |-> board, was |-> board, cols |-> None,
              left |-> {}, seen |-> {}, took |-> recent, gone |-> {}, page |-> None]
  /\ recent' = {}
  /\ calm' = (~Busy /\ (full \/ calm))
  /\ UNCHANGED <<tracker, theirs, Mirror, noted, board, Ours, History>>

(* The tracker may not share its columns.                                  *)
ReadColumns ==
  /\ sync.op = "read columns"
  /\ \/ sync' = [sync EXCEPT !.op = "details"]
     \/ sync' = [sync EXCEPT !.op = IF Shown(theirs) # sync.board.shown THEN "show" ELSE "offer", !.cols = theirs]
  /\ UNCHANGED <<Unread, Mirror, noted, board, Ours, calm, History>>

(* offer_columns: the statuses shown, the items they hide, then the columns *)
(* are followed, or offered once.                                          *)
ShowStatuses ==
  /\ sync.op = "show"
  /\ board' = [board EXCEPT !.shown = Shown(sync.cols)]
  /\ sync' = [sync EXCEPT !.op = "hide", !.board = board']
  /\ UNCHANGED <<Unread, Mirror, noted, Ours, calm, History>>

HideItems ==
  /\ sync.op = "hide"
  /\ mirror' = MarkHidden(mirror, Shown(sync.cols))
  /\ sync' = [sync EXCEPT !.op = "offer"]
  /\ UNCHANGED <<Unread, ids, noted, board, Ours, calm, History>>

OfferColumns ==
  LET b == sync.board
      cols == sync.cols
      GoOn(b2, op) == board' = b2 /\ sync' = [sync EXCEPT !.op = op, !.board = b2]
  IN
  /\ sync.op = "offer"
  /\ IF b.mode = "tracker" /\ cols # b.cols THEN GoOn([board EXCEPT !.cols = cols], "place") /\ UNCHANGED declined
     ELSE IF b.mode = "tracker" \/ (b.prompt = "dismissed" /\ b.offered = cols)
     THEN sync' = [sync EXCEPT !.op = "details"] /\ UNCHANGED <<board, declined>>
     ELSE /\ GoOn([board EXCEPT !.prompt = "pending", !.offered = cols], "details")
          /\ declined' = IF cols = declined THEN declined ELSE None
  /\ UNCHANGED <<Unread, Mirror, noted, Ours, calm, blurred, stray>>

SyncPlaces ==
  /\ sync.op = "place" /\ mirror' = PlaceAll(mirror, sync.board) /\ sync' = [sync EXCEPT !.op = "details"]
  /\ UNCHANGED <<Unread, ids, noted, board, Ours, calm, History>>

(* A failure on the way is not the sync's: it goes on with the board it had. *)
ColumnsFail ==
  /\ sync.op \in {"show", "hide", "offer", "place"}
  /\ sync' = [sync EXCEPT !.op = "details", !.board = sync.was] /\ calm' = FALSE
  /\ UNCHANGED <<Unread, Mirror, noted, board, Ours, History>>

(* The details are written on the board, which is read again, or fail.     *)
ReadDetails ==
  /\ sync.op = "details"
  /\ \E b \in {board, sync.board} : sync' = [sync EXCEPT !.op = "list", !.board = b, !.was = None, !.cols = None]
  /\ UNCHANGED <<Unread, Mirror, noted, board, Ours, calm, History>>

(* fetch_page: all issues, or those changed since and, as it looks a       *)
(* little further back, others; some come and go while pages are read.     *)
Listed == IF sync.full THEN AtTracker ELSE AtTracker \cap (sync.took \cup recent)

List ==
  /\ sync.op = "list" /\ sync' = [sync EXCEPT !.op = "issues", !.left = Listed]
  /\ UNCHANGED <<Unread, Mirror, noted, board, Ours, calm, History>>

\* A sprint makes the board one that has sprints: it is written, and read again.
ReadIssue(i) ==
  /\ sync.op = "issues" /\ sync.page = None /\ i \in AtTracker \ sync.seen
  /\ \E b \in {sync.board} \cup (IF tracker[i].sprint = None THEN {} ELSE {board}) :
       sync' = [sync EXCEPT !.left = @ \ {i}, !.seen = @ \cup {i}, !.board = b,
                            !.page = [i |-> i, item |-> Place(sync.board, tracker[i])]]
  /\ UNCHANGED <<Unread, Mirror, noted, board, Ours, calm, History>>

WriteIssue ==
  /\ sync.op = "issues" /\ sync.page # None
  /\ Upsert(sync.page.i, sync.page.item)
  /\ sync' = [sync EXCEPT !.page = None]
  /\ UNCHANGED <<Unread, noted, board, Ours, calm, History>>

(* sweep: what is gone, the comment records kept for it, then the items.   *)
FindGone ==
  LET gone == {Item(i) : i \in Mirrored \ sync.seen} IN
  /\ sync.op = "issues" /\ sync.page = None /\ sync.left \cap AtTracker = {}
  /\ sync' = IF sync.full /\ gone # {} THEN [sync EXCEPT !.op = "sweep", !.gone = gone] ELSE Free
  /\ UNCHANGED <<Unread, Mirror, noted, board, Ours, calm, History>>

SweepComments ==
  /\ sync.op = "sweep" /\ noted' = noted \ sync.gone /\ sync' = [sync EXCEPT !.op = "drop"]
  /\ UNCHANGED <<Unread, Mirror, board, Ours, calm, History>>

SweepItems ==
  /\ sync.op = "drop" /\ mirror' = [i \in Issues |-> IF Item(i) \in sync.gone THEN None ELSE mirror[i]] /\ sync' = Free
  /\ UNCHANGED <<Unread, ids, noted, board, Ours, calm, History>>

SyncStops ==
  /\ sync # Free /\ sync' = Free /\ calm' = FALSE
  /\ recent' = recent \cup sync.took
  /\ UNCHANGED <<tracker, theirs, Mirror, noted, board, Ours, History>>
-----------------------------------------------------------------------------
(* Requests: each reads, then tells the tracker, then writes here.         *)
Begin(r, what) ==
  /\ slot[r] = Free /\ Count
  /\ slot' = [slot EXCEPT ![r] = what]
  /\ calm' = (calm /\ ~Busy)
  /\ UNCHANGED <<Unread, Mirror, noted, board, sync, History>>
Go(r, what) == slot' = [slot EXCEPT ![r] = what] /\ UNCHANGED <<made, calm>>
Finish(r) == Go(r, Free)

(* use_tracker_columns takes what was offered when it read the board;      *)
(* keep_default_columns goes back to the categories.                       *)
AskUse(r) == board.offered # None /\ Begin(r, [op |-> "use", board |-> board])
AskKeep(r) == Begin(r, [op |-> "keep", board |-> board])

UseTrackerColumns(r) ==
  LET was == slot[r].board IN
  /\ slot[r].op = "use"
  /\ board' = [board EXCEPT !.mode = "tracker", !.cols = was.offered, !.prompt = "none", !.offered = was.offered]
  /\ Go(r, [op |-> "place", board |-> board'])
  /\ UNCHANGED <<Unread, Mirror, noted, sync, History>>

KeepDefaultColumns(r) ==
  LET was == slot[r].board IN
  /\ slot[r].op = "keep"
  /\ board' = [board EXCEPT !.mode = "default", !.cols = None, !.prompt = "dismissed", !.offered = was.offered]
  /\ Go(r, [op |-> "place", board |-> board'])
  /\ declined' = IF was.mode = "tracker" THEN was.cols ELSE was.offered
  /\ blurred' = (blurred \/ sync # Free \/ (was.mode = "tracker" /\ was.cols # was.offered))
  /\ UNCHANGED <<Unread, Mirror, noted, sync, stray>>

PlaceItems(r) ==
  /\ slot[r].op = "place" /\ mirror' = PlaceAll(mirror, slot[r].board)
  /\ Finish(r) /\ UNCHANGED <<Unread, ids, noted, board, sync, History>>

(* The issue there, as it is made to be; then the request goes on here.    *)
Tell(r, i, issue, what) ==
  /\ tracker' = [tracker EXCEPT ![i] = issue] /\ recent' = recent \cup {i}
  /\ Go(r, what)
  /\ UNCHANGED <<theirs, Mirror, noted, board, sync, History>>
TellOf(r, op, issue, what) == slot[r].op = op /\ slot[r].i \in AtTracker /\ Tell(r, slot[r].i, issue, what)

(* Into the column that status is in, with the statuses it holds now.      *)
Column(s) == [id |-> ResolveColumn(board, s), into |-> {t \in Statuses : ResolveColumn(board, t) = ResolveColumn(board, s)}]
AskMove(r, i, s) ==
  /\ i \in Mirrored /\ ResolveColumn(board, s) # None
  /\ Begin(r, [op |-> "transition", i |-> i, column |-> Column(s), sprint |-> None])
AskCreate(r, i, s, sprint) ==
  /\ ResolveColumn(board, s) # None
  /\ Begin(r, [op |-> "create", i |-> i, column |-> Column(s), sprint |-> sprint])
AskUpdate(r, i) == i \in Mirrored /\ Begin(r, [op |-> "update", i |-> i, column |-> None, sprint |-> None])

\* To one of the column's statuses, as the tracker's workflow lets it (jira.py, move).
Transition(r, s) ==
  /\ slot[r].op = "transition" /\ s \in slot[r].column.into
  /\ TellOf(r, "transition", [tracker[slot[r].i] EXCEPT !.status = s], [slot[r] EXCEPT !.op = "refresh", !.column = None])

Create(r) ==
  /\ slot[r].op = "create" /\ slot[r].i \notin Mirrored \cup AtTracker
  /\ Tell(r, slot[r].i, New(First), [slot[r] EXCEPT !.op = "refresh"])

Update(r) == TellOf(r, "update", tracker[slot[r].i], [slot[r] EXCEPT !.op = "refresh"])

(* _refresh: the board, the issue as the tracker has it now, then it is    *)
(* stored. An issue that is gone fails the request.                        *)
Refresh(r) ==
  LET q == slot[r] IN
  /\ q.op = "refresh"
  /\ Go(r, [op |-> "fetch", i |-> q.i, column |-> q.column, sprint |-> q.sprint, board |-> board])
  /\ UNCHANGED <<Unread, Mirror, noted, board, sync, History>>

Fetch(r) ==
  LET q == slot[r] IN
  /\ q.op = "fetch"
  /\ slot' = [slot EXCEPT ![r] =
       IF tracker[q.i] = None THEN Free
       ELSE [op |-> "store", i |-> q.i, column |-> q.column, sprint |-> q.sprint, item |-> Place(q.board, tracker[q.i])]]
  /\ calm' = (calm /\ tracker[q.i] # None)
  /\ UNCHANGED <<Unread, Mirror, noted, board, sync, made, History>>

(* A new issue not in the column asked for is moved there, and it is put   *)
(* in the sprint asked for; each time it is refreshed.                     *)
Then(q, column, op) == [op |-> op, i |-> q.i, column |-> column, sprint |-> q.sprint]
Scheduled(q) == IF q.sprint = None THEN Free ELSE Then(q, None, "schedule")

Store(r) ==
  LET q == slot[r] IN
  /\ q.op = "store" /\ Upsert(q.i, q.item)
  /\ Go(r, IF q.column = None THEN Scheduled(q) ELSE Then(q, q.column, "compare"))
  /\ UNCHANGED <<Unread, noted, board, sync, History>>

CompareColumn(r) ==
  LET q == slot[r] IN
  /\ q.op = "compare"
  /\ Go(r, IF q.i \notin Mirrored THEN Free
           ELSE IF mirror[q.i].column # q.column.id THEN Then(q, q.column, "transition") ELSE Scheduled(q))
  /\ UNCHANGED <<Unread, Mirror, noted, board, sync, History>>

Schedule(r) ==
  TellOf(r, "schedule", [tracker[slot[r].i] EXCEPT !.sprint = slot[r].sprint], [slot[r] EXCEPT !.op = "refresh", !.sprint = None])

(* A sprint is set there, when the item has another, then written here     *)
(* without reading it back.                                                *)
AskSprint(r, i, s) ==
  /\ i \in Mirrored
  /\ Begin(r, [op |-> IF s = mirror[i].sprint THEN "store sprint" ELSE "sprint", i |-> i, item |-> Item(i), sprint |-> s])

SetSprint(r) == TellOf(r, "sprint", [tracker[slot[r].i] EXCEPT !.sprint = slot[r].sprint], [slot[r] EXCEPT !.op = "store sprint"])

StoreSprint(r) ==
  LET q == slot[r] IN
  /\ q.op = "store sprint"
  /\ mirror' = IF q.item \in ItemsHere THEN [mirror EXCEPT ![q.i].sprint = q.sprint] ELSE mirror
  /\ Finish(r) /\ UNCHANGED <<Unread, ids, noted, board, sync, History>>

(* Deleted there, then the item here, then its comments.                   *)
AskDelete(r, i) == i \in Mirrored /\ Begin(r, [op |-> "delete", i |-> i, item |-> Item(i)])

Delete(r) == TellOf(r, "delete", None, [slot[r] EXCEPT !.op = "delete item"])

DeleteItem(r) ==
  LET q == slot[r] IN
  /\ q.op = "delete item"
  /\ mirror' = IF q.item \in ItemsHere THEN [mirror EXCEPT ![q.i] = None] ELSE mirror
  /\ Go(r, [q EXCEPT !.op = "delete comments"])
  /\ UNCHANGED <<Unread, ids, noted, board, sync, History>>

DeleteComments(r) ==
  /\ slot[r].op = "delete comments" /\ noted' = noted \ {slot[r].item}
  /\ Finish(r) /\ UNCHANGED <<Unread, Mirror, board, sync, History>>

(* A comment is posted there, then recorded here as ours.                  *)
AskComment(r, i) == i \in Mirrored /\ Begin(r, [op |-> "comment", i |-> i, item |-> Item(i)])

PostComment(r) == TellOf(r, "comment", tracker[slot[r].i], [slot[r] EXCEPT !.op = "record"])

RecordComment(r) ==
  LET item == slot[r].item IN
  /\ slot[r].op = "record" /\ noted' = noted \cup {item}
  /\ stray' = IF item \notin ItemsHere \/ (sync.op = "drop" /\ item \in sync.gone) THEN stray \cup {item} ELSE stray
  /\ Finish(r) /\ UNCHANGED <<Unread, Mirror, board, sync, declined, blurred>>

(* The process stops, or what comes next is refused. HalfWay: what was     *)
(* done is not yet seen here.                                              *)
HalfWay == {"place", "refresh", "fetch", "store", "store sprint", "delete item"}
RequestStops(r) ==
  LET q == slot[r] IN
  /\ q # Free /\ slot' = [slot EXCEPT ![r] = Free]
  /\ calm' = (calm /\ q.op \notin HalfWay)
  /\ stray' = IF q.op \in {"delete item", "delete comments"} THEN stray \cup {q.item} ELSE stray
  /\ UNCHANGED <<Unread, Mirror, noted, board, sync, made, declined, blurred>>
-----------------------------------------------------------------------------
Next ==
  \/ \E i \in Issues, issue \in {New(s) : s \in Statuses} \cup {None} : TrackerChanges(i, issue)
  \/ \E cols \in Layouts : TrackerRearranges(cols)
  \/ \E full \in BOOLEAN : StartSync(full)
  \/ ReadColumns \/ ShowStatuses \/ HideItems \/ OfferColumns \/ SyncPlaces \/ ColumnsFail \/ ReadDetails
  \/ List \/ WriteIssue \/ FindGone \/ SweepComments \/ SweepItems \/ SyncStops
  \/ \E i \in Issues : ReadIssue(i)
  \/ \E r \in Slots :
       \/ AskUse(r) \/ AskKeep(r) \/ UseTrackerColumns(r) \/ KeepDefaultColumns(r) \/ PlaceItems(r)
       \/ Create(r) \/ Update(r) \/ Refresh(r) \/ Fetch(r) \/ Store(r) \/ CompareColumn(r) \/ Schedule(r)
       \/ SetSprint(r) \/ StoreSprint(r) \/ Delete(r) \/ DeleteItem(r) \/ DeleteComments(r)
       \/ PostComment(r) \/ RecordComment(r) \/ RequestStops(r)
       \/ \E i \in Issues : AskUpdate(r, i) \/ AskDelete(r, i) \/ AskComment(r, i)
       \/ \E s \in Statuses : Transition(r, s)
       \/ \E i \in Issues, s \in Statuses : AskMove(r, i, s)
       \/ \E i \in Issues, s \in Sprints \cup {None} : AskSprint(r, i, s)
       \/ \E i \in Issues, s \in Statuses, sprint \in Sprints \cup {None} : AskCreate(r, i, s, sprint)
Spec == Init /\ [][Next]_vars
-----------------------------------------------------------------------------
(* Type correctness of the board and its mirror.                           *)
TypeOK ==
  /\ board.mode \in {"default", "tracker"} /\ (board.mode = "tracker" => board.cols # None)
  /\ board.prompt \in {"none", "pending", "dismissed"}
  /\ board.shown \subseteq Statuses /\ ids \in [Issues -> Nat] /\ noted \subseteq Issues \X Nat

(* A board back on its categories that still has the tracker's columns.    *)
Torn == board.mode = "default" /\ board.cols # None

(* Only a sync that follows the tracker's columns while they are declined  *)
(* leaves a board with them and the mode that does not use them.           *)
TornByRace == Torn => blurred

(* Once a full sync ran to its end alone, and as long as requests come one *)
(* after another, every issue is here as the tracker has it, in the column *)
(* and with the visibility the board gives it now, whichever columns the   *)
(* board uses or used.                                                     *)
MirrorPlaced ==
  (calm /\ ~Busy /\ ~Torn) =>
    \A i \in Issues : mirror[i] = IF tracker[i] = None THEN None ELSE Place(board, tracker[i])

(* A comment record outlives its item only if it was written across the    *)
(* deletion, or the deletion stopped before it.                            *)
RecordsFollow == ~Busy => noted \subseteq ItemsHere \cup stray

(* Columns that were declined are not offered again before others were.    *)
AskedOnce == ~blurred /\ declined # None => ~(board.prompt = "pending" /\ board.offered = declined)

(* These, of a tracker's board.                                        *)
MirrorSafe == TypeOK /\ TornByRace /\ MirrorPlaced /\ RecordsFollow /\ AskedOnce
=============================================================================
