------------------------------ MODULE DocPush ------------------------------
(***************************************************************************)
(* One page mirrored from a docs source: app/connectors/doc_sync.py (the   *)
(* pull and the push), the page's document in app/documents/repository.py, *)
(* and the requests that edit it here (app/documents/service.py).          *)
(*                                                                         *)
(* Version numbers appear as what is compared: every holder of a number    *)
(* knows whether it is still the latest one (`current`), and every holder  *)
(* of a copy of the page whether the page was written since (`moved`).     *)
(***************************************************************************)
EXTENDS Naturals, FiniteSets

CONSTANTS
    Titles, Texts,  \* what a page may say
    Blank,          \* the text of a page whose content was not fetched yet
    None,           \* no content
    Pushers         \* the push loops: one in each process

ASSUME ContentAssumption == Blank \in Texts /\ None \notin Titles \cup Texts

VARIABLES
    page,       \* the page's document here
    source,     \* the page at its source
    push,       \* local state of each push loop
    sync,       \* local state of the docs sync
    owed,       \* history: the last title and text saved here that neither
                \* reached the source nor were given up by their user
    unseen      \* history: the source holds an edit made there that was never
                \* loaded here

vars == <<page, source, push, sync, owed, unseen>>

Content == [title: Titles, text: Texts]
PushState == {"none", "pending", "pushing", "conflict"}

\* current: external_version is the source's version.  stale: push_started_at is
\* older than STALE_PUSH.  kept: the local edit beside a conflict, if any.
Page == [content: Content, state: PushState, current: BOOLEAN, stale: BOOLEAN,
         kept: SUBSET Content]

\* content: what the claim returned, or what was fetched since; kept: what was
\* read here to be kept beside it; current: is external_version, or the version
\* that came with the last answer, still the source's?
Push == [phase: {"idle", "send", "record", "finish", "fetch", "read", "store"},
         content: SUBSET Content, kept: SUBSET Content, current: BOOLEAN, moved: BOOLEAN]
NoPush == [phase |-> "idle", content |-> {}, kept |-> {}, current |-> FALSE, moved |-> FALSE]

\* title, state: as stored when the run began; item: the title listed since; behind:
\* the version listed is not the one that was stored; first: nothing was stored
Sync == [phase: {"idle", "list", "tree", "fetch", "store"}, title: Titles \cup {None},
         item: Titles \cup {None}, state: PushState, behind: BOOLEAN, first: BOOLEAN,
         content: SUBSET Content, current: BOOLEAN, moved: BOOLEAN]
NoSync == [phase |-> "idle", title |-> None, item |-> None, state |-> "none",
           behind |-> FALSE, first |-> FALSE, content |-> {}, current |-> FALSE,
           moved |-> FALSE]

TypeOK ==
    /\ page \in Page
    /\ page.state = "conflict" <=> page.kept # {}
    /\ source \in Content
    /\ push \in [Pushers -> Push]
    /\ sync \in Sync
    /\ owed \in [title: Titles \cup {None}, text: Texts \cup {None}]
    /\ unseen \in BOOLEAN

\* the page's first sync has inserted it, and fetches its content next
Init ==
    /\ source \in Content
    /\ page = [content |-> [source EXCEPT !.text = Blank], state |-> "none",
               current |-> FALSE, stale |-> FALSE, kept |-> {}]
    /\ push = [p \in Pushers |-> NoPush]
    /\ sync = [NoSync EXCEPT !.phase = "fetch", !.first = TRUE]
    /\ owed = [title |-> None, text |-> None]
    /\ unseen = TRUE

Sending == {p \in Pushers : push[p].phase # "idle"}

\* a holder of a version number is behind; a holder of a copy, that it was written
Outdated(h) == [h EXCEPT !.current = FALSE]
Noticed(h) == [h EXCEPT !.moved = TRUE]

\* the source takes content c, as its next version: all others are behind
SourceMoves(c) ==
    /\ source' = c
    /\ page' = Outdated(page)
    /\ sync' = Outdated(sync)

\* the page's version goes up: whoever read it before notices
PageMoves ==
    /\ push' = [p \in Pushers |->
                  IF p \in Sending THEN Noticed(push[p]) ELSE push[p]]
    /\ sync' = IF sync.phase = "idle" THEN sync ELSE Noticed(sync)

-----------------------------------------------------------------------------
(***************************************************************************)
(* Requests, and edits at the source                                       *)
(***************************************************************************)

\* someone edits the page at its source
RemoteEdit(c) ==
    /\ c # source
    /\ SourceMoves(c)
    /\ push' = [p \in Pushers |-> Outdated(push[p])]
    /\ unseen' = TRUE
    /\ UNCHANGED owed

Owes(c) == [title |-> IF c.title # page.content.title THEN c.title ELSE owed.title,
            text |-> IF c.text # page.content.text THEN c.text ELSE owed.text]

\* update with new text, and perhaps a title: refused on an older version
SaveContent(c) ==
    /\ page.state # "conflict"
    /\ c.text # page.content.text
    /\ page' = [page EXCEPT !.content = c, !.state = "pending", !.stale = FALSE]
    /\ PageMoves
    /\ owed' = Owes(c)
    /\ UNCHANGED <<source, unseen>>

\* update with a title alone: neither checks nor counts the version
SaveTitle(t) ==
    /\ page.state # "conflict"
    /\ t # page.content.title
    /\ page' = [page EXCEPT !.content.title = t, !.state = "pending", !.stale = FALSE]
    /\ owed' = Owes([page.content EXCEPT !.title = t])
    /\ UNCHANGED <<source, push, sync, unseen>>

\* Slip: the local edit is given up, but not removed.
KeepSourceAndEdit ==
    /\ page.state = "conflict"
    /\ page' = [page EXCEPT !.state = "none"]
    /\ PageMoves
    /\ owed' = [title |-> None, text |-> None]
    /\ UNCHANGED <<source, unseen>>

\* resolve_conflict, keep_source: the user gives the local edit up
KeepSource ==
    /\ page.state = "conflict"
    /\ page' = [page EXCEPT !.state = "none", !.kept = {}]
    /\ PageMoves
    /\ owed' = [title |-> None, text |-> None]
    /\ UNCHANGED <<source, unseen>>

\* resolve_conflict, overwrite.  It reads the page first, but writes only if the
\* version is still the one its user saw.
Overwrite ==
    /\ page.state = "conflict"
    /\ \E c \in page.kept :
         page' = [page EXCEPT !.content = c, !.state = "pending", !.kept = {}]
    /\ PageMoves
    /\ UNCHANGED <<source, owed, unseen>>

-----------------------------------------------------------------------------
(***************************************************************************)
(* The push                                                                *)
(***************************************************************************)

\* Slip: a push that was lost stays lost.
ClaimPending(p) ==
    /\ push[p].phase = "idle"
    /\ page.state = "pending"
    /\ page' = [page EXCEPT !.state = "pushing", !.stale = FALSE]
    /\ push' = [push EXCEPT ![p] = [NoPush EXCEPT
                  !.phase = "send", !.content = {page.content}, !.current = page.current]]
    /\ UNCHANGED <<source, sync, owed, unseen>>

\* claim_push: a page whose edits have settled, or a push that was lost
ClaimPush(p) ==
    /\ push[p].phase = "idle"
    /\ \/ page.state = "pending"
       \/ page.state = "pushing" /\ page.stale
    /\ page' = [page EXCEPT !.state = "pushing", !.stale = FALSE]
    /\ push' = [push EXCEPT ![p] = [NoPush EXCEPT
                  !.phase = "send", !.content = {page.content}, !.current = page.current]]
    /\ UNCHANGED <<source, sync, owed, unseen>>

Delivered(c) == [title |-> IF owed.title = c.title THEN None ELSE owed.title,
                 text |-> IF owed.text = c.text THEN None ELSE owed.text]

\* update_page: the source takes the next version of the one it has
Send(p) ==
    /\ push[p].phase = "send"
    /\ push[p].current
    /\ \E c \in push[p].content :
         /\ SourceMoves(c)
         /\ owed' = Delivered(c)
    /\ push' = [q \in Pushers |->
                  IF q = p THEN [NoPush EXCEPT !.phase = "record", !.current = TRUE]
                           ELSE Outdated(push[q])]
    /\ unseen' = FALSE

\* and refuses any other (409, RemoteConflict)
Refused(p) ==
    /\ push[p].phase = "send"
    /\ ~push[p].current
    /\ push' = [push EXCEPT ![p].phase = "fetch", ![p].content = {}]
    /\ UNCHANGED <<page, source, sync, owed, unseen>>

\* Slip: the version the source has by now, instead of the one it answered with.
RecordLatest(p) ==
    /\ push[p].phase = "record"
    /\ page' = [page EXCEPT !.current = TRUE]
    /\ push' = [push EXCEPT ![p] = [NoPush EXCEPT !.phase = "finish"]]
    /\ UNCHANGED <<source, sync, owed, unseen>>

\* push_done: external_version, whatever happened meanwhile
RecordVersion(p) ==
    /\ push[p].phase = "record"
    /\ page' = [page EXCEPT !.current = push[p].current]
    /\ push' = [push EXCEPT ![p] = [NoPush EXCEPT !.phase = "finish"]]
    /\ UNCHANGED <<source, sync, owed, unseen>>

\* Slip: then the state, whatever it is by now.
FinishAnyPush(p) ==
    /\ push[p].phase = "finish"
    /\ page' = [page EXCEPT !.state = "none", !.stale = FALSE]
    /\ push' = [push EXCEPT ![p] = NoPush]
    /\ UNCHANGED <<source, sync, owed, unseen>>

\* then the state, unless an edit was saved meanwhile
FinishPush(p) ==
    /\ push[p].phase = "finish"
    /\ page' = IF page.state = "pushing" THEN [page EXCEPT !.state = "none", !.stale = FALSE]
                                         ELSE page
    /\ push' = [push EXCEPT ![p] = NoPush]
    /\ UNCHANGED <<source, sync, owed, unseen>>

\* fetch_bodies of a page that moved at the source
FetchTheirs(p) ==
    /\ push[p].phase = "fetch"
    /\ push' = [push EXCEPT ![p].phase = "read", ![p].content = {source}, ![p].current = TRUE]
    /\ UNCHANGED <<page, source, sync, owed, unseen>>

\* _take_remote reads the edit to keep
ReadOurs(p) ==
    /\ push[p].phase = "read"
    /\ push' = [push EXCEPT ![p].phase = "store", ![p].kept = {page.content}]
    /\ UNCHANGED <<page, source, sync, owed, unseen>>

\* save_synced: a page that was written since the claim is left alone
StoreConflict(p) ==
    /\ push[p].phase = "store"
    /\ page.state = "pushing" /\ ~push[p].moved
    /\ \E c \in push[p].content :
         page' = [content |-> c, state |-> "conflict", current |-> push[p].current,
                  stale |-> FALSE, kept |-> push[p].kept]
    /\ push' = [q \in Pushers |-> IF q = p THEN NoPush
                  ELSE IF q \in Sending THEN Noticed(push[q]) ELSE push[q]]
    /\ sync' = IF sync.phase = "idle" THEN sync ELSE Noticed(sync)
    /\ unseen' = (unseen /\ ~push[p].current)
    /\ UNCHANGED <<source, owed>>

LeaveEdit(p) ==
    /\ push[p].phase = "store"
    /\ page.state # "pushing" \/ push[p].moved
    /\ push' = [push EXCEPT ![p] = NoPush]
    /\ UNCHANGED <<page, source, sync, owed, unseen>>

\* push_later: the source refused or did not answer, before it took the content
\* or after
PushLater(p) ==
    /\ p \in Sending
    /\ page' = IF page.state = "pushing" THEN [page EXCEPT !.state = "pending", !.stale = FALSE]
                                         ELSE page
    /\ push' = [push EXCEPT ![p] = NoPush]
    /\ UNCHANGED <<source, sync, owed, unseen>>

\* the process dies in the middle of a push
CrashPush(p) ==
    /\ p \in Sending
    /\ push' = [push EXCEPT ![p] = NoPush]
    /\ UNCHANGED <<page, source, sync, owed, unseen>>

\* STALE_PUSH passes.  A push that is alive is done sooner.
PushGoesStale ==
    /\ page.state = "pushing" /\ ~page.stale
    /\ Sending = {}
    /\ page' = [page EXCEPT !.stale = TRUE]
    /\ UNCHANGED <<source, push, sync, owed, unseen>>

-----------------------------------------------------------------------------
(***************************************************************************)
(* The sync, of which one runs at a time (TargetSync)                      *)
(***************************************************************************)

\* mirror: what is stored
StartSync ==
    /\ sync.phase = "idle"
    /\ sync' = [NoSync EXCEPT !.phase = "list", !.title = page.content.title,
                              !.state = page.state, !.current = page.current]
    /\ UNCHANGED <<page, source, push, owed, unseen>>

\* list_nodes, of which the page is one: a run that does not list it
\* leaves it alone
ListPage ==
    /\ sync.phase = "list"
    /\ sync' = [sync EXCEPT !.phase = "tree", !.item = source.title,
                            !.behind = ~sync.current, !.current = FALSE]
    /\ UNCHANGED <<page, source, push, owed, unseen>>

\* `stale` of _contents
Wanted(reformat) ==
    /\ sync.behind \/ reformat
    /\ sync.state \notin {"pending", "pushing"}

\* _tree and write_mirror: the title as listed, if it is not the one that was
\* stored.  The content is fetched if its version moved, or if an older editor
\* format converted it.
WriteTree(reformat) ==
    /\ sync.phase = "tree"
    /\ page' = IF sync.item # sync.title THEN [page EXCEPT !.content.title = sync.item] ELSE page
    /\ sync' = IF Wanted(reformat)
                 THEN [sync EXCEPT !.phase = "fetch", !.title = None, !.item = None,
                                   !.behind = FALSE]
                 ELSE NoSync
    /\ UNCHANGED <<source, push, owed, unseen>>

\* fetch_bodies
FetchBody ==
    /\ sync.phase = "fetch"
    /\ sync' = [sync EXCEPT !.phase = "store", !.content = {source}, !.current = TRUE]
    /\ UNCHANGED <<page, source, push, owed, unseen>>

\* the page is as it was when the run began: `expected` of _take_remote
AsExpected ==
    /\ page.state = sync.state
    /\ sync.first \/ ~sync.moved

\* _take_remote: the content as it was fetched, unless the page was written since
StoreBody ==
    /\ sync.phase = "store"
    /\ AsExpected
    /\ \E c \in sync.content : page' = [page EXCEPT !.content = c, !.current = sync.current]
    /\ push' = [p \in Pushers |->
                  IF p \in Sending THEN Noticed(push[p]) ELSE push[p]]
    /\ sync' = NoSync
    /\ unseen' = (unseen /\ ~sync.current)
    /\ UNCHANGED <<source, owed>>

LeaveBody ==
    /\ sync.phase = "store"
    /\ ~AsExpected
    /\ sync' = NoSync
    /\ UNCHANGED <<page, source, push, owed, unseen>>

\* a sync that fails, or whose process dies
SyncStops ==
    /\ sync.phase # "idle"
    /\ sync' = NoSync
    /\ UNCHANGED <<page, source, push, owed, unseen>>

-----------------------------------------------------------------------------

PushStep(p) ==
    \/ ClaimPush(p) \/ Send(p) \/ Refused(p) \/ RecordVersion(p) \/ FinishPush(p)
    \/ FetchTheirs(p) \/ ReadOurs(p) \/ StoreConflict(p) \/ LeaveEdit(p)

SyncStep ==
    \/ StartSync \/ ListPage \/ FetchBody \/ StoreBody \/ LeaveBody
    \/ \E reformat \in BOOLEAN : WriteTree(reformat)

Disturbance ==
    \/ \E c \in Content : RemoteEdit(c) \/ SaveContent(c)
    \/ \E t \in Titles : SaveTitle(t)
    \/ KeepSource \/ Overwrite
    \/ \E p \in Pushers : PushLater(p) \/ CrashPush(p)
    \/ SyncStops

\* what happens by itself
Routine ==
    \/ \E p \in Pushers : PushStep(p)
    \/ PushGoesStale
    \/ SyncStep

Next == Disturbance \/ Routine

\* The push and the sync loops run for ever, and time passes.
Fairness ==
    /\ \A p \in Pushers : WF_vars(PushStep(p))
    /\ WF_vars(PushGoesStale) /\ WF_vars(SyncStep)

Spec == Init /\ [][Next]_vars
FairSpec == Spec /\ Fairness

-----------------------------------------------------------------------------
(***************************************************************************)
(* Properties                                                              *)
(***************************************************************************)

\* doc_sync.py: a local edit is "never overwritten silently".  A text saved here
\* that did not reach the source is on the page and on its way, or is kept beside
\* a conflict for its user to resolve.  Of one push loop, which is what is deployed.
TextKept ==
    owed.text # None =>
        \/ page.state \in {"pending", "pushing"} /\ page.content.text = owed.text
        \/ \E c \in page.kept : c.text = owed.text

\* The same of a title.
TitleKept ==
    owed.title # None =>
        \/ page.state \in {"pending", "pushing"} /\ page.content.title = owed.title
        \/ \E c \in page.kept : c.title = owed.title

\* A push never replaces an edit made at the source that the page never showed.
TheirsSeenFirst ==
    [][\A p \in Pushers : push[p].phase = "send" /\ push'[p].phase = "record" => ~unseen]_vars

\* Once nothing disturbs it, the page is as the source has it, or waits for its
\* user with a conflict.
EventuallySettles ==
    <>[][Routine]_vars =>
        <>[](\/ page.state = "conflict"
             \/ page.state = "none" /\ page.content = source)
=============================================================================
