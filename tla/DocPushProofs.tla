--------------------------- MODULE DocPushProofs ---------------------------
(***************************************************************************)
(* Proofs about DocPush, for any titles and texts: the types and the order *)
(* of edits for any number of push loops, the survival of texts for one.   *)
(* Then what MCDocuments promises of the components it runs beside it,     *)
(* which DocumentParts proves of each by itself.                           *)
(***************************************************************************)
EXTENDS MCDocuments, TLAPS

-----------------------------------------------------------------------------
(***************************************************************************)
(* The inductive invariant                                                 *)
(***************************************************************************)

\* A push carries exactly one content where the page will take it from.
Carries ==
    \A p \in Pushers :
        /\ push[p].phase = "send" => \E c \in Content : push[p].content = {c}
        /\ push[p].phase = "store" => \E c \in Content : push[p].kept = {c}

\* A sync fetches the body of no page whose edits are on their way.
Fetching == sync.phase \in {"fetch", "store"} => sync.state \in {"none", "conflict"}

\* While the source holds an edit the page never showed, no version here is its
\* latest but one that came with that edit.
Behind ==
    unseen =>
        /\ ~page.current
        /\ \A p \in Pushers : push[p].phase \in {"send", "record"} => ~push[p].current

\* TextKept, for every edit kept beside a conflict
KeptText ==
    owed.text # None =>
        \/ page.state \in {"pending", "pushing"} /\ page.content.text = owed.text
        \/ page.state = "conflict" /\ \A c \in page.kept : c.text = owed.text

\* While the page still is as push p marked it, what p sends is its text, what p
\* has sent is all that was owed, and what p keeps is its text.
Faithful(p) ==
    page.state = "pushing" =>
        /\ push[p].phase = "send" => \A c \in push[p].content : c.text = page.content.text
        /\ push[p].phase \in {"record", "finish"} => owed.text = None
        /\ push[p].phase = "store" => \A c \in push[p].kept : c.text = page.content.text

\* What a sync listed is a title.
Listed == sync.phase = "tree" => sync.item \in Titles

Typed == TypeOK /\ Carries /\ Listed
KeptInv == KeptText /\ Fetching /\ \A p \in Pushers : Faithful(p)

OnePusher == \A p, q \in Pushers : p = q

-----------------------------------------------------------------------------
(***************************************************************************)
(* Types                                                                   *)
(***************************************************************************)

\* Falling behind, and noticing that the page was written, change nothing else.
LEMMA PushFlags ==
    ASSUME NEW r \in Push
    PROVE  /\ Outdated(r) \in Push /\ Noticed(r) \in Push
           /\ Outdated(r).phase = r.phase /\ Noticed(r).phase = r.phase
           /\ Outdated(r).content = r.content /\ Noticed(r).content = r.content
           /\ Outdated(r).kept = r.kept /\ Noticed(r).kept = r.kept
           /\ ~Outdated(r).current /\ Noticed(r).current = r.current
  BY DEF Push, Outdated, Noticed

LEMMA SyncFlags ==
    ASSUME NEW r \in Sync
    PROVE  /\ Outdated(r) \in Sync /\ Noticed(r) \in Sync
           /\ Outdated(r).phase = r.phase /\ Noticed(r).phase = r.phase
           /\ Outdated(r).state = r.state /\ Noticed(r).state = r.state
           /\ Outdated(r).item = r.item /\ Noticed(r).item = r.item
  BY DEF Sync, Outdated, Noticed

LEMMA PageFlags ==
    ASSUME NEW r \in Page
    PROVE  /\ Outdated(r) \in Page /\ ~Outdated(r).current
           /\ Outdated(r).state = r.state /\ Outdated(r).kept = r.kept
           /\ Outdated(r).content = r.content
  BY DEF Page, Outdated

LEMMA NothingTyped == NoPush \in Push /\ NoPush.phase = "idle"
  BY DEF NoPush, Push

LEMMA NoSyncTyped == NoSync \in Sync /\ NoSync.phase = "idle"
  BY DEF NoSync, Sync, PushState

LEMMA InitTyped == Init => Typed
<1> SUFFICES ASSUME Init PROVE Typed
  OBVIOUS
<1>1. [source EXCEPT !.text = Blank] \in Content
  BY ContentAssumption DEF Init, Content
<1>2. page \in Page /\ page.state = "none" /\ page.kept = {}
  BY <1>1 DEF Init, Page, PushState
<1>3. [NoSync EXCEPT !.phase = "fetch", !.first = TRUE] \in Sync
  BY DEF NoSync, Sync, PushState
<1> QED
  BY <1>2, <1>3, NothingTyped DEF Init, Typed, TypeOK, Carries, Listed, NoSync

LEMMA MovesTyped ==
    ASSUME Typed, PageMoves
    PROVE  /\ push' \in [Pushers -> Push] /\ sync' \in Sync
           /\ sync'.phase = sync.phase /\ sync'.state = sync.state /\ sync'.item = sync.item
           /\ \A p \in Pushers : /\ push'[p].phase = push[p].phase
                                 /\ push'[p].content = push[p].content
                                 /\ push'[p].kept = push[p].kept
                                 /\ push'[p].current = push[p].current
<1>1. \A p \in Pushers : push[p] \in Push /\ Noticed(push[p]) \in Push
  BY PushFlags DEF Typed, TypeOK
<1>2. push' \in [Pushers -> Push]
  BY <1>1 DEF PageMoves
<1>3. \A p \in Pushers : push'[p] \in {push[p], Noticed(push[p])}
  BY DEF PageMoves
<1>4. sync' \in {sync, Noticed(sync)} /\ sync \in Sync
  BY DEF PageMoves, Typed, TypeOK
<1>5. ASSUME NEW p \in Pushers
      PROVE  /\ push'[p].phase = push[p].phase /\ push'[p].content = push[p].content
             /\ push'[p].kept = push[p].kept /\ push'[p].current = push[p].current
  BY <1>1, <1>3, PushFlags
<1> QED
  BY <1>2, <1>4, <1>5, SyncFlags

LEMMA TypedStep == Typed /\ [Next]_vars => Typed'
<1> SUFFICES ASSUME Typed, [Next]_vars PROVE Typed'
  OBVIOUS
<1> USE DEF Typed, TypeOK, Carries, Listed
<1>1. CASE Disturbance
  <2>1. ASSUME NEW c \in Content, RemoteEdit(c) PROVE Typed'
    <3>1. page' \in Page /\ (page'.state = "conflict" <=> page'.kept # {})
      BY <2>1, PageFlags DEF RemoteEdit, SourceMoves
    <3>2. sync' \in Sync /\ Listed'
      BY <2>1, SyncFlags DEF RemoteEdit, SourceMoves
    <3>3. push' \in [Pushers -> Push] /\ Carries'
      <4>1. \A p \in Pushers : push[p] \in Push
        OBVIOUS
      <4>2. push' = [p \in Pushers |-> Outdated(push[p])]
        BY <2>1 DEF RemoteEdit
      <4> QED
        BY <4>1, <4>2, PushFlags
    <3> QED
      BY <2>1, <3>1, <3>2, <3>3 DEF RemoteEdit, SourceMoves
  <2>2. ASSUME NEW c \in Content, SaveContent(c) PROVE Typed'
    <3>1. page' \in Page /\ (page'.state = "conflict" <=> page'.kept # {})
      BY <2>2 DEF SaveContent, Page, PushState
    <3>2. owed' \in [title: Titles \cup {None}, text: Texts \cup {None}]
      BY <2>2 DEF SaveContent, Owes, Content
    <3> QED
      BY <2>2, <3>1, <3>2, MovesTyped DEF SaveContent
  <2>3. ASSUME NEW t \in Titles, SaveTitle(t) PROVE Typed'
    <3>1. page' \in Page /\ (page'.state = "conflict" <=> page'.kept # {})
      BY <2>3 DEF SaveTitle, Page, PushState, Content
    <3>2. owed' \in [title: Titles \cup {None}, text: Texts \cup {None}]
      BY <2>3 DEF SaveTitle, Owes, Page, Content
    <3> QED
      BY <2>3, <3>1, <3>2 DEF SaveTitle
  <2>4. ASSUME KeepSource PROVE Typed'
    <3>1. page' \in Page /\ (page'.state = "conflict" <=> page'.kept # {})
      BY <2>4 DEF KeepSource, Page, PushState
    <3> QED
      BY <2>4, <3>1, MovesTyped DEF KeepSource
  <2>5. ASSUME Overwrite PROVE Typed'
    <3>1. page' \in Page /\ (page'.state = "conflict" <=> page'.kept # {})
      BY <2>5 DEF Overwrite, Page, PushState
    <3> QED
      BY <2>5, <3>1, MovesTyped DEF Overwrite
  <2>6. ASSUME NEW p \in Pushers, PushLater(p) PROVE Typed'
    BY <2>6 DEF PushLater, Page, PushState, Push, NoPush
  <2>7. ASSUME NEW p \in Pushers, CrashPush(p) PROVE Typed'
    BY <2>7 DEF CrashPush, Push, NoPush
  <2>8. ASSUME SyncStops PROVE Typed'
    BY <2>8 DEF SyncStops, Sync, NoSync, PushState
  <2> QED
    BY <1>1, <2>1, <2>2, <2>3, <2>4, <2>5, <2>6, <2>7, <2>8 DEF Disturbance
<1>2. ASSUME NEW p \in Pushers, PushStep(p) PROVE Typed'
  <2>1. CASE ClaimPush(p)
    BY <2>1 DEF ClaimPush, Page, PushState, Push, NoPush
  <2>2. CASE Send(p)
    <3>1. PICK c \in push[p].content : SourceMoves(c) /\ owed' = Delivered(c)
      BY <2>2 DEF Send
    <3>2. source' \in Content /\ page' \in Page /\ sync' \in Sync /\ Listed'
          /\ (page'.state = "conflict" <=> page'.kept # {})
      BY <3>1, PageFlags, SyncFlags DEF SourceMoves, Push
    <3>3. owed' \in [title: Titles \cup {None}, text: Texts \cup {None}]
      BY <3>1 DEF Delivered
    <3>4. push' \in [Pushers -> Push] /\ Carries'
      <4>1. \A q \in Pushers : push[q] \in Push
        OBVIOUS
      <4>2. DEFINE done == [NoPush EXCEPT !.phase = "record", !.current = TRUE]
      <4>3. done \in Push /\ done.phase = "record"
        BY DEF NoPush, Push
      <4>4. push' = [q \in Pushers |-> IF q = p THEN done
                                      ELSE Outdated(push[q])]
        BY <2>2 DEF Send
      <4> HIDE DEF done
      <4> QED
        BY <4>1, <4>3, <4>4, PushFlags
    <3> QED
      BY <2>2, <3>2, <3>3, <3>4 DEF Send
  <2>3. CASE Refused(p)
    <3>1. DEFINE refused == [push[p] EXCEPT !.phase = "fetch", !.content = {}]
    <3>2. refused \in Push /\ refused.phase = "fetch"
      BY DEF Push
    <3>3. push' = [push EXCEPT ![p] = refused]
      BY <2>3 DEF Refused
    <3> HIDE DEF refused
    <3>4. push' \in [Pushers -> Push] /\ Carries'
      BY <3>2, <3>3
    <3> QED
      BY <2>3, <3>4 DEF Refused
  <2>4. CASE RecordVersion(p)
    BY <2>4 DEF RecordVersion, Page, Push, NoPush
  <2>5. CASE FinishPush(p)
    BY <2>5 DEF FinishPush, Page, PushState, Push, NoPush
  <2>6. CASE FetchTheirs(p)
    <3>1. DEFINE read == [push[p] EXCEPT !.phase = "read", !.content = {source}, !.current = TRUE]
    <3>2. read \in Push /\ read.phase = "read"
      BY DEF Push
    <3>3. push' = [push EXCEPT ![p] = read]
      BY <2>6 DEF FetchTheirs
    <3> HIDE DEF read
    <3>4. push' \in [Pushers -> Push] /\ Carries'
      BY <3>2, <3>3
    <3> QED
      BY <2>6, <3>4 DEF FetchTheirs
  <2>7. CASE ReadOurs(p)
    <3>1. DEFINE read == [push[p] EXCEPT !.phase = "store", !.kept = {page.content}]
    <3>2. /\ read \in Push /\ read.phase = "store" /\ read.kept = {page.content}
          /\ page.content \in Content
      BY DEF Push, Page
    <3>3. push' = [push EXCEPT ![p] = read]
      BY <2>7 DEF ReadOurs
    <3> HIDE DEF read
    <3>4. push' \in [Pushers -> Push] /\ Carries'
      BY <3>2, <3>3
    <3> QED
      BY <2>7, <3>4 DEF ReadOurs
  <2>8. CASE StoreConflict(p)
    <3>1. page' \in Page /\ (page'.state = "conflict" <=> page'.kept # {})
      BY <2>8 DEF StoreConflict, Page, PushState, Push
    <3>2. push' \in [Pushers -> Push] /\ Carries'
      <4>1. \A q \in Pushers : push[q] \in Push
        OBVIOUS
      <4>2. push' \in [Pushers -> Push]
            /\ \A q \in Pushers : push'[q] \in {NoPush, push[q], Noticed(push[q])}
        BY <2>8, <4>1, PushFlags, NothingTyped DEF StoreConflict
      <4> QED
        BY <4>1, <4>2, PushFlags, NothingTyped
    <3>3. sync' \in Sync /\ Listed'
      BY <2>8, SyncFlags DEF StoreConflict
    <3>4. unseen' \in BOOLEAN
      BY <2>8 DEF StoreConflict, Push
    <3> QED
      BY <2>8, <3>1, <3>2, <3>3, <3>4 DEF StoreConflict
  <2>9. CASE LeaveEdit(p)
    BY <2>9 DEF LeaveEdit, Push, NoPush
  <2> QED
    BY <1>2, <2>1, <2>2, <2>3, <2>4, <2>5, <2>6, <2>7, <2>8, <2>9 DEF PushStep
<1>3. CASE PushGoesStale
  BY <1>3 DEF PushGoesStale, Page
<1>4. CASE SyncStep
  <2>1. CASE StartSync
    BY <2>1 DEF StartSync, Sync, NoSync, Page, Content
  <2>2. CASE ListPage
    BY <2>2 DEF ListPage, Sync, Content
  <2>3. CASE FetchBody
    BY <2>3 DEF FetchBody, Sync
  <2>4. CASE StoreBody
    <3>1. page' \in Page /\ (page'.state = "conflict" <=> page'.kept # {})
      BY <2>4 DEF StoreBody, Page, Sync
    <3>2. push' \in [Pushers -> Push] /\ Carries'
      <4>1. \A q \in Pushers : push[q] \in Push
        OBVIOUS
      <4>2. push' \in [Pushers -> Push]
            /\ \A q \in Pushers : push'[q] \in {push[q], Noticed(push[q])}
        BY <2>4, <4>1, PushFlags DEF StoreBody
      <4> QED
        BY <4>1, <4>2, PushFlags
    <3>3. sync' \in Sync /\ Listed' /\ unseen' \in BOOLEAN
      BY <2>4 DEF StoreBody, Sync, NoSync, PushState
    <3> QED
      BY <2>4, <3>1, <3>2, <3>3 DEF StoreBody
  <2>5. CASE LeaveBody
    BY <2>5 DEF LeaveBody, Sync, NoSync, PushState
  <2>6. ASSUME NEW reformat \in BOOLEAN, WriteTree(reformat) PROVE Typed'
    <3>1. page' \in Page /\ (page'.state = "conflict" <=> page'.kept # {})
      <4>1. CASE sync.item = sync.title
        BY <2>6, <4>1 DEF WriteTree
      <4>2. CASE sync.item # sync.title
        <5>1. sync.item \in Titles
          BY <2>6 DEF WriteTree, Listed
        <5>2. page' = [page EXCEPT !.content.title = sync.item]
          BY <2>6, <4>2 DEF WriteTree
        <5> QED
          BY <5>1, <5>2 DEF Page, Content
      <4> QED
        BY <4>1, <4>2
    <3>2. sync' \in Sync /\ Listed'
      BY <2>6 DEF WriteTree, Sync, NoSync, PushState
    <3> QED
      BY <2>6, <3>1, <3>2 DEF WriteTree
  <2> QED
    BY <1>4, <2>1, <2>2, <2>3, <2>4, <2>5, <2>6 DEF SyncStep
<1>5. CASE UNCHANGED vars
  BY <1>5 DEF vars
<1> QED
  BY <1>1, <1>2, <1>3, <1>4, <1>5 DEF Next, Routine

\* Every variable of a mirrored page keeps its type, and a page in conflict is one
\* with an edit kept beside it.
THEOREM TypeCorrect == Spec => []TypeOK
<1>1. Spec => []Typed
  BY InitTyped, TypedStep, PTL DEF Spec
<1> QED
  BY <1>1, PTL DEF Typed

-----------------------------------------------------------------------------
(***************************************************************************)
(* The order of edits                                                      *)
(***************************************************************************)

LEMMA BehindStep == Typed /\ Typed' /\ Behind /\ [Next]_vars => Behind'
<1> SUFFICES ASSUME Typed, Typed', Behind, [Next]_vars, unseen'
             PROVE  /\ ~page'.current
                    /\ \A q \in Pushers : push'[q].phase \in {"send", "record"} => ~push'[q].current
  BY DEF Behind
<1> USE DEF Behind
<1>1. page \in Page /\ sync \in Sync /\ \A q \in Pushers : push[q] \in Push
  BY DEF Typed, TypeOK
<1>2. CASE Disturbance
  <2>1. ASSUME NEW c \in Content, RemoteEdit(c) PROVE Behind'
    BY <1>1, <2>1, PageFlags, PushFlags DEF RemoteEdit, SourceMoves
  <2>2. ASSUME NEW c \in Content, SaveContent(c) PROVE Behind'
    BY <1>1, <2>2, MovesTyped DEF SaveContent, Page
  <2>3. ASSUME NEW t \in Titles, SaveTitle(t) PROVE Behind'
    BY <1>1, <2>3 DEF SaveTitle, Page
  <2>4. ASSUME KeepSource PROVE Behind'
    BY <1>1, <2>4, MovesTyped DEF KeepSource, Page
  <2>5. ASSUME Overwrite PROVE Behind'
    BY <1>1, <2>5, MovesTyped DEF Overwrite, Page
  <2>6. ASSUME NEW p \in Pushers, PushLater(p) PROVE Behind'
    BY <1>1, <2>6, NothingTyped DEF PushLater, Page, Typed, TypeOK
  <2>7. ASSUME NEW p \in Pushers, CrashPush(p) PROVE Behind'
    BY <1>1, <2>7, NothingTyped DEF CrashPush, Typed, TypeOK
  <2>8. ASSUME SyncStops PROVE Behind'
    BY <2>8 DEF SyncStops
  <2> QED
    BY <1>2, <2>1, <2>2, <2>3, <2>4, <2>5, <2>6, <2>7, <2>8 DEF Disturbance
<1>3. ASSUME NEW p \in Pushers, PushStep(p) PROVE Behind'
  <2>1. CASE ClaimPush(p)
    <3>1. push' = [push EXCEPT ![p] = [NoPush EXCEPT
                     !.phase = "send", !.content = {page.content}, !.current = page.current]]
          /\ page'.current = page.current /\ unseen' = unseen
      BY <1>1, <2>1 DEF ClaimPush, Page
    <3>2. push'[p].current = page.current
      BY <3>1 DEF NoPush, Typed, TypeOK
    <3>3. \A q \in Pushers \ {p} : push'[q] = push[q]
      BY <3>1 DEF Typed, TypeOK
    <3> QED
      BY <3>1, <3>2, <3>3
  <2>2. CASE Send(p)
    BY <2>2 DEF Send
  <2>3. CASE Refused(p)
    BY <1>1, <2>3 DEF Refused, Typed, TypeOK, Push
  <2>4. CASE RecordVersion(p)
    <3>1. page'.current = push[p].current /\ unseen' = unseen
      BY <1>1, <2>4 DEF RecordVersion, Page
    <3>2. push'[p].phase = "finish" /\ \A q \in Pushers \ {p} : push'[q] = push[q]
      BY <2>4 DEF RecordVersion, NoPush, Typed, TypeOK
    <3> QED
      BY <2>4, <3>1, <3>2 DEF RecordVersion
  <2>5. CASE FinishPush(p)
    BY <1>1, <2>5, NothingTyped DEF FinishPush, Page, Typed, TypeOK
  <2>6. CASE FetchTheirs(p)
    BY <1>1, <2>6 DEF FetchTheirs, Push, Typed, TypeOK
  <2>7. CASE ReadOurs(p)
    BY <1>1, <2>7 DEF ReadOurs, Push, Typed, TypeOK
  <2>8. CASE StoreConflict(p)
    <3>1. page'.current = push[p].current
      BY <2>8 DEF StoreConflict
    <3>2. unseen /\ ~push[p].current
      BY <2>8, Zenon DEF StoreConflict
    <3>3. \A q \in Pushers : push'[q] \in {NoPush, push[q], Noticed(push[q])}
      BY <2>8 DEF StoreConflict
    <3> QED
      BY <1>1, <3>1, <3>2, <3>3, NothingTyped, PushFlags
  <2>9. CASE LeaveEdit(p)
    BY <1>1, <2>9, NothingTyped DEF LeaveEdit, Typed, TypeOK
  <2> QED
    BY <1>3, <2>1, <2>2, <2>3, <2>4, <2>5, <2>6, <2>7, <2>8, <2>9 DEF PushStep
<1>4. CASE PushGoesStale
  BY <1>1, <1>4 DEF PushGoesStale, Page
<1>5. CASE SyncStep
  <2>1. CASE StoreBody
    <3>1. PICK c \in sync.content : page' = [page EXCEPT !.content = c, !.current = sync.current]
      BY <2>1 DEF StoreBody
    <3>2. unseen /\ ~sync.current
      BY <2>1 DEF StoreBody
    <3>3. page'.current = sync.current
      BY <1>1, <3>1 DEF Page
    <3>4. \A q \in Pushers : push'[q] \in {push[q], Noticed(push[q])}
      BY <2>1 DEF StoreBody
    <3> QED
      BY <1>1, <3>2, <3>3, <3>4, PushFlags
  <2>2. ASSUME NEW reformat \in BOOLEAN, WriteTree(reformat) PROVE Behind'
    BY <1>1, <2>2 DEF WriteTree, Page
  <2> QED
    BY <1>5, <2>1, <2>2 DEF SyncStep, StartSync, ListPage, FetchBody, LeaveBody
<1>6. CASE UNCHANGED vars
  BY <1>6 DEF vars
<1> QED
  BY <1>2, <1>3, <1>4, <1>5, <1>6 DEF Next, Routine

\* A push leaves phase "send" for "record" by Send alone, which needs the source's
\* latest version.
LEMMA SeenStep ==
    Typed /\ Behind /\ [Next]_vars =>
        \A p \in Pushers : push[p].phase = "send" /\ push'[p].phase = "record" => ~unseen
<1> SUFFICES ASSUME Typed, Behind, [Next]_vars, NEW p \in Pushers,
                    push[p].phase = "send", push'[p].phase = "record"
             PROVE  push[p].current
  BY DEF Behind
<1>1. page \in Page /\ sync \in Sync /\ \A q \in Pushers : push[q] \in Push
  BY DEF Typed, TypeOK
<1>2. CASE Disturbance
  BY <1>1, <1>2, MovesTyped, PushFlags, NothingTyped
  DEF Disturbance, RemoteEdit, SaveContent, SaveTitle, KeepSource, Overwrite, PushLater,
      CrashPush, SyncStops, Typed, TypeOK
<1>3. ASSUME NEW q \in Pushers, PushStep(q) PROVE push[p].current
  <2>1. CASE Send(q)
    BY <1>1, <2>1, PushFlags DEF Send
  <2>2. CASE StoreConflict(q)
    <3>1. push'[p] \in {NoPush, push[p], Noticed(push[p])}
      BY <2>2 DEF StoreConflict
    <3> QED
      BY <1>1, <3>1, NothingTyped, PushFlags
  <2>3. CASE ClaimPush(q) \/ Refused(q) \/ RecordVersion(q)
    BY <1>1, <2>3 DEF ClaimPush, Refused, RecordVersion, NoPush, Push, Typed, TypeOK
  <2>4. CASE FinishPush(q) \/ FetchTheirs(q) \/ ReadOurs(q) \/ LeaveEdit(q)
    BY <1>1, <2>4, NothingTyped DEF FinishPush, FetchTheirs, ReadOurs, LeaveEdit, Push, Typed, TypeOK
  <2> QED
    BY <1>3, <2>1, <2>2, <2>3, <2>4 DEF PushStep
<1>4. CASE PushGoesStale
  BY <1>4 DEF PushGoesStale
<1>5. CASE SyncStep
  <2>1. push'[p] \in {push[p], Noticed(push[p])}
    BY <1>5 DEF SyncStep, StartSync, ListPage, FetchBody, StoreBody, LeaveBody, WriteTree
  <2> QED
    BY <1>1, <2>1, PushFlags
<1>6. CASE UNCHANGED vars
  BY <1>6 DEF vars
<1> QED
  BY <1>2, <1>3, <1>4, <1>5, <1>6 DEF Next, Routine

\* A push never replaces an edit of the source that the page did not show,
\* however many push loops there are.
THEOREM TheirsAreSeen == Spec => TheirsSeenFirst
<1>1. Init => Behind
  BY NothingTyped DEF Init, Behind, Page
<1>2. Typed /\ Behind /\ [Next]_vars => Typed' /\ Behind'
  BY TypedStep, BehindStep
<1>3. Typed /\ Behind /\ [Next]_vars =>
        [\A p \in Pushers : push[p].phase = "send" /\ push'[p].phase = "record" => ~unseen]_vars
  BY SeenStep
<1> QED
  BY <1>1, <1>2, <1>3, InitTyped, PTL DEF Spec, TheirsSeenFirst

-----------------------------------------------------------------------------
(***************************************************************************)
(* The survival of texts, with one push loop                               *)
(***************************************************************************)

\* Every step keeps the texts.
LEMMA KeptStep == OnePusher /\ Typed /\ KeptInv /\ [Next]_vars => KeptInv'
<1> SUFFICES ASSUME OnePusher, Typed, KeptInv, [Next]_vars PROVE KeptInv'
  OBVIOUS
<1> USE DEF KeptInv
<1>1. /\ page \in Page /\ sync \in Sync /\ \A q \in Pushers : push[q] \in Push
      /\ page.state = "conflict" <=> page.kept # {}
  BY DEF Typed, TypeOK
<1>2. CASE Disturbance
  <2>1. ASSUME NEW c \in Content, RemoteEdit(c) PROVE KeptInv'
    BY <1>1, <2>1, PageFlags, PushFlags, SyncFlags
    DEF RemoteEdit, SourceMoves, KeptText, Fetching, Faithful
  <2>2. ASSUME NEW c \in Content, SaveContent(c) PROVE KeptInv'
    <3>1. page'.state = "pending" /\ page'.content = c /\ page.state # "conflict"
      BY <1>1, <2>2 DEF SaveContent, Page
    <3>2. owed'.text = c.text
      BY <2>2 DEF SaveContent, Owes
    <3> QED
      BY <1>1, <2>2, <3>1, <3>2, MovesTyped DEF SaveContent, KeptText, Fetching, Faithful
  <2>3. ASSUME NEW t \in Titles, SaveTitle(t) PROVE KeptInv'
    <3>1. page'.state = "pending" /\ page'.content.text = page.content.text
          /\ page.state # "conflict"
      BY <1>1, <2>3 DEF SaveTitle, Page, Content
    <3>2. owed'.text = owed.text
      BY <1>1, <2>3 DEF SaveTitle, Owes, Page, Content
    <3> QED
      BY <2>3, <3>1, <3>2 DEF SaveTitle, KeptText, Fetching, Faithful
  <2>4. ASSUME KeepSource PROVE KeptInv'
    BY <1>1, <2>4, MovesTyped DEF KeepSource, Page, KeptText, Fetching, Faithful
  <2>5. ASSUME Overwrite PROVE KeptInv'
    <3>1. PICK c \in page.kept :
            page' = [page EXCEPT !.content = c, !.state = "pending", !.kept = {}]
      BY <2>5 DEF Overwrite
    <3>2. page'.state = "pending" /\ page'.content = c
      BY <1>1, <3>1 DEF Page
    <3> QED
      BY <2>5, <3>2, MovesTyped DEF Overwrite, KeptText, Fetching, Faithful
  <2>6. ASSUME NEW p \in Pushers, PushLater(p) PROVE KeptInv'
    <3>1. /\ page'.state = IF page.state = "pushing" THEN "pending" ELSE page.state
          /\ page'.content = page.content /\ page'.kept = page.kept
      BY <1>1, <2>6 DEF PushLater, Page
    <3> QED
      BY <2>6, <3>1 DEF PushLater, KeptText, Fetching, Faithful
  <2>7. ASSUME NEW p \in Pushers, CrashPush(p) PROVE KeptInv'
    BY <2>7, NothingTyped DEF CrashPush, KeptText, Fetching, Faithful, Typed, TypeOK
  <2>8. ASSUME SyncStops PROVE KeptInv'
    BY <2>8, NoSyncTyped DEF SyncStops, KeptText, Fetching, Faithful
  <2> QED
    BY <1>2, <2>1, <2>2, <2>3, <2>4, <2>5, <2>6, <2>7, <2>8 DEF Disturbance
<1>3. ASSUME NEW p \in Pushers, PushStep(p) PROVE KeptInv'
  <2> Pushers = {p}
    BY DEF OnePusher
  <2>1. CASE ClaimPush(p)
    <3>1. /\ page'.state = "pushing" /\ page.state \in {"pending", "pushing"}
          /\ page'.content = page.content
      BY <1>1, <2>1 DEF ClaimPush, Page
    <3>2. push'[p].phase = "send" /\ push'[p].content = {page.content}
      BY <2>1 DEF ClaimPush, NoPush, Typed, TypeOK
    <3> QED
      BY <2>1, <3>1, <3>2 DEF ClaimPush, KeptText, Fetching, Faithful
  <2>2. CASE Send(p)
    <3>1. PICK c \in push[p].content : SourceMoves(c) /\ owed' = Delivered(c)
      BY <2>2 DEF Send
    <3>2. /\ page'.state = page.state /\ page'.content = page.content
          /\ page'.kept = page.kept /\ sync'.phase = sync.phase /\ sync'.state = sync.state
      BY <1>1, <3>1, PageFlags, SyncFlags DEF SourceMoves
    <3>3. owed'.text \in {None, owed.text} /\ (owed.text = c.text => owed'.text = None)
      BY <3>1 DEF Delivered
    <3>4. page.state = "pushing" => owed'.text = None
      BY <1>1, <2>2, <3>3 DEF Send, Faithful, KeptText
    <3>5. push'[p].phase = "record"
      BY <2>2 DEF Send, NoPush
    <3> QED
      BY <3>2, <3>3, <3>4, <3>5 DEF KeptText, Fetching, Faithful
  <2>3. CASE Refused(p)
    BY <1>1, <2>3 DEF Refused, Push, KeptText, Fetching, Faithful, Typed, TypeOK
  <2>4. CASE RecordVersion(p)
    <3>1. /\ page'.state = page.state /\ page'.content = page.content
          /\ page'.kept = page.kept
      BY <1>1, <2>4 DEF RecordVersion, Page
    <3>2. push'[p].phase = "finish"
      BY <2>4 DEF RecordVersion, NoPush, Typed, TypeOK
    <3> QED
      BY <2>4, <3>1, <3>2 DEF RecordVersion, KeptText, Fetching, Faithful
  <2>5. CASE FinishPush(p)
    <3>1. /\ page'.state = IF page.state = "pushing" THEN "none" ELSE page.state
          /\ page'.content = page.content /\ page'.kept = page.kept
      BY <1>1, <2>5 DEF FinishPush, Page
    <3>2. page.state = "pushing" => owed.text = None
      BY <2>5 DEF FinishPush, Faithful
    <3> QED
      BY <2>5, <3>1, <3>2 DEF FinishPush, KeptText, Fetching, Faithful
  <2>6. CASE FetchTheirs(p)
    BY <1>1, <2>6 DEF FetchTheirs, Push, KeptText, Fetching, Faithful, Typed, TypeOK
  <2>7. CASE ReadOurs(p)
    BY <1>1, <2>7 DEF ReadOurs, Push, KeptText, Fetching, Faithful, Typed, TypeOK
  <2>8. CASE StoreConflict(p)
    <3>1. page'.state = "conflict" /\ page'.kept = push[p].kept /\ page.state = "pushing"
      BY <2>8 DEF StoreConflict
    <3>2. owed.text # None => \A c \in push[p].kept : c.text = owed.text
      BY <2>8, <3>1 DEF StoreConflict, Faithful, KeptText
    <3>3. sync'.phase = sync.phase /\ sync'.state = sync.state /\ owed' = owed
      BY <1>1, <2>8, SyncFlags DEF StoreConflict
    <3> QED
      BY <3>1, <3>2, <3>3 DEF KeptText, Fetching, Faithful
  <2>9. CASE LeaveEdit(p)
    BY <2>9, NothingTyped DEF LeaveEdit, KeptText, Fetching, Faithful, Typed, TypeOK
  <2> QED
    BY <1>3, <2>1, <2>2, <2>3, <2>4, <2>5, <2>6, <2>7, <2>8, <2>9 DEF PushStep
<1>4. CASE PushGoesStale
  <2>1. /\ page'.state = page.state /\ page'.content = page.content
        /\ page'.kept = page.kept
    BY <1>1, <1>4 DEF PushGoesStale, Page
  <2> QED
    BY <1>4, <2>1 DEF PushGoesStale, KeptText, Fetching, Faithful
<1>5. CASE SyncStep
  <2>1. CASE StartSync \/ ListPage
    <3>1. sync'.phase \in {"list", "tree"}
      BY <1>1, <2>1 DEF StartSync, ListPage, Sync, NoSync
    <3> QED
      BY <2>1, <3>1 DEF StartSync, ListPage, KeptText, Fetching, Faithful
  <2>2. ASSUME NEW reformat \in BOOLEAN, WriteTree(reformat) PROVE KeptInv'
    <3>1. /\ page'.state = page.state /\ page'.content.text = page.content.text
          /\ page'.kept = page.kept
      BY <1>1, <2>2 DEF WriteTree, Page, Content
    <3>2. Fetching'
      <4>1. CASE Wanted(reformat)
        BY <1>1, <2>2, <4>1 DEF WriteTree, Wanted, Fetching, Sync, PushState
      <4>2. CASE ~Wanted(reformat)
        BY <2>2, <4>2, NoSyncTyped DEF WriteTree, Fetching
      <4> QED
        BY <4>1, <4>2
    <3> QED
      BY <2>2, <3>1, <3>2 DEF WriteTree, KeptText, Faithful
  <2>3. CASE FetchBody
    BY <1>1, <2>3 DEF FetchBody, Sync, KeptText, Fetching, Faithful
  <2>4. CASE StoreBody
    <3>1. PICK c \in sync.content : page' = [page EXCEPT !.content = c, !.current = sync.current]
      BY <2>4 DEF StoreBody
    <3>2. page'.state = page.state /\ page'.kept = page.kept
      BY <1>1, <3>1 DEF Page
    <3>3. page.state \in {"none", "conflict"}
      BY <2>4 DEF StoreBody, AsExpected, Fetching
    <3> QED
      BY <2>4, <3>2, <3>3, NoSyncTyped DEF StoreBody, KeptText, Fetching, Faithful
  <2>5. CASE LeaveBody
    BY <2>5, NoSyncTyped DEF LeaveBody, KeptText, Fetching, Faithful
  <2> QED
    BY <1>5, <2>1, <2>2, <2>3, <2>4, <2>5 DEF SyncStep
<1>6. CASE UNCHANGED vars
  BY <1>6 DEF vars, KeptText, Fetching, Faithful
<1> QED
  BY <1>2, <1>3, <1>4, <1>5, <1>6 DEF Next, Routine

\* With one push loop, a text saved here is on the page and on its way, or kept
\* beside a conflict, until it has reached the source or its user gave it up.
THEOREM TextsSurvive == OnePusher => (Spec => []TextKept)
<1> SUFFICES ASSUME OnePusher PROVE Spec => []TextKept
  OBVIOUS
<1>1. Init => KeptInv
  BY NothingTyped DEF Init, KeptInv, KeptText, Fetching, Faithful, NoSync
<1>2. Typed /\ KeptInv /\ [Next]_vars => Typed' /\ KeptInv'
  BY TypedStep, KeptStep
<1>3. Typed /\ KeptInv => TextKept
  BY DEF Typed, TypeOK, KeptInv, KeptText, TextKept
<1> QED
  BY <1>1, <1>2, <1>3, InitTyped, PTL DEF Spec
-----------------------------------------------------------------------------
(***************************************************************************)
(* The components MCDocuments runs beside DocPush                          *)
(***************************************************************************)

Parts == INSTANCE DocumentParts WITH count <- c1, ask <- c2, conv <- c3, bill <- c4

\* Chat's definitions are those the proofs are about.
LEMMA SameChat ==
    /\ Chat!Windows = Parts!Windows /\ Chat!Missing = Parts!Missing
    /\ Chat!Plan = Parts!Plan /\ Chat!Kinds = Parts!Kinds
    /\ Chat!Idle = Parts!Idle
    /\ \A w : (Chat!Room(w) <=> Parts!Room(w)) /\ (Chat!Counted(w) <=> Parts!Counted(w))
    /\ \A a : Chat!Window(a) = Parts!Window(a) /\ (Chat!Over(a) <=> Parts!Over(a))
    /\ \A a, pc : Chat!Goto(a, pc) <=> Parts!Goto(a, pc)
    /\ \A a : Chat!LookingIsOver(a) <=> Parts!LookingIsOver(a)
    /\ \A S : Chat!Min(S) = Parts!Min(S)
<1>1. Chat!Windows = Parts!Windows /\ Chat!Missing = Parts!Missing /\ Chat!Plan = Parts!Plan
  BY DEF Chat!Windows, Parts!Windows, Chat!Missing, Parts!Missing, Chat!Plan, Parts!Plan
<1>2. Chat!Kinds = Parts!Kinds
  BY <1>1 DEF Chat!Kinds, Parts!Kinds
<1>3. Chat!Idle = Parts!Idle
  BY DEF Chat!Idle, Parts!Idle
<1>4. \A w : (Chat!Room(w) <=> Parts!Room(w)) /\ (Chat!Counted(w) <=> Parts!Counted(w))
  BY <1>1 DEF Chat!Room, Parts!Room, Chat!Counted, Parts!Counted
<1>5. \A a, pc : Chat!Goto(a, pc) <=> Parts!Goto(a, pc)
  BY DEF Chat!Goto, Parts!Goto
<1>6. \A a : Chat!Window(a) = Parts!Window(a) /\ (Chat!Over(a) <=> Parts!Over(a))
  BY <1>1, <1>5 DEF Chat!Window, Parts!Window, Chat!Over, Parts!Over
<1>7. \A a : Chat!LookingIsOver(a) <=> Parts!LookingIsOver(a)
  BY DEF Chat!LookingIsOver, Parts!LookingIsOver
<1>8. \A S : Chat!Min(S) = Parts!Min(S)
  BY DEF Chat!Min, Parts!Min
<1> QED
  BY <1>1, <1>2, <1>3, <1>4, <1>5, <1>6, <1>7, <1>8

LEMMA ChatActions ==
    ASSUME NEW a \in Asks
    PROVE  /\ Chat!TakeWindow(a) => Parts!TakeWindow(a)
           /\ Chat!GiveBack(a) => Parts!GiveBack(a)
           /\ Chat!NextCall(a) => Parts!NextCall(a)
           /\ Chat!Post(a) => Parts!Post(a)
           /\ Chat!Stream(a) => Parts!Stream(a)
           /\ Chat!RecordBilled(a) => Parts!RecordBilled(a)
           /\ Chat!StopLooking(a) => Parts!StopLooking(a)
           /\ Chat!Answer(a) => Parts!Answer(a)
           /\ Chat!Save(a) => Parts!Save(a)
           /\ Chat!Stop(a) => Parts!Stop(a)
           /\ \A k, old : Chat!Begin(a, k, old) => Parts!Begin(a, k, old)
           /\ \A n : Chat!LookUp(a, n) => Parts!LookUp(a, n)
<1>1. Chat!TakeWindow(a) => Parts!TakeWindow(a)
  BY SameChat DEF Chat!TakeWindow, Parts!TakeWindow
<1>2. Chat!GiveBack(a) => Parts!GiveBack(a)
  BY DEF Chat!GiveBack, Parts!GiveBack, Chat!Plan, Parts!Plan, Chat!Windows, Parts!Windows
<1>3. Chat!NextCall(a) => Parts!NextCall(a)
  BY SameChat DEF Chat!NextCall, Parts!NextCall
<1>4. Chat!Post(a) => Parts!Post(a)
  BY SameChat DEF Chat!Post, Parts!Post
<1>5. Chat!Stream(a) => Parts!Stream(a)
  BY SameChat DEF Chat!Stream, Parts!Stream
<1>6. (Chat!RecordBilled(a) => Parts!RecordBilled(a)) /\ (Chat!StopLooking(a) => Parts!StopLooking(a))
  BY DEF Chat!RecordBilled, Parts!RecordBilled, Chat!StopLooking, Parts!StopLooking
<1>7. (Chat!Answer(a) => Parts!Answer(a)) /\ (Chat!Save(a) => Parts!Save(a))
  BY SameChat DEF Chat!Answer, Parts!Answer, Chat!Save, Parts!Save
<1>8. Chat!Stop(a) => Parts!Stop(a)
  BY SameChat DEF Chat!Stop, Parts!Stop
<1>9. \A k, old : Chat!Begin(a, k, old) => Parts!Begin(a, k, old)
  BY DEF Chat!Begin, Parts!Begin
<1>10. \A n : Chat!LookUp(a, n) => Parts!LookUp(a, n)
  BY SameChat DEF Chat!LookUp, Parts!LookUp
<1> QED
  BY <1>1, <1>2, <1>3, <1>4, <1>5, <1>6, <1>7, <1>8, <1>9, <1>10

LEMMA ChatMoves == ChatNext => Parts!Next
<1> SUFFICES ASSUME ChatNext PROVE Parts!Next
  OBVIOUS
<1>1. CASE \E a \in Asks :
              \/ Chat!TakeWindow(a) \/ Chat!GiveBack(a) \/ Chat!NextCall(a) \/ Chat!Post(a) \/ Chat!Stream(a)
              \/ Chat!RecordBilled(a) \/ Chat!StopLooking(a) \/ Chat!Answer(a) \/ Chat!Save(a) \/ Chat!Stop(a)
  BY <1>1, ChatActions DEF Parts!Next
<1>2. CASE \E a \in Asks, k \in Chat!Kinds, saved \in BOOLEAN : Chat!Begin(a, k, saved)
  BY <1>2, ChatActions, SameChat DEF Parts!Next
<1>3. CASE \E a \in Asks, n \in 1..(MaxPerRound + 1) : Chat!LookUp(a, n)
  BY <1>3, ChatActions DEF Parts!Next
<1>4. CASE Chat!DeleteConversation
  BY <1>4 DEF Parts!Next, Chat!DeleteConversation, Parts!DeleteConversation
<1> QED
  BY <1>1, <1>2, <1>3, <1>4 DEF ChatNext

LEMMA ChatPromise ==
    Parts!TypeOK /\ Parts!BudgetHolds /\ Parts!AnswersSaved => Chat!TypeOK /\ Chat!BudgetHolds /\ Chat!AnswersSaved
<1>0. \A S : Chat!Cardinality(S) = Parts!Cardinality(S)
  BY DEF Chat!Cardinality, Parts!Cardinality, Chat!IsFiniteSet, Parts!IsFiniteSet
<1>1. Parts!TypeOK => Chat!TypeOK
  BY <1>0, SameChat DEF Chat!TypeOK, Parts!TypeOK
<1>2. \A w, a : Chat!Takes(w, a) = Parts!Takes(w, a)
  BY SameChat DEF Chat!Takes, Parts!Takes
<1>3. \A w : Chat!Held(w) = Parts!Held(w)
  BY <1>2 DEF Chat!Held, Parts!Held
<1>4. Parts!BudgetHolds => Chat!BudgetHolds
  BY <1>0, <1>2, <1>3, SameChat DEF Chat!BudgetHolds, Parts!BudgetHolds
<1>5. Parts!AnswersSaved => Chat!AnswersSaved
  BY <1>0 DEF Chat!AnswersSaved, Parts!AnswersSaved
<1> QED
  BY <1>1, <1>4, <1>5

\* core/rate_limit.py, usage/service.py, chat/service.py: whatever asks race, fail or
\* stop, a window counts what it let through and no more than its limit, a call is made
\* within the budget and billed once, and a conversation holds the pairs it was told of.
THEOREM ChatKeepsItsWord == ASSUME Parts!ChatConstants PROVE MCSpec => []ChatSafe
<1> DEFINE I == part = "chat" => Parts!ChatInv
<1>1. MCInit => I
  <2>1. Chat!Init => Parts!Init
    BY SameChat DEF Chat!Init, Parts!Init
  <2>2. MCInit /\ part = "chat" => Chat!Init
    BY DEF MCInit
  <2> QED
    BY <2>1, <2>2, Parts!ChatStarts
<1>2. I /\ [MCNext]_allVars => I'
  <2> SUFFICES ASSUME I, [MCNext]_allVars PROVE I'
    OBVIOUS
  <2>1. CASE UNCHANGED allVars
    <3>1. part' = part /\ UNCHANGED Parts!vars
      BY <2>1 DEF allVars, ofShared, Parts!vars
    <3> QED
      BY <3>1, Parts!ChatSteps
  <2>2. CASE ChatNext
    <3>1. part = "chat" /\ part' = part
      BY <2>2 DEF ChatNext, InChat
    <3> QED
      BY <2>2, <3>1, ChatMoves, Parts!ChatSteps
  <2>3. CASE DocPushNext \/ TreeNext \/ MirrorNext \/ LookupsNext \/ ChecksNext \/ StoresNext \/ FormatsNext
    <3>1. part # "chat" /\ part' = part
      <4>1. CASE DocPushNext
        BY <4>1 DEF DocPushNext, InDocPush
      <4>2. CASE TreeNext \/ MirrorNext
        BY <4>2 DEF TreeNext, InTree, MirrorNext, InMirror
      <4>3. CASE LookupsNext \/ ChecksNext
        BY <4>3 DEF LookupsNext, InLookups, ChecksNext, InChecks
      <4>4. CASE StoresNext
        BY <4>4 DEF StoresNext, InStores
      <4>5. CASE FormatsNext
        BY <4>5 DEF FormatsNext, InFormats
      <4> QED
        BY <2>3, <4>1, <4>2, <4>3, <4>4, <4>5
    <3> QED
      BY <3>1
  <2> QED
    BY <2>1, <2>2, <2>3 DEF MCNext
<1>3. I => ChatSafe
  BY Parts!ChatHolds, ChatPromise DEF ChatSafe
<1> QED
  BY <1>1, <1>2, <1>3, PTL DEF MCSpec

-----------------------------------------------------------------------------
(***************************************************************************)
(* The composition: DecisionChecks                                         *)
(***************************************************************************)

Reviews == INSTANCE DecisionProofs WITH Sources <- {Later, Quoted}, Decisions <- {Decided, Earlier}, Texts <- {1, 2, 3},
  Passages <- {Passage, Other}, Says <- Says, Near <- {<<Later, Decided>>}, Names <- {<<Later, Quoted>>}, Linked <- {},
  Checks <- {"c1", "c2"}, Requests <- {"c2"}, MaxEvidence <- 2, MaxTries <- 1, EmbeddingsOn <- TRUE, MaxSimilar <- 1,
  MaxPerSource <- 1, ScanLimit <- 1, SlowRuns <- FALSE, MaxCrashes <- 0,
  text <- c1, dec <- c2, lease <- c3, due <- c4, read <- c5, embedded <- c6, task <- c7, crashes <- c8, owed <- c9, missed <- c10,
  scanned <- c11, created <- c12

\* The instance has what the proofs ask of the constants.
LEMMA ReviewConstants == ASSUME None \notin {1, 2, 3} PROVE Reviews!CheckConstants
<1>1. \A x \in {1, 2, 3} : Says[x] \subseteq {Passage, Other}
  BY DEF Says
<1>2. \A x \in {1, 2, 3} : x \in Nat /\ 1 <= x
  OBVIOUS
<1>3. {<<Later, Decided>>} \subseteq {Later, Quoted} \X {Decided, Earlier}
  OBVIOUS
<1>4. 1 \in Nat /\ 2 \in Nat
  OBVIOUS
<1> QED
  BY <1>1, <1>2, <1>3, <1>4 DEF Reviews!CheckConstants

LEMMA SameChecks ==
    /\ Reviewing!Idle = Reviews!Idle /\ Reviewing!Tasks = Reviews!Tasks /\ Reviewing!Statuses = Reviews!Statuses
    /\ Reviewing!Accepted = Reviews!Accepted
    /\ \A f : Reviewing!Range(f) = Reviews!Range(f)
    /\ \A d : Reviewing!Evidence(d) = Reviews!Evidence(d)
    /\ \A t : (Reviewing!Inside(t) <=> Reviews!Inside(t)) /\ (Reviewing!Over(t) <=> Reviews!Over(t))
    /\ \A t, pc : Reviewing!Goto(t, pc) <=> Reviews!Goto(t, pc)
    /\ \A d : Reviewing!NeedsAttention(d) <=> Reviews!NeedsAttention(d)
<1>1. Reviewing!Idle = Reviews!Idle
  BY DEF Reviewing!Idle, Reviews!Idle
<1>2. Reviewing!Tasks = Reviews!Tasks /\ Reviewing!Statuses = Reviews!Statuses
  BY DEF Reviewing!Tasks, Reviews!Tasks, Reviewing!Statuses, Reviews!Statuses
<1>3. Reviewing!Accepted = Reviews!Accepted
  BY DEF Reviewing!Accepted, Reviews!Accepted
<1>4. \A f : Reviewing!Range(f) = Reviews!Range(f)
  BY DEF Reviewing!Range, Reviews!Range
<1>5. \A d : Reviewing!Evidence(d) = Reviews!Evidence(d)
  BY <1>4 DEF Reviewing!Evidence, Reviews!Evidence
<1>6. \A t : Reviewing!Inside(t) <=> Reviews!Inside(t)
  BY DEF Reviewing!Inside, Reviews!Inside
<1>7. \A t : Reviewing!Over(t) <=> Reviews!Over(t)
  BY <1>1 DEF Reviewing!Over, Reviews!Over
<1>8. \A t, pc : Reviewing!Goto(t, pc) <=> Reviews!Goto(t, pc)
  BY DEF Reviewing!Goto, Reviews!Goto
<1>9. \A e : Reviewing!Broken(e) <=> Reviews!Broken(e)
  BY DEF Reviewing!Broken, Reviews!Broken
<1>10. \A d : Reviewing!NeedsAttention(d) <=> Reviews!NeedsAttention(d)
  BY <1>5, <1>9 DEF Reviewing!NeedsAttention, Reviews!NeedsAttention
<1> QED
  BY <1>1, <1>2, <1>3, <1>4, <1>5, <1>6, <1>7, <1>8, <1>10

LEMMA SameOf ==
    /\ \A s, related : Reviewing!Of(s, related) = Reviews!Of(s, related)
    /\ \A S : Reviewing!Cardinality(S) = Reviews!Cardinality(S)
<1>1. \A s, related : Reviewing!Of(s, related) = Reviews!Of(s, related)
  BY DEF Reviewing!Of, Reviews!Of
<1>2. \A S : Reviewing!Cardinality(S) = Reviews!Cardinality(S)
  BY DEF Reviewing!Cardinality, Reviews!Cardinality, Reviewing!IsFiniteSet, Reviews!IsFiniteSet
<1> QED
  BY <1>1, <1>2

LEMMA SameFilled == \A vectors, some : Reviewing!Filled(vectors, some) = Reviews!Filled(vectors, some)
BY DEF Reviewing!Filled, Reviews!Filled

LEMMA SameQuoted == \A snap : Reviewing!Quoted(snap) = Reviews!Quoted(snap)
BY DEF Reviewing!Quoted, Reviews!Quoted

LEMMA SameTuples ==
    /\ Reviewing!window = Reviews!window /\ Reviewing!window' = Reviews!window'
    /\ Reviewing!history = Reviews!history /\ Reviewing!history' = Reviews!history'
BY DEF Reviewing!window, Reviews!window, Reviewing!history, Reviews!history

LEMMA SameUnborn == Reviewing!Unborn = Reviews!Unborn
BY DEF Reviewing!Unborn, Reviews!Unborn

LEMMA SameEmbed ==
    ASSUME NEW t
    PROVE  Reviewing!Embed(t) => Reviews!Embed(t)
<1>1. \A relation, snap : Reviewing!From(relation, snap) = Reviews!From(relation, snap)
  BY SameQuoted DEF Reviewing!From, Reviews!From
<1>2. \A edited, snap : Reviewing!Mentioning(edited, snap) = Reviews!Mentioning(edited, snap)
  BY SameQuoted DEF Reviewing!Mentioning, Reviews!Mentioning
<1>3. \A s, x, snap : Reviewing!Unread(s, x, snap) <=> Reviews!Unread(s, x, snap)
  BY DEF Reviewing!Unread, Reviews!Unread
<1>4. \A related, n : Reviewing!Cut(related, n) = Reviews!Cut(related, n)
  BY SameOf DEF Reviewing!Cut, Reviews!Cut
<1>5. \A edited, snap : Reviewing!Similar(edited, snap) = Reviews!Similar(edited, snap)
  BY <1>4 DEF Reviewing!Similar, Reviews!Similar
<1>6. \A related, order : Reviewing!Strongest(related, order) = Reviews!Strongest(related, order)
  BY <1>4 DEF Reviewing!Strongest, Reviews!Strongest
<1>7. \A f : Reviewing!Range(f) = Reviews!Range(f)
  BY SameChecks
<1> DEFINE text_of(s) == IF s \in DOMAIN c7[t].found THEN c7[t].found[s] ELSE c1[s]
           by_one(near) == <<Reviewing!Quoted(c7[t].snap), Reviewing!From({}, c7[t].snap),
                             Reviewing!From({<<Later, Quoted>>}, c7[t].snap) \cup Reviewing!Mentioning(c7[t].edited, c7[t].snap), near>>
           by_other(near) == <<Reviews!Quoted(c7[t].snap), Reviews!From({}, c7[t].snap),
                               Reviews!From({<<Later, Quoted>>}, c7[t].snap) \cup Reviews!Mentioning(c7[t].edited, c7[t].snap), near>>
           in_one(near) == {q \in UNION Reviewing!Range(by_one(near)) : Reviewing!Unread(q[1], text_of(q[1]), c7[t].snap)}
           in_other(near) == {q \in UNION Reviews!Range(by_other(near)) : Reviews!Unread(q[1], text_of(q[1]), c7[t].snap)}
           as_one(stored) == [s \in {Later, Quoted} |-> IF s \in stored THEN c7[t].found[s] ELSE c6[s]]
<1>8. ASSUME NEW near
      PROVE  by_one(near) = by_other(near)
  BY <1>1, <1>2, SameQuoted
<1>9. ASSUME NEW near
      PROVE  in_one(near) = in_other(near)
  <2>1. UNION Reviewing!Range(by_one(near)) = UNION Reviews!Range(by_other(near))
    BY <1>7, <1>8
  <2> HIDE DEF by_one, by_other, text_of
  <2> QED
    BY <1>3, <2>1
<1>10. SUFFICES ASSUME Reviewing!Embed(t) PROVE Reviews!Embed(t)
  OBVIOUS
<1>11. PICK stored \in SUBSET c7[t].edited, near \in Reviewing!Similar(c7[t].edited, c7[t].snap) \cup {{}}, some \in SUBSET {Later, Quoted} :
         /\ near # {} => stored = c7[t].edited
         /\ c6' = Reviewing!Filled(as_one(stored), some)
         /\ \E todo \in Reviewing!Strongest({<<p[1], p[2], text_of(p[1])>> : p \in in_one(near)}, by_one(near)) :
              c7' = [c7 EXCEPT ![t].pc = "next", ![t].todo = todo]
  BY <1>10 DEF Reviewing!Embed
<1>12. c7[t].pc = "embed" /\ UNCHANGED <<c1, c2, c3, Reviews!window, c5, Reviews!history, c8>>
  BY <1>10, SameTuples DEF Reviewing!Embed
<1>13. near \in Reviews!Similar(c7[t].edited, c7[t].snap) \cup {{}}
  BY <1>5, <1>11
<1>14. c6' = Reviews!Filled(as_one(stored), some)
  BY <1>11, SameFilled
<1>15. \E todo \in Reviews!Strongest({<<p[1], p[2], text_of(p[1])>> : p \in in_other(near)}, by_other(near)) :
         c7' = [c7 EXCEPT ![t].pc = "next", ![t].todo = todo]
  <2> HIDE DEF in_one, in_other, by_one, by_other, text_of
  <2>1. in_one(near) = in_other(near) /\ by_one(near) = by_other(near)
    BY <1>8, <1>9
  <2> QED
    BY <1>6, <1>11, <2>1
<1> QED
  BY <1>11, <1>12, <1>13, <1>14, <1>15 DEF Reviews!Embed

LEMMA CheckActions ==
    ASSUME NEW t
    PROVE  /\ Reviewing!Claim(t) => Reviews!Claim(t)
           /\ Reviewing!Compare(t) => Reviews!Compare(t)
           /\ Reviewing!StoreAttention(t) => Reviews!StoreAttention(t)
           /\ Reviewing!Look(t) => Reviews!Look(t)
           /\ Reviewing!Changed(t) => Reviews!Changed(t)
           /\ Reviewing!Embed(t) => Reviews!Embed(t)
           /\ Reviewing!TakeCheck(t) => Reviews!TakeCheck(t)
           /\ Reviewing!Ask(t) => Reviews!Ask(t)
           /\ Reviewing!Cite(t) => Reviews!Cite(t)
           /\ Reviewing!ReadDecision(t) => Reviews!ReadDecision(t)
           /\ Reviewing!AddEvidence(t) => Reviews!AddEvidence(t)
           /\ Reviewing!Record(t) => Reviews!Record(t)
           /\ Reviewing!End(t) => Reviews!End(t)
           /\ Reviewing!Release(t) => Reviews!Release(t)
           /\ Reviewing!Fail(t) => Reviews!Fail(t)
           /\ Reviewing!RefreshVector(t) => Reviews!RefreshVector(t)
           /\ \A s : Reviewing!Suggest(t, s) => Reviews!Suggest(t, s)
           /\ \A d : Reviewing!ScanAccepted(t, d) => Reviews!ScanAccepted(t, d)
           /\ \A d, s, q, against : Reviewing!AskToAdd(t, d, s, q, against) => Reviews!AskToAdd(t, d, s, q, against)
<1>1. (Reviewing!Claim(t) => Reviews!Claim(t)) /\ (Reviewing!Release(t) => Reviews!Release(t))
  BY SameChecks, SameTuples DEF Reviewing!Claim, Reviews!Claim, Reviewing!Release, Reviews!Release
<1>2. Reviewing!Compare(t) => Reviews!Compare(t)
  <2>1. \A d : Reviewing!NeedsAttention(d) = Reviews!NeedsAttention(d)
    <3>1. \A e : Reviewing!Broken(e) <=> Reviews!Broken(e)
      BY DEF Reviewing!Broken, Reviews!Broken
    <3> QED
      BY <3>1, SameChecks DEF Reviewing!NeedsAttention, Reviews!NeedsAttention
  <2>2. \A S : {<<d, Reviewing!NeedsAttention(d)>> : d \in S} = {<<d, Reviews!NeedsAttention(d)>> : d \in S}
    BY <2>1
  <2>3. Reviewing!Accepted = Reviews!Accepted /\ (Reviewing!Inside(t) <=> Reviews!Inside(t))
    BY SameChecks
  <2> QED
    BY <2>2, <2>3, SameTuples DEF Reviewing!Compare, Reviews!Compare
<1>3. Reviewing!StoreAttention(t) => Reviews!StoreAttention(t)
  BY SameChecks, SameTuples DEF Reviewing!StoreAttention, Reviews!StoreAttention
<1>4. Reviewing!Look(t) => Reviews!Look(t)
  <2>1. Reviewing!Accepted = Reviews!Accepted /\ \A d : Reviewing!Evidence(d) = Reviews!Evidence(d)
    BY SameChecks
  <2>2. [d \in Reviewing!Accepted |-> Reviewing!Evidence(d)] = [d \in Reviews!Accepted |-> Reviews!Evidence(d)]
    BY <2>1
  <2>3. {Reviewing!Evidence(d) : d \in Reviewing!Accepted} = {Reviews!Evidence(d) : d \in Reviews!Accepted}
    BY <2>1
  <2> QED
    BY <2>2, <2>3, SameTuples DEF Reviewing!Look, Reviews!Look
<1>5. Reviewing!Changed(t) => Reviews!Changed(t)
  <2>1. \A written : Reviewing!Edited(written) = Reviews!Edited(written)
    BY DEF Reviewing!Edited, Reviews!Edited
  <2> QED
    BY <2>1, SameTuples DEF Reviewing!Changed, Reviews!Changed
<1>6. Reviewing!TakeCheck(t) => Reviews!TakeCheck(t)
  BY SameQuoted, SameTuples DEF Reviewing!TakeCheck, Reviews!TakeCheck
<1>7. Reviewing!Ask(t) => Reviews!Ask(t)
  BY SameChecks, SameTuples DEF Reviewing!Ask, Reviews!Ask
<1>8. Reviewing!Cite(t) => Reviews!Cite(t)
  BY SameChecks, SameTuples DEF Reviewing!Cite, Reviews!Cite
<1>9. Reviewing!ReadDecision(t) => Reviews!ReadDecision(t)
  BY SameChecks, SameTuples DEF Reviewing!ReadDecision, Reviews!ReadDecision
<1>10. Reviewing!AddEvidence(t) => Reviews!AddEvidence(t)
  <2>1. \A k : Reviewing!NewEvidence(k) = Reviews!NewEvidence(k)
    BY DEF Reviewing!NewEvidence, Reviews!NewEvidence
  <2>2. \A q, s : Reviewing!WithSources(q, s) = Reviews!WithSources(q, s)
    BY SameChecks DEF Reviewing!WithSources, Reviews!WithSources
  <2>3. Reviewing!Put(t) <=> Reviews!Put(t)
    BY <2>1, <2>2, SameChecks DEF Reviewing!Put, Reviews!Put
  <2> QED
    BY <2>3, SameChecks, SameTuples DEF Reviewing!AddEvidence, Reviews!AddEvidence
<1>11. Reviewing!Record(t) => Reviews!Record(t)
  BY SameChecks, SameOf, SameTuples DEF Reviewing!Record, Reviews!Record
<1>12. (Reviewing!End(t) => Reviews!End(t)) /\ (Reviewing!Fail(t) => Reviews!Fail(t))
  BY SameChecks, SameUnborn, SameTuples DEF Reviewing!End, Reviews!End, Reviewing!Finish, Reviews!Finish, Reviewing!Fail, Reviews!Fail
<1>13. \A d : Reviewing!ScanAccepted(t, d) => Reviews!ScanAccepted(t, d)
  <2> SUFFICES ASSUME NEW d, Reviewing!ScanAccepted(t, d) PROVE Reviews!ScanAccepted(t, d)
    OBVIOUS
  <2> DEFINE quoting == {e.src : e \in Reviews!Evidence(d)}
             near == ({s \in {Later, Quoted} : \E w \in quoting : <<s, w>> \in {<<Later, Quoted>>}}
                      \cup {s \in {Later, Quoted} : TRUE /\ <<s, d>> \in {<<Later, Decided>>}}) \ quoting
  <2>1. Reviewing!Evidence(d) = Reviews!Evidence(d)
    BY SameChecks
  <2>2. PICK close \in SUBSET near :
          /\ Reviewing!Cardinality(close) <= 1
          /\ c7' = [c7 EXCEPT ![t] = [Reviewing!Idle EXCEPT !.pc = "next", !.kind = "scan", !.snap = [x \in {d} |-> Reviewing!Evidence(x)],
                                     !.todo = {<<s, d, c1[s]>> : s \in {w \in close : c1[w] # None}}]]
    BY <2>1 DEF Reviewing!ScanAccepted
  <2>3. [x \in {d} |-> Reviewing!Evidence(x)] = [x \in {d} |-> Reviews!Evidence(x)]
    BY SameChecks
  <2>4. /\ Reviews!Cardinality(close) <= 1
        /\ c7' = [c7 EXCEPT ![t] = [Reviews!Idle EXCEPT !.pc = "next", !.kind = "scan", !.snap = [x \in {d} |-> Reviews!Evidence(x)],
                                   !.todo = {<<s, d, c1[s]>> : s \in {w \in close : c1[w] # None}}]]
    BY <2>2, <2>3, SameChecks, SameOf
  <2>5. /\ c7[t] = Reviews!Idle /\ d \in Reviews!Accepted
        /\ \E some \in SUBSET {Later, Quoted} : c6' = Reviews!Filled(c6, some)
        /\ UNCHANGED <<c1, c2, c3, Reviews!window, c5, Reviews!history, c8>>
    BY SameChecks, SameFilled, SameTuples DEF Reviewing!ScanAccepted
  <2> QED
    BY <2>2, <2>4, <2>5 DEF Reviews!ScanAccepted
<1>14. \A d, s, q, against : Reviewing!AskToAdd(t, d, s, q, against) => Reviews!AskToAdd(t, d, s, q, against)
  BY SameChecks, SameTuples DEF Reviewing!AskToAdd, Reviews!AskToAdd
<1>15. Reviewing!RefreshVector(t) => Reviews!RefreshVector(t)
  BY SameChecks, SameTuples DEF Reviewing!RefreshVector, Reviews!RefreshVector
<1>16. \A s : Reviewing!Suggest(t, s) => Reviews!Suggest(t, s)
  BY SameChecks, SameTuples DEF Reviewing!Suggest, Reviews!Suggest
<1> QED
  BY <1>1, <1>2, <1>3, <1>4, <1>5, <1>6, <1>7, <1>8, <1>9, <1>10, <1>11, <1>12, <1>13, <1>14, <1>15, <1>16, SameEmbed

LEMMA ChecksMoves == ChecksNext => Reviews!Next
<1> SUFFICES ASSUME ChecksNext PROVE Reviews!Next
  OBVIOUS
<1>1. Reviews!Tasks = {"c1", "c2"}
  BY DEF Reviews!Tasks
<1>2. CASE \E t \in {"c1", "c2"} :
              \/ Reviewing!Compare(t) \/ Reviewing!StoreAttention(t) \/ Reviewing!Look(t) \/ Reviewing!Changed(t) \/ Reviewing!Embed(t)
              \/ Reviewing!TakeCheck(t) \/ Reviewing!Ask(t) \/ Reviewing!Cite(t) \/ Reviewing!ReadDecision(t) \/ Reviewing!AddEvidence(t)
              \/ Reviewing!Record(t) \/ Reviewing!End(t) \/ Reviewing!RefreshVector(t) \/ Reviewing!Release(t)
  <2>1. \E t \in {"c1", "c2"} : Reviews!CheckStep(t)
    BY <1>2, CheckActions DEF Reviews!CheckStep
  <2> QED
    BY <1>1, <2>1 DEF Reviews!Next
<1>3. CASE \E t \in {"c1", "c2"} : Reviewing!Fail(t)
  BY <1>1, <1>3, CheckActions DEF Reviews!Next
<1>4. CASE \E t \in {"c1", "c2"} : Reviewing!Claim(t)
  BY <1>4, CheckActions DEF Reviews!Next
<1>5. CASE Reviewing!ScanAccepted("c2", Decided) \/ Reviewing!Suggest("c2", Later)
  BY <1>5, CheckActions DEF Reviews!Next
<1>6. ASSUME NEW d \in {Decided, Earlier}, Reviewing!AskToAdd("c2", d, Quoted, Passage, FALSE)
      PROVE  Reviews!Next
  <2>1. Reviews!AskToAdd("c2", d, Quoted, Passage, FALSE) /\ FALSE \in BOOLEAN
    BY <1>6, CheckActions
  <2> QED
    BY <2>1 DEF Reviews!Next
<1>7. ASSUME NEW d \in {Decided, Earlier}, Reviewing!ChangeStatus(d, "accepted")
      PROVE  Reviews!Next
  <2>1. Reviews!ChangeStatus(d, "accepted") /\ "accepted" \in Reviews!Statuses
    <3>1. \A c, x : Reviewing!ChangeStatus(c, x) <=> Reviews!ChangeStatus(c, x)
      BY SameTuples DEF Reviewing!ChangeStatus, Reviews!ChangeStatus, Reviewing!Tasks, Reviews!Tasks
    <3> QED
      BY <1>7, <3>1 DEF Reviews!Statuses
  <2> QED
    BY <2>1 DEF Reviews!Next
<1>8. ASSUME NEW s \in {Later, Quoted}, NEW x \in {1, 2, 3}, Reviewing!Write(s, x)
      PROVE  Reviews!Next
  <2>1. \A v, d : Reviewing!SeenByChecks(v, d) <=> Reviews!SeenByChecks(v, d)
    BY SameChecks, SameQuoted DEF Reviewing!SeenByChecks, Reviews!SeenByChecks
  <2>2. \A d, v : Reviewing!Quotes(d, v) <=> Reviews!Quotes(d, v)
    BY SameChecks DEF Reviewing!Quotes, Reviews!Quotes
  <2>3. Reviews!Write(s, x)
    BY <1>8, <2>1, <2>2, SameChecks, SameUnborn DEF Reviewing!Write, Reviews!Write
  <2> QED
    BY <2>3 DEF Reviews!Next
<1> QED
  BY <1>2, <1>3, <1>4, <1>5, <1>6, <1>7, <1>8 DEF ChecksNext

LEMMA ChecksPromise ==
    Reviews!TypeOK /\ Reviews!EvidenceSound /\ Reviews!EditsAreRead /\ Reviews!EditsAreListed =>
      Reviewing!TypeOK /\ Reviewing!EvidenceSound /\ Reviewing!EditsAreRead /\ Reviewing!EditsAreListed
<1>1. Reviews!TypeOK => Reviewing!TypeOK
  BY SameChecks DEF Reviewing!TypeOK, Reviews!TypeOK
<1>2. Reviews!EvidenceSound => Reviewing!EvidenceSound
  <2>1. \A f : Reviewing!IsInjective(f) <=> Reviews!IsInjective(f)
    BY DEF Reviewing!IsInjective, Reviews!IsInjective
  <2>2. {t \in Reviewing!Tasks : Reviewing!Inside(t)} = {t \in Reviews!Tasks : Reviews!Inside(t)}
    BY SameChecks
  <2> QED
    BY <2>1, <2>2, SameChecks, SameOf DEF Reviewing!EvidenceSound, Reviews!EvidenceSound
<1>3. (Reviews!EditsAreRead => Reviewing!EditsAreRead) /\ (Reviews!EditsAreListed => Reviewing!EditsAreListed)
  BY DEF Reviewing!EditsAreRead, Reviews!EditsAreRead, Reviewing!EditsAreListed, Reviews!EditsAreListed
<1> QED
  BY <1>1, <1>2, <1>3

\* decisions/checks.py, service.py, leases.py, suggest.py: whatever checks, requests and
\* edits overlap, each source keeps one number, an edit stays in the next check's window
\* until a check that found it so ran to its end, and what a decision quotes is not
\* recorded as read before it was read with that decision, or as many as a reading takes.
THEOREM ChecksKeepTheirWord == ASSUME None \notin {1, 2, 3} PROVE MCSpec => []ChecksSafe
<1> DEFINE I == part = "checks" => Reviews!NumbersInv /\ Reviews!Alone /\ Reviews!EditsInv
<1>1. MCInit => I
  <2>1. Reviewing!Init => Reviews!Init
    BY SameChecks DEF Reviewing!Init, Reviews!Init
  <2>2. MCInit /\ part = "checks" => Reviewing!Init
    BY DEF MCInit
  <2> QED
    BY <2>1, <2>2, ReviewConstants, Reviews!InitHolds, Reviews!EditsInit
<1>2. I /\ [MCNext]_allVars => I'
  <2> SUFFICES ASSUME I, [MCNext]_allVars PROVE I'
    OBVIOUS
  <2>1. CASE UNCHANGED allVars
    <3>1. part' = part /\ UNCHANGED Reviews!vars
      BY <2>1 DEF allVars, ofShared, Reviews!vars, Reviews!window, Reviews!history
    <3> QED
      BY <3>1, ReviewConstants, Reviews!NumbersKept, Reviews!AloneKept, Reviews!EditsKept
  <2>2. CASE ChecksNext
    <3>1. part = "checks" /\ part' = part
      BY <2>2 DEF ChecksNext, InChecks
    <3>2. Reviews!Next
      BY <2>2, ChecksMoves
    <3> QED
      BY <3>1, <3>2, ReviewConstants, Reviews!NumbersKept, Reviews!AloneKept, Reviews!EditsKept
  <2>3. CASE DocPushNext \/ TreeNext \/ MirrorNext \/ LookupsNext \/ ChatNext \/ StoresNext \/ FormatsNext
    <3>1. part # "checks" /\ part' = part
      <4>1. CASE DocPushNext
        BY <4>1 DEF DocPushNext, InDocPush
      <4>2. CASE TreeNext \/ MirrorNext
        BY <4>2 DEF TreeNext, InTree, MirrorNext, InMirror
      <4>3. CASE LookupsNext \/ ChatNext
        BY <4>3 DEF LookupsNext, InLookups, ChatNext, InChat
      <4>4. CASE StoresNext
        BY <4>4 DEF StoresNext, InStores
      <4>5. CASE FormatsNext
        BY <4>5 DEF FormatsNext, InFormats
      <4> QED
        BY <2>3, <4>1, <4>2, <4>3, <4>4, <4>5
    <3> QED
      BY <3>1
  <2> QED
    BY <2>1, <2>2, <2>3 DEF MCNext
<1>3. ASSUME I
      PROVE  ChecksSafe
  <2>1. part = "checks" => Reviews!TypeOK /\ Reviews!EvidenceSound
    BY <1>3, ReviewConstants, Reviews!NumbersMean
  <2>2. part = "checks" => Reviews!EditsAreRead /\ Reviews!EditsAreListed
    BY <1>3, Reviews!EditsMean
  <2> QED
    BY <2>1, <2>2, ChecksPromise DEF ChecksSafe
<1> QED
  BY <1>1, <1>2, <1>3, PTL DEF MCSpec
=============================================================================
