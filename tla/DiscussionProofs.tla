-------------------------- MODULE DiscussionProofs --------------------------
(***************************************************************************)
(* Proofs about Discussion, for any users, messages, files, emojis and     *)
(* tasks, when no task dies: a file goes with one message and stays while  *)
(* the message does, and the viewers end up with what is stored.           *)
(***************************************************************************)
EXTENDS Discussion, FiniteSetTheorems, TLAPS

-----------------------------------------------------------------------------
(***************************************************************************)
(* The inductive invariant                                                 *)
(***************************************************************************)

Groupings == UNION {[E -> SUBSET Users] : E \in SUBSET Emojis}
Copy == [author : Users, client : Clients, body : Bodies, files : SUBSET Files,
         reactions : Groupings, version : Nat \ {0}]
FileRecord == [by : Users, status : {"pending", "ready"}, msg : Ids \cup {None},
               expires : {"later", "due", "never"}]

Sends == {"claim", "shown", "insert", "unclaim"}
Reacts == {"seek", "join", "start", "look", "leave", "prune", "reread"}
Removes == {"list", "drop", "forget"}
Steps == {"idle", "upload", "ready", "tell", "delete", "messages"} \cup Sends \cup Reacts \cup Removes
Locals == [pc : Steps, by : Users \cup {None}, id : Ids \cup {None}, client : Clients \cup {None},
           files : SUBSET Files, shown : SUBSET Files, emoji : Emojis \cup {None}, tries : Nat,
           copy : Copy \cup {None}]

\* None is nothing a variable holds beside it, and no task dies.
DiscussionConstants ==
    /\ None \notin Copy /\ None # Gone /\ None \notin FileRecord
    /\ None \notin Ids /\ None \notin {"right", "wrong"}
    /\ IsFiniteSet(Tasks) /\ MaxVersion \in Nat /\ MaxCrashes = 0

DiscussionTypes ==
    /\ open \in BOOLEAN /\ swept \subseteq Files /\ crashes = 0
    /\ file \in [Files -> {None} \cup FileRecord]
    /\ stored \in [Files -> {"right", "wrong", None}]
    /\ msg \in [Ids -> {None, Gone} \cup Copy]
    /\ view \in [Ids -> {None, Gone} \cup Copy]
    /\ task \in [Tasks -> Locals]

\* A message that is being sent is not there, and nobody else is at it; what a task
\* removes is gone; what is told was there.
Deleted(id) == msg[id] = Gone
TaskOk(t) ==
    /\ task[t].pc \in Sends =>
         /\ task[t].id \in Ids /\ msg[task[t].id] = None /\ task[t].by \in Users /\ task[t].client \in Clients
         /\ \A x \in Tasks \ {t} : task[x].id # task[t].id
    /\ task[t].pc = "upload" => task[t].by \in Users
    /\ task[t].pc \in Reacts =>
         task[t].id \in Ids /\ msg[task[t].id] # None /\ task[t].by \in Users /\ task[t].emoji \in Emojis
    /\ task[t].pc = "delete" => task[t].id \in Ids /\ msg[task[t].id] # None /\ task[t].copy = None
    /\ task[t].pc = "messages" => ~open /\ task[t].id = None /\ task[t].copy = None
    /\ task[t].pc = "list" /\ task[t].id = None => ~open
    /\ task[t].pc \in Removes => task[t].copy = None /\ (task[t].id # None => Deleted(task[t].id))
    /\ task[t].pc = "tell" =>
         task[t].id \in Ids /\ msg[task[t].id] # None /\ (task[t].copy = None => Deleted(task[t].id))
TaskInv == \A t \in Tasks : TaskOk(t)

(***************************************************************************)
(* Files: one that is being removed, or is due for it, is one no message   *)
(* needs; a file has one message, from when its record is claimed.         *)
(***************************************************************************)
Expendable(f) ==
    file[f] = None \/ file[f].msg = None \/ Deleted(file[f].msg) \/ f \in swept \/ ~open
Forgetting(f) == \E t \in Tasks : task[t].pc = "forget" /\ f \in task[t].shown
Has(id, f) ==
    \/ There(id) /\ f \in msg[id].files
    \/ \E t \in Tasks : task[t].pc = "insert" /\ task[t].id = id /\ f \in task[t].shown

FileOk(f) ==
    /\ file[f].expires = "due" => Expendable(f)
    /\ file[f].expires = "later" => file[f].msg = None
    /\ file[f].msg # None => file[f].status = "ready"
    /\ file[f].status = "ready" => (stored[f] # None \/ Forgetting(f)) /\ (stored[f] # None \/ Expendable(f))
FileInv == \A f \in Files : file[f] # None => FileOk(f)

UploadOk(t) ==
    /\ task[t].pc = "upload" => \A f \in task[t].files :
         /\ file[f] = None /\ \A id \in Ids : ~Has(id, f)
         /\ \A x \in Tasks \ {t} : task[x].pc \in {"upload", "ready", "drop", "forget"} => f \notin task[x].files
    /\ task[t].pc = "ready" => \A f \in task[t].files : file[f] = None \/ stored[f] # None \/ Forgetting(f)
    /\ task[t].pc = "forget" => \E f \in task[t].files : task[t].shown = {f}
    /\ \A f \in task[t].files : task[t].pc \in {"drop", "forget"} => Expendable(f)
UploadInv == \A t \in Tasks : UploadOk(t)

SentOk(t, f) ==
    /\ task[t].pc \in Sends /\ file[f] # None /\ file[f].msg = task[t].id =>
         task[t].pc # "claim" /\ f \in task[t].files
    /\ task[t].pc = "insert" /\ f \in task[t].shown => f \in task[t].files
HeldOk(id, f) == IF file[f] = None THEN f \in swept \/ ~open ELSE file[f].msg = id
SentInv ==
    /\ \A t \in Tasks, f \in Files : SentOk(t, f)
    /\ \A id \in Ids, f \in Files : Has(id, f) => HeldOk(id, f)
    /\ \A f \in Files, i, j \in Ids : Has(i, f) /\ Has(j, f) => i = j

(***************************************************************************)
(* Messages: a change has its version, and whoever made the latest one is  *)
(* on the way to tell of it.                                               *)
(***************************************************************************)
Working(id) == {t \in Tasks : task[t].id = id /\ task[t].pc \in {"seek", "join", "start", "leave"}}
VersionInv == \A id \in Ids : There(id) =>
    msg[id].version + Cardinality(Working(id)) <= MaxVersion + Cardinality(Tasks)

Same(c, m) == [c EXCEPT !.reactions = Peopled(@)] = [m EXCEPT !.reactions = Peopled(@)]
Past(c, m) == c.version <= m.version /\ (c.version = m.version => Same(c, m))
Current(id) == view[id] \notin {None, Gone} /\ view[id].version = msg[id].version
Tells(t, id) ==
    /\ task[t].id = id
    /\ \/ task[t].pc = "tell" /\ task[t].copy # None /\ task[t].copy.version = msg[id].version
       \/ task[t].pc \in {"prune", "reread"}
       \/ task[t].pc = "look" /\ task[t].emoji \in DOMAIN Groups(id) /\ Groups(id)[task[t].emoji] # {}
TellsGone(t, id) ==
    task[t].id = id /\ (task[t].pc \in Removes \/ (task[t].pc = "tell" /\ task[t].copy = None))

ViewInv ==
    /\ \A id \in Ids :
         /\ msg[id] = None => view[id] = None
         /\ view[id] = Gone => Deleted(id)
         /\ There(id) /\ view[id] # None => Past(view[id], msg[id])
         /\ There(id) => Current(id) \/ \E t \in Tasks : Tells(t, id)
         /\ open /\ Deleted(id) => view[id] = Gone \/ \E t \in Tasks : TellsGone(t, id)
    /\ \A t \in Tasks : task[t].pc = "tell" /\ task[t].copy # None /\ There(task[t].id) =>
         Past(task[t].copy, msg[task[t].id])

DiscussionInv ==
    DiscussionTypes /\ TaskInv /\ FileInv /\ UploadInv /\ SentInv /\ VersionInv /\ ViewInv

-----------------------------------------------------------------------------
(***************************************************************************)
(* What a step leaves alone                                                *)
(***************************************************************************)

LEMMA Becomes ==
    ASSUME task \in [Tasks -> Locals], NEW t \in Tasks, NEW k \in Locals, task' = [task EXCEPT ![t] = k]
    PROVE  task' \in [Tasks -> Locals] /\ task'[t] = k /\ \A x \in Tasks \ {t} : task'[x] = task[x]
OBVIOUS

LEMMA TaskFrame ==
    ASSUME TaskInv, NEW t \in Tasks, \A x \in Tasks \ {t} : task'[x] = task[x], open' => open,
           \A id \in Ids : /\ Deleted(id) => Deleted(id)'
                           /\ msg[id] # None => msg'[id] # None
                           /\ msg[id] = None => msg'[id] = None \/ id = task[t].id,
           \/ task'[t].id \in {task[t].id, None}
           \/ task'[t].id \in Ids /\ msg[task'[t].id] # None
           \/ \A x \in Tasks : task[x].id # task'[t].id,
           None \notin Ids, \A x \in Tasks : task[x].id \in Ids \cup {None},
           TaskOk(t)'
    PROVE  TaskInv'
<1> SUFFICES ASSUME NEW x \in Tasks \ {t} PROVE TaskOk(x)'
  BY DEF TaskInv
<1>1. TaskOk(x) /\ TaskOk(t) /\ task'[x] = task[x]
  BY DEF TaskInv
<1>2. ASSUME task[x].pc \in Sends
      PROVE  msg'[task[x].id] = None /\ \A y \in Tasks \ {x} : task'[y].id # task[x].id
  <2>1. task[x].id \in Ids /\ msg[task[x].id] = None /\ \A y \in Tasks \ {x} : task[y].id # task[x].id
    BY <1>1, <1>2 DEF TaskOk
  <2>2. task[t].id # task[x].id
    BY <2>1
  <2>3. task'[t].id # task[x].id
    BY <2>1, <2>2
  <2> QED
    BY <2>1, <2>2, <2>3
<1> QED
  BY <1>1, <1>2 DEF TaskOk, Deleted, Removes, Sends, Reacts

LEMMA FilesFrame ==
    ASSUME FileInv, UploadInv, SentInv, UNCHANGED <<file, stored>>, swept' = swept, open' => open,
           \A id \in Ids : Deleted(id) => Deleted(id)',
           \A id \in Ids, f \in Files : Has(id, f)' => Has(id, f),
           \A x \in Tasks : \/ task'[x] = task[x]
                            \/ /\ task[x].pc # "forget"
                               /\ task'[x].pc \notin {"upload", "ready", "drop", "forget"} \cup Sends,
           file \in [Files -> {None} \cup FileRecord], task \in [Tasks -> Locals]
    PROVE  (FileInv /\ UploadInv /\ SentInv)'
<1>1. \A f \in Files : Forgetting(f)' <=> Forgetting(f)
  BY DEF Forgetting
<1>2. \A f \in Files : Expendable(f) => Expendable(f)'
  BY DEF Expendable, FileRecord, Deleted
<1>3. FileInv'
  BY <1>1, <1>2 DEF FileInv, FileOk
<1>4. ASSUME NEW t \in Tasks PROVE UploadOk(t)'
  <2>1. CASE task'[t] = task[t]
    <3>1. UploadOk(t) /\ task[t].files \subseteq Files
      BY DEF UploadInv, Locals
    <3> QED
      BY <1>1, <1>2, <2>1, <3>1 DEF UploadOk
  <2>2. CASE task'[t].pc \notin {"upload", "ready", "drop", "forget"}
    BY <2>2 DEF UploadOk
  <2> QED
    BY <2>1, <2>2
<1>5. SentInv'
  <2>1. ASSUME NEW t \in Tasks, NEW f \in Files PROVE SentOk(t, f)'
    BY DEF SentInv, SentOk, Sends
  <2> QED
    BY <2>1 DEF SentInv, HeldOk
<1> QED
  BY <1>3, <1>4, <1>5 DEF UploadInv

LEMMA WorkingFinite ==
    ASSUME IsFiniteSet(Tasks), NEW id
    PROVE  /\ IsFiniteSet(Working(id)) /\ Cardinality(Working(id)) \in Nat
           /\ Cardinality(Working(id)) <= Cardinality(Tasks) /\ Cardinality(Tasks) \in Nat
<1>1. Working(id) \subseteq Tasks
  BY DEF Working
<1> QED
  BY <1>1, FS_Subset, FS_CardinalityType

LEMMA TalkFrame ==
    ASSUME DiscussionTypes, DiscussionConstants, VersionInv, ViewInv, UNCHANGED <<msg, view>>, open' => open,
           task' \in [Tasks -> Locals],
           \A x \in Tasks, id \in Ids : /\ There(id) /\ Tells(x, id) => Tells(x, id)'
                                        /\ TellsGone(x, id) => TellsGone(x, id)',
           \A id \in Ids : There(id) => Working(id)' \subseteq Working(id) \/ msg[id].version < MaxVersion,
           \A x \in Tasks : task'[x].pc = "tell" /\ task'[x].copy # None =>
                              \/ task'[x] = task[x]
                              \/ task'[x].id \in Ids /\ (There(task'[x].id) => task'[x].copy = msg[task'[x].id])
    PROVE  (VersionInv /\ ViewInv)'
<1>1. \A id \in Ids : There(id) => msg[id] \in Copy /\ msg[id].version \in Nat
  BY DEF DiscussionTypes, There, Copy
<1>2. VersionInv'
  <2> SUFFICES ASSUME NEW id \in Ids, There(id)
               PROVE  msg[id].version + Cardinality(Working(id)') <= MaxVersion + Cardinality(Tasks)
    BY DEF VersionInv, There
  <2>1. Working(id)' \subseteq Tasks
    BY DEF Working
  <2>2. /\ Cardinality(Working(id)') \in Nat /\ Cardinality(Working(id)') <= Cardinality(Tasks)
        /\ Cardinality(Tasks) \in Nat
    BY <2>1, FS_Subset, FS_CardinalityType DEF DiscussionConstants
  <2>3. CASE Working(id)' \subseteq Working(id)
    <3>1. Cardinality(Working(id)') <= Cardinality(Working(id)) /\ Cardinality(Working(id)) \in Nat
      BY <2>3, WorkingFinite, FS_Subset DEF DiscussionConstants
    <3>2. msg[id].version + Cardinality(Working(id)) <= MaxVersion + Cardinality(Tasks)
      BY DEF VersionInv
    <3> QED
      BY <1>1, <2>2, <3>1, <3>2 DEF DiscussionConstants
  <2>4. CASE msg[id].version < MaxVersion
    BY <1>1, <2>2, <2>4 DEF DiscussionConstants
  <2> QED
    BY <2>3, <2>4
<1>3. \A m \in Copy : Past(m, m)
  BY DEF Past, Same, Copy
<1>4. ASSUME NEW x \in Tasks, task'[x].pc = "tell", task'[x].copy # None, There(task'[x].id)
      PROVE  Past(task'[x].copy, msg[task'[x].id])
  BY <1>1, <1>3, <1>4 DEF ViewInv
<1>6. (ViewInv)'
  <2>1. ASSUME NEW id \in Ids, There(id) PROVE Current(id) \/ \E t \in Tasks : Tells(t, id)'
    <3>1. CASE Current(id)
      BY <3>1
    <3>2. CASE \E t \in Tasks : Tells(t, id)
      BY <2>1, <3>2
    <3> QED
      BY <2>1, <3>1, <3>2 DEF ViewInv
  <2>2. ASSUME NEW id \in Ids, open, Deleted(id) PROVE view[id] = Gone \/ \E t \in Tasks : TellsGone(t, id)'
    <3>1. view[id] = Gone \/ \E t \in Tasks : TellsGone(t, id)
      BY <2>2 DEF ViewInv
    <3> QED
      BY <3>1
  <2> QED
    BY <1>4, <2>1, <2>2 DEF ViewInv, There, Deleted, Current
<1> QED
  BY <1>2, <1>6

-----------------------------------------------------------------------------
(***************************************************************************)
(* How a task's locals change                                              *)
(***************************************************************************)

LEMMA IdleFields ==
    /\ Idle \in Locals /\ Idle.pc = "idle" /\ Idle.by = None /\ Idle.id = None /\ Idle.client = None
    /\ Idle.files = {} /\ Idle.shown = {} /\ Idle.emoji = None /\ Idle.tries = 0 /\ Idle.copy = None
BY DEF Idle, Locals, Steps

LEMMA Goes ==
    ASSUME task \in [Tasks -> Locals], NEW t \in Tasks, NEW pc \in Steps, Goto(t, pc)
    PROVE  /\ task' \in [Tasks -> Locals] /\ \A x \in Tasks \ {t} : task'[x] = task[x]
           /\ task'[t].pc = pc /\ task'[t].by = task[t].by /\ task'[t].id = task[t].id
           /\ task'[t].client = task[t].client /\ task'[t].files = task[t].files
           /\ task'[t].shown = task[t].shown /\ task'[t].emoji = task[t].emoji
           /\ task'[t].tries = task[t].tries /\ task'[t].copy = task[t].copy
<1>1. PICK k \in Locals : k = [task[t] EXCEPT !.pc = pc]
  BY DEF Locals
<1>2. /\ k.pc = pc /\ k.by = task[t].by /\ k.id = task[t].id /\ k.client = task[t].client
      /\ k.files = task[t].files /\ k.shown = task[t].shown /\ k.emoji = task[t].emoji
      /\ k.tries = task[t].tries /\ k.copy = task[t].copy
  BY <1>1 DEF Locals
<1>3. task' = [task EXCEPT ![t] = k]
  BY <1>1 DEF Goto
<1> QED
  BY <1>2, <1>3, Becomes

LEMMA Ends ==
    ASSUME task \in [Tasks -> Locals], NEW t \in Tasks, Over(t)
    PROVE  /\ task' \in [Tasks -> Locals] /\ \A x \in Tasks \ {t} : task'[x] = task[x]
           /\ task'[t].pc = "idle" /\ task'[t].id = None /\ task'[t].files = {} /\ task'[t].shown = {}
           /\ task'[t].copy = None /\ task'[t].by = None /\ task'[t].client = None
BY IdleFields, Becomes DEF Over

\* A task that tells nothing and changes no message.
LEMMA QuietStep ==
    ASSUME DiscussionTypes, DiscussionConstants, VersionInv, ViewInv, UNCHANGED <<msg, view>>, open' => open,
           task' \in [Tasks -> Locals], NEW t \in Tasks, \A x \in Tasks \ {t} : task'[x] = task[x],
           task[t].pc \notin {"tell", "prune", "reread", "look"} \cup Removes,
           task'[t].pc \notin {"tell", "seek", "join", "start", "leave"}
    PROVE  (VersionInv /\ ViewInv)'
<1>1. ASSUME NEW x \in Tasks, NEW id \in Ids
      PROVE  (Tells(x, id) => Tells(x, id)') /\ (TellsGone(x, id) => TellsGone(x, id)')
  BY DEF Tells, TellsGone, Groups
<1>2. ASSUME NEW id \in Ids PROVE Working(id)' \subseteq Working(id)
  BY DEF Working
<1> QED
  BY <1>1, <1>2, TalkFrame

LEMMA StillStep ==
    ASSUME DiscussionTypes, DiscussionConstants, TaskInv, VersionInv, ViewInv, UNCHANGED <<open, msg, view, task>>
    PROVE  (TaskInv /\ VersionInv /\ ViewInv)'
<1>1. ASSUME NEW x \in Tasks, NEW id \in Ids
      PROVE  (Tells(x, id) => Tells(x, id)') /\ (TellsGone(x, id) => TellsGone(x, id)')
  BY DEF Tells, TellsGone, Groups
<1>2. ASSUME NEW id \in Ids PROVE Working(id)' \subseteq Working(id)
  BY DEF Working
<1>3. task' \in [Tasks -> Locals]
  BY DEF DiscussionTypes
<1>4. (VersionInv /\ ViewInv)'
  BY <1>1, <1>2, <1>3, TalkFrame
<1> QED
  BY <1>4 DEF TaskInv, TaskOk, Deleted

-----------------------------------------------------------------------------
(***************************************************************************)
(* Uploads                                                                 *)
(***************************************************************************)

LEMMA StartUploadStep ==
    ASSUME DiscussionInv, DiscussionConstants, NEW t \in Tasks, NEW u \in Users, NEW f \in Files, StartUpload(t, u, f)
    PROVE  DiscussionInv'
<1>1. DiscussionTypes /\ TaskInv /\ FileInv /\ UploadInv /\ SentInv /\ VersionInv /\ ViewInv
  BY DEF DiscussionInv
<1>2. /\ task \in [Tasks -> Locals] /\ task[t].pc = "idle" /\ task[t].id = None
      /\ UNCHANGED <<open, file, stored, msg, view, swept, crashes>>
      /\ file[f] = None /\ (\A x \in Tasks : f \notin task[x].files) /\ (\A id \in Messages : f \notin msg[id].files)
  BY <1>1, IdleFields DEF StartUpload, DiscussionTypes
<1>3. PICK k \in Locals : k = [Idle EXCEPT !.pc = "upload", !.by = u, !.files = {f}]
  BY IdleFields DEF Locals, Steps
<1>4. k.pc = "upload" /\ k.by = u /\ k.files = {f} /\ k.id = None /\ k.copy = None /\ k.shown = {}
  BY <1>3, IdleFields DEF Locals
<1>5. task' \in [Tasks -> Locals] /\ task'[t] = k /\ \A x \in Tasks \ {t} : task'[x] = task[x]
  BY <1>2, <1>3, Becomes DEF StartUpload
<1>6. DiscussionTypes'
  BY <1>1, <1>2, <1>5 DEF DiscussionTypes
<1>7. TaskInv'
  <2>1. TaskOk(t)'
    BY <1>4, <1>5 DEF TaskOk, Sends, Reacts, Removes
  <2>2. \A x \in Tasks : task[x].id \in Ids \cup {None}
    BY <1>2 DEF Locals
  <2> QED
    BY <1>1, <1>2, <1>4, <1>5, <2>1, <2>2, TaskFrame DEF DiscussionConstants, Deleted
<1>8. (VersionInv /\ ViewInv)'
  <2>1. task[t].pc \notin {"tell", "prune", "reread", "look"} \cup Removes
    BY <1>2 DEF Removes
  <2>2. task'[t].pc \notin {"tell", "seek", "join", "start", "leave"}
    BY <1>4, <1>5
  <2> QED
    BY <1>1, <1>2, <1>5, <2>1, <2>2, QuietStep
<1>9. (FileInv /\ UploadInv /\ SentInv)'
  <2>1. ASSUME NEW x \in Tasks, task[x].pc \in {"forget", "insert"} \/ task'[x].pc \in {"forget", "insert"}
        PROVE  task'[x] = task[x] /\ x # t
    BY <1>2, <1>4, <1>5, <2>1
  <2>2. \A g \in Files : Forgetting(g)' <=> Forgetting(g)
    BY <2>1 DEF Forgetting
  <2>3. \A id \in Ids, g \in Files : Has(id, g)' <=> Has(id, g)
    BY <1>2, <2>1 DEF Has, There
  <2>4. \A g \in Files : Expendable(g)' <=> Expendable(g)
    BY <1>2 DEF Expendable, Deleted
  <2>5. FileInv'
    BY <1>1, <1>2, <2>2, <2>4 DEF FileInv, FileOk
  <2>6. SentInv'
    <3>1. ASSUME NEW x \in Tasks, NEW g \in Files PROVE SentOk(x, g)'
      BY <1>1, <1>2, <1>4, <1>5 DEF SentInv, SentOk, Sends
    <3> QED
      BY <1>1, <1>2, <2>3, <3>1 DEF SentInv, HeldOk
  <2>7. \A id \in Ids : ~Has(id, f)
    <3>1. \A x \in Tasks : task[x].pc = "insert" => f \notin task[x].shown
      BY <1>1, <1>2 DEF SentInv, SentOk
    <3> QED
      BY <1>2, <3>1 DEF Has, Messages
  <2>8. ASSUME NEW x \in Tasks PROVE UploadOk(x)'
    <3>1. CASE x = t
      BY <1>2, <1>4, <1>5, <2>3, <2>7, <3>1 DEF UploadOk
    <3>2. CASE x # t
      <4>1. UploadOk(x) /\ task'[x] = task[x] /\ task[x].files \subseteq Files
        BY <1>1, <1>2, <1>5, <3>2 DEF UploadInv, Locals
      <4> QED
        BY <1>2, <1>4, <1>5, <2>2, <2>3, <2>4, <4>1 DEF UploadOk
    <3> QED
      BY <3>1, <3>2
  <2> QED
    BY <2>5, <2>6, <2>8 DEF UploadInv
<1> QED
  BY <1>6, <1>7, <1>8, <1>9 DEF DiscussionInv

\* A task that is over tells nothing any more.
LEMMA OverStep ==
    ASSUME DiscussionTypes, DiscussionConstants, TaskInv, VersionInv, ViewInv, UNCHANGED <<open, msg, view>>,
           NEW t \in Tasks, Over(t), task[t].pc \notin {"tell", "prune", "reread", "look"} \cup Removes
    PROVE  (TaskInv /\ VersionInv /\ ViewInv)'
<1>1. /\ task' \in [Tasks -> Locals] /\ (\A x \in Tasks \ {t} : task'[x] = task[x])
      /\ task'[t].pc = "idle" /\ task'[t].id = None
  BY Ends DEF DiscussionTypes
<1>2. (VersionInv /\ ViewInv)'
  <2>1. task'[t].pc \notin {"tell", "seek", "join", "start", "leave"}
    BY <1>1
  <2> QED
    BY <1>1, <2>1, QuietStep
<1>3. TaskInv'
  <2>1. TaskOk(t)'
    BY <1>1 DEF TaskOk, Sends, Reacts, Removes
  <2>2. \A x \in Tasks : task[x].id \in Ids \cup {None}
    BY DEF DiscussionTypes, Locals
  <2> QED
    BY <1>1, <2>1, <2>2, TaskFrame DEF DiscussionConstants, Deleted
<1> QED
  BY <1>2, <1>3

LEMMA InsertUploadStep ==
    ASSUME DiscussionInv, DiscussionConstants, NEW t \in Tasks, InsertUpload(t) PROVE DiscussionInv'
<1>1. DiscussionTypes /\ TaskInv /\ FileInv /\ UploadInv /\ SentInv /\ VersionInv /\ ViewInv
  BY DEF DiscussionInv
<1>2. /\ task \in [Tasks -> Locals] /\ file \in [Files -> {None} \cup FileRecord] /\ task[t].pc = "upload"
      /\ UNCHANGED <<open, stored, msg, view, swept, crashes>> /\ Over(t) /\ task[t].by \in Users
  BY <1>1 DEF InsertUpload, DiscussionTypes, TaskInv, TaskOk
<1>3. /\ task' \in [Tasks -> Locals] /\ (\A x \in Tasks \ {t} : task'[x] = task[x])
      /\ task'[t].pc = "idle" /\ task'[t].files = {} /\ task'[t].shown = {}
  BY <1>2, Ends
<1>4. PICK r \in FileRecord : r = [by |-> task[t].by, status |-> "pending", msg |-> None, expires |-> "later"]
  BY <1>2 DEF FileRecord
<1>5. r.status = "pending" /\ r.msg = None /\ r.expires = "later" /\ r # None
  BY <1>4 DEF DiscussionConstants
<1>6. /\ \A f \in Files : file'[f] = IF f \in task[t].files THEN r ELSE file[f]
      /\ file' \in [Files -> {None} \cup FileRecord]
  BY <1>2, <1>4 DEF InsertUpload
<1>7. \A f \in task[t].files : f \in Files /\ file[f] = None /\ \A id \in Ids : ~Has(id, f)
  BY <1>1, <1>2 DEF UploadInv, UploadOk, Locals
<1>8. DiscussionTypes'
  BY <1>1, <1>2, <1>3, <1>6 DEF DiscussionTypes
<1>9. (TaskInv /\ VersionInv /\ ViewInv)'
  <2>1. task[t].pc \notin {"tell", "prune", "reread", "look"} \cup Removes
    BY <1>2 DEF Removes
  <2> QED
    BY <1>1, <1>2, <2>1, OverStep
<1>10. (FileInv /\ UploadInv /\ SentInv)'
  <2>1. \A x \in Tasks : task[x].pc \in {"forget", "insert"} \/ task'[x].pc \in {"forget", "insert"} => task'[x] = task[x]
    BY <1>2, <1>3
  <2>2. \A g \in Files : Forgetting(g)' <=> Forgetting(g)
    BY <2>1 DEF Forgetting
  <2>3. \A id \in Ids, g \in Files : Has(id, g)' <=> Has(id, g)
    BY <1>2, <2>1 DEF Has, There
  <2>4. \A g \in Files : Expendable(g) => Expendable(g)'
    BY <1>2, <1>5, <1>6 DEF Expendable, Deleted
  <2>5. FileInv'
    BY <1>1, <1>2, <1>5, <1>6, <2>2, <2>4 DEF FileInv, FileOk
  <2>6. ASSUME NEW x \in Tasks PROVE UploadOk(x)'
    <3>1. CASE x = t
      BY <1>3, <3>1 DEF UploadOk
    <3>2. CASE x # t
      <4>1. UploadOk(x) /\ task'[x] = task[x] /\ task[x].files \subseteq Files
        BY <1>1, <1>2, <1>3, <3>2 DEF UploadInv, Locals
      <4>2. task[x].pc \in {"upload", "ready"} => \A f \in task[x].files : f \notin task[t].files
        BY <1>1, <1>2, <3>2 DEF UploadInv, UploadOk
      <4> QED
        BY <1>2, <1>3, <1>6, <2>2, <2>3, <2>4, <4>1, <4>2 DEF UploadOk
    <3> QED
      BY <3>1, <3>2
  <2>7. ASSUME NEW x \in Tasks, NEW g \in Files PROVE SentOk(x, g)'
    <3>1. task[x].pc \in Sends => task[x].id # None
      BY <1>1 DEF TaskInv, TaskOk, DiscussionConstants
    <3> QED
      BY <1>1, <1>3, <1>5, <1>6, <3>1 DEF SentInv, SentOk, Sends
  <2>8. ASSUME NEW id \in Ids, NEW g \in Files, Has(id, g) PROVE HeldOk(id, g)'
    <3>1. g \notin task[t].files
      BY <1>7, <2>8
    <3> QED
      BY <1>1, <1>2, <1>6, <2>8, <3>1 DEF SentInv, HeldOk
  <2> QED
    BY <1>1, <2>3, <2>5, <2>6, <2>7, <2>8 DEF UploadInv, SentInv
<1> QED
  BY <1>8, <1>9, <1>10 DEF DiscussionInv

LEMMA ArriveStep ==
    ASSUME DiscussionInv, DiscussionConstants, NEW f \in Files, NEW kind \in {"right", "wrong"}, Arrive(f, kind)
    PROVE  DiscussionInv'
<1>1. DiscussionTypes /\ TaskInv /\ FileInv /\ UploadInv /\ SentInv /\ VersionInv /\ ViewInv
  BY DEF DiscussionInv
<1>2. UNCHANGED <<open, file, msg, view, task, swept, crashes>> /\ stored' = [stored EXCEPT ![f] = kind]
  BY DEF Arrive
<1>3. /\ stored' \in [Files -> {"right", "wrong", None}]
      /\ \A g \in Files : stored[g] # None => stored'[g] # None
  BY <1>1, <1>2 DEF DiscussionTypes, DiscussionConstants
<1>4. DiscussionTypes'
  BY <1>1, <1>2, <1>3 DEF DiscussionTypes
<1>5. /\ \A g \in Files : (Forgetting(g)' <=> Forgetting(g)) /\ (Expendable(g)' <=> Expendable(g))
      /\ \A id \in Ids, g \in Files : Has(id, g)' <=> Has(id, g)
  BY <1>2 DEF Forgetting, Expendable, Deleted, Has, There
<1>6. FileInv'
  BY <1>1, <1>2, <1>3, <1>5 DEF FileInv, FileOk
<1>7. ASSUME NEW x \in Tasks PROVE UploadOk(x)'
  <2>1. UploadOk(x) /\ task[x].files \subseteq Files
    BY <1>1 DEF UploadInv, DiscussionTypes, Locals
  <2> QED
    BY <1>2, <1>3, <1>5, <2>1 DEF UploadOk
<1>8. SentInv'
  BY <1>1, <1>2, <1>5 DEF SentInv, SentOk, HeldOk
<1> QED
  BY <1>1, <1>2, <1>4, <1>6, <1>7, <1>8, StillStep DEF DiscussionInv, UploadInv

LEMMA DayStep ==
    ASSUME DiscussionInv, DiscussionConstants, NEW f \in Files, A_Day(f) PROVE DiscussionInv'
<1>1. DiscussionTypes /\ TaskInv /\ FileInv /\ UploadInv /\ SentInv /\ VersionInv /\ ViewInv
  BY DEF DiscussionInv
<1>2. /\ UNCHANGED <<open, stored, msg, view, task, swept, crashes>> /\ file \in [Files -> {None} \cup FileRecord]
      /\ file[f] # None /\ file[f].expires = "later" /\ file' = [file EXCEPT ![f].expires = "due"]
  BY <1>1 DEF A_Day, DiscussionTypes
<1>3. PICK r \in FileRecord : r = [file[f] EXCEPT !.expires = "due"]
  BY <1>2 DEF FileRecord
<1>4. r.by = file[f].by /\ r.status = file[f].status /\ r.msg = file[f].msg /\ r.expires = "due" /\ r # None
  BY <1>2, <1>3 DEF FileRecord, DiscussionConstants
<1>5. file' \in [Files -> {None} \cup FileRecord] /\ \A g \in Files : file'[g] = IF g = f THEN r ELSE file[g]
  BY <1>2, <1>3
<1>6. r.msg = None
  BY <1>1, <1>2, <1>4 DEF FileInv, FileOk
<1>7. DiscussionTypes'
  BY <1>1, <1>2, <1>5 DEF DiscussionTypes
<1>8. /\ \A g \in Files : (Forgetting(g)' <=> Forgetting(g)) /\ (Expendable(g) => Expendable(g)')
      /\ \A id \in Ids, g \in Files : Has(id, g)' <=> Has(id, g)
  BY <1>2, <1>4, <1>5 DEF Forgetting, Expendable, Deleted, Has, There
<1>9. FileInv'
  BY <1>1, <1>2, <1>4, <1>5, <1>6, <1>8 DEF FileInv, FileOk, Expendable
<1>10. ASSUME NEW x \in Tasks PROVE UploadOk(x)'
  <2>1. UploadOk(x) /\ task[x].files \subseteq Files
    BY <1>1 DEF UploadInv, DiscussionTypes, Locals
  <2> QED
    BY <1>2, <1>5, <1>8, <2>1 DEF UploadOk
<1>11. ASSUME NEW x \in Tasks, NEW g \in Files PROVE SentOk(x, g)'
  BY <1>1, <1>2, <1>4, <1>5 DEF SentInv, SentOk
<1>12. ASSUME NEW id \in Ids, NEW g \in Files, Has(id, g) PROVE HeldOk(id, g)'
  BY <1>1, <1>2, <1>4, <1>5, <1>12 DEF SentInv, HeldOk
<1> QED
  BY <1>1, <1>2, <1>7, <1>8, <1>9, <1>10, <1>11, <1>12, StillStep DEF DiscussionInv, UploadInv, SentInv

\* A task takes up files that are there, to make them ready or to remove them.
LEMMA TakesFiles ==
    ASSUME FileInv, UploadInv, SentInv, UNCHANGED <<open, file, stored, msg, swept>>,
           task \in [Tasks -> Locals], task' \in [Tasks -> Locals],
           NEW t \in Tasks, \A x \in Tasks \ {t} : task'[x] = task[x],
           task[t].pc \notin {"forget"} \cup Sends, task'[t].pc \in {"ready", "drop"},
           \A f \in task'[t].files : /\ file[f] # None
                                     /\ task'[t].pc = "ready" => stored[f] # None
                                     /\ task'[t].pc = "drop" => Expendable(f)
    PROVE  (FileInv /\ UploadInv /\ SentInv)'
<1>1. \A x \in Tasks : task[x].pc \in {"forget", "insert"} \/ task'[x].pc \in {"forget", "insert"} => task'[x] = task[x]
  BY DEF Sends
<1>2. \A g \in Files : (Forgetting(g)' <=> Forgetting(g)) /\ (Expendable(g)' <=> Expendable(g))
  BY <1>1 DEF Forgetting, Expendable, Deleted
<1>3. \A id \in Ids, g \in Files : Has(id, g)' <=> Has(id, g)
  BY <1>1 DEF Has, There
<1>4. FileInv'
  BY <1>2 DEF FileInv, FileOk
<1>5. ASSUME NEW x \in Tasks PROVE UploadOk(x)'
  <2>1. task'[x].files \subseteq Files
    BY DEF Locals
  <2>2. CASE x = t
    BY <1>2, <2>1, <2>2 DEF UploadOk
  <2>3. CASE x # t
    <3>1. UploadOk(x) /\ task'[x] = task[x]
      BY <2>3 DEF UploadInv
    <3> QED
      BY <1>2, <1>3, <2>1, <3>1 DEF UploadOk
  <2> QED
    BY <2>2, <2>3
<1>6. ASSUME NEW x \in Tasks, NEW g \in Files PROVE SentOk(x, g)'
  BY DEF SentInv, SentOk, Sends
<1> QED
  BY <1>3, <1>4, <1>5, <1>6 DEF UploadInv, SentInv, HeldOk

LEMMA CompleteStep ==
    ASSUME DiscussionInv, DiscussionConstants, NEW t \in Tasks, NEW f \in Files, Complete(t, f) PROVE DiscussionInv'
<1>1. DiscussionTypes /\ TaskInv /\ FileInv /\ UploadInv /\ SentInv /\ VersionInv /\ ViewInv
  BY DEF DiscussionInv
<1>2. /\ task \in [Tasks -> Locals] /\ task[t].pc = "idle" /\ task[t].id = None
      /\ UNCHANGED <<open, file, stored, msg, view, swept, crashes>>
      /\ file[f] # None /\ file[f].status = "pending" /\ stored[f] # None
  BY <1>1, IdleFields DEF Complete, DiscussionTypes
<1>3. PICK pc \in {"ready", "drop"} : pc = IF stored[f] = "right" THEN "ready" ELSE "drop"
  OBVIOUS
<1>4. PICK k \in Locals : k = [Idle EXCEPT !.pc = pc, !.files = {f}]
  BY IdleFields DEF Locals, Steps, Removes
<1>5. k.pc = pc /\ k.files = {f} /\ k.id = None /\ k.copy = None
  BY <1>4, IdleFields DEF Locals
<1>6. task' \in [Tasks -> Locals] /\ task'[t] = k /\ \A x \in Tasks \ {t} : task'[x] = task[x]
  BY <1>2, <1>3, <1>4, Becomes DEF Complete
<1>7. DiscussionTypes'
  BY <1>1, <1>2, <1>6 DEF DiscussionTypes
<1>8. TaskInv'
  <2>1. TaskOk(t)'
    BY <1>5, <1>6 DEF TaskOk, Sends, Reacts, Removes
  <2>2. \A x \in Tasks : task[x].id \in Ids \cup {None}
    BY <1>2 DEF Locals
  <2> QED
    BY <1>1, <1>2, <1>5, <1>6, <2>1, <2>2, TaskFrame DEF DiscussionConstants, Deleted
<1>9. (VersionInv /\ ViewInv)'
  <2>1. task[t].pc \notin {"tell", "prune", "reread", "look"} \cup Removes
    BY <1>2 DEF Removes
  <2>2. task'[t].pc \notin {"tell", "seek", "join", "start", "leave"}
    BY <1>5, <1>6
  <2> QED
    BY <1>1, <1>2, <1>6, <2>1, <2>2, QuietStep
<1>10. (FileInv /\ UploadInv /\ SentInv)'
  <2>1. task[t].pc \notin {"forget"} \cup Sends /\ task'[t].pc \in {"ready", "drop"}
    BY <1>2, <1>5, <1>6 DEF Sends
  <2>2. Expendable(f)
    BY <1>1, <1>2 DEF FileInv, FileOk, Expendable
  <2>3. \A g \in task'[t].files : g = f
    BY <1>5, <1>6
  <2> QED
    BY <1>1, <1>2, <1>6, <2>1, <2>2, <2>3, TakesFiles
<1> QED
  BY <1>7, <1>8, <1>9, <1>10 DEF DiscussionInv

LEMMA MakeReadyStep ==
    ASSUME DiscussionInv, DiscussionConstants, NEW t \in Tasks, MakeReady(t) PROVE DiscussionInv'
<1>1. DiscussionTypes /\ TaskInv /\ FileInv /\ UploadInv /\ SentInv /\ VersionInv /\ ViewInv
  BY DEF DiscussionInv
<1>2. /\ task \in [Tasks -> Locals] /\ file \in [Files -> {None} \cup FileRecord] /\ task[t].pc = "ready"
      /\ UNCHANGED <<open, stored, msg, view, swept, crashes>> /\ Over(t)
  BY <1>1 DEF MakeReady, DiscussionTypes
<1>3. /\ task' \in [Tasks -> Locals] /\ (\A x \in Tasks \ {t} : task'[x] = task[x])
      /\ task'[t].pc = "idle" /\ task'[t].files = {} /\ task'[t].shown = {}
  BY <1>2, Ends
<1>4. file' = [f \in Files |-> IF f \in task[t].files /\ file[f] # None THEN [file[f] EXCEPT !.status = "ready"] ELSE file[f]]
  BY DEF MakeReady
<1>5. ASSUME NEW f \in Files
      PROVE  /\ file'[f] \in {None} \cup FileRecord /\ (file'[f] = None <=> file[f] = None)
             /\ file[f] # None =>
                  /\ file'[f].msg = file[f].msg /\ file'[f].expires = file[f].expires
                  /\ file'[f].status = file[f].status \/ (f \in task[t].files /\ file'[f].status = "ready")
  <2>1. CASE f \in task[t].files /\ file[f] # None
    <3>1. PICK r \in FileRecord : r = file[f]
      BY <1>2, <2>1
    <3>2. file'[f] = [r EXCEPT !.status = "ready"]
      BY <1>4, <2>1, <3>1
    <3>3. file'[f] \in FileRecord /\ file'[f].msg = r.msg /\ file'[f].expires = r.expires /\ file'[f].status = "ready"
      BY <3>2 DEF FileRecord
    <3> QED
      BY <2>1, <3>1, <3>3 DEF DiscussionConstants
  <2>2. CASE ~(f \in task[t].files /\ file[f] # None)
    BY <1>2, <1>4, <2>2
  <2> QED
    BY <2>1, <2>2
<1>6. file' \in [Files -> {None} \cup FileRecord]
  BY <1>4, <1>5
<1>7. DiscussionTypes'
  BY <1>1, <1>2, <1>3, <1>6 DEF DiscussionTypes
<1>8. (TaskInv /\ VersionInv /\ ViewInv)'
  <2>1. task[t].pc \notin {"tell", "prune", "reread", "look"} \cup Removes
    BY <1>2 DEF Removes
  <2> QED
    BY <1>1, <1>2, <2>1, OverStep
<1>9. (FileInv /\ UploadInv /\ SentInv)'
  <2>1. \A x \in Tasks : task[x].pc \in {"forget", "insert"} \/ task'[x].pc \in {"forget", "insert"} => task'[x] = task[x]
    BY <1>2, <1>3
  <2>2. \A g \in Files : (Forgetting(g)' <=> Forgetting(g)) /\ (Expendable(g)' <=> Expendable(g))
    BY <1>2, <1>5, <2>1 DEF Forgetting, Expendable, Deleted
  <2>3. \A id \in Ids, g \in Files : Has(id, g)' <=> Has(id, g)
    BY <1>2, <2>1 DEF Has, There
  <2>4. \A g \in Files : Forgetting(g) => Expendable(g)
    BY <1>1 DEF Forgetting, UploadInv, UploadOk
  <2>5. \A g \in task[t].files : file[g] = None \/ stored[g] # None \/ Forgetting(g)
    BY <1>1, <1>2 DEF UploadInv, UploadOk
  <2>6. FileInv'
    BY <1>1, <1>2, <1>5, <2>2, <2>4, <2>5 DEF FileInv, FileOk
  <2>7. ASSUME NEW x \in Tasks PROVE UploadOk(x)'
    <3>1. CASE x = t
      BY <1>3, <3>1 DEF UploadOk
    <3>2. CASE x # t
      <4>1. UploadOk(x) /\ task'[x] = task[x] /\ task[x].files \subseteq Files
        BY <1>1, <1>2, <1>3, <3>2 DEF UploadInv, Locals
      <4> QED
        BY <1>2, <1>3, <1>5, <2>2, <2>3, <4>1 DEF UploadOk
    <3> QED
      BY <3>1, <3>2
  <2>8. ASSUME NEW x \in Tasks, NEW g \in Files PROVE SentOk(x, g)'
    BY <1>1, <1>3, <1>5 DEF SentInv, SentOk, Sends
  <2>9. ASSUME NEW id \in Ids, NEW g \in Files, Has(id, g) PROVE HeldOk(id, g)'
    BY <1>1, <1>2, <1>5, <2>9 DEF SentInv, HeldOk
  <2> QED
    BY <1>1, <2>3, <2>6, <2>7, <2>8, <2>9 DEF UploadInv, SentInv
<1> QED
  BY <1>7, <1>8, <1>9 DEF DiscussionInv

-----------------------------------------------------------------------------
(***************************************************************************)
(* Removal                                                                 *)
(***************************************************************************)

LEMMA SweepStep ==
    ASSUME DiscussionInv, DiscussionConstants, NEW t \in Tasks, Sweep(t) PROVE DiscussionInv'
<1>1. DiscussionTypes /\ TaskInv /\ FileInv /\ UploadInv /\ SentInv /\ VersionInv /\ ViewInv
  BY DEF DiscussionInv
<1>2. PICK due \in SUBSET Files : due = {f \in Files : file[f] # None /\ file[f].expires = "due"}
  OBVIOUS
<1>3. /\ task \in [Tasks -> Locals] /\ task[t].pc = "idle" /\ task[t].id = None /\ task[t].copy = None
      /\ UNCHANGED <<open, file, stored, msg, view, swept, crashes>>
      /\ task' = [task EXCEPT ![t].pc = "drop", ![t].id = None, ![t].files = due]
  BY <1>1, <1>2, IdleFields DEF Sweep, Remove, DiscussionTypes
<1>4. PICK k \in Locals : k = [task[t] EXCEPT !.pc = "drop", !.id = None, !.files = due]
  BY <1>3 DEF Locals, Steps, Removes
<1>5. k.pc = "drop" /\ k.files = due /\ k.id = None /\ k.copy = None
  BY <1>3, <1>4 DEF Locals
<1>6. task' = [task EXCEPT ![t] = k]
  BY <1>3, <1>4
<1>7. task' \in [Tasks -> Locals] /\ task'[t] = k /\ \A x \in Tasks \ {t} : task'[x] = task[x]
  BY <1>3, <1>6, Becomes
<1>8. DiscussionTypes'
  BY <1>1, <1>3, <1>7 DEF DiscussionTypes
<1>9. TaskInv'
  <2>1. TaskOk(t)'
    BY <1>5, <1>7 DEF TaskOk, Sends, Reacts, Removes
  <2>2. \A x \in Tasks : task[x].id \in Ids \cup {None}
    BY <1>3 DEF Locals
  <2> QED
    BY <1>1, <1>3, <1>5, <1>7, <2>1, <2>2, TaskFrame DEF DiscussionConstants, Deleted
<1>10. (VersionInv /\ ViewInv)'
  <2>1. task[t].pc \notin {"tell", "prune", "reread", "look"} \cup Removes
    BY <1>3 DEF Removes
  <2>2. task'[t].pc \notin {"tell", "seek", "join", "start", "leave"}
    BY <1>5, <1>7
  <2> QED
    BY <1>1, <1>3, <1>7, <2>1, <2>2, QuietStep
<1>11. (FileInv /\ UploadInv /\ SentInv)'
  <2>1. task[t].pc \notin {"forget"} \cup Sends /\ task'[t].pc = "drop"
    BY <1>3, <1>5, <1>7 DEF Sends
  <2>2. \A f \in task'[t].files : file[f] # None /\ Expendable(f)
    BY <1>1, <1>2, <1>5, <1>7 DEF FileInv, FileOk
  <2> QED
    BY <1>1, <1>3, <1>7, <2>1, <2>2, TakesFiles
<1> QED
  BY <1>8, <1>9, <1>10, <1>11 DEF DiscussionInv

\* What a removal tells, it tells of a message that is gone.
LEMMA RemovalTalks ==
    ASSUME DiscussionTypes, DiscussionConstants, TaskInv, VersionInv, ViewInv, UNCHANGED <<open, msg, view>>,
           task' \in [Tasks -> Locals], NEW t \in Tasks, \A x \in Tasks \ {t} : task'[x] = task[x],
           task[t].pc \in Removes, task'[t].copy = None,
           \/ task'[t].pc \in {"drop", "forget"} /\ task'[t].id = task[t].id
           \/ task'[t].pc = "tell" /\ task'[t].id = task[t].id /\ task[t].id # None
           \/ task'[t].pc = "idle" /\ task[t].id = None /\ task'[t].id = None
    PROVE  (TaskInv /\ VersionInv /\ ViewInv)'
<1>1. task[t].copy = None /\ (task[t].id # None => Deleted(task[t].id) /\ task[t].id \in Ids)
  BY DEF TaskInv, TaskOk, DiscussionTypes, Locals
<1>2. TaskInv'
  <2>1. TaskOk(t)'
    BY <1>1 DEF TaskOk, Deleted, Sends, Reacts, Removes, DiscussionConstants
  <2>2. \A x \in Tasks : task[x].id \in Ids \cup {None}
    BY DEF DiscussionTypes, Locals
  <2> QED
    BY <2>1, <2>2, TaskFrame DEF DiscussionConstants, Deleted
<1>3. ASSUME NEW x \in Tasks, NEW id \in Ids
      PROVE  (Tells(x, id) => Tells(x, id)') /\ (TellsGone(x, id) => TellsGone(x, id)')
  <2>1. CASE x = t
    BY <2>1 DEF Tells, TellsGone, Removes, DiscussionConstants
  <2>2. CASE x # t
    BY <2>2 DEF Tells, TellsGone, Groups
  <2> QED
    BY <2>1, <2>2
<1>4. \A id \in Ids : Working(id)' \subseteq Working(id)
  BY DEF Working, Removes
<1>5. (VersionInv /\ ViewInv)'
  BY <1>3, <1>4, TalkFrame
<1> QED
  BY <1>2, <1>5

LEMMA AfterFields ==
    ASSUME task \in [Tasks -> Locals], NEW t \in Tasks, NEW f
    PROVE  /\ After(t, f) \in Locals
           /\ \/ /\ After(t, f).pc = "drop" /\ After(t, f).files = task[t].files \ {f}
                 /\ After(t, f).id = task[t].id /\ After(t, f).copy = task[t].copy
              \/ /\ After(t, f).pc = "tell" /\ task[t].id # None /\ After(t, f).files = {}
                 /\ After(t, f).id = task[t].id /\ After(t, f).copy = task[t].copy
              \/ /\ After(t, f).pc = "idle" /\ task[t].id = None /\ After(t, f).files = {}
                 /\ After(t, f).id = None /\ After(t, f).copy = None
<1>1. CASE task[t].files \ {f} # {}
  <2>1. PICK rest \in SUBSET Files : rest = task[t].files \ {f}
    BY DEF Locals
  <2>2. After(t, f) = [task[t] EXCEPT !.pc = "drop", !.files = rest]
    BY <1>1, <2>1 DEF After
  <2>3. PICK k \in Locals : k = [task[t] EXCEPT !.pc = "drop", !.files = rest]
    BY DEF Locals, Steps, Removes
  <2>4. k.pc = "drop" /\ k.files = rest /\ k.id = task[t].id /\ k.copy = task[t].copy
    BY <2>3 DEF Locals
  <2> QED
    BY <2>1, <2>2, <2>3, <2>4
<1>2. CASE task[t].files \ {f} = {} /\ task[t].id # None
  <2>1. After(t, f) = [task[t] EXCEPT !.pc = "tell", !.files = {}]
    BY <1>2 DEF After
  <2>2. PICK k \in Locals : k = [task[t] EXCEPT !.pc = "tell", !.files = {}]
    BY DEF Locals, Steps
  <2>3. k.pc = "tell" /\ k.files = {} /\ k.id = task[t].id /\ k.copy = task[t].copy
    BY <2>2 DEF Locals
  <2> QED
    BY <1>2, <2>1, <2>2, <2>3
<1>3. CASE task[t].files \ {f} = {} /\ task[t].id = None
  BY <1>3, IdleFields DEF After
<1> QED
  BY <1>1, <1>2, <1>3

LEMMA DropFileStep ==
    ASSUME DiscussionInv, DiscussionConstants, NEW t \in Tasks, DropFile(t) PROVE DiscussionInv'
<1>1. DiscussionTypes /\ TaskInv /\ FileInv /\ UploadInv /\ SentInv /\ VersionInv /\ ViewInv
  BY DEF DiscussionInv
<1>2. /\ task \in [Tasks -> Locals] /\ file \in [Files -> {None} \cup FileRecord] /\ task[t].pc = "drop"
      /\ stored \in [Files -> {"right", "wrong", None}] /\ task[t].copy = None /\ task[t].files \subseteq Files
      /\ UNCHANGED <<open, msg, view, swept, crashes>>
      /\ \A f \in task[t].files : Expendable(f)
  BY <1>1 DEF DropFile, DiscussionTypes, TaskInv, TaskOk, Removes, UploadInv, UploadOk, Locals
\* The task goes on with the rest of its files, or is done with them.
<1>3. ASSUME NEW f, task' = [task EXCEPT ![t] = After(t, f)]
      PROVE  /\ task' \in [Tasks -> Locals] /\ \A x \in Tasks \ {t} : task'[x] = task[x]
             /\ task'[t].pc \in {"drop", "tell", "idle"} /\ task'[t].files \subseteq task[t].files
             /\ (TaskInv /\ VersionInv /\ ViewInv)'
  <2>1. task' \in [Tasks -> Locals] /\ task'[t] = After(t, f) /\ \A x \in Tasks \ {t} : task'[x] = task[x]
    BY <1>2, <1>3, AfterFields, Becomes
  <2>2. /\ task'[t].pc \in {"drop", "tell", "idle"} /\ task'[t].files \subseteq task[t].files
        /\ task'[t].copy = None
        /\ \/ task'[t].pc = "drop" /\ task'[t].id = task[t].id
           \/ task'[t].pc = "tell" /\ task'[t].id = task[t].id /\ task[t].id # None
           \/ task'[t].pc = "idle" /\ task[t].id = None /\ task'[t].id = None
    BY <1>2, <2>1, AfterFields
  <2>3. task[t].pc \in Removes
    BY <1>2 DEF Removes
  <2>4. (TaskInv /\ VersionInv /\ ViewInv)'
    BY <1>1, <1>2, <2>1, <2>2, <2>3, RemovalTalks
  <2> QED
    BY <2>1, <2>2, <2>4
\* Nobody's upload, message or record of being sent is touched.
<1>4. ASSUME \A x \in Tasks \ {t} : task'[x] = task[x],
             task'[t].pc \in {"drop", "tell", "idle", "forget"}, task'[t].files \subseteq task[t].files,
             \A g \in Files : file'[g] = None <=> file[g] = None,
             \A g \in Files : file[g] # None => file'[g].msg = file[g].msg
      PROVE  /\ \A g \in Files : Forgetting(g) => Forgetting(g)'
             /\ \A g \in Files : Expendable(g)' <=> Expendable(g)
             /\ \A id \in Ids, g \in Files : Has(id, g)' <=> Has(id, g)
             /\ \A x \in Tasks \ {t} : (\A g \in task[x].files : stored[g] # None => stored'[g] # None \/ Forgetting(g)') => UploadOk(x)'
             /\ SentInv'
  <2>1. \A x \in Tasks : task[x].pc \in {"forget", "insert"} \/ task'[x].pc = "insert" => task'[x] = task[x]
    BY <1>2, <1>4
  <2>2. \A g \in Files : Forgetting(g) => Forgetting(g)'
    BY <2>1 DEF Forgetting
  <2>3. \A g \in Files : Expendable(g)' <=> Expendable(g)
    BY <1>2, <1>4 DEF Expendable, Deleted
  <2>4. \A id \in Ids, g \in Files : Has(id, g)' <=> Has(id, g)
    BY <1>2, <2>1 DEF Has, There
  <2>5. ASSUME NEW x \in Tasks \ {t},
               \A g \in task[x].files : stored[g] # None => stored'[g] # None \/ Forgetting(g)'
        PROVE  UploadOk(x)'
    <3>1. UploadOk(x) /\ task'[x] = task[x] /\ task[x].files \subseteq Files
      BY <1>1, <1>2, <1>4 DEF UploadInv, Locals
    <3>2. task[x].pc = "upload" => \A g \in task[x].files : g \notin task[t].files
      BY <1>2, <3>1 DEF UploadOk
    <3> QED
      BY <1>4, <2>2, <2>3, <2>4, <2>5, <3>1, <3>2 DEF UploadOk
  <2>6. ASSUME NEW x \in Tasks, NEW g \in Files PROVE SentOk(x, g)'
    BY <1>1, <1>4 DEF SentInv, SentOk, Sends
  <2>7. ASSUME NEW id \in Ids, NEW g \in Files, Has(id, g) PROVE HeldOk(id, g)'
    BY <1>1, <1>2, <1>4, <2>7 DEF SentInv, HeldOk
  <2> QED
    BY <1>1, <2>2, <2>3, <2>4, <2>5, <2>6, <2>7 DEF SentInv
<1>5. CASE task' = [task EXCEPT ![t] = After(t, None)] /\ UNCHANGED <<file, stored>>
  <2>1. /\ task' \in [Tasks -> Locals] /\ \A x \in Tasks \ {t} : task'[x] = task[x]
        /\ task'[t].pc \in {"drop", "tell", "idle"} /\ task'[t].files \subseteq task[t].files
        /\ (TaskInv /\ VersionInv /\ ViewInv)'
    BY <1>3, <1>5
  <2>2. DiscussionTypes'
    BY <1>1, <1>2, <1>5, <2>1 DEF DiscussionTypes
  <2>3. /\ \A g \in Files : Forgetting(g) => Forgetting(g)'
        /\ \A g \in Files : Expendable(g)' <=> Expendable(g)
        /\ \A x \in Tasks \ {t} : (\A g \in task[x].files : stored[g] # None => stored'[g] # None \/ Forgetting(g)') => UploadOk(x)'
        /\ SentInv'
    BY <1>4, <1>5, <2>1
  <2>4. FileInv'
    BY <1>1, <1>5, <2>3 DEF FileInv, FileOk
  <2>5. UploadOk(t)'
    BY <1>2, <2>1, <2>3 DEF UploadOk
  <2>6. UploadInv'
    BY <1>5, <2>3, <2>5 DEF UploadInv
  <2> QED
    BY <2>1, <2>2, <2>3, <2>4, <2>6 DEF DiscussionInv
<1>6. ASSUME NEW f \in task[t].files, stored' = [stored EXCEPT ![f] = None],
             task' = [task EXCEPT ![t].pc = "forget", ![t].shown = {f}], file' = file
      PROVE  DiscussionInv'
  <2>1. f \in Files /\ Expendable(f)
    BY <1>2
  <2>16. task[t] \in Locals /\ {f} \in SUBSET Files /\ "forget" \in Steps
    BY <1>2, <2>1 DEF Steps, Removes
  <2>2. PICK k \in Locals : k = [task[t] EXCEPT !.pc = "forget", !.shown = {f}]
    BY <2>16 DEF Locals
  <2>3. k.pc = "forget" /\ k.shown = {f} /\ k.files = task[t].files /\ k.id = task[t].id /\ k.copy = None
    BY <1>2, <2>2 DEF Locals
  <2>4. task' = [task EXCEPT ![t] = k]
    BY <1>6, <2>2
  <2>5. task' \in [Tasks -> Locals] /\ task'[t] = k /\ \A x \in Tasks \ {t} : task'[x] = task[x]
    BY <1>2, <2>4, Becomes
  <2>6. /\ stored' \in [Files -> {"right", "wrong", None}]
        /\ \A g \in Files : stored[g] # None => stored'[g] # None \/ g = f
    BY <1>2, <1>6
  <2>7. DiscussionTypes'
    BY <1>1, <1>2, <1>6, <2>5, <2>6 DEF DiscussionTypes
  <2>8. (TaskInv /\ VersionInv /\ ViewInv)'
    <3>1. task[t].pc \in Removes
      BY <1>2 DEF Removes
    <3>2. task'[t].copy = None /\ task'[t].pc \in {"drop", "forget"} /\ task'[t].id = task[t].id
      BY <2>3, <2>5
    <3> QED
      BY <1>1, <1>2, <2>5, <3>1, <3>2, RemovalTalks
  <2>9. task'[t].pc = "forget" /\ task'[t].files \subseteq task[t].files /\ task'[t].shown = {f} /\ f \in task'[t].files
    BY <2>3, <2>5
  <2>10. /\ \A g \in Files : Forgetting(g) => Forgetting(g)'
         /\ \A g \in Files : Expendable(g)' <=> Expendable(g)
         /\ \A x \in Tasks \ {t} : (\A g \in task[x].files : stored[g] # None => stored'[g] # None \/ Forgetting(g)') => UploadOk(x)'
         /\ SentInv'
    BY <1>4, <1>6, <2>5, <2>9
  <2>11. Forgetting(f)'
    BY <2>9 DEF Forgetting
  <2>12. FileInv'
    BY <1>1, <1>6, <2>1, <2>6, <2>10, <2>11 DEF FileInv, FileOk
  <2>13. UploadOk(t)'
    BY <1>2, <2>9, <2>10 DEF UploadOk
  <2>14. \A x \in Tasks : task[x].files \subseteq Files
    BY <1>2 DEF Locals
  <2>15. UploadInv'
    BY <2>6, <2>10, <2>11, <2>13, <2>14 DEF UploadInv
  <2> QED
    BY <2>7, <2>8, <2>10, <2>12, <2>15 DEF DiscussionInv
<1>7. ASSUME NEW f \in task[t].files, stored' = stored, task' = [task EXCEPT ![t] = After(t, f)],
             file' = IF file[f] = None THEN file ELSE [file EXCEPT ![f].expires = "due"]
      PROVE  DiscussionInv'
  <2>1. /\ task' \in [Tasks -> Locals] /\ \A x \in Tasks \ {t} : task'[x] = task[x]
        /\ task'[t].pc \in {"drop", "tell", "idle"} /\ task'[t].files \subseteq task[t].files
        /\ (TaskInv /\ VersionInv /\ ViewInv)'
    BY <1>3, <1>7
  <2>2. /\ file' \in [Files -> {None} \cup FileRecord]
        /\ \A g \in Files : file'[g] = None <=> file[g] = None
        /\ \A g \in Files : file[g] # None =>
             /\ file'[g].msg = file[g].msg /\ file'[g].status = file[g].status
             /\ file'[g].expires = file[g].expires \/ g = f
        /\ file[f] # None => file'[f].expires = "due"
    <3>1. CASE file[f] = None
      BY <1>2, <1>7, <3>1
    <3>2. CASE file[f] # None
      <4>4. file[f] \in FileRecord
        BY <1>2, <3>2
      <4>1. PICK r \in FileRecord : r = [file[f] EXCEPT !.expires = "due"]
        BY <4>4 DEF FileRecord
      <4>2. r.status = file[f].status /\ r.msg = file[f].msg /\ r.expires = "due" /\ r # None
        BY <1>2, <3>2, <4>1 DEF FileRecord, DiscussionConstants
      <4>3. file' \in [Files -> {None} \cup FileRecord] /\ \A g \in Files : file'[g] = IF g = f THEN r ELSE file[g]
        BY <1>2, <1>7, <3>2, <4>1
      <4> QED
        BY <1>2, <3>2, <4>2, <4>3
    <3> QED
      BY <3>1, <3>2
  <2>3. DiscussionTypes'
    BY <1>1, <1>2, <1>7, <2>1, <2>2 DEF DiscussionTypes
  <2>4. /\ \A g \in Files : Forgetting(g) => Forgetting(g)'
        /\ \A g \in Files : Expendable(g)' <=> Expendable(g)
        /\ \A x \in Tasks \ {t} : (\A g \in task[x].files : stored[g] # None => stored'[g] # None \/ Forgetting(g)') => UploadOk(x)'
        /\ SentInv'
    BY <1>4, <2>1, <2>2
  <2>5. FileInv'
    BY <1>1, <1>2, <1>7, <2>2, <2>4 DEF FileInv, FileOk
  <2>6. UploadOk(t)'
    BY <1>2, <2>1, <2>4 DEF UploadOk
  <2>7. UploadInv'
    BY <1>7, <2>4, <2>6 DEF UploadInv
  <2> QED
    BY <2>1, <2>3, <2>4, <2>5, <2>7 DEF DiscussionInv
<1> QED
  BY <1>5, <1>6, <1>7 DEF DropFile

LEMMA ForgetFileStep ==
    ASSUME DiscussionInv, DiscussionConstants, NEW t \in Tasks, ForgetFile(t) PROVE DiscussionInv'
<1>1. DiscussionTypes /\ TaskInv /\ FileInv /\ UploadInv /\ SentInv /\ VersionInv /\ ViewInv
  BY DEF DiscussionInv
<1>2. PICK f \in task[t].files : task[t].shown = {f} /\ task[t].pc = "forget"
  BY <1>1 DEF ForgetFile, UploadInv, UploadOk
<1>3. /\ task \in [Tasks -> Locals] /\ file \in [Files -> {None} \cup FileRecord]
      /\ task[t].copy = None /\ task[t].files \subseteq Files
      /\ UNCHANGED <<open, stored, msg, view, swept, crashes>> /\ file' = [file EXCEPT ![f] = None]
      /\ task' = [task EXCEPT ![t] = [After(t, f) EXCEPT !.shown = {}]]
      /\ \A g \in task[t].files : Expendable(g)
  BY <1>1, <1>2 DEF ForgetFile, DiscussionTypes, TaskInv, TaskOk, Removes, UploadInv, UploadOk, Locals
<1>4. PICK k \in Locals : k = [After(t, f) EXCEPT !.shown = {}]
  BY <1>3, AfterFields DEF Locals
<1>5. k.shown = {} /\ k.pc = After(t, f).pc /\ k.files = After(t, f).files /\ k.id = After(t, f).id
      /\ k.copy = After(t, f).copy
  <2>1. After(t, f) \in Locals
    BY <1>3, AfterFields
  <2> QED
    BY <1>4, <2>1 DEF Locals
<1>6. task' \in [Tasks -> Locals] /\ task'[t] = k /\ \A x \in Tasks \ {t} : task'[x] = task[x]
  BY <1>3, <1>4, Becomes
<1>7. /\ task'[t].pc \in {"drop", "tell", "idle"} /\ task'[t].files \subseteq task[t].files
      /\ task'[t].copy = None
      /\ \/ task'[t].pc = "drop" /\ task'[t].id = task[t].id
         \/ task'[t].pc = "tell" /\ task'[t].id = task[t].id /\ task[t].id # None
         \/ task'[t].pc = "idle" /\ task[t].id = None /\ task'[t].id = None
  BY <1>3, <1>5, <1>6, AfterFields
<1>8. (TaskInv /\ VersionInv /\ ViewInv)'
  <2>1. task[t].pc \in Removes
    BY <1>2 DEF Removes
  <2> QED
    BY <1>1, <1>3, <1>6, <1>7, <2>1, RemovalTalks
<1>9. f \in Files /\ file' \in [Files -> {None} \cup FileRecord]
      /\ \A g \in Files : file'[g] = IF g = f THEN None ELSE file[g]
  BY <1>2, <1>3
<1>10. DiscussionTypes'
  BY <1>1, <1>3, <1>6, <1>9 DEF DiscussionTypes
<1>11. (FileInv /\ UploadInv /\ SentInv)'
  <2>1. \A x \in Tasks : task[x].pc = "insert" \/ task'[x].pc = "insert" => task'[x] = task[x]
    BY <1>2, <1>6, <1>7
  <2>2. \A g \in Files : g # f /\ Forgetting(g) => Forgetting(g)'
    BY <1>2, <1>6 DEF Forgetting
  <2>3. \A id \in Ids, g \in Files : Has(id, g)' <=> Has(id, g)
    BY <1>3, <2>1 DEF Has, There
  <2>4. \A g \in Files : Expendable(g) => Expendable(g)'
    BY <1>3, <1>9 DEF Expendable, Deleted
  <2>5. FileInv'
    BY <1>1, <1>3, <1>9, <2>2, <2>4 DEF FileInv, FileOk
  <2>6. ASSUME NEW x \in Tasks PROVE UploadOk(x)'
    <3>1. CASE x = t
      <4>1. task'[t].files \subseteq Files
        BY <1>3, <1>7
      <4> QED
        BY <1>3, <1>7, <2>4, <3>1, <4>1 DEF UploadOk
    <3>2. CASE x # t
      <4>1. UploadOk(x) /\ task'[x] = task[x] /\ task[x].files \subseteq Files
        BY <1>1, <1>3, <1>6, <3>2 DEF UploadInv, Locals
      <4>2. task[x].pc = "upload" => \A g \in task[x].files : g \notin task[t].files
        BY <1>2, <3>2, <4>1 DEF UploadOk
      <4> QED
        BY <1>3, <1>6, <1>7, <1>9, <2>2, <2>3, <2>4, <4>1, <4>2 DEF UploadOk
    <3> QED
      BY <3>1, <3>2
  <2>7. ASSUME NEW x \in Tasks, NEW g \in Files PROVE SentOk(x, g)'
    BY <1>1, <1>6, <1>7, <1>9 DEF SentInv, SentOk, Sends
  <2>8. ASSUME NEW id \in Ids, NEW g \in Files, Has(id, g) PROVE HeldOk(id, g)'
    <3>1. HeldOk(id, g)
      BY <1>1, <2>8 DEF SentInv
    <3>2. CASE g = f /\ file[f] # None
      <4>1. Expendable(f) /\ file[f].msg = id /\ id # None
        BY <1>3, <3>1, <3>2 DEF HeldOk, DiscussionConstants
      <4>2. ~Deleted(id)
        BY <1>1, <2>8 DEF Has, There, Deleted, TaskInv, TaskOk, Sends, DiscussionConstants
      <4> QED
        BY <1>3, <1>9, <3>2, <4>1, <4>2 DEF Expendable, HeldOk
    <3> QED
      BY <1>3, <1>9, <3>1, <3>2 DEF HeldOk
  <2> QED
    BY <1>1, <2>3, <2>5, <2>6, <2>7, <2>8 DEF UploadInv, SentInv
<1> QED
  BY <1>8, <1>10, <1>11 DEF DiscussionInv

LEMMA ListFilesStep ==
    ASSUME DiscussionInv, DiscussionConstants, NEW t \in Tasks, ListFiles(t) PROVE DiscussionInv'
<1>1. DiscussionTypes /\ TaskInv /\ FileInv /\ UploadInv /\ SentInv /\ VersionInv /\ ViewInv
  BY DEF DiscussionInv
<1>2. PICK F \in SUBSET Files :
        F = {f \in Files : file[f] # None /\ (IF task[t].id = None THEN TRUE ELSE file[f].msg = task[t].id)}
  OBVIOUS
<1>3. /\ task \in [Tasks -> Locals] /\ task[t].pc = "list" /\ task[t].copy = None
      /\ UNCHANGED <<open, file, stored, msg, view, swept, crashes>>
      /\ task' = [task EXCEPT ![t].pc = "drop", ![t].id = task[t].id, ![t].files = F]
      /\ task[t].id = None => ~open
      /\ task[t].id # None => Deleted(task[t].id)
  BY <1>1, <1>2 DEF ListFiles, Remove, DiscussionTypes, TaskInv, TaskOk, Removes
<1>9. task[t] \in Locals /\ "drop" \in Steps
  BY <1>3 DEF Steps, Removes
<1>4. PICK k \in Locals : k = [task[t] EXCEPT !.pc = "drop", !.files = F]
  BY <1>9 DEF Locals
<1>5. k.pc = "drop" /\ k.files = F /\ k.id = task[t].id /\ k.copy = None
  BY <1>3, <1>4 DEF Locals
<1>6. task' = [task EXCEPT ![t] = k]
  <2>1. k = [task[t] EXCEPT !.pc = "drop", !.id = task[t].id, !.files = F]
    BY <1>4, <1>9 DEF Locals
  <2> QED
    BY <1>3, <2>1
<1>7. task' \in [Tasks -> Locals] /\ task'[t] = k /\ \A x \in Tasks \ {t} : task'[x] = task[x]
  BY <1>3, <1>6, Becomes
<1>8. DiscussionTypes'
  BY <1>1, <1>3, <1>7 DEF DiscussionTypes
<1>10. (TaskInv /\ VersionInv /\ ViewInv)'
  <2>1. task[t].pc \in Removes
    BY <1>3 DEF Removes
  <2>2. task'[t].copy = None /\ task'[t].pc \in {"drop", "forget"} /\ task'[t].id = task[t].id
    BY <1>5, <1>7
  <2> QED
    BY <1>1, <1>3, <1>7, <2>1, <2>2, RemovalTalks
<1>11. (FileInv /\ UploadInv /\ SentInv)'
  <2>1. task[t].pc \notin {"forget"} \cup Sends /\ task'[t].pc = "drop"
    BY <1>3, <1>5, <1>7 DEF Sends
  <2>2. \A f \in task'[t].files : file[f] # None /\ Expendable(f)
    BY <1>2, <1>3, <1>5, <1>7 DEF Expendable
  <2> QED
    BY <1>1, <1>3, <1>7, <2>1, <2>2, TakesFiles
<1> QED
  BY <1>8, <1>10, <1>11 DEF DiscussionInv

LEMMA DeleteStep ==
    ASSUME DiscussionInv, DiscussionConstants, NEW t \in Tasks, NEW u \in Users, NEW id \in Ids, Delete(t, u, id)
    PROVE  DiscussionInv'
<1>1. DiscussionTypes /\ TaskInv /\ FileInv /\ UploadInv /\ SentInv /\ VersionInv /\ ViewInv
  BY DEF DiscussionInv
<1>2. /\ task \in [Tasks -> Locals] /\ task[t].pc = "idle" /\ task[t].id = None /\ msg[id] # None
      /\ UNCHANGED <<open, file, stored, msg, view, swept, crashes>>
  BY <1>1, IdleFields DEF Delete, There, DiscussionTypes
<1>3. PICK k \in Locals : k = [Idle EXCEPT !.pc = "delete", !.id = id]
  BY IdleFields DEF Locals, Steps
<1>4. k.pc = "delete" /\ k.id = id /\ k.copy = None
  BY <1>3, IdleFields DEF Locals
<1>5. task' \in [Tasks -> Locals] /\ task'[t] = k /\ \A x \in Tasks \ {t} : task'[x] = task[x]
  BY <1>2, <1>3, Becomes DEF Delete
<1>6. DiscussionTypes'
  BY <1>1, <1>2, <1>5 DEF DiscussionTypes
<1>7. TaskInv'
  <2>1. TaskOk(t)'
    BY <1>2, <1>4, <1>5 DEF TaskOk, Sends, Reacts, Removes
  <2>2. \A x \in Tasks : task[x].id \in Ids \cup {None}
    BY <1>2 DEF Locals
  <2> QED
    BY <1>1, <1>2, <1>4, <1>5, <2>1, <2>2, TaskFrame DEF DiscussionConstants, Deleted
<1>8. (VersionInv /\ ViewInv)'
  <2>1. task[t].pc \notin {"tell", "prune", "reread", "look"} \cup Removes
    BY <1>2 DEF Removes
  <2>2. task'[t].pc \notin {"tell", "seek", "join", "start", "leave"}
    BY <1>4, <1>5
  <2> QED
    BY <1>1, <1>2, <1>5, <2>1, <2>2, QuietStep
<1>9. (FileInv /\ UploadInv /\ SentInv)'
  <2>1. \A j \in Ids, f \in Files : Has(j, f)' => Has(j, f)
    BY <1>2, <1>4, <1>5 DEF Has, There
  <2>2. task[t].pc # "forget" /\ task'[t].pc \notin {"upload", "ready", "drop", "forget"} \cup Sends
    BY <1>2, <1>4, <1>5 DEF Sends
  <2> QED
    BY <1>1, <1>2, <1>5, <2>1, <2>2, FilesFrame DEF Deleted, DiscussionTypes
<1> QED
  BY <1>6, <1>7, <1>8, <1>9 DEF DiscussionInv

LEMMA DeleteDecisionStep ==
    ASSUME DiscussionInv, DiscussionConstants, NEW t \in Tasks, DeleteDecision(t) PROVE DiscussionInv'
<1>1. DiscussionTypes /\ TaskInv /\ FileInv /\ UploadInv /\ SentInv /\ VersionInv /\ ViewInv
  BY DEF DiscussionInv
<1>2. /\ task \in [Tasks -> Locals] /\ task[t].pc = "idle" /\ task[t].id = None /\ open' = FALSE
      /\ UNCHANGED <<file, stored, msg, view, swept, crashes>>
  BY <1>1, IdleFields DEF DeleteDecision, DiscussionTypes
<1>3. PICK k \in Locals : k = [Idle EXCEPT !.pc = "messages"]
  BY IdleFields DEF Locals, Steps
<1>4. k.pc = "messages" /\ k.id = None /\ k.copy = None
  BY <1>3, IdleFields DEF Locals
<1>5. task' \in [Tasks -> Locals] /\ task'[t] = k /\ \A x \in Tasks \ {t} : task'[x] = task[x]
  BY <1>2, <1>3, Becomes DEF DeleteDecision
<1>6. DiscussionTypes'
  BY <1>1, <1>2, <1>5 DEF DiscussionTypes
<1>7. TaskInv'
  <2>1. TaskOk(t)'
    BY <1>2, <1>4, <1>5 DEF TaskOk, Sends, Reacts, Removes
  <2>2. \A x \in Tasks : task[x].id \in Ids \cup {None}
    BY <1>2 DEF Locals
  <2> QED
    BY <1>1, <1>2, <1>4, <1>5, <2>1, <2>2, TaskFrame DEF DiscussionConstants, Deleted
<1>8. (VersionInv /\ ViewInv)'
  <2>1. task[t].pc \notin {"tell", "prune", "reread", "look"} \cup Removes
    BY <1>2 DEF Removes
  <2>2. task'[t].pc \notin {"tell", "seek", "join", "start", "leave"}
    BY <1>4, <1>5
  <2> QED
    BY <1>1, <1>2, <1>5, <2>1, <2>2, QuietStep
<1>9. (FileInv /\ UploadInv /\ SentInv)'
  <2>1. \A j \in Ids, f \in Files : Has(j, f)' => Has(j, f)
    BY <1>2, <1>4, <1>5 DEF Has, There
  <2>2. task[t].pc # "forget" /\ task'[t].pc \notin {"upload", "ready", "drop", "forget"} \cup Sends
    BY <1>2, <1>4, <1>5 DEF Sends
  <2> QED
    BY <1>1, <1>2, <1>5, <2>1, <2>2, FilesFrame DEF Deleted, DiscussionTypes
<1> QED
  BY <1>6, <1>7, <1>8, <1>9 DEF DiscussionInv

\* Messages are deleted: one by a task that goes on to tell of it, or all with the
\* decision.
LEMMA GoneStep ==
    ASSUME DiscussionInv, DiscussionConstants, NEW t \in Tasks, NEW D \in SUBSET Ids,
           UNCHANGED <<open, file, stored, view, swept, crashes>>, Goto(t, "list"),
           task[t].pc \in {"delete", "messages"}, \A id \in D : msg[id] # None,
           msg' = [id \in Ids |-> IF id \in D THEN Gone ELSE msg[id]],
           task[t].pc = "delete" => D = {task[t].id}
    PROVE  DiscussionInv'
<1>1. DiscussionTypes /\ TaskInv /\ FileInv /\ UploadInv /\ SentInv /\ VersionInv /\ ViewInv
  BY DEF DiscussionInv
<1>2. task \in [Tasks -> Locals] /\ msg \in [Ids -> {None, Gone} \cup Copy] /\ task[t].copy = None
      /\ (task[t].pc = "messages" => ~open /\ task[t].id = None)
  BY <1>1 DEF DiscussionTypes, TaskInv, TaskOk
<1>3. /\ task' \in [Tasks -> Locals] /\ (\A x \in Tasks \ {t} : task'[x] = task[x])
      /\ task'[t].pc = "list" /\ task'[t].id = task[t].id /\ task'[t].copy = None
  <2>1. "list" \in Steps
    BY DEF Steps, Removes
  <2> QED
    BY <1>2, <2>1, Goes
<1>4. /\ msg' \in [Ids -> {None, Gone} \cup Copy]
      /\ \A id \in Ids : msg'[id] = IF id \in D THEN Gone ELSE msg[id]
  BY <1>2
<1>5. /\ \A id \in Ids : Deleted(id) => Deleted(id)'
      /\ \A id \in Ids : There(id)' <=> There(id) /\ id \notin D
  BY <1>4 DEF Deleted, There
<1>6. DiscussionTypes'
  BY <1>1, <1>3, <1>4 DEF DiscussionTypes
<1>7. TaskInv'
  <2>0. task[t].pc = "delete" => task[t].id \in Ids /\ task[t].id \in D
    BY <1>1 DEF TaskInv, TaskOk
  <2>1. task[t].pc = "delete" => msg'[task[t].id] = Gone
    BY <1>4, <2>0
  <2>2. TaskOk(t)'
    BY <1>2, <1>3, <2>0, <2>1 DEF TaskOk, Deleted, Sends, Reacts, Removes, DiscussionConstants
  <2>3. \A x \in Tasks : task[x].id \in Ids \cup {None}
    BY <1>2 DEF Locals
  <2>4. \A id \in Ids : /\ msg[id] # None => msg'[id] # None
                        /\ msg[id] = None => msg'[id] = None
    BY <1>4 DEF DiscussionConstants
  <2> QED
    BY <1>1, <1>2, <1>3, <1>5, <2>2, <2>3, <2>4, TaskFrame DEF DiscussionConstants
<1>8. (FileInv /\ UploadInv /\ SentInv)'
  <2>1. \A j \in Ids, f \in Files : Has(j, f)' => Has(j, f)
    BY <1>3, <1>4, <1>5 DEF Has
  <2>2. task[t].pc # "forget" /\ task'[t].pc \notin {"upload", "ready", "drop", "forget"} \cup Sends
    BY <1>3 DEF Sends
  <2> QED
    BY <1>1, <1>2, <1>3, <1>5, <2>1, <2>2, FilesFrame DEF DiscussionTypes
<1>9. VersionInv'
  <2> SUFFICES ASSUME NEW id \in Ids, There(id), id \notin D
               PROVE  msg[id].version + Cardinality(Working(id)') <= MaxVersion + Cardinality(Tasks)
    BY <1>4, <1>5 DEF VersionInv
  <2>1. Working(id)' = Working(id)
    BY <1>3 DEF Working
  <2> QED
    BY <1>1, <2>1 DEF VersionInv
<1>10. ViewInv'
  <2>1. ASSUME NEW id \in Ids
        PROVE  /\ msg'[id] = None => view[id] = None
               /\ view[id] = Gone => Deleted(id)'
               /\ There(id)' /\ view[id] # None => Past(view[id], msg'[id])
               /\ There(id)' => Current(id)' \/ \E x \in Tasks : Tells(x, id)'
               /\ open /\ Deleted(id)' => view[id] = Gone \/ \E x \in Tasks : TellsGone(x, id)'
    <3>1. CASE id \in D
      <4>1. Deleted(id)' /\ ~There(id)' /\ msg'[id] # None
        BY <1>4, <1>5, <3>1 DEF Deleted, DiscussionConstants
      <4>2. open => TellsGone(t, id)'
        BY <1>2, <1>3, <3>1 DEF TellsGone, Removes
      <4> QED
        BY <4>1, <4>2
    <3>2. CASE id \notin D
      <4>1. msg'[id] = msg[id] /\ (There(id)' <=> There(id)) /\ (Deleted(id)' <=> Deleted(id)) /\ (Current(id)' <=> Current(id))
        BY <1>4, <3>2 DEF There, Deleted, Current
      <4>2. \A x \in Tasks : Tells(x, id) => Tells(x, id)'
        BY <1>3, <4>1 DEF Tells, Groups
      <4>3. \A x \in Tasks : TellsGone(x, id) => TellsGone(x, id)'
        BY <1>3 DEF TellsGone, Removes
      <4> QED
        BY <1>1, <4>1, <4>2, <4>3 DEF ViewInv
    <3> QED
      BY <3>1, <3>2
  <2>2. ASSUME NEW x \in Tasks, task'[x].pc = "tell", task'[x].copy # None, msg'[task'[x].id] \notin {None, Gone}
        PROVE  Past(task'[x].copy, msg'[task'[x].id])
    <3>1. task'[x] = task[x] /\ task[x].id \in Ids
      BY <1>1, <1>3, <2>2 DEF TaskInv, TaskOk
    <3>2. There(task[x].id) /\ msg'[task[x].id] = msg[task[x].id]
      BY <1>4, <2>2, <3>1 DEF There
    <3>3. Past(task[x].copy, msg[task[x].id])
      BY <1>1, <2>2, <3>1, <3>2 DEF ViewInv
    <3> QED
      BY <3>1, <3>2, <3>3
  <2> QED
    BY <2>1, <2>2 DEF ViewInv, There
<1> QED
  BY <1>6, <1>7, <1>8, <1>9, <1>10 DEF DiscussionInv

LEMMA DeletionStep ==
    ASSUME DiscussionInv, DiscussionConstants, NEW t \in Tasks, DeleteOne(t) \/ DeleteMessages(t)
    PROVE  DiscussionInv'
<1>1. msg \in [Ids -> {None, Gone} \cup Copy] /\ TaskInv
  BY DEF DiscussionInv, DiscussionTypes
<1>2. CASE DeleteOne(t)
  <2>1. task[t].pc = "delete" /\ task[t].id \in Ids /\ msg[task[t].id] # None
    BY <1>1, <1>2 DEF DeleteOne, TaskInv, TaskOk
  <2>2. PICK D \in SUBSET Ids : D = {task[t].id}
    BY <2>1
  <2>3. msg' = [id \in Ids |-> IF id \in D THEN Gone ELSE msg[id]]
    BY <1>1, <1>2, <2>2 DEF DeleteOne
  <2>4. UNCHANGED <<open, file, stored, view, swept, crashes>> /\ Goto(t, "list")
    BY <1>2 DEF DeleteOne
  <2>5. \A id \in D : msg[id] # None
    BY <2>1, <2>2
  <2> QED
    BY <2>1, <2>2, <2>3, <2>4, <2>5, GoneStep
<1>3. CASE DeleteMessages(t)
  <2>1. PICK D \in SUBSET Ids : D = {id \in Ids : There(id)}
    OBVIOUS
  <2>2. msg' = [id \in Ids |-> IF id \in D THEN Gone ELSE msg[id]]
    BY <1>3, <2>1 DEF DeleteMessages
  <2>3. \A id \in D : msg[id] # None
    BY <2>1 DEF There
  <2> QED
    BY <1>3, <2>2, <2>3, GoneStep DEF DeleteMessages
<1> QED
  BY <1>2, <1>3

\* The viewers take what is told.
LEMMA PublishStep ==
    ASSUME DiscussionInv, DiscussionConstants, NEW t \in Tasks, Publish(t) PROVE DiscussionInv'
<1>1. DiscussionTypes /\ TaskInv /\ FileInv /\ UploadInv /\ SentInv /\ VersionInv /\ ViewInv
  BY DEF DiscussionInv
<1>2. /\ task \in [Tasks -> Locals] /\ task[t].pc = "tell" /\ Over(t)
      /\ UNCHANGED <<open, file, stored, msg, swept, crashes>>
  BY <1>1 DEF Publish, DiscussionTypes
<1>3. PICK id \in Ids : id = task[t].id
  BY <1>1, <1>2 DEF TaskInv, TaskOk
<1>4. PICK c \in Copy \cup {None} : c = task[t].copy
  BY <1>2 DEF Locals
<1>5. msg[id] # None /\ (c = None => Deleted(id)) /\ (c # None /\ There(id) => Past(c, msg[id]))
  BY <1>1, <1>2, <1>3, <1>4 DEF TaskInv, TaskOk, ViewInv
<1>6. /\ task' \in [Tasks -> Locals] /\ (\A x \in Tasks \ {t} : task'[x] = task[x])
      /\ task'[t].pc = "idle" /\ task'[t].id = None
  BY <1>2, Ends
<1>7. /\ view \in [Ids -> {None, Gone} \cup Copy] /\ msg \in [Ids -> {None, Gone} \cup Copy]
      /\ view' = [view EXCEPT ![id] = Newest(view[id], c)]
  BY <1>1, <1>3, <1>4 DEF Publish, DiscussionTypes
<1>8. /\ Newest(view[id], c) \in {Gone} \cup Copy
      /\ c = None => Newest(view[id], c) = Gone
      /\ view[id] = Gone => Newest(view[id], c) = Gone
      /\ c # None /\ view[id] # Gone =>
           \/ Newest(view[id], c) = c /\ (view[id] = None \/ ~(view[id].version > c.version))
           \/ Newest(view[id], c) = view[id] /\ view[id] \in Copy /\ view[id].version > c.version
  BY <1>7 DEF Newest, DiscussionConstants
<1>9. /\ view' \in [Ids -> {None, Gone} \cup Copy] /\ view'[id] = Newest(view[id], c)
      /\ \A j \in Ids \ {id} : view'[j] = view[j]
  BY <1>7, <1>8
<1>10. DiscussionTypes'
  BY <1>1, <1>2, <1>6, <1>9 DEF DiscussionTypes
<1>11. TaskInv'
  <2>1. TaskOk(t)'
    BY <1>6 DEF TaskOk, Sends, Reacts, Removes
  <2>2. \A x \in Tasks : task[x].id \in Ids \cup {None}
    BY <1>2 DEF Locals
  <2> QED
    BY <1>1, <1>2, <1>6, <2>1, <2>2, TaskFrame DEF DiscussionConstants, Deleted
<1>12. (FileInv /\ UploadInv /\ SentInv)'
  <2>1. \A j \in Ids, f \in Files : Has(j, f)' => Has(j, f)
    BY <1>2, <1>6 DEF Has, There
  <2>2. task[t].pc # "forget" /\ task'[t].pc \notin {"upload", "ready", "drop", "forget"} \cup Sends
    BY <1>2, <1>6 DEF Sends
  <2> QED
    BY <1>1, <1>2, <1>6, <2>1, <2>2, FilesFrame DEF Deleted, DiscussionTypes
<1>13. VersionInv'
  <2>1. \A j \in Ids : Working(j)' = Working(j)
    BY <1>2, <1>6 DEF Working
  <2> QED
    BY <1>1, <1>2, <2>1 DEF VersionInv, There
<1>14. ASSUME NEW j \in Ids, j # id
       PROVE  /\ There(j) => Current(j)' \/ \E x \in Tasks : Tells(x, j)'
              /\ open /\ Deleted(j) => view'[j] = Gone \/ \E x \in Tasks : TellsGone(x, j)'
  <2>1. \A x \in Tasks : (Tells(x, j) => Tells(x, j)') /\ (TellsGone(x, j) => TellsGone(x, j)')
    BY <1>2, <1>3, <1>6, <1>14 DEF Tells, TellsGone, Groups
  <2> QED
    BY <1>1, <1>2, <1>9, <1>14, <2>1 DEF ViewInv, Current
<1>15. ASSUME There(id)
       PROVE  Past(view'[id], msg[id]) /\ (Current(id)' \/ \E x \in Tasks : Tells(x, id)') /\ view'[id] # Gone
  <2>1. c \in Copy /\ c # None /\ Past(c, msg[id]) /\ view[id] # Gone /\ msg[id] \in Copy
    BY <1>1, <1>4, <1>5, <1>7, <1>15 DEF ViewInv, There, Deleted
  <2>2. view'[id] \in Copy /\ view'[id] \notin {None, Gone}
    <3>1. Gone \notin Copy
      BY DEF Gone, Copy
    <3>2. view'[id] \in Copy
      BY <1>8, <1>9, <2>1
    <3> QED
      BY <3>1, <3>2 DEF DiscussionConstants
  <2>3. view[id] # None => view[id] \in Copy /\ Past(view[id], msg[id])
    BY <1>1, <1>7, <1>15, <2>1 DEF ViewInv
  <2>4. Past(view'[id], msg[id])
    <3>1. CASE view'[id] = c
      BY <2>1, <3>1 DEF Past
    <3>2. CASE view'[id] = view[id]
      BY <2>2, <2>3, <3>2 DEF Past
    <3> QED
      BY <1>8, <1>9, <2>1, <3>1, <3>2
  <2>5. c.version \in Nat /\ msg[id].version \in Nat /\ c.version <= msg[id].version /\ view'[id].version \in Nat
        /\ view'[id].version <= msg[id].version /\ view'[id].version >= c.version
        /\ (view[id] # None => view[id].version \in Nat /\ view[id].version <= msg[id].version /\ view'[id].version >= view[id].version)
    BY <1>8, <1>9, <2>1, <2>2, <2>3, <2>4 DEF Past, Copy
  <2>6. CASE Current(id)
    BY <1>2, <2>2, <2>4, <2>5, <2>6 DEF Current
  <2>7. CASE Tells(t, id)
    <3>1. c.version = msg[id].version
      BY <1>2, <1>4, <2>7 DEF Tells
    <3> QED
      BY <1>2, <2>2, <2>4, <2>5, <3>1 DEF Current
  <2>8. ASSUME NEW x \in Tasks \ {t}, Tells(x, id) PROVE Tells(x, id)'
    BY <1>2, <1>6, <2>8 DEF Tells, Groups
  <2> QED
    BY <1>1, <1>15, <2>2, <2>4, <2>6, <2>7, <2>8 DEF ViewInv
<1>16. ASSUME open, Deleted(id) PROVE view'[id] = Gone \/ \E x \in Tasks : TellsGone(x, id)'
  <2>1. CASE view[id] = Gone \/ c = None
    BY <1>8, <1>9, <2>1
  <2>2. CASE view[id] # Gone /\ c # None
    <3>1. PICK x \in Tasks : TellsGone(x, id)
      BY <1>1, <1>16, <2>2 DEF ViewInv
    <3>2. x # t
      BY <1>2, <1>4, <2>2, <3>1 DEF TellsGone, Removes
    <3> QED
      BY <1>6, <3>1, <3>2 DEF TellsGone
  <2> QED
    BY <2>1, <2>2
<1>17. ViewInv'
  <2>1. ASSUME NEW j \in Ids
        PROVE  /\ msg[j] = None => view'[j] = None
               /\ view'[j] = Gone => Deleted(j)
               /\ There(j) /\ view'[j] # None => Past(view'[j], msg[j])
               /\ There(j) => Current(j)' \/ \E x \in Tasks : Tells(x, j)'
               /\ open /\ Deleted(j) => view'[j] = Gone \/ \E x \in Tasks : TellsGone(x, j)'
    <3>1. CASE j = id
      BY <1>5, <1>15, <1>16, <3>1 DEF There, Deleted
    <3>2. CASE j # id
      BY <1>1, <1>9, <1>14, <3>2 DEF ViewInv
    <3> QED
      BY <3>1, <3>2
  <2>2. ASSUME NEW x \in Tasks, task'[x].pc = "tell", task'[x].copy # None, There(task'[x].id)
        PROVE  Past(task'[x].copy, msg[task'[x].id])
    BY <1>1, <1>6, <2>2 DEF ViewInv
  <2> QED
    BY <1>2, <2>1, <2>2 DEF ViewInv, There, Deleted
<1> QED
  BY <1>10, <1>11, <1>12, <1>13, <1>17 DEF DiscussionInv

-----------------------------------------------------------------------------
(***************************************************************************)
(* Sending                                                                 *)
(***************************************************************************)

LEMMA SendStep ==
    ASSUME DiscussionInv, DiscussionConstants, NEW t \in Tasks, NEW u \in Users, NEW c \in Clients,
           NEW F \in SUBSET Files, NEW id \in Ids, Send(t, u, c, F, id)
    PROVE  DiscussionInv'
<1>1. DiscussionTypes /\ TaskInv /\ FileInv /\ UploadInv /\ SentInv /\ VersionInv /\ ViewInv
  BY DEF DiscussionInv
<1>2. /\ task \in [Tasks -> Locals] /\ task[t].pc = "idle" /\ task[t].id = None
      /\ UNCHANGED <<open, file, stored, msg, view, swept, crashes>>
      /\ msg[id] = None /\ (\A x \in Tasks : task[x].id # id)
      /\ \A f \in Files : file[f] # None => file[f].msg # id
  BY <1>1, IdleFields DEF Send, Fresh, DiscussionTypes
<1>3. PICK pc \in {"insert", "claim"} : pc = IF F = {} THEN "insert" ELSE "claim"
  OBVIOUS
<1>4. PICK k \in Locals : k = [Idle EXCEPT !.pc = pc, !.by = u, !.client = c, !.files = F, !.id = id]
  BY IdleFields DEF Locals, Steps, Sends
<1>5. k.pc = pc /\ k.by = u /\ k.client = c /\ k.files = F /\ k.id = id /\ k.shown = {}
  BY <1>4, IdleFields DEF Locals
<1>6. task' \in [Tasks -> Locals] /\ task'[t] = k /\ \A x \in Tasks \ {t} : task'[x] = task[x]
  <2> DEFINE Sending(p) == [Idle EXCEPT !.pc = p, !.by = u, !.client = c, !.files = F, !.id = id]
  <2>1. task' = [task EXCEPT ![t] = Sending(IF F = {} THEN "insert" ELSE "claim")] /\ k = Sending(pc)
    BY <1>4 DEF Send
  <2> HIDE DEF Sending
  <2>2. task' = [task EXCEPT ![t] = k]
    BY <1>3, <2>1
  <2> QED
    BY <1>2, <2>2, Becomes
<1>7. DiscussionTypes'
  BY <1>1, <1>2, <1>6 DEF DiscussionTypes
<1>8. TaskInv'
  <2>1. TaskOk(t)'
    BY <1>2, <1>5, <1>6 DEF TaskOk, Sends, Reacts, Removes
  <2>2. \A x \in Tasks : task[x].id \in Ids \cup {None}
    BY <1>2 DEF Locals
  <2>3. \A x \in Tasks : task[x].id # task'[t].id
    BY <1>2, <1>5, <1>6
  <2> QED
    BY <1>1, <1>2, <1>6, <2>1, <2>2, <2>3, TaskFrame DEF DiscussionConstants, Deleted
<1>9. (VersionInv /\ ViewInv)'
  <2>1. task[t].pc \notin {"tell", "prune", "reread", "look"} \cup Removes
    BY <1>2 DEF Removes
  <2>2. task'[t].pc \notin {"tell", "seek", "join", "start", "leave"}
    BY <1>5, <1>6
  <2> QED
    BY <1>1, <1>2, <1>6, <2>1, <2>2, QuietStep
<1>10. (FileInv /\ UploadInv /\ SentInv)'
  <2>1. \A g \in Files : (Forgetting(g)' <=> Forgetting(g)) /\ (Expendable(g)' <=> Expendable(g))
    BY <1>2, <1>5, <1>6 DEF Forgetting, Expendable, Deleted
  <2>2. \A i \in Ids, g \in Files : Has(i, g)' <=> Has(i, g)
    BY <1>2, <1>5, <1>6 DEF Has, There
  <2>3. FileInv'
    BY <1>1, <1>2, <2>1 DEF FileInv, FileOk
  <2>4. ASSUME NEW x \in Tasks PROVE UploadOk(x)'
    <3>1. CASE x = t
      BY <1>5, <1>6, <3>1 DEF UploadOk
    <3>2. CASE x # t
      <4>1. UploadOk(x) /\ task'[x] = task[x] /\ task[x].files \subseteq Files
        BY <1>1, <1>2, <1>6, <3>2 DEF UploadInv, Locals
      <4> QED
        BY <1>2, <1>5, <1>6, <2>1, <2>2, <4>1 DEF UploadOk
    <3> QED
      BY <3>1, <3>2
  <2>5. ASSUME NEW x \in Tasks, NEW g \in Files PROVE SentOk(x, g)'
    BY <1>1, <1>2, <1>5, <1>6 DEF SentInv, SentOk
  <2> QED
    BY <1>1, <1>2, <2>2, <2>3, <2>4, <2>5 DEF UploadInv, SentInv, HeldOk
<1> QED
  BY <1>7, <1>8, <1>9, <1>10 DEF DiscussionInv

\* Files become the message's, but for those that a removal had taken up.
LEMMA ClaimStep ==
    ASSUME DiscussionInv, DiscussionConstants, NEW t \in Tasks, Claim(t) PROVE DiscussionInv'
<1>1. DiscussionTypes /\ TaskInv /\ FileInv /\ UploadInv /\ SentInv /\ VersionInv /\ ViewInv
  BY DEF DiscussionInv
<1> DEFINE Marked(f) == [file[f] EXCEPT !.msg = task[t].id, !.expires = "never"]
<1>0. task[t].pc = "claim" /\ UNCHANGED <<open, stored, msg, view, crashes>>
  BY Zenon DEF Claim
<1>a. Goto(t, IF Claimable(t) = task[t].files THEN "shown" ELSE "unclaim")
  BY Zenon DEF Claim
<1>b. file' = [f \in Files |-> IF f \in Claimable(t) THEN Marked(f) ELSE file[f]]
  BY Zenon DEF Claim
<1>c. swept' = swept \cup {f \in Claimable(t) :
                  \E x \in Tasks \ {t} : f \in task[x].files /\ task[x].pc \in {"drop", "forget"}}
  BY Zenon DEF Claim
<1> HIDE DEF Marked
<1>2. /\ task \in [Tasks -> Locals] /\ file \in [Files -> {None} \cup FileRecord] /\ task[t].pc = "claim"
      /\ UNCHANGED <<open, stored, msg, view, crashes>>
  BY <1>0, <1>1 DEF DiscussionTypes
<1>3. PICK id \in Ids : id = task[t].id
  BY <1>1, <1>2 DEF TaskInv, TaskOk, Sends
<1>4. msg[id] = None /\ \A x \in Tasks \ {t} : task[x].id # id
  BY <1>1, <1>2, <1>3 DEF TaskInv, TaskOk, Sends
<1>5. PICK mine \in SUBSET Files : mine = Claimable(t)
  BY <1>2 DEF Claimable, Locals
<1>6. \A f \in mine : f \in task[t].files /\ file[f] # None /\ file[f].status = "ready" /\ file[f].msg = None
  BY <1>5 DEF Claimable
<1>7. PICK pc \in {"shown", "unclaim"} : pc = IF mine = task[t].files THEN "shown" ELSE "unclaim"
  OBVIOUS
<1>8. pc \in Steps
  BY DEF Steps, Sends
<1>9. /\ task' \in [Tasks -> Locals] /\ (\A x \in Tasks \ {t} : task'[x] = task[x])
      /\ task'[t].pc = pc /\ task'[t].id = id /\ task'[t].files = task[t].files /\ task'[t].by = task[t].by
      /\ task'[t].client = task[t].client
  BY <1>a, <1>2, <1>3, <1>5, <1>7, <1>8, Goes
<1>10. ASSUME NEW f \in Files
       PROVE  /\ file'[f] \in {None} \cup FileRecord /\ (f \notin mine => file'[f] = file[f])
              /\ f \in mine => /\ file'[f] # None /\ file'[f].status = "ready" /\ file'[f].msg = id
                               /\ file'[f].expires = "never"
  <2>1. file'[f] = IF f \in mine THEN Marked(f) ELSE file[f]
    BY <1>b, <1>5
  <2>2. CASE f \in mine
    <3>1. PICK r \in FileRecord : r = file[f]
      BY <1>2, <1>6, <2>2
    <3>2. PICK q \in FileRecord : q = [r EXCEPT !.msg = id, !.expires = "never"]
      BY <3>1 DEF FileRecord
    <3>4. Marked(f) = q
      BY <1>3, <3>1, <3>2 DEF Marked
    <3>3. q \in FileRecord /\ q.status = "ready" /\ q.msg = id /\ q.expires = "never" /\ q # None
      BY <1>6, <2>2, <3>1, <3>2 DEF FileRecord, DiscussionConstants
    <3> QED
      BY <1>6, <2>1, <2>2, <3>3, <3>4
  <2> QED
    BY <1>2, <2>1, <2>2
<1>11. file' \in [Files -> {None} \cup FileRecord]
  BY <1>b, <1>10
<1>12. /\ swept' \subseteq Files /\ swept \subseteq swept'
       /\ \A f \in mine, x \in Tasks \ {t} : f \in task[x].files /\ task[x].pc \in {"drop", "forget"} => f \in swept'
  BY <1>c, <1>1, <1>5 DEF DiscussionTypes
<1>13. DiscussionTypes'
  BY <1>1, <1>2, <1>9, <1>11, <1>12 DEF DiscussionTypes
<1>14. TaskInv'
  <2>1. TaskOk(t)'
    BY <1>1, <1>2, <1>3, <1>4, <1>9 DEF TaskInv, TaskOk, Sends, Reacts, Removes
  <2>2. \A x \in Tasks : task[x].id \in Ids \cup {None}
    BY <1>2 DEF Locals
  <2> QED
    BY <1>1, <1>2, <1>3, <1>9, <2>1, <2>2, TaskFrame DEF DiscussionConstants, Deleted
<1>15. (VersionInv /\ ViewInv)'
  <2>1. task[t].pc \notin {"tell", "prune", "reread", "look"} \cup Removes
    BY <1>2 DEF Removes
  <2>2. task'[t].pc \notin {"tell", "seek", "join", "start", "leave"}
    BY <1>9
  <2> QED
    BY <1>1, <1>2, <1>9, <2>1, <2>2, QuietStep
<1>16. \A g \in Files : Forgetting(g)' <=> Forgetting(g)
  BY <1>2, <1>9 DEF Forgetting
<1>17. \A i \in Ids, g \in Files : Has(i, g)' <=> Has(i, g)
  BY <1>2, <1>9 DEF Has, There
<1>18. \A g \in Files : Expendable(g) => Expendable(g)' \/ g \in mine \ swept'
  BY <1>2, <1>10, <1>12 DEF Expendable, Deleted
<1>19. ASSUME NEW f \in Files, file'[f] # None PROVE FileOk(f)'
  <2>1. CASE f \notin mine
    <3>1. FileOk(f) /\ file'[f] = file[f]
      BY <1>1, <1>10, <1>19, <2>1 DEF FileInv
    <3> QED
      BY <1>2, <1>16, <1>18, <2>1, <3>1 DEF FileOk
  <2>2. CASE f \in mine
    <3>1. FileOk(f) /\ file[f].status = "ready"
      BY <1>1, <1>6, <2>2 DEF FileInv
    <3>2. stored[f] # None \/ Expendable(f)'
      <4>1. CASE Forgetting(f)
        <5>1. PICK x \in Tasks : task[x].pc = "forget" /\ f \in task[x].shown
          BY <4>1 DEF Forgetting
        <5>2. f \in task[x].files /\ x # t
          BY <1>1, <1>2, <5>1 DEF UploadInv, UploadOk
        <5> QED
          BY <1>12, <2>2, <5>1, <5>2 DEF Expendable
      <4> QED
        BY <3>1, <4>1 DEF FileOk
    <3> QED
      BY <1>2, <1>10, <1>16, <2>2, <3>1, <3>2 DEF FileOk
  <2> QED
    BY <2>1, <2>2
<1>20. ASSUME NEW x \in Tasks PROVE UploadOk(x)'
  <2>1. CASE x = t
    BY <1>9, <2>1 DEF UploadOk
  <2>2. CASE x # t
    <3>1. UploadOk(x) /\ task'[x] = task[x] /\ task[x].files \subseteq Files
      BY <1>1, <1>2, <1>9, <2>2 DEF UploadInv, Locals
    <3>2. task[x].pc \in {"drop", "forget"} => \A f \in task[x].files : Expendable(f)'
      BY <1>12, <1>18, <2>2, <3>1 DEF UploadOk
    <3>3. task[x].pc = "upload" => \A f \in task[x].files : file'[f] = None
      BY <1>6, <1>10, <3>1 DEF UploadOk
    <3>4. task[x].pc = "ready" => \A f \in task[x].files : file'[f] = None \/ stored'[f] # None \/ Forgetting(f)'
      BY <1>2, <1>6, <1>10, <1>16, <3>1 DEF UploadOk
    <3> QED
      BY <1>2, <1>9, <1>17, <3>1, <3>2, <3>3, <3>4 DEF UploadOk
  <2> QED
    BY <2>1, <2>2
<1>21. ASSUME NEW x \in Tasks, NEW f \in Files PROVE SentOk(x, f)'
  <2>1. SentOk(x, f)
    BY <1>1 DEF SentInv
  <2>2. CASE x = t
    BY <1>2, <1>3, <1>6, <1>9, <1>10, <2>1, <2>2 DEF SentOk, Sends
  <2>3. CASE x # t
    BY <1>4, <1>9, <1>10, <2>1, <2>3 DEF SentOk
  <2> QED
    BY <2>2, <2>3
<1>22. ASSUME NEW i \in Ids, NEW f \in Files, Has(i, f) PROVE HeldOk(i, f)'
  <2>1. HeldOk(i, f) /\ i # None
    BY <1>1, <1>22 DEF SentInv, DiscussionConstants
  <2> QED
    BY <1>2, <1>6, <1>10, <1>12, <2>1 DEF HeldOk
<1> QED
  BY <1>1, <1>13, <1>14, <1>15, <1>17, <1>19, <1>20, <1>21, <1>22 DEF DiscussionInv, FileInv, UploadInv, SentInv

\* The message shows what is its own.
LEMMA ReadClaimedStep ==
    ASSUME DiscussionInv, DiscussionConstants, NEW t \in Tasks, ReadClaimed(t) PROVE DiscussionInv'
<1>1. DiscussionTypes /\ TaskInv /\ FileInv /\ UploadInv /\ SentInv /\ VersionInv /\ ViewInv
  BY DEF DiscussionInv
<1>2. /\ task \in [Tasks -> Locals] /\ task[t].pc = "shown"
      /\ UNCHANGED <<open, file, stored, msg, view, swept, crashes>>
  BY <1>1 DEF ReadClaimed, DiscussionTypes
<1>3. PICK F \in SUBSET Files : F = {f \in Files : file[f] # None /\ file[f].msg = task[t].id}
  OBVIOUS
<1>4. PICK k \in Locals : k = [task[t] EXCEPT !.pc = "insert", !.shown = F]
  BY <1>2 DEF Locals, Steps, Sends
<1>5. /\ k.pc = "insert" /\ k.shown = F /\ k.by = task[t].by /\ k.client = task[t].client /\ k.id = task[t].id
      /\ k.files = task[t].files
  BY <1>2, <1>4 DEF Locals
<1>6. task' = [task EXCEPT ![t] = k]
  BY <1>2, <1>3, <1>4 DEF ReadClaimed
<1>7. task' \in [Tasks -> Locals] /\ task'[t] = k /\ \A x \in Tasks \ {t} : task'[x] = task[x]
  BY <1>2, <1>6, Becomes
<1>8. DiscussionTypes'
  BY <1>1, <1>2, <1>7 DEF DiscussionTypes
<1>9. TaskInv'
  <2>1. TaskOk(t)'
    BY <1>1, <1>2, <1>5, <1>7 DEF TaskInv, TaskOk, Sends, Reacts, Removes
  <2>2. \A x \in Tasks : task[x].id \in Ids \cup {None}
    BY <1>2 DEF Locals
  <2> QED
    BY <1>1, <1>2, <1>5, <1>7, <2>1, <2>2, TaskFrame DEF DiscussionConstants, Deleted
<1>10. (VersionInv /\ ViewInv)'
  <2>1. task[t].pc \notin {"tell", "prune", "reread", "look"} \cup Removes
    BY <1>2 DEF Removes
  <2>2. task'[t].pc \notin {"tell", "seek", "join", "start", "leave"}
    BY <1>5, <1>7
  <2> QED
    BY <1>1, <1>2, <1>7, <2>1, <2>2, QuietStep
<1>11. \A g \in Files : (Forgetting(g)' <=> Forgetting(g)) /\ (Expendable(g)' <=> Expendable(g))
  BY <1>2, <1>5, <1>7 DEF Forgetting, Expendable, Deleted
<1>12. ASSUME NEW i \in Ids, NEW g \in Files, Has(i, g)' PROVE Has(i, g) \/ (i = task[t].id /\ g \in F)
  BY <1>2, <1>5, <1>7, <1>12 DEF Has, There
<1>13. \A g \in F : file[g] # None /\ file[g].msg = task[t].id
  BY <1>3
<1>14. ASSUME NEW i \in Ids, NEW g \in Files, Has(i, g)' PROVE HeldOk(i, g)'
  BY <1>1, <1>2, <1>12, <1>13, <1>14 DEF SentInv, HeldOk
<1>15. ASSUME NEW i \in Ids, NEW j \in Ids, NEW g \in Files, Has(i, g)', Has(j, g)' PROVE i = j
  <2>1. CASE file[g] # None
    BY <1>2, <1>14, <1>15, <2>1 DEF HeldOk
  <2>2. CASE file[g] = None
    BY <1>1, <1>12, <1>13, <1>15, <2>2 DEF SentInv
  <2> QED
    BY <2>1, <2>2
<1>16. ASSUME NEW x \in Tasks, NEW g \in Files PROVE SentOk(x, g)'
  <2>1. SentOk(x, g)
    BY <1>1 DEF SentInv
  <2> QED
    BY <1>2, <1>5, <1>7, <1>13, <2>1 DEF SentOk, Sends
<1>17. ASSUME NEW x \in Tasks PROVE UploadOk(x)'
  <2>1. CASE x = t
    BY <1>5, <1>7, <2>1 DEF UploadOk
  <2>2. CASE x # t
    <3>1. UploadOk(x) /\ task'[x] = task[x] /\ task[x].files \subseteq Files
      BY <1>1, <1>2, <1>7, <2>2 DEF UploadInv, Locals
    <3>2. task[x].pc = "upload" => \A g \in task[x].files, i \in Ids : ~Has(i, g)'
      BY <1>12, <1>13, <3>1 DEF UploadOk
    <3> QED
      BY <1>2, <1>5, <1>7, <1>11, <3>1, <3>2 DEF UploadOk
  <2> QED
    BY <2>1, <2>2
<1>18. FileInv'
  BY <1>1, <1>2, <1>11 DEF FileInv, FileOk
<1> QED
  BY <1>8, <1>9, <1>10, <1>14, <1>15, <1>16, <1>17, <1>18 DEF DiscussionInv, UploadInv, SentInv

LEMMA ReleaseStep ==
    ASSUME DiscussionInv, DiscussionConstants, NEW t \in Tasks, Release(t) PROVE DiscussionInv'
<1>1. DiscussionTypes /\ TaskInv /\ FileInv /\ UploadInv /\ SentInv /\ VersionInv /\ ViewInv
  BY DEF DiscussionInv
<1> DEFINE Freed(f) == [file[f] EXCEPT !.msg = None, !.expires = "later"]
<1>0. task[t].pc = "unclaim" /\ UNCHANGED <<open, stored, msg, view, swept, crashes>> /\ Over(t)
  BY Zenon DEF Release
<1>a. file' = [f \in Files |-> IF file[f] # None /\ file[f].msg = task[t].id THEN Freed(f) ELSE file[f]]
  BY Zenon DEF Release
<1> HIDE DEF Freed
<1>2. /\ task \in [Tasks -> Locals] /\ file \in [Files -> {None} \cup FileRecord] /\ task[t].pc = "unclaim"
      /\ UNCHANGED <<open, stored, msg, view, swept, crashes>> /\ Over(t)
  BY <1>0, <1>1 DEF DiscussionTypes
<1>3. PICK id \in Ids : id = task[t].id
  BY <1>1, <1>2 DEF TaskInv, TaskOk, Sends
<1>4. msg[id] = None /\ id # None /\ \A x \in Tasks \ {t} : task[x].id # id
  BY <1>1, <1>2, <1>3 DEF TaskInv, TaskOk, Sends, DiscussionConstants
<1>5. /\ task' \in [Tasks -> Locals] /\ (\A x \in Tasks \ {t} : task'[x] = task[x])
      /\ task'[t].pc = "idle" /\ task'[t].files = {} /\ task'[t].shown = {}
  BY <1>2, Ends
<1>6. ASSUME NEW f \in Files
      PROVE  /\ file'[f] \in {None} \cup FileRecord /\ (file'[f] = None <=> file[f] = None)
             /\ (file[f] = None \/ file[f].msg # id => file'[f] = file[f])
             /\ file[f] # None /\ file[f].msg = id =>
                  file'[f].msg = None /\ file'[f].expires = "later" /\ file'[f].status = file[f].status
  <2>1. file'[f] = IF file[f] # None /\ file[f].msg = id THEN Freed(f) ELSE file[f]
    BY <1>3, <1>a
  <2>2. CASE file[f] # None /\ file[f].msg = id
    <3>1. PICK r \in FileRecord : r = file[f]
      BY <1>2, <2>2
    <3>2. PICK q \in FileRecord : q = [r EXCEPT !.msg = None, !.expires = "later"]
      BY <3>1 DEF FileRecord
    <3>3. q \in FileRecord /\ q.status = r.status /\ q.msg = None /\ q.expires = "later" /\ q # None
      BY <3>2 DEF FileRecord, DiscussionConstants
    <3>4. Freed(f) = q
      BY <3>1, <3>2 DEF Freed
    <3> QED
      BY <2>1, <2>2, <3>1, <3>3, <3>4
  <2> QED
    BY <1>2, <2>1, <2>2
<1>7. file' \in [Files -> {None} \cup FileRecord]
  BY <1>6, <1>a
<1>8. DiscussionTypes'
  BY <1>1, <1>2, <1>5, <1>7 DEF DiscussionTypes
<1>9. (TaskInv /\ VersionInv /\ ViewInv)'
  <2>1. task[t].pc \notin {"tell", "prune", "reread", "look"} \cup Removes
    BY <1>2 DEF Removes
  <2> QED
    BY <1>1, <1>2, <2>1, OverStep
<1>10. \A x \in Tasks : task[x].pc \in {"forget", "insert"} \/ task'[x].pc \in {"forget", "insert"} => task'[x] = task[x]
  BY <1>2, <1>5
<1>11. \A g \in Files : Forgetting(g)' <=> Forgetting(g)
  BY <1>10 DEF Forgetting
<1>12. \A i \in Ids, g \in Files : Has(i, g)' <=> Has(i, g)
  BY <1>2, <1>10 DEF Has, There
<1>13. \A g \in Files : Expendable(g) => Expendable(g)'
  BY <1>2, <1>6 DEF Expendable, Deleted
<1>14. ASSUME NEW f \in Files, file'[f] # None PROVE FileOk(f)'
  <2>1. FileOk(f) /\ file[f] # None
    BY <1>1, <1>6, <1>14 DEF FileInv
  <2> QED
    BY <1>2, <1>6, <1>11, <1>13, <2>1 DEF FileOk
<1>15. ASSUME NEW x \in Tasks PROVE UploadOk(x)'
  <2>1. CASE x = t
    BY <1>5, <2>1 DEF UploadOk
  <2>2. CASE x # t
    <3>1. UploadOk(x) /\ task'[x] = task[x] /\ task[x].files \subseteq Files
      BY <1>1, <1>2, <1>5, <2>2 DEF UploadInv, Locals
    <3> QED
      BY <1>2, <1>5, <1>6, <1>11, <1>12, <1>13, <3>1 DEF UploadOk
  <2> QED
    BY <2>1, <2>2
<1>16. ASSUME NEW x \in Tasks, NEW f \in Files PROVE SentOk(x, f)'
  <2>1. SentOk(x, f) /\ (task[x].pc \in Sends => task[x].id # None)
    BY <1>1 DEF SentInv, TaskInv, TaskOk, DiscussionConstants
  <2>2. CASE x = t
    BY <1>5, <2>2 DEF SentOk, Sends
  <2>3. CASE x # t
    BY <1>5, <1>6, <2>1, <2>3 DEF SentOk
  <2> QED
    BY <2>2, <2>3
<1>17. ASSUME NEW i \in Ids, NEW f \in Files, Has(i, f) PROVE HeldOk(i, f)'
  <2>1. HeldOk(i, f)
    BY <1>1, <1>17 DEF SentInv
  <2>2. i # id
    BY <1>2, <1>3, <1>4, <1>17 DEF Has, There
  <2> QED
    BY <1>2, <1>6, <2>1, <2>2 DEF HeldOk
<1> QED
  BY <1>1, <1>8, <1>9, <1>12, <1>14, <1>15, <1>16, <1>17 DEF DiscussionInv, FileInv, UploadInv, SentInv

-----------------------------------------------------------------------------
(***************************************************************************)
(* Messages that change                                                    *)
(***************************************************************************)

\* The version goes up, and whoever changed the message has yet to tell of it.
LEMMA ChangeFrame ==
    ASSUME DiscussionTypes, DiscussionConstants, TaskInv, VersionInv, ViewInv, UNCHANGED <<open, view>>,
           NEW t \in Tasks, NEW id \in Ids, NEW m \in Copy, msg' = [msg EXCEPT ![id] = m],
           msg[id] # None => There(id) /\ m.version > msg[id].version,
           m.version + Cardinality(Working(id)') <= MaxVersion + Cardinality(Tasks),
           task' \in [Tasks -> Locals], \A x \in Tasks \ {t} : task'[x] = task[x],
           task[t].id \in {id, None}, task[t].pc \notin Removes, task'[t].id = id, Tells(t, id)',
           task'[t].pc = "tell" => task'[t].copy = m
    PROVE  (VersionInv /\ ViewInv)'
<1>1. /\ msg \in [Ids -> {None, Gone} \cup Copy] /\ view \in [Ids -> {None, Gone} \cup Copy]
      /\ task \in [Tasks -> Locals] /\ None \notin Ids
  BY DEF DiscussionTypes, DiscussionConstants
<1>2. Gone \notin Copy /\ None \notin Copy
  BY DEF Gone, Copy, DiscussionConstants
<1>3. /\ msg'[id] = m /\ There(id)' /\ ~Deleted(id)'
      /\ \A j \in Ids \ {id} : msg'[j] = msg[j] /\ (There(j)' <=> There(j)) /\ (Deleted(j)' <=> Deleted(j))
  BY <1>1, <1>2 DEF There, Deleted
<1>4. \A c \in Copy : c.version \in Nat
  BY DEF Copy
<1>5. VersionInv'
  <2> SUFFICES ASSUME NEW j \in Ids, There(j)'
               PROVE  msg'[j].version + Cardinality(Working(j)') <= MaxVersion + Cardinality(Tasks)
    BY DEF VersionInv
  <2>1. CASE j = id
    BY <1>3, <2>1
  <2>2. CASE j # id
    <3>1. Working(j)' \subseteq Working(j)
      BY <1>1, <2>2 DEF Working
    <3>2. /\ Cardinality(Working(j)') <= Cardinality(Working(j)) /\ Cardinality(Working(j)) \in Nat
          /\ Cardinality(Working(j)') \in Nat /\ Cardinality(Tasks) \in Nat
      <4>1. IsFiniteSet(Working(j)) /\ Cardinality(Working(j)) \in Nat /\ Cardinality(Tasks) \in Nat
        BY WorkingFinite DEF DiscussionConstants
      <4> QED
        BY <3>1, <4>1, FS_Subset, FS_CardinalityType
    <3>3. There(j) /\ msg'[j] = msg[j] /\ msg[j].version \in Nat
      BY <1>1, <1>3, <1>4, <2>2 DEF There
    <3>4. msg[j].version + Cardinality(Working(j)) <= MaxVersion + Cardinality(Tasks)
      BY <3>3 DEF VersionInv
    <3> QED
      BY <3>2, <3>3, <3>4 DEF DiscussionConstants
  <2> QED
    BY <2>1, <2>2
<1>6. ASSUME NEW c \in Copy, msg[id] # None, Past(c, msg[id]) PROVE Past(c, m)
  <2>1. c.version < m.version
    BY <1>1, <1>4, <1>6 DEF Past, There
  <2> QED
    BY <1>4, <2>1 DEF Past
<1>7. Past(m, m)
  BY <1>4 DEF Past, Same
<1>8. ASSUME NEW j \in Ids
      PROVE  /\ msg'[j] = None => view[j] = None
             /\ view[j] = Gone => Deleted(j)'
             /\ There(j)' /\ view[j] # None => Past(view[j], msg'[j])
             /\ There(j)' => Current(j)' \/ \E x \in Tasks : Tells(x, j)'
             /\ open /\ Deleted(j)' => view[j] = Gone \/ \E x \in Tasks : TellsGone(x, j)'
  <2>1. CASE j = id
    <3>1. view[id] # Gone
      BY <1>2 DEF ViewInv, There, Deleted, DiscussionConstants
    <3>2. view[id] # None => msg[id] # None /\ Past(view[id], msg[id]) /\ view[id] \in Copy
      BY <1>1, <3>1 DEF ViewInv
    <3> QED
      BY <1>2, <1>3, <1>6, <2>1, <3>1, <3>2
  <2>2. CASE j # id
    <3>1. ASSUME NEW x \in Tasks PROVE (Tells(x, j) => Tells(x, j)') /\ (TellsGone(x, j) => TellsGone(x, j)')
      BY <1>1, <1>3, <2>2 DEF Tells, TellsGone, Groups
    <3> QED
      BY <1>3, <2>2, <3>1 DEF ViewInv, Current
  <2> QED
    BY <2>1, <2>2
<1>9. ASSUME NEW x \in Tasks, task'[x].pc = "tell", task'[x].copy # None, msg'[task'[x].id] \notin {None, Gone}
      PROVE  Past(task'[x].copy, msg'[task'[x].id])
  <2>1. CASE x = t
    BY <1>3, <1>7, <1>9, <2>1
  <2>2. CASE x # t
    <3>1. task'[x] = task[x] /\ task[x].copy \in Copy
      BY <1>1, <1>9, <2>2 DEF Locals
    <3>2. task[x].id \in Ids /\ msg[task[x].id] # None
      BY <1>9, <3>1 DEF TaskInv, TaskOk
    <3>3. CASE task[x].id = id
      <4>1. Past(task[x].copy, msg[id])
        BY <1>9, <3>1, <3>2, <3>3 DEF ViewInv
      <4> QED
        BY <1>3, <1>6, <3>1, <3>2, <3>3, <4>1
    <3>4. CASE task[x].id # id
      <4>1. There(task[x].id) /\ msg'[task[x].id] = msg[task[x].id]
        BY <1>3, <1>9, <3>1, <3>2, <3>4 DEF There
      <4>2. Past(task[x].copy, msg[task[x].id])
        BY <1>9, <3>1, <4>1 DEF ViewInv
      <4> QED
        BY <3>1, <4>1, <4>2
    <3> QED
      BY <3>3, <3>4
  <2> QED
    BY <2>1, <2>2
<1> QED
  BY <1>5, <1>8, <1>9 DEF ViewInv, There

\* What else a change keeps, when the message's files stay what they are.
LEMMA ChangeStep ==
    ASSUME DiscussionInv, DiscussionConstants, UNCHANGED <<open, file, stored, view, swept, crashes>>,
           NEW t \in Tasks, NEW id \in Ids, NEW m \in Copy, msg' = [msg EXCEPT ![id] = m],
           msg[id] # None => There(id) /\ m.files = msg[id].files,
           msg[id] = None => task[t].id = id /\ task[t].pc = "insert" /\ m.files = task[t].shown,
           task' \in [Tasks -> Locals], \A x \in Tasks \ {t} : task'[x] = task[x],
           task[t].id \in {id, None}, task[t].pc # "forget", task'[t].id = id,
           task'[t].pc \in Reacts \cup {"tell"}, TaskOk(t)'
    PROVE  (DiscussionTypes /\ TaskInv /\ FileInv /\ UploadInv /\ SentInv)'
<1>1. /\ DiscussionTypes /\ TaskInv /\ FileInv /\ UploadInv /\ SentInv
      /\ msg \in [Ids -> {None, Gone} \cup Copy]
  BY DEF DiscussionInv, DiscussionTypes
<1>2. Gone \notin Copy /\ None \notin Copy
  BY DEF Gone, Copy, DiscussionConstants
<1>3. /\ msg' \in [Ids -> {None, Gone} \cup Copy] /\ msg'[id] = m
      /\ \A j \in Ids \ {id} : msg'[j] = msg[j]
  BY <1>1
<1>4. DiscussionTypes'
  BY <1>1, <1>3 DEF DiscussionTypes
<1>5. \A j \in Ids : /\ Deleted(j) => Deleted(j)'
                     /\ msg[j] # None => msg'[j] # None
                     /\ msg[j] = None => msg'[j] = None \/ j = task[t].id
  BY <1>2, <1>3 DEF Deleted, There, DiscussionConstants
<1>6. TaskInv'
  <2>1. \A x \in Tasks : task[x].id \in Ids \cup {None}
    BY <1>1 DEF DiscussionTypes, Locals
  <2>2. task'[t].id = task[t].id \/ (task'[t].id \in Ids /\ msg[task'[t].id] # None)
    OBVIOUS
  <2> QED
    BY <1>1, <1>5, <2>1, <2>2, TaskFrame DEF DiscussionConstants
<1>7. (FileInv /\ UploadInv /\ SentInv)'
  <2>1. ASSUME NEW j \in Ids, NEW f \in Files, Has(j, f)' PROVE Has(j, f)
    <3>1. CASE j = id
      <4>1. CASE msg[id] = None
        BY <1>3, <2>1, <3>1, <4>1 DEF Has, Reacts
      <4>2. CASE msg[id] # None
        BY <1>3, <2>1, <3>1, <4>2 DEF Has, Reacts
      <4> QED
        BY <4>1, <4>2
    <3>2. CASE j # id
      BY <1>3, <2>1, <3>2 DEF Has, There, Reacts
    <3> QED
      BY <3>1, <3>2
  <2>2. task[t].pc # "forget" /\ task'[t].pc \notin {"upload", "ready", "drop", "forget"} \cup Sends
    BY DEF Sends, Reacts
  <2> QED
    BY <1>1, <1>5, <2>1, <2>2, FilesFrame DEF DiscussionTypes
<1> QED
  BY <1>4, <1>6, <1>7

\* How many are at work on a message once one of them is done.
LEMMA WorkingLess ==
    ASSUME DiscussionConstants, NEW t \in Tasks, NEW id \in Ids, \A x \in Tasks \ {t} : task'[x] = task[x],
           t \notin Working(id)'
    PROVE  /\ Cardinality(Working(id)') \in Nat /\ Cardinality(Tasks) \in Nat /\ Cardinality(Working(id)) \in Nat
           /\ Cardinality(Working(id)') + 1 <= Cardinality(Tasks)
           /\ t \in Working(id) => Cardinality(Working(id)') + 1 <= Cardinality(Working(id))
           /\ (\A x \in Tasks \ {t} : task[x].id # id) => Cardinality(Working(id)') = 0
<1>1. Working(id)' \subseteq Tasks \ {t} /\ Working(id)' \subseteq Working(id) \ {t}
  BY DEF Working
<1>2. /\ IsFiniteSet(Tasks) /\ IsFiniteSet(Working(id)) /\ Cardinality(Working(id)) \in Nat
      /\ Cardinality(Tasks) \in Nat
  BY WorkingFinite, FS_CardinalityType DEF DiscussionConstants
<1>3. /\ IsFiniteSet(Tasks \ {t}) /\ Cardinality(Tasks \ {t}) = Cardinality(Tasks) - 1
      /\ IsFiniteSet(Working(id) \ {t})
      /\ Cardinality(Working(id) \ {t}) = IF t \in Working(id) THEN Cardinality(Working(id)) - 1 ELSE Cardinality(Working(id))
  BY <1>2, FS_RemoveElement
<1>4. /\ IsFiniteSet(Working(id)') /\ Cardinality(Working(id)') <= Cardinality(Tasks \ {t})
      /\ Cardinality(Working(id)') <= Cardinality(Working(id) \ {t}) /\ Cardinality(Working(id)') \in Nat
  BY <1>1, <1>3, FS_Subset, FS_CardinalityType
<1>5. ASSUME \A x \in Tasks \ {t} : task[x].id # id PROVE Cardinality(Working(id)') = 0
  <2>1. Working(id)' = {}
    BY <1>1, <1>5 DEF Working
  <2> QED
    BY <2>1, FS_EmptySet
<1> QED
  BY <1>2, <1>3, <1>4, <1>5

LEMMA EditStep ==
    ASSUME DiscussionInv, DiscussionConstants, NEW t \in Tasks, NEW u \in Users, NEW id \in Ids, NEW b \in Bodies,
           Edit(t, u, id, b)
    PROVE  DiscussionInv'
<1>1. DiscussionTypes /\ TaskInv /\ FileInv /\ UploadInv /\ SentInv /\ VersionInv /\ ViewInv
  BY DEF DiscussionInv
<1>2. task[t].pc = "idle" /\ task[t].id = None /\ There(id) /\ msg[id] # None /\ msg[id].version < MaxVersion
  BY <1>1, IdleFields DEF Edit, There
<1>3. task \in [Tasks -> Locals] /\ UNCHANGED <<open, file, stored, view, swept, crashes>>
  BY <1>1 DEF Edit, DiscussionTypes
<1>4. PICK old \in Copy : old = msg[id]
  BY <1>1, <1>2 DEF DiscussionTypes, There
<1>5. PICK m \in Copy : m = [old EXCEPT !.body = b, !.version = @ + 1]
  <2>1. PICK v \in Nat \ {0} : v = old.version + 1
    BY DEF Copy
  <2>2. [old EXCEPT !.body = b, !.version = v] \in Copy
    BY DEF Copy
  <2> QED
    BY <2>1, <2>2
<1>6. m.version = old.version + 1 /\ m.files = old.files /\ old.version \in Nat
  BY <1>5 DEF Copy
<1>7. PICK k \in Locals : k = [Idle EXCEPT !.pc = "tell", !.id = id, !.copy = m]
  BY IdleFields DEF Locals, Steps
<1>8. k.pc = "tell" /\ k.id = id /\ k.copy = m
  BY <1>7, IdleFields DEF Locals
<1>9. msg' = [msg EXCEPT ![id] = m] /\ task' = [task EXCEPT ![t] = k]
  BY <1>4, <1>5, <1>7 DEF Edit
<1>10. task' \in [Tasks -> Locals] /\ task'[t] = k /\ \A x \in Tasks \ {t} : task'[x] = task[x]
  BY <1>3, <1>9, Becomes
<1>11. msg'[id] = m
  BY <1>1, <1>9 DEF DiscussionTypes
<1>12. TaskOk(t)'
  BY <1>8, <1>10, <1>11 DEF TaskOk, Sends, Reacts, Removes, DiscussionConstants
<1>13. (DiscussionTypes /\ TaskInv /\ FileInv /\ UploadInv /\ SentInv)'
  BY <1>2, <1>3, <1>4, <1>6, <1>8, <1>9, <1>10, <1>12, ChangeStep
<1>14. (VersionInv /\ ViewInv)'
  <2>1. t \notin Working(id)'
    BY <1>8, <1>10 DEF Working
  <2>2. m.version + Cardinality(Working(id)') <= MaxVersion + Cardinality(Tasks)
    BY <1>2, <1>4, <1>6, <1>10, <2>1, WorkingLess DEF DiscussionConstants
  <2>3. Tells(t, id)' /\ task[t].pc \notin Removes
    BY <1>2, <1>8, <1>10, <1>11 DEF Tells, Removes, DiscussionConstants
  <2> QED
    <3>1. m.version > msg[id].version
      BY <1>4, <1>6
    <3>2. task[t].id \in {id, None} /\ task'[t].id = id /\ task'[t].copy = m
      BY <1>2, <1>8, <1>10
    <3> QED
      BY <1>1, <1>2, <1>3, <1>9, <1>10, <2>2, <2>3, <3>1, <3>2, ChangeFrame
<1> QED
  BY <1>13, <1>14 DEF DiscussionInv

LEMMA InsertStep ==
    ASSUME DiscussionInv, DiscussionConstants, NEW t \in Tasks, Insert(t) PROVE DiscussionInv'
<1>1. DiscussionTypes /\ TaskInv /\ FileInv /\ UploadInv /\ SentInv /\ VersionInv /\ ViewInv
  BY DEF DiscussionInv
<1>2. task[t].pc = "insert" /\ UNCHANGED <<open, file, stored, view, swept, crashes>>
  BY DEF Insert
<1>3. PICK id \in Ids : id = task[t].id
  BY <1>1, <1>2 DEF TaskInv, TaskOk, Sends
<1>4. /\ msg[id] = None /\ task[t].by \in Users /\ task[t].client \in Clients
      /\ \A x \in Tasks \ {t} : task[x].id # id
  BY <1>1, <1>2, <1>3 DEF TaskInv, TaskOk, Sends
<1>5. task \in [Tasks -> Locals] /\ task[t].shown \in SUBSET Files
  BY <1>1 DEF DiscussionTypes, Locals
<1>6. PICK b \in Bodies :
        \/ /\ msg' = [msg EXCEPT ![id] = [author |-> task[t].by, client |-> task[t].client, body |-> b,
                                          files |-> task[t].shown, reactions |-> <<>>, version |-> 1]]
           /\ task' = [task EXCEPT ![t].pc = "tell",
                         ![t].copy = [author |-> task[t].by, client |-> task[t].client, body |-> b,
                                      files |-> task[t].shown, reactions |-> <<>>, version |-> 1]]
        \/ UNCHANGED msg /\ Goto(t, "unclaim")
  BY <1>3 DEF Insert
<1>7. PICK m \in Copy : m = [author |-> task[t].by, client |-> task[t].client, body |-> b,
                             files |-> task[t].shown, reactions |-> <<>>, version |-> 1]
  <2>1. <<>> \in Groupings
    <3>1. <<>> \in [{} -> SUBSET Users]
      OBVIOUS
    <3> QED
      BY <3>1 DEF Groupings
  <2>2. PICK g \in Groupings : g = <<>>
    BY <2>1
  <2>3. [author |-> task[t].by, client |-> task[t].client, body |-> b, files |-> task[t].shown,
         reactions |-> g, version |-> 1] \in Copy
    BY <1>4, <1>5 DEF Copy
  <2> QED
    BY <2>2, <2>3
<1>8. m.version = 1 /\ m.files = task[t].shown
  BY <1>7
<1>9. CASE msg' = [msg EXCEPT ![id] = m] /\ task' = [task EXCEPT ![t].pc = "tell", ![t].copy = m]
  <2>1. PICK k \in Locals : k = [task[t] EXCEPT !.pc = "tell", !.copy = m]
    BY <1>5 DEF Locals, Steps
  <2>2. k.pc = "tell" /\ k.id = id /\ k.copy = m
    BY <1>3, <1>5, <2>1 DEF Locals
  <2>3. task' = [task EXCEPT ![t] = k]
    BY <1>5, <1>9, <2>1
  <2>4. task' \in [Tasks -> Locals] /\ task'[t] = k /\ \A x \in Tasks \ {t} : task'[x] = task[x]
    BY <1>5, <2>3, Becomes
  <2>5. msg'[id] = m
    BY <1>1, <1>9 DEF DiscussionTypes
  <2>6. TaskOk(t)'
    BY <2>2, <2>4, <2>5 DEF TaskOk, Sends, Reacts, Removes, DiscussionConstants
  <2>7. (DiscussionTypes /\ TaskInv /\ FileInv /\ UploadInv /\ SentInv)'
    BY <1>2, <1>3, <1>4, <1>8, <1>9, <2>2, <2>4, <2>6, ChangeStep
  <2>8. (VersionInv /\ ViewInv)'
    <3>1. t \notin Working(id)'
      BY <2>2, <2>4 DEF Working
    <3>2. m.version + Cardinality(Working(id)') <= MaxVersion + Cardinality(Tasks)
      BY <1>8, <2>4, <3>1, WorkingLess DEF DiscussionConstants
    <3>3. Tells(t, id)' /\ task[t].pc \notin Removes
      BY <1>2, <2>2, <2>4, <2>5 DEF Tells, Removes, DiscussionConstants
    <3> QED
      BY <1>1, <1>2, <1>3, <1>4, <1>9, <2>2, <2>4, <3>2, <3>3, ChangeFrame
  <2> QED
    BY <2>7, <2>8 DEF DiscussionInv
<1>10. CASE UNCHANGED msg /\ Goto(t, "unclaim")
  <2>1. "unclaim" \in Steps
    BY DEF Steps, Sends
  <2>2. /\ task' \in [Tasks -> Locals] /\ (\A x \in Tasks \ {t} : task'[x] = task[x])
        /\ task'[t].pc = "unclaim" /\ task'[t].id = id /\ task'[t].by = task[t].by
        /\ task'[t].client = task[t].client /\ task'[t].files = task[t].files
    BY <1>3, <1>5, <1>10, <2>1, Goes
  <2>3. DiscussionTypes'
    BY <1>1, <1>2, <1>10, <2>2 DEF DiscussionTypes
  <2>4. TaskInv'
    <3>1. TaskOk(t)'
      BY <1>4, <1>10, <2>2 DEF TaskOk, Sends, Reacts, Removes
    <3>2. \A x \in Tasks : task[x].id \in Ids \cup {None}
      BY <1>5 DEF Locals
    <3> QED
      BY <1>1, <1>2, <1>3, <1>10, <2>2, <3>1, <3>2, TaskFrame DEF DiscussionConstants, Deleted
  <2>5. (VersionInv /\ ViewInv)'
    <3>1. task[t].pc \notin {"tell", "prune", "reread", "look"} \cup Removes
      BY <1>2 DEF Removes
    <3>2. task'[t].pc \notin {"tell", "seek", "join", "start", "leave"}
      BY <2>2
    <3> QED
      BY <1>1, <1>2, <1>10, <2>2, <3>1, <3>2, QuietStep
  <2>6. \A g \in Files : (Forgetting(g)' <=> Forgetting(g)) /\ (Expendable(g)' <=> Expendable(g))
    BY <1>2, <1>10, <2>2 DEF Forgetting, Expendable, Deleted
  <2>7. \A i \in Ids, g \in Files : Has(i, g)' => Has(i, g)
    BY <1>10, <2>2 DEF Has, There
  <2>8. ASSUME NEW x \in Tasks PROVE UploadOk(x)'
    <3>1. CASE x = t
      BY <2>2, <3>1 DEF UploadOk
    <3>2. CASE x # t
      <4>1. UploadOk(x) /\ task'[x] = task[x] /\ task[x].files \subseteq Files
        BY <1>1, <1>5, <2>2, <3>2 DEF UploadInv, Locals
      <4> QED
        BY <1>2, <2>2, <2>6, <2>7, <4>1 DEF UploadOk
    <3> QED
      BY <3>1, <3>2
  <2>9. ASSUME NEW x \in Tasks, NEW g \in Files PROVE SentOk(x, g)'
    <3>1. SentOk(x, g)
      BY <1>1 DEF SentInv
    <3> QED
      BY <1>2, <1>3, <2>2, <3>1 DEF SentOk, Sends
  <2>10. FileInv'
    BY <1>1, <1>2, <2>6 DEF FileInv, FileOk
  <2> QED
    BY <1>1, <1>2, <2>3, <2>4, <2>5, <2>7, <2>8, <2>9, <2>10 DEF DiscussionInv, UploadInv, SentInv, HeldOk
<1> QED
  <2> DEFINE New == [author |-> task[t].by, client |-> task[t].client, body |-> b,
                     files |-> task[t].shown, reactions |-> <<>>, version |-> 1]
  <2>1. \/ msg' = [msg EXCEPT ![id] = New] /\ task' = [task EXCEPT ![t].pc = "tell", ![t].copy = New]
        \/ UNCHANGED msg /\ Goto(t, "unclaim")
    BY <1>6
  <2>2. m = New
    BY <1>7
  <2> HIDE DEF New
  <2> QED
    BY <1>9, <1>10, <2>1, <2>2

-----------------------------------------------------------------------------
(***************************************************************************)
(* Reactions                                                               *)
(***************************************************************************)

LEMMA GroupingsAre ==
    ASSUME NEW g \in Groupings
    PROVE  DOMAIN g \subseteq Emojis /\ g \in [DOMAIN g -> SUBSET Users]
BY DEF Groupings

LEMMA IsGrouping ==
    ASSUME NEW E \in SUBSET Emojis, NEW g \in [E -> SUBSET Users]
    PROVE  g \in Groupings
BY DEF Groupings

LEMMA Regrouped ==
    ASSUME NEW m \in Copy, NEW g \in Groupings
    PROVE  /\ WithGroups(m, g) \in Copy /\ WithGroups(m, g).version = m.version + 1
           /\ WithGroups(m, g).files = m.files /\ WithGroups(m, g).reactions = g
<1>1. PICK v \in Nat \ {0} : v = m.version + 1
  BY DEF Copy
<1>2. PICK q \in Copy : q = [m EXCEPT !.reactions = g, !.version = v]
  BY DEF Copy
<1>3. q.version = v /\ q.files = m.files /\ q.reactions = g
  BY <1>2 DEF Copy
<1>4. WithGroups(m, g) = q
  BY <1>1, <1>2 DEF WithGroups
<1> QED
  BY <1>1, <1>3, <1>4

\* Groups nobody is left in may go twice.
LEMMA PeopledGroups ==
    ASSUME NEW g \in Groupings
    PROVE  /\ Peopled(g) \in Groupings /\ Peopled(Peopled(g)) = Peopled(g)
           /\ \A e \in DOMAIN g : g[e] # {} => e \in DOMAIN Peopled(g) /\ Peopled(g)[e] = g[e]
<1>1. DOMAIN g \subseteq Emojis /\ g \in [DOMAIN g -> SUBSET Users]
  BY GroupingsAre
<1>2. PICK E \in SUBSET Emojis : E = {e \in DOMAIN g : g[e] # {}}
  BY <1>1
<1>3. Peopled(g) = [e \in E |-> g[e]]
  BY <1>2 DEF Peopled, Restrict
<1>4. PICK p \in [E -> SUBSET Users] : p = [e \in E |-> g[e]]
  BY <1>1, <1>2
<1>5. {e \in DOMAIN p : p[e] # {}} = E
  BY <1>2, <1>4
<1>6. Peopled(p) = [e \in E |-> p[e]]
  BY <1>5 DEF Peopled, Restrict
<1>7. Peopled(p) = p
  BY <1>4, <1>6
<1> QED
  BY <1>2, <1>3, <1>4, <1>7, IsGrouping

\* A request that reacts and changes no message.
LEMMA ReactFrame ==
    ASSUME DiscussionInv, DiscussionConstants, UNCHANGED <<open, file, stored, msg, view, swept, crashes>>,
           NEW t \in Tasks, task' \in [Tasks -> Locals], \A x \in Tasks \ {t} : task'[x] = task[x],
           task[t].pc \in Reacts \cup {"idle"}, task'[t].pc \in Reacts \cup {"idle", "tell"}, TaskOk(t)',
           task'[t].id \in {task[t].id, None} \/ (task'[t].id \in Ids /\ msg[task'[t].id] # None),
           \A id \in Ids : There(id) =>
               /\ Tells(t, id) => Tells(t, id)'
               /\ (t \in Working(id)' => t \in Working(id)) \/ msg[id].version < MaxVersion,
           task'[t].pc = "tell" => task'[t].id \in Ids /\ task'[t].copy = msg[task'[t].id]
    PROVE  DiscussionInv'
<1>1. DiscussionTypes /\ TaskInv /\ FileInv /\ UploadInv /\ SentInv /\ VersionInv /\ ViewInv
  BY DEF DiscussionInv
<1>2. task \in [Tasks -> Locals]
  BY <1>1 DEF DiscussionTypes
<1>3. DiscussionTypes'
  BY <1>1 DEF DiscussionTypes
<1>4. TaskInv'
  <2>1. \A x \in Tasks : task[x].id \in Ids \cup {None}
    BY <1>2 DEF Locals
  <2> QED
    BY <1>1, <2>1, TaskFrame DEF DiscussionConstants, Deleted
<1>5. (FileInv /\ UploadInv /\ SentInv)'
  <2>1. \A j \in Ids, f \in Files : Has(j, f)' => Has(j, f)
    BY DEF Has, There, Reacts
  <2>2. task[t].pc # "forget" /\ task'[t].pc \notin {"upload", "ready", "drop", "forget"} \cup Sends
    BY DEF Sends, Reacts
  <2> QED
    BY <1>1, <1>2, <2>1, <2>2, FilesFrame DEF Deleted, DiscussionTypes
<1>6. (VersionInv /\ ViewInv)'
  <2>1. ASSUME NEW x \in Tasks, NEW id \in Ids
        PROVE  (There(id) /\ Tells(x, id) => Tells(x, id)') /\ (TellsGone(x, id) => TellsGone(x, id)')
    <3>1. CASE x = t
      BY <3>1 DEF TellsGone, Removes, Reacts
    <3>2. CASE x # t
      BY <3>2 DEF Tells, TellsGone, Groups
    <3> QED
      BY <3>1, <3>2
  <2>2. ASSUME NEW id \in Ids, There(id)
        PROVE  Working(id)' \subseteq Working(id) \/ msg[id].version < MaxVersion
    BY <2>2 DEF Working
  <2> QED
    BY <1>1, <2>1, <2>2, TalkFrame
<1> QED
  BY <1>3, <1>4, <1>5, <1>6 DEF DiscussionInv

LEMMA ReactStep ==
    ASSUME DiscussionInv, DiscussionConstants, NEW t \in Tasks, NEW u \in Users, NEW id \in Ids, NEW e \in Emojis,
           React(t, u, id, e) \/ Unreact(t, u, id, e)
    PROVE  DiscussionInv'
<1>1. task[t] = Idle /\ There(id) /\ msg[id].version < MaxVersion /\ msg[id] # None
      /\ UNCHANGED <<open, file, stored, msg, view, swept, crashes>>
  BY DEF React, Unreact, There
<1>2. task \in [Tasks -> Locals] /\ task[t].pc = "idle" /\ task[t].id = None
  BY <1>1, IdleFields DEF DiscussionInv, DiscussionTypes
<1>3. PICK k \in Locals : /\ k.pc \in {"seek", "leave"} /\ k.by = u /\ k.id = id /\ k.emoji = e
                          /\ task' = [task EXCEPT ![t] = k]
  <2>1. CASE React(t, u, id, e)
    <3>1. PICK k \in Locals : k = [Idle EXCEPT !.pc = "seek", !.by = u, !.id = id, !.emoji = e]
      BY IdleFields DEF Locals, Steps, Reacts
    <3>2. k.pc = "seek" /\ k.by = u /\ k.id = id /\ k.emoji = e
      BY <3>1, IdleFields DEF Locals
    <3>3. task' = [task EXCEPT ![t] = k]
      BY <2>1, <3>1 DEF React
    <3> QED
      BY <3>2, <3>3
  <2>2. CASE Unreact(t, u, id, e)
    <3>1. PICK k \in Locals : k = [Idle EXCEPT !.pc = "leave", !.by = u, !.id = id, !.emoji = e]
      BY IdleFields DEF Locals, Steps, Reacts
    <3>2. k.pc = "leave" /\ k.by = u /\ k.id = id /\ k.emoji = e
      BY <3>1, IdleFields DEF Locals
    <3>3. task' = [task EXCEPT ![t] = k]
      BY <2>2, <3>1 DEF Unreact
    <3> QED
      BY <3>2, <3>3
  <2> QED
    BY <2>1, <2>2
<1>4. task' \in [Tasks -> Locals] /\ task'[t] = k /\ \A x \in Tasks \ {t} : task'[x] = task[x]
  BY <1>2, <1>3, Becomes
<1>5. TaskOk(t)'
  BY <1>1, <1>3, <1>4 DEF TaskOk, Sends, Reacts, Removes
<1>6. task[t].pc \in Reacts \cup {"idle"} /\ task'[t].pc \in Reacts \cup {"idle", "tell"} /\ task'[t].pc # "tell"
  BY <1>2, <1>3, <1>4 DEF Reacts
<1>7. ASSUME NEW j \in Ids, There(j)
      PROVE  /\ Tells(t, j) => Tells(t, j)'
             /\ (t \in Working(j)' => t \in Working(j)) \/ msg[j].version < MaxVersion
  BY <1>1, <1>2, <1>3, <1>4 DEF Tells, Working
<1> QED
  BY <1>1, <1>3, <1>4, <1>5, <1>6, <1>7, ReactFrame

\* What a request that reacts works on.
LEMMA Reacting ==
    ASSUME DiscussionInv, NEW t \in Tasks, task[t].pc \in Reacts
    PROVE  /\ task \in [Tasks -> Locals] /\ task[t].id \in Ids /\ msg[task[t].id] # None
           /\ task[t].by \in Users /\ task[t].emoji \in Emojis
           /\ There(task[t].id) => msg[task[t].id] \in Copy /\ Groups(task[t].id) \in Groupings
<1>1. task \in [Tasks -> Locals] /\ msg \in [Ids -> {None, Gone} \cup Copy] /\ TaskOk(t)
  BY DEF DiscussionInv, DiscussionTypes, TaskInv
<1>2. \A m \in Copy : m.reactions \in Groupings
  BY DEF Copy
<1> QED
  BY <1>1, <1>2 DEF TaskOk, There, Groups

\* It goes on, or ends, and no message changes.
LEMMA GoesOn ==
    ASSUME DiscussionInv, DiscussionConstants, UNCHANGED <<open, file, stored, msg, view, swept, crashes>>,
           NEW t \in Tasks, NEW pc \in Reacts, Goto(t, pc), task[t].pc \in Reacts,
           \/ task[t].pc \notin {"look", "prune", "reread"}
           \/ task[t].pc = "look" /\ pc = "reread",
           pc \in {"seek", "join", "start", "leave"} => task[t].pc \in {"seek", "join", "start", "leave"}
    PROVE  DiscussionInv'
<1>1. /\ task \in [Tasks -> Locals] /\ task[t].id \in Ids /\ msg[task[t].id] # None
      /\ task[t].by \in Users /\ task[t].emoji \in Emojis
  BY Reacting
<1>2. pc \in Steps /\ pc \notin Removes \cup Sends \cup {"tell", "upload", "delete", "messages"}
  BY DEF Steps, Reacts, Removes, Sends
<1>3. /\ task' \in [Tasks -> Locals] /\ (\A x \in Tasks \ {t} : task'[x] = task[x])
      /\ task'[t].pc = pc /\ task'[t].by = task[t].by /\ task'[t].id = task[t].id /\ task'[t].emoji = task[t].emoji
  BY <1>1, <1>2, Goes
<1>4. TaskOk(t)'
  BY <1>1, <1>2, <1>3 DEF TaskOk, Removes
<1>5. task[t].pc \in Reacts \cup {"idle"} /\ task'[t].pc \in Reacts \cup {"idle", "tell"} /\ task'[t].pc # "tell"
  BY <1>2, <1>3
<1>6. ASSUME NEW j \in Ids, There(j)
      PROVE  /\ Tells(t, j) => Tells(t, j)'
             /\ t \in Working(j)' => t \in Working(j)
  <2>1. task[t].pc # "tell"
    BY DEF Reacts
  <2> QED
    BY <1>3, <2>1 DEF Tells, Working
<1> QED
  BY <1>3, <1>4, <1>5, <1>6, ReactFrame

\* One that ends early has nothing to tell.
LEMMA GivesUp ==
    ASSUME DiscussionInv, DiscussionConstants, UNCHANGED <<open, file, stored, msg, view, swept, crashes>>,
           NEW t \in Tasks, Over(t), task[t].pc \in Reacts, ~There(task[t].id) \/ ~Tells(t, task[t].id)
    PROVE  DiscussionInv'
<1>1. task \in [Tasks -> Locals]
  BY Reacting
<1>2. /\ task' \in [Tasks -> Locals] /\ (\A x \in Tasks \ {t} : task'[x] = task[x])
      /\ task'[t].pc = "idle" /\ task'[t].id = None
  BY <1>1, Ends
<1>3. TaskOk(t)'
  BY <1>2 DEF TaskOk, Sends, Reacts, Removes
<1>4. ASSUME NEW j \in Ids, There(j)
      PROVE  /\ Tells(t, j) => Tells(t, j)'
             /\ t \in Working(j)' => t \in Working(j)
  BY <1>2, <1>4 DEF Tells, Working
<1> QED
  BY <1>2, <1>3, <1>4, ReactFrame

\* Groups change: whoever changed them goes on to tell of it.
LEMMA RegroupStep ==
    ASSUME DiscussionInv, DiscussionConstants, UNCHANGED <<open, file, stored, view, swept, crashes>>,
           NEW t \in Tasks, task[t].pc \in {"join", "start", "leave"}, There(task[t].id),
           NEW g \in Groupings, msg' = [msg EXCEPT ![task[t].id] = WithGroups(msg[task[t].id], g)],
           NEW pc, Goto(t, pc),
           pc = "prune" \/ (pc = "look" /\ task[t].emoji \in DOMAIN g /\ g[task[t].emoji] # {})
    PROVE  DiscussionInv'
<1>1. DiscussionTypes /\ TaskInv /\ FileInv /\ UploadInv /\ SentInv /\ VersionInv /\ ViewInv
  BY DEF DiscussionInv
<1>2. task[t].pc \in Reacts /\ pc \in Reacts /\ pc \in Steps /\ task[t].pc \notin Removes
      /\ pc \notin Removes \cup Sends \cup {"tell", "upload", "delete", "messages", "seek", "join", "start", "leave"}
  BY DEF Reacts, Steps, Removes, Sends
<1>3. PICK id \in Ids : id = task[t].id
  BY <1>2, Reacting
<1>4. task \in [Tasks -> Locals] /\ task[t].by \in Users /\ task[t].emoji \in Emojis /\ There(id) /\ msg[id] \in Copy
  BY <1>2, <1>3, Reacting
<1>5. PICK old \in Copy : old = msg[id]
  BY <1>4
<1>6. PICK m \in Copy : m = WithGroups(old, g)
  BY Regrouped
<1>7. m.version = old.version + 1 /\ m.files = old.files /\ m.reactions = g /\ old.version \in Nat
  BY <1>6, Regrouped DEF Copy
<1>8. msg' = [msg EXCEPT ![id] = m]
  BY <1>3, <1>5, <1>6
<1>9. /\ task' \in [Tasks -> Locals] /\ (\A x \in Tasks \ {t} : task'[x] = task[x])
      /\ task'[t].pc = pc /\ task'[t].by = task[t].by /\ task'[t].id = id /\ task'[t].emoji = task[t].emoji
  BY <1>2, <1>3, <1>4, Goes
<1>10. msg'[id] = m /\ m # None
  BY <1>1, <1>8 DEF DiscussionTypes, DiscussionConstants
<1>11. TaskOk(t)'
  BY <1>2, <1>4, <1>9, <1>10 DEF TaskOk, Removes
<1>12. (DiscussionTypes /\ TaskInv /\ FileInv /\ UploadInv /\ SentInv)'
  <2>1. msg[id] # None /\ m.files = msg[id].files
    BY <1>4, <1>5, <1>7 DEF There
  <2>2. task[t].pc # "forget" /\ task'[t].pc \in Reacts \cup {"tell"} /\ task[t].id \in {id, None}
    BY <1>2, <1>3, <1>9
  <2> QED
    BY <1>4, <1>8, <1>9, <1>11, <2>1, <2>2, ChangeStep
<1>13. (VersionInv /\ ViewInv)'
  <2>1. t \in Working(id) /\ t \notin Working(id)'
    BY <1>2, <1>3, <1>9 DEF Working
  <2>2. m.version + Cardinality(Working(id)') <= MaxVersion + Cardinality(Tasks)
    <3>1. old.version + Cardinality(Working(id)) <= MaxVersion + Cardinality(Tasks)
      BY <1>1, <1>4, <1>5 DEF VersionInv
    <3> QED
      BY <1>7, <1>9, <2>1, <3>1, WorkingLess DEF DiscussionConstants
  <2>3. Tells(t, id)'
    BY <1>7, <1>9, <1>10 DEF Tells, Groups
  <2>4. m.version > msg[id].version
    BY <1>5, <1>7
  <2>5. task[t].id \in {id, None} /\ task'[t].pc # "tell"
    BY <1>2, <1>3, <1>9
  <2> QED
    BY <1>1, <1>2, <1>4, <1>8, <1>9, <2>2, <2>3, <2>4, <2>5, ChangeFrame
<1> QED
  BY <1>12, <1>13 DEF DiscussionInv

LEMMA JoinStep ==
    ASSUME DiscussionInv, DiscussionConstants, NEW t \in Tasks, Join(t) PROVE DiscussionInv'
<1>1. task[t].pc = "join" /\ task[t].pc \in Reacts /\ UNCHANGED <<open, file, stored, view, swept, crashes>>
  BY DEF Join, Reacts
<1>2. task \in [Tasks -> Locals] /\ task[t].by \in Users
  BY <1>1, Reacting
<1>3. CASE There(task[t].id) /\ task[t].emoji \in DOMAIN Groups(task[t].id)
  <2>1. PICK old \in Groupings : old = Groups(task[t].id)
    BY <1>1, <1>3, Reacting
  <2>2. DOMAIN old \subseteq Emojis /\ old \in [DOMAIN old -> SUBSET Users]
    BY GroupingsAre
  <2>3. PICK g \in [DOMAIN old -> SUBSET Users] :
          g = [old EXCEPT ![task[t].emoji] = @ \cup {task[t].by}]
    BY <1>2, <1>3, <2>1, <2>2
  <2>4. g \in Groupings /\ task[t].emoji \in DOMAIN g /\ g[task[t].emoji] # {}
    BY <1>3, <2>1, <2>2, <2>3, IsGrouping
  <2>5. msg' = [msg EXCEPT ![task[t].id] = WithGroups(msg[task[t].id], g)] /\ Goto(t, "look")
    <3>1. task[t].id \in Ids /\ msg \in [Ids -> {None, Gone} \cup Copy]
      BY <1>1, Reacting DEF DiscussionInv, DiscussionTypes
    <3> QED
      BY <1>3, <2>1, <2>3, <3>1 DEF Join
  <2> QED
    BY <1>1, <1>3, <2>4, <2>5, RegroupStep
<1>4. CASE ~(There(task[t].id) /\ task[t].emoji \in DOMAIN Groups(task[t].id))
  <2>1. Goto(t, "start") /\ UNCHANGED msg
    BY <1>4 DEF Join
  <2> QED
    BY <1>1, <2>1, GoesOn DEF Reacts
<1> QED
  BY <1>3, <1>4

LEMMA LeaveStep ==
    ASSUME DiscussionInv, DiscussionConstants, NEW t \in Tasks, Leave(t) PROVE DiscussionInv'
<1>1. task[t].pc = "leave" /\ task[t].pc \in Reacts /\ UNCHANGED <<open, file, stored, view, swept, crashes>>
  BY DEF Leave, Reacts
<1>2. task \in [Tasks -> Locals] /\ task[t].by \in Users
  BY <1>1, Reacting
<1>3. CASE Reacted(task[t].id, task[t].emoji, task[t].by)
  <2>1. There(task[t].id) /\ task[t].emoji \in DOMAIN Groups(task[t].id)
    BY <1>3 DEF Reacted
  <2>2. PICK old \in Groupings : old = Groups(task[t].id)
    BY <1>1, <2>1, Reacting
  <2>3. DOMAIN old \subseteq Emojis /\ old \in [DOMAIN old -> SUBSET Users]
    BY GroupingsAre
  <2>4. PICK g \in [DOMAIN old -> SUBSET Users] :
          g = [old EXCEPT ![task[t].emoji] = @ \ {task[t].by}]
    BY <1>2, <2>1, <2>2, <2>3
  <2>5. g \in Groupings
    BY <2>3, <2>4, IsGrouping
  <2>6. msg' = [msg EXCEPT ![task[t].id] = WithGroups(msg[task[t].id], g)] /\ Goto(t, "prune")
    <3>1. task[t].id \in Ids /\ msg \in [Ids -> {None, Gone} \cup Copy]
      BY <1>1, Reacting DEF DiscussionInv, DiscussionTypes
    <3> QED
      BY <1>3, <2>2, <2>4, <3>1 DEF Leave
  <2> QED
    BY <1>1, <2>1, <2>5, <2>6, RegroupStep
<1>4. CASE ~Reacted(task[t].id, task[t].emoji, task[t].by)
  <2>1. Goto(t, "reread") /\ UNCHANGED msg
    BY <1>4 DEF Leave
  <2> QED
    BY <1>1, <2>1, GoesOn DEF Reacts
<1> QED
  BY <1>3, <1>4

LEMMA StartGroupStep ==
    ASSUME DiscussionInv, DiscussionConstants, NEW t \in Tasks, StartGroup(t) PROVE DiscussionInv'
<1>1. task[t].pc = "start" /\ task[t].pc \in Reacts /\ UNCHANGED <<open, file, stored, view, swept, crashes>>
  BY DEF StartGroup, Reacts
<1>2. task \in [Tasks -> Locals] /\ task[t].by \in Users /\ task[t].emoji \in Emojis
      /\ task[t].id \in Ids /\ msg[task[t].id] # None
  BY <1>1, Reacting
<1> DEFINE Room == /\ There(task[t].id) /\ task[t].emoji \notin DOMAIN Groups(task[t].id)
                   /\ Cardinality(DOMAIN Groups(task[t].id)) < MaxReactions
<1>3. CASE Room
  <2>1. PICK old \in Groupings : old = Groups(task[t].id)
    BY <1>1, <1>3, Reacting
  <2>2. DOMAIN old \subseteq Emojis /\ old \in [DOMAIN old -> SUBSET Users]
    BY GroupingsAre
  <2>3. PICK E \in SUBSET Emojis : E = DOMAIN old \cup {task[t].emoji}
    BY <1>2, <2>2
  <2>4. PICK g \in [E -> SUBSET Users] :
          g = [e \in E |-> IF e = task[t].emoji THEN {task[t].by} ELSE old[e]]
    BY <1>2, <2>2, <2>3
  <2>5. g \in Groupings /\ task[t].emoji \in DOMAIN g /\ g[task[t].emoji] # {}
    BY <2>3, <2>4, IsGrouping
  <2>6. msg' = [msg EXCEPT ![task[t].id] = WithGroups(msg[task[t].id], g)] /\ Goto(t, "look")
    <3>1. msg \in [Ids -> {None, Gone} \cup Copy]
      BY DEF DiscussionInv, DiscussionTypes
    <3>2. Goto(t, "look") /\ msg' = [msg EXCEPT ![task[t].id] = WithGroups(msg[task[t].id],
                               [e \in DOMAIN old \cup {task[t].emoji} |-> IF e = task[t].emoji THEN {task[t].by} ELSE old[e]])]
      BY <1>2, <1>3, <2>1, <3>1 DEF StartGroup
    <3> QED
      BY <2>3, <2>4, <3>2
  <2>7. There(task[t].id)
    BY <1>3
  <2> QED
    BY <1>1, <2>5, <2>6, <2>7, RegroupStep
<1>4. CASE ~Room
  <2>1. UNCHANGED msg /\ task' = [task EXCEPT ![t].pc = IF task[t].tries = 1 THEN "look" ELSE "seek", ![t].tries = @ + 1]
    BY <1>4 DEF StartGroup
  <2>2. PICK pc \in {"look", "seek"} : pc = IF task[t].tries = 1 THEN "look" ELSE "seek"
    OBVIOUS
  <2>3. PICK n \in Nat : n = task[t].tries + 1
    BY <1>2 DEF Locals
  <2>4. pc \in Steps
    BY DEF Steps, Reacts
  <2>5. PICK k \in Locals : k = [task[t] EXCEPT !.pc = pc, !.tries = n]
    BY <1>2, <2>4 DEF Locals
  <2>6. k.pc = pc /\ k.by = task[t].by /\ k.id = task[t].id /\ k.emoji = task[t].emoji
    BY <1>2, <2>5 DEF Locals
  <2>7. task' = [task EXCEPT ![t] = k]
    BY <1>2, <2>1, <2>2, <2>3, <2>5
  <2>8. task' \in [Tasks -> Locals] /\ task'[t] = k /\ \A x \in Tasks \ {t} : task'[x] = task[x]
    BY <1>2, <2>7, Becomes
  <2>9. TaskOk(t)'
    BY <1>2, <2>1, <2>6, <2>8 DEF TaskOk, Sends, Reacts, Removes
  <2>10. task'[t].pc \in Reacts \cup {"idle", "tell"} /\ task'[t].pc # "tell"
    BY <2>6, <2>8 DEF Reacts
  <2>11. ASSUME NEW j \in Ids, There(j)
         PROVE  /\ Tells(t, j) => Tells(t, j)'
                /\ t \in Working(j)' => t \in Working(j)
    BY <1>1, <2>6, <2>8 DEF Tells, Working
  <2> QED
    BY <1>1, <2>1, <2>6, <2>8, <2>9, <2>10, <2>11, ReactFrame
<1> QED
  BY <1>3, <1>4

LEMMA SeekStep ==
    ASSUME DiscussionInv, DiscussionConstants, NEW t \in Tasks, Seek(t) PROVE DiscussionInv'
<1>1. PICK pc \in {"look", "join"} :
        pc = IF Reacted(task[t].id, task[t].emoji, task[t].by) THEN "look" ELSE "join"
  OBVIOUS
<1>2. task[t].pc = "seek" /\ Goto(t, pc) /\ UNCHANGED <<open, file, stored, msg, view, swept, crashes>>
  BY <1>1 DEF Seek
<1> QED
  BY <1>1, <1>2, GoesOn DEF Reacts

LEMMA LookStep ==
    ASSUME DiscussionInv, DiscussionConstants, NEW t \in Tasks, Look(t) PROVE DiscussionInv'
<1>1. task[t].pc = "look" /\ task[t].pc \in Reacts /\ UNCHANGED <<open, file, stored, msg, view, swept, crashes>>
  BY DEF Look, Reacts
<1>2. CASE There(task[t].id) /\ task[t].emoji \in DOMAIN Groups(task[t].id)
  BY <1>1, <1>2, GoesOn DEF Look, Reacts
<1>3. CASE ~(There(task[t].id) /\ task[t].emoji \in DOMAIN Groups(task[t].id))
  BY <1>1, <1>3, GivesUp DEF Look, Tells
<1> QED
  BY <1>2, <1>3

LEMMA RereadStep ==
    ASSUME DiscussionInv, DiscussionConstants, NEW t \in Tasks, Reread(t) PROVE DiscussionInv'
<1>1. task[t].pc = "reread" /\ task[t].pc \in Reacts /\ UNCHANGED <<open, file, stored, msg, view, swept, crashes>>
  BY DEF Reread, Reacts
<1>2. task \in [Tasks -> Locals] /\ task[t].id \in Ids /\ msg[task[t].id] # None
  BY <1>1, Reacting
<1>3. CASE There(task[t].id)
  <2>1. PICK m \in Copy : m = msg[task[t].id]
    BY <1>1, <1>3, Reacting
  <2>2. PICK k \in Locals : k = [task[t] EXCEPT !.pc = "tell", !.copy = m]
    BY <1>2 DEF Locals, Steps
  <2>3. k.pc = "tell" /\ k.id = task[t].id /\ k.copy = m
    BY <1>2, <2>2 DEF Locals
  <2>4. task' = [task EXCEPT ![t] = k]
    BY <1>2, <1>3, <2>1, <2>2 DEF Reread
  <2>5. task' \in [Tasks -> Locals] /\ task'[t] = k /\ \A x \in Tasks \ {t} : task'[x] = task[x]
    BY <1>2, <2>4, Becomes
  <2>6. TaskOk(t)'
    BY <1>1, <1>2, <2>3, <2>5 DEF TaskOk, Sends, Reacts, Removes, DiscussionConstants
  <2>7. ASSUME NEW j \in Ids, There(j)
        PROVE  /\ Tells(t, j) => Tells(t, j)'
               /\ t \in Working(j)' => t \in Working(j)
    BY <1>1, <2>1, <2>3, <2>5 DEF Tells, Working, DiscussionConstants
  <2> QED
    BY <1>1, <1>2, <2>1, <2>3, <2>5, <2>6, <2>7, ReactFrame
<1>4. CASE ~There(task[t].id)
  BY <1>1, <1>4, GivesUp DEF Reread
<1> QED
  BY <1>3, <1>4

\* Groups nobody is left in go, without a new version.
LEMMA PruneStep ==
    ASSUME DiscussionInv, DiscussionConstants, NEW t \in Tasks, Prune(t) PROVE DiscussionInv'
<1>1. /\ task[t].pc = "prune" /\ task[t].pc \in Reacts /\ UNCHANGED <<open, file, stored, view, swept, crashes>>
      /\ Goto(t, "reread")
  BY DEF Prune, Reacts
<1>2. DiscussionTypes /\ TaskInv /\ FileInv /\ UploadInv /\ SentInv /\ VersionInv /\ ViewInv
  BY DEF DiscussionInv
<1>3. PICK id \in Ids : id = task[t].id
  BY <1>1, Reacting
<1>4. /\ task \in [Tasks -> Locals] /\ task[t].by \in Users /\ task[t].emoji \in Emojis /\ msg[id] # None
      /\ msg \in [Ids -> {None, Gone} \cup Copy] /\ view \in [Ids -> {None, Gone} \cup Copy]
  BY <1>1, <1>2, <1>3, Reacting DEF DiscussionTypes
<1>5. "reread" \in Steps /\ "reread" \in Reacts
  BY DEF Steps, Reacts
<1>6. /\ task' \in [Tasks -> Locals] /\ (\A x \in Tasks \ {t} : task'[x] = task[x])
      /\ task'[t].pc = "reread" /\ task'[t].by = task[t].by /\ task'[t].id = id /\ task'[t].emoji = task[t].emoji
  BY <1>1, <1>3, <1>4, <1>5, Goes
<1>7. CASE ~There(id)
  <2>1. UNCHANGED msg
    BY <1>3, <1>7 DEF Prune
  <2>2. TaskOk(t)'
    BY <1>4, <1>6, <2>1 DEF TaskOk, Sends, Reacts, Removes
  <2>3. ASSUME NEW j \in Ids, There(j)
        PROVE  /\ Tells(t, j) => Tells(t, j)'
               /\ t \in Working(j)' => t \in Working(j)
    BY <1>3, <1>6, <1>7, <2>3 DEF Tells, Working
  <2>4. task'[t].pc \in Reacts \cup {"idle", "tell"} /\ task'[t].pc # "tell"
    BY <1>5, <1>6
  <2> QED
    BY <1>1, <1>3, <1>6, <2>1, <2>2, <2>3, <2>4, ReactFrame
<1>8. CASE There(id)
  <2>1. PICK old \in Copy : old = msg[id]
    BY <1>4, <1>8 DEF There
  <2>2. PICK g \in Groupings : g = Peopled(old.reactions)
    BY PeopledGroups DEF Copy
  <2>3. PICK m \in Copy : m = [old EXCEPT !.reactions = g]
    BY DEF Copy
  <2>4. /\ m.version = old.version /\ m.files = old.files /\ m.reactions = g /\ m # None /\ m # Gone
        /\ old.reactions \in Groupings
    BY <2>3 DEF Copy, Gone, DiscussionConstants
  <2>5. msg' = [msg EXCEPT ![id] = m]
    BY <1>3, <1>4, <1>8, <2>1, <2>2, <2>3 DEF Prune
  <2>6. /\ msg' \in [Ids -> {None, Gone} \cup Copy] /\ msg'[id] = m
        /\ \A j \in Ids \ {id} : msg'[j] = msg[j]
    BY <1>4, <2>5
  <2>7. TaskOk(t)'
    BY <1>4, <1>6, <2>4, <2>6 DEF TaskOk, Sends, Reacts, Removes
  <2>8. (DiscussionTypes /\ TaskInv /\ FileInv /\ UploadInv /\ SentInv)'
    <3>1. There(id) /\ m.files = msg[id].files /\ msg[id] # None
      BY <1>4, <1>8, <2>1, <2>4
    <3>2. task[t].id \in {id, None} /\ task[t].pc # "forget" /\ task'[t].pc \in Reacts \cup {"tell"}
      BY <1>1, <1>3, <1>5, <1>6
    <3> QED
      BY <1>1, <1>6, <2>5, <2>7, <3>1, <3>2, ChangeStep
  <2>9. VersionInv'
    <3>1. ASSUME NEW j \in Ids PROVE Working(j)' = Working(j)
      BY <1>1, <1>6 DEF Working
    <3> QED
      BY <1>2, <1>8, <2>1, <2>4, <2>6, <3>1 DEF VersionInv, There
  <2>10. Same(old, m)
    <3>1. Peopled(m.reactions) = g
      BY <2>2, <2>4, PeopledGroups
    <3>2. [old EXCEPT !.reactions = g] = [m EXCEPT !.reactions = g]
      BY <2>3 DEF Copy
    <3> QED
      BY <2>2, <3>1, <3>2 DEF Same
  <2>11. ASSUME NEW c \in Copy, Past(c, old) PROVE Past(c, m)
    BY <2>4, <2>10, <2>11 DEF Past, Same
  <2>12. ASSUME NEW x \in Tasks, NEW j \in Ids
         PROVE  (Tells(x, j) => Tells(x, j)') /\ (TellsGone(x, j) => TellsGone(x, j)')
    <3>1. CASE x = t
      BY <1>1, <1>3, <1>6, <3>1 DEF Tells, TellsGone, Removes
    <3>2. CASE x # t /\ j # id
      BY <1>6, <2>6, <3>2 DEF Tells, TellsGone, Groups
    <3>3. CASE x # t /\ j = id
      <4>1. ASSUME NEW e, e \in DOMAIN old.reactions, old.reactions[e] # {}
            PROVE  e \in DOMAIN g /\ g[e] # {}
        BY <2>2, <2>4, <4>1, PeopledGroups
      <4> QED
        BY <1>6, <2>1, <2>4, <2>6, <3>3, <4>1 DEF Tells, TellsGone, Groups
    <3> QED
      BY <3>1, <3>2, <3>3
  <2>13. ASSUME NEW j \in Ids
         PROVE  /\ msg'[j] = None => view[j] = None
                /\ view[j] = Gone => Deleted(j)'
                /\ There(j)' /\ view[j] # None => Past(view[j], msg'[j])
                /\ There(j)' => Current(j)' \/ \E x \in Tasks : Tells(x, j)'
                /\ open /\ Deleted(j)' => view[j] = Gone \/ \E x \in Tasks : TellsGone(x, j)'
    <3>1. CASE j = id
      <4>1. view[id] # Gone /\ There(id)' /\ ~Deleted(id)'
        BY <1>2, <1>8, <2>4, <2>6 DEF ViewInv, There, Deleted
      <4>2. view[id] # None => view[id] \in Copy /\ Past(view[id], old)
        BY <1>2, <1>4, <1>8, <2>1, <4>1 DEF ViewInv
      <4>3. Tells(t, id)'
        BY <1>6 DEF Tells
      <4> QED
        BY <2>4, <2>6, <2>11, <3>1, <4>1, <4>2, <4>3
    <3>2. CASE j # id
      <4>1. msg'[j] = msg[j] /\ (There(j)' <=> There(j)) /\ (Deleted(j)' <=> Deleted(j)) /\ (Current(j)' <=> Current(j))
        BY <1>1, <2>6, <3>2 DEF There, Deleted, Current
      <4> QED
        BY <1>2, <2>12, <4>1 DEF ViewInv
    <3> QED
      BY <3>1, <3>2
  <2>14. ASSUME NEW x \in Tasks, task'[x].pc = "tell", task'[x].copy # None, msg'[task'[x].id] \notin {None, Gone}
         PROVE  Past(task'[x].copy, msg'[task'[x].id])
    <3>1. task'[x] = task[x] /\ task[x].id \in Ids /\ task[x].copy \in Copy
      BY <1>2, <1>4, <1>6, <2>14 DEF TaskInv, TaskOk, Locals
    <3>2. There(task[x].id)
      BY <1>8, <2>6, <2>14, <3>1 DEF There
    <3>3. Past(task[x].copy, msg[task[x].id])
      BY <1>2, <2>14, <3>1, <3>2 DEF ViewInv
    <3>4. CASE task[x].id = id
      BY <2>1, <2>6, <2>11, <3>1, <3>3, <3>4
    <3>5. CASE task[x].id # id
      BY <2>6, <3>1, <3>3, <3>5
    <3> QED
      BY <3>4, <3>5
  <2>15. ViewInv'
    BY <1>1, <2>13, <2>14 DEF ViewInv, There
  <2> QED
    BY <2>8, <2>9, <2>15 DEF DiscussionInv
<1> QED
  BY <1>7, <1>8

-----------------------------------------------------------------------------
(***************************************************************************)
(* The discussion                                                          *)
(***************************************************************************)

LEMMA DiscussionInit == ASSUME DiscussionConstants, Init PROVE DiscussionInv
<1>1. DiscussionTypes
  BY IdleFields DEF Init, DiscussionTypes
<1>2. \A t \in Tasks : task[t].pc = "idle" /\ task[t].id = None /\ task[t].files = {} /\ task[t].copy = None
  BY IdleFields DEF Init
<1>3. TaskInv
  BY <1>2 DEF TaskInv, TaskOk, Sends, Reacts, Removes
<1>4. FileInv
  BY DEF Init, FileInv
<1>5. UploadInv
  BY <1>2 DEF UploadInv, UploadOk
<1>6. \A id \in Ids, f \in Files : ~Has(id, f)
  BY <1>2 DEF Init, Has, There
<1>7. SentInv
  <2>1. \A t \in Tasks, f \in Files : SentOk(t, f)
    BY <1>2 DEF SentOk, Sends
  <2> QED
    BY <1>6, <2>1 DEF SentInv
<1>8. VersionInv
  BY DEF Init, VersionInv, There
<1>9. ViewInv
  BY <1>2 DEF Init, ViewInv, There, Deleted, DiscussionConstants
<1> QED
  BY <1>1, <1>3, <1>4, <1>5, <1>7, <1>8, <1>9 DEF DiscussionInv

LEMMA DiscussionStep == ASSUME DiscussionInv, DiscussionConstants, [Next]_vars PROVE DiscussionInv'
<1>1. CASE UNCHANGED vars
  <2>1. /\ \A f \in Files : (Forgetting(f)' <=> Forgetting(f)) /\ (Expendable(f)' <=> Expendable(f))
        /\ \A id \in Ids, f \in Files : Has(id, f)' <=> Has(id, f)
    BY <1>1 DEF vars, Forgetting, Expendable, Deleted, Has, There
  <2>2. DiscussionTypes /\ TaskInv /\ FileInv /\ UploadInv /\ SentInv /\ VersionInv /\ ViewInv
    BY DEF DiscussionInv
  <2>3. (TaskInv /\ VersionInv /\ ViewInv)' /\ DiscussionTypes'
    BY <1>1, <2>2, StillStep DEF vars, DiscussionTypes
  <2>4. FileInv' /\ SentInv'
    BY <1>1, <2>1, <2>2 DEF vars, FileInv, FileOk, SentInv, SentOk, HeldOk
  <2>5. ASSUME NEW x \in Tasks PROVE UploadOk(x)'
    <3>1. UploadOk(x) /\ task[x].files \subseteq Files
      BY <2>2 DEF UploadInv, DiscussionTypes, Locals
    <3> QED
      BY <1>1, <2>1, <3>1 DEF vars, UploadOk
  <2> QED
    BY <2>3, <2>4, <2>5 DEF DiscussionInv, UploadInv
<1>2. ASSUME NEW t \in Tasks, TaskStep(t) PROVE DiscussionInv'
  <2>1. CASE InsertUpload(t) \/ MakeReady(t) \/ DropFile(t) \/ ForgetFile(t) \/ ListFiles(t)
    BY <2>1, InsertUploadStep, MakeReadyStep, DropFileStep, ForgetFileStep, ListFilesStep
  <2>2. CASE Claim(t) \/ ReadClaimed(t) \/ Insert(t) \/ Release(t) \/ Publish(t)
    BY <2>2, ClaimStep, ReadClaimedStep, InsertStep, ReleaseStep, PublishStep
  <2>3. CASE DeleteOne(t) \/ DeleteMessages(t)
    BY <2>3, DeletionStep
  <2>4. CASE Seek(t) \/ Join(t) \/ StartGroup(t) \/ Look(t) \/ Leave(t) \/ Prune(t) \/ Reread(t)
    BY <2>4, SeekStep, JoinStep, StartGroupStep, LookStep, LeaveStep, PruneStep, RereadStep
  <2> QED
    BY <1>2, <2>1, <2>2, <2>3, <2>4 DEF TaskStep
<1>3. ASSUME NEW t \in Tasks, Crash(t) PROVE FALSE
  BY <1>3 DEF Crash, DiscussionInv, DiscussionTypes, DiscussionConstants
<1>4. ASSUME NEW t \in Tasks, Sweep(t) \/ DeleteDecision(t) PROVE DiscussionInv'
  BY <1>4, SweepStep, DeleteDecisionStep
<1>5. ASSUME NEW t \in Tasks, NEW f \in Files, Complete(t, f) \/ \E u \in Users : StartUpload(t, u, f)
      PROVE  DiscussionInv'
  BY <1>5, CompleteStep, StartUploadStep
<1>6. ASSUME NEW t \in Tasks, NEW u \in Users, NEW c \in Clients, NEW F \in SUBSET Files, NEW id \in Ids,
             Send(t, u, c, F, id)
      PROVE  DiscussionInv'
  BY <1>6, SendStep
<1>7. ASSUME NEW t \in Tasks, NEW u \in Users, NEW id \in Ids,
             \/ Delete(t, u, id)
             \/ \E b \in Bodies : Edit(t, u, id, b)
             \/ \E e \in Emojis : React(t, u, id, e) \/ Unreact(t, u, id, e)
      PROVE  DiscussionInv'
  BY <1>7, DeleteStep, EditStep, ReactStep
<1>8. ASSUME NEW f \in Files, A_Day(f) \/ \E kind \in {"right", "wrong"} : Arrive(f, kind) PROVE DiscussionInv'
  BY <1>8, DayStep, ArriveStep
<1> QED
  BY <1>1, <1>2, <1>3, <1>4, <1>5, <1>6, <1>7, <1>8 DEF Next

LEMMA DiscussionHolds == ASSUME DiscussionInv, DiscussionConstants PROVE DiscussionSafe
<1>1. DiscussionTypes /\ TaskInv /\ FileInv /\ UploadInv /\ SentInv /\ VersionInv /\ ViewInv
  BY DEF DiscussionInv
<1>2. ASSUME NEW id \in Ids, There(id)
      PROVE  msg[id] \in Copy /\ msg[id].version \in Nat \ {0} /\ msg[id].files \subseteq Files
  BY <1>1, <1>2 DEF DiscussionTypes, There, Copy
<1>3. TypeOK
  <2>1. ASSUME NEW id \in Ids, There(id) PROVE msg[id].version \in 1..MaxVersion + Cardinality(Tasks)
    <3>1. msg[id].version + Cardinality(Working(id)) <= MaxVersion + Cardinality(Tasks)
      BY <1>1, <2>1 DEF VersionInv
    <3>2. Cardinality(Working(id)) \in Nat /\ Cardinality(Tasks) \in Nat
      BY WorkingFinite DEF DiscussionConstants
    <3> QED
      BY <1>2, <2>1, <3>1, <3>2 DEF DiscussionConstants
  <2>2. \A f \in Files : file[f] # None => file[f].by \in Users /\ file[f].expires \in {"later", "due", "never"}
    BY <1>1 DEF DiscussionTypes, FileRecord
  <2> QED
    BY <1>1, <1>2, <2>1, <2>2 DEF TypeOK, Messages, DiscussionTypes
<1>4. FilesStay
  <2>1. ASSUME NEW id \in Messages PROVE id \in Ids /\ There(id) /\ msg[id].files \subseteq Files
    BY <1>2 DEF Messages
  <2>2. ASSUME NEW id \in Messages, NEW other \in Messages \ {id} PROVE msg[id].files \cap msg[other].files = {}
    BY <1>1, <2>1 DEF SentInv, Has
  <2>3. ASSUME NEW id \in Messages, NEW f \in msg[id].files \ swept, open
        PROVE  file[f] # None /\ file[f].msg = id /\ stored[f] # None
    <3>1. f \in Files /\ id \in Ids /\ There(id) /\ HeldOk(id, f)
      BY <1>1, <2>1 DEF SentInv, Has
    <3>2. file[f] # None /\ file[f].msg = id
      BY <2>3, <3>1 DEF HeldOk
    <3>3. FileOk(f) /\ ~Expendable(f)
      BY <1>1, <2>3, <3>1, <3>2 DEF FileInv, Expendable, Deleted, There, DiscussionConstants
    <3> QED
      BY <3>1, <3>2, <3>3 DEF FileOk, DiscussionConstants
  <2> QED
    BY <2>2, <2>3 DEF FilesStay
<1>5. ViewersCatchUp
  <2> SUFFICES ASSUME open, \A t \in Tasks : task[t] = Idle, NEW id \in Ids
               PROVE  IF There(id) THEN view[id] \notin {None, Gone} /\ Same(view[id], msg[id])
                      ELSE msg[id] = Gone => view[id] = Gone
    BY DEF ViewersCatchUp, Same
  <2>1. \A t \in Tasks : ~Tells(t, id) /\ ~TellsGone(t, id)
    BY IdleFields DEF Tells, TellsGone, Removes
  <2>2. CASE There(id)
    <3>1. Current(id)
      BY <1>1, <2>1, <2>2 DEF ViewInv
    <3> QED
      BY <1>1, <2>2, <3>1 DEF ViewInv, Current, Past
  <2>3. CASE ~There(id)
    BY <1>1, <2>1, <2>3 DEF ViewInv, Deleted
  <2> QED
    BY <2>2, <2>3
<1> QED
  BY <1>3, <1>4, <1>5 DEF DiscussionSafe

\* attachments.py, service.py, schemas.py: a file is sent with one message, and is there
\* as long as the message is, but for one that a sweep had listed as unsent; and once
\* the requests have ended, what the viewers hold is what is stored. For any users,
\* messages, files, emojis and requests; None is nothing else, and no request dies.
THEOREM DiscussionKeeps == ASSUME DiscussionConstants PROVE Spec => []DiscussionSafe
<1>1. Init => DiscussionInv
  BY DiscussionInit
<1>2. DiscussionInv /\ [Next]_vars => DiscussionInv'
  BY DiscussionStep
<1>3. DiscussionInv => DiscussionSafe
  BY DiscussionHolds
<1> QED
  BY <1>1, <1>2, <1>3, PTL DEF Spec
=============================================================================
