----------------------------- MODULE Discussion -----------------------------
(***************************************************************************)
(* The discussion of one decision (decision_comments/service.py): messages *)
(* sent once however often they are sent, edited, reacted to and deleted,  *)
(* and the files sent with them (attachments.py) from their upload to      *)
(* their removal. The viewers (realtime) keep of each message the copy     *)
(* with the highest version, as schemas.py has them do.                    *)
(*                                                                         *)
(* What is uploaded either is what its name says or is not; texts,         *)
(* sizes and links are left out, and so are the send limits. Requests and  *)
(* sweeps are tasks; each read and write of a collection or of the store   *)
(* is an action.                                                           *)
(***************************************************************************)
EXTENDS Naturals, FiniteSets, Functions

CONSTANTS Users,
          Admins,        \* users who may delete the messages of others
          Ids,           \* of messages
          Clients,       \* ids a sender's client gives its messages
          Files,         \* uploads
          Bodies,        \* what a message may say
          Emojis,
          MaxReactions,  \* MAX_REACTIONS
          Tasks,
          MaxVersion,    \* bound on the changes of a message
          MaxCrashes,    \* bound on tasks that die
          None

VARIABLES
  open,    \* whether the decision is there
  file,    \* decision_attachments
  stored,  \* the object store: what is there, "right", "wrong" or None
  msg,     \* decision_comments; Gone once deleted
  view,    \* the copy of each message a viewer holds
  task,    \* the locals of each request and sweep
  swept,   \* history: files a sweep had listed when they were sent
  crashes  \* tasks that died

vars == <<open, file, stored, msg, view, task, swept, crashes>>

Idle == [pc |-> "idle", by |-> None, id |-> None, client |-> None, files |-> {}, shown |-> {},
         emoji |-> None, tries |-> 0, copy |-> None]
Goto(t, pc) == task' = [task EXCEPT ![t].pc = pc]
Over(t) == task' = [task EXCEPT ![t] = Idle]
Gone == [version |-> 0]
There(id) == msg[id] \notin {None, Gone}
Messages == {id \in Ids : There(id)}
Unsent == {f \in Files : file[f] # None /\ file[f].msg = None}

Init ==
  /\ open = TRUE
  /\ file = [f \in Files |-> None]
  /\ stored = [f \in Files |-> None]
  /\ msg = [id \in Ids |-> None]
  /\ view = [id \in Ids |-> None]
  /\ task = [t \in Tasks |-> Idle]
  /\ swept = {}
  /\ crashes = 0

-----------------------------------------------------------------------------
(* start_upload: the decision is looked up, then the record inserted under *)
(* an id nothing names any more. A file unsent for a day is due for        *)
(* removal.                                                                *)

StartUpload(t, u, f) ==
  /\ task[t] = Idle /\ open /\ file[f] = None /\ stored[f] = None
  /\ (\A x \in Tasks : f \notin task[x].files) /\ \A id \in Messages : f \notin msg[id].files
  /\ task' = [task EXCEPT ![t] = [Idle EXCEPT !.pc = "upload", !.by = u, !.files = {f}]]
  /\ UNCHANGED <<open, file, stored, msg, view, swept, crashes>>

InsertUpload(t) ==
  /\ task[t].pc = "upload"
  /\ file' = [f \in Files |-> IF f \in task[t].files
                              THEN [by |-> task[t].by, status |-> "pending", msg |-> None, expires |-> "later"] ELSE file[f]]
  /\ Over(t)
  /\ UNCHANGED <<open, stored, msg, view, swept, crashes>>

(* upload_content, or the store itself: a file arrives for a pending record. *)
Arrive(f, kind) ==
  /\ file[f] # None /\ file[f].status = "pending"
  /\ stored' = [stored EXCEPT ![f] = kind]
  /\ UNCHANGED <<open, file, msg, view, task, swept, crashes>>

A_Day(f) ==
  /\ file[f] # None /\ file[f].expires = "later"
  /\ file' = [file EXCEPT ![f].expires = "due"]
  /\ UNCHANGED <<open, stored, msg, view, task, swept, crashes>>

(* complete_upload: the file is looked at in the store, then the record    *)
(* made ready, or both removed.                                            *)
Complete(t, f) ==
  /\ task[t] = Idle
  /\ file[f] # None /\ file[f].status = "pending" /\ stored[f] # None
  /\ task' = [task EXCEPT ![t] = [Idle EXCEPT !.pc = IF stored[f] = "right" THEN "ready" ELSE "drop", !.files = {f}]]
  /\ UNCHANGED <<open, file, stored, msg, view, swept, crashes>>

MakeReady(t) ==
  /\ task[t].pc = "ready"
  /\ file' = [f \in Files |-> IF f \in task[t].files /\ file[f] # None THEN [file[f] EXCEPT !.status = "ready"] ELSE file[f]]
  /\ Over(t)
  /\ UNCHANGED <<open, stored, msg, view, swept, crashes>>

-----------------------------------------------------------------------------
(* remove: of each file the object, then the record; one that the store    *)
(* does not delete is left for the sweep.                                  *)

After(t, f) ==
  IF task[t].files \ {f} # {} THEN [task[t] EXCEPT !.pc = "drop", !.files = @ \ {f}]
  ELSE IF task[t].id # None THEN [task[t] EXCEPT !.pc = "tell", !.files = {}]
  ELSE Idle

DropFile(t) ==
  /\ task[t].pc = "drop"
  /\ IF task[t].files = {} THEN task' = [task EXCEPT ![t] = After(t, None)] /\ UNCHANGED <<file, stored>>
     ELSE \E f \in task[t].files :
       \/ /\ stored' = [stored EXCEPT ![f] = None]
          /\ task' = [task EXCEPT ![t].pc = "forget", ![t].shown = {f}] /\ UNCHANGED file
       \/ /\ file' = IF file[f] = None THEN file ELSE [file EXCEPT ![f].expires = "due"]
          /\ task' = [task EXCEPT ![t] = After(t, f)] /\ UNCHANGED stored
  /\ UNCHANGED <<open, msg, view, swept, crashes>>

ForgetFile(t) ==
  /\ task[t].pc = "forget"
  /\ \E f \in task[t].shown :
       /\ file' = [file EXCEPT ![f] = None]
       /\ task' = [task EXCEPT ![t] = [After(t, f) EXCEPT !.shown = {}]]
  /\ UNCHANGED <<open, stored, msg, view, swept, crashes>>

Remove(t, id, F) == task' = [task EXCEPT ![t].pc = "drop", ![t].id = id, ![t].files = F]

Sweep(t) ==
  LET due == {f \in Files : file[f] # None /\ file[f].expires = "due"} IN
  /\ task[t] = Idle /\ due # {}
  /\ Remove(t, None, due)
  /\ UNCHANGED <<open, file, stored, msg, view, swept, crashes>>

-----------------------------------------------------------------------------
(* add: answered with the message that is there already; else the files    *)
(* are claimed, all or none, before the message is inserted.               *)

Sent(u, c) == {id \in Messages : msg[id].author = u /\ msg[id].client = c}
Fresh(id) == msg[id] = None /\ \A t \in Tasks : task[t].id # id

Send(t, u, c, F, id) ==
  /\ task[t] = Idle /\ open /\ Sent(u, c) = {} /\ Fresh(id)
  /\ \A f \in Files : file[f] # None => file[f].msg # id
  /\ task' = [task EXCEPT ![t] = [Idle EXCEPT !.pc = IF F = {} THEN "insert" ELSE "claim", !.by = u, !.client = c, !.files = F, !.id = id]]
  /\ UNCHANGED <<open, file, stored, msg, view, swept, crashes>>

Claimable(t) == {f \in task[t].files : file[f] # None /\ file[f].by = task[t].by /\ file[f].status = "ready" /\ file[f].msg = None}

\* Slip: a file that was sent before can be sent again.
ClaimSent(t) ==
  LET mine == {f \in task[t].files : file[f] # None /\ file[f].by = task[t].by /\ file[f].status = "ready"} IN
  /\ task[t].pc = "claim"
  /\ file' = [f \in Files |-> IF f \in mine THEN [file[f] EXCEPT !.msg = task[t].id, !.expires = "never"] ELSE file[f]]
  /\ Goto(t, IF mine = task[t].files THEN "shown" ELSE "unclaim")
  /\ swept' = swept \cup {f \in mine : \E x \in Tasks \ {t} : f \in task[x].files /\ task[x].pc \in {"drop", "forget"}}
  /\ UNCHANGED <<open, stored, msg, view, crashes>>

Claim(t) ==
  LET mine == Claimable(t) IN
  /\ task[t].pc = "claim"
  /\ file' = [f \in Files |-> IF f \in mine THEN [file[f] EXCEPT !.msg = task[t].id, !.expires = "never"] ELSE file[f]]
  /\ Goto(t, IF mine = task[t].files THEN "shown" ELSE "unclaim")
  /\ swept' = swept \cup {f \in mine : \E x \in Tasks \ {t} : f \in task[x].files /\ task[x].pc \in {"drop", "forget"}}
  /\ UNCHANGED <<open, stored, msg, view, crashes>>

ReadClaimed(t) ==
  /\ task[t].pc = "shown"
  /\ task' = [task EXCEPT ![t].pc = "insert", ![t].shown = {f \in Files : file[f] # None /\ file[f].msg = task[t].id}]
  /\ UNCHANGED <<open, file, stored, msg, view, swept, crashes>>

(* The unique (decision, author, client id) index keeps one of two.        *)
Insert(t) ==
  LET k == task[t] IN
  /\ k.pc = "insert"
  /\ \E b \in Bodies :
       LET new == [author |-> k.by, client |-> k.client, body |-> b, files |-> k.shown, reactions |-> <<>>, version |-> 1]
       IN IF Sent(k.by, k.client) = {}
          THEN msg' = [msg EXCEPT ![k.id] = new] /\ task' = [task EXCEPT ![t].pc = "tell", ![t].copy = new]
          ELSE UNCHANGED msg /\ Goto(t, "unclaim")
  /\ UNCHANGED <<open, file, stored, view, swept, crashes>>

Release(t) ==
  /\ task[t].pc = "unclaim"
  /\ file' = [f \in Files |-> IF file[f] # None /\ file[f].msg = task[t].id
                              THEN [file[f] EXCEPT !.msg = None, !.expires = "later"] ELSE file[f]]
  /\ Over(t)
  /\ UNCHANGED <<open, stored, msg, view, swept, crashes>>

(* The event reaches the viewers, who keep the newest copy.                *)
Newest(held, copy) ==
  IF copy = None THEN Gone
  ELSE IF held = None THEN copy
  ELSE IF held = Gone \/ held.version > copy.version THEN held ELSE copy

Publish(t) ==
  /\ task[t].pc = "tell"
  /\ view' = [view EXCEPT ![task[t].id] = Newest(@, task[t].copy)]
  /\ Over(t)
  /\ UNCHANGED <<open, file, stored, msg, swept, crashes>>

-----------------------------------------------------------------------------
Edit(t, u, id, b) ==
  /\ task[t] = Idle /\ There(id) /\ msg[id].author = u /\ msg[id].version < MaxVersion
  /\ LET new == [msg[id] EXCEPT !.body = b, !.version = @ + 1]
     IN msg' = [msg EXCEPT ![id] = new] /\ task' = [task EXCEPT ![t] = [Idle EXCEPT !.pc = "tell", !.id = id, !.copy = new]]
  /\ UNCHANGED <<open, file, stored, view, swept, crashes>>

Delete(t, u, id) ==
  /\ task[t] = Idle /\ There(id) /\ (msg[id].author = u \/ u \in Admins)
  /\ task' = [task EXCEPT ![t] = [Idle EXCEPT !.pc = "delete", !.id = id]]
  /\ UNCHANGED <<open, file, stored, msg, view, swept, crashes>>

DeleteOne(t) ==
  /\ task[t].pc = "delete"
  /\ msg' = [msg EXCEPT ![task[t].id] = Gone]
  /\ Goto(t, "list")
  /\ UNCHANGED <<open, file, stored, view, swept, crashes>>

ListFiles(t) ==
  /\ task[t].pc = "list"
  /\ LET ofIt(f) == IF task[t].id = None THEN TRUE ELSE file[f].msg = task[t].id
     IN Remove(t, task[t].id, {f \in Files : file[f] # None /\ ofIt(f)})
  /\ UNCHANGED <<open, file, stored, msg, view, swept, crashes>>

(* suggest.dismiss: the decision goes, then delete_for_decision.           *)
DeleteDecision(t) ==
  /\ task[t] = Idle /\ open
  /\ open' = FALSE
  /\ task' = [task EXCEPT ![t] = [Idle EXCEPT !.pc = "messages"]]
  /\ UNCHANGED <<file, stored, msg, view, swept, crashes>>

DeleteMessages(t) ==
  /\ task[t].pc = "messages"
  /\ msg' = [id \in Ids |-> IF There(id) THEN Gone ELSE msg[id]]
  /\ Goto(t, "list")
  /\ UNCHANGED <<open, file, stored, view, swept, crashes>>

-----------------------------------------------------------------------------
(* react: join the emoji's group, or start one while there is room, twice  *)
(* at most. unreact: leave it, then groups nobody is left in go.           *)

React(t, u, id, e) ==
  /\ task[t] = Idle /\ open /\ There(id) /\ msg[id].version < MaxVersion
  /\ task' = [task EXCEPT ![t] = [Idle EXCEPT !.pc = "seek", !.by = u, !.id = id, !.emoji = e]]
  /\ UNCHANGED <<open, file, stored, msg, view, swept, crashes>>

Groups(id) == msg[id].reactions
Reacted(id, e, u) == There(id) /\ e \in DOMAIN Groups(id) /\ u \in Groups(id)[e]
WithGroups(m, groups) == [m EXCEPT !.reactions = groups, !.version = @ + 1]

Seek(t) ==
  /\ task[t].pc = "seek"
  /\ Goto(t, IF Reacted(task[t].id, task[t].emoji, task[t].by) THEN "look" ELSE "join")
  /\ UNCHANGED <<open, file, stored, msg, view, swept, crashes>>

Join(t) ==
  LET k == task[t] IN
  /\ k.pc = "join"
  /\ IF There(k.id) /\ k.emoji \in DOMAIN Groups(k.id)
     THEN msg' = [msg EXCEPT ![k.id] = WithGroups(@, [Groups(k.id) EXCEPT ![k.emoji] = @ \cup {k.by}])] /\ Goto(t, "look")
     ELSE Goto(t, "start") /\ UNCHANGED msg
  /\ UNCHANGED <<open, file, stored, view, swept, crashes>>

StartGroup(t) ==
  LET k == task[t] IN
  /\ k.pc = "start"
  /\ IF There(k.id) /\ k.emoji \notin DOMAIN Groups(k.id) /\ Cardinality(DOMAIN Groups(k.id)) < MaxReactions
     THEN msg' = [msg EXCEPT ![k.id] = WithGroups(@, [e \in DOMAIN Groups(k.id) \cup {k.emoji} |-> IF e = k.emoji THEN {k.by} ELSE Groups(k.id)[e]])]
          /\ Goto(t, "look")
     ELSE UNCHANGED msg /\ task' = [task EXCEPT ![t].pc = IF k.tries = 1 THEN "look" ELSE "seek", ![t].tries = @ + 1]
  /\ UNCHANGED <<open, file, stored, view, swept, crashes>>

(* There was no room for the emoji: nothing is told.                       *)
Look(t) ==
  LET id == task[t].id IN
  /\ task[t].pc = "look"
  /\ IF There(id) /\ task[t].emoji \in DOMAIN Groups(id) THEN Goto(t, "reread") ELSE Over(t)
  /\ UNCHANGED <<open, file, stored, msg, view, swept, crashes>>

Unreact(t, u, id, e) ==
  /\ task[t] = Idle /\ open /\ There(id) /\ msg[id].version < MaxVersion
  /\ task' = [task EXCEPT ![t] = [Idle EXCEPT !.pc = "leave", !.by = u, !.id = id, !.emoji = e]]
  /\ UNCHANGED <<open, file, stored, msg, view, swept, crashes>>

Leave(t) ==
  LET k == task[t] IN
  /\ k.pc = "leave"
  /\ IF Reacted(k.id, k.emoji, k.by)
     THEN msg' = [msg EXCEPT ![k.id] = WithGroups(@, [Groups(k.id) EXCEPT ![k.emoji] = @ \ {k.by}])] /\ Goto(t, "prune")
     ELSE UNCHANGED msg /\ Goto(t, "reread")
  /\ UNCHANGED <<open, file, stored, view, swept, crashes>>

Peopled(groups) == Restrict(groups, {e \in DOMAIN groups : groups[e] # {}})

Prune(t) ==
  LET id == task[t].id IN
  /\ task[t].pc = "prune"
  /\ msg' = IF There(id) THEN [msg EXCEPT ![id].reactions = Peopled(@)] ELSE msg
  /\ Goto(t, "reread")
  /\ UNCHANGED <<open, file, stored, view, swept, crashes>>

(* _reacted: the message as it is now is told; one that is gone is not.    *)
Reread(t) ==
  LET id == task[t].id IN
  /\ task[t].pc = "reread"
  /\ IF There(id) THEN task' = [task EXCEPT ![t].pc = "tell", ![t].copy = msg[id]] ELSE Over(t)
  /\ UNCHANGED <<open, file, stored, msg, view, swept, crashes>>

Crash(t) ==
  /\ task[t] # Idle /\ crashes < MaxCrashes
  /\ crashes' = crashes + 1
  /\ Over(t)
  /\ UNCHANGED <<open, file, stored, msg, view, swept>>

TaskStep(t) ==
  \/ InsertUpload(t) \/ MakeReady(t) \/ DropFile(t) \/ ForgetFile(t) \/ Claim(t) \/ ReadClaimed(t) \/ Insert(t)
  \/ Release(t) \/ Publish(t) \/ DeleteOne(t) \/ ListFiles(t) \/ DeleteMessages(t)
  \/ Seek(t) \/ Join(t) \/ StartGroup(t) \/ Look(t) \/ Leave(t) \/ Prune(t) \/ Reread(t)

Next ==
  \/ \E t \in Tasks :
       \/ TaskStep(t) \/ Crash(t) \/ Sweep(t) \/ DeleteDecision(t)
       \/ \E f \in Files : Complete(t, f) \/ \E u \in Users : StartUpload(t, u, f)
       \/ \E u \in Users, c \in Clients, F \in SUBSET Files, id \in Ids : Send(t, u, c, F, id)
       \/ \E u \in Users, id \in Ids :
            \/ Delete(t, u, id)
            \/ \E b \in Bodies : Edit(t, u, id, b)
            \/ \E e \in Emojis : React(t, u, id, e) \/ Unreact(t, u, id, e)
  \/ \E f \in Files : A_Day(f) \/ \E kind \in {"right", "wrong"} : Arrive(f, kind)

Spec == Init /\ [][Next]_vars
-----------------------------------------------------------------------------
TypeOK ==
  /\ stored \in [Files -> {"right", "wrong", None}]
  /\ \A f \in Files : file[f] # None => file[f].by \in Users /\ file[f].expires \in {"later", "due", "never"}
  /\ \A id \in Messages : msg[id].version \in 1..MaxVersion + Cardinality(Tasks) /\ msg[id].files \subseteq Files

(* "Attach the member's ready, unsent uploads on this decision to a        *)
(* message; all of them or none" (attachments.py, claim): a file is sent   *)
(* with one message at most, and while its message is there the file is,   *)
(* whatever is sent twice, released, deleted and swept meanwhile; but for  *)
(* a file that a sweep had listed as unsent when it was sent.              *)
FilesStay ==
  \A id \in Messages :
    /\ \A other \in Messages \ {id} : msg[id].files \cap msg[other].files = {}
    /\ \A f \in msg[id].files \ swept : open => file[f] # None /\ file[f].msg = id /\ stored[f] # None

(* "goes up with every change, so a client keeps the newest copy whichever *)
(* arrives last" (schemas.py:51): once every request has ended, what the   *)
(* viewers hold is what is stored, but for groups of reactions nobody is   *)
(* left in, which go without a new version.                                *)
ViewersCatchUp ==
  (crashes = 0 /\ open /\ \A t \in Tasks : task[t] = Idle) =>
    \A id \in Ids :
      IF There(id) THEN view[id] \notin {None, Gone} /\ [view[id] EXCEPT !.reactions = Peopled(@)] = [msg[id] EXCEPT !.reactions = Peopled(@)]
      ELSE msg[id] = Gone => view[id] = Gone

(* What the discussion promises of its files and of what its viewers see.  *)
DiscussionSafe == TypeOK /\ FilesStay /\ ViewersCatchUp

(* "A file never sent is removed by the hourly sweep a day later; deleting *)
(* a message, or its decision, removes its files at once"                  *)
(* (attachments.py:11): a file that no message shows and no request holds  *)
(* is due for removal some day.                                            *)
NoFileForgotten ==
  \A f \in Files :
    (file[f] # None /\ \A t \in Tasks : task[t] = Idle) =>
      file[f].expires # "never" \/ \E id \in Messages : f \in msg[id].files
=============================================================================
