---------------------------- MODULE MCIndexJobs ----------------------------
(***************************************************************************)
(* Work that many may ask for at once, checked on small instances:         *)
(* repository indexing (IndexJobs), and beside it the components named     *)
(* below. A behaviour is of one of them, `part`; the variables of the      *)
(* others rest.                                                            *)
(***************************************************************************)
EXTENDS IndexJobs, TLC

CONSTANTS
  None

VARIABLES
  part,
  open, file, stored, msg, view, task, swept, crashes

Shared == INSTANCE Discussion WITH Users <- {"u"}, Admins <- {}, Ids <- {"m", "n"}, Clients <- {"c"}, Files <- {"f"}, Bodies <- {1},
  Emojis <- {}, MaxReactions <- 1, Tasks <- Runs, MaxVersion <- 1, MaxCrashes <- 0
Reacting == INSTANCE Discussion WITH Users <- Workspaces, Admins <- {}, Ids <- {"m"}, Clients <- {"c"}, Files <- {}, Bodies <- {1, 2},
  Emojis <- {"e1", "e2"}, MaxReactions <- 1, Tasks <- Runs, MaxVersion <- 3, MaxCrashes <- 0

ofShared == <<open, file, stored, msg, view, task, swept, crashes>>

MCInit ==
  /\ Init
  /\ part \in {"index", "files", "reactions"}
  /\ IF part = "files" THEN Shared!Init
     ELSE IF part = "reactions" THEN Reacting!Init
     ELSE /\ open = None /\ file = None /\ stored = None /\ msg = None
          /\ view = None /\ task = None /\ swept = None /\ crashes = None

InIndexJobs == part = "index" /\ UNCHANGED <<part, ofShared>>
InShared == part = "files" /\ UNCHANGED <<part, vars>>
InReacting == part = "reactions" /\ UNCHANGED <<part, vars>>

IndexJobsNext == InIndexJobs /\ Next

SharedNext ==
  \/ \E r \in Runs :
       \/ InShared /\ Shared!InsertUpload(r)
       \/ InShared /\ Shared!MakeReady(r)
       \/ InShared /\ Shared!DropFile(r)
       \/ InShared /\ Shared!ForgetFile(r)
       \/ InShared /\ Shared!Claim(r)
       \/ InShared /\ Shared!ReadClaimed(r)
       \/ InShared /\ Shared!Insert(r)
       \/ InShared /\ Shared!Release(r)
       \/ InShared /\ Shared!Publish(r)
       \/ InShared /\ Shared!DeleteOne(r)
       \/ InShared /\ Shared!ListFiles(r)
       \/ InShared /\ Shared!DeleteMessages(r)
       \/ InShared /\ Shared!Sweep(r)
       \/ InShared /\ Shared!DeleteDecision(r)
       \/ InShared /\ Shared!StartUpload(r, "u", "f")
       \/ InShared /\ Shared!Complete(r, "f")
  \/ \E r \in Runs, F \in SUBSET {"f"}, id \in {"m", "n"} : InShared /\ Shared!Send(r, "u", "c", F, id)
  \/ \E r \in Runs, id \in {"m", "n"} : InShared /\ Shared!Delete(r, "u", id)
  \/ InShared /\ Shared!A_Day("f")
  \/ InShared /\ Shared!Arrive("f", "right")
  \/ InShared /\ Shared!Arrive("f", "wrong")

ReactingNext ==
  \/ \E r \in Runs :
       \/ InReacting /\ Reacting!Insert(r)
       \/ InReacting /\ Reacting!Publish(r)
       \/ InReacting /\ Reacting!Seek(r)
       \/ InReacting /\ Reacting!Join(r)
       \/ InReacting /\ Reacting!StartGroup(r)
       \/ InReacting /\ Reacting!Look(r)
       \/ InReacting /\ Reacting!Leave(r)
       \/ InReacting /\ Reacting!Prune(r)
       \/ InReacting /\ Reacting!Reread(r)
       \/ InReacting /\ Reacting!DeleteOne(r)
       \/ InReacting /\ Reacting!ListFiles(r)
       \/ InReacting /\ Reacting!DropFile(r)
  \/ \E r \in Runs, u \in Workspaces :
       \/ InReacting /\ Reacting!Send(r, u, "c", {}, "m")
       \/ InReacting /\ Reacting!Delete(r, u, "m")
  \/ \E r \in Runs, u \in Workspaces, n \in {1, 2} : InReacting /\ Reacting!Edit(r, u, "m", n)
  \/ \E r \in Runs, u \in Workspaces, x \in {"e1", "e2"} :
       \/ InReacting /\ Reacting!React(r, u, "m", x)
       \/ InReacting /\ Reacting!Unreact(r, u, "m", x)

MCNext ==
  \/ IndexJobsNext
  \/ SharedNext
  \/ ReactingNext

allVars == <<part, vars, ofShared>>
MCSpec == MCInit /\ [][MCNext]_allVars

Symmetry == Permutations(Runs) \cup Permutations(Workspaces)
-----------------------------------------------------------------------------
(* Discussion: what its files and its viewers are promised.                  *)
DiscussionSafe ==
  /\ part = "files" => Shared!DiscussionSafe
  /\ part = "reactions" => Reacting!DiscussionSafe
=============================================================================
