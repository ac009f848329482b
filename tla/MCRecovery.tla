----------------------------- MODULE MCRecovery -----------------------------
(***************************************************************************)
(* What has to come about after whatever was interrupted, checked on small *)
(* instances: merges of accounts (Accounts), and beside it the components  *)
(* named below. A behaviour is of one of them, `part`; the variables of    *)
(* the others rest.                                                        *)
(***************************************************************************)
EXTENDS Accounts, TLC

CONSTANTS
  Tracked, Items, Runners, Edits, Indexers, Workspaces, MaxCommit,
  MaxFollowUps, SlowRuns, Asks, MaxMessages, MaxLookups, MaxPerRound,
  MaxTries, Conns, People, Topics, OutboxSize, MaxPerUser, MaxEvents,
  MaxRemovals

VARIABLES
  part,
  tracker, recent, mirror, target, dirty, syncRun, edit, overlapped,
  head, seen, conn, lock, indexRun, leave, graph, facts, lost,
  count, ask, conv, bill,
  member, gone, telling, socket, heard, reader, events, removals, due, got,
  text, dec, lease, pending, scanned, created, read, embedded, job, crashes, owed, missed,
  disk, stored, reading, result, commits, deaths


(* A source that is edited, one that is quoted, a decision near both.        *)
Edited == "s1"
Quoted == "s2"
Decided == "d"
Passage == "q"
Says == [x \in {1, 2} |-> {Passage}]
(* One question in each window, two in a day, and no window on checks.       *)
Limit == [member |-> 1, workspace |-> 1, suggest |-> 1, check |-> 0, day |-> 2]
(* A module with one file of five lines, in it one symbol that uses another. *)
Nodes == {"m", "f", "s", "t"}
Label == [m |-> "module", f |-> "file", s |-> "symbol", t |-> "symbol"]
Uses == {<<"s", "t">>}
Holds == {<<"m", "f">>, <<"f", "s">>, <<"f", "t">>}
StartLine == [m |-> 1, f |-> 1, s |-> 1, t |-> 3]
EndLine == [m |-> 0, f |-> 5, s |-> 2, t |-> 4]
Opening == {[focus |-> <<>>, matched |-> <<"s">>, open |-> {}],
            [focus |-> <<"t">>, matched |-> <<>>, open |-> {"m"}],
            [focus |-> <<>>, matched |-> <<"m">>, open |-> {}]}
Replies == {<<"relations", "", "text">>, <<"text", "relations">>,
            <<"text", "relations", "text">>, <<"relations">>}

(* A checkout, in the order of the walk, and what its files may be.          *)
Walk == <<"node_modules", "a", "b", "c", "d">>
Places == {"node_modules", "a", "b", "c", "d"}
MayBe(e) ==
  CASE e = "node_modules" -> {"ignored_directory"} [] e = "a" -> {"text", "hangs", "kills"}
    [] e = "b" -> {"text", "other"} [] e = "c" -> {"text"} [] e = "d" -> {"fails", "absent"}
AsIs == [e \in Places |-> CHOOSE sort \in MayBe(e) : sort # "kills"]

Sync == INSTANCE TargetSync WITH Runs <- Runners, Values <- Items, Absent <- None, run <- syncRun, Items <- Tracked
Index == INSTANCE IndexJobs WITH Runs <- Indexers, run <- indexRun
Chat == INSTANCE Chat
Realtime == INSTANCE Realtime WITH Users <- People, conn <- socket
Checks == INSTANCE DecisionChecks WITH Sources <- {"s"}, Decisions <- {"d"}, Texts <- {1, 2}, Passages <- {"q"},
  Says <- <<{"q"}, {}>>, Near <- {}, Names <- {}, Linked <- {}, Checks <- {"c"}, Requests <- {"r"},
  MaxEvidence <- 1, MaxTries <- 1, EmbeddingsOn <- FALSE, MaxSimilar <- 1, MaxPerSource <- 1, ScanLimit <- 1,
  SlowRuns <- FALSE, MaxCrashes <- 1, due <- pending, task <- job
Reading == INSTANCE Extraction WITH Entries <- Walk, Sorts <- MayBe, CHANGE_BATCH_SIZE <- 2,
  IN_PROCESS_THRESHOLD <- 1, max_files <- 3, MaxCommits <- 1, MaxStops <- 1, cpus <- 4, available_mb <- 2100,
  worker_memory_mb <- 512, stops <- deaths, run <- reading

ofSync == <<tracker, recent, mirror, target, dirty, syncRun, edit, overlapped>>
ofIndex == <<head, seen, conn, lock, indexRun, leave, graph, facts, lost>>
ofChat == <<count, ask, conv, bill>>
ofRealtime == <<member, gone, telling, socket, heard, reader, events, removals, due, got>>
ofChecks == <<text, dec, lease, pending, scanned, created, read, embedded, job, crashes, owed, missed>>
ofReading == <<disk, stored, reading, result, commits, deaths>>

MCInit ==
  /\ Init
  /\ part \in {"accounts", "sync", "index", "chat", "realtime", "checks", "reading"}
  /\ Present = {1, 2} /\ role[1] # 0 /\ role[1] + role[2] <= 3 /\ role[3] = 0
  /\ part # "accounts" => /\ user[1].methods["email"] = None /\ user[2].methods["github"] = None
                          /\ role[1] = 1 /\ role[2] = 0 /\ owner = [r \in Rows |-> 1]
  /\ Sync!Init
  /\ Index!Init
  /\ Chat!Init
  /\ part # "chat" => conv.n = 2
  /\ Realtime!Init
  /\ Checks!Init /\ ~scanned /\ created = {} /\ pending = {}
  /\ Reading!Init
  /\ part # "reading" => disk = AsIs

InAccounts == part = "accounts" /\ UNCHANGED <<part, ofSync, ofIndex, ofChat, ofRealtime, ofChecks, ofReading>>
InSync == part = "sync" /\ UNCHANGED <<part, vars, ofIndex, ofChat, ofRealtime, ofChecks, ofReading>>
InIndex == part = "index" /\ UNCHANGED <<part, vars, ofSync, ofChat, ofRealtime, ofChecks, ofReading>>
InChat == part = "chat" /\ UNCHANGED <<part, vars, ofSync, ofIndex, ofRealtime, ofChecks, ofReading>>
InRealtime == part = "realtime" /\ UNCHANGED <<part, vars, ofSync, ofIndex, ofChat, ofChecks, ofReading>>
InChecks == part = "checks" /\ UNCHANGED <<part, vars, ofSync, ofIndex, ofChat, ofRealtime, ofReading>>
InReading == part = "reading" /\ UNCHANGED <<part, vars, ofSync, ofIndex, ofChat, ofRealtime, ofChecks>>

AccountsNext ==
  \/ \E m \in Merges :
       \/ InAccounts /\ LockFirst(m)
       \/ InAccounts /\ LockSecond(m)
       \/ InAccounts /\ LockUndone(m)
       \/ InAccounts /\ Snapshot(m)
       \/ InAccounts /\ InsertMerge(m)
       \/ InAccounts /\ DropProposals(m)
       \/ InAccounts /\ Revoke(m)
       \/ InAccounts /\ ForgetAbsorbed(m)
       \/ InAccounts /\ MoveSeat(m)
       \/ InAccounts /\ DropSeat(m)
       \/ InAccounts /\ MoveRows(m)
       \/ InAccounts /\ FindToken(m)
       \/ InAccounts /\ SettleToken(m)
       \/ InAccounts /\ FreeMethods(m)
       \/ InAccounts /\ TakeMethods(m)
       \/ InAccounts /\ RemoveAbsorbed(m)
       \/ InAccounts /\ FinishMerge(m)
       \/ InAccounts /\ UnlockSurvivor(m)
       \/ InAccounts /\ Resume(m)
       \/ InAccounts /\ Stop(m)
  \/ \E m \in Merges, u \in Users : InAccounts /\ Confirm(m, u)
  \/ \E u \in Users : InAccounts /\ Cancel(u)
  \/ \E q \in Requests :
       \/ InAccounts /\ Upsert(q)
       \/ InAccounts /\ SaveToken(q)
       \/ InAccounts /\ StoreSession(q)
       \/ InAccounts /\ Propose(q)
       \/ InAccounts /\ AddMethod(q)
  \/ \E q \in Requests, r \in Rows : InAccounts /\ WriteRow(q, r)
  \/ \E q \in Requests, u \in Users :
       \/ InAccounts /\ Work(q, u)
       \/ InAccounts /\ ClaimRefresh(q, u)
  \/ \E q \in Requests, g \in Github : InAccounts /\ SignIn(q, "github", g)
  \/ \E q \in Requests, e \in Emails : InAccounts /\ SignIn(q, "email", e)
  \/ \E q \in Requests, u \in Users, g \in Github : InAccounts /\ Prove(q, u, "github", g)
  \/ \E q \in Requests, u \in Users, e \in Emails : InAccounts /\ Prove(q, u, "email", e)

SyncNext == InSync /\ Sync!Next

IndexNext == InIndex /\ Index!Next

ChatNext == InChat /\ Chat!Next

RealtimeNext ==
  \/ \E c \in Conns :
       \/ InRealtime /\ Realtime!Authorize(c)
       \/ InRealtime /\ Realtime!Subscribe(c)
       \/ InRealtime /\ Realtime!Recheck(c)
       \/ InRealtime /\ Realtime!TokenRunsOut(c)
       \/ InRealtime /\ Realtime!Age(c)
       \/ InRealtime /\ Realtime!Disconnect(c)
       \/ InRealtime /\ Realtime!Write(c)
       \/ InRealtime /\ Realtime!Ping(c)
       \/ InRealtime /\ Realtime!Reauth(c)
  \/ \E c \in Conns, u \in People : InRealtime /\ Realtime!Open(c, u)
  \/ \E c \in Conns, t \in Topics :
       \/ InRealtime /\ Realtime!AskSubscribe(c, t)
       \/ InRealtime /\ Realtime!Unsubscribe(c, t)
  \/ \E t \in Topics :
       \/ InRealtime /\ Realtime!Dismiss(t)
       \/ InRealtime /\ Realtime!CloseTopic(t)
       \/ InRealtime /\ Realtime!NeverTold(t)
  \/ \E t \in Topics, u \in People \cup {None} : InRealtime /\ Realtime!Publish(t, u)
  \/ \E u \in People :
       \/ InRealtime /\ Realtime!Leave(u)
       \/ InRealtime /\ Realtime!Rejoin(u)
       \/ InRealtime /\ Realtime!Revoke(u)
       \/ InRealtime /\ Realtime!NeverTold(u)

ChecksNext ==
  \/ \E t \in {"c", "r"} :
       \/ InChecks /\ Checks!Compare(t)
       \/ InChecks /\ Checks!StoreAttention(t)
       \/ InChecks /\ Checks!Look(t)
       \/ InChecks /\ Checks!Changed(t)
       \/ InChecks /\ Checks!Embed(t)
       \/ InChecks /\ Checks!TakeCheck(t)
       \/ InChecks /\ Checks!Ask(t)
       \/ InChecks /\ Checks!Cite(t)
       \/ InChecks /\ Checks!ReadDecision(t)
       \/ InChecks /\ Checks!AddEvidence(t)
       \/ InChecks /\ Checks!Record(t)
       \/ InChecks /\ Checks!End(t)
       \/ InChecks /\ Checks!Release(t)
       \/ InChecks /\ Checks!Fail(t)
  \/ InChecks /\ Checks!AskToAdd("r", "d", "s", "q", FALSE)
  \/ InChecks /\ Checks!Write("s", 2)
  \/ \E x \in {"accepted", "superseded"} : InChecks /\ Checks!ChangeStatus("d", x)
  \/ InChecks /\ Checks!Claim("c")
  \/ InChecks /\ Checks!Crash("c")
  \/ InChecks /\ Checks!Open("r")
  \/ InChecks /\ Checks!RemoveEvidence("d", 1)
  \/ InChecks /\ Checks!Lapse

ReadingNext ==
  \/ InReading /\ Reading!ExtractFile
  \/ InReading /\ Reading!SubmitBatch
  \/ InReading /\ Reading!Timeout
  \/ InReading /\ Reading!Store
  \/ InReading /\ Reading!Crash
  \/ InReading /\ Reading!KilledByFile
  \/ \E full \in BOOLEAN : InReading /\ Reading!Start(full)
  \/ \E e \in Places :
       \/ InReading /\ Reading!Take(e)
       \/ InReading /\ Reading!Finish(e)
       \/ InReading /\ Reading!WorkerDies(e)
  \/ \E e \in Places : \E sort \in MayBe(e) : InReading /\ Reading!Commit(e, sort)

MCNext ==
  \/ AccountsNext
  \/ SyncNext
  \/ IndexNext
  \/ ChatNext
  \/ RealtimeNext
  \/ ChecksNext
  \/ ReadingNext

allVars == <<part, vars, ofSync, ofIndex, ofChat, ofRealtime, ofChecks, ofReading>>
MCSpec == MCInit /\ [][MCNext]_allVars

(* What the components' modules say of fairness, of whichever of them moves. *)
MCFairness ==
  /\ \A m \in Merges : WF_vars(part = "accounts" /\ MergeStep(m))
  /\ \A r \in Runners : WF_ofSync(part = "sync" /\ Sync!RunStep(r))
  /\ SF_ofSync(part = "sync" /\ (\E r \in Runners : Sync!Claim(r, TRUE)))
  /\ \A e \in Edits : WF_ofSync(part = "sync" /\ Sync!EditStep(e))
  /\ WF_ofSync(part = "sync" /\ Sync!LockGoesStale)
  /\ WF_ofSync(part = "sync" /\ Sync!FullGetsOld)
  /\ \A r \in Indexers : WF_ofIndex(part = "index" /\ Index!IndexStep(r))
  /\ \A r \in Indexers : WF_ofIndex(part = "index" /\ Index!Handle(r))
  /\ WF_ofIndex(part = "index" /\ Index!LockGoesStale)
  /\ \A w \in Workspaces : WF_ofIndex(part = "index" /\ Index!PendingGoesStale(w))
  /\ \A a \in Asks : WF_ofChat(part = "chat" /\ Chat!Step(a))
  /\ \A c \in Conns : WF_ofRealtime(part = "realtime" /\ Realtime!Authorize(c))
  /\ \A c \in Conns : WF_ofRealtime(part = "realtime" /\ (Realtime!Subscribe(c) \/ Realtime!Recheck(c)))
  /\ \A c \in Conns : WF_ofRealtime(part = "realtime" /\ Realtime!TokenRunsOut(c))
  /\ \A c \in Conns : WF_ofRealtime(part = "realtime" /\ Realtime!Age(c))
  /\ \A c \in Conns : WF_ofRealtime(part = "realtime" /\ Realtime!EndClosed(c))
  /\ \A t \in {"c", "r"} : WF_ofChecks(part = "checks" /\ Checks!CheckStep(t))
  /\ WF_ofChecks(part = "checks" /\ Checks!Claim("c"))
  /\ WF_ofChecks(part = "checks" /\ Checks!Lapse)
  /\ WF_ofReading(part = "reading" /\ Reading!ReadStep)
MCFairSpec == MCSpec /\ MCFairness
-----------------------------------------------------------------------------
(* TargetSync: once nothing disturbs it, the polling alone makes the       *)
(* mirror equal to the tracker, deletions included.                        *)
EventuallyMirrors == Sync!EventuallyMirrors

(* IndexJobs: whatever crashes, a connected repository can be indexed      *)
(* again some day.                                                         *)
EventuallyRetryable == Index!EventuallyRetryable

(* Chat, Extraction: every question ends, answered, refused or failed, and *)
(* so does the reading of a checkout.                                      *)
TasksEnd == Chat!QuestionsEnd /\ Reading!ReadingEnds

(* Realtime: whoever lost access stops hearing the workspace.              *)
EavesdropEnds == Realtime!EavesdropEnds

(* DecisionChecks: a decision whose evidence stays broken or contradicted  *)
(* is flagged in the end.                                                  *)
AttentionAsked == Checks!AttentionAsked

(* Realtime and Extraction: a socket that is not being closed misses no event, *)
(* and a run that ends says of every file that it read it or why it did not.   *)
NothingSilent == (part = "realtime" => Realtime!TypeOK /\ Realtime!NoSilentGap) /\ Reading!ReadingSound
=============================================================================
