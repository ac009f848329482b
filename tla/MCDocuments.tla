---------------------------- MODULE MCDocuments ----------------------------
(***************************************************************************)
(* Documents and conversations, checked on small instances: a mirrored     *)
(* page (DocPush), and beside it the components named below. A behaviour   *)
(* is of one of them, `part`; the variables of the others rest. Some share *)
(* the variables c1, c2, and so on: each is given as many as it has.       *)
(***************************************************************************)
EXTENDS DocPush, TLC

CONSTANTS
  Items, Asks, MaxMessages, MaxLookups, MaxPerRound, MaxTries, FileLen,
  Calls, Rounds, MaxContext, MaxSource, MaxLookup, MaxRead, MaxCited,
  FlowDepth, MaxFlow

VARIABLES
  part,
  c1, c2, c3, c4, c5, c6, c7, c8, c9, c10, c11, c12


Only(S) == CHOOSE x \in S : TRUE
(* A page written later that names an item, and the item, which two decisions*)
(* quote. Two texts say what is quoted, the third something else. One of the *)
(* decisions is settled before the other; a reading takes one decision.      *)
Later == "s1"
Quoted == "s2"
Decided == "d"
Earlier == "e"
Passage == "q"
Other == "p"
Says == <<{Passage}, {Passage}, {Other}>>
(* One question in each window, two in a day, and no window on checks.       *)
Limit == [member |-> 1, workspace |-> 1, suggest |-> 1, check |-> 0, day |-> 2]
(* A module with one file of five lines, in it one symbol that uses another. *)
Nodes == {"m", "f", "s", "t"}
Label == [m |-> "module", f |-> "file", s |-> "symbol", t |-> "symbol"]
Uses == {<<"s", "t">>}
Holds == {<<"m", "f">>, <<"f", "s">>, <<"f", "t">>}
StartLine == [m |-> 1, f |-> 1, s |-> 1, t |-> 3]
EndLine == [m |-> 0, f |-> 5, s |-> 2, t |-> 4]
Opening == {[focus |-> <<>>, matched |-> <<"s">>, open |-> {}],
            [focus |-> <<"t">>, matched |-> <<>>, open |-> {"m"}],
            [focus |-> <<>>, matched |-> <<"m">>, open |-> {}]}
Replies == {<<"relations", "", "text">>, <<"text", "relations">>,
            <<"text", "relations", "text">>, <<"relations">>}

(* A module, a file and two symbols, and another repository's module. What   *)
(* its runs wrote names nodes of both, some gone, one of them its own target.*)
Kind == <<"Module", "File", "Symbol", "Symbol", "Module">>
Repo == <<"r", "r", "r", "r", "q">>
Inner == (<<1, 2, "CONTAINS">> :> 1) @@ (<<2, 3, "DEFINES">> :> 1) @@ (<<3, 4, "HAS_MEMBER">> :> 1)
Delta(r, nodes, edges, gone, cut) == [repo |-> r, nodes |-> nodes, edges |-> edges, gone |-> gone, cut |-> cut]
Deltas ==
  {Delta("r", [n \in 1..4 |-> 1], Inner, {}, {}),
   Delta("r", <<>>, (<<3, 4, "CALLS">> :> 2) @@ (<<4, 3, "CALLS">> :> 1), {}, {}),
   Delta("r", 2 :> 2, (<<3, 3, "CALLS">> :> 1) @@ (<<2, 4, "CALLS">> :> 2) @@ (<<2, 3, "CALLS">> :> 2), {}, {<<3, 4, "CALLS">>}),
   Delta("r", <<>>, <<>>, {4, 5}, {<<2, 3, "CALLS">>}),
   Delta("r", <<>>, <<2, 4, "DEFINES">> :> 1, {}, {<<3, 4, "HAS_MEMBER">>}),
   Delta("q", 5 :> 1, <<5, 5, "DEPENDS_ON">> :> 3, {1}, {<<1, 2, "CONTAINS">>})}
(* Pages with a picture, a macro and a link; tasks and a table; columns and  *)
(* a line with all that a line may have; blocks the editor has no form for.  *)
As(x) == [as |-> x]
Block(kind, at, content) == [type |-> kind, at |-> at, marks |-> {}, content |-> content]
Words(x, marks) == [type |-> "text", text |-> x, marks |-> marks, content |-> <<>>]
Line(x) == Block("paragraph", As(""), <<Words(x, {})>>)
Picture(id, width, unit, layout) ==
  Block("mediaSingle", [width |-> width, widthType |-> unit, layout |-> layout], <<Block("media", [id |-> id, alt |-> ""], <<>>)>>)
Link(live) == Block("blockCard", [url |-> "u1", datasource |-> live], <<>>)
Task(x, done) == Block("taskItem", As(done), <<Words(x, {"em"})>>)
Tasks == Block("taskList", As(""), <<Task("t1", "TODO"), Block("taskList", As(""), <<Task("t2", "DONE")>>), Task("t3", "TODO")>>)
Cell == Block("tableCell", As("1"), <<Line("c"), Block("nestedExpand", [title |-> "x", nested |-> FALSE], <<Line("n")>>)>>)
Table == Block("table", As(""), <<Block("tableRow", As(""), <<Cell>>)>>)
Beside(widths) == [Block("layoutSection", As(""), [i \in DOMAIN widths |-> Block("layoutColumn", [width |-> widths[i]], <<Line("l")>>)])
                   EXCEPT !.marks = {"breakout"}]
Rich == Block("paragraph", As(""), <<Words("w", {"strong", "textColor"}), Block("mention", As("bob"), <<>>), Block("status", As("ok"), <<>>),
                                      Block("inlineCard", [url |-> "u1"], <<>>), Block("hardBreak", As(""), <<>>)>>)
Macro(kind) == Block(kind, As("macro"), <<>>)
Folded == Block("expand", [title |-> "q", nested |-> FALSE], <<Line("e"), Macro("extension")>>)
SourcePages ==
  {<<Picture("m1", 380, "pixel", "wide"), Macro("bodiedExtension"), Link(FALSE)>>,
   <<Tasks, Table, Macro("extension")>>,
   <<Beside(<<3333, 6667>>), Rich, Block("rule", As(""), <<>>)>>,
   <<[Line("i") EXCEPT !.marks = {"indentation"}], Picture("m2", 0, "", "center"), Link(TRUE), Folded>>}

Chat == INSTANCE Chat WITH 
  count <- c1, ask <- c2, conv <- c3, bill <- c4
Tree == INSTANCE DocTree WITH Natives <- {"a", "b", "c"}, Pages <- {}, Space <- "s", MaxDepth <- 3, MaxKids <- 2, source <- c2, target <- c3,
  node <- c1, last <- c4, hollow <- c5, skewed <- c6
Mirror == INSTANCE DocTree WITH Natives <- {}, Pages <- {"p", "q"}, Space <- "s", MaxDepth <- 3, MaxKids <- 2, source <- c2, target <- c3,
  node <- c1, last <- c4, hollow <- c5, skewed <- c6
Lookups == INSTANCE Lookups WITH 
  b <- c1, call <- c2, asked <- c3, reading <- c4, round <- c5,
  answer <- c6, ran <- c7
Reviewing == INSTANCE DecisionChecks WITH Sources <- {Later, Quoted}, Decisions <- {Decided, Earlier}, Texts <- {1, 2, 3},
  Passages <- {Passage, Other}, Says <- Says, Near <- {<<Later, Decided>>}, Names <- {<<Later, Quoted>>}, Linked <- {},
  Checks <- {"c1", "c2"}, Requests <- {"c2"}, MaxEvidence <- 2, MaxTries <- 1, EmbeddingsOn <- TRUE, MaxSimilar <- 1,
  MaxPerSource <- 1, ScanLimit <- 1, SlowRuns <- FALSE, MaxCrashes <- 0,
  text <- c1, dec <- c2, lease <- c3, due <- c4, read <- c5, embedded <- c6, task <- c7, crashes <- c8, owed <- c9, missed <- c10,
  scanned <- c11, created <- c12

Stores == INSTANCE GraphStores WITH Nodes <- 1..5, Repo <- Repo, Label <- Kind, Size <- <<1, 2, 1, 1, 1>>, Outer <- {1, 5},
  Terms <- [a |-> {1, 2, 3}, b |-> {4, 5}], Folders <- [api |-> {2}], Deltas <- Deltas,
  SUBTREE_DEPTH <- 2, SUBTREE_LIMIT <- 9, NEIGHBOUR_LIMIT <- 9, SEARCH_LIMIT <- 2, Limits <- {1, 2, 3, 9},
  neo <- c1, mem <- c2
Formats == INSTANCE PageFormat WITH Pages <- SourcePages, Images <- {"m1"}, Uploads <- {"new"}, Widths <- {0, 5, 40}, Urls <- {"", "u2"},
  MaxEdits <- 2, MaxBlocks <- 4,
  page <- c1, body <- c2, pending <- c3, edits <- c4, copies <- c5

ofShared == <<c1, c2, c3, c4, c5, c6, c7, c8, c9, c10, c11, c12>>

MCInit ==
  /\ Init
  /\ part \in {"documents", "chat", "tree", "mirror", "lookups", "checks", "stores", "formats"}
  /\ part # "documents" => source = [title |-> Only(Titles), text |-> Blank]
  /\ IF part = "chat" THEN Chat!Init /\ c5 = None /\ c6 = None /\ c7 = None /\ c8 = None /\ c9 = None /\ c10 = None /\ c11 = None /\ c12 = None
     ELSE IF part = "tree" THEN Tree!Init /\ c7 = None /\ c8 = None /\ c9 = None /\ c10 = None /\ c11 = None /\ c12 = None
     ELSE IF part = "mirror" THEN Mirror!Init /\ c7 = None /\ c8 = None /\ c9 = None /\ c10 = None /\ c11 = None /\ c12 = None
     ELSE IF part = "lookups" THEN Lookups!Init /\ c8 = None /\ c9 = None /\ c10 = None /\ c11 = None /\ c12 = None
     ELSE IF part = "checks" THEN Reviewing!Init /\ c4 = {} /\ c6[Quoted] # None /\ ~c11 /\ c12 = {Later}
     ELSE IF part = "stores" THEN Stores!Init /\ c3 = None /\ c4 = None /\ c5 = None /\ c6 = None /\ c7 = None /\ c8 = None /\ c9 = None /\ c10 = None /\ c11 = None /\ c12 = None
     ELSE IF part = "formats" THEN Formats!Init /\ c6 = None /\ c7 = None /\ c8 = None /\ c9 = None /\ c10 = None /\ c11 = None /\ c12 = None
     ELSE /\ c1 = None /\ c2 = None /\ c3 = None /\ c4 = None /\ c5 = None /\ c6 = None /\ c7 = None /\ c8 = None /\ c9 = None /\ c10 = None /\ c11 = None /\ c12 = None

InDocPush == part = "documents" /\ UNCHANGED <<part, ofShared>>
InChat == part = "chat" /\ UNCHANGED <<part, vars, c5, c6, c7, c8, c9, c10, c11, c12>>
InTree == part = "tree" /\ UNCHANGED <<part, vars, c7, c8, c9, c10, c11, c12>>
InMirror == part = "mirror" /\ UNCHANGED <<part, vars, c7, c8, c9, c10, c11, c12>>
InLookups == part = "lookups" /\ UNCHANGED <<part, vars, c8, c9, c10, c11, c12>>
InChecks == part = "checks" /\ UNCHANGED <<part, vars>>
InStores == part = "stores" /\ UNCHANGED <<part, vars, c3, c4, c5, c6, c7, c8, c9, c10, c11, c12>>
InFormats == part = "formats" /\ UNCHANGED <<part, vars, c6, c7, c8, c9, c10, c11, c12>>

DocPushNext ==
  \/ \E c \in Content :
       \/ InDocPush /\ RemoteEdit(c)
       \/ InDocPush /\ SaveContent(c)
  \/ \E x \in Titles : InDocPush /\ SaveTitle(x)
  \/ InDocPush /\ KeepSource
  \/ InDocPush /\ Overwrite
  \/ InDocPush /\ SyncStops
  \/ InDocPush /\ PushGoesStale
  \/ InDocPush /\ StartSync
  \/ InDocPush /\ ListPage
  \/ InDocPush /\ FetchBody
  \/ InDocPush /\ StoreBody
  \/ InDocPush /\ LeaveBody
  \/ \E reformat \in BOOLEAN : InDocPush /\ WriteTree(reformat)
  \/ \E p \in Pushers :
       \/ InDocPush /\ PushLater(p)
       \/ InDocPush /\ CrashPush(p)
       \/ InDocPush /\ ClaimPush(p)
       \/ InDocPush /\ Send(p)
       \/ InDocPush /\ Refused(p)
       \/ InDocPush /\ RecordVersion(p)
       \/ InDocPush /\ FinishPush(p)
       \/ InDocPush /\ FetchTheirs(p)
       \/ InDocPush /\ ReadOurs(p)
       \/ InDocPush /\ StoreConflict(p)
       \/ InDocPush /\ LeaveEdit(p)

ChatNext ==
  \/ \E a \in Asks :
       \/ InChat /\ Chat!TakeWindow(a)
       \/ InChat /\ Chat!GiveBack(a)
       \/ InChat /\ Chat!NextCall(a)
       \/ InChat /\ Chat!Post(a)
       \/ InChat /\ Chat!Stream(a)
       \/ InChat /\ Chat!RecordBilled(a)
       \/ InChat /\ Chat!StopLooking(a)
       \/ InChat /\ Chat!Answer(a)
       \/ InChat /\ Chat!Save(a)
       \/ InChat /\ Chat!Stop(a)
  \/ \E a \in Asks, k \in Chat!Kinds, saved \in BOOLEAN : InChat /\ Chat!Begin(a, k, saved)
  \/ \E a \in Asks, n \in 1..(MaxPerRound + 1) : InChat /\ Chat!LookUp(a, n)
  \/ InChat /\ Chat!DeleteConversation

TreeNext ==
  \/ \E n \in {"a", "b", "c"} :
       \/ InTree /\ Tree!Archive(n)
       \/ InTree /\ Tree!Restore(n)
       \/ InTree /\ Tree!DeleteArchived(n)
       \/ InTree /\ Tree!PurgeExpired(n)
  \/ \E n \in {"a", "b", "c"}, parent \in {"a", "b", "c"} \cup {None} :
       \/ InTree /\ Tree!Create(n, parent)
       \/ InTree /\ Tree!ArchiveAlone(n, parent)

MirrorNext ==
  \/ \E n \in {"p", "q", "s"} :
       \/ InMirror /\ Mirror!DeleteArchived(n)
       \/ InMirror /\ Mirror!PurgeExpired(n)
  \/ \E p \in {"p", "q"} :
       \/ InMirror /\ Mirror!Archive(p)
       \/ InMirror /\ Mirror!SourceArchives(p)
  \/ \E p \in {"p", "q"}, parent \in {"p", "q", "s"} : InMirror /\ Mirror!CreateAtSource(p, parent)
  \/ \E p \in {"p", "q"}, parent \in {"p", "q", None} : InMirror /\ Mirror!SourceWrites(p, parent)
  \/ InMirror /\ Mirror!AddTarget
  \/ InMirror /\ Mirror!RemoveTarget
  \/ InMirror /\ Mirror!Sync(TRUE)
  \/ InMirror /\ Mirror!Sync(FALSE)

LookupsNext ==
  \/ InLookups /\ Lookups!BeginRound
  \/ \E c \in Calls :
       \/ InLookups /\ Lookups!Finish(c)
       \/ InLookups /\ Lookups!ChooseRange(c)
       \/ InLookups /\ Lookups!FinishRead(c)
       \/ InLookups /\ Lookups!GiveUp(c)
  \/ \E c \in Calls, n \in Nodes, k \in {"search", "in", "out"} : InLookups /\ Lookups!Start(c, k, n)
  \/ \E c \in Calls, n \in Nodes : \E from \in StartLine[n]..EndLine[n] : InLookups /\ Lookups!AskRead(c, n, from)
  \/ \E x, y \in Lookups!Refs, lines \in Replies : InLookups /\ Lookups!Answer(lines, {<<x, "uses", y>>}, {x, y}, <<>>, <<x, x, y>>)
  \/ \E run_ \in Lookups!CodeRuns : InLookups /\ Lookups!Answer(<<"text">>, {}, {}, run_, <<1>>)

Untouched == c2[Decided].status = "open" /\ c2[Decided].evidence = <<>>
ChecksNext ==
  \/ \E t \in {"c1", "c2"} :
       \/ InChecks /\ Reviewing!Accepted # {} /\ Reviewing!Claim(t)
       \/ InChecks /\ Reviewing!Compare(t)
       \/ InChecks /\ Reviewing!StoreAttention(t)
       \/ InChecks /\ Reviewing!Look(t)
       \/ InChecks /\ Reviewing!Changed(t)
       \/ InChecks /\ Reviewing!Embed(t)
       \/ InChecks /\ Reviewing!TakeCheck(t)
       \/ InChecks /\ Reviewing!Ask(t)
       \/ InChecks /\ Reviewing!Cite(t)
       \/ InChecks /\ Reviewing!ReadDecision(t)
       \/ InChecks /\ Reviewing!AddEvidence(t)
       \/ InChecks /\ Reviewing!Record(t)
       \/ InChecks /\ Reviewing!End(t)
       \/ InChecks /\ Reviewing!RefreshVector(t)
       \/ InChecks /\ Reviewing!Release(t)
       \/ InChecks /\ Reviewing!Fail(t)
  \/ InChecks /\ c2[Decided].evidence = <<>> /\ Reviewing!AskToAdd("c2", Decided, Quoted, Passage, FALSE)
  \/ InChecks /\ Untouched /\ c2[Earlier].evidence = <<>> /\ Reviewing!AskToAdd("c2", Earlier, Quoted, Passage, FALSE)
  \/ InChecks /\ Reviewing!ChangeStatus(Decided, "accepted")
  \/ InChecks /\ Untouched /\ c2[Earlier].evidence # <<>> /\ Reviewing!ChangeStatus(Earlier, "accepted")
  \/ InChecks /\ Reviewing!ScanAccepted("c2", Decided)
  \/ InChecks /\ Reviewing!Suggest("c2", Later)
  \/ InChecks /\ Reviewing!Accepted # {} /\ c1[Quoted] = 1 /\ c1[Later] = None /\ Reviewing!Write(Later, 3)
  \/ \E x \in {2, 3} : InChecks /\ Reviewing!Accepted # {} /\ c1[Later] = None /\ c1[Quoted] = x - 1 /\ Reviewing!Write(Quoted, x)

StoresNext ==
  \/ \E d \in Deltas : InStores /\ Stores!Apply(d)
  \/ \E r \in {"r", "q"} : InStores /\ Stores!DeleteRepository(r)

Places == IF part = "formats" THEN DOMAIN c2 ELSE {}
FormatsNext ==
  \/ \E p \in SourcePages, read \in SUBSET {"m1"} : InFormats /\ Formats!TheyWrite(p, read)
  \/ \E read \in SUBSET {"m1"} : InFormats /\ Formats!Fetch(read)
  \/ \E file \in {"m1"} : InFormats /\ Formats!TheyReplace(file)
  \/ InFormats /\ Formats!Push
  \/ \E i \in Places :
       \/ \E j \in Places : InFormats /\ Formats!Wrap(i, j)
       \/ InFormats /\ Formats!Upload(i, "new")
       \/ InFormats /\ Formats!Describe(i, "new")
       \/ \E w \in {0, 5, 40} : InFormats /\ Formats!Resize(i, w)
       \/ \E u \in {"", "u2"} : InFormats /\ Formats!Relink(i, u)
       \/ InFormats /\ Formats!Tick(i)

MCNext ==
  \/ DocPushNext
  \/ ChatNext
  \/ TreeNext
  \/ MirrorNext
  \/ LookupsNext
  \/ ChecksNext
  \/ StoresNext
  \/ FormatsNext

allVars == <<part, vars, ofShared>>
MCSpec == MCInit /\ [][MCNext]_allVars

(* What the components' modules say of fairness, of whichever of them moves. *)
MCFairness ==
  /\ \A p \in Pushers : WF_vars(part = "documents" /\ PushStep(p))
  /\ WF_vars(part = "documents" /\ PushGoesStale)
  /\ WF_vars(part = "documents" /\ SyncStep)
MCFairSpec == MCSpec /\ MCFairness
-----------------------------------------------------------------------------
(* Lookups: no line is read and nothing looked up twice, however the       *)
(* lookups of a round overlap, and what an answer cites stood in the       *)
(* prompt. GraphStores: what is looked up in is the same in both stores,   *)
(* and of one repository.                                                  *)
AnswersSound ==
  /\ part = "lookups" => Lookups!TypeOK /\ Lookups!ReadOnce /\ Lookups!AnswerGrounded
  /\ part = "stores" => Stores!SameAnswers /\ Stores!TenantSafe

(* DecisionChecks: a decision's evidence keeps its numbers, one check runs *)
(* at a time; an edit is in the next check's window until a check that     *)
(* found it ran to its end, and what a decision quotes is not recorded as  *)
(* read before it was read with that decision, or as many as there's room  *)
(* for.                                                                    *)
ChecksSafe == part = "checks" => 
  Reviewing!TypeOK /\ Reviewing!EvidenceSound /\ Reviewing!EditsAreRead /\ Reviewing!EditsAreListed

(* Chat: no window lets more through than its limit, and an answer is saved  *)
(* after its question.                                                       *)
ChatSafe == part = "chat" => Chat!TypeOK /\ Chat!BudgetHolds /\ Chat!AnswersSaved

(* DocTree: no node is stranded, misplaced or lost from the archive, and the *)
(* mirror has the shape of its source. PageFormat: what a page says comes    *)
(* back as it went, whatever was done to it here.                            *)
TreeSafe ==
  /\ part = "tree" => Tree!TreeSafe
  /\ part = "mirror" => Mirror!TreeSafe
  /\ part = "formats" => Formats!ComesBack /\ Formats!NothingLost /\ Formats!Allowed

(* DocPush: once nobody disturbs it, the page settles.                       *)
PageSettles == part = "documents" => EventuallySettles
=============================================================================
