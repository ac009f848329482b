----------------------------- MODULE MCMirrors -----------------------------
(***************************************************************************)
(* What the application copies and shows, checked on small instances: a    *)
(* tracker's items (TargetSync), and beside it the components named below. *)
(* A behaviour is of one of them, `part`; the variables of the others      *)
(* rest. Some share the variables c1, c2, and so on: each is given as many *)
(* as it has.                                                              *)
(***************************************************************************)
EXTENDS TargetSync, TLC

CONSTANTS
  Paths, Contents, Importing, None

VARIABLES
  part,
  head, facts, old, nodes, edges, pipeRun, torn, wiped,
  c1, c2, c3, c4, c5, c6, c7, c8, c9, c10, c11, c12, c13, c14


(* The board's columns, and what they may be made.                           *)
Col(id, cat, next) == [id |-> id, cat |-> cat, next |-> next]
OwnColumns == <<Col("todo", "todo", None), Col("doing", "doing", None), Col("done", "done", None)>>
Boards == {OwnColumns, <<Col("todo", "todo", {"done"}), Col("done", "done", {})>>,
            <<Col("doing", "done", None), Col("done", "doing", None)>>}
(* A tracker's statuses, and the columns its board may have.                 *)
Statuses == {"open", "old"}
Category == [s \in Statuses |-> IF s = "open" THEN "todo" ELSE "done"]
Columns == {[s \in Statuses |-> IF s = "old" THEN None ELSE s],
            [s \in Statuses |-> IF s = "open" THEN "done" ELSE "todo"]}
(* An issue is created by the last request, which may cross a sync.         *)
CreatesLast == c9 = 1 /\ \A r \in Runs : c8[r].op = "none"
(* A graph: folders, files, a class with a method, an external package.      *)
Thing(label, path, name) == [label |-> label, path |-> path, name |-> name]
Api == Thing("Module", <<"api">>, <<>>)
Sub == Thing("Module", <<"api", "sub">>, <<>>)
ReadIn == Thing("File", <<"api", "sub", "read">>, <<>>)
Users == Thing("File", <<"api", "users">>, <<>>)
Top == Thing("File", <<"top">>, <<>>)
Read == Thing("Symbol", ReadIn.path, <<"read">>)
Service == Thing("Symbol", Users.path, <<"Service">>)
Get == Thing("Symbol", Users.path, <<"Service", "get">>)
Helper == Thing("Symbol", Users.path, <<"helper">>)
Outside == Thing("Module", <<"__external__">>, <<>>)
Lib == Thing("Package", <<"pkg", "lib">>, <<>>)
Listing == <<Api, Sub, Outside, ReadIn, Users, Top, Read, Service, Get, Helper, Lib>>
Precedes(m, n) == \E i, j \in 1..11 : i < j /\ Listing[i] = m /\ Listing[j] = n
Link(from, to, type, weight) == [from |-> from, to |-> to, type |-> type, weight |-> weight]
Large == [nodes |-> {Listing[i] : i \in 1..11},
          edges |-> {Link(ReadIn, Users, "imports", 1), Link(Top, ReadIn, "imports", 2), Link(Top, Users, "imports", 1),
                     Link(ReadIn, Lib, "imports_external", 1), Link(Read, Get, "calls", 3), Link(Helper, Get, "calls", 1),
                     Link(Helper, Read, "calls", 1)}]
Small == [nodes |-> {Api, Users, Top, Service, Get, Helper},
          edges |-> {Link(Top, Users, "imports", 1), Link(Helper, Get, "calls", 1)}]
Labels == {"Module", "File", "Symbol", "Package"}
Types == {"imports", "imports_external", "calls"}
Wanted ==
  [expanded : {{}, {Api}, {Api, Users}, {Api, Sub, ReadIn, Users}, {Sub}, {Api, Users, Service}}, revealed : {{}, {Api, Users}},
   labels : {Labels, Labels \ {"Module"}, Labels \ {"File"}, Labels \ {"Symbol"}}, types : {Types, {"calls"}}, to : {None}, scope : {None}]
  \cup [expanded : {{}}, revealed : {{}, {Api, Users}}, labels : {Labels, Labels \ {"File"}}, types : {Types},
         to : {"file", "symbol"}, scope : {None, Sub, Users}]
(* Five files of a repository, and what a commit may write in each.          *)
Ts(at) == [at |-> at, ext |-> "ts"]
FMain == Ts(<<"app", "src", "main">>)
FIndex == Ts(<<"lib", "src", "index">>)
FForm == Ts(<<"lib", "src", "form">>)
FSave == Ts(<<"lib", "src", "save">>)
FApi == [at |-> <<"tools">>, ext |-> "py"]
Tree == <<FMain, FForm, FIndex, FSave, FApi>>
Near(n) == [dots |-> 1, parts |-> <<n>>]
Far(p) == [dots |-> 0, parts |-> p]
Import(spec, names, line) == [spec |-> spec, names |-> names, as |-> names, alias |-> None, wildcard |-> FALSE, reexport |-> FALSE, line |-> line]
Star(spec, line) == [Import(spec, <<>>, line) EXCEPT !.wildcard = TRUE, !.reexport = TRUE]
Pass(spec, names, as, line) == [Import(spec, names, line) EXCEPT !.as = as, !.reexport = TRUE]
Alias(r, a) == [r EXCEPT !.alias = a]
Use(kind, callee, enclosing, line) == [kind |-> kind, callee |-> callee, enclosing |-> enclosing, line |-> line]
Bare == [definitions |-> <<>>, exported |-> {}, imports |-> <<>>, references |-> <<>>, default |-> None, routes |-> <<>>, http_calls |-> <<>>]
Defines(ds) == [Bare EXCEPT !.definitions = ds, !.exported = {ds[i][1] : i \in DOMAIN ds}]
With(f, is) == [f EXCEPT !.imports = is]
Page == [Defines(<<<<"page">>>>) EXCEPT !.references = <<Use("calls", <<"save">>, <<"page">>, 5), Use("calls", <<"L", "save">>, <<"page">>, 6),
               Use("renders", <<"Form">>, <<"page">>, 7), Use("calls", <<"save">>, <<"page">>, 8)>>]
Saves == Defines(<<<<"save">>>>)
Forms == Defines(<<<<"Form">>, <<"Form", "send">>, <<"Form", "save">>>>)
Written(p) ==
  CASE p = FMain ->
      {With(Page, <<Import(Far(<<"lib">>), <<"save", "Form">>, 1)>>),
       With(Page, <<Alias(Import(Far(<<"@", "index">>), <<"default">>, 1), "L"), Alias(Import(Far(<<"lib", "form">>), <<"default">>, 2), "Form")>>),
       [With(Page, <<Alias([Import(Far(<<"lib">>), <<>>, 1) EXCEPT !.wildcard = TRUE], "L"), Import(Far(<<"react">>), <<"Form">>, 2)>>)
          EXCEPT !.http_calls = <<[method |-> "GET", path |-> <<"users", "me">>, caller |-> <<"page">>, line |-> 9],
                                   [method |-> "GET", path |-> <<"users", "7">>, caller |-> None, line |-> 10]>>]}
    [] p = FIndex ->
      {None, With(Bare, <<Star(Near("form"), 1), Star(Near("save"), 2)>>),
       With(Bare, <<Pass(Near("form"), <<"default", "save">>, <<"Form", "save">>, 1)>>),
       With(Bare, <<Pass(Near("save"), <<"save">>, <<"default">>, 1), Star(Near("form"), 2), Pass(Far(<<"react">>), <<"x">>, <<"x">>, 3)>>)}
    [] p = FForm ->
      {None, [Forms EXCEPT !.default = "Form", !.references = <<Use("calls", <<"this", "save">>, <<"Form", "send">>, 4), Use("calls", <<"save">>, None, 5)>>],
       With([Defines(<<<<"Form">>>>) EXCEPT !.default = "save"], <<Import(Near("save"), <<"save">>, 1), Star(Near("save"), 2)>>),
       With(Defines(<<<<"Form">>>>), <<Star(Near("index"), 1)>>),
       With(Bare, <<Pass(Near("save"), <<"default", "save">>, <<"default", "save">>, 1)>>)}
    [] p = FSave ->
      {None, Saves, [Saves EXCEPT !.default = "save"], With(Bare, <<Star(Near("index"), 1)>>),
       [Defines(<<<<"save">>, <<"save">>, <<"q">>>>) EXCEPT !.routes = <<[method |-> "GET", path |-> <<"users", "me">>, handler |-> <<"save">>]>>]}
    [] p = FApi ->
      {None, [Bare EXCEPT !.routes = <<[method |-> "GET", path |-> <<"users", "*">>, handler |-> None]>>],
       [With(Bare, <<Import(Far(<<"react">>), <<"x">>, 1)>>) EXCEPT !.routes = <<[method |-> "GET", path |-> <<"users", "me">>, handler |-> <<"api">>], [method |-> "GET", path |-> <<"users", "*">>, handler |-> None]>>]}
Project == [ts_base |-> None, ts_paths |-> {[star |-> TRUE, prefix |-> <<"@">>, targets |-> <<<<"lib", "src">>>>]}, ts_scopes |-> {},
            packages |-> ("lib" :> [dir |-> <<"lib">>, exports |-> {}, entry |-> <<>>]), python_roots |-> <<<<>>>>]
(* A repository's settings: a tsconfig at the root, one in app/, and the two *)
(* names in app/ui/; what they extend is below the root.                     *)
RootDir == <<>>
App == <<"app">>
Ui == <<"app", "ui">>
LibDir == <<"lib">>
TsFile(dir, name) == [dir |-> dir, name |-> name]
TsRoot == TsFile(RootDir, "tsconfig")
TsApp == TsFile(App, "tsconfig")
TsUi == TsFile(Ui, "tsconfig")
JsUi == TsFile(Ui, "jsconfig")
Shared_ == TsFile(LibDir, "base")
TsFiles == {TsRoot, TsApp, TsUi, JsUi, Shared_}
Up(n, parts) == [up |-> n, parts |-> parts]
Aliases(n, parts) == {[pattern |-> "@/*", targets |-> <<Up(n, parts), Up(0, parts)>>]}
Options(extends, base, paths) == [readable |-> TRUE, extends |-> extends, base |-> base, paths |-> paths]
Broken == [Options(None, None, None) EXCEPT !.readable = FALSE]
Options_(c) ==
  CASE c = TsRoot -> {None, Options(Up(0, <<"lib", "base">>), None, None), Options(None, Up(0, LibDir), Aliases(0, <<"src">>))}
    [] c = TsApp -> {None, Options(Up(1, <<"lib", "base">>), None, None), Options(Up(1, <<"tsconfig">>), Up(0, <<>>), None)}
    [] c = TsUi -> {None, Broken, Options(Up(1, <<"tsconfig">>), Up(3, <<"x">>), None)}
    [] c = JsUi -> {None, Options(None, None, Aliases(1, <<"ui">>))}
    [] c = Shared_ -> {None, Options(None, None, Aliases(0, <<"src">>)), Options(Up(1, <<"tsconfig">>), None, Aliases(1, <<"app">>))}
Named(f) == [kind |-> "file", file |-> f]
Offers(d) ==
  CASE d = Ui -> {None, [name |-> "ui", entry |-> [main |-> "a"],
                         exports |-> [kind |-> "conditions", of |-> [require |-> Named("r"), types |-> [kind |-> "list", items |-> <<Named("t"), Named("u")>>]]]]}
    [] d = App -> {None, [name |-> "ui", entry |-> [main |-> "x", source |-> "y"],
                          exports |-> [kind |-> "subpaths", of |-> [s \in {"a"} |-> Named("m")]]]}
    [] OTHER -> {None}
Edited == "s1"
Quoted == "s2"
Passage == "q"
Says == [x \in {1, 2} |-> {Passage}]

Pipeline == INSTANCE IndexPipeline WITH run <- pipeRun
Suggestions == INSTANCE Suggestions WITH Sources <- {Edited, Quoted}, Texts <- {1}, Passages <- {Passage}, Says <- Says,
  Related <- {<<Quoted, Edited>>}, Tasks <- Runs, Ids <- Values, MaxQuotes <- 2, SlowRuns <- FALSE,
  text <- c1, dec <- c3, task <- c4,
  scan <- c2, dismissed <- c5, finished <- c6, overtaken <- c7
Tracked == INSTANCE TrackerBoard WITH Issues <- {"i"}, Layouts <- Columns, Sprints <- {"sprint"},
  Slots <- Runs, First <- "open", MaxChanges <- 2, tracker <- c1, mirror <- c4, recent <- c3, sync <- c7,
  theirs <- c2, noted <- c5, board <- c6, slot <- c8, made <- c9,
  calm <- c10, declined <- c11, blurred <- c12, stray <- c13, ids <- c14
Native == INSTANCE NativeBoard WITH Slots <- Runs, Items <- Values, Layouts <- Boards, Sprints <- {"a", "b"}, Names <- {"task", "bug", "own"}, TASK <- "task", BUG <- "bug",
  DefaultColumns <- OwnColumns, MaxTypes <- 3, MaxRequests <- 2,
  columns <- c1, item <- c2, unused <- c3, sprint <- c4, types <- c5,
  comments <- c6, slot <- c7, made <- c8, astray <- c9
Views == INSTANCE GraphView WITH Graphs <- {Small, Large}, Requests <- Wanted, Precedes <- Precedes,
  MAX_LEVELS <- 4, MAX_OPEN_CONTAINERS <- 4, PAGE_SIZE <- 1, MAX_NODES <- 6, req <- c2,
  graph <- c1, phase <- c3, level <- c4, frontier <- c5, got <- c6,
  rows <- c7, view <- c8
Builds == INSTANCE GraphBuild WITH Files <- Tree, Sources <- Written, Config <- Project, MAX_REEXPORT_DEPTH <- 2,
  max_symbols_per_repo <- 6,
  facts <- c1, links <- c2, graph <- c3
Settings == INSTANCE ProjectConfig WITH Dirs <- <<RootDir, App, Ui, LibDir>>, ConfigFiles <- TsFiles, Contents <- Options_, Manifests <- Offers,
  Pyprojects <- {<<<<"src">>, LibDir>>}, MAX_EXTENDS_DEPTH <- 2, MAX_WORKSPACE_PACKAGES <- 2, MAX_TS_SCOPES <- 3,
  tsconfigs <- c1, manifests <- c2, python <- c3, config <- c4

ofPipeline == <<head, facts, old, nodes, edges, pipeRun, torn, wiped>>
ofShared == <<c1, c2, c3, c4, c5, c6, c7, c8, c9, c10, c11, c12, c13, c14>>

MCInit ==
  /\ Init
  /\ part \in {"sync", "indexing", "suggestions", "tracked", "native", "view", "build", "settings"}
  /\ Pipeline!Init
  /\ IF part = "suggestions" THEN Suggestions!Init /\ c8 = None /\ c9 = None /\ c10 = None /\ c11 = None /\ c12 = None /\ c13 = None /\ c14 = None
     ELSE IF part = "tracked" THEN Tracked!Init /\ c2["old"] = None /\ (c1["i"] = None <=> c3 # {})
     ELSE IF part = "native" THEN Native!Init /\ c10 = None /\ c11 = None /\ c12 = None /\ c13 = None /\ c14 = None
     ELSE IF part = "view" THEN Views!Init /\ c9 = None /\ c10 = None /\ c11 = None /\ c12 = None /\ c13 = None /\ c14 = None
     ELSE IF part = "build" THEN Builds!Init /\ c4 = None /\ c5 = None /\ c6 = None /\ c7 = None /\ c8 = None /\ c9 = None /\ c10 = None /\ c11 = None /\ c12 = None /\ c13 = None /\ c14 = None
     ELSE IF part = "settings" THEN Settings!Init /\ c5 = None /\ c6 = None /\ c7 = None /\ c8 = None /\ c9 = None /\ c10 = None /\ c11 = None /\ c12 = None /\ c13 = None /\ c14 = None
     ELSE /\ c1 = None /\ c2 = None /\ c3 = None /\ c4 = None /\ c5 = None /\ c6 = None /\ c7 = None /\ c8 = None /\ c9 = None /\ c10 = None /\ c11 = None /\ c12 = None /\ c13 = None /\ c14 = None

InTargetSync == part = "sync" /\ UNCHANGED <<part, ofPipeline, ofShared>>
InPipeline == part = "indexing" /\ UNCHANGED <<part, vars, ofShared>>
InSuggestions == part = "suggestions" /\ UNCHANGED <<part, vars, ofPipeline, c8, c9, c10, c11, c12, c13, c14>>
InTracked == part = "tracked" /\ UNCHANGED <<part, vars, ofPipeline>>
InNative == part = "native" /\ UNCHANGED <<part, vars, ofPipeline, c10, c11, c12, c13, c14>>
InViews == part = "view" /\ UNCHANGED <<part, vars, ofPipeline, c9, c10, c11, c12, c13, c14>>
InBuilds == part = "build" /\ UNCHANGED <<part, vars, ofPipeline, c4, c5, c6, c7, c8, c9, c10, c11, c12, c13,
  c14>>
InSettings == part = "settings" /\ UNCHANGED <<part, vars, ofPipeline, c5, c6, c7, c8, c9, c10, c11, c12, c13, c14>>

TargetSyncNext ==
  \/ \E i \in Items, v \in ItemOrNone : InTargetSync /\ Change(i, v)
  \/ \E e \in Edits, i \in Items, v \in Values : InTargetSync /\ EditItem(e, i, v)
  \/ \E e \in Edits, i \in Items : InTargetSync /\ DeleteItem(e, i)
  \/ \E e \in Edits :
       \/ InTargetSync /\ EditStops(e)
       \/ InTargetSync /\ FetchItem(e)
       \/ InTargetSync /\ StoreItem(e)
       \/ InTargetSync /\ RemoveItem(e)
  \/ InTargetSync /\ AddTarget
  \/ InTargetSync /\ RemoveTarget
  \/ InTargetSync /\ RequestFullSync
  \/ InTargetSync /\ LockGoesStale
  \/ InTargetSync /\ FullGetsOld
  \/ \E r \in Runs, scheduled \in BOOLEAN : InTargetSync /\ Claim(r, scheduled)
  \/ \E r \in Runs, i \in Items : InTargetSync /\ ReadPage(r, i)
  \/ \E r \in Runs :
       \/ InTargetSync /\ WritePage(r)
       \/ InTargetSync /\ LastPage(r)
       \/ InTargetSync /\ SweepFind(r)
       \/ InTargetSync /\ SweepDrop(r)
       \/ InTargetSync /\ End(r)
       \/ InTargetSync /\ Fail(r)
       \/ InTargetSync /\ Crash(r)
  \/ \E i \in Items : InTargetSync /\ OverlapPasses(i)

PipelineNext ==
  \/ InPipeline /\ Pipeline!Push
  \/ InPipeline /\ Pipeline!Deploy
  \/ InPipeline /\ Pipeline!Wipe
  \/ InPipeline /\ Pipeline!NextStage
  \/ InPipeline /\ Pipeline!ClearFacts
  \/ InPipeline /\ Pipeline!ForgetFacts
  \/ InPipeline /\ Pipeline!Finish
  \/ InPipeline /\ Pipeline!Crash
  \/ \E full \in BOOLEAN, skipped \in SUBSET Paths : InPipeline /\ Pipeline!Start(full, skipped)
  \/ \E p \in Paths :
       \/ InPipeline /\ Pipeline!UpsertNode(p)
       \/ InPipeline /\ Pipeline!DeleteNode(p)
       \/ InPipeline /\ Pipeline!SaveFacts(p)
  \/ \E e \in Pipeline!Edges :
       \/ InPipeline /\ Pipeline!UpsertEdge(e)
       \/ InPipeline /\ Pipeline!DeleteEdge(e)

SuggestionsNext ==
  \/ \E t \in Runs :
       \/ InSuggestions /\ Suggestions!Claim(t)
       \/ InSuggestions /\ Suggestions!Release(t)
       \/ InSuggestions /\ Suggestions!Look(t)
       \/ InSuggestions /\ Suggestions!KnownDismissed(t)
       \/ InSuggestions /\ Suggestions!KnownQuoted(t)
       \/ InSuggestions /\ Suggestions!Draft(t)
       \/ InSuggestions /\ Suggestions!Create(t)
       \/ InSuggestions /\ Suggestions!Finish(t)
       \/ InSuggestions /\ Suggestions!RecordDismissed(t)
       \/ InSuggestions /\ Suggestions!Fail(t)
       \/ InSuggestions /\ Suggestions!Crash(t)
  \/ \E t \in Runs, s \in {Edited, Quoted} : InSuggestions /\ Suggestions!Suggest(t, s)
  \/ \E t \in Runs, i \in Values : InSuggestions /\ Suggestions!Dismiss(t, i)
  \/ \E s \in {Edited, Quoted} : InSuggestions /\ Suggestions!Lapse(s)
  \/ InSuggestions /\ Suggestions!Write(Edited, None)

TrackedNext ==
  \/ InTracked /\ Tracked!ReadColumns
  \/ InTracked /\ Tracked!ShowStatuses
  \/ InTracked /\ Tracked!HideItems
  \/ InTracked /\ Tracked!OfferColumns
  \/ InTracked /\ Tracked!SyncPlaces
  \/ InTracked /\ Tracked!ColumnsFail
  \/ InTracked /\ Tracked!ReadDetails
  \/ InTracked /\ Tracked!List
  \/ InTracked /\ Tracked!WriteIssue
  \/ InTracked /\ Tracked!FindGone
  \/ InTracked /\ Tracked!SweepComments
  \/ InTracked /\ Tracked!SweepItems
  \/ InTracked /\ Tracked!SyncStops
  \/ \E full \in BOOLEAN : InTracked /\ Tracked!StartSync(full)
  \/ \E cols \in Columns : InTracked /\ Tracked!TrackerRearranges(cols)
  \/ \E s \in Statuses : InTracked /\ Tracked!TrackerChanges("i", Tracked!New(s))
  \/ InTracked /\ Tracked!TrackerChanges("i", None)
  \/ InTracked /\ Tracked!ReadIssue("i")
  \/ \E r \in Runs :
       \/ InTracked /\ Tracked!AskUse(r)
       \/ InTracked /\ Tracked!AskKeep(r)
       \/ InTracked /\ Tracked!UseTrackerColumns(r)
       \/ InTracked /\ Tracked!KeepDefaultColumns(r)
       \/ InTracked /\ Tracked!PlaceItems(r)
       \/ InTracked /\ Tracked!Create(r)
       \/ InTracked /\ Tracked!Update(r)
       \/ InTracked /\ Tracked!Refresh(r)
       \/ InTracked /\ Tracked!Fetch(r)
       \/ InTracked /\ Tracked!Store(r)
       \/ InTracked /\ Tracked!CompareColumn(r)
       \/ InTracked /\ Tracked!Schedule(r)
       \/ InTracked /\ Tracked!SetSprint(r)
       \/ InTracked /\ Tracked!StoreSprint(r)
       \/ InTracked /\ Tracked!Delete(r)
       \/ InTracked /\ Tracked!DeleteItem(r)
       \/ InTracked /\ Tracked!DeleteComments(r)
       \/ InTracked /\ Tracked!PostComment(r)
       \/ InTracked /\ Tracked!RecordComment(r)
       \/ InTracked /\ Tracked!RequestStops(r)
       \/ InTracked /\ Tracked!AskUpdate(r, "i")
       \/ InTracked /\ Tracked!AskDelete(r, "i")
       \/ InTracked /\ Tracked!AskComment(r, "i")
  \/ \E r \in Runs, s \in Statuses :
       \/ InTracked /\ Tracked!Transition(r, s)
       \/ InTracked /\ Tracked!AskMove(r, "i", s)
  \/ \E r \in Runs, s \in {"sprint", None} : InTracked /\ Tracked!AskSprint(r, "i", s)
  \/ \E r \in Runs :
       \/ InTracked /\ (CreatesLast /\ Tracked!AskCreate(r, "i", "open", "sprint"))
       \/ InTracked /\ (CreatesLast /\ Tracked!AskCreate(r, "i", "old", None))

NativeNext ==
  \/ \E r \in Runs :
       \/ InNative /\ Native!Move(r)
       \/ InNative /\ Native!SetSprint(r)
       \/ InNative /\ Native!SetType(r)
       \/ InNative /\ Native!DropComments(r)
       \/ InNative /\ Native!Comment(r)
       \/ InNative /\ Native!StartSprint(r)
       \/ InNative /\ Native!MoveOpen(r)
       \/ InNative /\ Native!CloseSprint(r)
       \/ InNative /\ Native!EmptyColumn(r)
       \/ InNative /\ Native!Recategorise(r)
       \/ InNative /\ Native!SetColumns(r)
       \/ InNative /\ Native!ReassignType(r)
       \/ InNative /\ Native!DeleteType(r)
  \/ \E r \in Runs, i \in Values :
       \/ InNative /\ Native!Insert(r, i)
       \/ InNative /\ Native!Delete(r, i)
       \/ InNative /\ Native!ReadComment(r, i)
  \/ \E r \in Runs, i \in Values, col \in {"todo", "doing", "done"} : InNative /\ Native!ReadMove(r, i, col)
  \/ \E r \in Runs, col \in {"todo", "doing", "done"}, s \in {"a", "b", None}, t \in {1, 2, 3, None} : InNative /\ Native!ReadCreate(r, col, s, t)
  \/ \E r \in Runs, i \in Values, s \in {"a", "b", None} : InNative /\ Native!ReadSetSprint(r, i, s)
  \/ \E r \in Runs, i \in Values, t \in 1..3 : InNative /\ Native!ReadSetType(r, i, t)
  \/ \E r \in Runs, s \in {"a", "b"} :
       \/ InNative /\ Native!CreateSprint(r, s)
       \/ InNative /\ Native!ReadStart(r, s)
  \/ \E r \in Runs, s \in {"a", "b"}, to \in {"a", "b", None} : InNative /\ Native!ReadComplete(r, s, to)
  \/ \E r \in Runs, cols \in Boards, to \in {"todo", "doing", "done"} : InNative /\ Native!ReadColumns(r, cols, to)
  \/ \E r \in Runs, name \in {"task", "own"} : InNative /\ Native!CreateType(r, name)
  \/ \E r \in Runs, t \in 1..3, to \in {1, 2, 3, None} : InNative /\ Native!ReadDeleteType(r, t, to)

ViewsNext ==
  \/ InViews /\ Views!Fetch
  \/ InViews /\ Views!Fetched
  \/ InViews /\ Views!RollupEdges
  \/ InViews /\ Views!Project
  \/ \E g \in {Small, Large} : InViews /\ Views!Reindex(g)

BuildsNext ==
  \/ InBuilds /\ Builds!Link
  \/ InBuilds /\ Builds!Build
  \/ \E p \in {Tree[i] : i \in 1..5} : InBuilds /\ Builds!Commit(p)

SettingsNext ==
  \/ InSettings /\ Settings!EditPython
  \/ InSettings /\ Settings!Read
  \/ \E c \in TsFiles : InSettings /\ Settings!EditTsconfig(c)
  \/ \E d \in {App, Ui} : InSettings /\ Settings!EditManifest(d)

MCNext ==
  \/ TargetSyncNext
  \/ PipelineNext
  \/ SuggestionsNext
  \/ TrackedNext
  \/ NativeNext
  \/ ViewsNext
  \/ BuildsNext
  \/ SettingsNext

allVars == <<part, vars, ofPipeline, ofShared>>
MCSpec == MCInit /\ [][MCNext]_allVars

Symmetry == Permutations(Values) \cup Permutations(Runs)
-----------------------------------------------------------------------------
(* IndexPipeline: a run that completes leaves exactly its tree in the      *)
(* graph and in the cache.                                                 *)
CompletedRunMirrors == Pipeline!TypeOK /\ Pipeline!CompletedRunMirrors

(* IndexPipeline: facts are stored after the graph shows them.             *)
GraphBeforeFacts == Pipeline!GraphBeforeFacts

(* Suggestions: a text is drafted from once, a passage is drafted once,    *)
(* and what was dismissed stays so.                                        *)
SuggestionsSafe == part = "suggestions" => 
  Suggestions!TypeOK /\ Suggestions!AskedOnce /\ Suggestions!DraftedOnce /\ Suggestions!DismissedStays

(* ProjectConfig, GraphBuild and GraphView: aliases mean what the settings    *)
(* say, a graph is drawn from what the code says, and a                      *)
(* view of it is a tree in which nothing vanishes and the weight adds up.    *)
GraphSound == (part = "view" => Views!ViewSound) /\ (part = "build" => Builds!BuildSound)
              /\ (part = "settings" => Settings!ConfigSound)

(* TrackerBoard and NativeBoard: a tracker's board shows its issues where    *)
(* the columns in use put them, and no item falls off the workspace's own.  *)
BoardsSafe == (part = "tracked" => Tracked!MirrorSafe) /\ (part = "native" => Native!BoardSound)
=============================================================================
