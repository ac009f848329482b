----------------------------- MODULE GraphView ------------------------------
(***************************************************************************)
(* One interactive view of a repository's graph (graph/view_service.py,    *)
(* knowledge_graph/view/, the store's view_children and rollup_edges): the *)
(* tree is fetched level by level where it is open, the relationships in   *)
(* one more query, and each is drawn against what is on screen. An index   *)
(* run may replace the graph between two queries.                          *)
(*                                                                         *)
(* An id is its path: a node is its label, its path and, for a symbol, its *)
(* qualified name. The cap on a view's edges is left out.                  *)
(***************************************************************************)
EXTENDS Integers, SequencesExt

CONSTANTS Graphs,            \* the graphs that may be stored: nodes, and edges with a weight
          Requests,          \* what a client may ask for
          Precedes(_, _),    \* the order of ids
          MAX_LEVELS, MAX_OPEN_CONTAINERS, PAGE_SIZE, MAX_NODES,
          None

VARIABLES graph,    \* what the store holds
          req,      \* the request: expanded, revealed, labels, types, to, scope
          phase,    \* fetch, edges, project, done
          level, frontier,
          got,      \* _Gathered: children, opened, files, capped
          rows,     \* the relationships read, symbols folded into shut files
          view

vars == <<graph, req, phase, level, frontier, got, rows, view>>

Node(label, path, name) == [label |-> label, path |-> path, name |-> name]
Repository == Node("Repository", <<>>, <<>>)
Module(path) == Node("Module", path, <<>>)
File(path) == Node("File", path, <<>>)
Symbol(path, name) == Node("Symbol", path, name)
Package(name) == Node("Package", <<"pkg", name>>, <<>>)
External == Module(<<"__external__">>)
Above(path) == SubSeq(path, 1, Len(path) - 1)

(* What the builder stores: a file or folder in the folder above it, a     *)
(* definition in the one it is written in, else in its file.               *)
Container(g, n) ==
  CASE n.label = "Package" -> External
    [] n.label = "Symbol" -> IF Len(n.name) > 1 /\ Symbol(n.path, Above(n.name)) \in g.nodes
                             THEN Symbol(n.path, Above(n.name)) ELSE File(n.path)
    [] OTHER -> IF Len(n.path) = 1 THEN Repository ELSE Module(Above(n.path))
Children(g, p) == {n \in g.nodes : Container(g, n) = p}
Degree(g, n) == Cardinality({e \in g.edges : n \in {e.from, e.to}})

(* container_chain: the containers above a node, from its id and label.    *)
Directories(path) == [i \in 1..Len(path) - 1 |-> Module(SubSeq(path, 1, Len(path) - i))]
ContainerChain(n) ==
  CASE n.label = "Package" -> <<External, Repository>>
    [] n.label = "Symbol" -> <<File(n.path)>> \o Directories(n.path) \o <<Repository>>
    [] n.label = "Repository" -> <<>>
    [] OTHER -> Directories(n.path) \o <<Repository>>
IsWithin(n, c) == n = c \/ (c.label \in {"Module", "File"} /\ IsPrefix(c.path, n.path))

OPENS_THROUGH == [module |-> {}, file |-> {"Module"}, symbol |-> {"Module", "File"}]
WantsOpening(n) ==
  \/ n \in req.expanded
  \/ /\ req.to # None
     /\ IF req.scope = None \/ IsWithin(n, req.scope) THEN n.label \in OPENS_THROUGH[req.to] ELSE IsWithin(req.scope, n)

Init ==
  /\ graph \in Graphs
  /\ req \in Requests
  /\ phase = "fetch" /\ level = 0 /\ frontier = {Repository}
  /\ got = [children |-> <<>>, opened |-> {}, files |-> {}, capped |-> FALSE]
  /\ rows = None /\ view = None
-----------------------------------------------------------------------------
(* _gather: one level of the tree. Which containers a full view leaves     *)
(* shut follows from their order; any choice is allowed here.              *)
Listed(n) == [node |-> n, container |-> Children(graph, n) # {}, degree |-> Degree(graph, n)]
Fetch ==
  LET pending == frontier \ DOMAIN got.children
      kids == [p \in pending |-> {Listed(n) : n \in Children(graph, p)}]
      wanted == {k.node : k \in {k \in UNION {kids[p] : p \in pending} : k.container /\ WantsOpening(k.node)}}
      room == MAX_OPEN_CONTAINERS - Cardinality(got.opened)
  IN
  /\ phase = "fetch" /\ pending # {} /\ level < MAX_LEVELS
  /\ \E opens \in SUBSET wanted :
       /\ Cardinality(opens) = Min({room, Cardinality(wanted)})
       /\ got' = [children |-> got.children @@ kids, opened |-> got.opened \cup opens,
                  files |-> got.files \cup {n.path : n \in {n \in opens : n.label = "File"}},
                  capped |-> got.capped \/ opens # wanted]
       /\ frontier' = opens
  /\ level' = level + 1
  /\ UNCHANGED <<graph, req, phase, rows, view>>
Fetched ==
  /\ phase = "fetch" /\ (frontier \subseteq DOMAIN got.children \/ level = MAX_LEVELS)
  /\ phase' = "edges"
  /\ UNCHANGED <<graph, req, level, frontier, got, rows, view>>

(* rollup_edges: a symbol is its file, unless the file is open.            *)
Fold(n, files) == IF n.label = "Symbol" /\ n.path \notin files THEN File(n.path) ELSE n
RollupEdges ==
  /\ phase = "edges"
  /\ rows' = {[from |-> Fold(e.from, got.files), to |-> Fold(e.to, got.files), type |-> e.type,
               of |-> e] : e \in {e \in graph.edges : e.type \in req.types}}
  /\ phase' = "project"
  /\ UNCHANGED <<graph, req, level, frontier, got, view>>

(* An index run replaces the graph.                                        *)
Reindex(g) ==
  /\ phase # "done" /\ g # graph
  /\ graph' = g
  /\ UNCHANGED <<req, phase, level, frontier, got, rows, view>>
-----------------------------------------------------------------------------
(* _walk: breadth first, an open container is drawn and descended into.    *)
Marker(p) == [more |-> p]
Group(k) == CASE k.node = External -> 1 [] k.node.label = "Module" -> 0 [] k.node.label = "File" -> 2
              [] k.node.label = "Symbol" -> 3 [] OTHER -> 4
\* paging_key: folders, files, definitions; among them the most connected first
Before(j, k) ==
  \/ Group(j) < Group(k)
  \/ Group(j) = Group(k) /\ (j.degree > k.degree \/ (j.degree = k.degree /\ Precedes(j.node, k.node)))
Position(k, kids) == Cardinality({j \in kids : Before(j, k)})

KidsOf(p) == IF p \in DOMAIN got.children THEN got.children[p] ELSE {}
Opens(k) == k.container /\ k.node \in got.opened /\ KidsOf(k.node) # {}
\* _draw: what fits on the page, the rest behind a marker
Draw(w, p) ==
  LET fresh == {k \in KidsOf(p) : k.node \notin w.visible}
      open == {k \in fresh : Opens(k)}
      drawable == {k \in fresh \ open : k.node.label \in req.labels}
      limit == IF p \in req.revealed THEN Cardinality(drawable) ELSE PAGE_SIZE
      page == {k \in drawable : Position(k, drawable) < limit}
      room == MAX_NODES - Cardinality(w.visible \cup {k.node : k \in open})
      shown == {k \in page : Position(k, drawable) < room}
      surplus == IF shown = page THEN drawable \ page ELSE {}
      drawn == {k.node : k \in shown \cup open}
  IN [visible |-> w.visible \cup drawn,
      parent |-> [n \in drawn |-> p] @@ w.parent,
      opened |-> w.opened \cup {k.node : k \in open},
      behind |-> [n \in {k.node : k \in surplus} |-> p] @@ w.behind,
      marker |-> IF surplus = {} THEN w.marker ELSE (p :> [shown |-> Cardinality(shown), hidden |-> Cardinality(surplus)]) @@ w.marker,
      queue |-> Tail(w.queue) \o SetToSortSeq({k.node : k \in open}, Precedes),
      truncated |-> w.truncated \/ shown # page]
Start == [visible |-> {Repository}, parent |-> <<>>, opened |-> {}, behind |-> <<>>, marker |-> <<>>,
          queue |-> <<Repository>>, truncated |-> FALSE]
\* what is queued was drawn just then, so the queue is empty in as many steps as there are nodes
Walk == FoldSet(LAMBDA step, w : IF w.queue = <<>> THEN w ELSE Draw(w, Head(w.queue)), Start, 0..Cardinality(got.opened))

\* Slip: what is behind a marker is drawn against the folder
PlaceVisible(n, w) ==
  LET steps == SelectSeq(<<n>> \o ContainerChain(n), LAMBDA s : s # Repository /\ s \in w.visible)
  IN IF steps = <<>> THEN None ELSE steps[1]
(* nearest_visible: the node, else the closest above it that is on screen  *)
(* or behind a marker. Nothing is drawn against the repository.            *)
Redirect(n, w) == IF n \in w.visible THEN n ELSE Marker(w.behind[n])
Place(n, w) ==
  LET steps == SelectSeq(<<n>> \o ContainerChain(n), LAMBDA s : s # Repository /\ s \in w.visible \cup DOMAIN w.behind)
  IN IF steps = <<>> THEN None ELSE Redirect(steps[1], w)
Weight(E) == MapThenSumSet(LAMBDA e : e.of.weight, E)
\* _roll_up: what joins the same two nodes is one line
RollUp(w) ==
  LET placed == {[from |-> Place(e.from, w), to |-> Place(e.to, w), type |-> e.type, of |-> e.of] : e \in rows}
      lands == {e \in placed : e.from # None /\ e.to # None /\ e.from # e.to}
  IN {[from |-> e.from, to |-> e.to, type |-> e.type,
       weight |-> Weight({f \in lands : f.from = e.from /\ f.to = e.to /\ f.type = e.type})] : e \in lands}
Project ==
  /\ phase = "project"
  /\ LET w == Walk IN view' = [w EXCEPT !.truncated = @ \/ got.capped] @@ [lines |-> RollUp(w)]
  /\ phase' = "done"
  /\ UNCHANGED <<graph, req, level, frontier, got, rows>>

Next == Fetch \/ Fetched \/ RollupEdges \/ Project \/ \E g \in Graphs : Reindex(g)
Spec == Init /\ [][Next]_vars
-----------------------------------------------------------------------------
Done == phase = "done"
\* every query was answered from the graph that is stored now
Whole ==
  /\ \A p \in DOMAIN got.children : got.children[p] = {Listed(n) : n \in Children(graph, p)}
  /\ {e.of : e \in rows} = {e \in graph.edges : e.type \in req.types}

(* The picture is a tree: everything on it but the repository hangs under  *)
(* an open folder, or the repository, that is on it too (lod.py:13).       *)
TreeOnScreen ==
  \A n \in view.visible \ {Repository} :
    view.parent[n] = Repository \/ view.parent[n] \in view.opened \cap view.visible

(* What an open folder holds is drawn, or behind its marker, unless it was *)
(* filtered out or the view says that it is cut short; the marker counts   *)
(* what it stands for (model.py:204).                                      *)
NothingVanishes ==
  /\ ~view.truncated => \A p \in view.opened \cup {Repository} : \A k \in KidsOf(p) :
       k.node \in view.visible \cup DOMAIN view.behind \/ k.node.label \notin req.labels
  /\ \A p \in DOMAIN view.marker : view.marker[p].hidden = Cardinality({n \in DOMAIN view.behind : view.behind[n] = p})

(* The weight adds up (lod.py:23): a line between two nodes weighs what    *)
(* the relationships of all they stand for weigh, where a node stands for  *)
(* itself and for everything under it that is not drawn, as the stored     *)
(* tree has it. A definition within another counts for its file.           *)
Stored(n) == IF n.label = "Symbol" THEN File(n.path) ELSE Container(graph, n)
Shows(n) == n = Repository \/ n \in view.visible \/ n \in DOMAIN view.behind
StoodFor(n) ==
  LET at == FoldSet(LAMBDA step, m : IF Shows(m) THEN m ELSE Stored(m), n, 0..Len(n.path))
  IN IF at = Repository THEN None ELSE Redirect(at, view)
WeightAddsUp ==
  Whole =>
    LET counted == {e \in graph.edges : e.type \in req.types /\ StoodFor(e.from) # None /\ StoodFor(e.to) # None
                                         /\ StoodFor(e.from) # StoodFor(e.to)} IN
    /\ MapThenSumSet(LAMBDA l : l.weight, view.lines) = MapThenSumSet(LAMBDA e : e.weight, counted)
    /\ \A e \in counted : \E l \in view.lines : l.from = StoodFor(e.from) /\ l.to = StoodFor(e.to) /\ l.type = e.type

TypeOK ==
  /\ level \in 0..MAX_LEVELS
  /\ Cardinality(got.opened) <= MAX_OPEN_CONTAINERS
  /\ frontier \subseteq got.opened \cup {Repository}

ViewSound == TypeOK /\ (Done => TreeOnScreen /\ NothingVanishes /\ WeightAddsUp)
=============================================================================
