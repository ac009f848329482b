------------------------------ MODULE GraphBuild ------------------------------
(***************************************************************************)
(* The graph of one commit (knowledge_graph/build/): what extraction found *)
(* is linked, and facts and links become nodes and edges, directories down *)
(* to definitions. A node's id is its kind and what the path says of it;   *)
(* an edge's lines and names are left to the links.                        *)
(***************************************************************************)
EXTENDS Linking

CONSTANT max_symbols_per_repo

VARIABLE graph       \* None, or the snapshot of the commit

vars == <<facts, links, graph>>
MAX_KEY_SYMBOLS == 1
-----------------------------------------------------------------------------
repository == <<"repository">>
module(dir) == <<"module", dir>>
file(path) == <<"file", path>>
symbol(path, name, ordinal) == <<"symbol", path, name, ordinal>>
package(path, name) == <<"package", IF path.ext = "py" THEN "pypi" ELSE "npm", name>>
route(key) == <<"route", key.method, key.path>>
EXTERNAL_MODULE == module(<<"__external__">>)
ROUTES_MODULE == module(<<"__routes__">>)
Edge(s, t, type) == [source |-> s, target |-> t, type |-> type, weight |-> 1]
Weighted(s, t, type, weight) == [Edge(s, t, type) EXCEPT !.weight = weight]

(* The module layer: a directory at every depth, the totals of the subtree *)
(* it stands for, and the imports between the outermost ones.              *)
Ancestry(path) == {SubSeq(path.at, 1, n) : n \in 1..(Len(path.at) - 1)}
Directories == UNION {Ancestry(p) : p \in Indexed}
Below(dir) == {p \in Indexed : dir \in Ancestry(p)}
Outermost(path) == IF Len(path.at) > 1 THEN <<path.at[1]>> ELSE None
Holder(parts) == IF Len(parts) > 1 THEN module(Front(parts)) ELSE repository
SubtreeTotals ==
  [m \in {module(d) : d \in Directories} |->
     [files |-> Cardinality(Below(m[2])), symbols |-> MapThenSumSet(LAMBDA p : Len(facts[p].definitions), Below(m[2]))]]
TopLevelSummary(l) ==
  LET between == {i \in l.imports : /\ None \notin {Outermost(i.source), Outermost(i.target)}
                                    /\ Outermost(i.source) # Outermost(i.target)}
      pair(i) == <<Outermost(i.source), Outermost(i.target)>>
      uses == {u \in l.packages : Outermost(u.source) # None}
  IN {Weighted(module(pair(i)[1]), module(pair(i)[2]), "DEPENDS_ON",
               Cardinality({j \in between : pair(j) = pair(i)})) : i \in between}
     \cup {Weighted(module(Outermost(u.source)), EXTERNAL_MODULE, "USES_EXTERNAL",
                    Cardinality({v \in uses : Outermost(v.source) = Outermost(u.source)})) : u \in uses}
Synthetic(l) ==
  (IF l.packages = {} THEN {} ELSE {EXTERNAL_MODULE}) \cup (IF l.routes = <<>> THEN {} ELSE {ROUTES_MODULE})

(* Files and their symbols. Only the first definition of a name owns the   *)
(* plain id; a member whose class was not found hangs under its file.      *)
Ordinal(p, i) == Cardinality({j \in 1..i : facts[p].definitions[j] = facts[p].definitions[i]})
SymbolAt(p, i) == symbol(p, facts[p].definitions[i], Ordinal(p, i))
SymbolId(ids, p, name) == IF name # None /\ symbol(p, name, 1) \in ids THEN symbol(p, name, 1) ELSE None
SymbolsOf(p) == {SymbolAt(p, i) : i \in DOMAIN facts[p].definitions}
\* a class comes before its methods, so the parent was seen already
ParentOf(p, i) ==
  LET name == facts[p].definitions[i]
  IN IF \E j \in 1..(i - 1) : Len(name) > 1 /\ facts[p].definitions[j] = Front(name) THEN symbol(p, Front(name), 1) ELSE None
FileEdges == {Edge(Holder(p.at), file(p), "CONTAINS") : p \in Indexed}
MemberEdges(p) ==
  {IF ParentOf(p, i) = None THEN Edge(file(p), SymbolAt(p, i), "DEFINES")
   ELSE Edge(ParentOf(p, i), SymbolAt(p, i), "HAS_MEMBER") : i \in DOMAIN facts[p].definitions}

(* _file_usage: how much a file is used, in halves, and its most used      *)
(* definitions, the earlier one of two as much used.                       *)
Crossing(l) == {e \in l.edges : e.target.file # e.source}
Into(l, p) == Cardinality({i \in l.imports : i.target = p}) + Cardinality({e \in Crossing(l) : e.target.file = p})
OutOf(l, p) == Cardinality({i \in l.imports : i.source = p}) + Cardinality({e \in Crossing(l) : e.source = p})
Rank(l, p) == 2 * Into(l, p) + OutOf(l, p)
KeySymbols(l, p) ==
  LET f == facts[p]
      top == SelectSeq(f.definitions, LAMBDA d : Len(d) = 1)
      exported == SelectSeq(top, LAMBDA d : d[1] \in f.exported)
      names == ToSet(IF exported = <<>> THEN top ELSE exported)
      used(n) == MapThenSumSet(LAMBDA e : Cardinality(e.lines), {e \in Crossing(l) : e.target = [file |-> p, name |-> n]})
      first(n) == CHOOSE i \in DOMAIN top : top[i] = n /\ \A j \in 1..(i - 1) : top[j] # n
      listed == SetToSortSeq(names, LAMBDA m, n : used(m) > used(n) \/ (used(m) = used(n) /\ first(m) < first(n)))
  IN SubSeq(listed, 1, IF Len(listed) < MAX_KEY_SYMBOLS THEN Len(listed) ELSE MAX_KEY_SYMBOLS)

(* Packages, imports merged per pair, the routes with who serves and who   *)
(* calls them, and the edges between symbols.                              *)
PackageEdges(l) ==
  UNION {{Edge(file(u.source), package(u.source, u.package), "USES_PACKAGE"),
          Edge(EXTERNAL_MODULE, package(u.source, u.package), "CONTAINS")} : u \in l.packages}
ImportEdges(l) ==
  {Weighted(file(i.source), file(i.target), "IMPORTS",
            Cardinality({j \in l.imports : <<j.source, j.target>> = <<i.source, i.target>>})) : i \in l.imports}
Or(id, otherwise) == IF id = None THEN otherwise ELSE id
HttpEdges(l, ids) ==
  LET served == {route(r) : r \in ToSet(l.routes)}
  IN {Edge(Or(SymbolId(ids, r.file, r.handler), file(r.file)), route(r), "HANDLES") : r \in ToSet(l.routes)}
     \cup {Edge(Or(SymbolId(ids, r.source, r.symbol), file(r.source)), route(r.key), "REQUESTS") :
             r \in {q \in l.requests : route(q.key) \in served}}
     \cup {Edge(ROUTES_MODULE, id, "CONTAINS") : id \in served}
SymbolLayer(l, ids) ==
  LET source(e) == IF e.symbol = None THEN file(e.source) ELSE SymbolId(ids, e.source, e.symbol)
      target(e) == SymbolId(ids, e.target.file, e.target.name)
  IN {Weighted(source(e), target(e), e.kind, Cardinality(e.lines)) :
        e \in {d \in l.edges : None \notin {source(d), target(d)}}}

\* build_snapshot: over the cap the symbol layer is left out, and said so
BuildSnapshot(l) ==
  LET included == MapThenSumSet(LAMBDA p : Len(facts[p].definitions), Indexed) <= max_symbols_per_repo
      ids == IF included THEN UNION {SymbolsOf(p) : p \in Indexed} ELSE {}
      modules == {module(d) : d \in Directories}
      known == modules \cup Synthetic(l)
      held == {Edge(Holder(m[2]), m, "CONTAINS") : m \in modules} \cup {Edge(repository, m, "CONTAINS") : m \in Synthetic(l)}
      summary == {e \in TopLevelSummary(l) : e.source \in known /\ e.target \in known}
  IN [nodes |-> {repository} \cup known \cup {file(p) : p \in Indexed} \cup ids
                \cup {package(u.source, u.package) : u \in l.packages} \cup {route(r) : r \in ToSet(l.routes)},
      edges |-> held \cup summary \cup FileEdges \cup PackageEdges(l) \cup ImportEdges(l) \cup HttpEdges(l, ids)
                \cup (IF included THEN UNION {MemberEdges(p) : p \in Indexed} \cup SymbolLayer(l, ids) ELSE {}),
      totals |-> SubtreeTotals, rank |-> [p \in Indexed |-> Rank(l, p)], key_symbols |-> [p \in Indexed |-> KeySymbols(l, p)],
      symbol_layer |-> included]
-----------------------------------------------------------------------------
Init == facts = <<>> /\ links = None /\ graph = None

(* A commit changes one file; the next run reads it.                       *)
Commit(path) ==
  /\ \E f \in Sources(path) :
       facts' = IF f = None THEN [p \in Indexed \ {path} |-> facts[p]] ELSE Put(facts, path, f)
  /\ facts' # facts /\ links' = None /\ graph' = None
Link ==
  /\ links = None
  /\ links' = LinkRepository
  /\ UNCHANGED <<facts, graph>>
Build ==
  /\ links # None /\ graph = None
  /\ graph' = BuildSnapshot(links)
  /\ UNCHANGED <<facts, links>>
-----------------------------------------------------------------------------
(* What a file passes on, read off its statements: a name is its own       *)
(* definition, else what a named re-export leads to, else what a star does;*)
(* `default` is what the file exports as such. A walk that has come to a   *)
(* definition stays there.                                                 *)
Leads(to, p, n, reexport, wildcard) ==
  UNION {LET r == facts[p].imports[i] file_ == to[<<p, i>>]
         IN IF file_.kind # "file" \/ r.reexport # reexport \/ r.wildcard # wildcard \/ (wildcard /\ r.alias # None) THEN {}
            ELSE {[file |-> file_.to, name |-> m] : m \in IF wildcard THEN {n} ELSE {r.names[j] : j \in {k \in DOMAIN r.names : r.as[k] = n}}} :
           i \in DOMAIN facts[p].imports}
Steps(to, x) ==
  LET p == x.file
      default == x.name = DEFAULT_EXPORT
      own == IF default THEN facts[p].default ELSE x.name
      defined == IF own = None THEN None ELSE ByName(facts[p], own)
      ways == <<IF default THEN Leads(to, p, DEFAULT_EXPORT, TRUE, FALSE) ELSE {},
                IF defined = None THEN {} ELSE {[file |-> p, end |-> defined]},
                IF default THEN Leads(to, p, own, FALSE, FALSE) ELSE {},
                Leads(to, p, own, TRUE, FALSE), Leads(to, p, own, TRUE, TRUE)>>
      open == SelectSeq(ways, LAMBDA way : way # {})
  IN IF open = <<>> \/ (own = None /\ ways[1] = {}) THEN {} ELSE open[1]
Ends(to, at) ==
  LET walk[n \in 0..(MAX_REEXPORT_DEPTH + 1)] ==
        IF n = 0 THEN {at} ELSE UNION {IF "end" \in DOMAIN x THEN {x} ELSE Steps(to, x) : x \in walk[n - 1]}
  IN {[file |-> x.file, name |-> x.end] : x \in {y \in walk[MAX_REEXPORT_DEPTH + 1] : "end" \in DOMAIN y}}

\* A name taken from another file leads to a definition that re-exports do
\* pass on, and to none only when none is within reach (symbols.py:9-11).
FollowedRight ==
  LET T == [p \in Indexed |-> Table(p)]
      to == [x \in Rows("imports") |-> ResolveImport(x[1], Import(x).spec)]
  IN \A p \in Indexed : \A b \in {T[p].imports[n] : n \in DOMAIN T[p].imports} :
       \E ends \in {Ends(to, [file |-> b.file, name |-> b.symbol])} :
         InFile(T, b.symbol, b.file) \in (IF ends = {} THEN {None} ELSE ends)

\* No edge between two files' symbols without imports that carry it: the
\* file it points into is reached over the imports that were found.
Reached(l, p) ==
  LET from[n \in 0..(MAX_REEXPORT_DEPTH + 1)] ==
        IF n = 0 THEN {p} ELSE UNION {{i.target : i \in {j \in l.imports : j.source = x}} : x \in from[n - 1]}
  IN UNION {from[n] : n \in 0..(MAX_REEXPORT_DEPTH + 1)}
EdgesCarried == \A e \in links.edges : e.target.file \in Reached(links, e.source)

\* A request is drawn to a route that serves its path, an exact one first.
RequestsServed ==
  \A at \in Rows("http_calls") :
    LET call == facts[at[1]].http_calls[at[2]]
        serving == {r.path : r \in {s \in ToSet(links.routes) : s.method = call.method /\ Fits(s.path, call.path)}}
        drawn == {q.key.path : q \in {x \in links.requests : x.source = at[1] /\ x.line = call.line}}
    IN /\ drawn \subseteq serving
       /\ serving # {} => drawn # {}
       /\ call.path \in serving => drawn = {call.path}

\* Every import is counted once: to a file, to a package or unresolved.
ImportsCounted ==
  LET s == links.stats
  IN /\ s.imports_total = s.imports_to_files + s.imports_to_packages + s.imports_unresolved
     /\ s.resolved + s.to_packages <= s.references_total

\* The snapshot holds together: an edge's ends are nodes, each node but the
\* repository is held by exactly one other up to the repository, and what
\* a shut directory says it hides is what is under it (projection.py:13).
Holds(g) == {e \in g.edges : e.type \in {"CONTAINS", "DEFINES", "HAS_MEMBER"}}
Inside(g, id) == {e.target : e \in {h \in Holds(g) : h.source = id}}
Held(g, id) ==
  LET down[n \in 0..6] == IF n = 0 THEN {id} ELSE UNION {Inside(g, x) : x \in down[n - 1]}
  IN UNION {down[n] : n \in 0..6}
SnapshotHolds ==
  /\ \A e \in graph.edges : e.source \in graph.nodes /\ e.target \in graph.nodes
  /\ \A id \in graph.nodes \ {repository} : Cardinality({e \in Holds(graph) : e.target = id}) = 1
  /\ Held(graph, repository) = graph.nodes
  /\ \A m \in DOMAIN graph.totals :
       /\ graph.totals[m].files = Cardinality({id \in Held(graph, m) : id[1] = "file"})
       /\ graph.symbol_layer => graph.totals[m].symbols = Cardinality({id \in Held(graph, m) : id[1] = "symbol"})

\* The summary for the prompt counts the imports the view draws, once each.
SummaryAddsUp ==
  \A e \in {x \in graph.edges : x.type = "DEPENDS_ON"} :
    e.weight = MapThenSumSet(LAMBDA x : x.weight,
                 {x \in graph.edges : /\ x.type = "IMPORTS" /\ x.source \in Held(graph, e.source)
                                      /\ x.target \in Held(graph, e.target)})

BuildSound ==
  /\ links # None => FollowedRight /\ EdgesCarried /\ RequestsServed /\ ImportsCounted
  /\ graph # None => SnapshotHolds /\ SummaryAddsUp
=============================================================================
