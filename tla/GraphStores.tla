---------------------------- MODULE GraphStores -----------------------------
(***************************************************************************)
(* The two stores of the knowledge graph (db/knowledge_graph_store.py):    *)
(* Neo4j, which the service asks, and the dictionaries that stand in for   *)
(* it in its tests, "the same behaviour, without a database". Both are     *)
(* written the same deltas, whole, and asked the same questions.           *)
(*                                                                         *)
(* A node is its id, and ids sort as numbers; what is stored of one is how *)
(* much it is used, and of an edge how often it was found. The reads that  *)
(* draw a view are module GraphView's. How many neighbours are returned is *)
(* left out: a limit counts nodes in the one and paths in the other.       *)
(***************************************************************************)
EXTENDS Naturals, SequencesExt

CONSTANTS Nodes,          \* ids, which are numbers
          Repo, Label,    \* of each: its repository, and Module, File or Symbol
          Size,           \* the length of its name
          Outer,          \* the outermost modules
          Terms,          \* what may be searched: the nodes whose name or path has it
          Folders,        \* the files under each
          Deltas,         \* what runs of one repository write: nodes, edges, gone, cut
          SUBTREE_DEPTH, SUBTREE_LIMIT, NEIGHBOUR_LIMIT, SEARCH_LIMIT,
          Limits          \* what callers ask for at most

VARIABLES neo, mem        \* nodes and edges of each store

vars == <<neo, mem>>

(* An edge is <<source, target, type>>.                                    *)
CONTAINMENT_EDGE_TYPES == {"CONTAINS", "DEFINES", "HAS_MEMBER"}
Empty == [nodes |-> <<>>, edges |-> <<>>]
Init == neo = Empty /\ mem = Empty

Lowest(n, S) == {x \in S : Cardinality({y \in S : y < x}) < n}
Cap(n, limit) == IF n <= limit THEN n ELSE limit
First(n, s) == SubSeq(s, 1, Cap(n, Len(s)))
Sorted(S, Before(_, _)) == [i \in 1..Cardinality(S) |-> CHOOSE x \in S : Cardinality({y \in S : Before(y, x)}) = i - 1]
-----------------------------------------------------------------------------
(* Neo4j. apply: upserts, then what is cut, then what is gone with all its *)
(* edges; an edge is only written between nodes that are there.            *)
NeoApply(d) ==
  LET nodes == d.nodes @@ neo.nodes
      edges == Restrict(d.edges, {e \in DOMAIN d.edges : {e[1], e[2]} \subseteq DOMAIN nodes}) @@ neo.edges
      gone == {n \in d.gone : Repo[n] = d.repo}
      kept == {e \in DOMAIN edges : (e \in d.cut => Repo[e[1]] # d.repo) /\ {e[1], e[2]} \cap gone = {}}
  IN [nodes |-> Restrict(nodes, DOMAIN nodes \ gone), edges |-> Restrict(edges, kept)]

NeoDelete(r) ==
  LET there == {n \in DOMAIN neo.nodes : Repo[n] # r}
  IN [nodes |-> Restrict(neo.nodes, there), edges |-> Restrict(neo.edges, {e \in DOMAIN neo.edges : {e[1], e[2]} \subseteq there})]

NeoIds(r) == {n \in DOMAIN neo.nodes : Repo[n] = r}
NeoEdges(r) == {e \in DOMAIN neo.edges : Repo[e[1]] = r /\ Repo[e[2]] = r}
NeoModuleView(r) ==
  [nodes |-> NeoIds(r) \cap Outer,
   edges |-> {<<e, neo.edges[e]>> : e \in {e \in NeoEdges(r) : e[3] = "DEPENDS_ON" /\ Label[e[1]] = "Module" /\ Label[e[2]] = "Module"}}]
NeoDetail(r, n) ==
  IF n \notin NeoIds(r) THEN {}
  ELSE {[used |-> neo.nodes[n], children |-> {e[2] : e \in {e \in DOMAIN neo.edges : e[1] = n /\ e[3] \in CONTAINMENT_EDGE_TYPES}}]}

(* subtree: one query a level, of what the level above kept and as many as *)
(* there is room for; the least of its parents is a node's.                *)
NeoSubtree(r, roots, most) ==
  LET limit == Cap(most, SUBTREE_LIMIT)
      row(parent, n, depth) == [parent |-> parent, id |-> n, depth |-> depth]
      level(w, depth) ==
        LET below == {e \in NeoEdges(r) : e[3] \in CONTAINMENT_EDGE_TYPES /\ e[1] \in w.frontier /\ e[2] \notin w.seen}
            kept == Lowest(limit - Cardinality(w.found), {e[2] : e \in below})
            parent(n) == Min({e[1] : e \in {e \in below : e[2] = n}})
        IN IF w.frontier = {} \/ Cardinality(w.found) >= limit THEN w
           ELSE [found |-> w.found \cup {row(parent(n), n, depth) : n \in kept}, frontier |-> kept, seen |-> w.seen \cup kept]
      start == Lowest(limit, roots \cap NeoIds(r))
  IN FoldLeft(level, [found |-> {row(0, n, 0) : n \in start}, frontier |-> start, seen |-> start],
              [depth \in 1..SUBTREE_DEPTH |-> depth]).found

(* neighbours: the paths of up to `depth` edges, none of them twice.       *)
From(e, n, direction) ==
  {m \in {e[1], e[2]} : (direction # "in" /\ n = e[1] /\ m = e[2]) \/ (direction # "out" /\ n = e[2] /\ m = e[1])}
NeoNeighbours(r, n, direction, types, depth) ==
  LET wanted == {e \in DOMAIN neo.edges : types = {} \/ e[3] \in types}
      none == [at |-> n, by |-> {}]
      longer(paths, hop) ==
        paths \cup UNION {{[at |-> m, by |-> q[1].by \cup {q[2]}] : m \in From(q[2], q[1].at, direction)} :
                            q \in {q \in paths \X wanted : q[2] \notin q[1].by}}
      paths == FoldLeft(longer, {none}, [hop \in 1..depth |-> hop]) \ {none}
      matched == IF n \in NeoIds(r) THEN {p \in paths : p.at \in NeoIds(r)} ELSE {}
  IN [nodes |-> {p.at : p \in matched}, edges |-> UNION {p.by : p \in matched}]

(* follow: the most used edges of each node, no more than per_node of it;  *)
(* a query for each direction, then both together (_followed). Where the   *)
(* code leaves the order open, arrows out come first, then low ids.        *)
Row(e, arrow, store) ==
  [origin |-> IF arrow = 1 THEN e[1] ELSE e[2], id |-> IF arrow = 1 THEN e[2] ELSE e[1], arrow |-> arrow, count |-> store.edges[e]]
Rows(edges, out, in, store) ==
  {Row(e, 1, store) : e \in {e \in edges : e[3] \in out}} \cup {Row(e, 2, store) : e \in {e \in edges : e[3] \in in}}
Key(p) == <<p.origin, p.id, p.arrow>>
Sooner(a, b) == \E i \in DOMAIN a : a[i] < b[i] /\ \A j \in 1..i - 1 : a[j] = b[j]
MoreUsed(p, q) == p.count > q.count \/ (p.count = q.count /\ Sooner(Key(p), Key(q)))
Followed(rows, per_node, limit) ==
  LET take(kept, row) ==
        IF Len(kept) < limit /\ Cardinality({i \in DOMAIN kept : kept[i].origin = row.origin}) < per_node
        THEN Append(kept, row) ELSE kept
  IN FoldLeft(take, <<>>, Sorted(rows, MoreUsed))
Best(n, rows, Order(_, _)) == {p \in rows : Cardinality({q \in rows : Order(q, p)}) < n}
NeoFollow(r, origins, out, in, per_node, most) ==
  LET limit == Cap(most, NEIGHBOUR_LIMIT)
      farthest(p, q) == p.count > q.count \/ (p.count = q.count /\ Sooner(<<p.id, p.origin, p.arrow>>, <<q.id, q.origin, q.arrow>>))
      query(rows) == Best(limit, UNION {Best(per_node, {p \in rows : p.origin = n}, MoreUsed) : n \in origins}, farthest)
  IN Followed(query(Rows(NeoEdges(r), out, {}, neo)) \cup query(Rows(NeoEdges(r), {}, in, neo)), per_node, limit)

NeoRepoMap(r, near, most) ==
  LET files == {n \in NeoIds(r) : Label[n] = "File"}
      nearby(n) == IF \E f \in near : n \in Folders[f] THEN 0 ELSE 1
      first(m, n) == \/ nearby(m) < nearby(n)
                     \/ nearby(m) = nearby(n) /\ (neo.nodes[m] > neo.nodes[n] \/ (neo.nodes[m] = neo.nodes[n] /\ m < n))
  IN First(Cap(most, SUBTREE_LIMIT), Sorted(files, first))
NeoSearch(r, term, most) ==
  First(Cap(most, SEARCH_LIMIT),
        Sorted({n \in NeoIds(r) \cap Terms[term] : Label[n] \in {"Symbol", "File", "Module"}},
                     LAMBDA m, n : Sooner(<<Size[m], m>>, <<Size[n], n>>)))
NeoCounts(r) ==
  LET nodes_by_label == [l \in {Label[n] : n \in NeoIds(r)} |-> Cardinality({n \in NeoIds(r) : Label[n] = l})]
      edges == {e \in DOMAIN neo.edges : Repo[e[1]] = r}
  IN <<nodes_by_label, [t \in {e[3] : e \in edges} |-> Cardinality({e \in edges : e[3] = t})]>>
-----------------------------------------------------------------------------
(* The dictionaries. apply: entry after entry, with the same guards; the   *)
(* edges of a node that goes are dropped one node at a time.               *)
MemApply(d) ==
  LET nodes == d.nodes @@ mem.nodes
      edges == Restrict(d.edges, {e \in DOMAIN d.edges : e[1] \in DOMAIN nodes /\ e[2] \in DOMAIN nodes}) @@ mem.edges
      cut(e, s) == IF e \in DOMAIN s.edges /\ Repo[e[1]] = d.repo THEN [s EXCEPT !.edges = Restrict(@, DOMAIN @ \ {e})] ELSE s
      drop(n, s) ==
        IF n \in DOMAIN s.nodes /\ Repo[n] = d.repo
        THEN [nodes |-> Restrict(s.nodes, DOMAIN s.nodes \ {n}), edges |-> Restrict(s.edges, {e \in DOMAIN s.edges : n \notin {e[1], e[2]}})]
        ELSE s
  IN FoldSet(drop, FoldSet(cut, [nodes |-> nodes, edges |-> edges], d.cut), d.gone)

MemDelete(r) ==
  LET removed == {n \in DOMAIN mem.nodes : Repo[n] = r}
  IN [nodes |-> Restrict(mem.nodes, DOMAIN mem.nodes \ removed),
      edges |-> Restrict(mem.edges, {e \in DOMAIN mem.edges : e[1] \notin removed /\ e[2] \notin removed})]

MemIds(r) == {n \in DOMAIN mem.nodes : Repo[n] = r}
MemEdges(r) == {e \in DOMAIN mem.edges : Repo[e[1]] = r}
MemModuleView(r) ==
  LET modules == {n \in MemIds(r) : n \in Outer}
  IN [nodes |-> modules, edges |-> {<<e, mem.edges[e]>> : e \in {e \in DOMAIN mem.edges : e[3] = "DEPENDS_ON" /\ {e[1], e[2]} \subseteq modules}}]
MemDetail(r, n) ==
  IF n \notin DOMAIN mem.nodes \/ Repo[n] # r THEN {}
  ELSE {[used |-> mem.nodes[n],
         children |-> {e[2] : e \in {e \in DOMAIN mem.edges : e[1] = n /\ e[3] \in CONTAINMENT_EDGE_TYPES /\ e[2] \in DOMAIN mem.nodes}}]}

(* subtree: all that is found, shallowest first; then the limit.           *)
MemSubtree(r, roots, most) ==
  LET children(p) == {e[2] : e \in {e \in MemEdges(r) : e[1] = p /\ e[3] \in CONTAINMENT_EDGE_TYPES}}
      ids(found) == {row.id : row \in found}
      visit(w, p) ==
        LET new == {n \in children(p) : n \in DOMAIN mem.nodes /\ n \notin ids(w.found)}
        IN [w EXCEPT !.found = @ \cup {[parent |-> p, id |-> n, depth |-> w.depth] : n \in new}, !.next = @ \cup new]
      level(w, depth) ==
        LET done == FoldLeft(visit, [found |-> w.found, next |-> {}, depth |-> depth], Sorted(w.next, <))
        IN [found |-> done.found, next |-> done.next]
      start == {n \in roots : n \in DOMAIN mem.nodes /\ Repo[n] = r}
      found == FoldLeft(level, [found |-> {[parent |-> 0, id |-> n, depth |-> 0] : n \in start}, next |-> start],
                        [depth \in 1..SUBTREE_DEPTH |-> depth]).found
  IN Best(Cap(most, SUBTREE_LIMIT), found, LAMBDA p, q : Sooner(<<p.depth, p.id>>, <<q.depth, q.id>>))

(* neighbours: everything one edge further from what was reached last.     *)
MemNeighbours(r, n, direction, types, depth) ==
  LET wanted == {e \in MemEdges(r) : types = {} \/ e[3] \in types}
      hop(w, k) ==
        LET edges == {e \in wanted : \E m \in w.frontier : From(e, m, direction) # {}}
            next == UNION {From(e, m, direction) : e \in edges, m \in w.frontier}
        IN [reached |-> w.reached \cup next, frontier |-> next \ w.reached, collected |-> w.collected \cup edges]
      w == FoldLeft(hop, [reached |-> {n}, frontier |-> {n}, collected |-> {}], [k \in 1..depth |-> k])
      nodes == {m \in w.reached : m \in DOMAIN mem.nodes /\ m # n}
  IN IF n \notin MemIds(r) THEN [nodes |-> {}, edges |-> {}]
     ELSE [nodes |-> nodes, edges |-> {e \in w.collected : {e[1], e[2]} \subseteq nodes \cup {n}}]

MemFollow(r, origins, out, in, per_node, most) ==
  Followed({p \in Rows(MemEdges(r), out, in, mem) : p.origin \in origins /\ p.id \in DOMAIN mem.nodes}, per_node, Cap(most, NEIGHBOUR_LIMIT))
MemRepoMap(r, near, most) ==
  LET files == {n \in MemIds(r) : Label[n] = "File"}
      far(n) == IF near = {} \/ ~\E f \in near : n \in Folders[f] THEN 1 ELSE 0
      first(m, n) == IF far(m) # far(n) THEN far(m) < far(n) ELSE IF mem.nodes[m] # mem.nodes[n] THEN mem.nodes[m] > mem.nodes[n] ELSE m < n
  IN First(Cap(most, SUBTREE_LIMIT), Sorted(files, first))
MemSearch(r, term, most) ==
  LET matches == {n \in MemIds(r) : Label[n] \in {"Symbol", "File", "Module"} /\ n \in Terms[term]}
  IN First(Cap(most, SEARCH_LIMIT), Sorted(matches, LAMBDA m, n : Sooner(<<Size[m], m>>, <<Size[n], n>>)))
MemCounts(r) ==
  <<FoldSet(LAMBDA n, by : [l \in DOMAIN by \cup {Label[n]} |-> (IF l \in DOMAIN by THEN by[l] ELSE 0) + IF l = Label[n] THEN 1 ELSE 0], <<>>, MemIds(r)),
    FoldSet(LAMBDA e, by : [t \in DOMAIN by \cup {e[3]} |-> (IF t \in DOMAIN by THEN by[t] ELSE 0) + IF t = e[3] THEN 1 ELSE 0], <<>>, MemEdges(r))>>
-----------------------------------------------------------------------------
Apply(d) == neo' = NeoApply(d) /\ mem' = MemApply(d)
DeleteRepository(r) == neo' = NeoDelete(r) /\ mem' = MemDelete(r)

Next == \/ \E d \in Deltas : Apply(d)
        \/ \E r \in {Repo[n] : n \in Nodes} : DeleteRepository(r)
Spec == Init /\ [][Next]_vars
-----------------------------------------------------------------------------
(* "The same behaviour, without a database": whatever was written, cut and *)
(* dropped, both answer each question alike, within one repository. Of a   *)
(* node that its own edges lead back to, Neo4j alone says that it is its   *)
(* own neighbour; and which of equally used edges a limit leaves out may   *)
(* differ.                                                                 *)
SameAnswers ==
  \A r \in {Repo[n] : n \in Nodes} :
    /\ NeoIds(r) = MemIds(r) /\ NeoModuleView(r) = MemModuleView(r) /\ NeoCounts(r) = MemCounts(r)
    /\ \A n \in Nodes : NeoDetail(r, n) = MemDetail(r, n)
    /\ \A roots \in SUBSET Nodes, most \in Limits : NeoSubtree(r, roots, most) = MemSubtree(r, roots, most)
    /\ \A n \in Nodes, direction \in {"in", "out", "both"}, types \in {{}, {"CALLS"}}, depth \in 1..3 :
         LET there == NeoNeighbours(r, n, direction, types, depth)
         IN MemNeighbours(r, n, direction, types, depth) = [there EXCEPT !.nodes = @ \ {n}]
    /\ \A origins \in SUBSET Nodes, out, in \in {{}, {"CALLS"}}, per_node \in {1, 2}, most \in Limits :
         LET counts(rows) == [i \in DOMAIN rows |-> rows[i].count]
         IN counts(NeoFollow(r, origins, out, in, per_node, most)) = counts(MemFollow(r, origins, out, in, per_node, most))
    /\ \A near \in SUBSET DOMAIN Folders, most \in Limits : NeoRepoMap(r, near, most) = MemRepoMap(r, near, most)
    /\ \A term \in DOMAIN Terms, most \in Limits : NeoSearch(r, term, most) = MemSearch(r, term, most)

(* No answer is of another repository, whatever ids are asked for or named *)
(* to be dropped ("tenant safety"), and no edge hangs in the air.          *)
TenantSafe ==
  /\ \A e \in DOMAIN neo.edges : {e[1], e[2]} \subseteq DOMAIN neo.nodes /\ Repo[e[1]] = Repo[e[2]]
  /\ \A r \in {Repo[n] : n \in Nodes}, n \in Nodes, depth \in 1..3 :
       LET there == NeoNeighbours(r, n, "both", {}, depth)
       IN (there.nodes \cup {e[1] : e \in there.edges} \cup {e[2] : e \in there.edges}) \subseteq NeoIds(r)
  /\ \A r \in {Repo[n] : n \in Nodes} : \A row \in NeoSubtree(r, Nodes, SUBTREE_LIMIT) : row.id \in NeoIds(r)
=============================================================================
