---------------------------- MODULE IndexPipeline ----------------------------
(***************************************************************************)
(* One repository's indexing pipeline against its two stores:              *)
(* app/knowledge_graph/pipeline.py, sync_plan.py and build/diff.py, the    *)
(* facts cache (app/services/facts_repository.py) and the graph in Neo4j   *)
(* (app/db/knowledge_graph_store.py).                                      *)
(*                                                                         *)
(* IndexJobs shows that one run indexes a repository at a time, so there   *)
(* is one run here, which may die between any two database writes.         *)
(*                                                                         *)
(* A tree gives every path a content, or Absent.  Content Importing names  *)
(* every other file, so that its edges depend on the files around it.  The *)
(* graph of a tree has a node per file, with its content as the node's     *)
(* properties, and an edge per import whose two ends exist.                *)
(***************************************************************************)
EXTENDS Naturals, FiniteSets

CONSTANTS
    Paths,          \* paths a checkout may hold
    Contents,       \* what a file may contain, told apart by its hash
    Importing,      \* the content that imports every other file
    Absent          \* no such file

VARIABLES
    head,       \* the default branch
    facts,      \* file_facts: the content hash stored for each path
    old,        \* the paths whose facts an older PARSER_VERSION extracted
    nodes,      \* Neo4j: the content of each file's node
    edges,      \* Neo4j: imports between file nodes
    run,        \* the run's local state
    torn,       \* history: trees that interrupted runs were writing since the last good run
    wiped       \* history: was one of them a full run?

vars == <<head, facts, old, nodes, edges, run, torn, wiped>>

Trees == [Paths -> Contents \cup {Absent}]
Edges == {e \in Paths \X Paths : e[1] # e[2]}
NoTree == [p \in Paths |-> Absent]

Files(tree) == {p \in Paths : tree[p] # Absent}
Without(tree, S) == [p \in Paths |-> IF p \in S THEN Absent ELSE tree[p]]
Overlay(tree, S, new) == [p \in Paths |-> IF p \in S THEN new[p] ELSE tree[p]]

\* link_repository: imports are resolved against the whole repository
EdgesOf(tree) == {e \in Edges : tree[e[1]] = Importing /\ tree[e[2]] # Absent}

\* What a run still has to write to the graph.
Delta == [upsertNodes: SUBSET Paths, upsertEdges: SUBSET Edges,
          deleteEdges: SUBSET Edges, deleteNodes: SUBSET Paths]

\* build.diff.diff_snapshots
Diff(previous, current) ==
    [upsertNodes |-> {p \in Files(current) : previous[p] # current[p]},
     upsertEdges |-> EdgesOf(current) \ EdgesOf(previous),
     deleteEdges |-> EdgesOf(previous) \ EdgesOf(current),
     deleteNodes |-> Files(previous) \ Files(current)]

\* build.diff.full_delta
FullDelta(current) ==
    [upsertNodes |-> Files(current), upsertEdges |-> EdgesOf(current),
     deleteEdges |-> {}, deleteNodes |-> {}]

\* _build_delta: against what the stored facts describe, unless nothing is stored
BuildDelta(stored, current) ==
    IF stored = NoTree THEN FullDelta(current) ELSE Diff(stored, current)

Phases == {"idle", "wipe", "nodes", "edges", "unlink", "drop", "clear", "save", "done"}

\* trust: "exact" when the run must leave exactly its tree, "redo" when it must
\* by the pipeline's comment only
Run == [phase: Phases, full: BOOLEAN, skipped: SUBSET Paths, current: Trees,
        delta: Delta, save: SUBSET Paths, forget: SUBSET Paths,
        trust: {"exact", "redo", "none"}]

NoRun == [phase |-> "idle", full |-> FALSE, skipped |-> {}, current |-> NoTree,
          delta |-> FullDelta(NoTree), save |-> {}, forget |-> {}, trust |-> "none"]

TypeOK ==
    /\ {head, facts, nodes} \subseteq Trees
    /\ old \subseteq Files(facts)
    /\ edges \subseteq {e \in Edges : {e[1], e[2]} \subseteq Files(nodes)}
    /\ run \in Run
    /\ torn \subseteq Trees
    /\ wiped \in BOOLEAN

Init ==
    /\ head = NoTree
    /\ facts = NoTree
    /\ old = {}
    /\ nodes = NoTree
    /\ edges = {}
    /\ run = NoRun
    /\ torn = {}
    /\ wiped = FALSE

-----------------------------------------------------------------------------
(***************************************************************************)
(* Around the run: pushes (reverts and force-pushes too) and deployments   *)
(***************************************************************************)

\* a push changes one file of the branch; pushes before a run add up
Push ==
    /\ run.phase = "idle"
    /\ \E p \in Paths, c \in Contents \cup {Absent} :
         head[p] # c /\ head' = [head EXCEPT ![p] = c]
    /\ UNCHANGED <<facts, old, nodes, edges, run, torn, wiped>>

\* a deployment bumps PARSER_VERSION
Deploy ==
    /\ run.phase = "idle"
    /\ old' = Files(facts)
    /\ UNCHANGED <<head, facts, nodes, edges, run, torn, wiped>>

-----------------------------------------------------------------------------
(***************************************************************************)
(* IndexingPipeline.index                                                  *)
(***************************************************************************)

\* FactsStore.fingerprints leaves out facts of an older parser; load_all does not.
Fingerprints == Without(facts, old)

\* plan_sync, of the checkout against fingerprints
ToExtract(prints) == {p \in Files(head) : prints[p] # head[p]}
Deleted(prints) == Files(prints) \ Files(head)

\* merge_facts
MergeFacts(stored, extracted, deleted) ==
    Overlay(Without(stored, deleted), extracted, head)

(***************************************************************************)
(* An incremental run starts from a sound cache when every stored path     *)
(* that is gone has facts of this parser, and no stored file is skipped;   *)
(* and when the graph shows what the facts describe, but for interrupted   *)
(* runs of the tree it is about to write.                                  *)
(***************************************************************************)
SoundCache(skipped) ==
    /\ old \subseteq Files(head)
    /\ skipped \cap Files(facts) = {}

Trust(full, skipped, current) ==
    CASE full -> "exact"
      [] ~full /\ SoundCache(skipped) /\ torn \subseteq {current} ->
            IF wiped THEN "redo" ELSE "exact"
      [] OTHER -> "none"

\* Everything up to the first write: discover, plan, extract (a file that fails
\* or times out is skipped), merge with the stored facts, link, build and diff.
Start(full, skipped) ==
    LET prints == IF full THEN NoTree ELSE Fingerprints
        stored == IF full THEN NoTree ELSE facts
        extracted == ToExtract(prints) \ skipped
        current == MergeFacts(stored, extracted, Deleted(prints))
    IN
    /\ run.phase = "idle"
    /\ skipped \subseteq ToExtract(prints)
    /\ run' = [phase |-> IF full THEN "wipe" ELSE "nodes", full |-> full,
               skipped |-> skipped, current |-> current,
               delta |-> BuildDelta(stored, current),
               save |-> extracted, forget |-> Deleted(prints),
               trust |-> Trust(full, skipped, current)]
    /\ UNCHANGED <<head, facts, old, nodes, edges, torn, wiped>>

\* Slip: a full index writes over what is there.
WipeNothing ==
    /\ run.phase = "wipe"
    /\ run' = [run EXCEPT !.phase = "nodes"]
    /\ UNCHANGED <<head, facts, old, nodes, edges, torn, wiped>>

\* KnowledgeGraphStore.delete_repository, before a full index is applied
Wipe ==
    /\ run.phase = "wipe"
    /\ nodes' = NoTree
    /\ edges' = {}
    /\ run' = [run EXCEPT !.phase = "nodes"]
    /\ UNCHANGED <<head, facts, old, torn, wiped>>

(***************************************************************************)
(* KnowledgeGraphStore.apply: nodes, edges, deleted edges, deleted nodes,  *)
(* a chunk at a time; a chunk is one element here.                         *)
(***************************************************************************)
UpsertNode(p) ==
    /\ run.phase = "nodes"
    /\ p \in run.delta.upsertNodes
    /\ nodes' = [nodes EXCEPT ![p] = run.current[p]]
    /\ run' = [run EXCEPT !.delta.upsertNodes = @ \ {p}]
    /\ UNCHANGED <<head, facts, old, edges, torn, wiped>>

\* MATCH finds no row for an edge with an end that is missing
UpsertEdge(e) ==
    /\ run.phase = "edges"
    /\ e \in run.delta.upsertEdges
    /\ edges' = IF {e[1], e[2]} \subseteq Files(nodes) THEN edges \cup {e} ELSE edges
    /\ run' = [run EXCEPT !.delta.upsertEdges = @ \ {e}]
    /\ UNCHANGED <<head, facts, old, nodes, torn, wiped>>

DeleteEdge(e) ==
    /\ run.phase = "unlink"
    /\ e \in run.delta.deleteEdges
    /\ edges' = edges \ {e}
    /\ run' = [run EXCEPT !.delta.deleteEdges = @ \ {e}]
    /\ UNCHANGED <<head, facts, old, nodes, torn, wiped>>

\* Slip: a node is deleted without its edges.
DeleteNodeAlone(p) ==
    /\ run.phase = "drop"
    /\ p \in run.delta.deleteNodes
    /\ nodes' = [nodes EXCEPT ![p] = Absent]
    /\ run' = [run EXCEPT !.delta.deleteNodes = @ \ {p}]
    /\ UNCHANGED <<head, facts, old, edges, torn, wiped>>

\* DETACH DELETE takes the node's edges with it
DeleteNode(p) ==
    /\ run.phase = "drop"
    /\ p \in run.delta.deleteNodes
    /\ nodes' = [nodes EXCEPT ![p] = Absent]
    /\ edges' = {e \in edges : p \notin {e[1], e[2]}}
    /\ run' = [run EXCEPT !.delta.deleteNodes = @ \ {p}]
    /\ UNCHANGED <<head, facts, old, torn, wiped>>

\* the stage after one that has nothing left to write
Following ==
    CASE run.phase = "nodes"  /\ run.delta.upsertNodes = {} -> "edges"
      [] run.phase = "edges"  /\ run.delta.upsertEdges = {} -> "unlink"
      [] run.phase = "unlink" /\ run.delta.deleteEdges = {} -> "drop"
      [] run.phase = "drop"   /\ run.delta.deleteNodes = {} ->
            IF run.full THEN "clear" ELSE "save"
      [] OTHER -> run.phase

NextStage ==
    /\ Following # run.phase
    /\ run' = [run EXCEPT !.phase = Following]
    /\ UNCHANGED <<head, facts, old, nodes, edges, torn, wiped>>

\* FactsStore.replace_all deletes everything before it inserts
ClearFacts ==
    /\ run.phase = "clear"
    /\ facts' = NoTree
    /\ old' = {}
    /\ run' = [run EXCEPT !.phase = "save"]
    /\ UNCHANGED <<head, nodes, edges, torn, wiped>>

\* Slip: facts are stored while the graph is still being written.
SaveFactsEarly(p) ==
    /\ run.phase \in {"nodes", "save"}
    /\ p \in run.save
    /\ facts' = [facts EXCEPT ![p] = run.current[p]]
    /\ old' = old \ {p}
    /\ run' = [run EXCEPT !.save = @ \ {p}]
    /\ UNCHANGED <<head, nodes, edges, torn, wiped>>

\* save_many (or the inserts of replace_all): a document per file, in any order
SaveFacts(p) ==
    /\ run.phase = "save"
    /\ p \in run.save
    /\ facts' = [facts EXCEPT ![p] = run.current[p]]
    /\ old' = old \ {p}
    /\ run' = [run EXCEPT !.save = @ \ {p}]
    /\ UNCHANGED <<head, nodes, edges, torn, wiped>>

\* delete_paths, once everything is saved
ForgetFacts ==
    /\ run.phase = "save"
    /\ run.save = {}
    /\ facts' = Without(facts, run.forget)
    /\ old' = old \ run.forget
    /\ run' = [run EXCEPT !.phase = "done"]
    /\ UNCHANGED <<head, nodes, edges, torn, wiped>>

\* index returns; a run that was not to be trusted leaves its tree behind
Finish ==
    /\ run.phase = "done"
    /\ torn' = IF run.trust = "exact" THEN {} ELSE Trees
    /\ wiped' = (wiped /\ run.trust # "exact")
    /\ run' = NoRun
    /\ UNCHANGED <<head, facts, old, nodes, edges>>

\* A write fails or the process dies; what was written stays.  (Two trees torn
\* are as bad as all of them.)
Crash ==
    /\ run.phase \notin {"idle", "done"}
    /\ run' = NoRun
    /\ torn' = IF torn \subseteq {run.current} THEN {run.current} ELSE Trees
    /\ wiped' = (wiped \/ run.full)
    /\ UNCHANGED <<head, facts, old, nodes, edges>>

-----------------------------------------------------------------------------

Next ==
    \/ Push \/ Deploy
    \/ \E full \in BOOLEAN, skipped \in SUBSET Paths : Start(full, skipped)
    \/ Wipe \/ NextStage \/ ClearFacts \/ ForgetFacts \/ Finish \/ Crash
    \/ \E p \in Paths : UpsertNode(p) \/ DeleteNode(p) \/ SaveFacts(p)
    \/ \E e \in Edges : UpsertEdge(e) \/ DeleteEdge(e)

Spec == Init /\ [][Next]_vars

-----------------------------------------------------------------------------
(***************************************************************************)
(* Properties                                                              *)
(***************************************************************************)

\* The graph and the cache are those of a tree, nothing more and nothing less.
Mirrors(tree) == nodes = tree /\ edges = EdgesOf(tree) /\ facts = tree

\* A run that completes, in full or from a sound cache, leaves exactly the tree
\* it read: nothing an earlier run left behind survives a full index, and an
\* incremental run repairs whatever an interrupted run of the same tree left.
CompletedRunMirrors ==
    run.phase = "done" /\ run.trust = "exact" => Mirrors(Without(head, run.skipped))

\* "Graph first, facts second": a file's facts are stored only once the graph
\* shows that content, so no later sync skips a file the graph does not have.
GraphBeforeFacts ==
    [][\A p \in Paths : facts'[p] \notin {facts[p], Absent} => nodes[p] = facts'[p]]_facts

\* pipeline.py: after a failed write "the facts cache still describes the
\* previous commit, so the next sync re-does the work".  A sync that completes
\* after interruptions of its own tree only, a full rebuild's too, mirrors it.
InterruptedWorkIsRedone ==
    run.phase = "done" /\ run.trust # "none" => Mirrors(Without(head, run.skipped))
=============================================================================
