---------------------------- MODULE MirrorParts ----------------------------
(***************************************************************************)
(* Proofs about the components MCMirrors runs beside TargetSync, each for  *)
(* any constants: IndexPipeline, what a run that completes leaves in the   *)
(* graph and in the facts cache, whatever runs were interrupted before it, *)
(* and in which order it writes; Suggestions, which asks for each text of  *)
(* a source once and never drafts a decision twice; TrackerBoard, where an *)
(* issue is shown where the columns in use put it; and NativeBoard, which  *)
(* loses no item that its requests do not write across one another.        *)
(***************************************************************************)
EXTENDS IndexPipeline, FiniteSetTheorems, SequenceTheorems, TLAPS

CONSTANTS Sources, Texts, Passages, Says, Related, Ids, Tasks, MaxQuotes, SlowRuns, None
VARIABLES text, scan, dec, task, dismissed, finished, overtaken

CONSTANTS Issues, Statuses, Category, Layouts, Sprints, Slots, First, MaxChanges
VARIABLES tracker, theirs, recent, mirror, ids, noted, board, sync, slot, made, calm, declined, blurred, stray

CONSTANTS Items, Iterations, Names, TASK, BUG, Boards, OwnColumns, MaxTypes, MaxRequests
VARIABLES columns, item, unused, stage, types, comments, desk, asked, astray

\* There is a path, a file that imports is a file, and no content is Absent.
PipelineConstants == Paths # {} /\ Importing \in Contents /\ Absent \notin Contents

-----------------------------------------------------------------------------
(***************************************************************************)
(* The inductive invariant                                                 *)
(***************************************************************************)

Busy == run.phase # "idle"
Target == run.current

\* The graph has nothing but what the facts or tree say, and all that both do.
Between(tree) ==
    /\ \A p \in Paths : nodes[p] \in {facts[p], tree[p]}
    /\ EdgesOf(facts) \cap EdgesOf(tree) \subseteq edges
    /\ edges \subseteq EdgesOf(facts) \cup EdgesOf(tree)

\* The run knows what is in the graph it writes to: it wipes it first, or no
\* run but of the same tree was interrupted since the facts were true of it.
Knows == run.full \/ (~wiped /\ torn \subseteq {Target})

\* What is still to be written leads to the run's tree, stage after stage.
PlanInv == Busy =>
    /\ run.delta.upsertNodes \subseteq Files(Target) /\ run.save \subseteq Files(Target)
    /\ run.delta.deleteNodes \cap Files(Target) = {} /\ run.forget \cap Files(Target) = {}
    /\ run.delta.upsertEdges \subseteq EdgesOf(Target)
    /\ run.delta.deleteEdges \cap EdgesOf(Target) = {}
    /\ run.phase \in {"wipe", "clear"} => run.full
    /\ run.phase \notin {"wipe", "nodes"} => run.delta.upsertNodes = {}
    /\ run.phase \notin {"wipe", "nodes", "edges"} => run.delta.upsertEdges = {}
    /\ run.phase \in {"drop", "clear", "save", "done"} => run.delta.deleteEdges = {}
    /\ run.phase \in {"clear", "save", "done"} => run.delta.deleteNodes = {}
    /\ run.trust = "exact" => Target = Without(head, run.skipped) /\ Knows

\* The facts will be the tree's once the rest is saved; what is to be saved is
\* in the graph already, or is about to be written there.
FactsInv == Busy =>
    /\ run.full => run.forget = {}
    /\ run.full /\ run.phase \notin {"save", "done"} => Files(Target) \subseteq run.save
    /\ ~run.full \/ run.phase \in {"save", "done"} =>
         \A p \in Paths \ (run.save \cup run.forget) : facts[p] = Target[p]
    /\ run.phase = "done" => facts = Target
    /\ \A p \in run.save :
         \/ p \in run.delta.upsertNodes
         \/ run.phase # "wipe" /\ nodes[p] = Target[p]
         \/ ~run.full /\ facts[p] = Target[p]

GraphInv == Busy /\ Knows =>
    /\ run.phase = "wipe" =>
         Files(Target) \subseteq run.delta.upsertNodes /\ EdgesOf(Target) \subseteq run.delta.upsertEdges
    /\ run.phase # "wipe" =>
         /\ \A p \in Paths : nodes[p] = Target[p] \/ p \in run.delta.upsertNodes \cup run.delta.deleteNodes
         /\ EdgesOf(Target) \subseteq edges \cup run.delta.upsertEdges
         /\ edges \subseteq EdgesOf(Target) \cup run.delta.deleteEdges
    /\ ~run.full => Between(Target)

\* Between runs, the same of every tree that alone was being written.
IdleInv == ~Busy /\ ~wiped => \A tree \in Trees : torn \subseteq {tree} => Between(tree)

PipelineInv == TypeOK /\ PlanInv /\ FactsInv /\ GraphInv /\ IdleInv

-----------------------------------------------------------------------------
(***************************************************************************)
(* Trees and their edges                                                   *)
(***************************************************************************)

LEMMA TreesAre ==
    /\ NoTree \in Trees
    /\ \A t \in Trees : \A S : Without(t, S) \in Trees
    /\ \A t, u \in Trees : \A S : Overlay(t, S, u) \in Trees
BY DEF Trees, NoTree, Without, Overlay

LEMMA SameTree == ASSUME NEW t \in Trees, NEW u \in Trees, \A p \in Paths : t[p] = u[p] PROVE t = u
BY DEF Trees

\* An edge of a tree has both its ends in it.
LEMMA EdgeEnds ==
    ASSUME PipelineConstants, NEW t \in Trees, NEW e \in EdgesOf(t)
    PROVE  e \in Edges /\ e[1] \in Files(t) /\ e[2] \in Files(t)
BY DEF PipelineConstants, EdgesOf, Files, Trees, Edges

LEMMA NoEdges == ASSUME PipelineConstants PROVE EdgesOf(NoTree) = {} /\ Files(NoTree) = {}
BY DEF PipelineConstants, EdgesOf, Files, NoTree, Edges

LEMMA OfRun ==
    ASSUME TypeOK
    PROVE  /\ run.phase \in Phases /\ run.full \in BOOLEAN /\ run.skipped \subseteq Paths /\ run.current \in Trees
           /\ run.delta \in Delta /\ run.save \subseteq Paths /\ run.forget \subseteq Paths
           /\ run.trust \in {"exact", "redo", "none"}
           /\ run.delta.upsertNodes \subseteq Paths /\ run.delta.deleteNodes \subseteq Paths
           /\ run.delta.upsertEdges \subseteq Edges /\ run.delta.deleteEdges \subseteq Edges
BY DEF TypeOK, Run, Delta

\* No two trees are one, so Trees is not within one either.
LEMMA ManyTrees == ASSUME PipelineConstants, NEW t \in Trees PROVE ~(Trees \subseteq {t})
<1>1. NoTree \in Trees /\ [p \in Paths |-> Importing] \in Trees
  BY DEF PipelineConstants, Trees, NoTree
<1>2. PICK p \in Paths : TRUE
  BY DEF PipelineConstants
<1>3. NoTree[p] # [q \in Paths |-> Importing][p]
  BY <1>2 DEF PipelineConstants, NoTree
<1> QED
  BY <1>1, <1>3

-----------------------------------------------------------------------------
(***************************************************************************)
(* Between runs                                                            *)
(***************************************************************************)

LEMMA PipelineInit == ASSUME PipelineConstants PROVE Init => PipelineInv
<1> SUFFICES ASSUME Init PROVE PipelineInv
  OBVIOUS
<1>1. TypeOK
  BY TreesAre, NoEdges DEF Init, TypeOK, NoRun, Run, Phases, FullDelta, Delta, Edges, Files, EdgesOf
<1>2. ~Busy
  BY DEF Init, NoRun, Busy
<1>3. \A tree \in Trees : Between(tree)
  BY NoEdges DEF Init, Between, Trees
<1> QED
  BY <1>1, <1>2, <1>3 DEF PipelineInv, PlanInv, FactsInv, GraphInv, IdleInv

LEMMA PushStep == ASSUME PipelineInv, Push PROVE PipelineInv'
<1>1. ~Busy /\ ~Busy'
  BY DEF Push, Busy
<1>2. TypeOK'
  BY DEF PipelineInv, Push, TypeOK, Trees, Files
<1>3. IdleInv'
  BY <1>1 DEF PipelineInv, Push, IdleInv, Between, EdgesOf
<1> QED
  BY <1>1, <1>2, <1>3 DEF PipelineInv, PlanInv, FactsInv, GraphInv

LEMMA DeployStep == ASSUME PipelineInv, Deploy PROVE PipelineInv'
<1>1. ~Busy /\ ~Busy'
  BY DEF Deploy, Busy
<1>2. TypeOK'
  BY DEF PipelineInv, Deploy, TypeOK, Files
<1>3. IdleInv'
  BY <1>1 DEF PipelineInv, Deploy, IdleInv, Between, EdgesOf
<1> QED
  BY <1>1, <1>2, <1>3 DEF PipelineInv, PlanInv, FactsInv, GraphInv

-----------------------------------------------------------------------------
(***************************************************************************)
(* A run is planned                                                        *)
(***************************************************************************)

\* What the run is of, and what of it is not in the facts.
LEMMA Planned ==
    ASSUME PipelineConstants, TypeOK, NEW full \in BOOLEAN, NEW skipped \in SUBSET Paths, Start(full, skipped)
    PROVE  /\ run'.current \in Trees /\ run'.save \subseteq Files(run'.current)
           /\ run'.forget \subseteq Paths /\ run'.forget \cap Files(run'.current) = {}
           /\ \A p \in Paths \ (run'.save \cup run'.forget) :
                run'.current[p] = IF full THEN Absent ELSE facts[p]
           /\ full => run'.forget = {} /\ run'.current = Without(head, skipped)
           /\ ~full /\ SoundCache(skipped) => run'.current = Without(head, skipped)
           /\ run'.full = full /\ run'.skipped = skipped
<1> DEFINE prints == IF full THEN NoTree ELSE Fingerprints
           stored == IF full THEN NoTree ELSE facts
           extracted == ToExtract(prints) \ skipped
           current == MergeFacts(stored, extracted, Deleted(prints))
<1>1. /\ run'.current = current /\ run'.save = extracted /\ run'.forget = Deleted(prints)
      /\ run'.full = full /\ run'.skipped = skipped /\ skipped \subseteq ToExtract(prints)
  BY DEF Start
<1>2. prints \in Trees /\ stored \in Trees /\ head \in Trees
  BY TreesAre DEF TypeOK, Fingerprints
<1>3. current \in Trees
  BY <1>2, TreesAre DEF MergeFacts
<1>4. \A p \in Paths : current[p] = IF p \in extracted THEN head[p] ELSE IF p \in Deleted(prints) THEN Absent ELSE stored[p]
  BY <1>2 DEF MergeFacts, Overlay, Without, Trees
<1>5. \A p \in Paths : /\ p \in extracted <=> head[p] # Absent /\ prints[p] # head[p] /\ p \notin skipped
                       /\ p \in Deleted(prints) <=> prints[p] # Absent /\ head[p] = Absent
  BY DEF ToExtract, Deleted, Files
<1>6. extracted \subseteq Files(current) /\ Deleted(prints) \subseteq Paths /\ Deleted(prints) \cap Files(current) = {}
  BY <1>4, <1>5 DEF ToExtract, Deleted, Files
<1>7. \A p \in Paths \ (extracted \cup Deleted(prints)) : current[p] = stored[p] /\ (full => stored[p] = Absent)
  BY <1>4 DEF NoTree
<1>8. ASSUME full PROVE Deleted(prints) = {} /\ current = Without(head, skipped)
  <2>1. Deleted(prints) = {}
    BY <1>8 DEF Deleted, Files, NoTree
  <2>2. \A p \in Paths : current[p] = Without(head, skipped)[p]
    BY <1>4, <1>5, <1>8, <2>1 DEF Without, NoTree
  <2>3. Without(head, skipped) \in Trees
    BY <1>2, TreesAre
  <2> HIDE DEF current, prints
  <2> QED
    BY <1>3, <2>1, <2>2, <2>3, SameTree
<1>9. ASSUME ~full, SoundCache(skipped) PROVE current = Without(head, skipped)
  <2>1. \A p \in Paths : prints[p] = IF p \in old THEN Absent ELSE facts[p]
    BY <1>9 DEF Fingerprints, Without
  <2>2. /\ \A p \in old : head[p] # Absent
        /\ \A p \in Paths : p \in skipped => facts[p] = Absent /\ head[p] # Absent
    BY <1>1, <1>9 DEF SoundCache, Files, ToExtract
  <2>3. \A p \in Paths : current[p] = Without(head, skipped)[p]
    BY <1>4, <1>5, <1>9, <2>1, <2>2 DEF Without
  <2> QED
    BY <1>2, <1>3, <2>3, TreesAre DEF Trees
<1> QED
  BY <1>1, <1>3, <1>6, <1>7, <1>8, <1>9

\* What the run is to write to the graph.
LEMMA Differs ==
    ASSUME PipelineConstants, TypeOK, NEW full \in BOOLEAN, NEW skipped \in SUBSET Paths, Start(full, skipped)
    PROVE  LET tree == run'.current  delta == run'.delta  was == IF full THEN NoTree ELSE facts
           IN /\ delta.upsertNodes = {p \in Files(tree) : was[p] # tree[p]}
              /\ delta.upsertEdges = EdgesOf(tree) \ EdgesOf(was)
              /\ delta.deleteEdges = EdgesOf(was) \ EdgesOf(tree)
              /\ delta.deleteNodes = Files(was) \ Files(tree)
              /\ delta \in Delta
<1> DEFINE was == IF full THEN NoTree ELSE facts
<1>1. was \in Trees /\ run'.current \in Trees
  BY TreesAre, Planned DEF TypeOK
<1>2. run'.delta = IF was = NoTree THEN FullDelta(run'.current) ELSE Diff(was, run'.current)
  BY DEF Start, BuildDelta
<1>3. was = NoTree => {p \in Files(run'.current) : was[p] # run'.current[p]} = Files(run'.current)
  BY DEF Files, NoTree
<1>4. was = NoTree => EdgesOf(was) = {} /\ Files(was) = {}
  BY NoEdges
<1>5. EdgesOf(was) \subseteq Edges /\ EdgesOf(run'.current) \subseteq Edges
      /\ Files(was) \subseteq Paths /\ Files(run'.current) \subseteq Paths
  BY DEF EdgesOf, Files
<1> HIDE DEF was
<1>6. /\ run'.delta.upsertNodes = {p \in Files(run'.current) : was[p] # run'.current[p]}
      /\ run'.delta.upsertEdges = EdgesOf(run'.current) \ EdgesOf(was)
      /\ run'.delta.deleteEdges = EdgesOf(was) \ EdgesOf(run'.current)
      /\ run'.delta.deleteNodes = Files(was) \ Files(run'.current)
  <2>1. CASE was = NoTree
    BY <1>2, <1>3, <1>4, <2>1 DEF FullDelta
  <2>2. CASE was # NoTree
    BY <1>2, <2>2 DEF Diff
  <2> QED
    BY <2>1, <2>2
<1>7. run'.delta \in Delta
  BY <1>2, <1>5 DEF FullDelta, Diff, Delta
<1> QED
  BY <1>6, <1>7 DEF was

LEMMA StartStep ==
    ASSUME PipelineConstants, PipelineInv, NEW full \in BOOLEAN, NEW skipped \in SUBSET Paths, Start(full, skipped)
    PROVE  PipelineInv'
<1> DEFINE T == run'.current
           was == IF full THEN NoTree ELSE facts
<1>1. TypeOK
  BY DEF PipelineInv
<1>2. /\ T \in Trees /\ run'.save \subseteq Files(T) /\ run'.forget \subseteq Paths /\ run'.forget \cap Files(T) = {}
      /\ \A p \in Paths \ (run'.save \cup run'.forget) : T[p] = IF full THEN Absent ELSE facts[p]
      /\ full => run'.forget = {} /\ T = Without(head, skipped)
      /\ ~full /\ SoundCache(skipped) => T = Without(head, skipped)
      /\ run'.full = full /\ run'.skipped = skipped
  BY <1>1, Planned
<1>3. /\ run'.delta.upsertNodes = {p \in Files(T) : was[p] # T[p]}
      /\ run'.delta.upsertEdges = EdgesOf(T) \ EdgesOf(was)
      /\ run'.delta.deleteEdges = EdgesOf(was) \ EdgesOf(T)
      /\ run'.delta.deleteNodes = Files(was) \ Files(T)
      /\ run'.delta \in Delta
  BY <1>1, Differs
<1>4. /\ run.phase = "idle" /\ run'.phase = IF full THEN "wipe" ELSE "nodes"
      /\ run'.trust = Trust(full, skipped, T)
      /\ UNCHANGED <<head, facts, old, nodes, edges, torn, wiped>>
  BY DEF Start
<1>5. was \in Trees /\ facts \in Trees /\ nodes \in Trees
  BY <1>1, TreesAre DEF TypeOK
<1>6. Target' = T /\ Files(Target)' = Files(T) /\ EdgesOf(Target)' = EdgesOf(T) /\ EdgesOf(facts)' = EdgesOf(facts)
  BY <1>4 DEF Target, Files, EdgesOf
<1>7. TypeOK'
  <2>1. run' \in Run
    <3>1. run'.trust \in {"exact", "redo", "none"}
      BY <1>4 DEF Trust
    <3>2. DOMAIN run' = {"phase", "full", "skipped", "current", "delta", "save", "forget", "trust"}
      BY DEF Start
    <3>3. run'.save \subseteq Paths
      BY <1>2 DEF Files
    <3> HIDE DEF T
    <3>4. run' = [phase |-> run'.phase, full |-> run'.full, skipped |-> run'.skipped, current |-> run'.current,
                  delta |-> run'.delta, save |-> run'.save, forget |-> run'.forget, trust |-> run'.trust]
      BY DEF Start
    <3> QED
      BY <1>2, <1>3, <1>4, <3>1, <3>3, <3>4 DEF Run, Phases, T
  <2> QED
    BY <1>1, <1>4, <2>1 DEF TypeOK, Files
<1>8. Trust(full, skipped, T) = "exact" => full \/ (SoundCache(skipped) /\ torn \subseteq {T} /\ ~wiped)
  BY DEF Trust
<1> HIDE DEF T, was
<1>9. PlanInv'
  <2>1. run'.trust = "exact" => T = Without(head, skipped) /\ (full \/ (~wiped /\ torn \subseteq {T}))
    BY <1>2, <1>4, <1>8
  <2> QED
    BY <1>2, <1>3, <1>4, <1>6, <2>1 DEF PlanInv, Knows, Busy
<1>10. FactsInv'
  <2>1. full => Files(T) \subseteq run'.save
    BY <1>2 DEF Files
  <2>2. ASSUME NEW p \in run'.save PROVE p \in run'.delta.upsertNodes \/ (~full /\ facts[p] = T[p])
    <3>1. p \in Files(T) /\ T[p] # Absent /\ p \in Paths
      BY <1>2 DEF Files
    <3>2. full => was[p] # T[p]
      BY <3>1 DEF was, NoTree
    <3>3. ~full => was[p] = facts[p]
      BY DEF was
    <3> QED
      BY <1>3, <3>1, <3>2, <3>3
  <2> QED
    BY <1>2, <1>4, <1>6, <2>1, <2>2 DEF FactsInv, Busy
<1>11. GraphInv'
  <2>1. CASE full
    <3>1. Files(T) \subseteq run'.delta.upsertNodes
      BY <1>3, <2>1 DEF Files, was, NoTree
    <3>2. EdgesOf(T) \subseteq run'.delta.upsertEdges
      BY <1>3, <2>1, NoEdges DEF was
    <3> QED
      BY <1>2, <1>4, <1>6, <2>1, <3>1, <3>2 DEF GraphInv, Knows, Busy
  <2>2. CASE ~full
    <3> SUFFICES ASSUME ~wiped, torn \subseteq {T} PROVE GraphInv'
      BY <1>2, <1>4, <1>6, <2>2 DEF GraphInv, Knows
    <3>1. Between(T)
      BY <1>2, <1>4 DEF PipelineInv, IdleInv, Busy
    <3>2. was = facts
      BY <2>2 DEF was
    <3>3. \A p \in Paths : nodes[p] = T[p] \/ p \in run'.delta.upsertNodes \cup run'.delta.deleteNodes
      BY <1>3, <3>1, <3>2 DEF Between, Files
    <3>4. EdgesOf(T) \subseteq edges \cup run'.delta.upsertEdges /\ edges \subseteq EdgesOf(T) \cup run'.delta.deleteEdges
      BY <1>3, <3>1, <3>2 DEF Between
    <3>5. Between(Target)'
      BY <1>4, <1>6, <3>1 DEF Between
    <3> QED
      BY <1>4, <1>6, <2>2, <3>3, <3>4, <3>5 DEF GraphInv
  <2> QED
    BY <2>1, <2>2
<1>12. IdleInv'
  BY <1>4 DEF IdleInv, Busy
<1> QED
  BY <1>7, <1>9, <1>10, <1>11, <1>12 DEF PipelineInv

-----------------------------------------------------------------------------
(***************************************************************************)
(* The run writes                                                          *)
(***************************************************************************)

LEMMA WipeStep == ASSUME PipelineConstants, PipelineInv, Wipe PROVE PipelineInv'
<1>1. TypeOK /\ Busy /\ run.full /\ run.phase = "wipe"
  BY DEF PipelineInv, PlanInv, Wipe, Busy
<1>2. /\ run' = [run EXCEPT !.phase = "nodes"] /\ nodes' = NoTree /\ edges' = {}
      /\ UNCHANGED <<head, facts, old, torn, wiped>>
  BY DEF Wipe
<1>3. /\ run'.phase = "nodes" /\ run'.full = run.full /\ run'.skipped = run.skipped /\ run'.current = run.current
      /\ run'.delta = run.delta /\ run'.save = run.save /\ run'.forget = run.forget /\ run'.trust = run.trust
      /\ run' \in Run
  BY <1>1, <1>2 DEF TypeOK, Run, Phases
<1>4. TypeOK'
  BY <1>1, <1>2, <1>3, TreesAre DEF TypeOK, Files
<1>5. Target' = Target /\ Files(Target)' = Files(Target) /\ EdgesOf(Target)' = EdgesOf(Target) /\ Busy'
  BY <1>3 DEF Target, Files, EdgesOf, Busy
<1>6. PlanInv'
  BY <1>1, <1>2, <1>3, <1>5 DEF PipelineInv, PlanInv, Knows
<1>7. FactsInv'
  BY <1>1, <1>2, <1>3, <1>5 DEF PipelineInv, FactsInv, PlanInv, Files
<1>8. GraphInv'
  <2>1. Files(Target) \subseteq run.delta.upsertNodes /\ EdgesOf(Target) \subseteq run.delta.upsertEdges
    BY <1>1 DEF PipelineInv, GraphInv, Knows
  <2>2. \A p \in Paths : nodes'[p] = Target[p] \/ p \in run.delta.upsertNodes
    BY <1>2, <2>1 DEF Files, NoTree
  <2> QED
    BY <1>1, <1>2, <1>3, <1>5, <2>1, <2>2 DEF GraphInv
<1>9. IdleInv'
  BY <1>5 DEF IdleInv
<1> QED
  BY <1>4, <1>6, <1>7, <1>8, <1>9 DEF PipelineInv

LEMMA UpsertNodeStep == ASSUME PipelineConstants, PipelineInv, NEW p \in Paths, UpsertNode(p) PROVE PipelineInv'
<1>1. TypeOK /\ Busy /\ run.phase = "nodes" /\ p \in run.delta.upsertNodes
  BY DEF PipelineInv, UpsertNode, Busy
<1>2. /\ run' = [run EXCEPT !.delta.upsertNodes = @ \ {p}] /\ nodes' = [nodes EXCEPT ![p] = Target[p]]
      /\ UNCHANGED <<head, facts, old, edges, torn, wiped>>
  BY DEF UpsertNode, Target
<1>3. /\ run'.phase = run.phase /\ run'.full = run.full /\ run'.skipped = run.skipped /\ run'.current = run.current
      /\ run'.save = run.save /\ run'.forget = run.forget /\ run'.trust = run.trust
      /\ run'.delta.upsertNodes = run.delta.upsertNodes \ {p} /\ run'.delta.upsertEdges = run.delta.upsertEdges
      /\ run'.delta.deleteEdges = run.delta.deleteEdges /\ run'.delta.deleteNodes = run.delta.deleteNodes
      /\ run' \in Run
  BY <1>1, <1>2 DEF TypeOK, Run, Delta
<1>4. Target \in Trees /\ nodes \in Trees /\ Target[p] # Absent
  BY <1>1, OfRun DEF PipelineInv, PlanInv, TypeOK, Target, Files
<1>5. nodes' \in Trees /\ nodes'[p] = Target[p] /\ \A q \in Paths \ {p} : nodes'[q] = nodes[q]
  BY <1>2, <1>4 DEF Trees
<1>6. TypeOK'
  <2>1. Files(nodes) \subseteq Files(nodes')
    BY <1>4, <1>5 DEF Files
  <2> QED
    BY <1>1, <1>2, <1>3, <1>5, <2>1 DEF TypeOK, Files
<1>7. Target' = Target /\ Files(Target)' = Files(Target) /\ EdgesOf(Target)' = EdgesOf(Target) /\ Busy'
      /\ EdgesOf(facts)' = EdgesOf(facts)
  BY <1>1, <1>2, <1>3 DEF Target, Files, EdgesOf, Busy
<1>8. PlanInv'
  BY <1>1, <1>2, <1>3, <1>7 DEF PipelineInv, PlanInv, Knows
<1>9. FactsInv'
  BY <1>1, <1>2, <1>3, <1>5, <1>7 DEF PipelineInv, FactsInv, PlanInv, Files
<1>10. GraphInv'
  BY <1>1, <1>2, <1>3, <1>5, <1>7 DEF PipelineInv, GraphInv, Knows, Between
<1>11. IdleInv'
  BY <1>7 DEF IdleInv
<1> QED
  BY <1>6, <1>8, <1>9, <1>10, <1>11 DEF PipelineInv

LEMMA UpsertEdgeStep == ASSUME PipelineConstants, PipelineInv, NEW e \in Edges, UpsertEdge(e) PROVE PipelineInv'
<1>1. TypeOK /\ Busy /\ run.phase = "edges" /\ e \in run.delta.upsertEdges /\ e \in EdgesOf(Target)
  BY DEF PipelineInv, PlanInv, UpsertEdge, Busy
<1>2. /\ run' = [run EXCEPT !.delta.upsertEdges = @ \ {e}]
      /\ edges' = IF {e[1], e[2]} \subseteq Files(nodes) THEN edges \cup {e} ELSE edges
      /\ UNCHANGED <<head, facts, old, nodes, torn, wiped>>
  BY DEF UpsertEdge
<1>3. /\ run'.phase = run.phase /\ run'.full = run.full /\ run'.skipped = run.skipped /\ run'.current = run.current
      /\ run'.save = run.save /\ run'.forget = run.forget /\ run'.trust = run.trust
      /\ run'.delta.upsertNodes = run.delta.upsertNodes /\ run'.delta.upsertEdges = run.delta.upsertEdges \ {e}
      /\ run'.delta.deleteEdges = run.delta.deleteEdges /\ run'.delta.deleteNodes = run.delta.deleteNodes
      /\ run' \in Run
  BY <1>1, <1>2 DEF TypeOK, Run, Delta
<1>4. Target \in Trees /\ e[1] \in Files(Target) /\ e[2] \in Files(Target)
  BY <1>1, OfRun, EdgeEnds DEF Target
<1>5. TypeOK'
  BY <1>1, <1>2, <1>3 DEF TypeOK, Files
<1>6. Target' = Target /\ Files(Target)' = Files(Target) /\ EdgesOf(Target)' = EdgesOf(Target) /\ Busy'
      /\ EdgesOf(facts)' = EdgesOf(facts)
  BY <1>1, <1>2, <1>3 DEF Target, Files, EdgesOf, Busy
<1>7. PlanInv'
  BY <1>1, <1>2, <1>3, <1>6 DEF PipelineInv, PlanInv, Knows
<1>8. FactsInv'
  BY <1>1, <1>2, <1>3, <1>6 DEF PipelineInv, FactsInv
<1>9. GraphInv'
  <2> SUFFICES ASSUME Knows PROVE GraphInv'
    BY <1>2, <1>3, <1>6 DEF GraphInv, Knows
  <2>1. edges' = edges \cup {e}
    <3>1. \A p \in Files(Target) : p \in Paths /\ nodes[p] = Target[p]
      BY <1>1 DEF PipelineInv, GraphInv, PlanInv, Files
    <3> QED
      BY <1>2, <1>4, <3>1 DEF Files
  <2> QED
    BY <1>1, <1>2, <1>3, <1>6, <2>1 DEF PipelineInv, GraphInv, Between
<1>10. IdleInv'
  BY <1>6 DEF IdleInv
<1> QED
  BY <1>5, <1>7, <1>8, <1>9, <1>10 DEF PipelineInv

LEMMA DeleteEdgeStep == ASSUME PipelineConstants, PipelineInv, NEW e \in Edges, DeleteEdge(e) PROVE PipelineInv'
<1>1. TypeOK /\ Busy /\ run.phase = "unlink" /\ e \in run.delta.deleteEdges /\ e \notin EdgesOf(Target)
  BY DEF PipelineInv, PlanInv, DeleteEdge, Busy
<1>2. /\ run' = [run EXCEPT !.delta.deleteEdges = @ \ {e}] /\ edges' = edges \ {e}
      /\ UNCHANGED <<head, facts, old, nodes, torn, wiped>>
  BY DEF DeleteEdge
<1>3. /\ run'.phase = run.phase /\ run'.full = run.full /\ run'.skipped = run.skipped /\ run'.current = run.current
      /\ run'.save = run.save /\ run'.forget = run.forget /\ run'.trust = run.trust
      /\ run'.delta.upsertNodes = run.delta.upsertNodes /\ run'.delta.upsertEdges = run.delta.upsertEdges
      /\ run'.delta.deleteEdges = run.delta.deleteEdges \ {e} /\ run'.delta.deleteNodes = run.delta.deleteNodes
      /\ run' \in Run
  BY <1>1, <1>2 DEF TypeOK, Run, Delta
<1>4. TypeOK'
  BY <1>1, <1>2, <1>3 DEF TypeOK, Files
<1>5. Target' = Target /\ Files(Target)' = Files(Target) /\ EdgesOf(Target)' = EdgesOf(Target) /\ Busy'
      /\ EdgesOf(facts)' = EdgesOf(facts)
  BY <1>1, <1>2, <1>3 DEF Target, Files, EdgesOf, Busy
<1>6. PlanInv'
  BY <1>1, <1>2, <1>3, <1>5 DEF PipelineInv, PlanInv, Knows
<1>7. FactsInv'
  BY <1>1, <1>2, <1>3, <1>5 DEF PipelineInv, FactsInv
<1>8. GraphInv'
  BY <1>1, <1>2, <1>3, <1>5 DEF PipelineInv, GraphInv, Knows, Between
<1>9. IdleInv'
  BY <1>5 DEF IdleInv
<1> QED
  BY <1>4, <1>6, <1>7, <1>8, <1>9 DEF PipelineInv

LEMMA DeleteNodeStep == ASSUME PipelineConstants, PipelineInv, NEW p \in Paths, DeleteNode(p) PROVE PipelineInv'
<1>1. TypeOK /\ Busy /\ run.phase = "drop" /\ p \in run.delta.deleteNodes /\ p \notin Files(Target)
  BY DEF PipelineInv, PlanInv, DeleteNode, Busy
<1>2. /\ run' = [run EXCEPT !.delta.deleteNodes = @ \ {p}] /\ nodes' = [nodes EXCEPT ![p] = Absent]
      /\ edges' = {e \in edges : p \notin {e[1], e[2]}}
      /\ UNCHANGED <<head, facts, old, torn, wiped>>
  BY DEF DeleteNode
<1>3. /\ run'.phase = run.phase /\ run'.full = run.full /\ run'.skipped = run.skipped /\ run'.current = run.current
      /\ run'.save = run.save /\ run'.forget = run.forget /\ run'.trust = run.trust
      /\ run'.delta.upsertNodes = run.delta.upsertNodes /\ run'.delta.upsertEdges = run.delta.upsertEdges
      /\ run'.delta.deleteEdges = run.delta.deleteEdges /\ run'.delta.deleteNodes = run.delta.deleteNodes \ {p}
      /\ run' \in Run
  BY <1>1, <1>2 DEF TypeOK, Run, Delta
<1>4. Target \in Trees /\ nodes \in Trees /\ Target[p] = Absent
  BY <1>1, OfRun DEF TypeOK, Target, Files
<1>5. nodes' \in Trees /\ nodes'[p] = Absent /\ \A q \in Paths \ {p} : nodes'[q] = nodes[q]
  BY <1>2, <1>4 DEF Trees
<1>6. TypeOK'
  <2>1. edges' \subseteq {e \in Edges : {e[1], e[2]} \subseteq Files(nodes')}
    BY <1>1, <1>2, <1>5 DEF TypeOK, Files
  <2> QED
    BY <1>1, <1>2, <1>3, <1>5, <2>1 DEF TypeOK, Files
<1>7. Target' = Target /\ Files(Target)' = Files(Target) /\ EdgesOf(Target)' = EdgesOf(Target) /\ Busy'
      /\ EdgesOf(facts)' = EdgesOf(facts)
  BY <1>1, <1>2, <1>3 DEF Target, Files, EdgesOf, Busy
<1>8. PlanInv'
  BY <1>1, <1>2, <1>3, <1>7 DEF PipelineInv, PlanInv, Knows
<1>9. FactsInv'
  BY <1>1, <1>2, <1>3, <1>5, <1>7 DEF PipelineInv, FactsInv, PlanInv, Files
<1>10. GraphInv'
  <2>1. \A e \in EdgesOf(Target) : e \in edges => e \in edges'
    BY <1>1, <1>2, <1>4, EdgeEnds
  <2> QED
    BY <1>1, <1>2, <1>3, <1>4, <1>5, <1>7, <2>1 DEF PipelineInv, GraphInv, Knows, Between
<1>11. IdleInv'
  BY <1>7 DEF IdleInv
<1> QED
  BY <1>6, <1>8, <1>9, <1>10, <1>11 DEF PipelineInv

LEMMA NextStageStep == ASSUME PipelineConstants, PipelineInv, NextStage PROVE PipelineInv'
<1>1. TypeOK
  BY DEF PipelineInv
<1>2. /\ run' = [run EXCEPT !.phase = Following] /\ Following # run.phase
      /\ UNCHANGED <<head, facts, old, nodes, edges, torn, wiped>>
  BY DEF NextStage
<1>3. \/ run.phase = "nodes" /\ run.delta.upsertNodes = {} /\ Following = "edges"
      \/ run.phase = "edges" /\ run.delta.upsertEdges = {} /\ Following = "unlink"
      \/ run.phase = "unlink" /\ run.delta.deleteEdges = {} /\ Following = "drop"
      \/ run.phase = "drop" /\ run.delta.deleteNodes = {} /\ Following = IF run.full THEN "clear" ELSE "save"
  BY <1>2 DEF Following
<1>4. /\ run'.phase = Following /\ run'.full = run.full /\ run'.skipped = run.skipped /\ run'.current = run.current
      /\ run'.delta = run.delta /\ run'.save = run.save /\ run'.forget = run.forget /\ run'.trust = run.trust
      /\ run' \in Run
  BY <1>1, <1>2, <1>3 DEF TypeOK, Run, Phases
<1>5. TypeOK'
  BY <1>1, <1>2, <1>4 DEF TypeOK, Files
<1>6. Busy /\ Busy' /\ Target' = Target /\ Files(Target)' = Files(Target) /\ EdgesOf(Target)' = EdgesOf(Target)
      /\ EdgesOf(facts)' = EdgesOf(facts)
  BY <1>2, <1>3, <1>4 DEF Target, Files, EdgesOf, Busy
<1>7. PlanInv'
  BY <1>1, <1>2, <1>3, <1>4, <1>6 DEF PipelineInv, PlanInv, Knows
<1>8. FactsInv'
  BY <1>1, <1>2, <1>3, <1>4, <1>6 DEF PipelineInv, FactsInv
<1>9. GraphInv'
  BY <1>1, <1>2, <1>3, <1>4, <1>6 DEF PipelineInv, GraphInv, Knows, Between
<1>10. IdleInv'
  BY <1>6 DEF IdleInv
<1> QED
  BY <1>5, <1>7, <1>8, <1>9, <1>10 DEF PipelineInv

LEMMA ClearFactsStep == ASSUME PipelineConstants, PipelineInv, ClearFacts PROVE PipelineInv'
<1>1. TypeOK /\ Busy /\ run.phase = "clear" /\ run.full
  BY DEF PipelineInv, PlanInv, ClearFacts, Busy
<1>2. /\ run' = [run EXCEPT !.phase = "save"] /\ facts' = NoTree /\ old' = {}
      /\ UNCHANGED <<head, nodes, edges, torn, wiped>>
  BY DEF ClearFacts
<1>3. /\ run'.phase = "save" /\ run'.full = run.full /\ run'.skipped = run.skipped /\ run'.current = run.current
      /\ run'.delta = run.delta /\ run'.save = run.save /\ run'.forget = run.forget /\ run'.trust = run.trust
      /\ run' \in Run
  BY <1>1, <1>2 DEF TypeOK, Run, Phases
<1>4. TypeOK'
  BY <1>1, <1>2, <1>3, TreesAre DEF TypeOK, Files
<1>5. Target' = Target /\ Files(Target)' = Files(Target) /\ EdgesOf(Target)' = EdgesOf(Target) /\ Busy'
  BY <1>3 DEF Target, Files, EdgesOf, Busy
<1>6. PlanInv'
  BY <1>1, <1>2, <1>3, <1>5 DEF PipelineInv, PlanInv, Knows
<1>7. FactsInv'
  <2>1. \A p \in Paths \ run.save : facts'[p] = Target[p]
    BY <1>1, <1>2 DEF PipelineInv, FactsInv, NoTree, Files
  <2> QED
    BY <1>1, <1>2, <1>3, <1>5, <2>1 DEF PipelineInv, FactsInv
<1>8. GraphInv'
  BY <1>1, <1>2, <1>3, <1>5 DEF PipelineInv, GraphInv, Knows
<1>9. IdleInv'
  BY <1>5 DEF IdleInv
<1> QED
  BY <1>4, <1>6, <1>7, <1>8, <1>9 DEF PipelineInv

\* What is in the graph of a run that knows it, once it has been written.
LEMMA Written ==
    ASSUME PipelineInv, run.phase \in {"save", "done"}, Knows
    PROVE  (\A p \in Paths : nodes[p] = Target[p]) /\ edges = EdgesOf(Target)
BY DEF PipelineInv, PlanInv, GraphInv, Busy

LEMMA SaveFactsStep == ASSUME PipelineConstants, PipelineInv, NEW p \in Paths, SaveFacts(p) PROVE PipelineInv'
<1>1. TypeOK /\ Busy /\ run.phase = "save" /\ p \in run.save
  BY DEF PipelineInv, SaveFacts, Busy
<1>2. /\ run' = [run EXCEPT !.save = @ \ {p}] /\ facts' = [facts EXCEPT ![p] = Target[p]] /\ old' = old \ {p}
      /\ UNCHANGED <<head, nodes, edges, torn, wiped>>
  BY DEF SaveFacts, Target
<1>3. /\ run'.phase = run.phase /\ run'.full = run.full /\ run'.skipped = run.skipped /\ run'.current = run.current
      /\ run'.delta = run.delta /\ run'.save = run.save \ {p} /\ run'.forget = run.forget /\ run'.trust = run.trust
      /\ run' \in Run
  BY <1>1, <1>2 DEF TypeOK, Run
<1>4. Target \in Trees /\ facts \in Trees
  BY <1>1, OfRun DEF TypeOK, Target
<1>5. facts' \in Trees /\ facts'[p] = Target[p] /\ \A q \in Paths \ {p} : facts'[q] = facts[q]
  BY <1>2, <1>4 DEF Trees
<1>6. TypeOK'
  BY <1>1, <1>2, <1>3, <1>5 DEF TypeOK, Files
<1>7. Target' = Target /\ Files(Target)' = Files(Target) /\ EdgesOf(Target)' = EdgesOf(Target) /\ Busy'
  BY <1>1, <1>3 DEF Target, Files, EdgesOf, Busy
<1>8. PlanInv'
  BY <1>1, <1>2, <1>3, <1>7 DEF PipelineInv, PlanInv, Knows
<1>9. FactsInv'
  BY <1>1, <1>2, <1>3, <1>5, <1>7 DEF PipelineInv, FactsInv
<1>10. GraphInv'
  <2> SUFFICES ASSUME Knows PROVE GraphInv'
    BY <1>2, <1>3, <1>7 DEF GraphInv, Knows
  <2>1. Between(Target)'
    BY <1>1, <1>2, <1>7, Written DEF Between
  <2> QED
    BY <1>1, <1>2, <1>3, <1>7, <2>1 DEF PipelineInv, GraphInv
<1>11. IdleInv'
  BY <1>7 DEF IdleInv
<1> QED
  BY <1>6, <1>8, <1>9, <1>10, <1>11 DEF PipelineInv

LEMMA ForgetFactsStep == ASSUME PipelineConstants, PipelineInv, ForgetFacts PROVE PipelineInv'
<1>1. TypeOK /\ Busy /\ run.phase = "save" /\ run.save = {}
  BY DEF PipelineInv, ForgetFacts, Busy
<1>2. /\ run' = [run EXCEPT !.phase = "done"] /\ facts' = Without(facts, run.forget) /\ old' = old \ run.forget
      /\ UNCHANGED <<head, nodes, edges, torn, wiped>>
  BY DEF ForgetFacts
<1>3. /\ run'.phase = "done" /\ run'.full = run.full /\ run'.skipped = run.skipped /\ run'.current = run.current
      /\ run'.delta = run.delta /\ run'.save = run.save /\ run'.forget = run.forget /\ run'.trust = run.trust
      /\ run' \in Run
  BY <1>1, <1>2 DEF TypeOK, Run, Phases
<1>4. Target \in Trees /\ facts \in Trees /\ facts' \in Trees
  BY <1>1, <1>2, OfRun, TreesAre DEF TypeOK, Target
<1>5. facts' = Target
  <2>1. \A p \in Paths : facts'[p] = Target[p]
    BY <1>1, <1>2 DEF PipelineInv, FactsInv, PlanInv, Without, Files
  <2> QED
    BY <1>4, <2>1, SameTree
<1>6. TypeOK'
  <2>1. old' \subseteq Files(facts')
    BY <1>1, <1>2 DEF TypeOK, Files, Without
  <2> QED
    BY <1>1, <1>2, <1>3, <1>4, <2>1 DEF TypeOK, Files
<1>7. Target' = Target /\ Files(Target)' = Files(Target) /\ EdgesOf(Target)' = EdgesOf(Target) /\ Busy'
  BY <1>3 DEF Target, Files, EdgesOf, Busy
<1>8. PlanInv'
  BY <1>1, <1>2, <1>3, <1>7 DEF PipelineInv, PlanInv, Knows
<1>9. FactsInv'
  BY <1>1, <1>2, <1>3, <1>5, <1>7 DEF PipelineInv, FactsInv
<1>10. GraphInv'
  <2> SUFFICES ASSUME Knows PROVE GraphInv'
    BY <1>2, <1>3, <1>7 DEF GraphInv, Knows
  <2>1. Between(Target)'
    BY <1>1, <1>2, <1>5, <1>7, Written DEF Between
  <2> QED
    BY <1>1, <1>2, <1>3, <1>7, <2>1 DEF PipelineInv, GraphInv
<1>11. IdleInv'
  BY <1>7 DEF IdleInv
<1> QED
  BY <1>6, <1>8, <1>9, <1>10, <1>11 DEF PipelineInv

-----------------------------------------------------------------------------
(***************************************************************************)
(* The run is over                                                         *)
(***************************************************************************)

LEMMA Idles ==
    ASSUME TypeOK, run' = NoRun, UNCHANGED <<head, facts, old, nodes, edges>>,
           torn' \subseteq Trees, wiped' \in BOOLEAN, IdleInv'
    PROVE  PipelineInv'
<1>1. NoRun \in Run /\ NoRun.phase = "idle"
  BY TreesAre DEF NoRun, Run, Phases, FullDelta, Delta, Edges, Files, EdgesOf, NoTree
<1>2. TypeOK'
  BY <1>1 DEF TypeOK, Files
<1>3. ~Busy'
  BY <1>1 DEF Busy
<1> QED
  BY <1>2, <1>3 DEF PipelineInv, PlanInv, FactsInv, GraphInv

LEMMA FinishStep == ASSUME PipelineConstants, PipelineInv, Finish PROVE PipelineInv'
<1>1. TypeOK /\ Busy /\ run.phase = "done"
  BY DEF PipelineInv, Finish, Busy
<1>2. /\ torn' = (IF run.trust = "exact" THEN {} ELSE Trees) /\ wiped' = (wiped /\ run.trust # "exact")
      /\ run' = NoRun /\ UNCHANGED <<head, facts, old, nodes, edges>>
  BY DEF Finish
<1>3. IdleInv'
  <2> SUFFICES ASSUME NEW tree \in Trees, torn' \subseteq {tree} PROVE Between(tree)'
    BY DEF IdleInv, Trees
  <2>1. run.trust = "exact"
    BY <1>2, ManyTrees
  <2>2. facts = Target /\ (\A p \in Paths : nodes[p] = Target[p]) /\ edges = EdgesOf(Target)
    BY <1>1, <2>1, Written DEF PipelineInv, PlanInv, FactsInv
  <2> QED
    BY <1>2, <2>2 DEF Between, EdgesOf
<1> QED
  BY <1>1, <1>2, <1>3, Idles DEF TypeOK

LEMMA CrashStep == ASSUME PipelineConstants, PipelineInv, Crash PROVE PipelineInv'
<1>1. TypeOK /\ Busy
  BY DEF PipelineInv, Crash, Busy
<1>2. /\ torn' = (IF torn \subseteq {Target} THEN {Target} ELSE Trees) /\ wiped' = (wiped \/ run.full)
      /\ run' = NoRun /\ UNCHANGED <<head, facts, old, nodes, edges>>
  BY DEF Crash, Target
<1>3. Target \in Trees /\ run.full \in BOOLEAN
  BY <1>1, OfRun DEF Target
<1>4. IdleInv'
  <2> SUFFICES ASSUME NEW tree \in Trees, ~wiped', torn' \subseteq {tree} PROVE Between(tree)'
    BY DEF IdleInv, Trees
  <2>1. torn \subseteq {Target} /\ tree = Target
    BY <1>2, ManyTrees
  <2>2. Between(Target)
    BY <1>1, <1>2, <2>1 DEF PipelineInv, GraphInv, Knows
  <2> QED
    BY <1>2, <2>1, <2>2 DEF Between, EdgesOf
<1> QED
  BY <1>1, <1>2, <1>3, <1>4, Idles DEF TypeOK

LEMMA PipelineStutters == ASSUME PipelineInv, UNCHANGED vars PROVE PipelineInv'
BY DEF vars, PipelineInv, TypeOK, Files, PlanInv, FactsInv, GraphInv, IdleInv, Busy, Target, Knows, Between, EdgesOf, Without

LEMMA PipelineStep == ASSUME PipelineConstants, PipelineInv, [Next]_vars PROVE PipelineInv'
<1>1. CASE \E full \in BOOLEAN, skipped \in SUBSET Paths : Start(full, skipped)
  BY <1>1, StartStep
<1>2. CASE Push \/ Deploy \/ Wipe \/ NextStage \/ ClearFacts \/ ForgetFacts \/ Finish \/ Crash
  BY <1>2, PushStep, DeployStep, WipeStep, NextStageStep, ClearFactsStep, ForgetFactsStep, FinishStep, CrashStep
<1>3. CASE \E p \in Paths : UpsertNode(p) \/ DeleteNode(p) \/ SaveFacts(p)
  BY <1>3, UpsertNodeStep, DeleteNodeStep, SaveFactsStep
<1>4. CASE \E e \in Edges : UpsertEdge(e) \/ DeleteEdge(e)
  BY <1>4, UpsertEdgeStep, DeleteEdgeStep
<1>5. CASE UNCHANGED vars
  BY <1>5, PipelineStutters
<1> QED
  BY <1>1, <1>2, <1>3, <1>4, <1>5 DEF Next

-----------------------------------------------------------------------------
(***************************************************************************)
(* What it shows                                                           *)
(***************************************************************************)

LEMMA PipelineInvSuffices == PipelineInv => TypeOK /\ CompletedRunMirrors
<1> SUFFICES ASSUME PipelineInv, run.phase = "done", run.trust = "exact" PROVE Mirrors(Without(head, run.skipped))
  BY DEF PipelineInv, CompletedRunMirrors
<1>1. Target = Without(head, run.skipped) /\ Knows /\ facts = Target
  BY DEF PipelineInv, PlanInv, FactsInv, Busy
<1>2. nodes = Target
  BY <1>1, Written, OfRun, SameTree DEF PipelineInv, TypeOK, Target
<1> QED
  BY <1>1, <1>2, Written DEF Mirrors

\* pipeline.py, sync_plan.py, diff.py: whatever was pushed, skipped or interrupted
\* before, a run that completes leaves the graph, its edges and the facts those of the
\* tree it read, if it was a full one or knew what the graph held.
THEOREM PipelineMirrors == ASSUME PipelineConstants PROVE Spec => [](TypeOK /\ CompletedRunMirrors)
<1>1. Init => PipelineInv
  BY PipelineInit
<1>2. PipelineInv /\ [Next]_vars => PipelineInv'
  BY PipelineStep
<1> QED
  BY <1>1, <1>2, PipelineInvSuffices, PTL DEF Spec

LEMMA OnlySavesStore ==
    ASSUME PipelineInv, [Next]_vars, NEW p \in Paths, facts'[p] \notin {facts[p], Absent}
    PROVE  SaveFacts(p)
<1>1. CASE \E full \in BOOLEAN, skipped \in SUBSET Paths : Start(full, skipped)
  BY <1>1 DEF Start
<1>2. CASE Push \/ Deploy \/ Wipe \/ NextStage \/ Finish \/ Crash \/ UNCHANGED vars
  BY <1>2 DEF Push, Deploy, Wipe, NextStage, Finish, Crash, vars
<1>3. CASE ClearFacts \/ ForgetFacts
  BY <1>3 DEF ClearFacts, ForgetFacts, NoTree, Without
<1>4. CASE \E q \in Paths : UpsertNode(q) \/ DeleteNode(q)
  BY <1>4 DEF UpsertNode, DeleteNode
<1>5. CASE \E e \in Edges : UpsertEdge(e) \/ DeleteEdge(e)
  BY <1>5 DEF UpsertEdge, DeleteEdge
<1>6. CASE \E q \in Paths : SaveFacts(q)
  <2>1. PICK q \in Paths : SaveFacts(q)
    BY <1>6
  <2>2. facts \in Trees /\ facts' = [facts EXCEPT ![q] = run.current[q]]
    BY <2>1 DEF SaveFacts, PipelineInv, TypeOK
  <2>3. q = p
    BY <2>2 DEF Trees
  <2> QED
    BY <2>1, <2>3
<1> QED
  BY <1>1, <1>2, <1>3, <1>4, <1>5, <1>6 DEF Next

\* A file's facts are stored when the graph has that content of it: so is what is to be
\* saved once the graph's stages are over, or it was in the facts before.
LEMMA SavesAreShown ==
    ASSUME PipelineInv, [Next]_vars, NEW p \in Paths, facts'[p] \notin {facts[p], Absent}
    PROVE  nodes[p] = facts'[p]
<1>1. run.phase = "save" /\ p \in run.save /\ facts' = [facts EXCEPT ![p] = Target[p]]
  BY OnlySavesStore DEF SaveFacts, Target
<1>2. facts'[p] = Target[p]
  BY <1>1 DEF PipelineInv, TypeOK, Trees
<1>3. nodes[p] = Target[p] \/ facts[p] = Target[p]
  BY <1>1 DEF PipelineInv, PlanInv, FactsInv, Busy
<1> QED
  BY <1>2, <1>3

THEOREM GraphComesFirst == ASSUME PipelineConstants PROVE Spec => GraphBeforeFacts
<1>1. Init => PipelineInv
  BY PipelineInit
<1>2. PipelineInv /\ [Next]_vars => PipelineInv'
  BY PipelineStep
<1>3. PipelineInv /\ [Next]_vars => [\A p \in Paths : facts'[p] \notin {facts[p], Absent} => nodes[p] = facts'[p]]_facts
  BY SavesAreShown
<1> QED
  BY <1>1, <1>2, <1>3, PTL DEF Spec, GraphBeforeFacts

-----------------------------------------------------------------------------
(***************************************************************************)
(* Suggestions: what the tasks know of each other                          *)
(***************************************************************************)

Drafts == INSTANCE Suggestions

\* Texts are numbered as they are written, there is a first, and they say passages.
DraftConstants ==
    /\ Texts \subseteq Nat /\ None \notin Texts
    /\ \E x \in Texts : \A y \in Texts : x <= y
    /\ \A x \in Texts : Says[x] \subseteq Passages

Cited == Sources \X Passages
Readings == UNION {[R -> Texts] : R \in SUBSET Sources}
DraftLocal ==
    [pc : {"idle", "claim", "look", "scans", "decisions", "draft", "create", "finish", "release", "drop"},
     src : Sources \cup {None}, x : Texts \cup {None}, sources : Readings,
     known : SUBSET Cited, marks : SUBSET Cited, said : SUBSET Cited]
Drafted == [quotes : SUBSET Cited, src : Sources, again : SUBSET Cited]

DraftTypes ==
    /\ text \in [Sources -> Texts \cup {None}]
    /\ scan \in [Sources -> [lease : {"free", "held", "lapsed"}, fp : Texts \cup {None}, dismissed : SUBSET Passages]]
    /\ dec \in [Ids -> Drafted \cup {None}]
    /\ task \in [Tasks -> DraftLocal]
    /\ dismissed \subseteq Cited /\ finished \subseteq Sources \X Texts /\ overtaken \subseteq Sources

Asks(t) == task[t].pc \notin {"idle", "drop"}
Holds(t) == task[t].pc \notin {"idle", "claim", "drop"}
UpTo(s, x) == text[s] = None \/ x <= text[s]
Recorded == {m \in Cited : m[2] \in scan[m[1]].dismissed}

\* A suggest has a text that its source had; it read that source, and marks only
\* what it does not know.
TaskInv(t) ==
    /\ Asks(t) => task[t].src \in Sources /\ task[t].x \in Texts /\ UpTo(task[t].src, task[t].x)
    /\ task[t].pc \in {"scans", "decisions", "draft", "create"} => task[t].src \in DOMAIN task[t].sources
    /\ task[t].pc = "create" =>
         /\ task[t].marks \cap task[t].known = {}
         /\ \A m \in task[t].marks : m[1] \in DOMAIN task[t].sources
    /\ task[t].pc = "drop" => task[t].known \ task[t].marks \subseteq Recorded

\* It knows what had been dismissed from what it read when it took its lease.
SaidInv(t) ==
    /\ Holds(t) => task[t].said \subseteq dismissed
    /\ task[t].pc \in {"decisions", "draft", "create"} =>
         \A m \in task[t].said : m[1] \in DOMAIN task[t].sources => m \in task[t].known

\* The lease is one suggest's; its text is no older than what was drafted from, and
\* is not that from Look on; and it knows what decisions quote of its source.
LeaseInv(t) ==
    /\ Holds(t) => /\ scan[task[t].src].lease = "held"
                   /\ \A u \in Tasks : Holds(u) /\ task[u].src = task[t].src => u = t
    /\ Holds(t) /\ task[t].pc # "release" /\ task[t].src \notin overtaken =>
         scan[task[t].src].fp = None \/ scan[task[t].src].fp <= task[t].x
    /\ task[t].pc \in {"scans", "decisions"} => scan[task[t].src].fp # task[t].x
    /\ task[t].pc \in {"draft", "create"} =>
         \A i \in Ids : dec[i] # None /\ dec[i].src = task[t].src =>
             \A m \in dec[i].quotes : m[1] = task[t].src => m \in task[t].known

\* What was drafted from is no newer than the source, and the last of it is on record.
FinishedInv ==
    /\ \A f \in finished : UpTo(f[1], f[2])
    /\ \A s \in Sources : scan[s].fp # None => UpTo(s, scan[s].fp)
    /\ ~SlowRuns => \A f \in finished : f[1] \notin overtaken => scan[f[1]].fp # None /\ f[2] <= scan[f[1]].fp

DraftInv ==
    /\ DraftTypes
    /\ \A t \in Tasks : TaskInv(t) /\ SaidInv(t)
    /\ ~SlowRuns => \A t \in Tasks : LeaseInv(t)
    /\ FinishedInv
    /\ dismissed \subseteq Recorded
    /\ Drafts!DraftedOnce
    /\ Drafts!DismissedStays

-----------------------------------------------------------------------------
(***************************************************************************)
(* Suggestions: one task moves                                             *)
(***************************************************************************)

LEMMA DraftLocals ==
    ASSUME NEW k \in DraftLocal
    PROVE  /\ k.src \in Sources \cup {None} /\ k.x \in Texts \cup {None} /\ k.sources \in Readings
           /\ k.known \subseteq Cited /\ k.marks \subseteq Cited /\ k.said \subseteq Cited
           /\ \A p \in {"idle", "claim", "look", "scans", "decisions", "draft", "create", "finish", "release", "drop"} :
                [k EXCEPT !.pc = p] \in DraftLocal
BY DEF DraftLocal

LEMMA SomeReading == ASSUME NEW R \in SUBSET Sources, NEW f \in [R -> Texts] PROVE f \in Readings
BY DEF Readings

LEMMA ReadingIs == ASSUME NEW f \in Readings PROVE \E R \in SUBSET Sources : f \in [R -> Texts]
BY DEF Readings

LEMMA IdleLocal == Drafts!Idle \in DraftLocal /\ Drafts!Idle.pc = "idle"
<1>1. <<>> \in [{} -> Texts]
  BY SMT
<1>2. <<>> \in Readings
  BY <1>1, SomeReading
<1> QED
  BY <1>2 DEF Drafts!Idle, DraftLocal

\* What a task keeps while another one moves.
LEMMA TaskKept ==
    ASSUME NEW u \in Tasks, TaskInv(u), SaidInv(u), task'[u] = task[u],
           \A s \in Sources, x \in Texts : UpTo(s, x) => UpTo(s, x)',
           dismissed \subseteq dismissed', Recorded \subseteq Recorded'
    PROVE  TaskInv(u)' /\ SaidInv(u)'
BY DEF TaskInv, SaidInv, Asks, Holds

LEMMA LeaseKept ==
    ASSUME NEW u \in Tasks, LeaseInv(u), task'[u] = task[u], overtaken \subseteq overtaken',
           Holds(u) =>
             /\ scan'[task[u].src].lease = "held" /\ scan'[task[u].src].fp = scan[task[u].src].fp
             /\ \A v \in Tasks : Holds(v)' /\ task'[v].src = task[u].src => v = u
             /\ \A i \in Ids : dec'[i] # None => dec'[i] = dec[i] \/ dec'[i].src # task[u].src
    PROVE  LeaseInv(u)'
BY DEF LeaseInv, Holds

\* A step of one task that writes nothing and takes no lease.
LEMMA QuietMove ==
    ASSUME DraftInv, NEW t \in Tasks, UNCHANGED <<text, scan, dec, dismissed, finished, overtaken>>,
           task' \in [Tasks -> DraftLocal], \A u \in Tasks \ {t} : task'[u] = task[u],
           Holds(t)' => Holds(t) /\ task'[t].src = task[t].src,
           TaskInv(t)', SaidInv(t)', ~SlowRuns => LeaseInv(t)'
    PROVE  DraftInv'
<1>1. DraftTypes' /\ FinishedInv' /\ dismissed' \subseteq Recorded' /\ Recorded' = Recorded
  BY DEF DraftInv, DraftTypes, FinishedInv, UpTo, Recorded
<1>2. Drafts!DraftedOnce' /\ Drafts!DismissedStays'
  BY DEF DraftInv, Drafts!DraftedOnce, Drafts!DismissedStays, Drafts!Quotes
<1>3. \A u \in Tasks : TaskInv(u)' /\ SaidInv(u)'
  BY <1>1, TaskKept DEF DraftInv, UpTo
<1>4. ASSUME ~SlowRuns, NEW u \in Tasks \ {t} PROVE LeaseInv(u)'
  <2>1. LeaseInv(u) /\ task'[u] = task[u]
    BY <1>4 DEF DraftInv
  <2>2. ASSUME Holds(u), NEW v \in Tasks, Holds(v)', task'[v].src = task[u].src PROVE v = u
    <3>1. Holds(v) /\ task[v].src = task[u].src
      BY <2>2 DEF Holds
    <3> QED
      BY <2>1, <2>2, <3>1 DEF LeaseInv
  <2>3. Holds(u) => scan[task[u].src].lease = "held"
    BY <2>1 DEF LeaseInv
  <2> QED
    BY <2>1, <2>2, <2>3, LeaseKept
<1> QED
  BY <1>1, <1>2, <1>3, <1>4 DEF DraftInv

LEMMA FirstText == ASSUME DraftConstants PROVE (CHOOSE x \in Texts : \A y \in Texts : x <= y) \in Texts
BY DEF DraftConstants

LEMMA DraftInit == ASSUME DraftConstants PROVE Drafts!Init => DraftInv
<1> SUFFICES ASSUME Drafts!Init PROVE DraftInv
  OBVIOUS
<1> DEFINE first == CHOOSE x \in Texts : \A y \in Texts : x <= y
<1>1. first \in Texts
  BY FirstText
<1>2. /\ text = [s \in Sources |-> first]
      /\ scan = [s \in Sources |-> [lease |-> "free", fp |-> None, dismissed |-> {}]]
      /\ dec = [i \in Ids |-> None] /\ task = [t \in Tasks |-> Drafts!Idle]
      /\ dismissed = {} /\ finished = {} /\ overtaken = {}
  BY DEF Drafts!Init
<1> HIDE DEF first
<1>3. DraftTypes
  BY <1>1, <1>2, IdleLocal DEF DraftTypes
<1>4. \A t \in Tasks : TaskInv(t) /\ SaidInv(t) /\ LeaseInv(t)
  BY <1>2, IdleLocal DEF TaskInv, SaidInv, LeaseInv, Asks, Holds
<1>5. FinishedInv /\ dismissed \subseteq Recorded /\ Drafts!DraftedOnce /\ Drafts!DismissedStays
  BY <1>2 DEF FinishedInv, Drafts!DraftedOnce, Drafts!DismissedStays
<1> QED
  BY <1>3, <1>4, <1>5 DEF DraftInv

LEMMA SuggestStep ==
    ASSUME DraftConstants, DraftInv, NEW t \in Tasks, NEW s \in Sources, Drafts!Suggest(t, s) PROVE DraftInv'
<1>1. text[s] \in Texts /\ text[s] # None
  BY DEF Drafts!Suggest, DraftInv, DraftTypes
<1>2. /\ task' = [task EXCEPT ![t] = [Drafts!Idle EXCEPT !.pc = "claim", !.src = s, !.x = text[s]]]
      /\ UNCHANGED <<text, scan, dec, dismissed, finished, overtaken>>
  BY DEF Drafts!Suggest
<1> DEFINE k == [Drafts!Idle EXCEPT !.pc = "claim", !.src = s, !.x = text[s]]
<1>3. k \in DraftLocal /\ k.pc = "claim" /\ k.src = s /\ k.x = text[s]
  BY <1>1, IdleLocal DEF DraftLocal
<1> HIDE DEF k
<1>4. task' \in [Tasks -> DraftLocal] /\ task'[t] = k /\ \A u \in Tasks \ {t} : task'[u] = task[u]
  BY <1>2, <1>3 DEF DraftInv, DraftTypes, k
<1>5. TaskInv(t)' /\ SaidInv(t)' /\ LeaseInv(t)' /\ ~Holds(t)'
  BY <1>1, <1>2, <1>3, <1>4 DEF TaskInv, SaidInv, LeaseInv, Asks, Holds, UpTo, DraftConstants
<1> QED
  BY <1>2, <1>4, <1>5, QuietMove

\* A suggest ends, whatever it was at, and still holds its lease.
LEMMA OverStep ==
    ASSUME DraftInv, NEW t \in Tasks, Holds(t), Drafts!Over(t),
           UNCHANGED <<text, scan, dec, dismissed, finished, overtaken>>
    PROVE  DraftInv'
<1>1. task' = [task EXCEPT ![t] = [task[t] EXCEPT !.pc = "release"]]
  BY DEF Drafts!Over, Drafts!Goto
<1>2. task[t] \in DraftLocal
  BY DEF DraftInv, DraftTypes
<1> DEFINE k == [task[t] EXCEPT !.pc = "release"]
<1>3. k \in DraftLocal /\ k.pc = "release" /\ k.src = task[t].src /\ k.x = task[t].x /\ k.said = task[t].said
  BY <1>2 DEF DraftLocal
<1> HIDE DEF k
<1>4. task' \in [Tasks -> DraftLocal] /\ task'[t] = k /\ \A u \in Tasks \ {t} : task'[u] = task[u]
  BY <1>1, <1>3 DEF DraftInv, DraftTypes, k
<1>5. TaskInv(t)' /\ SaidInv(t)' /\ Holds(t)'
  BY <1>3, <1>4 DEF DraftInv, TaskInv, SaidInv, Asks, Holds, UpTo
<1>6. ASSUME ~SlowRuns PROVE LeaseInv(t)'
  <2>1. LeaseInv(t)
    BY <1>6 DEF DraftInv
  <2> QED
    BY <1>3, <1>4, <2>1 DEF LeaseInv, Holds
<1> QED
  BY <1>3, <1>4, <1>5, <1>6, QuietMove

LEMMA ClaimDraftStep == ASSUME DraftConstants, DraftInv, NEW t \in Tasks, Drafts!Claim(t) PROVE DraftInv'
<1> DEFINE s == task[t].src
<1>1. /\ task[t] \in DraftLocal /\ task[t].pc = "claim" /\ s \in Sources /\ task[t].x \in Texts /\ UpTo(s, task[t].x)
      /\ UNCHANGED <<text, dec, dismissed, finished>> /\ DraftTypes
  BY DEF Drafts!Claim, DraftInv, DraftTypes, TaskInv, Asks
<1>2. CASE scan[s].lease = "held"
  <2>1. task' = [task EXCEPT ![t] = Drafts!Idle] /\ UNCHANGED <<scan, overtaken>>
    BY <1>2 DEF Drafts!Claim
  <2>2. task' \in [Tasks -> DraftLocal] /\ task'[t] = Drafts!Idle /\ \A u \in Tasks \ {t} : task'[u] = task[u]
    BY <1>1, <2>1, IdleLocal DEF DraftTypes
  <2>3. TaskInv(t)' /\ SaidInv(t)' /\ LeaseInv(t)' /\ ~Holds(t)'
    BY <2>2, IdleLocal DEF TaskInv, SaidInv, LeaseInv, Asks, Holds
  <2> QED
    BY <1>1, <2>1, <2>2, <2>3, QuietMove
<1>3. CASE scan[s].lease # "held"
  <2>1. /\ scan' = [scan EXCEPT ![s].lease = "held"]
        /\ task' = [task EXCEPT ![t].pc = "look", ![t].said = dismissed]
        /\ overtaken' = IF task[t].x = text[s] THEN overtaken ELSE overtaken \cup {s}
    BY <1>3 DEF Drafts!Claim
  <2>2. /\ task' \in [Tasks -> DraftLocal] /\ \A u \in Tasks \ {t} : task'[u] = task[u]
        /\ task'[t].pc = "look" /\ task'[t].said = dismissed /\ task'[t].src = s /\ task'[t].x = task[t].x
    BY <1>1, <2>1 DEF DraftTypes, DraftLocal
  <2>3. /\ scan' \in [Sources -> [lease : {"free", "held", "lapsed"}, fp : Texts \cup {None}, dismissed : SUBSET Passages]]
        /\ scan'[s].lease = "held"
        /\ \A w \in Sources : /\ scan'[w].fp = scan[w].fp /\ scan'[w].dismissed = scan[w].dismissed
                              /\ w # s => scan'[w] = scan[w]
    BY <1>1, <2>1 DEF DraftTypes
  <2>4. overtaken \subseteq overtaken' /\ overtaken' \subseteq Sources /\ (s \notin overtaken' => task[t].x = text[s])
    BY <1>1, <2>1 DEF DraftTypes
  <2>5. DraftTypes' /\ Recorded' = Recorded
    BY <1>1, <2>2, <2>3, <2>4 DEF DraftTypes, Recorded, Cited
  <2>6. TaskInv(t)' /\ SaidInv(t)'
    BY <1>1, <2>2 DEF TaskInv, SaidInv, Asks, Holds, UpTo
  <2>7. \A u \in Tasks : TaskInv(u)' /\ SaidInv(u)'
    BY <1>1, <2>2, <2>5, <2>6, TaskKept DEF DraftInv, UpTo
  <2>8. FinishedInv'
    BY <1>1, <2>3, <2>4 DEF DraftInv, DraftTypes, FinishedInv, UpTo
  <2>9. ASSUME ~SlowRuns, NEW u \in Tasks PROVE LeaseInv(u)'
    <3>1. \A v \in Tasks : Holds(v) => task[v].src # s
      BY <1>3, <2>9 DEF DraftInv, LeaseInv
    <3>2. CASE u # t
      <4>1. Holds(u) => task[u].src \in Sources
        BY DEF DraftInv, TaskInv, Asks, Holds
      <4>2. LeaseInv(u) /\ task'[u] = task[u]
        BY <2>2, <2>9, <3>2 DEF DraftInv
      <4>3. ASSUME Holds(u), NEW v \in Tasks, Holds(v)', task'[v].src = task[u].src PROVE v = u
        <5>1. v # t
          BY <2>2, <3>1, <4>3
        <5> QED
          BY <2>2, <4>2, <4>3, <5>1 DEF LeaseInv, Holds
      <4>4. Holds(u) => scan'[task[u].src] = scan[task[u].src] /\ scan[task[u].src].lease = "held"
        BY <2>3, <3>1, <4>1, <4>2 DEF LeaseInv
      <4> QED
        BY <1>1, <2>4, <4>2, <4>3, <4>4, LeaseKept
    <3>3. CASE u = t
      <4>1. \A v \in Tasks : Holds(v)' /\ task'[v].src = s => v = t
        BY <2>2, <3>1 DEF Holds
      <4>2. s \notin overtaken' => scan'[s].fp = None \/ scan'[s].fp <= task[t].x
        <5>1. scan[s].fp # None => UpTo(s, scan[s].fp)
          BY <1>1 DEF DraftInv, FinishedInv
        <5> QED
          BY <1>1, <2>3, <2>4, <5>1 DEF UpTo, DraftConstants
      <4> QED
        BY <2>2, <2>3, <3>3, <4>1, <4>2 DEF LeaseInv, Holds
    <3> QED
      BY <3>2, <3>3
  <2>10. Drafts!DraftedOnce' /\ Drafts!DismissedStays'
    BY <1>1 DEF DraftInv, Drafts!DraftedOnce, Drafts!DismissedStays, Drafts!Quotes
  <2> QED
    BY <1>1, <2>5, <2>7, <2>8, <2>9, <2>10 DEF DraftInv
<1> QED
  BY <1>2, <1>3

LEMMA ReleaseStep == ASSUME DraftConstants, DraftInv, NEW t \in Tasks, Drafts!Release(t) PROVE DraftInv'
<1> DEFINE s == task[t].src
<1>1. /\ task[t] \in DraftLocal /\ task[t].pc = "release" /\ s \in Sources /\ Holds(t)
      /\ UNCHANGED <<text, dec, dismissed, finished, overtaken>> /\ DraftTypes
      /\ scan' = [scan EXCEPT ![s].lease = "free"] /\ task' = [task EXCEPT ![t] = Drafts!Idle]
  BY DEF Drafts!Release, DraftInv, DraftTypes, TaskInv, Asks, Holds
<1>2. task' \in [Tasks -> DraftLocal] /\ task'[t] = Drafts!Idle /\ \A u \in Tasks \ {t} : task'[u] = task[u]
  BY <1>1, IdleLocal DEF DraftTypes
<1>3. /\ scan' \in [Sources -> [lease : {"free", "held", "lapsed"}, fp : Texts \cup {None}, dismissed : SUBSET Passages]]
      /\ \A w \in Sources : /\ scan'[w].fp = scan[w].fp /\ scan'[w].dismissed = scan[w].dismissed
                            /\ w # s => scan'[w] = scan[w]
  BY <1>1 DEF DraftTypes
<1>4. DraftTypes' /\ Recorded' = Recorded
  BY <1>1, <1>2, <1>3 DEF DraftTypes, Recorded, Cited
<1>5. TaskInv(t)' /\ SaidInv(t)' /\ LeaseInv(t)' /\ ~Holds(t)'
  BY <1>2, IdleLocal DEF TaskInv, SaidInv, LeaseInv, Asks, Holds
<1>6. \A u \in Tasks : TaskInv(u)' /\ SaidInv(u)'
  BY <1>1, <1>2, <1>4, <1>5, TaskKept DEF DraftInv, UpTo
<1>7. FinishedInv'
  BY <1>1, <1>3 DEF DraftInv, DraftTypes, FinishedInv, UpTo
<1>8. ASSUME ~SlowRuns, NEW u \in Tasks \ {t} PROVE LeaseInv(u)'
  <2>1. LeaseInv(u) /\ LeaseInv(t) /\ task'[u] = task[u] /\ (Holds(u) => task[u].src \in Sources)
    BY <1>2, <1>8 DEF DraftInv, TaskInv, Asks, Holds
  <2>2. Holds(u) => task[u].src # s
    BY <1>1, <2>1 DEF LeaseInv
  <2>3. ASSUME Holds(u), NEW v \in Tasks, Holds(v)', task'[v].src = task[u].src PROVE v = u
    <3>1. v # t
      BY <1>5, <2>3
    <3> QED
      BY <1>2, <2>1, <2>3, <3>1 DEF LeaseInv, Holds
  <2>4. Holds(u) => scan'[task[u].src] = scan[task[u].src] /\ scan[task[u].src].lease = "held"
    BY <1>3, <2>1, <2>2 DEF LeaseInv
  <2> QED
    BY <1>1, <2>1, <2>3, <2>4, LeaseKept
<1>9. Drafts!DraftedOnce' /\ Drafts!DismissedStays'
  BY <1>1 DEF DraftInv, Drafts!DraftedOnce, Drafts!DismissedStays, Drafts!Quotes
<1> QED
  BY <1>1, <1>4, <1>5, <1>6, <1>7, <1>8, <1>9 DEF DraftInv

LEMMA LapseStep == ASSUME DraftInv, NEW s \in Sources, Drafts!Lapse(s) PROVE DraftInv'
<1>1. /\ UNCHANGED <<text, dec, task, dismissed, finished, overtaken>> /\ DraftTypes
      /\ scan' = [scan EXCEPT ![s].lease = "lapsed"]
  BY DEF Drafts!Lapse, DraftInv
<1>2. /\ scan' \in [Sources -> [lease : {"free", "held", "lapsed"}, fp : Texts \cup {None}, dismissed : SUBSET Passages]]
      /\ \A w \in Sources : /\ scan'[w].fp = scan[w].fp /\ scan'[w].dismissed = scan[w].dismissed
                            /\ w # s => scan'[w] = scan[w]
  BY <1>1 DEF DraftTypes
<1>3. DraftTypes' /\ Recorded' = Recorded
  BY <1>1, <1>2 DEF DraftTypes, Recorded, Cited
<1>4. \A u \in Tasks : TaskInv(u)' /\ SaidInv(u)'
  BY <1>1, <1>3, TaskKept DEF DraftInv, UpTo
<1>5. FinishedInv'
  BY <1>1, <1>2 DEF DraftInv, DraftTypes, FinishedInv, UpTo
<1>6. ASSUME ~SlowRuns, NEW u \in Tasks PROVE LeaseInv(u)'
  <2>1. LeaseInv(u) /\ (Holds(u) => task[u].src \in Sources)
    BY <1>6 DEF DraftInv, TaskInv, Asks, Holds
  <2>2. Holds(u) => task[u].src # s
    BY <1>6 DEF Drafts!Lapse, Drafts!Holding, Holds
  <2>3. ASSUME Holds(u), NEW v \in Tasks, Holds(v)', task'[v].src = task[u].src PROVE v = u
    BY <1>1, <2>1, <2>3 DEF LeaseInv, Holds
  <2>4. Holds(u) => scan'[task[u].src] = scan[task[u].src] /\ scan[task[u].src].lease = "held"
    BY <1>2, <2>1, <2>2 DEF LeaseInv
  <2> QED
    BY <1>1, <2>1, <2>3, <2>4, LeaseKept
<1>7. Drafts!DraftedOnce' /\ Drafts!DismissedStays'
  BY <1>1 DEF DraftInv, Drafts!DraftedOnce, Drafts!DismissedStays, Drafts!Quotes
<1> QED
  BY <1>1, <1>3, <1>4, <1>5, <1>6, <1>7 DEF DraftInv

LEMMA LookStep == ASSUME DraftConstants, DraftInv, NEW t \in Tasks, Drafts!Look(t) PROVE DraftInv'
<1> DEFINE s == task[t].src
<1>1. /\ task[t] \in DraftLocal /\ task[t].pc = "look" /\ s \in Sources /\ task[t].x \in Texts /\ Holds(t)
      /\ UNCHANGED <<text, scan, dec, dismissed, finished, overtaken>> /\ DraftTypes
  BY DEF Drafts!Look, DraftInv, DraftTypes, TaskInv, Asks, Holds
<1>2. CASE Drafts!Over(t)
  BY <1>1, <1>2, OverStep
<1>3. ASSUME scan[s].fp # task[t].x, NEW R \in SUBSET {w \in Sources : <<s, w>> \in Related /\ text[w] # None},
             task' = [task EXCEPT ![t].pc = "scans",
                        ![t].sources = [w \in R \cup {s} |-> IF w = s THEN task[t].x ELSE text[w]]]
      PROVE  DraftInv'
  <2> DEFINE seen == [w \in R \cup {s} |-> IF w = s THEN task[t].x ELSE text[w]]
  <2>1. seen \in [R \cup {s} -> Texts] /\ R \cup {s} \in SUBSET Sources /\ s \in DOMAIN seen
    BY <1>1 DEF DraftTypes
  <2>2. seen \in Readings
    BY <2>1 DEF Readings
  <2> HIDE DEF seen
  <2>3. task' = [task EXCEPT ![t] = [task[t] EXCEPT !.pc = "scans", !.sources = seen]]
    BY <1>3 DEF seen
  <2>4. /\ task' \in [Tasks -> DraftLocal] /\ \A u \in Tasks \ {t} : task'[u] = task[u]
        /\ task'[t].pc = "scans" /\ task'[t].src = s /\ task'[t].x = task[t].x /\ task'[t].sources = seen
        /\ task'[t].said = task[t].said
    BY <1>1, <2>2, <2>3 DEF DraftTypes, DraftLocal
  <2>5. TaskInv(t)' /\ SaidInv(t)' /\ Holds(t)'
    BY <1>1, <2>1, <2>4 DEF DraftInv, TaskInv, SaidInv, Asks, Holds, UpTo
  <2>6. ASSUME ~SlowRuns PROVE LeaseInv(t)'
    <3>1. LeaseInv(t)
      BY <2>6 DEF DraftInv
    <3> QED
      BY <1>1, <1>3, <2>4, <3>1 DEF LeaseInv, Holds
  <2> QED
    BY <1>1, <2>4, <2>5, <2>6, QuietMove
<1> QED
  BY <1>2, <1>3 DEF Drafts!Look

LEMMA KnownDismissedStep == ASSUME DraftInv, NEW t \in Tasks, Drafts!KnownDismissed(t) PROVE DraftInv'
<1> DEFINE s == task[t].src
           read == DOMAIN task[t].sources
           gone == UNION {{<<w, q>> : q \in scan[w].dismissed} : w \in read}
<1>1. /\ task[t] \in DraftLocal /\ task[t].pc = "scans" /\ s \in Sources /\ Holds(t) /\ s \in read
      /\ UNCHANGED <<text, scan, dec, dismissed, finished, overtaken>> /\ DraftTypes
      /\ task' = [task EXCEPT ![t] = [task[t] EXCEPT !.pc = "decisions", !.known = gone]]
  BY DEF Drafts!KnownDismissed, DraftInv, DraftTypes, TaskInv, Asks, Holds
<1>2. read \subseteq Sources
  <2>1. PICK R \in SUBSET Sources : task[t].sources \in [R -> Texts]
    BY <1>1, ReadingIs DEF DraftLocal
  <2> QED
    BY <2>1
<1>3. gone \subseteq Cited /\ \A m \in Recorded : m[1] \in read => m \in gone
  BY <1>1, <1>2 DEF DraftTypes, Cited, Recorded
<1> HIDE DEF gone
<1>4. /\ task' \in [Tasks -> DraftLocal] /\ \A u \in Tasks \ {t} : task'[u] = task[u]
      /\ task'[t].pc = "decisions" /\ task'[t].src = s /\ task'[t].x = task[t].x
      /\ task'[t].sources = task[t].sources /\ task'[t].said = task[t].said /\ task'[t].known = gone
  BY <1>1, <1>3 DEF DraftTypes, DraftLocal
<1>5. TaskInv(t)' /\ Holds(t)'
  BY <1>1, <1>4 DEF DraftInv, TaskInv, Asks, Holds, UpTo
<1>6. SaidInv(t)'
  <2>1. task[t].said \subseteq dismissed /\ dismissed \subseteq Recorded
    BY <1>1 DEF DraftInv, SaidInv
  <2> QED
    BY <1>1, <1>3, <1>4, <2>1 DEF SaidInv, Holds
<1>7. ASSUME ~SlowRuns PROVE LeaseInv(t)'
  <2>1. LeaseInv(t)
    BY <1>7 DEF DraftInv
  <2> QED
    BY <1>1, <1>4, <2>1 DEF LeaseInv, Holds
<1> QED
  BY <1>1, <1>4, <1>5, <1>6, <1>7, QuietMove

LEMMA KnownQuotedStep == ASSUME DraftInv, NEW t \in Tasks, Drafts!KnownQuoted(t) PROVE DraftInv'
<1> DEFINE s == task[t].src
           quoted == UNION {Drafts!Quotes(i) : i \in {j \in Ids : dec[j] # None}}
           met == {m \in quoted : m[1] \in DOMAIN task[t].sources}
<1>1. /\ task[t] \in DraftLocal /\ task[t].pc = "decisions" /\ s \in Sources /\ Holds(t) /\ s \in DOMAIN task[t].sources
      /\ UNCHANGED <<text, scan, dec, dismissed, finished, overtaken>> /\ DraftTypes
      /\ task' = [task EXCEPT ![t] = [task[t] EXCEPT !.pc = "draft", !.known = @ \cup met]]
  BY DEF Drafts!KnownQuoted, DraftInv, DraftTypes, TaskInv, Asks, Holds
<1>2. /\ met \subseteq Cited
      /\ \A i \in Ids : dec[i] # None => \A m \in dec[i].quotes : m[1] = s => m \in met
  BY <1>1 DEF DraftTypes, Drafted, Drafts!Quotes
<1> HIDE DEF met
<1>3. /\ task' \in [Tasks -> DraftLocal] /\ \A u \in Tasks \ {t} : task'[u] = task[u]
      /\ task'[t].pc = "draft" /\ task'[t].src = s /\ task'[t].x = task[t].x
      /\ task'[t].sources = task[t].sources /\ task'[t].said = task[t].said /\ task'[t].known = task[t].known \cup met
  BY <1>1, <1>2 DEF DraftTypes, DraftLocal
<1>4. TaskInv(t)' /\ SaidInv(t)' /\ Holds(t)'
  BY <1>1, <1>3 DEF DraftInv, TaskInv, SaidInv, Asks, Holds, UpTo
<1>5. ASSUME ~SlowRuns PROVE LeaseInv(t)'
  <2>1. LeaseInv(t)
    BY <1>5 DEF DraftInv
  <2> QED
    BY <1>1, <1>2, <1>3, <2>1 DEF LeaseInv, Holds
<1> QED
  BY <1>1, <1>3, <1>4, <1>5, QuietMove

LEMMA DraftStep == ASSUME DraftConstants, DraftInv, NEW t \in Tasks, Drafts!Draft(t) PROVE DraftInv'
<1> DEFINE s == task[t].src
           there == UNION {{<<w, q>> : q \in Says[task[t].sources[w]]} : w \in DOMAIN task[t].sources}
<1>1. /\ task[t] \in DraftLocal /\ task[t].pc = "draft" /\ s \in Sources /\ Holds(t)
      /\ UNCHANGED <<text, scan, dec, dismissed, finished, overtaken>> /\ DraftTypes
      /\ \/ task' = [task EXCEPT ![t] = [task[t] EXCEPT !.pc = "finish"]]
         \/ \E Q \in SUBSET (there \ task[t].known) :
              task' = [task EXCEPT ![t] = [task[t] EXCEPT !.pc = "create", !.marks = Q]]
  BY DEF Drafts!Draft, Drafts!Goto, DraftInv, DraftTypes, TaskInv, Asks, Holds
<1>2. there \subseteq Cited /\ \A m \in there : m[1] \in DOMAIN task[t].sources
  <2>1. PICK R \in SUBSET Sources : task[t].sources \in [R -> Texts]
    BY <1>1, ReadingIs DEF DraftLocal
  <2>2. \A w \in R : Says[task[t].sources[w]] \subseteq Passages /\ w \in Sources
    BY <2>1 DEF DraftConstants
  <2> QED
    BY <2>1, <2>2 DEF Cited
<1> HIDE DEF there
<1>3. CASE task' = [task EXCEPT ![t] = [task[t] EXCEPT !.pc = "finish"]]
  <2>1. /\ task' \in [Tasks -> DraftLocal] /\ \A u \in Tasks \ {t} : task'[u] = task[u]
        /\ task'[t].pc = "finish" /\ task'[t].src = s /\ task'[t].x = task[t].x /\ task'[t].said = task[t].said
    BY <1>1, <1>3 DEF DraftTypes, DraftLocal
  <2>2. TaskInv(t)' /\ SaidInv(t)' /\ Holds(t)'
    BY <1>1, <2>1 DEF DraftInv, TaskInv, SaidInv, Asks, Holds, UpTo
  <2>3. ASSUME ~SlowRuns PROVE LeaseInv(t)'
    <3>1. LeaseInv(t)
      BY <2>3 DEF DraftInv
    <3> QED
      BY <1>1, <2>1, <3>1 DEF LeaseInv, Holds
  <2> QED
    BY <1>1, <2>1, <2>2, <2>3, QuietMove
<1>4. ASSUME NEW Q \in SUBSET (there \ task[t].known),
             task' = [task EXCEPT ![t] = [task[t] EXCEPT !.pc = "create", !.marks = Q]]
      PROVE  DraftInv'
  <2>1. /\ task' \in [Tasks -> DraftLocal] /\ \A u \in Tasks \ {t} : task'[u] = task[u]
        /\ task'[t].pc = "create" /\ task'[t].src = s /\ task'[t].x = task[t].x /\ task'[t].said = task[t].said
        /\ task'[t].sources = task[t].sources /\ task'[t].known = task[t].known /\ task'[t].marks = Q
    BY <1>1, <1>2, <1>4 DEF DraftTypes, DraftLocal
  <2>2. TaskInv(t)' /\ SaidInv(t)' /\ Holds(t)'
    BY <1>1, <1>2, <2>1 DEF DraftInv, TaskInv, SaidInv, Asks, Holds, UpTo
  <2>3. ASSUME ~SlowRuns PROVE LeaseInv(t)'
    <3>1. LeaseInv(t)
      BY <2>3 DEF DraftInv
    <3> QED
      BY <1>1, <2>1, <3>1 DEF LeaseInv, Holds
  <2> QED
    BY <1>1, <2>1, <2>2, <2>3, QuietMove
<1> QED
  BY <1>1, <1>3, <1>4

LEMMA CreateStep == ASSUME DraftConstants, DraftInv, NEW t \in Tasks, Drafts!Create(t) PROVE DraftInv'
<1> DEFINE s == task[t].src
           marks == task[t].marks
<1>1. /\ task[t] \in DraftLocal /\ task[t].pc = "create" /\ s \in Sources /\ Holds(t)
      /\ UNCHANGED <<text, scan, dismissed, finished, overtaken>> /\ DraftTypes
      /\ marks \subseteq Cited /\ task[t].known \subseteq Cited /\ marks \cap task[t].known = {}
  BY DraftLocals DEF Drafts!Create, DraftInv, DraftTypes, TaskInv, Asks, Holds
<1>2. CASE Drafts!Over(t) /\ UNCHANGED dec
  BY <1>1, <1>2, OverStep
<1>3. ASSUME NEW i \in Ids, dec[i] = None,
             dec' = [dec EXCEPT ![i] = [quotes |-> marks, src |-> s, again |-> marks \cap task[t].said]],
             task' = [task EXCEPT ![t] = [task[t] EXCEPT !.pc = "draft", !.known = @ \cup marks, !.marks = {}]]
      PROVE  DraftInv'
  <2>1. marks \cap task[t].said = {}
    BY <1>1 DEF DraftInv, TaskInv, SaidInv
  <2>2. /\ dec' \in [Ids -> Drafted \cup {None}] /\ \A j \in Ids \ {i} : dec'[j] = dec[j]
        /\ dec'[i].quotes = marks /\ dec'[i].src = s /\ dec'[i].again = {}
    BY <1>1, <1>3, <2>1 DEF DraftTypes, Drafted
  <2>3. /\ task' \in [Tasks -> DraftLocal] /\ \A u \in Tasks \ {t} : task'[u] = task[u]
        /\ task'[t].pc = "draft" /\ task'[t].src = s /\ task'[t].x = task[t].x /\ task'[t].said = task[t].said
        /\ task'[t].sources = task[t].sources /\ task'[t].known = task[t].known \cup marks
    BY <1>1, <1>3 DEF DraftTypes, DraftLocal
  <2>4. DraftTypes' /\ Recorded' = Recorded /\ FinishedInv'
    BY <1>1, <2>2, <2>3 DEF DraftInv, DraftTypes, Recorded, FinishedInv, UpTo
  <2>5. TaskInv(t)' /\ SaidInv(t)'
    BY <1>1, <2>3 DEF DraftInv, TaskInv, SaidInv, Asks, Holds, UpTo
  <2>6. \A u \in Tasks : TaskInv(u)' /\ SaidInv(u)'
    BY <1>1, <2>3, <2>4, <2>5, TaskKept DEF DraftInv, UpTo
  <2>7. ASSUME ~SlowRuns, NEW u \in Tasks PROVE LeaseInv(u)'
    <3>1. LeaseInv(u) /\ LeaseInv(t)
      BY <2>7 DEF DraftInv
    <3>2. \A v, w \in Tasks : Holds(v) /\ Holds(w) /\ task[v].src = task[w].src => v = w
      BY <2>7 DEF DraftInv, LeaseInv
    <3>3. \A v \in Tasks : (Holds(v)' <=> Holds(v)) /\ task'[v].src = task[v].src
      BY <1>1, <2>3 DEF Holds
    <3>4. CASE u # t
      <4>1. Holds(u) => task[u].src # s
        BY <1>1, <3>2, <3>4
      <4>2. Holds(u) => scan[task[u].src].lease = "held"
        BY <3>1 DEF LeaseInv
      <4>3. ASSUME Holds(u), NEW v \in Tasks, Holds(v)', task'[v].src = task[u].src PROVE v = u
        BY <3>2, <3>3, <4>3
      <4>4. \A j \in Ids : dec'[j] = dec[j] \/ dec'[j].src = s
        BY <2>2
      <4> QED
        BY <1>1, <2>3, <3>1, <3>4, <4>1, <4>2, <4>3, <4>4, LeaseKept
    <3>5. CASE u = t
      <4>1. \A v \in Tasks : Holds(v)' /\ task'[v].src = task'[t].src => v = t
        BY <1>1, <3>2, <3>3
      <4>2. ASSUME NEW j \in Ids, dec'[j] # None, dec'[j].src = s, NEW m \in dec'[j].quotes, m[1] = s
            PROVE  m \in task'[t].known
        BY <1>1, <2>2, <2>3, <3>1, <4>2 DEF LeaseInv
      <4> QED
        BY <1>1, <2>3, <3>1, <3>5, <4>1, <4>2 DEF LeaseInv, Holds
    <3> QED
      BY <3>4, <3>5
  <2>8. Drafts!DismissedStays'
    BY <2>2 DEF DraftInv, Drafts!DismissedStays
  <2>9. ASSUME NEW j \in Ids, NEW l \in Ids, j # l, dec'[j] # None, dec'[l] # None, dec'[j].src = dec'[l].src, ~SlowRuns,
               NEW m \in dec'[j].quotes, m \in dec'[l].quotes
        PROVE  m[1] # dec'[j].src
    <3>1. LeaseInv(t)
      BY <2>9 DEF DraftInv
    <3>2. CASE j # i /\ l # i
      BY <2>2, <2>9, <3>2 DEF DraftInv, Drafts!DraftedOnce, Drafts!Quotes
    <3>3. CASE j = i \/ l = i
      BY <1>1, <2>2, <2>9, <3>1, <3>3 DEF LeaseInv
    <3> QED
      BY <3>2, <3>3
  <2>10. Drafts!DraftedOnce'
    BY <2>9 DEF Drafts!DraftedOnce, Drafts!Quotes
  <2> QED
    BY <1>1, <2>4, <2>6, <2>7, <2>8, <2>10 DEF DraftInv
<1> QED
  BY <1>2, <1>3 DEF Drafts!Create

LEMMA FinishDraftStep == ASSUME DraftConstants, DraftInv, NEW t \in Tasks, Drafts!Finish(t) PROVE DraftInv'
<1> DEFINE s == task[t].src
           x == task[t].x
<1>1. /\ task[t] \in DraftLocal /\ task[t].pc = "finish" /\ s \in Sources /\ x \in Texts /\ Holds(t) /\ UpTo(s, x)
      /\ UNCHANGED <<text, dec, dismissed, overtaken>> /\ DraftTypes
      /\ scan' = [scan EXCEPT ![s].fp = x] /\ finished' = finished \cup {<<s, x>>}
      /\ task' = [task EXCEPT ![t] = [task[t] EXCEPT !.pc = "release"]]
  BY DEF Drafts!Finish, Drafts!Over, Drafts!Goto, DraftInv, DraftTypes, TaskInv, Asks, Holds
<1>2. /\ task' \in [Tasks -> DraftLocal] /\ \A u \in Tasks \ {t} : task'[u] = task[u]
      /\ task'[t].pc = "release" /\ task'[t].src = s /\ task'[t].x = x /\ task'[t].said = task[t].said
  BY <1>1 DEF DraftTypes, DraftLocal
<1>3. /\ scan' \in [Sources -> [lease : {"free", "held", "lapsed"}, fp : Texts \cup {None}, dismissed : SUBSET Passages]]
      /\ scan'[s].fp = x
      /\ \A w \in Sources : /\ scan'[w].lease = scan[w].lease /\ scan'[w].dismissed = scan[w].dismissed
                            /\ w # s => scan'[w] = scan[w]
  BY <1>1 DEF DraftTypes
<1>4. DraftTypes' /\ Recorded' = Recorded
  BY <1>1, <1>2, <1>3 DEF DraftTypes, Recorded, Cited
<1>5. TaskInv(t)' /\ SaidInv(t)'
  BY <1>1, <1>2 DEF DraftInv, TaskInv, SaidInv, Asks, Holds, UpTo
<1>6. \A u \in Tasks : TaskInv(u)' /\ SaidInv(u)'
  BY <1>1, <1>2, <1>4, <1>5, TaskKept DEF DraftInv, UpTo
<1>7. ASSUME ~SlowRuns, NEW u \in Tasks PROVE LeaseInv(u)'
  <2>1. LeaseInv(u) /\ LeaseInv(t)
    BY <1>7 DEF DraftInv
  <2>2. \A v, w \in Tasks : Holds(v) /\ Holds(w) /\ task[v].src = task[w].src => v = w
    BY <1>7 DEF DraftInv, LeaseInv
  <2>3. \A v \in Tasks : (Holds(v)' <=> Holds(v)) /\ task'[v].src = task[v].src
    BY <1>1, <1>2 DEF Holds
  <2>4. CASE u # t
    <3>1. Holds(u) => task[u].src # s /\ task[u].src \in Sources /\ scan[task[u].src].lease = "held"
      BY <1>1, <2>1, <2>2, <2>4 DEF LeaseInv, DraftInv, TaskInv, Asks, Holds
    <3>2. ASSUME Holds(u), NEW v \in Tasks, Holds(v)', task'[v].src = task[u].src PROVE v = u
      BY <2>2, <2>3, <3>2
    <3> QED
      BY <1>1, <1>2, <1>3, <2>1, <2>4, <3>1, <3>2, LeaseKept
  <2>5. CASE u = t
    <3>1. \A v \in Tasks : Holds(v)' /\ task'[v].src = task'[t].src => v = t
      BY <1>1, <2>2, <2>3
    <3> QED
      BY <1>1, <1>2, <1>3, <2>1, <2>5, <3>1 DEF LeaseInv, Holds
  <2> QED
    BY <2>4, <2>5
<1>8. FinishedInv'
  <2>1. \A f \in finished' : UpTo(f[1], f[2])'
    BY <1>1 DEF DraftInv, FinishedInv, UpTo
  <2>2. \A w \in Sources : scan'[w].fp # None => text'[w] = None \/ scan'[w].fp <= text'[w]
    <3>1. \A w \in Sources : scan[w].fp # None => UpTo(w, scan[w].fp)
      BY DEF DraftInv, FinishedInv
    <3> QED
      BY <1>1, <1>3, <3>1 DEF UpTo
  <2>3. ASSUME ~SlowRuns, NEW f \in finished', f[1] \notin overtaken' PROVE scan'[f[1]].fp # None /\ f[2] <= scan'[f[1]].fp
    <3>1. f[1] \in Sources /\ f[2] \in Texts
      BY <1>4 DEF DraftTypes
    <3>2. CASE f \in finished
      <4>1. scan[f[1]].fp # None /\ f[2] <= scan[f[1]].fp /\ scan[f[1]].fp \in Texts
        BY <1>1, <2>3, <3>1, <3>2 DEF DraftInv, FinishedInv, DraftTypes
      <4>2. CASE f[1] = s
        <5>1. scan[s].fp <= x
          BY <1>1, <2>3, <4>1, <4>2 DEF DraftInv, LeaseInv
        <5> QED
          BY <1>1, <1>3, <3>1, <4>1, <4>2, <5>1 DEF DraftConstants
      <4> QED
        BY <1>3, <3>1, <4>1, <4>2
    <3>3. CASE f = <<s, x>>
      BY <1>1, <1>3, <3>3 DEF DraftConstants
    <3> QED
      BY <1>1, <3>2, <3>3
  <2> QED
    BY <2>1, <2>2, <2>3 DEF FinishedInv, UpTo
<1>9. Drafts!DraftedOnce' /\ Drafts!DismissedStays'
  BY <1>1 DEF DraftInv, Drafts!DraftedOnce, Drafts!DismissedStays, Drafts!Quotes
<1> QED
  BY <1>1, <1>4, <1>6, <1>7, <1>8, <1>9 DEF DraftInv

LEMMA DismissStep == ASSUME DraftConstants, DraftInv, NEW t \in Tasks, NEW i \in Ids, Drafts!Dismiss(t, i) PROVE DraftInv'
<1>1. /\ DraftTypes /\ dec[i] # None /\ dec' = [dec EXCEPT ![i] = None] /\ UNCHANGED <<text, scan, dismissed, finished, overtaken>>
      /\ task' = [task EXCEPT ![t] = [Drafts!Idle EXCEPT !.pc = "drop", !.known = dec[i].quotes, !.marks = dec[i].quotes]]
      /\ task[t] = Drafts!Idle
  BY DEF Drafts!Dismiss, Drafts!Quotes, DraftInv
<1>2. dec[i].quotes \subseteq Cited
  BY <1>1 DEF DraftTypes, Drafted
<1>3. /\ task' \in [Tasks -> DraftLocal] /\ \A u \in Tasks \ {t} : task'[u] = task[u]
      /\ task'[t].pc = "drop" /\ task'[t].known = dec[i].quotes /\ task'[t].marks = dec[i].quotes
  BY <1>1, <1>2, IdleLocal DEF DraftTypes, DraftLocal
<1>4. dec' \in [Ids -> Drafted \cup {None}] /\ \A j \in Ids : dec'[j] # None => dec'[j] = dec[j]
  BY <1>1 DEF DraftTypes
<1>5. DraftTypes' /\ Recorded' = Recorded /\ FinishedInv'
  BY <1>1, <1>3, <1>4 DEF DraftInv, DraftTypes, Recorded, FinishedInv, UpTo
<1>6. TaskInv(t)' /\ SaidInv(t)' /\ LeaseInv(t)' /\ ~Holds(t)'
  BY <1>3 DEF TaskInv, SaidInv, LeaseInv, Asks, Holds
<1>7. \A u \in Tasks : TaskInv(u)' /\ SaidInv(u)'
  BY <1>1, <1>3, <1>5, <1>6, TaskKept DEF DraftInv, UpTo
<1>8. ASSUME ~SlowRuns, NEW u \in Tasks \ {t} PROVE LeaseInv(u)'
  <2>1. LeaseInv(u)
    BY <1>8 DEF DraftInv
  <2>2. ASSUME Holds(u), NEW v \in Tasks, Holds(v)', task'[v].src = task[u].src PROVE v = u
    <3>1. v # t
      BY <1>6, <2>2
    <3> QED
      BY <1>3, <2>1, <2>2, <3>1 DEF LeaseInv, Holds
  <2>3. Holds(u) => scan[task[u].src].lease = "held"
    BY <2>1 DEF LeaseInv
  <2> QED
    BY <1>1, <1>3, <1>4, <2>1, <2>2, <2>3, LeaseKept
<1>9. Drafts!DraftedOnce' /\ Drafts!DismissedStays'
  BY <1>4 DEF DraftInv, Drafts!DraftedOnce, Drafts!DismissedStays, Drafts!Quotes
<1> QED
  BY <1>1, <1>5, <1>6, <1>7, <1>8, <1>9 DEF DraftInv

LEMMA RecordDismissedStep == ASSUME DraftConstants, DraftInv, NEW t \in Tasks, Drafts!RecordDismissed(t) PROVE DraftInv'
<1>1. /\ DraftTypes /\ task[t] \in DraftLocal /\ task[t].pc = "drop" /\ UNCHANGED <<text, dec, finished, overtaken>>
      /\ task[t].known \subseteq Cited /\ task[t].marks \subseteq Cited /\ task[t].known \ task[t].marks \subseteq Recorded
  BY DraftLocals DEF Drafts!RecordDismissed, DraftInv, DraftTypes, TaskInv
<1>2. ASSUME DraftTypes', \A u \in Tasks \ {t} : task'[u] = task[u], ~Holds(t)', TaskInv(t)', SaidInv(t)',
             dismissed \subseteq dismissed', Recorded \subseteq Recorded', dismissed' \subseteq Recorded',
             \A w \in Sources : scan'[w].lease = scan[w].lease /\ scan'[w].fp = scan[w].fp
      PROVE  DraftInv'
  <2>1. \A u \in Tasks : TaskInv(u)' /\ SaidInv(u)'
    BY <1>1, <1>2, TaskKept DEF DraftInv, UpTo
  <2>2. FinishedInv'
    BY <1>1, <1>2 DEF DraftInv, DraftTypes, FinishedInv, UpTo
  <2>3. ASSUME ~SlowRuns, NEW u \in Tasks \ {t} PROVE LeaseInv(u)'
    <3>1. LeaseInv(u) /\ (Holds(u) => task[u].src \in Sources)
      BY <2>3 DEF DraftInv, TaskInv, Asks, Holds
    <3>2. ASSUME Holds(u), NEW v \in Tasks, Holds(v)', task'[v].src = task[u].src PROVE v = u
      <4>1. v # t
        BY <1>2, <3>2
      <4> QED
        BY <1>2, <3>1, <3>2, <4>1 DEF LeaseInv, Holds
    <3>3. Holds(u) => scan[task[u].src].lease = "held"
      BY <3>1 DEF LeaseInv
    <3> QED
      BY <1>1, <1>2, <3>1, <3>2, <3>3, LeaseKept
  <2>4. ~SlowRuns => LeaseInv(t)'
    BY <1>2 DEF LeaseInv, Holds
  <2>5. Drafts!DraftedOnce' /\ Drafts!DismissedStays'
    BY <1>1 DEF DraftInv, Drafts!DraftedOnce, Drafts!DismissedStays, Drafts!Quotes
  <2> QED
    BY <1>2, <2>1, <2>2, <2>3, <2>4, <2>5 DEF DraftInv
<1>3. CASE task[t].marks = {}
  <2>1. dismissed' = dismissed \cup task[t].known /\ task' = [task EXCEPT ![t] = Drafts!Idle] /\ UNCHANGED scan
    BY <1>3 DEF Drafts!RecordDismissed
  <2>2. task' \in [Tasks -> DraftLocal] /\ task'[t] = Drafts!Idle /\ \A u \in Tasks \ {t} : task'[u] = task[u]
    BY <1>1, <2>1, IdleLocal DEF DraftTypes
  <2>3. DraftTypes' /\ Recorded' = Recorded
    BY <1>1, <2>1, <2>2 DEF DraftTypes, Recorded
  <2>4. dismissed' \subseteq Recorded
    BY <1>1, <1>3, <2>1 DEF DraftInv
  <2>5. ~Holds(t)' /\ TaskInv(t)' /\ SaidInv(t)'
    BY <2>2, IdleLocal DEF TaskInv, SaidInv, Asks, Holds
  <2> QED
    BY <1>2, <2>1, <2>2, <2>3, <2>4, <2>5
<1>4. ASSUME NEW m \in task[t].marks, scan' = [scan EXCEPT ![m[1]].dismissed = @ \cup {m[2]}],
             task' = [task EXCEPT ![t] = [task[t] EXCEPT !.marks = @ \ {m}]], UNCHANGED dismissed
      PROVE  DraftInv'
  <2>1. m \in Cited /\ m[1] \in Sources /\ m[2] \in Passages
    BY <1>1 DEF Cited
  <2>2. /\ task' \in [Tasks -> DraftLocal] /\ \A u \in Tasks \ {t} : task'[u] = task[u]
        /\ task'[t].pc = "drop" /\ task'[t].known = task[t].known /\ task'[t].marks = task[t].marks \ {m}
    BY <1>1, <1>4 DEF DraftTypes, DraftLocal
  <2>3. /\ scan' \in [Sources -> [lease : {"free", "held", "lapsed"}, fp : Texts \cup {None}, dismissed : SUBSET Passages]]
        /\ \A w \in Sources : /\ scan'[w].lease = scan[w].lease /\ scan'[w].fp = scan[w].fp
                              /\ scan[w].dismissed \subseteq scan'[w].dismissed
        /\ m[2] \in scan'[m[1]].dismissed
    BY <1>1, <1>4, <2>1 DEF DraftTypes
  <2>4. DraftTypes' /\ Recorded \subseteq Recorded' /\ m \in Recorded'
    BY <1>1, <1>4, <2>1, <2>2, <2>3 DEF DraftTypes, Recorded, Cited
  <2>5. ~Holds(t)' /\ TaskInv(t)' /\ SaidInv(t)'
    BY <1>1, <2>2, <2>4 DEF TaskInv, SaidInv, Asks, Holds
  <2>6. dismissed' \subseteq Recorded'
    BY <1>4, <2>4 DEF DraftInv
  <2> QED
    BY <1>2, <1>4, <2>2, <2>3, <2>4, <2>5, <2>6
<1> QED
  BY <1>3, <1>4 DEF Drafts!RecordDismissed

LEMMA WriteStep == ASSUME DraftConstants, DraftInv, NEW s \in Sources, NEW x, Drafts!Write(s, x) PROVE DraftInv'
<1>1. /\ DraftTypes /\ UNCHANGED <<scan, dec, task, dismissed, finished, overtaken>>
      /\ text[s] \in Texts /\ text' = [text EXCEPT ![s] = x] /\ (x = None \/ (x \in Texts /\ x > text[s]))
  BY DEF Drafts!Write, DraftInv, DraftTypes
<1>2. text' \in [Sources -> Texts \cup {None}] /\ text'[s] = x /\ \A w \in Sources \ {s} : text'[w] = text[w]
  BY <1>1 DEF DraftTypes
<1>3. \A w \in Sources, y \in Texts : UpTo(w, y) => UpTo(w, y)'
  <2>1. ASSUME NEW y \in Texts, UpTo(s, y) PROVE text'[s] = None \/ y <= text'[s]
    <3>1. y \in Nat /\ text[s] \in Nat /\ text[s] # None
      BY <1>1 DEF DraftConstants
    <3>2. y <= text[s]
      BY <2>1, <3>1 DEF UpTo
    <3>3. CASE x \in Texts /\ x > text[s]
      <4>1. x \in Nat
        BY <3>3 DEF DraftConstants
      <4> QED
        BY <1>2, <3>1, <3>2, <3>3, <4>1
    <3> QED
      BY <1>1, <1>2, <3>3
  <2> QED
    BY <1>2, <2>1 DEF UpTo
<1>4. DraftTypes' /\ Recorded' = Recorded
  BY <1>1, <1>2 DEF DraftTypes, Recorded
<1>5. \A u \in Tasks : TaskInv(u)' /\ SaidInv(u)'
  BY <1>1, <1>3, <1>4, TaskKept DEF DraftInv
<1>6. \A u \in Tasks : LeaseInv(u) => LeaseInv(u)'
  BY <1>1 DEF LeaseInv, Holds
<1>7. FinishedInv'
  BY <1>1, <1>3, <1>4 DEF DraftInv, FinishedInv, DraftTypes
<1>8. Drafts!DraftedOnce' /\ Drafts!DismissedStays'
  BY <1>1 DEF DraftInv, Drafts!DraftedOnce, Drafts!DismissedStays, Drafts!Quotes
<1> QED
  BY <1>1, <1>4, <1>5, <1>6, <1>7, <1>8 DEF DraftInv

LEMMA FailStep == ASSUME DraftInv, NEW t \in Tasks, Drafts!Fail(t) PROVE DraftInv'
BY OverStep DEF Drafts!Fail, Holds

LEMMA CrashDraftStep == ASSUME DraftInv, NEW t \in Tasks, Drafts!Crash(t) PROVE DraftInv'
<1>1. task' = [task EXCEPT ![t] = Drafts!Idle] /\ UNCHANGED <<text, scan, dec, dismissed, finished, overtaken>>
  BY DEF Drafts!Crash
<1>2. task' \in [Tasks -> DraftLocal] /\ task'[t] = Drafts!Idle /\ \A u \in Tasks \ {t} : task'[u] = task[u]
  BY <1>1, IdleLocal DEF DraftInv, DraftTypes
<1>3. TaskInv(t)' /\ SaidInv(t)' /\ LeaseInv(t)' /\ ~Holds(t)'
  BY <1>2, IdleLocal DEF TaskInv, SaidInv, LeaseInv, Asks, Holds
<1> QED
  BY <1>1, <1>2, <1>3, QuietMove

LEMMA DraftsStutter == ASSUME DraftInv, UNCHANGED Drafts!vars PROVE DraftInv'
<1>1. UNCHANGED <<text, scan, dec, task, dismissed, finished, overtaken>>
  BY DEF Drafts!vars
<1>2. DraftTypes' /\ Recorded' = Recorded /\ FinishedInv'
  BY <1>1 DEF DraftInv, DraftTypes, Recorded, FinishedInv, UpTo
<1>3. \A u \in Tasks : TaskInv(u)' /\ SaidInv(u)'
  BY <1>1, <1>2, TaskKept DEF DraftInv, UpTo
<1>4. \A u \in Tasks : LeaseInv(u) => LeaseInv(u)'
  BY <1>1 DEF LeaseInv, Holds
<1>5. Drafts!DraftedOnce' /\ Drafts!DismissedStays'
  BY <1>1 DEF DraftInv, Drafts!DraftedOnce, Drafts!DismissedStays, Drafts!Quotes
<1> QED
  BY <1>1, <1>2, <1>3, <1>4, <1>5 DEF DraftInv

LEMMA DraftsStep == ASSUME DraftConstants, DraftInv, [Drafts!Next]_(Drafts!vars) PROVE DraftInv'
<1>1. ASSUME NEW t \in Tasks,
             \/ Drafts!Claim(t) \/ Drafts!Release(t) \/ Drafts!Look(t) \/ Drafts!KnownDismissed(t) \/ Drafts!KnownQuoted(t)
             \/ Drafts!Draft(t) \/ Drafts!Create(t) \/ Drafts!Finish(t) \/ Drafts!RecordDismissed(t) \/ Drafts!Fail(t)
             \/ Drafts!Crash(t) \/ (\E s \in Sources : Drafts!Suggest(t, s)) \/ (\E i \in Ids : Drafts!Dismiss(t, i))
      PROVE  DraftInv'
  BY <1>1, ClaimDraftStep, ReleaseStep, LookStep, KnownDismissedStep, KnownQuotedStep, DraftStep, CreateStep,
     FinishDraftStep, RecordDismissedStep, FailStep, CrashDraftStep, SuggestStep, DismissStep
<1>2. ASSUME NEW s \in Sources, Drafts!Lapse(s) \/ \E x \in Texts \cup {None} : Drafts!Write(s, x) PROVE DraftInv'
  BY <1>2, LapseStep, WriteStep
<1>3. CASE UNCHANGED Drafts!vars
  BY <1>3, DraftsStutter
<1> QED
  BY <1>1, <1>2, <1>3 DEF Drafts!Next

\* The text a suggest sends to the AI was not drafted from: the last that was is on
\* record, is no newer than the one its source had when the lease was taken, and is not that.
LEMMA AskedOnceHolds == ASSUME DraftConstants, DraftInv PROVE Drafts!AskedOnce
<1> SUFFICES ASSUME NEW t \in Tasks, task[t].pc \in {"scans", "decisions"}, <<task[t].src, task[t].x>> \in finished,
                    ~SlowRuns, task[t].src \notin overtaken
             PROVE  FALSE
  BY DEF Drafts!AskedOnce
<1>1. Holds(t) /\ task[t].src \in Sources /\ task[t].x \in Texts
  BY DEF DraftInv, TaskInv, Asks, Holds
<1> DEFINE fp == scan[task[t].src].fp
<1>2. fp # None /\ task[t].x <= fp
  BY <1>1 DEF DraftInv, FinishedInv
<1>3. (fp = None \/ fp <= task[t].x) /\ fp # task[t].x
  BY <1>1 DEF DraftInv, LeaseInv
<1>4. fp \in Nat /\ task[t].x \in Nat
  BY <1>1, <1>2 DEF DraftInv, DraftTypes, DraftConstants
<1> QED
  BY <1>2, <1>3, <1>4

LEMMA DraftTypeCorrect == DraftInv => Drafts!TypeOK
BY DEF DraftInv, DraftTypes, Drafts!TypeOK, Drafts!Quotes, Drafted, Cited

\* suggest.py: a text that was drafted from is not sent to the AI again, no passage is
\* drafted from twice, and what was dismissed stays so, for any tasks, texts and sources;
\* the first two for suggests that end within their lease, as the properties say.
THEOREM SuggestionsKeepTheirPromise ==
    ASSUME DraftConstants
    PROVE  Drafts!Spec => [](Drafts!TypeOK /\ Drafts!AskedOnce /\ Drafts!DraftedOnce /\ Drafts!DismissedStays)
<1>1. Drafts!Init => DraftInv
  BY DraftInit
<1>2. DraftInv /\ [Drafts!Next]_(Drafts!vars) => DraftInv'
  BY DraftsStep
<1>3. DraftInv => Drafts!TypeOK /\ Drafts!AskedOnce /\ Drafts!DraftedOnce /\ Drafts!DismissedStays
  BY AskedOnceHolds, DraftTypeCorrect DEF DraftInv
<1> QED
  BY <1>1, <1>2, <1>3, PTL DEF Drafts!Spec
-----------------------------------------------------------------------------
(***************************************************************************)
(* TrackerBoard: the inductive invariant                                   *)
(***************************************************************************)

Board == INSTANCE TrackerBoard

\* What a board's columns may be, the tracker's issues, and what is mirrored of them.
BoardColumns == UNION {{cols[s] : s \in Statuses} : cols \in Layouts \cup {Category}}
BoardPlans == Sprints \cup {None}
Issue == [status : Statuses, sprint : BoardPlans]
Card == [status : Statuses, sprint : BoardPlans, column : BoardColumns, hidden : BOOLEAN]
Cards == [Issues -> Card \cup {None}]
ItemIds == Issues \X Nat
Doc ==
    [mode : {"default"}, cols : Layouts \cup {None}, prompt : {"none", "pending", "dismissed"},
     offered : Layouts \cup {None}, shown : SUBSET Statuses]
    \cup [mode : {"tracker"}, cols : Layouts, prompt : {"none", "pending", "dismissed"},
          offered : Layouts \cup {None}, shown : SUBSET Statuses]

\* A sync, and what it knows while it reads the board.
Page == [i : Issues, item : Card]
FollowsColumns == {"read columns", "show", "hide", "offer"}
Offering == {"show", "hide", "offer", "place"}
OnBoard == {"read columns", "details"} \cup Offering
Sync ==
    [op : OnBoard \cup {"list", "issues", "sweep", "drop"}, full : BOOLEAN, board : Doc, was : Doc \cup {None}, cols : Layouts \cup {None},
     left : SUBSET Issues, seen : SUBSET Issues, took : SUBSET Issues, gone : SUBSET ItemIds, page : Page \cup {None}]
SyncOK(y) ==
    /\ y \in Sync
    /\ y.op \in Offering => y.cols \in Layouts
    /\ y.op \in OnBoard => y.was \in Doc

\* A request, and the item it names.
Asked == [id : BoardColumns, into : SUBSET Statuses]
Choosing == [op : {"use"}, board : {b \in Doc : b.offered # None}] \cup [op : {"keep", "place"}, board : Doc]
Going == [op : {"transition", "create", "compare"}, i : Issues, column : Asked, sprint : BoardPlans]
         \cup [op : {"update", "refresh", "schedule"}, i : Issues, column : Asked \cup {None}, sprint : BoardPlans]
Fetching == [op : {"fetch"}, i : Issues, column : Asked \cup {None}, sprint : BoardPlans, board : Doc]
Storing == [op : {"store"}, i : Issues, column : Asked \cup {None}, sprint : BoardPlans, item : Card]
Planning == [op : {"sprint", "store sprint"}, i : Issues, item : ItemIds, sprint : BoardPlans]
Naming == [op : {"delete", "delete item", "delete comments", "comment", "record"}, i : Issues, item : ItemIds]
OfItems == {"sprint", "store sprint", "delete", "delete item", "delete comments", "comment", "record"}
Request == Choosing \cup Going \cup Fetching \cup Storing \cup {k \in Planning \cup Naming : k.item[1] = k.i}

\* The tracker has a first status, and None is none of what may be missing.
BoardConstants == First \in Statuses /\ None \notin Layouts /\ None \notin Issue /\ None \notin Card /\ None \notin Page

BoardTypes ==
    /\ tracker \in [Issues -> Issue \cup {None}]
    /\ theirs \in Layouts /\ recent \subseteq Issues
    /\ mirror \in Cards
    /\ ids \in [Issues -> Nat]
    /\ noted \subseteq ItemIds
    /\ board \in Doc
    /\ sync = Board!Free \/ SyncOK(sync)
    /\ slot \in [Slots -> Request \cup {Board!Free}]
    /\ calm \in BOOLEAN /\ blurred \in BOOLEAN
    /\ declined \in Layouts \cup {None}

\* Until columns are blurred, a sync that may follow some knows whether they are used, and
\* a board they were declined on uses others or remembers it, also as the sync has read it.
Settled(b) == b.mode = "tracker" \/ (b.prompt = "dismissed" /\ b.offered = declined)
ColumnsInv ==
    /\ Board!Torn => blurred = TRUE
    /\ blurred = FALSE /\ sync.op \in FollowsColumns /\ sync.board.mode = "tracker" => board.mode = "tracker"
    /\ blurred = FALSE /\ declined # None =>
         /\ Settled(board) /\ board.prompt # "pending"
         /\ sync.op \in FollowsColumns => Settled(sync.board)

\* A record whose item is gone is about to be removed, or strayed; so did those of what
\* the sync is about to drop.
Deleting(n) == \E r \in Slots : slot[r].op = "delete comments" /\ slot[r].item = n
RecordsInv ==
    /\ \A n \in noted : n \in Board!ItemsHere \/ n \in stray \/ Deleting(n)
    /\ sync.op = "drop" => \A n \in sync.gone : n \in noted => n \in stray

\* Issue i is here as the tracker has it, where the board has it; so are all; so are all but i.
Placed(i) == mirror[i] = IF tracker[i] = None THEN None ELSE Board!Place(board, tracker[i])
AllPlaced == \A i \in Issues : Placed(i)
PlacedBut(i) == \A j \in Issues : j # i => Placed(j)

\* A sync alone: a full one places what it has seen, another one leaves all in place.
WrittenHere(i) == Placed(i) \/ (sync.page # None /\ sync.page.i = i)
SyncInv ==
    /\ sync.board = board
    /\ sync.full = FALSE => sync.op \in {"list", "issues"} /\ AllPlaced
    /\ sync.op \in OnBoard \cup {"list"} => sync.seen = {} /\ sync.page = None
    /\ sync.op = "issues" =>
         /\ \A i \in sync.seen : WrittenHere(i)
         /\ sync.page # None => tracker[sync.page.i] # None /\ sync.page.item = Board!Place(board, tracker[sync.page.i])
         /\ \A i \in Issues : tracker[i] # None => sync.full = FALSE \/ i \in sync.seen \cup sync.left
    /\ sync.op \in {"sweep", "drop"} => \A i \in Issues : IF Board!Item(i) \in sync.gone THEN tracker[i] = None ELSE Placed(i)

\* A request alone: what it changed at the tracker is not here yet.
Halfway(k) == PlacedBut(k.i) /\ tracker[k.i] # None
RequestInv(k) ==
    /\ k.op \notin {"place", "refresh", "fetch", "store", "store sprint", "delete item"} => AllPlaced
    /\ k.op \in {"use", "keep", "place"} => k.board = board
    /\ k.op = "place" => /\ \A i \in Issues : tracker[i] = None => mirror[i] = None
                         /\ \A i \in Issues : tracker[i] # None =>
                              mirror[i] # None /\ mirror[i] = [Board!Place(board, tracker[i]) EXCEPT !.column = mirror[i].column]
    /\ k.op \in {"refresh", "fetch", "store", "store sprint"} => Halfway(k)
    /\ k.op = "fetch" => k.board = board
    /\ k.op = "store" => k.item = Board!Place(board, tracker[k.i])
    /\ k.op \in {"sprint", "store sprint"} => mirror[k.i] # None
    /\ k.op \in {"sprint", "store sprint", "delete", "delete item"} => k.item = Board!Item(k.i)
    /\ k.op = "store sprint" => /\ tracker[k.i].sprint = k.sprint
                                /\ mirror[k.i] = [Board!Place(board, tracker[k.i]) EXCEPT !.sprint = mirror[k.i].sprint]
    /\ k.op = "delete item" => tracker[k.i] = None /\ PlacedBut(k.i)

\* While it is calm one sync or one request is at work, or all is in place.
Quiet == \A r \in Slots : slot[r].op = "none"
CalmInv ==
    /\ sync.op # "none" => Quiet /\ SyncInv
    /\ \A r \in Slots : slot[r].op # "none" =>
         sync.op = "none" /\ RequestInv(slot[r]) /\ \A q \in Slots : q # r => slot[q].op = "none"
    /\ sync.op = "none" /\ Quiet => AllPlaced
PlacedInv == calm = TRUE => CalmInv

BoardInv == BoardTypes /\ ColumnsInv /\ RecordsInv /\ PlacedInv

-----------------------------------------------------------------------------
(***************************************************************************)
(* TrackerBoard: what placing does                                         *)
(***************************************************************************)

LEMMA ColumnIsKnown == ASSUME NEW b \in Doc, NEW s \in Statuses PROVE Board!ResolveColumn(b, s) \in BoardColumns
<1>1. CASE b.mode = "tracker"
  <2>1. b.cols \in Layouts /\ b.cols[s] \in {b.cols[u] : u \in Statuses}
    BY <1>1 DEF Doc
  <2> QED
    BY <1>1, <2>1 DEF BoardColumns, Board!ResolveColumn
<1>2. CASE b.mode # "tracker"
  <2>1. Category[s] \in {Category[u] : u \in Statuses}
    OBVIOUS
  <2> QED
    BY <1>2, <2>1 DEF BoardColumns, Board!ResolveColumn
<1> QED
  BY <1>1, <1>2

LEMMA PlaceIsCard ==
    ASSUME NEW b \in Doc, NEW x \in Issue
    PROVE  /\ Board!Place(b, x) \in Card
           /\ Board!Place(b, x) = [status |-> x.status, sprint |-> x.sprint, column |-> Board!ResolveColumn(b, x.status),
                                   hidden |-> b.shown # {} /\ x.status \notin b.shown]
<1>1. x.status \in Statuses /\ x.sprint \in BoardPlans
  BY DEF Issue
<1>2. Board!ResolveColumn(b, x.status) \in BoardColumns
  BY <1>1, ColumnIsKnown
<1>3. (b.shown # {} /\ x.status \notin b.shown) \in BOOLEAN
  OBVIOUS
<1> QED
  BY <1>1, <1>2, <1>3 DEF Card, Board!Place

LEMMA MarksKeep ==
    ASSUME BoardConstants, NEW items \in Cards, NEW shown \in SUBSET Statuses
    PROVE  /\ Board!MarkHidden(items, shown) \in Cards
           /\ \A i \in Issues : Board!MarkHidden(items, shown)[i] = None <=> items[i] = None
<1> DEFINE after(i) == IF items[i] = None THEN None ELSE [items[i] EXCEPT !.hidden = items[i].status \notin shown]
<1>1. \A i \in Issues : after(i) \in Card \cup {None} /\ (after(i) = None <=> items[i] = None)
  <2> TAKE i \in Issues
  <2>1. CASE items[i] = None
    BY <2>1 DEF Cards
  <2>2. CASE items[i] # None
    <3>1. items[i] \in Card
      BY <2>2 DEF Cards
    <3>2. [items[i] EXCEPT !.hidden = items[i].status \notin shown] \in Card
      BY <3>1 DEF Card
    <3> QED
      BY <2>2, <3>2 DEF BoardConstants
  <2> QED
    BY <2>1, <2>2
<1>2. Board!MarkHidden(items, shown) = [i \in Issues |-> after(i)]
  BY DEF Board!MarkHidden
<1> QED
  BY <1>1, <1>2 DEF Cards

LEMMA PlacesKeep ==
    ASSUME BoardConstants, NEW items \in Cards, NEW b \in Doc
    PROVE  /\ Board!PlaceAll(items, b) \in Cards
           /\ \A i \in Issues : Board!PlaceAll(items, b)[i] = None <=> items[i] = None
<1> DEFINE marked == Board!Marked(items, b)
           after(i) == IF marked[i] = None THEN None ELSE [marked[i] EXCEPT !.column = Board!ResolveColumn(b, marked[i].status)]
<1>1. marked \in Cards /\ \A i \in Issues : marked[i] = None <=> items[i] = None
  <2>1. b.shown \in SUBSET Statuses
    BY DEF Doc
  <2> QED
    BY <2>1, MarksKeep DEF Board!Marked
<1>2. Board!PlaceAll(items, b) = [i \in Issues |-> after(i)]
  BY DEF Board!PlaceAll
<1> HIDE DEF marked
<1>3. \A i \in Issues : after(i) \in Card \cup {None} /\ (after(i) = None <=> marked[i] = None)
  <2> TAKE i \in Issues
  <2>1. CASE marked[i] = None
    BY <2>1
  <2>2. CASE marked[i] # None
    <3>1. marked[i] \in Card /\ marked[i].status \in Statuses
      BY <1>1, <2>2 DEF Cards, Card
    <3>2. [marked[i] EXCEPT !.column = Board!ResolveColumn(b, marked[i].status)] \in Card
      BY <3>1, ColumnIsKnown DEF Card
    <3> QED
      BY <2>2, <3>2 DEF BoardConstants
  <2> QED
    BY <2>1, <2>2
<1> HIDE DEF after
<1> QED
  BY <1>1, <1>2, <1>3 DEF Cards

\* A board's items that only have the wrong columns get the right ones.
LEMMA PlacesAll ==
    ASSUME BoardConstants, NEW items \in Cards, NEW b \in Doc, NEW i \in Issues, NEW x \in Issue,
           items[i] # None, items[i] = [Board!Place(b, x) EXCEPT !.column = items[i].column]
    PROVE  Board!PlaceAll(items, b)[i] = Board!Place(b, x)
<1> DEFINE marked == Board!Marked(items, b)
           hidden == b.shown # {} /\ x.status \notin b.shown
<1>1. Board!Place(b, x) = [status |-> x.status, sprint |-> x.sprint, column |-> Board!ResolveColumn(b, x.status), hidden |-> hidden]
  BY PlaceIsCard
<1>2. items[i] = [status |-> x.status, sprint |-> x.sprint, column |-> items[i].column, hidden |-> hidden]
  BY <1>1
<1>3. PICK k : k = items[i]
  OBVIOUS
<1>4. k.status = x.status /\ k = [status |-> x.status, sprint |-> x.sprint, column |-> k.column, hidden |-> hidden]
  BY <1>2, <1>3
<1>5. marked[i] = IF b.shown = {} THEN k ELSE [k EXCEPT !.hidden = k.status \notin b.shown]
  BY <1>3 DEF Board!MarkHidden, Board!Marked
<1>6. marked[i] = k
  <2>1. CASE b.shown = {}
    BY <2>1, <1>5
  <2>2. CASE b.shown # {}
    <3>1. hidden = (x.status \notin b.shown)
      BY <2>2
    <3>2. [k EXCEPT !.hidden = k.status \notin b.shown] = k
      BY <1>4, <3>1
    <3> QED
      BY <2>2, <1>5, <3>2
  <2> QED
    BY <2>1, <2>2
<1>7. Board!PlaceAll(items, b)[i] = IF marked[i] = None THEN None ELSE [marked[i] EXCEPT !.column = Board!ResolveColumn(b, marked[i].status)]
  BY DEF Board!PlaceAll
<1>8. Board!PlaceAll(items, b)[i] = [k EXCEPT !.column = Board!ResolveColumn(b, k.status)]
  BY <1>3, <1>6, <1>7
<1> HIDE DEF hidden, marked
<1>9. [k EXCEPT !.column = Board!ResolveColumn(b, k.status)] = [status |-> x.status, sprint |-> x.sprint, column |-> Board!ResolveColumn(b, x.status), hidden |-> hidden]
  BY <1>4
<1> QED
  BY <1>1, <1>8, <1>9

-----------------------------------------------------------------------------
(***************************************************************************)
(* TrackerBoard: what steps have in common                                 *)
(***************************************************************************)

\* What a request holds, by what it is doing.
LEMMA RequestKinds ==
    ASSUME NEW k \in Request
    PROVE  /\ k.op # "none"
           /\ k.op \in {"use", "keep", "place"} => k.board \in Doc
           /\ k.op = "use" => k.board.offered # None
           /\ k.op \in {"transition", "create", "compare"} => k \in [op : {k.op}, i : Issues, column : Asked, sprint : BoardPlans]
           /\ k.op \in {"update", "refresh", "schedule"} => k \in [op : {k.op}, i : Issues, column : Asked \cup {None}, sprint : BoardPlans]
           /\ k.op = "fetch" => k \in Fetching
           /\ k.op = "store" => k \in Storing
           /\ k.op \in {"sprint", "store sprint"} => k \in [op : {k.op}, i : Issues, item : ItemIds, sprint : BoardPlans] /\ k.item[1] = k.i
           /\ k.op \in {"delete", "delete item", "delete comments", "comment", "record"} =>
                k \in [op : {k.op}, i : Issues, item : ItemIds] /\ k.item[1] = k.i
<1>1. CASE k \in Choosing
  BY <1>1 DEF Choosing
<1>2. CASE k \in Going
  BY <1>2 DEF Going
<1>3. CASE k \in Fetching
  BY <1>3 DEF Fetching
<1>4. CASE k \in Storing
  BY <1>4 DEF Storing
<1>5. CASE k \in Planning /\ k.item[1] = k.i
  BY <1>5 DEF Planning
<1>6. CASE k \in Naming /\ k.item[1] = k.i
  BY <1>6 DEF Naming
<1> QED
  BY <1>1, <1>2, <1>3, <1>4, <1>5, <1>6 DEF Request

\* Those that go from one thing to the next.
LEMMA RequestTurns ==
    ASSUME NEW k \in Request
    PROVE  /\ k.op \in {"transition", "create", "update", "schedule"} => [k EXCEPT !.op = "refresh"] \in Request
           /\ k.op = "transition" => [k EXCEPT !.op = "refresh", !.column = None] \in Request
           /\ k.op = "schedule" => [k EXCEPT !.op = "refresh", !.sprint = None] \in Request
           /\ k.op = "sprint" => [k EXCEPT !.op = "store sprint"] \in Request
           /\ k.op = "delete" => [k EXCEPT !.op = "delete item"] \in Request
           /\ k.op = "delete item" => [k EXCEPT !.op = "delete comments"] \in Request
           /\ k.op = "comment" => [k EXCEPT !.op = "record"] \in Request
<1>1. CASE k.op \in {"transition", "create"}
  <2>1. k \in [op : {k.op}, i : Issues, column : Asked, sprint : BoardPlans]
    BY <1>1, RequestKinds
  <2> QED
    BY <1>1, <2>1 DEF Request, Going
<1>2. CASE k.op \in {"update", "schedule"}
  <2>1. k \in [op : {k.op}, i : Issues, column : Asked \cup {None}, sprint : BoardPlans]
    BY <1>2, RequestKinds
  <2> QED
    BY <1>2, <2>1 DEF Request, Going, BoardPlans
<1>3. CASE k.op = "sprint"
  <2>1. k \in [op : {k.op}, i : Issues, item : ItemIds, sprint : BoardPlans] /\ k.item[1] = k.i
    BY <1>3, RequestKinds
  <2>2. [k EXCEPT !.op = "store sprint"] \in Planning /\ [k EXCEPT !.op = "store sprint"].item[1] = [k EXCEPT !.op = "store sprint"].i
    BY <2>1 DEF Planning
  <2> QED
    BY <1>3, <2>2 DEF Request
<1>4. CASE k.op \in {"delete", "delete item", "comment"}
  <2>1. k \in [op : {k.op}, i : Issues, item : ItemIds] /\ k.item[1] = k.i
    BY <1>4, RequestKinds
  <2>2. \A o \in {"delete item", "delete comments", "record"} :
          [k EXCEPT !.op = o] \in Naming /\ [k EXCEPT !.op = o].item[1] = [k EXCEPT !.op = o].i
    BY <2>1 DEF Naming
  <2> QED
    BY <1>4, <2>2 DEF Request
<1> QED
  BY <1>1, <1>2, <1>3, <1>4

LEMMA SlotKinds ==
    ASSUME BoardTypes, NEW r \in Slots
    PROVE  /\ slot[r] = Board!Free \/ slot[r] \in Request
           /\ slot[r].op = "none" <=> slot[r] = Board!Free
           /\ slot[r].op # "none" => slot[r] \in Request
<1>1. slot[r] = Board!Free \/ slot[r] \in Request
  BY DEF BoardTypes
<1>2. Board!Free.op = "none"
  BY DEF Board!Free
<1>3. slot[r] \in Request => slot[r].op # "none"
  BY RequestKinds
<1> QED
  BY <1>1, <1>2, <1>3

\* What a sync holds.
LEMMA SyncKinds ==
    ASSUME BoardTypes
    PROVE  /\ sync.op = "none" <=> sync = Board!Free
           /\ sync.op # "none" => SyncOK(sync)
<1>1. sync = Board!Free \/ SyncOK(sync)
  BY DEF BoardTypes
<1>2. Board!Free.op = "none"
  BY DEF Board!Free
<1>3. SyncOK(sync) => sync.op # "none"
  BY DEF SyncOK, Sync, OnBoard, Offering
<1> QED
  BY <1>1, <1>2, <1>3

\* Nobody is at work.
LEMMA NobodyAtWork == ASSUME BoardTypes PROVE ~Board!Busy <=> sync.op = "none" /\ Quiet
BY SlotKinds, SyncKinds DEF Board!Busy, Quiet

LEMMA SlotsKept ==
    ASSUME BoardTypes, NEW r \in Slots, NEW k \in Request \cup {Board!Free}, slot' = [slot EXCEPT ![r] = k]
    PROVE  /\ slot' \in [Slots -> Request \cup {Board!Free}]
           /\ slot'[r] = k /\ \A q \in Slots : q # r => slot'[q] = slot[q]
           /\ slot[r].op # "delete comments" => \A q \in Slots : slot[q].op = "delete comments" => slot'[q] = slot[q]
<1>1. slot' \in [Slots -> Request \cup {Board!Free}] /\ slot'[r] = k /\ \A q \in Slots : q # r => slot'[q] = slot[q]
  BY DEF BoardTypes
<1> QED
  BY <1>1

\* A request that begins while it is calm begins alone, with all in place; one that is
\* alone goes on, or ends.
LEMMA StepsCalm ==
    ASSUME BoardTypes, PlacedInv, NEW r \in Slots, NEW k \in Request \cup {Board!Free},
           slot' = [slot EXCEPT ![r] = k], sync' = sync,
           calm' = TRUE => calm = TRUE /\ (~Board!Busy \/ slot[r].op # "none"),
           calm' = TRUE /\ ~Board!Busy /\ AllPlaced => RequestInv(k)',
           calm' = TRUE /\ slot[r].op # "none" /\ RequestInv(slot[r]) => RequestInv(k)'
    PROVE  PlacedInv'
<1> SUFFICES ASSUME calm' = TRUE PROVE CalmInv'
  BY DEF PlacedInv
<1>1. /\ sync.op = "none" /\ \A q \in Slots : q # r => slot[q].op = "none"
      /\ RequestInv(k)'
  <2>1. CASE ~Board!Busy
    <3>1. sync.op = "none" /\ Quiet /\ AllPlaced
      BY <2>1, NobodyAtWork DEF PlacedInv, CalmInv
    <3> QED
      BY <2>1, <3>1 DEF Quiet
  <2>2. CASE slot[r].op # "none"
    <3>1. sync.op = "none" /\ RequestInv(slot[r]) /\ \A q \in Slots : q # r => slot[q].op = "none"
      BY <2>2 DEF PlacedInv, CalmInv
    <3> QED
      BY <2>2, <3>1
  <2> QED
    BY <2>1, <2>2
<1>2. slot'[r] = k /\ \A q \in Slots : q # r => slot'[q].op = "none"
  BY <1>1, SlotsKept
<1>3. k = Board!Free => AllPlaced'
  <2>1. Board!Free.op = "none"
    BY DEF Board!Free
  <2> QED
    BY <1>1, <2>1 DEF RequestInv
<1>4. k # Board!Free => ~Quiet'
  BY <1>2, RequestKinds DEF Quiet
<1>5. RequestInv(slot[r])'
  BY <1>1, <1>2
<1>6. \A q \in Slots : slot'[q].op # "none" => q = r
  BY <1>2
<1>7. sync'.op = "none"
  BY <1>1
<1> QED
  BY <1>2, <1>3, <1>4, <1>5, <1>6, <1>7 DEF CalmInv

\* Steps that do not touch what these are about.
LEMMA ColumnsAside ==
    ASSUME ColumnsInv, UNCHANGED <<board, declined, blurred>>,
           sync' = sync \/ sync'.op \notin FollowsColumns \/ (sync.op \in FollowsColumns /\ sync'.board = sync.board)
    PROVE  ColumnsInv'
<1>1. Board!Torn' = Board!Torn
  BY DEF Board!Torn
<1>2. sync'.op \in FollowsColumns => sync.op \in FollowsColumns /\ sync'.board = sync.board
  OBVIOUS
<1>3. Settled(board)' <=> Settled(board)
  BY DEF Settled
<1>4. sync'.board = sync.board => (Settled(sync.board)' <=> Settled(sync.board))
  BY DEF Settled
<1> QED
  BY <1>1, <1>2, <1>3, <1>4 DEF ColumnsInv

LEMMA ItemsStay ==
    ASSUME \A i \in Issues : mirror[i] # None => mirror'[i] # None /\ ids'[i] = ids[i]
    PROVE  Board!ItemsHere \subseteq Board!ItemsHere'
BY DEF Board!ItemsHere, Board!Mirrored, Board!Item

LEMMA RecordsAside ==
    ASSUME RecordsInv, noted' \subseteq noted, stray \subseteq stray',
           Board!ItemsHere \subseteq Board!ItemsHere',
           \A r \in Slots : slot[r].op = "delete comments" => slot'[r] = slot[r],
           sync' = sync \/ sync'.op # "drop"
    PROVE  RecordsInv'
<1>1. \A n : Deleting(n) => Deleting(n)'
  BY DEF Deleting
<1>2. \A n \in noted' : n \in Board!ItemsHere' \/ n \in stray' \/ Deleting(n)'
  BY <1>1 DEF RecordsInv
<1>3. sync'.op = "drop" => \A n \in sync'.gone : n \in noted' => n \in stray'
  BY DEF RecordsInv
<1> QED
  BY <1>2, <1>3 DEF RecordsInv

LEMMA StillPlaced ==
    ASSUME UNCHANGED <<tracker, mirror, board>>
    PROVE  /\ \A i : Placed(i)' <=> Placed(i)
           /\ \A i : PlacedBut(i)' <=> PlacedBut(i)
           /\ AllPlaced' <=> AllPlaced
<1>1. \A i : Placed(i)' <=> Placed(i)
  BY DEF Placed, Board!Place, Board!ResolveColumn
<1> QED
  BY <1>1 DEF PlacedBut, AllPlaced

LEMMA StillRequested ==
    ASSUME UNCHANGED <<tracker, mirror, ids, board>>, NEW k
    PROVE  RequestInv(k)' <=> RequestInv(k)
<1>1. /\ \A i : PlacedBut(i)' <=> PlacedBut(i)
      /\ AllPlaced' <=> AllPlaced
  BY StillPlaced
<1>2. /\ \A i : Board!Place(board, tracker[i])' = Board!Place(board, tracker[i])
      /\ \A i : Board!Item(i)' = Board!Item(i)
  BY DEF Board!Place, Board!ResolveColumn, Board!Item
<1> QED
  BY <1>1, <1>2 DEF RequestInv, Halfway

\* What the tracker has and the board gives, where neither changes.
LEMMA SamePlace ==
    ASSUME UNCHANGED <<tracker, board>> PROVE \A i : Board!Place(board, tracker[i])' = Board!Place(board, tracker[i])
BY DEF Board!Place, Board!ResolveColumn

\* While a sync is at work it is alone, when it is calm; one that is not over goes on alone.
LEMMA SyncAlone == ASSUME PlacedInv, calm = TRUE, sync.op # "none" PROVE Quiet /\ SyncInv
BY DEF PlacedInv, CalmInv

LEMMA SyncGoesOn ==
    ASSUME BoardTypes, PlacedInv, sync.op # "none", slot' = slot, sync'.op # "none", calm' = TRUE => calm = TRUE,
           calm' = TRUE /\ SyncInv => SyncInv'
    PROVE  PlacedInv'
<1> SUFFICES ASSUME calm' = TRUE PROVE CalmInv'
  BY DEF PlacedInv
<1>1. Quiet /\ SyncInv
  BY SyncAlone
<1>2. Quiet'
  BY <1>1 DEF Quiet
<1> QED
  BY <1>1, <1>2 DEF CalmInv, Quiet

-----------------------------------------------------------------------------
(***************************************************************************)
(* TrackerBoard: the first state, the tracker and the sync                 *)
(***************************************************************************)

LEMMA BoardInit == ASSUME BoardConstants, Board!Init PROVE BoardInv
<1>1. Board!New(First) \in Issue
  BY DEF BoardConstants, Board!New, Issue, BoardPlans
<1>2. tracker \in [Issues -> Issue \cup {None}]
  BY <1>1 DEF Board!Init
<1>3. /\ board \in Doc /\ mirror \in Cards /\ recent \subseteq Issues /\ theirs \in Layouts
      /\ board.mode = "default" => board.cols = None
      /\ recent = {} => AllPlaced
  <2>1. CASE /\ board = [mode |-> "default", cols |-> None, prompt |-> "none", offered |-> None, shown |-> {}]
             /\ mirror = [i \in Issues |-> None] /\ recent = Issues
    BY <2>1 DEF Doc, Cards, Board!Init, AllPlaced
  <2>2. CASE /\ board = [mode |-> "tracker", cols |-> theirs, prompt |-> "none", offered |-> theirs, shown |-> Board!Shown(theirs)]
             /\ mirror = [i \in Issues |-> IF tracker[i] = None THEN None ELSE Board!Place(board, tracker[i])] /\ recent = {}
    <3>1. theirs \in Layouts /\ Board!Shown(theirs) \subseteq Statuses
      BY DEF Board!Init, Board!Shown
    <3>2. board \in Doc /\ board.mode = "tracker"
      BY <2>2, <3>1 DEF Doc
    <3>3. \A i \in Issues : tracker[i] # None => Board!Place(board, tracker[i]) \in Card
      BY <1>2, <3>2, PlaceIsCard
    <3>4. mirror \in Cards
      BY <2>2, <3>3 DEF Cards
    <3>5. AllPlaced
      BY <2>2 DEF AllPlaced, Placed
    <3> QED
      BY <2>2, <3>1, <3>2, <3>4, <3>5
  <2> QED
    BY <2>1, <2>2 DEF Board!Init
<1>4. sync = Board!Free /\ sync.op = "none" /\ slot = [r \in Slots |-> Board!Free] /\ Quiet
  BY DEF Board!Init, Board!Free, Quiet
<1>5. noted = {} /\ blurred = FALSE /\ declined = None /\ (calm = (recent = {})) /\ ids \in [Issues -> Nat]
  BY DEF Board!Init
<1>6. BoardTypes
  BY <1>2, <1>3, <1>4, <1>5 DEF BoardTypes, Cards
<1>7. ColumnsInv
  BY <1>3, <1>4, <1>5 DEF ColumnsInv, Board!Torn, FollowsColumns
<1>8. RecordsInv
  BY <1>4, <1>5 DEF RecordsInv
<1>9. PlacedInv
  BY <1>3, <1>4, <1>5 DEF PlacedInv, CalmInv, Quiet
<1> QED
  BY <1>6, <1>7, <1>8, <1>9 DEF BoardInv

LEMMA TrackerChangesKept ==
    ASSUME BoardInv, NEW i \in Issues, NEW x \in Issue \cup {None}, Board!TrackerChanges(i, x)
    PROVE  BoardInv'
<1> USE DEF BoardInv, Board!TrackerChanges, Board!Count, Board!History, Board!Mirror
<1>1. BoardTypes'
  <2>1. tracker' \in [Issues -> Issue \cup {None}]
    BY DEF BoardTypes
  <2>2. recent' \subseteq Issues /\ calm' = FALSE
    BY DEF BoardTypes
  <2> QED
    BY <2>1, <2>2 DEF BoardTypes
<1>2. ColumnsInv'
  BY ColumnsAside
<1>3. RecordsInv'
  BY ItemsStay, RecordsAside
<1>4. PlacedInv'
  BY DEF PlacedInv
<1> QED
  BY <1>1, <1>2, <1>3, <1>4

\* Where nothing these are about changes, all of them stay.
LEMMA BoardStays ==
    ASSUME BoardInv, UNCHANGED <<tracker, mirror, ids, noted, board, sync, slot, calm, declined, blurred, stray>>,
           theirs' \in Layouts, recent' \subseteq Issues
    PROVE  BoardInv'
<1> USE DEF BoardInv
<1>1. BoardTypes'
  BY DEF BoardTypes
<1>2. ColumnsInv'
  BY ColumnsAside
<1>3. RecordsInv'
  BY ItemsStay, RecordsAside
<1>4. PlacedInv'
  <2> USE StillPlaced
  <2>1. SyncInv' <=> SyncInv
    <3>1. \A i : WrittenHere(i)' <=> WrittenHere(i)
      BY DEF WrittenHere
    <3>2. \A i : Board!Item(i)' = Board!Item(i)
      BY DEF Board!Item
    <3> QED
      BY <3>1, <3>2, SamePlace DEF SyncInv
  <2>2. Quiet' <=> Quiet
    BY DEF Quiet
  <2>3. \A r : RequestInv(slot[r])' <=> RequestInv(slot[r])
    <3>1. \A k : RequestInv(k)' <=> RequestInv(k)
      BY StillRequested
    <3> QED
      BY <3>1
  <2> QED
    BY <2>1, <2>2, <2>3 DEF PlacedInv, CalmInv
<1> QED
  BY <1>1, <1>2, <1>3, <1>4

LEMMA TrackerRearrangesKept ==
    ASSUME BoardInv, NEW cols \in Layouts, Board!TrackerRearranges(cols)
    PROVE  BoardInv'
<1>1. UNCHANGED <<tracker, recent, mirror, ids, noted, board, sync, slot, calm, declined, blurred, stray>> /\ theirs' = cols
  BY DEF Board!TrackerRearranges, Board!History, Board!Mirror
<1>2. recent' \subseteq Issues
  BY <1>1 DEF BoardInv, BoardTypes
<1> QED
  BY <1>1, <1>2, BoardStays

LEMMA StartSyncKept ==
    ASSUME BoardInv, NEW full \in BOOLEAN, Board!StartSync(full)
    PROVE  BoardInv'
<1> USE DEF BoardInv
<1>1. PICK k : k = [op |-> IF full THEN "read columns" ELSE "list", full |-> full, board |-> board, was |-> board, cols |-> None,
                    left |-> {}, seen |-> {}, took |-> recent, gone |-> {}, page |-> None]
  OBVIOUS
<1>2. /\ sync = Board!Free /\ sync' = k /\ recent' = {}
      /\ UNCHANGED <<tracker, theirs, mirror, ids, noted, board, made, slot, declined, blurred, stray>>
      /\ calm' \in BOOLEAN /\ (calm' = TRUE => ~Board!Busy /\ (full = TRUE \/ calm = TRUE))
  BY <1>1 DEF Board!StartSync, Board!Ours, Board!History, Board!Mirror, BoardTypes
<1>3. /\ k.op \in {"read columns", "list"} /\ k.board = board /\ k.was = board /\ k.seen = {} /\ k.full = full /\ k.page = None
      /\ full = FALSE => k.op = "list"
  BY <1>1
<1>4. SyncOK(k)
  <2>1. k \in Sync
    BY <1>1, <1>3 DEF BoardTypes, Sync, OnBoard
  <2>2. k.op \notin Offering /\ k.was \in Doc
    BY <1>3 DEF BoardTypes, Offering
  <2> QED
    BY <2>1, <2>2 DEF SyncOK
<1>5. BoardTypes'
  <2>1. SyncOK(sync')
    BY <1>2, <1>4
  <2> QED
    BY <1>2, <2>1 DEF BoardTypes, SyncOK
<1>6. ColumnsInv'
  <2>1. Board!Torn' <=> Board!Torn
    BY <1>2 DEF Board!Torn
  <2>2. Settled(board)' <=> Settled(board)
    BY <1>2 DEF Settled
  <2>3. Settled(sync.board)' <=> Settled(board)
    BY <1>2, <1>3 DEF Settled
  <2>4. sync'.board = board'
    BY <1>2, <1>3
  <2> QED
    BY <1>2, <2>1, <2>2, <2>3, <2>4 DEF ColumnsInv
<1>7. RecordsInv'
  BY <1>2, <1>3, ItemsStay, RecordsAside
<1>8. PlacedInv'
  <2> SUFFICES ASSUME calm' = TRUE PROVE CalmInv'
    BY DEF PlacedInv
  <2>1. Quiet /\ sync.op = "none" /\ (full = TRUE \/ calm = TRUE)
    BY <1>2, NobodyAtWork
  <2>2. full = FALSE => AllPlaced'
    BY <1>2, <2>1, StillPlaced DEF PlacedInv, CalmInv
  <2>3. Quiet'
    BY <1>2, <2>1 DEF Quiet
  <2>4. SyncInv'
    BY <1>2, <1>3, <2>2 DEF SyncInv
  <2>5. sync'.op # "none"
    BY <1>2, <1>3
  <2> QED
    BY <2>3, <2>4, <2>5 DEF CalmInv, Quiet
<1> QED
  BY <1>5, <1>6, <1>7, <1>8

\* A step of a sync that goes on, and leaves the tracker and the requests alone.
LEMMA SyncKept ==
    ASSUME BoardInv, sync.op # "none", SyncOK(sync'), sync'.op # "drop",
           UNCHANGED <<tracker, theirs, recent, noted, slot, calm, blurred, stray>>,
           board' \in Doc, mirror' \in Cards, ids' \in [Issues -> Nat], declined' \in Layouts \cup {None},
           \A i \in Issues : mirror[i] # None => mirror'[i] # None /\ ids'[i] = ids[i],
           ColumnsInv', SyncInv => SyncInv'
    PROVE  BoardInv'
<1> USE DEF BoardInv
<1>1. BoardTypes'
  BY DEF BoardTypes, SyncOK
<1>2. RecordsInv'
  BY ItemsStay, RecordsAside
<1>3. sync'.op # "none"
  BY DEF SyncOK, Sync, OnBoard, Offering
<1>4. PlacedInv'
  BY <1>3, SyncGoesOn
<1> QED
  BY <1>1, <1>2, <1>4

\* One that only reads, where it does not go on to follow the columns of another board.
LEMMA SyncReads ==
    ASSUME BoardInv, sync.op # "none", SyncOK(sync'), sync'.op # "drop",
           UNCHANGED <<tracker, theirs, recent, mirror, ids, noted, board, slot, calm, declined, blurred, stray>>,
           sync'.op \notin FollowsColumns \/ (sync.op \in FollowsColumns /\ sync'.board = sync.board),
           SyncInv => SyncInv'
    PROVE  BoardInv'
<1>1. ColumnsInv'
  BY ColumnsAside DEF BoardInv
<1>2. board' \in Doc /\ mirror' \in Cards /\ ids' \in [Issues -> Nat] /\ declined' \in Layouts \cup {None}
  BY DEF BoardInv, BoardTypes
<1> QED
  BY <1>1, <1>2, SyncKept

-----------------------------------------------------------------------------
(***************************************************************************)
(* TrackerBoard: the steps of a sync                                       *)
(***************************************************************************)

LEMMA OnBoardGoesOn ==
    ASSUME sync.op \in OnBoard, sync'.op \in OnBoard \cup {"list"}, sync'.board = board',
           sync'.full = sync.full, sync'.seen = sync.seen, sync'.page = sync.page, SyncInv
    PROVE  SyncInv'
BY DEF SyncInv, OnBoard, Offering

LEMMA ReadColumnsKept ==
    ASSUME BoardInv, Board!ReadColumns
    PROVE  BoardInv'
<1>1. PICK y : /\ sync' = y
               /\ \/ y = [sync EXCEPT !.op = "details"]
                  \/ y = [sync EXCEPT !.op = IF Board!Shown(theirs) # sync.board.shown THEN "show" ELSE "offer", !.cols = theirs]
  BY DEF Board!ReadColumns
<1>2. /\ sync.op = "read columns" /\ SyncOK(sync) /\ theirs \in Layouts
      /\ UNCHANGED <<tracker, theirs, recent, mirror, ids, noted, board, slot, calm, declined, blurred, stray>>
  BY SyncKinds DEF Board!ReadColumns, Board!Unread, Board!Ours, Board!History, Board!Mirror, BoardInv, BoardTypes
<1>3. /\ SyncOK(y) /\ y.op \in {"details", "show", "offer"} /\ y.board = sync.board /\ y.full = sync.full
      /\ y.seen = sync.seen /\ y.page = sync.page
  BY <1>1, <1>2 DEF SyncOK, Sync, OnBoard, Offering
<1>4. SyncInv => SyncInv'
  <2> SUFFICES ASSUME SyncInv PROVE SyncInv'
    OBVIOUS
  <2>1. sync.op \in OnBoard /\ sync'.op \in OnBoard \cup {"list"}
    BY <1>1, <1>2, <1>3 DEF OnBoard, Offering
  <2>2. sync'.board = board'
    BY <1>1, <1>2, <1>3 DEF SyncInv
  <2> QED
    BY <1>1, <1>3, <2>1, <2>2, OnBoardGoesOn
<1>5. sync'.op # "drop" /\ sync.op \in FollowsColumns /\ SyncOK(sync') /\ sync'.board = sync.board
  BY <1>1, <1>2, <1>3 DEF FollowsColumns
<1> QED
  BY <1>2, <1>4, <1>5, SyncReads

LEMMA ShowStatusesKept ==
    ASSUME BoardInv, Board!ShowStatuses
    PROVE  BoardInv'
<1> USE DEF BoardInv
<1>1. PICK shown \in SUBSET Statuses : shown = Board!Shown(sync.cols)
  BY DEF Board!Shown
<1>2. PICK b : b = [board EXCEPT !.shown = shown]
  OBVIOUS
<1>3. /\ sync.op = "show" /\ SyncOK(sync) /\ board' = b /\ sync' = [sync EXCEPT !.op = "hide", !.board = b]
      /\ UNCHANGED <<tracker, theirs, recent, mirror, ids, noted, slot, calm, declined, blurred, stray>>
  BY <1>1, <1>2, SyncKinds DEF Board!ShowStatuses, Board!Unread, Board!Ours, Board!History, Board!Mirror
<1>4. b \in Doc /\ b.mode = board.mode /\ b.cols = board.cols /\ b.prompt = board.prompt /\ b.offered = board.offered
  BY <1>2 DEF BoardTypes, Doc
<1>5. /\ SyncOK(sync') /\ sync'.op = "hide" /\ sync'.board = b /\ sync'.full = sync.full /\ sync'.seen = sync.seen
      /\ sync'.page = sync.page
  BY <1>3, <1>4 DEF SyncOK, Sync, OnBoard, Offering
<1>6. SyncInv => SyncInv'
  BY <1>3, <1>5, OnBoardGoesOn DEF OnBoard, Offering
<1>7. ColumnsInv'
  <2>1. Board!Torn' <=> Board!Torn
    BY <1>3, <1>4 DEF Board!Torn
  <2>2. Settled(board)' <=> Settled(board)
    BY <1>3, <1>4 DEF Settled
  <2>3. Settled(sync.board)' <=> Settled(board)'
    BY <1>3, <1>5 DEF Settled
  <2> QED
    BY <1>3, <1>4, <1>5, <2>1, <2>2, <2>3 DEF ColumnsInv
<1>8. mirror' \in Cards /\ ids' \in [Issues -> Nat] /\ declined' \in Layouts \cup {None}
  BY <1>3 DEF BoardTypes
<1> QED
  BY <1>3, <1>4, <1>5, <1>6, <1>7, <1>8, SyncKept

\* Items get other columns or are hidden, and stay where they are.
LEMMA SyncRewrites ==
    ASSUME BoardInv, sync.op \in {"hide", "place"}, NEW o \in {"offer", "details"}, sync.op = "hide" \/ o = "details",
           sync' = [sync EXCEPT !.op = o],
           mirror' \in Cards, \A i \in Issues : mirror'[i] = None <=> mirror[i] = None,
           UNCHANGED <<tracker, theirs, recent, ids, noted, board, slot, calm, declined, blurred, stray>>
    PROVE  BoardInv'
<1> USE DEF BoardInv
<1>1. SyncOK(sync) /\ sync.op # "none" /\ sync.op \in Offering
  BY SyncKinds DEF Offering
<1>2. /\ SyncOK(sync') /\ sync'.op = o /\ sync'.board = sync.board /\ sync'.full = sync.full /\ sync'.seen = sync.seen
      /\ sync'.page = sync.page
  BY <1>1 DEF SyncOK, Sync, OnBoard, Offering
<1>3. SyncInv => SyncInv'
  <2> SUFFICES ASSUME SyncInv PROVE SyncInv'
    OBVIOUS
  <2>1. sync.op \in OnBoard /\ sync'.op \in OnBoard \cup {"list"}
    BY <1>2 DEF OnBoard, Offering
  <2>2. sync'.board = board'
    BY <1>2 DEF SyncInv
  <2> QED
    BY <1>2, <2>1, <2>2, OnBoardGoesOn
<1>4. ColumnsInv'
  BY <1>2, ColumnsAside DEF FollowsColumns
<1>5. board' \in Doc /\ ids' \in [Issues -> Nat] /\ declined' \in Layouts \cup {None} /\ sync'.op # "drop"
  BY <1>2 DEF BoardTypes
<1>6. \A i \in Issues : mirror[i] # None => mirror'[i] # None /\ ids'[i] = ids[i]
  OBVIOUS
<1> QED
  BY <1>1, <1>2, <1>3, <1>4, <1>5, <1>6, SyncKept

LEMMA HideItemsKept ==
    ASSUME BoardConstants, BoardInv, Board!HideItems
    PROVE  BoardInv'
<1>1. PICK shown \in SUBSET Statuses : shown = Board!Shown(sync.cols)
  BY DEF Board!Shown
<1>2. /\ sync.op = "hide" /\ mirror' = Board!MarkHidden(mirror, shown) /\ sync' = [sync EXCEPT !.op = "offer"]
      /\ UNCHANGED <<tracker, theirs, recent, ids, noted, board, slot, calm, declined, blurred, stray>>
  BY <1>1 DEF Board!HideItems, Board!Unread, Board!Ours, Board!History
<1>3. mirror \in Cards
  BY DEF BoardInv, BoardTypes
<1>4. mirror' \in Cards /\ \A i \in Issues : mirror'[i] = None <=> mirror[i] = None
  BY <1>2, <1>3, MarksKeep
<1> QED
  BY <1>2, <1>4, SyncRewrites

LEMMA SyncPlacesKept ==
    ASSUME BoardConstants, BoardInv, Board!SyncPlaces
    PROVE  BoardInv'
<1>1. /\ sync.op = "place" /\ mirror' = Board!PlaceAll(mirror, sync.board) /\ sync' = [sync EXCEPT !.op = "details"]
      /\ UNCHANGED <<tracker, theirs, recent, ids, noted, board, slot, calm, declined, blurred, stray>>
  BY DEF Board!SyncPlaces, Board!Unread, Board!Ours, Board!History
<1>2. mirror \in Cards /\ sync.board \in Doc
  BY <1>1, SyncKinds DEF BoardInv, BoardTypes, SyncOK, Sync
<1>3. mirror' \in Cards /\ \A i \in Issues : mirror'[i] = None <=> mirror[i] = None
  BY <1>1, <1>2, PlacesKeep
<1> QED
  BY <1>1, <1>3, SyncRewrites

LEMMA OfferColumnsKept ==
    ASSUME BoardInv, Board!OfferColumns
    PROVE  BoardInv'
<1> USE DEF BoardInv
<1>1. PICK b : b = sync.board
  OBVIOUS
<1>2. PICK cols : cols = sync.cols
  OBVIOUS
<1>3. /\ sync.op = "offer" /\ SyncOK(sync)
      /\ UNCHANGED <<tracker, theirs, recent, mirror, ids, noted, slot, calm, blurred, stray>>
  BY SyncKinds DEF Board!OfferColumns, Board!Unread, Board!Ours, Board!Mirror
<1>4. cols \in Layouts /\ board \in Doc /\ b \in Doc /\ declined \in Layouts \cup {None} /\ mirror' \in Cards /\ ids' \in [Issues -> Nat]
  BY <1>1, <1>2, <1>3 DEF SyncOK, Sync, Offering, BoardTypes
<1>5. sync.op # "none" /\ sync.op \in OnBoard /\ sync.op \in FollowsColumns
  BY <1>3 DEF OnBoard, Offering, FollowsColumns
<1>6. \A i \in Issues : mirror[i] # None => mirror'[i] # None /\ ids'[i] = ids[i]
  BY <1>3
<1>7. CASE b.mode = "tracker" /\ cols # b.cols
  <2>1. PICK c : c = [board EXCEPT !.cols = cols]
    OBVIOUS
  <2>2. board' = c /\ sync' = [sync EXCEPT !.op = "place", !.board = c] /\ declined' = declined
    BY <1>1, <1>2, <1>7, <2>1 DEF Board!OfferColumns
  <2>3. c \in Doc /\ c.mode = board.mode /\ c.cols = cols /\ c.prompt = board.prompt /\ c.offered = board.offered
    BY <1>4, <2>1 DEF Doc
  <2>4. /\ SyncOK(sync') /\ sync'.op = "place" /\ sync'.board = c /\ sync'.full = sync.full /\ sync'.seen = sync.seen
        /\ sync'.page = sync.page
    BY <1>3, <2>2, <2>3 DEF SyncOK, Sync, OnBoard, Offering
  <2>5. SyncInv => SyncInv'
    BY <1>5, <2>2, <2>4, OnBoardGoesOn DEF OnBoard, Offering
  <2>6. ColumnsInv'
    <3>1. Board!Torn' => blurred = TRUE
      BY <1>1, <1>5, <1>7, <2>2, <2>3 DEF Board!Torn, ColumnsInv, BoardTypes
    <3>2. Settled(board)' <=> Settled(board)
      BY <2>2, <2>3 DEF Settled
    <3>3. sync'.op \notin FollowsColumns
      BY <2>4 DEF FollowsColumns
    <3> QED
      BY <1>3, <2>2, <2>3, <3>1, <3>2, <3>3 DEF ColumnsInv
  <2> QED
    BY <1>3, <1>4, <1>5, <1>6, <2>2, <2>3, <2>4, <2>5, <2>6, SyncKept
<1>8. CASE ~(b.mode = "tracker" /\ cols # b.cols) /\ (b.mode = "tracker" \/ (b.prompt = "dismissed" /\ b.offered = cols))
  <2>1. sync' = [sync EXCEPT !.op = "details"] /\ board' = board /\ declined' = declined
    BY <1>1, <1>2, <1>8 DEF Board!OfferColumns
  <2>2. /\ SyncOK(sync') /\ sync'.op = "details" /\ sync'.board = sync.board /\ sync'.full = sync.full /\ sync'.seen = sync.seen
        /\ sync'.page = sync.page
    BY <1>3, <2>1 DEF SyncOK, Sync, OnBoard, Offering
  <2>3. SyncInv => SyncInv'
    <3>1. sync'.op \in OnBoard
      BY <2>2 DEF OnBoard
    <3>2. SyncInv => sync'.board = board'
      BY <2>1, <2>2 DEF SyncInv
    <3> QED
      BY <1>5, <2>2, <3>1, <3>2, OnBoardGoesOn
  <2>4. sync'.op # "drop"
    BY <2>2
  <2> QED
    BY <1>3, <1>5, <2>1, <2>2, <2>3, <2>4, SyncReads
<1>9. CASE ~(b.mode = "tracker") /\ ~(b.prompt = "dismissed" /\ b.offered = cols)
  <2>1. PICK c : c = [board EXCEPT !.prompt = "pending", !.offered = cols]
    OBVIOUS
  <2>2. /\ board' = c /\ sync' = [sync EXCEPT !.op = "details", !.board = c]
        /\ declined' = IF cols = declined THEN declined ELSE None
    BY <1>1, <1>2, <1>9, <2>1 DEF Board!OfferColumns
  <2>3. c \in Doc /\ c.mode = board.mode /\ c.cols = board.cols
    BY <1>4, <2>1 DEF Doc
  <2>4. /\ SyncOK(sync') /\ sync'.op = "details" /\ sync'.board = c /\ sync'.full = sync.full /\ sync'.seen = sync.seen
        /\ sync'.page = sync.page
    BY <1>3, <2>2, <2>3 DEF SyncOK, Sync, OnBoard, Offering
  <2>5. SyncInv => SyncInv'
    BY <1>5, <2>2, <2>4, OnBoardGoesOn DEF OnBoard, Offering
  <2>6. ColumnsInv'
    <3>1. Board!Torn' <=> Board!Torn
      BY <2>2, <2>3 DEF Board!Torn
    <3>2. blurred = FALSE => declined' = None
      <4>1. blurred = FALSE /\ declined # None => Settled(sync.board)
        BY <1>5 DEF ColumnsInv
      <4>2. Settled(sync.board) => b.prompt = "dismissed" /\ b.offered = declined
        BY <1>1, <1>9 DEF Settled
      <4> QED
        BY <1>9, <2>2, <4>1, <4>2
    <3>3. sync'.op \notin FollowsColumns
      BY <2>4 DEF FollowsColumns
    <3> QED
      BY <1>3, <3>1, <3>2, <3>3 DEF ColumnsInv
  <2>7. declined' \in Layouts \cup {None} /\ sync'.op # "drop" /\ board' \in Doc
    BY <1>4, <2>2, <2>3, <2>4
  <2> QED
    BY <1>3, <1>4, <1>5, <1>6, <2>4, <2>5, <2>6, <2>7, SyncKept
<1> QED
  BY <1>7, <1>8, <1>9

LEMMA ColumnsFailKept ==
    ASSUME BoardInv, Board!ColumnsFail
    PROVE  BoardInv'
<1> USE DEF BoardInv
<1>1. /\ sync.op \in {"show", "hide", "offer", "place"} /\ SyncOK(sync) /\ calm' = FALSE
      /\ sync' = [sync EXCEPT !.op = "details", !.board = sync.was]
      /\ UNCHANGED <<tracker, theirs, recent, mirror, ids, noted, board, slot, declined, blurred, stray>>
  BY SyncKinds DEF Board!ColumnsFail, Board!Unread, Board!Ours, Board!History, Board!Mirror
<1>2. SyncOK(sync') /\ sync'.op = "details"
  BY <1>1 DEF SyncOK, Sync, OnBoard, Offering
<1>3. BoardTypes'
  BY <1>1, <1>2 DEF BoardTypes, SyncOK
<1>4. ColumnsInv'
  BY <1>1, <1>2, ColumnsAside DEF FollowsColumns
<1>5. RecordsInv'
  BY <1>1, <1>2, ItemsStay, RecordsAside
<1>6. PlacedInv'
  BY <1>1 DEF PlacedInv
<1> QED
  BY <1>3, <1>4, <1>5, <1>6

LEMMA ReadDetailsKept ==
    ASSUME BoardInv, Board!ReadDetails
    PROVE  BoardInv'
<1>1. PICK b \in {board, sync.board} : sync' = [sync EXCEPT !.op = "list", !.board = b, !.was = None, !.cols = None]
  BY DEF Board!ReadDetails
<1>2. /\ sync.op = "details" /\ SyncOK(sync)
      /\ UNCHANGED <<tracker, theirs, recent, mirror, ids, noted, board, slot, calm, declined, blurred, stray>>
  BY SyncKinds DEF Board!ReadDetails, Board!Unread, Board!Ours, Board!History, Board!Mirror, BoardInv
<1>3. b \in Doc
  BY <1>1, <1>2 DEF BoardInv, BoardTypes, SyncOK, Sync
<1>4. /\ SyncOK(sync') /\ sync'.op = "list" /\ sync'.board = b /\ sync'.full = sync.full /\ sync'.seen = sync.seen
      /\ sync'.page = sync.page
  BY <1>1, <1>2, <1>3 DEF SyncOK, Sync, OnBoard, Offering
<1>5. SyncInv => SyncInv'
  <2> SUFFICES ASSUME SyncInv PROVE SyncInv'
    OBVIOUS
  <2>1. sync.op \in OnBoard /\ sync'.op \in OnBoard \cup {"list"}
    BY <1>2, <1>4 DEF OnBoard
  <2>2. sync'.board = board'
    BY <1>1, <1>2, <1>4 DEF SyncInv
  <2> QED
    BY <1>4, <2>1, <2>2, OnBoardGoesOn
<1>6. sync'.op # "drop" /\ sync'.op \notin FollowsColumns /\ sync.op # "none"
  BY <1>2, <1>4 DEF FollowsColumns
<1> QED
  BY <1>2, <1>4, <1>5, <1>6, SyncReads

LEMMA ListKept ==
    ASSUME BoardInv, Board!List
    PROVE  BoardInv'
<1>1. PICK rest : rest = Board!Listed
  OBVIOUS
<1>2. /\ sync.op = "list" /\ SyncOK(sync) /\ sync' = [sync EXCEPT !.op = "issues", !.left = rest]
      /\ UNCHANGED <<tracker, theirs, recent, mirror, ids, noted, board, slot, calm, declined, blurred, stray>>
  BY <1>1, SyncKinds DEF Board!List, Board!Unread, Board!Ours, Board!History, Board!Mirror, BoardInv
<1>3. rest \in SUBSET Issues /\ (sync.full = TRUE => \A i \in Issues : tracker[i] # None => i \in rest)
  BY <1>1 DEF Board!Listed, Board!AtTracker
<1>4. /\ SyncOK(sync') /\ sync'.op = "issues" /\ sync'.board = sync.board /\ sync'.full = sync.full /\ sync'.seen = sync.seen
      /\ sync'.page = sync.page /\ sync'.left = rest
  BY <1>2, <1>3 DEF SyncOK, Sync, OnBoard, Offering
<1>5. sync.full \in BOOLEAN
  BY <1>2 DEF SyncOK, Sync
<1>6. SyncInv => SyncInv'
  BY <1>2, <1>3, <1>4, <1>5, StillPlaced DEF SyncInv, OnBoard, Offering
<1>7. sync'.op # "drop" /\ sync'.op \notin FollowsColumns /\ sync.op # "none"
  BY <1>2, <1>4 DEF FollowsColumns
<1> QED
  BY <1>2, <1>4, <1>6, <1>7, SyncReads

LEMMA ReadIssueKept ==
    ASSUME BoardConstants, BoardInv, NEW i \in Issues, Board!ReadIssue(i)
    PROVE  BoardInv'
<1>1. PICK card : card = Board!Place(sync.board, tracker[i])
  OBVIOUS
<1>2. PICK p : p = [i |-> i, item |-> card]
  OBVIOUS
<1>3. PICK b \in {sync.board, board} : sync' = [sync EXCEPT !.left = @ \ {i}, !.seen = @ \cup {i}, !.board = b, !.page = p]
  BY <1>1, <1>2 DEF Board!ReadIssue
<1>4. /\ sync.op = "issues" /\ SyncOK(sync) /\ sync.page = None /\ tracker[i] # None
      /\ UNCHANGED <<tracker, theirs, recent, mirror, ids, noted, board, slot, calm, declined, blurred, stray>>
  BY SyncKinds DEF Board!ReadIssue, Board!AtTracker, Board!Unread, Board!Ours, Board!History, Board!Mirror, BoardInv
<1>5. tracker[i] \in Issue /\ sync.board \in Doc /\ b \in Doc
  BY <1>3, <1>4 DEF BoardInv, BoardTypes, SyncOK, Sync
<1>6. p \in Page /\ p # None /\ p.i = i /\ p.item = card
  BY <1>1, <1>2, <1>5, PlaceIsCard DEF Page, BoardConstants
<1>7. /\ SyncOK(sync') /\ sync'.op = "issues" /\ sync'.board = b /\ sync'.full = sync.full /\ sync'.seen = sync.seen \cup {i}
      /\ sync'.page = p /\ sync'.left = sync.left \ {i}
  BY <1>3, <1>4, <1>5, <1>6 DEF SyncOK, Sync, OnBoard, Offering
<1>8. SyncInv => SyncInv'
  <2> SUFFICES ASSUME SyncInv PROVE SyncInv'
    OBVIOUS
  <2>1. sync.board = board /\ b = board
    BY <1>3 DEF SyncInv
  <2>2. \A j \in sync'.seen : WrittenHere(j)'
    <3> SUFFICES ASSUME NEW j \in sync'.seen PROVE WrittenHere(j)'
      OBVIOUS
    <3>1. CASE j = i
      BY <1>6, <1>7, <3>1 DEF WrittenHere
    <3>2. CASE j # i
      <4>1. Placed(j)
        BY <1>4, <1>7, <3>2 DEF SyncInv, WrittenHere
      <4> QED
        BY <1>4, <4>1, StillPlaced DEF WrittenHere
    <3> QED
      BY <3>1, <3>2
  <2>3. tracker'[sync'.page.i] # None /\ sync'.page.item = Board!Place(board, tracker[i])' /\ sync'.page.i = i
    BY <1>1, <1>4, <1>6, <1>7, <2>1, SamePlace
  <2>4. \A j \in Issues : tracker'[j] # None => sync'.full = FALSE \/ j \in sync'.seen \cup sync'.left
    BY <1>4, <1>7 DEF SyncInv
  <2>5. sync'.full = FALSE => AllPlaced'
    BY <1>4, <1>7, StillPlaced DEF SyncInv
  <2>6. Board!Place(board', tracker'[sync'.page.i]) = Board!Place(board, tracker[i])'
    BY <2>3
  <2> QED
    BY <1>4, <1>7, <2>1, <2>2, <2>3, <2>4, <2>5, <2>6 DEF SyncInv, OnBoard, Offering
<1>9. sync'.op # "drop" /\ sync'.op \notin FollowsColumns /\ sync.op # "none"
  BY <1>4, <1>7 DEF FollowsColumns
<1> QED
  BY <1>4, <1>7, <1>8, <1>9, SyncReads

\* WrittenHere here, an item is what it was read as, and the others are as they were.
LEMMA Upserts ==
    ASSUME BoardConstants, BoardTypes, NEW i \in Issues, NEW card \in Card, Board!Upsert(i, card)
    PROVE  /\ mirror' \in Cards /\ ids' \in [Issues -> Nat]
           /\ mirror'[i] = card /\ card # None /\ \A j \in Issues : j # i => mirror'[j] = mirror[j]
           /\ \A j \in Issues : mirror[j] # None => mirror'[j] # None /\ ids'[j] = ids[j]
<1>1. mirror' = [mirror EXCEPT ![i] = card] /\ ids' = IF mirror[i] = None THEN [ids EXCEPT ![i] = @ + 1] ELSE ids
  BY DEF Board!Upsert
<1>2. mirror \in [Issues -> Card \cup {None}] /\ ids \in [Issues -> Nat] /\ None \notin Card
  BY DEF BoardTypes, Cards, BoardConstants
<1>3. mirror' \in [Issues -> Card \cup {None}] /\ mirror'[i] = card /\ card # None /\ \A j \in Issues : j # i => mirror'[j] = mirror[j]
  BY <1>1, <1>2
<1>4. ids' \in [Issues -> Nat]
  <2>1. ids[i] + 1 \in Nat
    BY <1>2
  <2> QED
    BY <1>1, <1>2, <2>1
<1>5. \A j \in Issues : mirror[j] # None => mirror'[j] # None /\ ids'[j] = ids[j]
  BY <1>1, <1>2, <1>3
<1> QED
  BY <1>3, <1>4, <1>5 DEF Cards

\* One that is written as the tracker has it and the board places it is in place.
LEMMA UpsertPlaces ==
    ASSUME NEW i \in Issues, NEW card, UNCHANGED <<tracker, board>>, tracker[i] # None, card = Board!Place(board, tracker[i]),
           mirror'[i] = card, \A j \in Issues : j # i => mirror'[j] = mirror[j]
    PROVE  Placed(i)' /\ \A j \in Issues : Placed(j) => Placed(j)'
BY SamePlace DEF Placed

LEMMA WriteIssueKept ==
    ASSUME BoardConstants, BoardInv, Board!WriteIssue
    PROVE  BoardInv'
<1> USE DEF BoardInv
<1>1. PICK i : i = sync.page.i
  OBVIOUS
<1>2. PICK card : card = sync.page.item
  OBVIOUS
<1>3. /\ sync.op = "issues" /\ SyncOK(sync) /\ sync.page # None /\ sync' = [sync EXCEPT !.page = None] /\ Board!Upsert(i, card)
      /\ UNCHANGED <<tracker, theirs, recent, noted, board, slot, calm, declined, blurred, stray>>
  BY <1>1, <1>2, SyncKinds DEF Board!WriteIssue, Board!Unread, Board!Ours, Board!History
<1>4. i \in Issues /\ card \in Card
  BY <1>1, <1>2, <1>3 DEF SyncOK, Sync, Page
<1>5. /\ SyncOK(sync') /\ sync'.op = "issues" /\ sync'.board = sync.board /\ sync'.full = sync.full /\ sync'.seen = sync.seen
      /\ sync'.page = None /\ sync'.left = sync.left
  BY <1>3 DEF SyncOK, Sync, OnBoard, Offering
<1>6. /\ mirror' \in Cards /\ ids' \in [Issues -> Nat]
      /\ mirror'[i] = card /\ \A j \in Issues : j # i => mirror'[j] = mirror[j]
      /\ \A j \in Issues : mirror[j] # None => mirror'[j] # None /\ ids'[j] = ids[j]
  BY <1>3, <1>4, Upserts
<1>7. SyncInv => SyncInv'
  <2> SUFFICES ASSUME SyncInv PROVE SyncInv'
    OBVIOUS
  <2>1. tracker[i] # None /\ card = Board!Place(board, tracker[i])
    BY <1>1, <1>2, <1>3 DEF SyncInv
  <2>2. Placed(i)' /\ \A j \in Issues : Placed(j) => Placed(j)'
    BY <1>3, <1>4, <1>6, <2>1, UpsertPlaces
  <2>3. \A j \in sync'.seen : WrittenHere(j)'
    <3>1. sync.seen \subseteq Issues
      BY <1>3 DEF SyncOK, Sync
    <3>2. \A j \in sync.seen : Placed(j) \/ j = i
      BY <1>1, <1>3 DEF SyncInv, WrittenHere
    <3> QED
      BY <1>5, <2>2, <3>1, <3>2 DEF WrittenHere
  <2>4. AllPlaced => AllPlaced'
    BY <2>2 DEF AllPlaced
  <2>5. sync'.board = board'
    BY <1>3, <1>5 DEF SyncInv
  <2>6. \A j \in Issues : tracker'[j] # None => sync'.full = FALSE \/ j \in sync'.seen \cup sync'.left
    BY <1>3, <1>5 DEF SyncInv
  <2>7. sync'.full = FALSE => AllPlaced'
    BY <1>3, <1>5, <2>4 DEF SyncInv
  <2> QED
    BY <1>5, <2>3, <2>5, <2>6, <2>7 DEF SyncInv, OnBoard, Offering
<1>8. ColumnsInv'
  BY <1>3, <1>5, ColumnsAside DEF FollowsColumns
<1>9. sync'.op # "drop" /\ sync.op # "none" /\ board' \in Doc /\ declined' \in Layouts \cup {None}
  BY <1>3, <1>5 DEF BoardTypes
<1> QED
  BY <1>3, <1>5, <1>6, <1>7, <1>8, <1>9, SyncKept

\* A sync that is over leaves all in place, if it was calm.
LEMMA SyncEnds ==
    ASSUME BoardTypes, PlacedInv, sync.op # "none", slot' = slot, sync' = Board!Free, calm' = calm,
           SyncInv => AllPlaced'
    PROVE  PlacedInv'
<1> SUFFICES ASSUME calm' = TRUE PROVE CalmInv'
  BY DEF PlacedInv
<1>1. Quiet /\ SyncInv
  BY SyncAlone
<1>2. Quiet' /\ sync'.op = "none"
  BY <1>1 DEF Quiet, Board!Free
<1> QED
  BY <1>1, <1>2 DEF CalmInv, Quiet

LEMMA FindGoneKept ==
    ASSUME BoardInv, Board!FindGone
    PROVE  BoardInv'
<1> USE DEF BoardInv
<1>1. PICK gone : gone = {Board!Item(i) : i \in Board!Mirrored \ sync.seen}
  OBVIOUS
<1>2. /\ sync.op = "issues" /\ SyncOK(sync) /\ sync.page = None /\ sync.left \cap Board!AtTracker = {}
      /\ sync' = IF sync.full /\ gone # {} THEN [sync EXCEPT !.op = "sweep", !.gone = gone] ELSE Board!Free
      /\ UNCHANGED <<tracker, theirs, recent, mirror, ids, noted, board, slot, calm, declined, blurred, stray>>
  BY <1>1, SyncKinds DEF Board!FindGone, Board!Unread, Board!Ours, Board!History, Board!Mirror
<1>3. gone \in SUBSET ItemIds
  BY <1>1 DEF Board!Item, Board!Mirrored, ItemIds, BoardTypes
<1>4. \A i \in Issues : Board!Item(i) \in gone <=> mirror[i] # None /\ i \notin sync.seen
  BY <1>1 DEF Board!Item, Board!Mirrored
<1>5. sync.full \in BOOLEAN /\ sync.op # "none"
  BY <1>2 DEF SyncOK, Sync
<1>6. SyncInv => /\ sync.full = TRUE => \A i \in Issues : tracker[i] # None => i \in sync.seen
                 /\ \A i \in sync.seen : Placed(i)
                 /\ sync.full = FALSE => AllPlaced
                 /\ sync.board = board
  <2> SUFFICES ASSUME SyncInv PROVE /\ sync.full = TRUE => \A i \in Issues : tracker[i] # None => i \in sync.seen
                                    /\ \A i \in sync.seen : Placed(i)
                                    /\ sync.full = FALSE => AllPlaced
                                    /\ sync.board = board
    OBVIOUS
  <2>1. \A i \in Issues : tracker[i] # None => sync.full = FALSE \/ i \in sync.seen \cup sync.left
    BY <1>2 DEF SyncInv
  <2>2. \A i \in Issues : tracker[i] # None => i \notin sync.left
    BY <1>2 DEF Board!AtTracker
  <2>3. \A i \in sync.seen : Placed(i)
    BY <1>2 DEF SyncInv, WrittenHere
  <2> QED
    BY <2>1, <2>2, <2>3 DEF SyncInv
<1>7. CASE sync.full = TRUE /\ gone # {}
  <2>1. sync' = [sync EXCEPT !.op = "sweep", !.gone = gone]
    BY <1>2, <1>7
  <2>2. SyncOK(sync') /\ sync'.op = "sweep" /\ sync'.gone = gone /\ sync'.board = sync.board /\ sync'.full = sync.full
    BY <1>2, <1>3, <2>1 DEF SyncOK, Sync, OnBoard, Offering
  <2>3. SyncInv => SyncInv'
    <3> SUFFICES ASSUME SyncInv PROVE SyncInv'
      OBVIOUS
    <3>1. \A i \in Issues : IF Board!Item(i) \in gone THEN tracker[i] = None ELSE Placed(i)
      BY <1>4, <1>6, <1>7 DEF Placed
    <3>2. \A i : Board!Item(i)' = Board!Item(i)
      BY <1>2 DEF Board!Item
    <3>3. \A i \in Issues : IF Board!Item(i)' \in sync'.gone THEN tracker'[i] = None ELSE Placed(i)'
      BY <1>2, <2>2, <3>1, <3>2, StillPlaced
    <3> QED
      BY <1>2, <1>6, <1>7, <2>2, <3>3 DEF SyncInv, OnBoard, Offering
  <2>4. sync'.op # "drop" /\ sync'.op \notin FollowsColumns
    BY <2>2 DEF FollowsColumns
  <2> QED
    BY <1>2, <1>5, <2>2, <2>3, <2>4, SyncReads
<1>8. CASE ~(sync.full = TRUE /\ gone # {})
  <2>1. sync' = Board!Free /\ sync'.op = "none"
    BY <1>2, <1>5, <1>8 DEF Board!Free
  <2>2. BoardTypes'
    BY <1>2, <2>1 DEF BoardTypes
  <2>3. ColumnsInv'
    BY <1>2, <2>1, ColumnsAside DEF FollowsColumns
  <2>4. RecordsInv'
    BY <1>2, <2>1, ItemsStay, RecordsAside
  <2>5. SyncInv => AllPlaced'
    <3> SUFFICES ASSUME SyncInv PROVE AllPlaced
      BY <1>2, StillPlaced
    <3>1. CASE sync.full = TRUE
      <4>1. \A i \in Issues : mirror[i] = None \/ i \in sync.seen
        BY <1>4, <1>8, <3>1
      <4> QED
        BY <1>6, <3>1, <4>1 DEF AllPlaced, Placed
    <3>2. CASE sync.full = FALSE
      BY <1>6, <3>2
    <3> QED
      BY <1>5, <3>1, <3>2
  <2>6. PlacedInv'
    BY <1>2, <1>5, <2>1, <2>5, SyncEnds
  <2> QED
    BY <2>2, <2>3, <2>4, <2>6
<1> QED
  BY <1>7, <1>8

LEMMA SweepCommentsKept ==
    ASSUME BoardInv, Board!SweepComments
    PROVE  BoardInv'
<1> USE DEF BoardInv
<1>1. /\ sync.op = "sweep" /\ SyncOK(sync) /\ noted' = noted \ sync.gone /\ sync' = [sync EXCEPT !.op = "drop"]
      /\ UNCHANGED <<tracker, theirs, recent, mirror, ids, board, slot, calm, declined, blurred, stray>>
  BY SyncKinds DEF Board!SweepComments, Board!Unread, Board!Ours, Board!History, Board!Mirror
<1>2. SyncOK(sync') /\ sync'.op = "drop" /\ sync'.board = sync.board /\ sync'.full = sync.full /\ sync'.gone = sync.gone
  BY <1>1 DEF SyncOK, Sync, OnBoard, Offering
<1>3. BoardTypes'
  BY <1>1, <1>2 DEF BoardTypes, SyncOK
<1>4. ColumnsInv'
  BY <1>1, <1>2, ColumnsAside DEF FollowsColumns
<1>5. RecordsInv'
  <2>1. \A n : Deleting(n) => Deleting(n)'
    BY <1>1 DEF Deleting
  <2>2. Board!ItemsHere' = Board!ItemsHere
    BY <1>1 DEF Board!ItemsHere, Board!Mirrored, Board!Item
  <2> QED
    BY <1>1, <1>2, <2>1, <2>2 DEF RecordsInv
<1>6. SyncInv => SyncInv'
  <2>1. \A i : Board!Item(i)' = Board!Item(i)
    BY <1>1 DEF Board!Item
  <2> QED
    BY <1>1, <1>2, <2>1, StillPlaced DEF SyncInv, OnBoard, Offering
<1>7. sync.op # "none" /\ sync'.op # "none"
  BY <1>1, <1>2
<1>8. PlacedInv'
  BY <1>1, <1>6, <1>7, SyncGoesOn
<1> QED
  BY <1>3, <1>4, <1>5, <1>8

LEMMA SweepItemsKept ==
    ASSUME BoardConstants, BoardInv, Board!SweepItems
    PROVE  BoardInv'
<1> USE DEF BoardInv
<1>1. /\ sync.op = "drop" /\ SyncOK(sync) /\ mirror' = [i \in Issues |-> IF Board!Item(i) \in sync.gone THEN None ELSE mirror[i]]
      /\ sync' = Board!Free /\ sync'.op = "none"
      /\ UNCHANGED <<tracker, theirs, recent, ids, noted, board, slot, calm, declined, blurred, stray>>
  BY SyncKinds DEF Board!SweepItems, Board!Unread, Board!Ours, Board!History, Board!Free
<1>2. BoardTypes'
  <2>1. mirror' \in Cards
    BY <1>1 DEF BoardTypes, Cards
  <2> QED
    BY <1>1, <2>1 DEF BoardTypes
<1>3. ColumnsInv'
  BY <1>1, ColumnsAside DEF FollowsColumns
<1>4. RecordsInv'
  <2>1. \A n : Deleting(n) => Deleting(n)'
    BY <1>1 DEF Deleting
  <2>2. \A n \in Board!ItemsHere : n \in sync.gone \/ n \in Board!ItemsHere'
    BY <1>1 DEF Board!ItemsHere, Board!Mirrored, Board!Item
  <2>3. \A n \in noted : n \in sync.gone => n \in stray
    BY <1>1 DEF RecordsInv
  <2> QED
    BY <1>1, <2>1, <2>2, <2>3 DEF RecordsInv
<1>5. SyncInv => AllPlaced'
  <2> SUFFICES ASSUME SyncInv, NEW i \in Issues PROVE Placed(i)'
    BY DEF AllPlaced
  <2>1. IF Board!Item(i) \in sync.gone THEN tracker[i] = None ELSE Placed(i)
    BY <1>1 DEF SyncInv
  <2>2. mirror'[i] = IF Board!Item(i) \in sync.gone THEN None ELSE mirror[i]
    BY <1>1
  <2> QED
    BY <1>1, <2>1, <2>2, SamePlace DEF Placed
<1>6. PlacedInv'
  BY <1>1, <1>5, SyncEnds
<1> QED
  BY <1>2, <1>3, <1>4, <1>6

LEMMA SyncStopsKept ==
    ASSUME BoardInv, Board!SyncStops
    PROVE  BoardInv'
<1> USE DEF BoardInv
<1>1. /\ SyncOK(sync) /\ sync' = Board!Free /\ sync'.op = "none" /\ calm' = FALSE /\ recent' = recent \cup sync.took
      /\ UNCHANGED <<tracker, theirs, mirror, ids, noted, board, slot, declined, blurred, stray>>
  BY SyncKinds DEF Board!SyncStops, Board!Ours, Board!History, Board!Mirror, Board!Free
<1>2. sync.took \subseteq Issues
  BY <1>1 DEF SyncOK, Sync
<1>3. BoardTypes'
  BY <1>1, <1>2 DEF BoardTypes
<1>4. ColumnsInv'
  BY <1>1, ColumnsAside DEF FollowsColumns
<1>5. RecordsInv'
  BY <1>1, ItemsStay, RecordsAside
<1>6. PlacedInv'
  BY <1>1 DEF PlacedInv
<1> QED
  BY <1>3, <1>4, <1>5, <1>6

-----------------------------------------------------------------------------
(***************************************************************************)
(* TrackerBoard: what is asked of it                                       *)
(***************************************************************************)

\* A request that goes on, or ends.
LEMMA RequestSteps ==
    ASSUME BoardInv, NEW r \in Slots, NEW k \in Request \cup {Board!Free}, slot' = [slot EXCEPT ![r] = k], sync' = sync,
           slot[r].op # "none", calm' \in BOOLEAN, calm' = TRUE => calm = TRUE,
           tracker' \in [Issues -> Issue \cup {None}], theirs' \in Layouts, recent' \subseteq Issues, mirror' \in Cards,
           ids' \in [Issues -> Nat], noted' \subseteq ItemIds, board' \in Doc, blurred' \in BOOLEAN,
           declined' \in Layouts \cup {None}, ColumnsInv', RecordsInv',
           calm' = TRUE /\ RequestInv(slot[r]) => RequestInv(k)'
    PROVE  BoardInv'
<1> USE DEF BoardInv
<1>1. slot' \in [Slots -> Request \cup {Board!Free}]
  BY SlotsKept
<1>2. sync' = Board!Free \/ SyncOK(sync')
  BY DEF BoardTypes
<1>3. BoardTypes'
  <2>1. SyncOK(sync)' <=> SyncOK(sync')
    BY DEF SyncOK
  <2> QED
    BY <1>1, <1>2, <2>1 DEF BoardTypes
<1>4. ~(~Board!Busy /\ slot[r].op # "none")
  BY NobodyAtWork DEF Quiet
<1>5. PlacedInv'
  <2>1. calm' = TRUE /\ ~Board!Busy /\ AllPlaced => RequestInv(k)'
    BY <1>4
  <2>2. calm' = TRUE => calm = TRUE /\ (~Board!Busy \/ slot[r].op # "none")
    OBVIOUS
  <2>3. calm' = TRUE /\ slot[r].op # "none" /\ RequestInv(slot[r]) => RequestInv(k)'
    OBVIOUS
  <2> QED
    BY <2>1, <2>2, <2>3, StepsCalm
<1> QED
  BY <1>3, <1>5

LEMMA AskKept ==
    ASSUME BoardInv, NEW r \in Slots, NEW k \in Request, Board!Begin(r, k), AllPlaced => RequestInv(k)
    PROVE  BoardInv'
<1> USE DEF BoardInv
<1>1. /\ slot[r] = Board!Free /\ slot[r].op = "none" /\ slot' = [slot EXCEPT ![r] = k]
      /\ UNCHANGED <<tracker, theirs, recent, mirror, ids, noted, board, sync, declined, blurred, stray>>
  BY DEF Board!Begin, Board!Free, Board!Unread, Board!Mirror, Board!History
<1>2. calm' \in BOOLEAN /\ (calm' = TRUE => calm = TRUE /\ ~Board!Busy)
  <2>1. calm' = (calm /\ ~Board!Busy)
    BY DEF Board!Begin
  <2>2. calm \in BOOLEAN
    BY DEF BoardTypes
  <2> QED
    BY <2>1, <2>2
<1>3. slot' \in [Slots -> Request \cup {Board!Free}]
  BY <1>1, SlotsKept
<1>4. BoardTypes'
  BY <1>1, <1>2, <1>3 DEF BoardTypes, SyncOK
<1>5. ColumnsInv'
  BY <1>1, ColumnsAside
<1>6. RecordsInv'
  <2>1. \A q \in Slots : slot[q].op = "delete comments" => slot'[q] = slot[q]
    BY <1>1, SlotsKept
  <2> QED
    BY <1>1, <2>1, ItemsStay, RecordsAside
<1>7. RequestInv(k)' <=> RequestInv(k)
  BY <1>1, StillRequested
<1>8. PlacedInv'
  BY <1>1, <1>2, <1>7, StepsCalm
<1> QED
  BY <1>4, <1>5, <1>6, <1>8

\* A request that only reads.
LEMMA GoKept ==
    ASSUME BoardInv, NEW r \in Slots, NEW k \in Request \cup {Board!Free}, slot' = [slot EXCEPT ![r] = k],
           slot[r].op \notin {"none", "delete comments"}, calm' \in BOOLEAN, calm' = TRUE => calm = TRUE,
           UNCHANGED <<tracker, theirs, recent, mirror, ids, noted, board, sync, declined, blurred, stray>>,
           calm' = TRUE /\ RequestInv(slot[r]) => RequestInv(k)
    PROVE  BoardInv'
<1> USE DEF BoardInv
<1>1. ColumnsInv'
  BY ColumnsAside
<1>2. RecordsInv'
  <2>1. \A q \in Slots : slot[q].op = "delete comments" => slot'[q] = slot[q]
    BY SlotsKept
  <2> QED
    BY <2>1, ItemsStay, RecordsAside
<1>3. RequestInv(k)' <=> RequestInv(k)
  BY StillRequested
<1>4. /\ tracker' \in [Issues -> Issue \cup {None}] /\ theirs' \in Layouts /\ recent' \subseteq Issues /\ mirror' \in Cards
      /\ ids' \in [Issues -> Nat] /\ noted' \subseteq ItemIds /\ board' \in Doc /\ blurred' \in BOOLEAN
      /\ declined' \in Layouts \cup {None}
  BY DEF BoardTypes
<1>5. calm' = TRUE /\ RequestInv(slot[r]) => RequestInv(k)'
  BY <1>3
<1> QED
  BY <1>1, <1>2, <1>4, <1>5, RequestSteps

\* One that changes issue i at the tracker; here it is as it was.
LEMMA TellKept ==
    ASSUME BoardInv, NEW r \in Slots, NEW k \in Request, NEW i \in Issues, NEW x \in Issue \cup {None}, Board!Tell(r, i, x, k),
           slot[r].op \notin {"none", "delete comments"},
           RequestInv(slot[r]) /\ PlacedBut(i)' /\ tracker'[i] = x /\ (x = tracker[i] => AllPlaced') => RequestInv(k)',
           RequestInv(slot[r]) => AllPlaced
    PROVE  BoardInv'
<1> USE DEF BoardInv
<1>1. /\ tracker' = [tracker EXCEPT ![i] = x] /\ recent' = recent \cup {i} /\ slot' = [slot EXCEPT ![r] = k]
      /\ UNCHANGED <<theirs, mirror, ids, noted, board, sync, calm, declined, blurred, stray>>
  BY DEF Board!Tell, Board!Go, Board!Mirror, Board!History
<1>2. /\ tracker' \in [Issues -> Issue \cup {None}] /\ theirs' \in Layouts /\ recent' \subseteq Issues /\ mirror' \in Cards
      /\ ids' \in [Issues -> Nat] /\ noted' \subseteq ItemIds /\ board' \in Doc /\ blurred' \in BOOLEAN
      /\ declined' \in Layouts \cup {None} /\ calm' \in BOOLEAN
  BY <1>1 DEF BoardTypes
<1>3. ColumnsInv'
  BY <1>1, ColumnsAside
<1>4. RecordsInv'
  <2>1. \A q \in Slots : slot[q].op = "delete comments" => slot'[q] = slot[q]
    BY <1>1, SlotsKept
  <2> QED
    BY <1>1, <2>1, ItemsStay, RecordsAside
<1>5. tracker'[i] = x /\ \A j \in Issues : j # i => tracker'[j] = tracker[j]
  BY <1>1 DEF BoardTypes
<1>6. AllPlaced => PlacedBut(i)' /\ (x = tracker[i] => AllPlaced')
  <2>1. \A j \in Issues : tracker'[j] = tracker[j] => (Placed(j)' <=> Placed(j))
    BY <1>1 DEF Placed, Board!Place, Board!ResolveColumn
  <2> QED
    BY <1>5, <2>1 DEF AllPlaced, PlacedBut
<1>7. RequestInv(slot[r]) => RequestInv(k)'
  BY <1>5, <1>6
<1>8. k \in Request \cup {Board!Free} /\ slot[r].op # "none" /\ sync' = sync /\ calm' = calm
  BY <1>1
<1> QED
  BY <1>1, <1>2, <1>3, <1>4, <1>7, <1>8, RequestSteps

LEMMA AskColumnsKept ==
    ASSUME BoardInv, NEW r \in Slots, Board!AskUse(r) \/ Board!AskKeep(r)
    PROVE  BoardInv'
<1>1. PICK k : /\ Board!Begin(r, k) /\ k.board = board
               /\ \/ k = [op |-> "use", board |-> board] /\ board.offered # None
                  \/ k = [op |-> "keep", board |-> board]
  BY DEF Board!AskUse, Board!AskKeep
<1>2. k \in Request /\ k.op \in {"use", "keep"}
  BY <1>1 DEF BoardInv, BoardTypes, Request, Choosing
<1>3. AllPlaced => RequestInv(k)
  BY <1>1, <1>2 DEF RequestInv
<1> QED
  BY <1>1, <1>2, <1>3, AskKept

LEMMA ColumnIsAsked == ASSUME BoardInv, NEW s \in Statuses PROVE Board!Column(s) \in Asked
<1>1. board \in Doc
  BY DEF BoardInv, BoardTypes
<1>2. Board!ResolveColumn(board, s) \in BoardColumns
  BY <1>1, ColumnIsKnown
<1>3. {t \in Statuses : Board!ResolveColumn(board, t) = Board!ResolveColumn(board, s)} \in SUBSET Statuses
  OBVIOUS
<1> QED
  BY <1>2, <1>3 DEF Board!Column, Asked

LEMMA AskChangesKept ==
    ASSUME BoardInv, NEW r \in Slots, NEW i \in Issues, NEW s \in Statuses, NEW sprint \in BoardPlans,
           Board!AskMove(r, i, s) \/ Board!AskCreate(r, i, s, sprint) \/ Board!AskUpdate(r, i)
    PROVE  BoardInv'
<1>1. PICK col : col = Board!Column(s)
  OBVIOUS
<1>2. col \in Asked
  BY <1>1, ColumnIsAsked
<1>3. PICK k : /\ Board!Begin(r, k)
               /\ \/ k = [op |-> "transition", i |-> i, column |-> col, sprint |-> None]
                  \/ k = [op |-> "create", i |-> i, column |-> col, sprint |-> sprint]
                  \/ k = [op |-> "update", i |-> i, column |-> None, sprint |-> None]
  BY <1>1 DEF Board!AskMove, Board!AskCreate, Board!AskUpdate
<1>4. k \in Request /\ k.op \in {"transition", "create", "update"}
  BY <1>2, <1>3 DEF Request, Going, BoardPlans
<1>5. AllPlaced => RequestInv(k)
  BY <1>4 DEF RequestInv
<1> QED
  BY <1>3, <1>4, <1>5, AskKept

LEMMA ItemIsId == ASSUME BoardInv, NEW i \in Issues PROVE Board!Item(i) \in ItemIds /\ Board!Item(i)[1] = i
BY DEF BoardInv, BoardTypes, Board!Item, ItemIds

LEMMA AskSprintKept ==
    ASSUME BoardConstants, BoardInv, NEW r \in Slots, NEW i \in Issues, NEW s \in BoardPlans, Board!AskSprint(r, i, s)
    PROVE  BoardInv'
<1>1. PICK n : n = Board!Item(i)
  OBVIOUS
<1>2. PICK o : o = IF s = mirror[i].sprint THEN "store sprint" ELSE "sprint"
  OBVIOUS
<1>3. PICK k : k = [op |-> o, i |-> i, item |-> n, sprint |-> s]
  OBVIOUS
<1>4. mirror[i] # None /\ Board!Begin(r, k)
  BY <1>1, <1>2, <1>3 DEF Board!AskSprint, Board!Mirrored
<1>5. n \in ItemIds /\ n[1] = i
  BY <1>1, ItemIsId
<1>6. k \in Request /\ k.op = o /\ k.i = i /\ k.item = n /\ k.sprint = s
  <2>1. o \in {"sprint", "store sprint"}
    BY <1>2
  <2>2. k \in Planning /\ k.item[1] = k.i
    BY <1>3, <1>5, <2>1 DEF Planning
  <2> QED
    BY <1>3, <2>2 DEF Request
<1>7. AllPlaced => RequestInv(k)
  <2> SUFFICES ASSUME AllPlaced PROVE RequestInv(k)
    OBVIOUS
  <2>1. tracker[i] # None /\ mirror[i] = Board!Place(board, tracker[i])
    BY <1>4 DEF AllPlaced, Placed
  <2>2. tracker[i] \in Issue /\ board \in Doc
    BY <2>1 DEF BoardInv, BoardTypes
  <2>3. PICK m : m = mirror[i]
    OBVIOUS
  <2>4. m \in Card /\ m.sprint = tracker[i].sprint
    BY <2>1, <2>2, <2>3, PlaceIsCard
  <2>5. m = [m EXCEPT !.sprint = m.sprint]
    BY <2>4 DEF Card
  <2>6. mirror[i] = [Board!Place(board, tracker[i]) EXCEPT !.sprint = mirror[i].sprint]
    BY <2>1, <2>3, <2>5
  <2>7. o = "store sprint" => tracker[i].sprint = s
    BY <1>2, <2>3, <2>4
  <2>8. PlacedBut(i)
    BY DEF AllPlaced, PlacedBut
  <2>9. o \in {"sprint", "store sprint"}
    BY <1>2
  <2> QED
    BY <1>1, <1>4, <1>6, <2>1, <2>6, <2>7, <2>8, <2>9 DEF RequestInv, Halfway
<1> QED
  BY <1>4, <1>6, <1>7, AskKept

LEMMA AskItemKept ==
    ASSUME BoardInv, NEW r \in Slots, NEW i \in Issues, Board!AskDelete(r, i) \/ Board!AskComment(r, i)
    PROVE  BoardInv'
<1>1. PICK n : n = Board!Item(i)
  OBVIOUS
<1>2. PICK o \in {"delete", "comment"} : Board!Begin(r, [op |-> o, i |-> i, item |-> n])
  BY <1>1 DEF Board!AskDelete, Board!AskComment
<1>3. PICK k : k = [op |-> o, i |-> i, item |-> n]
  OBVIOUS
<1>4. n \in ItemIds /\ n[1] = i
  BY <1>1, ItemIsId
<1>5. k \in Request /\ k.op = o /\ k.i = i /\ k.item = n
  <2>1. k \in Naming /\ k.item[1] = k.i
    BY <1>3, <1>4 DEF Naming
  <2> QED
    BY <1>3, <2>1 DEF Request
<1>6. AllPlaced => RequestInv(k)
  BY <1>1, <1>5 DEF RequestInv
<1> QED
  BY <1>2, <1>3, <1>5, <1>6, AskKept

-----------------------------------------------------------------------------
(***************************************************************************)
(* TrackerBoard: the board's columns                                       *)
(***************************************************************************)

\* A board whose columns change shows what it showed; its items are placed next.
LEMMA BoardIsPlaced ==
    ASSUME BoardConstants, BoardInv, NEW r \in Slots, NEW used \in Doc, used.shown = board.shown,
           slot[r].op \in {"use", "keep"}, board' = used, slot' = [slot EXCEPT ![r] = [op |-> "place", board |-> used]],
           UNCHANGED <<tracker, theirs, recent, mirror, ids, noted, sync, calm, stray>>,
           blurred' \in BOOLEAN, declined' \in Layouts \cup {None}, ColumnsInv'
    PROVE  BoardInv'
<1> USE DEF BoardInv
<1>1. PICK k : k = [op |-> "place", board |-> used]
  OBVIOUS
<1>2. k \in Request /\ k.op = "place" /\ k.board = used /\ slot' = [slot EXCEPT ![r] = k]
  BY <1>1 DEF Request, Choosing
<1>3. RecordsInv'
  <2>1. \A q \in Slots : slot[q].op = "delete comments" => slot'[q] = slot[q]
    BY <1>2, SlotsKept
  <2> QED
    BY <2>1, ItemsStay, RecordsAside
<1>4. RequestInv(slot[r]) => RequestInv(k)'
  <2> SUFFICES ASSUME AllPlaced PROVE RequestInv(k)'
    BY DEF RequestInv
  <2>1. ASSUME NEW i \in Issues, tracker[i] # None
        PROVE  mirror[i] # None /\ mirror[i] = [Board!Place(used, tracker[i]) EXCEPT !.column = mirror[i].column]
    <3>1. PICK x : x = tracker[i]
      OBVIOUS
    <3>2. x \in Issue /\ board \in Doc /\ mirror[i] = Board!Place(board, x)
      BY <2>1, <3>1 DEF AllPlaced, Placed, BoardTypes
    <3>3. PICK c : c = Board!ResolveColumn(board, x.status)
      OBVIOUS
    <3>4. PICK d : d = Board!ResolveColumn(used, x.status)
      OBVIOUS
    <3>5. PICK m : m = mirror[i]
      OBVIOUS
    <3>6. PICK h : h = (board.shown # {} /\ x.status \notin board.shown)
      OBVIOUS
    <3>7. m = [status |-> x.status, sprint |-> x.sprint, column |-> c, hidden |-> h]
      BY <3>2, <3>3, <3>5, <3>6, PlaceIsCard
    <3>8. Board!Place(used, x) = [status |-> x.status, sprint |-> x.sprint, column |-> d, hidden |-> h]
      BY <3>2, <3>4, <3>6, PlaceIsCard
    <3>9. m = [Board!Place(used, x) EXCEPT !.column = m.column]
      BY <3>7, <3>8
    <3>10. mirror[i] # None
      BY <3>2, PlaceIsCard DEF BoardConstants
    <3> QED
      BY <3>1, <3>5, <3>9, <3>10
  <2>2. \A i \in Issues : tracker[i] = None => mirror[i] = None
    BY DEF AllPlaced, Placed
  <2>3. \A i : Board!Place(board, tracker[i])' = Board!Place(used, tracker[i])
    BY DEF Board!Place, Board!ResolveColumn
  <2> QED
    BY <1>2, <2>1, <2>2, <2>3 DEF RequestInv
<1>5. /\ tracker' \in [Issues -> Issue \cup {None}] /\ theirs' \in Layouts /\ recent' \subseteq Issues /\ mirror' \in Cards
      /\ ids' \in [Issues -> Nat] /\ noted' \subseteq ItemIds /\ board' \in Doc /\ calm' \in BOOLEAN
  BY DEF BoardTypes
<1>6. slot[r].op # "none" /\ k \in Request \cup {Board!Free}
  BY <1>2
<1> QED
  BY <1>2, <1>3, <1>4, <1>5, <1>6, RequestSteps

LEMMA UseTrackerColumnsKept ==
    ASSUME BoardConstants, BoardInv, NEW r \in Slots, Board!UseTrackerColumns(r)
    PROVE  BoardInv'
<1> USE DEF BoardInv
<1>1. PICK was : was = slot[r].board
  OBVIOUS
<1>2. PICK used : used = [board EXCEPT !.mode = "tracker", !.cols = was.offered, !.prompt = "none", !.offered = was.offered]
  OBVIOUS
<1>3. /\ slot[r].op = "use" /\ board' = used /\ slot' = [slot EXCEPT ![r] = [op |-> "place", board |-> used]]
      /\ UNCHANGED <<tracker, theirs, recent, mirror, ids, noted, sync, calm, declined, blurred, stray>>
  BY <1>1, <1>2 DEF Board!UseTrackerColumns, Board!Go, Board!Unread, Board!Mirror, Board!History
<1>4. was \in Doc /\ was.offered # None
  BY <1>1, <1>3, SlotKinds, RequestKinds
<1>5. was.offered \in Layouts
  BY <1>4 DEF Doc
<1>6. used \in Doc /\ used.mode = "tracker" /\ used.prompt = "none" /\ used.shown = board.shown
  BY <1>2, <1>5 DEF Doc, BoardTypes
<1>7. ColumnsInv'
  <2>1. ~Board!Torn'
    BY <1>3, <1>6 DEF Board!Torn
  <2>2. Settled(board)'
    BY <1>3, <1>6 DEF Settled
  <2>3. Settled(sync.board)' <=> Settled(sync.board)
    BY <1>3 DEF Settled
  <2>4. board'.mode = "tracker" /\ board'.prompt # "pending"
    BY <1>3, <1>6
  <2> QED
    BY <1>3, <2>1, <2>2, <2>3, <2>4 DEF ColumnsInv
<1>8. blurred' \in BOOLEAN /\ declined' \in Layouts \cup {None}
  BY <1>3 DEF BoardTypes
<1> QED
  BY <1>3, <1>6, <1>7, <1>8, BoardIsPlaced

LEMMA KeepDefaultColumnsKept ==
    ASSUME BoardConstants, BoardInv, NEW r \in Slots, Board!KeepDefaultColumns(r)
    PROVE  BoardInv'
<1> USE DEF BoardInv
<1>1. PICK was : was = slot[r].board
  OBVIOUS
<1>2. PICK kept : kept = [board EXCEPT !.mode = "default", !.cols = None, !.prompt = "dismissed", !.offered = was.offered]
  OBVIOUS
<1>3. /\ slot[r].op = "keep" /\ board' = kept /\ slot' = [slot EXCEPT ![r] = [op |-> "place", board |-> kept]]
      /\ declined' = IF was.mode = "tracker" THEN was.cols ELSE was.offered
      /\ blurred' = (blurred \/ sync # Board!Free \/ (was.mode = "tracker" /\ was.cols # was.offered))
      /\ UNCHANGED <<tracker, theirs, recent, mirror, ids, noted, sync, calm, stray>>
  BY <1>1, <1>2 DEF Board!KeepDefaultColumns, Board!Go, Board!Unread, Board!Mirror
<1>4. was \in Doc
  BY <1>1, <1>3, SlotKinds, RequestKinds
<1>5. was.offered \in Layouts \cup {None} /\ (was.mode = "tracker" => was.cols \in Layouts)
  BY <1>4 DEF Doc
<1>6. /\ kept \in Doc /\ kept.mode = "default" /\ kept.cols = None /\ kept.prompt = "dismissed"
      /\ kept.offered = was.offered /\ kept.shown = board.shown
  BY <1>2, <1>5 DEF Doc, BoardTypes
<1>7. /\ blurred' \in BOOLEAN /\ declined' \in Layouts \cup {None}
      /\ blurred' = FALSE => sync = Board!Free /\ declined' = was.offered
  BY <1>3, <1>5 DEF BoardTypes
<1>8. ColumnsInv'
  <2>1. ~Board!Torn'
    BY <1>3, <1>6 DEF Board!Torn
  <2>2. blurred' = FALSE => Settled(board)'
    BY <1>3, <1>6, <1>7 DEF Settled
  <2>3. blurred' = FALSE => sync'.op \notin FollowsColumns
    <3>1. blurred' = FALSE => sync'.op = "none"
      BY <1>3, <1>7, SyncKinds
    <3> QED
      BY <3>1 DEF FollowsColumns
  <2>4. board'.prompt # "pending"
    BY <1>3, <1>6
  <2> QED
    BY <2>1, <2>2, <2>3, <2>4 DEF ColumnsInv
<1> QED
  BY <1>3, <1>6, <1>7, <1>8, BoardIsPlaced

LEMMA PlaceItemsKept ==
    ASSUME BoardConstants, BoardInv, NEW r \in Slots, Board!PlaceItems(r)
    PROVE  BoardInv'
<1> USE DEF BoardInv
<1>1. /\ slot[r].op = "place" /\ mirror' = Board!PlaceAll(mirror, slot[r].board) /\ slot' = [slot EXCEPT ![r] = Board!Free]
      /\ UNCHANGED <<tracker, theirs, recent, ids, noted, board, sync, calm, declined, blurred, stray>>
  BY DEF Board!PlaceItems, Board!Finish, Board!Go, Board!Unread, Board!History
<1>2. slot[r].board \in Doc /\ mirror \in Cards
  BY <1>1, SlotKinds, RequestKinds DEF BoardTypes
<1>3. mirror' \in Cards /\ \A i \in Issues : mirror'[i] = None <=> mirror[i] = None
  BY <1>1, <1>2, PlacesKeep
<1>4. ColumnsInv'
  BY <1>1, ColumnsAside
<1>5. RecordsInv'
  <2>1. \A q \in Slots : slot[q].op = "delete comments" => slot'[q] = slot[q]
    BY <1>1, SlotsKept
  <2>2. Board!ItemsHere \subseteq Board!ItemsHere'
    BY <1>1, <1>3, ItemsStay
  <2> QED
    BY <1>1, <2>1, <2>2, RecordsAside
<1>6. RequestInv(slot[r]) => AllPlaced'
  <2> SUFFICES ASSUME RequestInv(slot[r]), NEW i \in Issues PROVE Placed(i)'
    BY DEF AllPlaced
  <2>1. slot[r].board = board /\ mirror' = Board!PlaceAll(mirror, board) /\ board \in Doc
    BY <1>1, <1>2 DEF RequestInv
  <2>2. CASE tracker[i] = None
    BY <1>1, <1>3, <2>2 DEF RequestInv, Placed
  <2>3. CASE tracker[i] # None
    <3>1. tracker[i] \in Issue
      BY <2>3 DEF BoardTypes
    <3>2. mirror[i] # None /\ mirror[i] = [Board!Place(board, tracker[i]) EXCEPT !.column = mirror[i].column]
      BY <1>1, <2>3 DEF RequestInv
    <3>3. mirror'[i] = Board!Place(board, tracker[i])
      BY <1>2, <2>1, <3>1, <3>2, PlacesAll
    <3> QED
      BY <1>1, <2>3, <3>3 DEF Placed, Board!Place, Board!ResolveColumn
  <2> QED
    BY <2>2, <2>3
<1>7. RequestInv(slot[r]) => RequestInv(Board!Free)'
  BY <1>6 DEF RequestInv, Board!Free
<1>8. /\ tracker' \in [Issues -> Issue \cup {None}] /\ theirs' \in Layouts /\ recent' \subseteq Issues
      /\ ids' \in [Issues -> Nat] /\ noted' \subseteq ItemIds /\ board' \in Doc /\ calm' \in BOOLEAN
      /\ blurred' \in BOOLEAN /\ declined' \in Layouts \cup {None}
  BY <1>1 DEF BoardTypes
<1> QED
  BY <1>1, <1>3, <1>4, <1>5, <1>7, <1>8, RequestSteps

-----------------------------------------------------------------------------
(***************************************************************************)
(* TrackerBoard: what requests do at the tracker and here                  *)
(***************************************************************************)

\* What a request turns into when only its op changes.
LEMMA TurnedTo ==
    ASSUME NEW k \in Request, k.op \notin {"use", "keep", "place"}, NEW o
    PROVE  [k EXCEPT !.op = o].op = o /\ [k EXCEPT !.op = o].i = k.i
<1>1. k.op \in {"transition", "create", "compare", "update", "refresh", "schedule"} => k = [op |-> k.op, i |-> k.i, column |-> k.column, sprint |-> k.sprint]
  BY RequestKinds
<1>2. k.op \in {"sprint", "store sprint"} => k = [op |-> k.op, i |-> k.i, item |-> k.item, sprint |-> k.sprint]
  BY RequestKinds
<1>3. k.op \in {"delete", "delete item", "delete comments", "comment", "record"} => k = [op |-> k.op, i |-> k.i, item |-> k.item]
  BY RequestKinds
<1>4. k.op = "fetch" => k = [op |-> k.op, i |-> k.i, column |-> k.column, sprint |-> k.sprint, board |-> k.board]
  BY RequestKinds DEF Fetching
<1>5. k.op = "store" => k = [op |-> k.op, i |-> k.i, column |-> k.column, sprint |-> k.sprint, item |-> k.item]
  BY RequestKinds DEF Storing
<1>6. \/ k.op \in {"transition", "create", "compare", "update", "refresh", "schedule"} \/ k.op \in {"sprint", "store sprint"}
      \/ k.op \in {"delete", "delete item", "delete comments", "comment", "record"} \/ k.op = "fetch" \/ k.op = "store"
  BY DEF Request, Choosing, Going, Fetching, Storing, Planning, Naming
<1> QED
  BY <1>1, <1>2, <1>3, <1>4, <1>5, <1>6

\* What changed at the tracker is read back.
LEMMA ToldKept ==
    ASSUME BoardInv, NEW r \in Slots, NEW k \in Request, NEW i \in Issues, NEW x \in Issue, None \notin Issue,
           Board!Tell(r, i, x, k), slot[r].op \in {"transition", "create", "update", "schedule"}, k.op = "refresh", k.i = i
    PROVE  BoardInv'
<1>1. PlacedBut(i)' /\ tracker'[i] = x => RequestInv(k)'
  BY DEF RequestInv, Halfway
<1>2. RequestInv(slot[r]) => AllPlaced
  BY DEF RequestInv
<1>3. x \in Issue \cup {None} /\ slot[r].op \notin {"none", "delete comments"}
  OBVIOUS
<1> QED
  BY <1>1, <1>2, <1>3, TellKept

LEMMA TransitionKept ==
    ASSUME BoardConstants, BoardInv, NEW r \in Slots, NEW s \in Statuses, Board!Transition(r, s)
    PROVE  BoardInv'
<1>1. PICK i : i = slot[r].i
  OBVIOUS
<1>2. PICK x : x = [tracker[i] EXCEPT !.status = s]
  OBVIOUS
<1>3. PICK k : k = [slot[r] EXCEPT !.op = "refresh", !.column = None]
  OBVIOUS
<1>4. slot[r].op = "transition" /\ tracker[i] # None /\ Board!Tell(r, i, x, k)
  BY <1>1, <1>2, <1>3 DEF Board!Transition, Board!TellOf, Board!AtTracker
<1>5. slot[r] \in Request /\ slot[r] \in [op : {slot[r].op}, i : Issues, column : Asked, sprint : BoardPlans]
  BY <1>4, SlotKinds, RequestKinds DEF BoardInv
<1>6. i \in Issues /\ k.op = "refresh" /\ k.i = i /\ k \in Request
  BY <1>1, <1>3, <1>4, <1>5, RequestTurns
<1>7. x \in Issue
  BY <1>2, <1>4, <1>6 DEF BoardInv, BoardTypes, Issue
<1> QED
  BY <1>4, <1>6, <1>7, ToldKept DEF BoardConstants

LEMMA CreateKept ==
    ASSUME BoardConstants, BoardInv, NEW r \in Slots, Board!Create(r)
    PROVE  BoardInv'
<1>1. PICK i : i = slot[r].i
  OBVIOUS
<1>2. PICK x : x = Board!New(First)
  OBVIOUS
<1>3. PICK k : k = [slot[r] EXCEPT !.op = "refresh"]
  OBVIOUS
<1>4. slot[r].op = "create" /\ Board!Tell(r, i, x, k)
  BY <1>1, <1>2, <1>3 DEF Board!Create
<1>5. slot[r] \in Request /\ slot[r] \in [op : {slot[r].op}, i : Issues, column : Asked, sprint : BoardPlans]
  BY <1>4, SlotKinds, RequestKinds DEF BoardInv
<1>6. i \in Issues /\ k.op = "refresh" /\ k.i = i /\ k \in Request
  BY <1>1, <1>3, <1>4, <1>5, RequestTurns
<1>7. x \in Issue
  BY <1>2 DEF BoardConstants, Board!New, Issue, BoardPlans
<1> QED
  BY <1>4, <1>6, <1>7, ToldKept DEF BoardConstants

LEMMA UpdateKept ==
    ASSUME BoardConstants, BoardInv, NEW r \in Slots, Board!Update(r)
    PROVE  BoardInv'
<1>1. PICK i : i = slot[r].i
  OBVIOUS
<1>2. PICK x : x = tracker[i]
  OBVIOUS
<1>3. PICK k : k = [slot[r] EXCEPT !.op = "refresh"]
  OBVIOUS
<1>4. slot[r].op = "update" /\ tracker[i] # None /\ Board!Tell(r, i, x, k)
  BY <1>1, <1>2, <1>3 DEF Board!Update, Board!TellOf, Board!AtTracker
<1>5. slot[r] \in Request /\ slot[r] \in [op : {slot[r].op}, i : Issues, column : Asked \cup {None}, sprint : BoardPlans]
  BY <1>4, SlotKinds, RequestKinds DEF BoardInv
<1>6. i \in Issues /\ k.op = "refresh" /\ k.i = i /\ k \in Request
  BY <1>1, <1>3, <1>4, <1>5, RequestTurns
<1>7. x \in Issue
  BY <1>2, <1>4, <1>6 DEF BoardInv, BoardTypes
<1> QED
  BY <1>4, <1>6, <1>7, ToldKept DEF BoardConstants

LEMMA ScheduleKept ==
    ASSUME BoardConstants, BoardInv, NEW r \in Slots, Board!Schedule(r)
    PROVE  BoardInv'
<1>1. PICK i : i = slot[r].i
  OBVIOUS
<1>2. PICK x : x = [tracker[i] EXCEPT !.sprint = slot[r].sprint]
  OBVIOUS
<1>3. PICK k : k = [slot[r] EXCEPT !.op = "refresh", !.sprint = None]
  OBVIOUS
<1>4. slot[r].op = "schedule" /\ tracker[i] # None /\ Board!Tell(r, i, x, k)
  BY <1>1, <1>2, <1>3 DEF Board!Schedule, Board!TellOf, Board!AtTracker
<1>5. slot[r] \in Request /\ slot[r] \in [op : {slot[r].op}, i : Issues, column : Asked \cup {None}, sprint : BoardPlans]
  BY <1>4, SlotKinds, RequestKinds DEF BoardInv
<1>6. i \in Issues /\ k.op = "refresh" /\ k.i = i /\ k \in Request /\ slot[r].sprint \in BoardPlans
  BY <1>1, <1>3, <1>4, <1>5, RequestTurns
<1>7. x \in Issue
  BY <1>2, <1>4, <1>6 DEF BoardInv, BoardTypes, Issue
<1> QED
  BY <1>4, <1>6, <1>7, ToldKept DEF BoardConstants

LEMMA RefreshKept ==
    ASSUME BoardInv, NEW r \in Slots, Board!Refresh(r)
    PROVE  BoardInv'
<1>1. PICK q : q = slot[r]
  OBVIOUS
<1>2. PICK k : k = [op |-> "fetch", i |-> q.i, column |-> q.column, sprint |-> q.sprint, board |-> board]
  OBVIOUS
<1>3. /\ q.op = "refresh" /\ slot' = [slot EXCEPT ![r] = k]
      /\ UNCHANGED <<tracker, theirs, recent, mirror, ids, noted, board, sync, calm, declined, blurred, stray>>
  BY <1>1, <1>2 DEF Board!Refresh, Board!Go, Board!Unread, Board!Mirror, Board!History
<1>4. q \in [op : {q.op}, i : Issues, column : Asked \cup {None}, sprint : BoardPlans]
  BY <1>1, <1>3, SlotKinds, RequestKinds DEF BoardInv
<1>5. k \in Request /\ k.op = "fetch" /\ k.i = q.i /\ k.board = board
  BY <1>2, <1>4 DEF Request, Fetching, BoardInv, BoardTypes
<1>6. RequestInv(slot[r]) => RequestInv(k)
  BY <1>1, <1>3, <1>5 DEF RequestInv, Halfway
<1>7. calm' \in BOOLEAN /\ (calm' = TRUE => calm = TRUE)
  BY <1>3 DEF BoardInv, BoardTypes
<1>8. k \in Request \cup {Board!Free} /\ slot[r].op \notin {"none", "delete comments"}
  BY <1>1, <1>3, <1>5
<1> QED
  BY <1>3, <1>6, <1>7, <1>8, GoKept

LEMMA FetchKept ==
    ASSUME BoardInv, NEW r \in Slots, Board!Fetch(r)
    PROVE  BoardInv'
<1>1. PICK q : q = slot[r]
  OBVIOUS
<1>2. PICK card : card = Board!Place(q.board, tracker[q.i])
  OBVIOUS
<1>3. PICK stored : stored = [op |-> "store", i |-> q.i, column |-> q.column, sprint |-> q.sprint, item |-> card]
  OBVIOUS
<1>4. PICK k : k = IF tracker[q.i] = None THEN Board!Free ELSE stored
  OBVIOUS
<1>5. /\ q.op = "fetch" /\ slot' = [slot EXCEPT ![r] = k] /\ calm' = (calm /\ tracker[q.i] # None)
      /\ UNCHANGED <<tracker, theirs, recent, mirror, ids, noted, board, sync, declined, blurred, stray>>
  BY <1>1, <1>2, <1>3, <1>4 DEF Board!Fetch, Board!Unread, Board!Mirror, Board!History
<1>6. q \in Fetching
  BY <1>1, <1>5, SlotKinds, RequestKinds DEF BoardInv
<1>7. tracker[q.i] # None => stored \in Request /\ stored.op = "store" /\ stored.i = q.i /\ stored.item = card
  <2> SUFFICES ASSUME tracker[q.i] # None PROVE stored \in Request /\ stored.op = "store" /\ stored.i = q.i /\ stored.item = card
    OBVIOUS
  <2>1. q.i \in Issues /\ q.board \in Doc /\ q.column \in Asked \cup {None} /\ q.sprint \in BoardPlans
    BY <1>6 DEF Fetching
  <2>2. tracker[q.i] \in Issue
    BY <2>1 DEF BoardInv, BoardTypes
  <2>3. card \in Card
    BY <1>2, <2>1, <2>2, PlaceIsCard
  <2> QED
    BY <1>3, <2>1, <2>3 DEF Request, Storing
<1>8. calm' \in BOOLEAN /\ (calm' = TRUE => calm = TRUE /\ tracker[q.i] # None)
  BY <1>5 DEF BoardInv, BoardTypes
<1>9. calm' = TRUE /\ RequestInv(slot[r]) => RequestInv(k)
  <2> SUFFICES ASSUME tracker[q.i] # None, RequestInv(q) PROVE RequestInv(stored)
    BY <1>1, <1>4, <1>8
  <2>1. Halfway(q) /\ q.board = board
    BY <1>5 DEF RequestInv
  <2> QED
    BY <1>2, <1>7, <2>1 DEF RequestInv, Halfway
<1>10. k \in Request \cup {Board!Free} /\ slot[r].op \notin {"none", "delete comments"}
  BY <1>1, <1>4, <1>5, <1>7
<1> QED
  BY <1>5, <1>8, <1>9, <1>10, GoKept

\* What comes next for a new issue.
LEMMA NextForIssue ==
    ASSUME NEW q, q.i \in Issues, q.sprint \in BoardPlans
    PROVE  /\ Board!Scheduled(q) \in Request \cup {Board!Free} /\ (AllPlaced => RequestInv(Board!Scheduled(q)))
           /\ \A o \in {"compare", "transition"} :
                q.column \in Asked => Board!Then(q, q.column, o) \in Request /\ (AllPlaced => RequestInv(Board!Then(q, q.column, o)))
<1>1. Board!Then(q, None, "schedule") \in Request /\ Board!Then(q, None, "schedule").op = "schedule"
  BY DEF Board!Then, Request, Going
<1>2. \A o \in {"compare", "transition"} :
        q.column \in Asked => Board!Then(q, q.column, o) \in Request /\ Board!Then(q, q.column, o).op = o
  BY DEF Board!Then, Request, Going
<1>3. Board!Free.op = "none"
  BY DEF Board!Free
<1>4. \A k : k.op \in {"none", "schedule", "compare", "transition"} /\ AllPlaced => RequestInv(k)
  BY DEF RequestInv
<1>5. Board!Scheduled(q) = Board!Free \/ Board!Scheduled(q) = Board!Then(q, None, "schedule")
  BY DEF Board!Scheduled
<1> QED
  BY <1>1, <1>2, <1>3, <1>4, <1>5

LEMMA StoreKept ==
    ASSUME BoardConstants, BoardInv, NEW r \in Slots, Board!Store(r)
    PROVE  BoardInv'
<1> USE DEF BoardInv
<1>1. PICK q : q = slot[r]
  OBVIOUS
<1>2. PICK k : k = IF q.column = None THEN Board!Scheduled(q) ELSE Board!Then(q, q.column, "compare")
  OBVIOUS
<1>3. /\ q.op = "store" /\ Board!Upsert(q.i, q.item) /\ slot' = [slot EXCEPT ![r] = k]
      /\ UNCHANGED <<tracker, theirs, recent, noted, board, sync, calm, declined, blurred, stray>>
  BY <1>1, <1>2 DEF Board!Store, Board!Go, Board!Unread, Board!History
<1>4. q.i \in Issues /\ q.column \in Asked \cup {None} /\ q.sprint \in BoardPlans /\ q.item \in Card
  BY <1>1, <1>3, SlotKinds, RequestKinds DEF Storing
<1>5. k \in Request \cup {Board!Free} /\ k.op \in {"none", "schedule", "compare"}
  <2>1. Board!Free.op = "none"
    BY DEF Board!Free
  <2> QED
    BY <1>2, <1>4, <2>1, NextForIssue DEF Board!Scheduled, Board!Then
<1>6. /\ mirror' \in Cards /\ ids' \in [Issues -> Nat]
      /\ mirror'[q.i] = q.item /\ \A j \in Issues : j # q.i => mirror'[j] = mirror[j]
      /\ \A j \in Issues : mirror[j] # None => mirror'[j] # None /\ ids'[j] = ids[j]
  BY <1>3, <1>4, Upserts
<1>7. ColumnsInv'
  BY <1>3, ColumnsAside
<1>8. RecordsInv'
  <2>1. \A p \in Slots : slot[p].op = "delete comments" => slot'[p] = slot[p]
    BY <1>1, <1>3, <1>5, SlotsKept
  <2>2. Board!ItemsHere \subseteq Board!ItemsHere'
    BY <1>6, ItemsStay
  <2> QED
    BY <1>3, <2>1, <2>2, RecordsAside
<1>9. RequestInv(slot[r]) => RequestInv(k)'
  <2> SUFFICES ASSUME RequestInv(q) PROVE AllPlaced'
    BY <1>1, <1>5 DEF RequestInv
  <2>1. PlacedBut(q.i) /\ tracker[q.i] # None /\ q.item = Board!Place(board, tracker[q.i])
    BY <1>3 DEF RequestInv, Halfway
  <2>2. Placed(q.i)' /\ \A j \in Issues : Placed(j) => Placed(j)'
    BY <1>3, <1>4, <1>6, <2>1, UpsertPlaces
  <2> QED
    BY <2>1, <2>2 DEF PlacedBut, AllPlaced
<1>10. /\ tracker' \in [Issues -> Issue \cup {None}] /\ theirs' \in Layouts /\ recent' \subseteq Issues
       /\ noted' \subseteq ItemIds /\ board' \in Doc /\ calm' \in BOOLEAN /\ (calm' = TRUE => calm = TRUE)
       /\ blurred' \in BOOLEAN /\ declined' \in Layouts \cup {None}
  BY <1>3 DEF BoardTypes
<1>11. slot[r].op # "none" /\ sync' = sync
  BY <1>1, <1>3
<1> QED
  BY <1>3, <1>5, <1>6, <1>7, <1>8, <1>9, <1>10, <1>11, RequestSteps

LEMMA CompareColumnKept ==
    ASSUME BoardInv, NEW r \in Slots, Board!CompareColumn(r)
    PROVE  BoardInv'
<1>1. PICK q : q = slot[r]
  OBVIOUS
<1>2. PICK k : /\ slot' = [slot EXCEPT ![r] = k]
               /\ k \in {Board!Free, Board!Then(q, q.column, "transition"), Board!Scheduled(q)}
  BY <1>1 DEF Board!CompareColumn, Board!Go
<1>3. /\ q.op = "compare"
      /\ UNCHANGED <<tracker, theirs, recent, mirror, ids, noted, board, sync, calm, declined, blurred, stray>>
  BY <1>1 DEF Board!CompareColumn, Board!Go, Board!Unread, Board!Mirror, Board!History
<1>4. q.i \in Issues /\ q.column \in Asked /\ q.sprint \in BoardPlans
  BY <1>1, <1>3, SlotKinds, RequestKinds DEF BoardInv
<1>5. AllPlaced => RequestInv(Board!Free)
  BY DEF RequestInv, Board!Free
<1>6. k \in Request \cup {Board!Free} /\ (AllPlaced => RequestInv(k))
  BY <1>2, <1>4, <1>5, NextForIssue
<1>7. RequestInv(slot[r]) => AllPlaced
  BY <1>1, <1>3 DEF RequestInv
<1>8. calm' \in BOOLEAN /\ (calm' = TRUE => calm = TRUE)
  BY <1>3 DEF BoardInv, BoardTypes
<1>9. slot[r].op \notin {"none", "delete comments"}
  BY <1>1, <1>3
<1> QED
  BY <1>2, <1>3, <1>6, <1>7, <1>8, <1>9, GoKept

LEMMA SetSprintKept ==
    ASSUME BoardConstants, BoardInv, NEW r \in Slots, Board!SetSprint(r)
    PROVE  BoardInv'
<1>1. PICK q : q = slot[r]
  OBVIOUS
<1>2. PICK i : i = q.i
  OBVIOUS
<1>3. PICK s : s = q.sprint
  OBVIOUS
<1>4. PICK x : x = [tracker[i] EXCEPT !.sprint = s]
  OBVIOUS
<1>5. PICK k : k = [q EXCEPT !.op = "store sprint"]
  OBVIOUS
<1>6. q.op = "sprint" /\ tracker[i] # None /\ Board!Tell(r, i, x, k)
  BY <1>1, <1>2, <1>3, <1>4, <1>5 DEF Board!SetSprint, Board!TellOf, Board!AtTracker
<1>7. q \in Request /\ q \in [op : {q.op}, i : Issues, item : ItemIds, sprint : BoardPlans]
  BY <1>1, <1>6, SlotKinds, RequestKinds DEF BoardInv
<1>8. i \in Issues /\ s \in BoardPlans /\ k \in Request /\ k.op = "store sprint" /\ k.i = i /\ k.item = q.item /\ k.sprint = s
  BY <1>2, <1>3, <1>5, <1>6, <1>7, RequestTurns
<1>9. PICK t \in Issue : t = tracker[i]
  BY <1>6, <1>8 DEF BoardInv, BoardTypes
<1>10. x \in Issue /\ x.status = t.status /\ x.sprint = s /\ x # None
  BY <1>4, <1>8, <1>9 DEF Issue, BoardConstants
<1>11. UNCHANGED <<mirror, ids, board>>
  BY <1>6 DEF Board!Tell, Board!Mirror
<1>12. RequestInv(q) => AllPlaced /\ mirror[i] # None /\ q.item = Board!Item(i)
  BY <1>2, <1>6 DEF RequestInv
<1>13. RequestInv(slot[r]) /\ PlacedBut(i)' /\ tracker'[i] = x => RequestInv(k)'
  <2> SUFFICES ASSUME RequestInv(q), PlacedBut(i)', tracker'[i] = x PROVE RequestInv(k)'
    BY <1>1
  <2>1. mirror[i] = Board!Place(board, t) /\ board \in Doc
    BY <1>6, <1>8, <1>9, <1>12 DEF AllPlaced, Placed, BoardInv, BoardTypes
  <2>2. PICK m : m = mirror[i]
    OBVIOUS
  <2>3. PICK c : c = Board!ResolveColumn(board, t.status)
    OBVIOUS
  <2>4. PICK h : h = (board.shown # {} /\ t.status \notin board.shown)
    OBVIOUS
  <2>5. m = [status |-> t.status, sprint |-> t.sprint, column |-> c, hidden |-> h]
    BY <2>1, <2>2, <2>3, <2>4, PlaceIsCard
  <2>6. Board!Place(board, x) = [status |-> t.status, sprint |-> s, column |-> c, hidden |-> h]
    <3>1. Board!ResolveColumn(board, x.status) = c /\ (board.shown # {} /\ x.status \notin board.shown) = h
      BY <1>10, <2>3, <2>4
    <3> QED
      BY <1>10, <2>1, <3>1, PlaceIsCard
  <2>7. m = [Board!Place(board, x) EXCEPT !.sprint = m.sprint]
    BY <2>5, <2>6
  <2>8. Board!Place(board, tracker[i])' = Board!Place(board, x)
    BY <1>11 DEF Board!Place, Board!ResolveColumn
  <2>9. mirror'[i] # None /\ mirror'[i] = [Board!Place(board, tracker[i])' EXCEPT !.sprint = mirror'[i].sprint]
    BY <1>11, <1>12, <2>2, <2>7, <2>8
  <2>10. k.item = Board!Item(i)'
    BY <1>8, <1>11, <1>12 DEF Board!Item
  <2> QED
    BY <1>8, <1>10, <2>9, <2>10 DEF RequestInv, Halfway
<1>14. RequestInv(slot[r]) => AllPlaced
  BY <1>1, <1>12
<1>15. slot[r].op \notin {"none", "delete comments"} /\ x \in Issue \cup {None}
  BY <1>1, <1>6, <1>10
<1> QED
  BY <1>6, <1>8, <1>13, <1>14, <1>15, TellKept

LEMMA StoreSprintKept ==
    ASSUME BoardConstants, BoardInv, NEW r \in Slots, Board!StoreSprint(r)
    PROVE  BoardInv'
<1> USE DEF BoardInv
<1>1. PICK q : q = slot[r]
  OBVIOUS
<1>2. PICK m : m = mirror[q.i]
  OBVIOUS
<1>3. PICK given : given = [m EXCEPT !.sprint = q.sprint]
  OBVIOUS
<1>4. PICK card : card = IF q.item \in Board!ItemsHere THEN given ELSE m
  OBVIOUS
<1>5. /\ q.op = "store sprint" /\ slot' = [slot EXCEPT ![r] = Board!Free]
      /\ UNCHANGED <<tracker, theirs, recent, ids, noted, board, sync, calm, declined, blurred, stray>>
  BY <1>1 DEF Board!StoreSprint, Board!Finish, Board!Go, Board!Unread, Board!History
<1>6. q.i \in Issues /\ q.item \in ItemIds /\ q.item[1] = q.i /\ q.sprint \in BoardPlans
  BY <1>1, <1>5, SlotKinds, RequestKinds
<1>7. mirror \in [Issues -> Card \cup {None}] /\ m \in Card \cup {None}
  BY <1>2, <1>6 DEF BoardTypes, Cards
<1>8. mirror' = [mirror EXCEPT ![q.i] = card]
  <2>1. CASE q.item \in Board!ItemsHere
    <3>1. mirror' = [mirror EXCEPT ![q.i].sprint = q.sprint]
      BY <1>1, <2>1 DEF Board!StoreSprint
    <3> QED
      BY <1>2, <1>3, <1>4, <2>1, <3>1
  <2>2. CASE q.item \notin Board!ItemsHere
    <3>1. mirror' = mirror
      BY <1>1, <2>2 DEF Board!StoreSprint
    <3> QED
      BY <1>2, <1>4, <1>6, <1>7, <2>2, <3>1
  <2> QED
    BY <2>1, <2>2
<1>9. q.item \in Board!ItemsHere => m # None
  <2> SUFFICES ASSUME NEW j \in Issues, mirror[j] # None, q.item = <<j, ids[j]>> PROVE m # None
    BY DEF Board!ItemsHere, Board!Mirrored, Board!Item
  <2>1. j = q.i
    BY <1>6
  <2> QED
    BY <1>2, <2>1
<1>10. card \in Card \cup {None} /\ (m # None => card # None)
  <2>1. m # None => given \in Card
    BY <1>3, <1>6, <1>7 DEF Card
  <2> QED
    BY <1>4, <1>7, <1>9, <2>1 DEF BoardConstants
<1>11. mirror' \in Cards /\ mirror'[q.i] = card /\ \A j \in Issues : j # q.i => mirror'[j] = mirror[j]
  BY <1>6, <1>7, <1>8, <1>10 DEF Cards
<1>12. ColumnsInv'
  BY <1>5, ColumnsAside
<1>13. RecordsInv'
  <2>1. \A p \in Slots : slot[p].op = "delete comments" => slot'[p] = slot[p]
    BY <1>1, <1>5, SlotsKept
  <2>2. Board!ItemsHere \subseteq Board!ItemsHere'
    BY <1>2, <1>5, <1>10, <1>11, ItemsStay
  <2> QED
    BY <1>5, <2>1, <2>2, RecordsAside
<1>14. RequestInv(slot[r]) => RequestInv(Board!Free)'
  <2> SUFFICES ASSUME RequestInv(q) PROVE AllPlaced'
    BY <1>1 DEF RequestInv, Board!Free
  <2>1. /\ tracker[q.i] # None /\ PlacedBut(q.i) /\ m # None /\ tracker[q.i].sprint = q.sprint /\ q.item = Board!Item(q.i)
        /\ m = [Board!Place(board, tracker[q.i]) EXCEPT !.sprint = m.sprint]
    BY <1>2, <1>5 DEF RequestInv, Halfway
  <2>2. q.item \in Board!ItemsHere
    BY <1>2, <1>6, <2>1 DEF Board!ItemsHere, Board!Mirrored
  <2>3. PICK p : p = Board!Place(board, tracker[q.i])
    OBVIOUS
  <2>4. p \in Card /\ p.sprint = q.sprint
    <3>1. tracker[q.i] \in Issue /\ board \in Doc
      BY <1>6, <2>1 DEF BoardTypes
    <3> QED
      BY <2>1, <2>3, <3>1, PlaceIsCard
  <2>5. card = [m EXCEPT !.sprint = q.sprint] /\ m = [p EXCEPT !.sprint = m.sprint]
    BY <1>3, <1>4, <2>1, <2>2, <2>3
  <2>6. card = p
    BY <2>4, <2>5 DEF Card
  <2>7. Placed(q.i)' /\ \A j \in Issues : Placed(j) => Placed(j)'
    BY <1>5, <1>6, <1>11, <2>1, <2>3, <2>6, UpsertPlaces
  <2> QED
    BY <2>1, <2>7 DEF PlacedBut, AllPlaced
<1>15. /\ tracker' \in [Issues -> Issue \cup {None}] /\ theirs' \in Layouts /\ recent' \subseteq Issues /\ ids' \in [Issues -> Nat]
       /\ noted' \subseteq ItemIds /\ board' \in Doc /\ calm' \in BOOLEAN /\ (calm' = TRUE => calm = TRUE)
       /\ blurred' \in BOOLEAN /\ declined' \in Layouts \cup {None}
  BY <1>5 DEF BoardTypes
<1>16. slot[r].op # "none" /\ sync' = sync /\ Board!Free \in Request \cup {Board!Free}
  BY <1>1, <1>5
<1> QED
  BY <1>5, <1>11, <1>12, <1>13, <1>14, <1>15, <1>16, RequestSteps

LEMMA DeleteKept ==
    ASSUME BoardInv, NEW r \in Slots, Board!Delete(r)
    PROVE  BoardInv'
<1>1. PICK q : q = slot[r]
  OBVIOUS
<1>2. PICK k : k = [q EXCEPT !.op = "delete item"]
  OBVIOUS
<1>3. q.op = "delete" /\ Board!Tell(r, q.i, None, k)
  BY <1>1, <1>2 DEF Board!Delete, Board!TellOf
<1>4. q \in Request /\ q \in [op : {q.op}, i : Issues, item : ItemIds]
  BY <1>1, <1>3, SlotKinds, RequestKinds DEF BoardInv
<1>5. k \in Request /\ k.op = "delete item" /\ k.i = q.i /\ k.item = q.item /\ q.i \in Issues
  BY <1>2, <1>3, <1>4, RequestTurns
<1>6. UNCHANGED ids
  BY <1>3 DEF Board!Tell, Board!Mirror
<1>7. RequestInv(slot[r]) /\ PlacedBut(q.i)' /\ tracker'[q.i] = None => RequestInv(k)'
  <2> SUFFICES ASSUME RequestInv(q), PlacedBut(q.i)', tracker'[q.i] = None PROVE RequestInv(k)'
    BY <1>1
  <2>1. q.item = Board!Item(q.i)
    BY <1>3 DEF RequestInv
  <2>2. k.item = Board!Item(q.i)'
    BY <1>5, <1>6, <2>1 DEF Board!Item
  <2> QED
    BY <1>5, <2>2 DEF RequestInv
<1>8. RequestInv(slot[r]) => AllPlaced
  BY <1>1, <1>3 DEF RequestInv
<1>9. slot[r].op \notin {"none", "delete comments"} /\ None \in Issue \cup {None}
  BY <1>1, <1>3
<1> QED
  BY <1>3, <1>5, <1>7, <1>8, <1>9, TellKept

LEMMA DeleteItemKept ==
    ASSUME BoardConstants, BoardInv, NEW r \in Slots, Board!DeleteItem(r)
    PROVE  BoardInv'
<1> USE DEF BoardInv
<1>1. PICK q : q = slot[r]
  OBVIOUS
<1>2. PICK k : k = [q EXCEPT !.op = "delete comments"]
  OBVIOUS
<1>3. /\ q.op = "delete item" /\ slot' = [slot EXCEPT ![r] = k]
      /\ mirror' = IF q.item \in Board!ItemsHere THEN [mirror EXCEPT ![q.i] = None] ELSE mirror
      /\ UNCHANGED <<tracker, theirs, recent, ids, noted, board, sync, calm, declined, blurred, stray>>
  BY <1>1, <1>2 DEF Board!DeleteItem, Board!Go, Board!Unread, Board!History
<1>4. q \in Request /\ q \in [op : {q.op}, i : Issues, item : ItemIds] /\ q.item[1] = q.i
  BY <1>1, <1>3, SlotKinds, RequestKinds
<1>5. k \in Request /\ k.op = "delete comments" /\ k.i = q.i /\ k.item = q.item /\ q.i \in Issues
  BY <1>2, <1>3, <1>4, RequestTurns
<1>6. /\ mirror' \in Cards /\ \A j \in Issues : j # q.i => mirror'[j] = mirror[j]
      /\ q.item \in Board!ItemsHere => mirror'[q.i] = None
      /\ q.item \notin Board!ItemsHere => mirror' = mirror
  BY <1>3, <1>5 DEF BoardTypes, Cards
<1>7. ColumnsInv'
  BY <1>3, ColumnsAside
<1>8. RecordsInv'
  <2>1. slot'[r] = k /\ \A p \in Slots : slot[p].op = "delete comments" => slot'[p] = slot[p]
    BY <1>1, <1>3, <1>5, SlotsKept
  <2>2. \A n : Deleting(n) => Deleting(n)'
    BY <2>1 DEF Deleting
  <2>3. Deleting(q.item)'
    BY <1>5, <2>1 DEF Deleting
  <2>4. \A n \in Board!ItemsHere : n = q.item \/ n \in Board!ItemsHere'
    <3> SUFFICES ASSUME NEW i \in Issues, mirror[i] # None, Board!Item(i) # q.item PROVE Board!Item(i) \in Board!ItemsHere'
      BY DEF Board!ItemsHere, Board!Mirrored
    <3>1. mirror'[i] # None
      <4>1. CASE i # q.i
        BY <1>6, <4>1
      <4>2. CASE i = q.i
        <5>1. q.item \notin Board!ItemsHere
          BY <1>4, <4>2 DEF Board!ItemsHere, Board!Item
        <5> QED
          BY <1>6, <5>1
      <4> QED
        BY <4>1, <4>2
    <3>2. Board!Item(i)' = Board!Item(i)
      BY <1>3 DEF Board!Item
    <3> QED
      BY <3>1, <3>2 DEF Board!ItemsHere, Board!Mirrored
  <2> QED
    BY <1>3, <2>2, <2>3, <2>4 DEF RecordsInv
<1>9. RequestInv(slot[r]) => RequestInv(k)'
  <2> SUFFICES ASSUME RequestInv(q) PROVE AllPlaced'
    BY <1>1, <1>5 DEF RequestInv
  <2>1. tracker[q.i] = None /\ PlacedBut(q.i) /\ q.item = Board!Item(q.i)
    BY <1>3 DEF RequestInv
  <2>2. mirror'[q.i] = None
    <3>1. q.item \notin Board!ItemsHere => mirror[q.i] = None
      BY <1>5, <2>1 DEF Board!ItemsHere, Board!Mirrored
    <3>2. CASE q.item \in Board!ItemsHere
      BY <1>6, <3>2
    <3>3. CASE q.item \notin Board!ItemsHere
      BY <1>6, <3>1, <3>3
    <3> QED
      BY <3>2, <3>3
  <2>3. UNCHANGED <<tracker, board>>
    BY <1>3
  <2>4. Placed(q.i)'
    BY <2>1, <2>2, <2>3 DEF Placed
  <2>5. \A j \in Issues : j # q.i => Placed(j)'
    BY <1>6, <2>1, <2>3, SamePlace DEF PlacedBut, Placed
  <2> QED
    BY <2>4, <2>5 DEF AllPlaced
<1>10. /\ tracker' \in [Issues -> Issue \cup {None}] /\ theirs' \in Layouts /\ recent' \subseteq Issues /\ ids' \in [Issues -> Nat]
       /\ noted' \subseteq ItemIds /\ board' \in Doc /\ calm' \in BOOLEAN /\ (calm' = TRUE => calm = TRUE)
       /\ blurred' \in BOOLEAN /\ declined' \in Layouts \cup {None}
  BY <1>3 DEF BoardTypes
<1>11. slot[r].op # "none" /\ sync' = sync /\ k \in Request \cup {Board!Free}
  BY <1>1, <1>3, <1>5
<1> QED
  BY <1>3, <1>6, <1>7, <1>8, <1>9, <1>10, <1>11, RequestSteps

LEMMA DeleteCommentsKept ==
    ASSUME BoardInv, NEW r \in Slots, Board!DeleteComments(r)
    PROVE  BoardInv'
<1> USE DEF BoardInv
<1>1. /\ slot[r].op = "delete comments" /\ noted' = noted \ {slot[r].item} /\ slot' = [slot EXCEPT ![r] = Board!Free]
      /\ UNCHANGED <<tracker, theirs, recent, mirror, ids, board, sync, calm, declined, blurred, stray>>
  BY DEF Board!DeleteComments, Board!Finish, Board!Go, Board!Unread, Board!Mirror, Board!History
<1>2. ColumnsInv'
  BY <1>1, ColumnsAside
<1>3. RecordsInv'
  <2>1. \A q \in Slots : q # r => slot'[q] = slot[q]
    BY <1>1, SlotsKept
  <2>2. \A n : n # slot[r].item /\ Deleting(n) => Deleting(n)'
    BY <2>1 DEF Deleting
  <2>3. Board!ItemsHere' = Board!ItemsHere
    BY <1>1 DEF Board!ItemsHere, Board!Mirrored, Board!Item
  <2> QED
    BY <1>1, <2>2, <2>3 DEF RecordsInv
<1>4. RequestInv(slot[r]) => RequestInv(Board!Free)'
  <2>1. RequestInv(slot[r]) => AllPlaced'
    BY <1>1, StillPlaced DEF RequestInv
  <2> QED
    BY <2>1 DEF RequestInv, Board!Free
<1>5. /\ tracker' \in [Issues -> Issue \cup {None}] /\ theirs' \in Layouts /\ recent' \subseteq Issues /\ mirror' \in Cards
      /\ ids' \in [Issues -> Nat] /\ noted' \subseteq ItemIds /\ board' \in Doc /\ calm' \in BOOLEAN /\ (calm' = TRUE => calm = TRUE)
      /\ blurred' \in BOOLEAN /\ declined' \in Layouts \cup {None}
  BY <1>1 DEF BoardTypes
<1>6. slot[r].op # "none" /\ sync' = sync /\ Board!Free \in Request \cup {Board!Free}
  BY <1>1
<1> QED
  BY <1>1, <1>2, <1>3, <1>4, <1>5, <1>6, RequestSteps

LEMMA PostCommentKept ==
    ASSUME BoardInv, NEW r \in Slots, Board!PostComment(r)
    PROVE  BoardInv'
<1>1. PICK q : q = slot[r]
  OBVIOUS
<1>2. PICK k : k = [q EXCEPT !.op = "record"]
  OBVIOUS
<1>3. PICK x : x = tracker[q.i]
  OBVIOUS
<1>4. q.op = "comment" /\ Board!Tell(r, q.i, x, k)
  BY <1>1, <1>2, <1>3 DEF Board!PostComment, Board!TellOf
<1>5. q \in Request /\ q \in [op : {q.op}, i : Issues, item : ItemIds]
  BY <1>1, <1>4, SlotKinds, RequestKinds DEF BoardInv
<1>6. k \in Request /\ k.op = "record" /\ q.i \in Issues
  BY <1>2, <1>4, <1>5, RequestTurns
<1>7. x \in Issue \cup {None}
  BY <1>3, <1>6 DEF BoardInv, BoardTypes
<1>8. AllPlaced' => RequestInv(k)'
  BY <1>6 DEF RequestInv
<1>9. RequestInv(slot[r]) => AllPlaced
  BY <1>1, <1>4 DEF RequestInv
<1>10. slot[r].op \notin {"none", "delete comments"}
  BY <1>1, <1>4
<1> QED
  BY <1>3, <1>4, <1>6, <1>7, <1>8, <1>9, <1>10, TellKept

LEMMA RecordCommentKept ==
    ASSUME BoardInv, NEW r \in Slots, Board!RecordComment(r)
    PROVE  BoardInv'
<1> USE DEF BoardInv
<1>1. PICK n : n = slot[r].item
  OBVIOUS
<1>2. /\ slot[r].op = "record" /\ noted' = noted \cup {n} /\ slot' = [slot EXCEPT ![r] = Board!Free]
      /\ stray' = IF n \notin Board!ItemsHere \/ (sync.op = "drop" /\ n \in sync.gone) THEN stray \cup {n} ELSE stray
      /\ UNCHANGED <<tracker, theirs, recent, mirror, ids, board, sync, calm, declined, blurred>>
  BY <1>1 DEF Board!RecordComment, Board!Finish, Board!Go, Board!Unread, Board!Mirror
<1>3. n \in ItemIds
  BY <1>1, <1>2, SlotKinds, RequestKinds
<1>4. ColumnsInv'
  BY <1>2, ColumnsAside
<1>5. RecordsInv'
  <2>1. \A q \in Slots : slot[q].op = "delete comments" => slot'[q] = slot[q]
    BY <1>2, SlotsKept
  <2>2. \A m : Deleting(m) => Deleting(m)'
    BY <2>1 DEF Deleting
  <2>3. stray \subseteq stray' /\ (n \in Board!ItemsHere \/ n \in stray') /\ (sync.op = "drop" /\ n \in sync.gone => n \in stray')
    BY <1>2
  <2>4. Board!ItemsHere' = Board!ItemsHere
    BY <1>2 DEF Board!ItemsHere, Board!Mirrored, Board!Item
  <2> QED
    BY <1>2, <2>2, <2>3, <2>4 DEF RecordsInv
<1>6. RequestInv(slot[r]) => RequestInv(Board!Free)'
  <2>1. RequestInv(slot[r]) => AllPlaced'
    BY <1>2, StillPlaced DEF RequestInv
  <2> QED
    BY <2>1 DEF RequestInv, Board!Free
<1>7. /\ tracker' \in [Issues -> Issue \cup {None}] /\ theirs' \in Layouts /\ recent' \subseteq Issues /\ mirror' \in Cards
      /\ ids' \in [Issues -> Nat] /\ noted' \subseteq ItemIds /\ board' \in Doc /\ calm' \in BOOLEAN /\ (calm' = TRUE => calm = TRUE)
      /\ blurred' \in BOOLEAN /\ declined' \in Layouts \cup {None}
  BY <1>2, <1>3 DEF BoardTypes
<1>8. slot[r].op # "none" /\ sync' = sync /\ Board!Free \in Request \cup {Board!Free}
  BY <1>2
<1> QED
  BY <1>2, <1>4, <1>5, <1>6, <1>7, <1>8, RequestSteps

LEMMA RequestStopsKept ==
    ASSUME BoardInv, NEW r \in Slots, Board!RequestStops(r)
    PROVE  BoardInv'
<1> USE DEF BoardInv
<1>1. PICK q : q = slot[r]
  OBVIOUS
<1>2. /\ q # Board!Free /\ slot' = [slot EXCEPT ![r] = Board!Free] /\ calm' = (calm /\ q.op \notin Board!HalfWay)
      /\ stray' = IF q.op \in {"delete item", "delete comments"} THEN stray \cup {q.item} ELSE stray
      /\ UNCHANGED <<tracker, theirs, recent, mirror, ids, noted, board, sync, declined, blurred>>
  BY <1>1 DEF Board!RequestStops, Board!Unread, Board!Mirror
<1>3. slot[r].op # "none"
  BY <1>1, <1>2, SlotKinds
<1>4. calm' \in BOOLEAN /\ (calm' = TRUE => calm = TRUE /\ q.op \notin Board!HalfWay)
  BY <1>2 DEF BoardTypes
<1>5. ColumnsInv'
  BY <1>2, ColumnsAside
<1>6. RecordsInv'
  <2>1. \A p \in Slots : p # r => slot'[p] = slot[p]
    BY <1>2, SlotsKept
  <2>2. \A n : Deleting(n) => Deleting(n)' \/ n \in stray'
    BY <1>1, <1>2, <2>1 DEF Deleting
  <2>3. stray \subseteq stray'
    BY <1>2
  <2>4. Board!ItemsHere' = Board!ItemsHere
    BY <1>2 DEF Board!ItemsHere, Board!Mirrored, Board!Item
  <2> QED
    BY <1>2, <2>2, <2>3, <2>4 DEF RecordsInv
<1>7. calm' = TRUE /\ RequestInv(slot[r]) => RequestInv(Board!Free)'
  <2>1. calm' = TRUE /\ RequestInv(slot[r]) => AllPlaced
    BY <1>1, <1>4 DEF RequestInv, Board!HalfWay
  <2>2. AllPlaced' <=> AllPlaced
    BY <1>2, StillPlaced
  <2> QED
    BY <2>1, <2>2 DEF RequestInv, Board!Free
<1>8. /\ tracker' \in [Issues -> Issue \cup {None}] /\ theirs' \in Layouts /\ recent' \subseteq Issues /\ mirror' \in Cards
      /\ ids' \in [Issues -> Nat] /\ noted' \subseteq ItemIds /\ board' \in Doc
      /\ blurred' \in BOOLEAN /\ declined' \in Layouts \cup {None}
  BY <1>2 DEF BoardTypes
<1>9. sync' = sync /\ Board!Free \in Request \cup {Board!Free} /\ (calm' = TRUE => calm = TRUE)
  BY <1>2, <1>4
<1> QED
  BY <1>2, <1>3, <1>4, <1>5, <1>6, <1>7, <1>8, <1>9, RequestSteps

-----------------------------------------------------------------------------
(***************************************************************************)
(* TrackerBoard: what holds of it                                          *)
(***************************************************************************)

LEMMA BoardStep == ASSUME BoardConstants, BoardInv, [Board!Next]_(Board!vars) PROVE BoardInv'
<1>1. CASE \E i \in Issues, x \in {Board!New(s) : s \in Statuses} \cup {None} : Board!TrackerChanges(i, x)
  <2>1. \A s \in Statuses : Board!New(s) \in Issue
    BY DEF Board!New, Issue, BoardPlans
  <2>2. PICK i \in Issues, x \in {Board!New(s) : s \in Statuses} \cup {None} : Board!TrackerChanges(i, x)
    BY <1>1
  <2>3. x \in Issue \cup {None}
    BY <2>1, <2>2
  <2> QED
    BY <2>2, <2>3, TrackerChangesKept
<1>2. CASE (\E cols \in Layouts : Board!TrackerRearranges(cols)) \/ \E full \in BOOLEAN : Board!StartSync(full)
  BY <1>2, TrackerRearrangesKept, StartSyncKept
<1>3. CASE Board!ReadColumns \/ Board!ShowStatuses \/ Board!HideItems \/ Board!OfferColumns \/ Board!SyncPlaces \/ Board!ColumnsFail
           \/ Board!ReadDetails
  BY <1>3, ReadColumnsKept, ShowStatusesKept, HideItemsKept, OfferColumnsKept, SyncPlacesKept, ColumnsFailKept, ReadDetailsKept
<1>4. CASE Board!List \/ Board!WriteIssue \/ Board!FindGone \/ Board!SweepComments \/ Board!SweepItems \/ Board!SyncStops
  BY <1>4, ListKept, WriteIssueKept, FindGoneKept, SweepCommentsKept, SweepItemsKept, SyncStopsKept
<1>5. CASE \E i \in Issues : Board!ReadIssue(i)
  BY <1>5, ReadIssueKept
<1>6. ASSUME NEW r \in Slots,
             \/ Board!AskUse(r) \/ Board!AskKeep(r) \/ Board!UseTrackerColumns(r) \/ Board!KeepDefaultColumns(r) \/ Board!PlaceItems(r)
             \/ Board!Create(r) \/ Board!Update(r) \/ Board!Refresh(r) \/ Board!Fetch(r) \/ Board!Store(r) \/ Board!CompareColumn(r)
             \/ Board!Schedule(r)
      PROVE  BoardInv'
  BY <1>6, AskColumnsKept, UseTrackerColumnsKept, KeepDefaultColumnsKept, PlaceItemsKept, CreateKept, UpdateKept, RefreshKept, FetchKept,
     StoreKept, CompareColumnKept, ScheduleKept
<1>7. ASSUME NEW r \in Slots,
             \/ Board!SetSprint(r) \/ Board!StoreSprint(r) \/ Board!Delete(r) \/ Board!DeleteItem(r) \/ Board!DeleteComments(r)
             \/ Board!PostComment(r) \/ Board!RecordComment(r) \/ Board!RequestStops(r)
      PROVE  BoardInv'
  BY <1>7, SetSprintKept, StoreSprintKept, DeleteKept, DeleteItemKept, DeleteCommentsKept, PostCommentKept, RecordCommentKept,
     RequestStopsKept
<1>8. ASSUME NEW r \in Slots,
             \/ \E i \in Issues : Board!AskUpdate(r, i) \/ Board!AskDelete(r, i) \/ Board!AskComment(r, i)
             \/ \E s \in Statuses : Board!Transition(r, s)
             \/ \E i \in Issues, s \in Statuses : Board!AskMove(r, i, s)
             \/ \E i \in Issues, s \in Sprints \cup {None} : Board!AskSprint(r, i, s)
             \/ \E i \in Issues, s \in Statuses, sprint \in Sprints \cup {None} : Board!AskCreate(r, i, s, sprint)
      PROVE  BoardInv'
  <2>1. BoardPlans = Sprints \cup {None} /\ First \in Statuses /\ None \in BoardPlans
    BY DEF BoardPlans, BoardConstants
  <2>2. CASE \E i \in Issues : Board!AskUpdate(r, i) \/ Board!AskDelete(r, i) \/ Board!AskComment(r, i)
    BY <2>1, <2>2, AskChangesKept, AskItemKept
  <2>3. CASE \E s \in Statuses : Board!Transition(r, s)
    BY <2>3, TransitionKept
  <2>4. CASE \E i \in Issues, s \in Statuses : Board!AskMove(r, i, s)
    BY <2>1, <2>4, AskChangesKept
  <2>5. CASE \E i \in Issues, s \in Sprints \cup {None} : Board!AskSprint(r, i, s)
    BY <2>1, <2>5, AskSprintKept
  <2>6. CASE \E i \in Issues, s \in Statuses, sprint \in Sprints \cup {None} : Board!AskCreate(r, i, s, sprint)
    BY <2>1, <2>6, AskChangesKept
  <2> QED
    BY <1>8, <2>2, <2>3, <2>4, <2>5, <2>6
<1>9. CASE UNCHANGED Board!vars
  <2>1. theirs' \in Layouts /\ recent' \subseteq Issues
    BY <1>9 DEF Board!vars, BoardInv, BoardTypes
  <2> QED
    BY <1>9, <2>1, BoardStays DEF Board!vars
<1>10. CASE Board!Next
  BY <1>10, <1>1, <1>2, <1>3, <1>4, <1>5, <1>6, <1>7, <1>8 DEF Board!Next
<1> QED
  BY <1>9, <1>10

LEMMA BoardHolds == ASSUME BoardConstants, BoardInv PROVE Board!MirrorSafe
<1> USE DEF BoardInv
<1>1. Board!TypeOK
  <2>1. board \in Doc /\ noted \subseteq Issues \X Nat /\ ids \in [Issues -> Nat] /\ None \notin Layouts
    BY DEF BoardTypes, BoardConstants, ItemIds
  <2>2. board.mode \in {"default", "tracker"} /\ board.prompt \in {"none", "pending", "dismissed"} /\ board.shown \subseteq Statuses
    BY <2>1 DEF Doc
  <2>3. board.mode = "tracker" => board.cols # None
    BY <2>1 DEF Doc
  <2> QED
    BY <2>1, <2>2, <2>3 DEF Board!TypeOK
<1>2. Board!TornByRace
  BY DEF ColumnsInv, Board!TornByRace
<1>3. Board!MirrorPlaced
  <2> SUFFICES ASSUME calm, ~Board!Busy PROVE AllPlaced
    BY DEF Board!MirrorPlaced, AllPlaced, Placed
  <2>1. calm = TRUE
    BY DEF BoardTypes
  <2> QED
    BY <2>1, NobodyAtWork DEF PlacedInv, CalmInv
<1>4. Board!RecordsFollow
  <2> SUFFICES ASSUME ~Board!Busy, NEW n \in noted PROVE n \in Board!ItemsHere \cup stray
    BY DEF Board!RecordsFollow
  <2>1. Quiet
    BY NobodyAtWork
  <2>2. ~Deleting(n)
    BY <2>1 DEF Quiet, Deleting
  <2> QED
    BY <2>2 DEF RecordsInv
<1>5. Board!AskedOnce
  BY DEF ColumnsInv, Settled, BoardTypes, Board!AskedOnce
<1> QED
  BY <1>1, <1>2, <1>3, <1>4, <1>5 DEF Board!MirrorSafe

\* boards/service.py, connectors/sync.py, work_items/service.py: whatever the tracker's
\* people do meanwhile, syncs and requests that do not overlap leave each issue where the
\* board has it, and nobody is asked about columns they declined.
THEOREM BoardMirrorsTracker == ASSUME BoardConstants PROVE Board!Spec => []Board!MirrorSafe
<1>1. Board!Init => BoardInv
  BY BoardInit
<1>2. BoardInv /\ [Board!Next]_(Board!vars) => BoardInv'
  BY BoardStep
<1>3. BoardInv => Board!MirrorSafe
  BY BoardHolds
<1> QED
  BY <1>1, <1>2, <1>3, PTL DEF Board!Spec
-----------------------------------------------------------------------------
(***************************************************************************)
(* NativeBoard: the inductive invariant                                    *)
(***************************************************************************)

Own == INSTANCE NativeBoard WITH
    Layouts <- Boards, Sprints <- Iterations, DefaultColumns <- OwnColumns, sprint <- stage, slot <- desk, made <- asked

\* What the columns may be, their ids and categories, and what an item is.
AllBoards == Boards \cup {OwnColumns}
ColumnIds == UNION {Own!Ids(cols) : cols \in AllBoards}
Categories == UNION {{Own!Column(cols, id).cat : id \in Own!Ids(cols)} : cols \in AllBoards}
Plans == Iterations \cup {None}
WorkItem == [column : ColumnIds, cat : Categories, sprint : Plans, type : Nat]

\* A request under way: on an item, on a sprint, on the columns, on a type.
Inserting ==
    {k \in [op : {"insert"}, cols : AllBoards, col : ColumnIds, sprint : Plans, type : Nat] : k.col \in Own!Ids(k.cols)}
Moving == {k \in [op : {"move"}, i : Items, cols : AllBoards, col : ColumnIds] : k.col \in Own!Ids(k.cols)}
Scheduling == [op : {"plan"}, i : Items, s : Plans]
Retyping == [op : {"retype"}, i : Items, t : Nat]
Commenting == [op : {"drop comments", "comment"}, i : Items]
Starting == [op : {"start"}, s : Iterations]
Completing == [op : {"complete"}, s : Iterations, to : Plans, open : SUBSET Items, moved : BOOLEAN]
Arranging ==
    {k \in [op : {"columns"}, read : AllBoards, cols : AllBoards, to : ColumnIds, left : SUBSET ColumnIds, placed : BOOLEAN] :
        k.to \in Own!Ids(k.cols) /\ (k.placed = TRUE => k.left = {})}
Untyping ==
    {k \in [op : {"untype"}, t : Nat, to : Nat \cup {None}, reassign : BOOLEAN] :
        k.reassign = TRUE => k.to \in Nat /\ k.to # k.t}
Demand ==
    Inserting \cup Moving \cup Scheduling \cup Retyping \cup Commenting \cup Starting \cup Completing \cup Arranging \cup Untyping

\* The first columns have an id each; Task and Bug are names of types, None names
\* neither an item nor a sprint, a type or a column.
OwnConstants ==
    /\ OwnColumns \in Seq([id : ColumnIds, cat : Categories, next : SUBSET ColumnIds \cup {None}]) \ {<<>>}
    /\ \A j, k \in DOMAIN OwnColumns : OwnColumns[j].id = OwnColumns[k].id => j = k
    /\ TASK \in Names /\ BUG \in Names
    /\ None \notin WorkItem \cup Iterations \cup Names \cup Nat

OwnTypes ==
    /\ columns \in AllBoards
    /\ item \in [Items -> WorkItem \cup {None}]
    /\ unused \subseteq Items
    /\ stage \in [Iterations -> {"none", "future", "active", "closed"}]
    /\ types \in Seq(Names \cup {None})
    /\ comments \subseteq Items
    /\ desk \in [Slots -> Demand \cup {Own!Free}]

\* An item is made once, with a type that was made, as one a request gives it.
MadeInv ==
    /\ unused \cap Own!Present = {}
    /\ \A i \in Own!Present : item[i].type \in DOMAIN types
    /\ \A r \in Slots :
         /\ desk[r].op = "insert" => desk[r].type \in DOMAIN types
         /\ desk[r].op = "retype" => desk[r].t \in DOMAIN types
         /\ desk[r].op = "untype" /\ desk[r].reassign = TRUE => desk[r].to \in DOMAIN types

\* One sprint at most is active.
ActiveInv == \A s, p \in Own!Active : s = p

\* Item i is in one of the columns, with its category. While one request alone changes
\* the columns it is in one it leaves as it is, or has yet to empty or to place.
InColumn(i, cols) == item[i].column \in Own!Ids(cols) /\ item[i].cat = Own!Column(cols, item[i].column).cat
Arranged(i) ==
    /\ (\A r \in Slots : desk[r].op # "columns") => InColumn(i, columns)
    /\ \A r \in Slots : desk[r].op = "columns" /\ (\A q \in Slots \ {r} : desk[q].op # "columns") =>
         /\ desk[r].read = columns
         /\ IF desk[r].placed = TRUE THEN InColumn(i, desk[r].cols)
            ELSE item[i].column \in desk[r].left \cup Own!Ids(desk[r].cols)
ArrangedInv == \A i \in Own!Present : <<i, "column">> \notin astray => Arranged(i)

\* Item i is done, or in the backlog or an open sprint, and whoever completes that one
\* will move it.
Scheduled(i) ==
    /\ item[i].sprint \in Own!OpenSprints
    /\ \A r \in Slots : desk[r].op = "complete" /\ desk[r].s = item[i].sprint => desk[r].moved = FALSE /\ i \in desk[r].open
ScheduledInv == \A i \in Own!Present : <<i, "sprint">> \notin astray => item[i].cat = "done" \/ Scheduled(i)

\* The type of item i exists, and whoever deletes it will give the item another.
Typed(i) ==
    /\ item[i].type \in Own!Known
    /\ \A r \in Slots : desk[r].op = "untype" /\ desk[r].t = item[i].type => desk[r].reassign = TRUE
TypedInv == \A i \in Own!Present : <<i, "type">> \notin astray => Typed(i)

\* The comments of an item that is gone are about to be removed.
Dropping(i) == \E r \in Slots : desk[r].op = "drop comments" /\ desk[r].i = i
CommentsInv == \A i \in comments : i \in Own!Present \/ <<i, "comments">> \in astray \/ Dropping(i)

OwnInv == OwnTypes /\ MadeInv /\ ActiveInv /\ ArrangedInv /\ ScheduledInv /\ TypedInv /\ CommentsInv

-----------------------------------------------------------------------------
(***************************************************************************)
(* NativeBoard: what steps have in common                                  *)
(***************************************************************************)

\* What a request holds, by what it is doing.
LEMMA DemandKinds ==
    ASSUME NEW k \in Demand
    PROVE  /\ k.op # "none"
           /\ k.op = "insert" => k \in Inserting
           /\ k.op = "move" => k \in Moving
           /\ k.op = "plan" => k \in Scheduling
           /\ k.op = "retype" => k \in Retyping
           /\ k.op \in {"drop comments", "comment"} => k \in Commenting
           /\ k.op = "start" => k \in Starting
           /\ k.op = "complete" => k \in Completing
           /\ k.op = "columns" => k \in Arranging
           /\ k.op = "untype" => k \in Untyping
<1>1. /\ \A x \in Inserting : x.op = "insert"
      /\ \A x \in Moving : x.op = "move"
      /\ \A x \in Scheduling : x.op = "plan"
      /\ \A x \in Retyping : x.op = "retype"
      /\ \A x \in Commenting : x.op \in {"drop comments", "comment"}
      /\ \A x \in Starting : x.op = "start"
      /\ \A x \in Completing : x.op = "complete"
      /\ \A x \in Arranging : x.op = "columns"
      /\ \A x \in Untyping : x.op = "untype"
  BY DEF Inserting, Moving, Scheduling, Retyping, Commenting, Starting, Completing, Arranging, Untyping
<1> QED
  BY <1>1 DEF Demand

LEMMA AtDesk ==
    ASSUME OwnTypes, NEW r \in Slots
    PROVE  /\ desk[r].op = "none" <=> desk[r] = Own!Free
           /\ desk[r].op # "none" => desk[r] \in Demand
<1>1. desk[r] \in Demand \cup {Own!Free} /\ Own!Free.op = "none"
  BY DEF OwnTypes, Own!Free
<1> QED
  BY <1>1, DemandKinds

LEMMA AnItem ==
    ASSUME OwnTypes, NEW i \in Own!Present
    PROVE  i \in Items /\ item[i] \in WorkItem /\ item[i] # None
BY DEF OwnTypes, Own!Present

LEMMA DeskTurns ==
    ASSUME OwnTypes, NEW r \in Slots, NEW k \in Demand \cup {Own!Free}, desk' = [desk EXCEPT ![r] = k]
    PROVE  desk' \in [Slots -> Demand \cup {Own!Free}] /\ desk'[r] = k /\ \A q \in Slots : q # r => desk'[q] = desk[q]
BY DEF OwnTypes

\* The requests that do one of `ops` are the same.
Rest(ops) == \A r \in Slots : desk[r].op \in ops \/ desk'[r].op \in ops => desk'[r] = desk[r]

LEMMA DeskRests ==
    ASSUME OwnTypes, NEW r \in Slots, NEW k \in Demand \cup {Own!Free}, desk' = [desk EXCEPT ![r] = k],
           NEW ops, desk[r].op \notin ops, k.op \notin ops
    PROVE  Rest(ops)
BY DeskTurns DEF Rest

\* What an item has to be in one of the columns again: what it had, or what it is given.
LEMMA ColumnsKept ==
    ASSUME ArrangedInv, columns' = columns, astray \subseteq astray', Rest({"columns"}),
           \A i \in Own!Present' :
              \/ <<i, "column">> \in astray'
              \/ Arranged(i)'
              \/ i \in Own!Present /\ item'[i].column = item[i].column /\ item'[i].cat = item[i].cat
    PROVE  ArrangedInv'
<1> SUFFICES ASSUME NEW i \in Own!Present', <<i, "column">> \notin astray', i \in Own!Present,
                    item'[i].column = item[i].column, item'[i].cat = item[i].cat
             PROVE  Arranged(i)'
  BY DEF ArrangedInv
<1>1. Arranged(i)
  BY DEF ArrangedInv
<1>2. \A r \in Slots : (desk'[r].op = "columns" <=> desk[r].op = "columns") /\ (desk'[r].op = "columns" => desk'[r] = desk[r])
  BY DEF Rest
<1>3. \A cols : InColumn(i, cols) <=> item'[i].column \in Own!Ids(cols) /\ item'[i].cat = Own!Column(cols, item'[i].column).cat
  BY DEF InColumn
<1>4. (\A r \in Slots : desk'[r].op # "columns") => item'[i].column \in Own!Ids(columns) /\ item'[i].cat = Own!Column(columns, item'[i].column).cat
  BY <1>1, <1>2, <1>3 DEF Arranged
<1>5. ASSUME NEW r \in Slots, desk'[r].op = "columns", \A q \in Slots \ {r} : desk'[q].op # "columns"
      PROVE  /\ desk'[r].read = columns
             /\ IF desk'[r].placed = TRUE
                THEN item'[i].column \in Own!Ids(desk'[r].cols) /\ item'[i].cat = Own!Column(desk'[r].cols, item'[i].column).cat
                ELSE item'[i].column \in desk'[r].left \cup Own!Ids(desk'[r].cols)
  <2>1. desk'[r] = desk[r] /\ desk[r].op = "columns" /\ \A q \in Slots \ {r} : desk[q].op # "columns"
    BY <1>2, <1>5
  <2> QED
    BY <1>1, <1>3, <2>1 DEF Arranged
<1> QED
  BY <1>4, <1>5 DEF Arranged, InColumn

LEMMA SprintsKept ==
    ASSUME ScheduledInv, Own!OpenSprints \subseteq Own!OpenSprints', astray \subseteq astray', Rest({"complete"}),
           \A i \in Own!Present' :
              \/ <<i, "sprint">> \in astray'
              \/ item'[i].cat = "done"
              \/ Scheduled(i)'
              \/ i \in Own!Present /\ item'[i].sprint = item[i].sprint /\ item'[i].cat = item[i].cat
    PROVE  ScheduledInv'
<1> SUFFICES ASSUME NEW i \in Own!Present', <<i, "sprint">> \notin astray', i \in Own!Present, item'[i].cat # "done",
                    item'[i].sprint = item[i].sprint, item'[i].cat = item[i].cat
             PROVE  Scheduled(i)'
  BY DEF ScheduledInv
<1>1. Scheduled(i)
  BY DEF ScheduledInv
<1> QED
  BY <1>1 DEF Scheduled, Rest

LEMMA TypesKept ==
    ASSUME TypedInv, Own!Known \subseteq Own!Known', astray \subseteq astray', Rest({"untype"}),
           \A i \in Own!Present' : \/ <<i, "type">> \in astray'
                                   \/ Typed(i)'
                                   \/ i \in Own!Present /\ item'[i].type = item[i].type
    PROVE  TypedInv'
<1> SUFFICES ASSUME NEW i \in Own!Present', <<i, "type">> \notin astray', i \in Own!Present, item'[i].type = item[i].type
             PROVE  Typed(i)'
  BY DEF TypedInv
<1>1. Typed(i)
  BY DEF TypedInv
<1> QED
  BY <1>1 DEF Typed, Rest

LEMMA CommentsKept ==
    ASSUME CommentsInv, comments' = comments, Own!Present \subseteq Own!Present', astray \subseteq astray', Rest({"drop comments"})
    PROVE  CommentsInv'
<1> SUFFICES ASSUME NEW i \in comments PROVE i \in Own!Present' \/ <<i, "comments">> \in astray' \/ Dropping(i)'
  BY DEF CommentsInv
<1>1. CASE Dropping(i)
  BY <1>1 DEF Dropping, Rest
<1> QED
  BY <1>1 DEF CommentsInv

\* What a request knows of the types it names.
TypesOf(k, there) ==
    /\ k.op = "insert" => k.type \in there
    /\ k.op = "retype" => k.t \in there
    /\ k.op = "untype" /\ k.reassign = TRUE => k.to \in there

LEMMA MadeKept ==
    ASSUME OwnTypes, MadeInv, NEW r \in Slots, NEW k \in Demand \cup {Own!Free}, desk' = [desk EXCEPT ![r] = k],
           unused' \cap Own!Present' = {}, DOMAIN types \subseteq DOMAIN types',
           \A i \in Own!Present' : item'[i].type \in DOMAIN types', TypesOf(k, DOMAIN types')
    PROVE  MadeInv'
<1>1. \A q \in Slots : TypesOf(desk'[q], DOMAIN types')
  <2> TAKE q \in Slots
  <2>1. TypesOf(desk[q], DOMAIN types) => TypesOf(desk[q], DOMAIN types')
    BY DEF TypesOf
  <2>2. TypesOf(desk[q], DOMAIN types)
    BY DEF MadeInv, TypesOf
  <2> QED
    BY <2>1, <2>2, DeskTurns
<1> QED
  BY <1>1 DEF MadeInv, TypesOf

\* A request begins; the rest of the board stays.
LEMMA OwnAsked ==
    ASSUME OwnInv, NEW r \in Slots, NEW k \in Demand, desk[r] = Own!Free, desk' = [desk EXCEPT ![r] = k],
           UNCHANGED <<columns, item, unused, stage, types, comments, astray>>,
           TypesOf(k, DOMAIN types), k.op # "drop comments",
           k.op = "columns" => ArrangedInv', k.op = "complete" => ScheduledInv', k.op = "untype" => TypedInv'
    PROVE  OwnInv'
<1> USE DEF OwnInv
<1>1. desk[r].op = "none" /\ desk' \in [Slots -> Demand \cup {Own!Free}]
  BY AtDesk, DeskTurns
<1>2. Own!Present' = Own!Present /\ Own!OpenSprints' = Own!OpenSprints /\ Own!Known' = Own!Known /\ Own!Active' = Own!Active
  BY DEF Own!Present, Own!OpenSprints, Own!Known, Own!Active
<1>3. \A ops : "none" \notin ops /\ k.op \notin ops => Rest(ops)
  BY <1>1, DeskRests
<1>4. OwnTypes'
  BY <1>1 DEF OwnTypes
<1>5. MadeInv'
  BY <1>2, MadeKept DEF MadeInv
<1>6. ActiveInv'
  BY <1>2 DEF ActiveInv
<1>7. ArrangedInv'
  BY <1>2, <1>3, ColumnsKept
<1>8. ScheduledInv'
  BY <1>2, <1>3, SprintsKept
<1>9. TypedInv'
  BY <1>2, <1>3, TypesKept
<1>10. CommentsInv'
  BY <1>2, <1>3, CommentsKept
<1> QED
  BY <1>4, <1>5, <1>6, <1>7, <1>8, <1>9, <1>10

\* A request writes items, and goes on or ends.
LEMMA OwnWrites ==
    ASSUME OwnInv, NEW r \in Slots, NEW k \in Demand \cup {Own!Free}, desk' = [desk EXCEPT ![r] = k],
           desk[r].op # "drop comments", k.op # "drop comments", TypesOf(k, DOMAIN types),
           UNCHANGED <<columns, stage, types, comments>>, astray \subseteq astray',
           item' \in [Items -> WorkItem \cup {None}], unused' \subseteq unused, Own!Present \subseteq Own!Present',
           unused' \cap Own!Present' = {}, \A i \in Own!Present' : item'[i].type \in DOMAIN types,
           ArrangedInv', ScheduledInv', TypedInv'
    PROVE  OwnInv'
<1> USE DEF OwnInv
<1>1. OwnTypes'
  BY DeskTurns DEF OwnTypes
<1>2. MadeInv'
  BY MadeKept
<1>3. ActiveInv'
  <2>1. Own!Active' = Own!Active
    BY DEF Own!Active
  <2> QED
    BY <2>1 DEF ActiveInv
<1>4. CommentsInv'
  <2>1. Rest({"drop comments"})
    BY DeskRests
  <2> QED
    BY <2>1, CommentsKept
<1> QED
  BY <1>1, <1>2, <1>3, <1>4

\* What is written of one item that is there: all but what is of the field is the same.
LEMMA OneItem ==
    ASSUME OwnInv, NEW i \in Items, item[i] # None, NEW w \in WorkItem, item' = [item EXCEPT ![i] = w]
    PROVE  /\ item' \in [Items -> WorkItem \cup {None}]
           /\ item'[i] = w /\ \A j \in Items : j # i => item'[j] = item[j]
           /\ OwnConstants => Own!Present' = Own!Present
<1>1. item' \in [Items -> WorkItem \cup {None}] /\ item'[i] = w /\ \A j \in Items : j # i => item'[j] = item[j]
  BY DEF OwnInv, OwnTypes
<1>2. OwnConstants => w # None
  BY DEF OwnConstants
<1> QED
  BY <1>1, <1>2 DEF Own!Present

LEMMA Straying == ASSUME NEW marks, Own!Stray(marks) PROVE astray' = astray \cup marks /\ astray \subseteq astray'
BY DEF Own!Stray
-----------------------------------------------------------------------------
(***************************************************************************)
(* NativeBoard: the first board                                            *)
(***************************************************************************)

LEMMA OwnStarts == ASSUME OwnConstants, Own!Init PROVE OwnInv
<1> USE DEF Own!Init
<1>1. columns = OwnColumns /\ OwnColumns \in AllBoards /\ comments = {} /\ astray = {} /\ desk = [r \in Slots |-> Own!Free]
  BY DEF AllBoards
<1>2. \A r \in Slots : desk[r] = Own!Free /\ desk[r].op = "none"
  BY <1>1 DEF Own!Free
<1>3. CASE item = [i \in Items |-> None] /\ unused = Items /\ stage = [s \in Iterations |-> "none"] /\ types = <<>>
  <2>1. Own!Present = {} /\ Own!Active = {}
    BY <1>3 DEF Own!Present, Own!Active
  <2>2. OwnTypes
    BY <1>1, <1>2, <1>3 DEF OwnTypes
  <2> QED
    BY <1>1, <1>2, <2>1, <2>2 DEF OwnInv, MadeInv, ActiveInv, ArrangedInv, ScheduledInv, TypedInv, CommentsInv
<1>4. ASSUME NEW s \in Iterations, NEW i \in Items, NEW col \in {columns[1], columns[Len(columns)]}, NEW state \in {"active", "future"},
             stage = [p \in Iterations |-> IF p = s THEN state ELSE "future"], types = <<TASK, BUG>>, unused = Items \ {i},
             item = [j \in Items |-> IF j = i THEN [column |-> col.id, cat |-> col.cat, sprint |-> s, type |-> 1] ELSE None]
      PROVE  OwnInv
  <2>1. PICK n \in DOMAIN OwnColumns : col = OwnColumns[n]
    <3>1. OwnColumns \in Seq([id : ColumnIds, cat : Categories, next : SUBSET ColumnIds \cup {None}]) /\ OwnColumns # <<>>
      BY DEF OwnConstants
    <3>2. Len(OwnColumns) \in Nat \ {0} /\ DOMAIN OwnColumns = 1..Len(OwnColumns)
      BY <3>1
    <3> QED
      BY <1>1, <3>2
  <2>2. col.id \in Own!Ids(OwnColumns) /\ Own!Column(OwnColumns, col.id) = col
    <3>1. \A k \in DOMAIN OwnColumns : OwnColumns[k].id = col.id => k = n
      BY <2>1 DEF OwnConstants
    <3>2. (CHOOSE k \in DOMAIN OwnColumns : OwnColumns[k].id = col.id) = n
      BY <2>1, <3>1
    <3> QED
      BY <2>1, <3>2 DEF Own!Ids, Own!Column
  <2>3. col.id \in ColumnIds /\ col.cat \in Categories
    BY <1>1, <2>2 DEF ColumnIds, Categories
  <2>4. [column |-> col.id, cat |-> col.cat, sprint |-> s, type |-> 1] \in WorkItem
    BY <2>3 DEF WorkItem, Plans
  <2>5. PICK w \in WorkItem : w = [column |-> col.id, cat |-> col.cat, sprint |-> s, type |-> 1]
    BY <2>4
  <2>6. w # None /\ item = [j \in Items |-> IF j = i THEN w ELSE None]
    BY <1>4, <2>5 DEF OwnConstants
  <2>7. Own!Present = {i} /\ item[i] = w /\ w.column = col.id /\ w.cat = col.cat /\ w.sprint = s /\ w.type = 1
    BY <2>5, <2>6 DEF Own!Present
  <2>8. TASK \in Names /\ BUG \in Names /\ None \notin Names
    BY DEF OwnConstants
  <2>9. types \in Seq(Names \cup {None}) /\ DOMAIN types = 1..2 /\ types[1] # None
    BY <1>4, <2>8
  <2>10. OwnTypes
    BY <1>1, <1>2, <1>4, <2>6, <2>9 DEF OwnTypes
  <2>11. Own!Active \subseteq {s} /\ s \in Own!OpenSprints
    BY <1>4 DEF Own!Active, Own!OpenSprints
  <2>12. MadeInv /\ ActiveInv
    BY <1>2, <1>4, <2>7, <2>9, <2>11 DEF MadeInv, ActiveInv
  <2>13. ArrangedInv
    BY <1>1, <1>2, <2>2, <2>7 DEF ArrangedInv, Arranged, InColumn
  <2>14. ScheduledInv /\ TypedInv /\ CommentsInv
    BY <1>1, <1>2, <2>7, <2>9, <2>11 DEF ScheduledInv, Scheduled, TypedInv, Typed, CommentsInv, Own!Known
  <2> QED
    BY <2>10, <2>12, <2>13, <2>14 DEF OwnInv
<1> QED
  BY <1>3, <1>4

-----------------------------------------------------------------------------
(***************************************************************************)
(* NativeBoard: items                                                      *)
(***************************************************************************)

LEMMA InAColumn ==
    ASSUME NEW cols \in AllBoards, NEW id \in Own!Ids(cols)
    PROVE  id \in ColumnIds /\ Own!Column(cols, id).cat \in Categories
BY DEF ColumnIds, Categories

LEMMA LeastType == ASSUME NEW T, T \subseteq Nat, T # {} PROVE \E t \in T : \A u \in T : t <= u
<1>1. IsWellFoundedOn(OpToRel(<, Nat), Nat)
  BY NatLessThanWellFounded
<1>2. IsWellFoundedOn(OpToRel(<, Nat), T)
  BY <1>1, IsWellFoundedOnSubset
<1>3. PICK t \in T : \A u \in T : ~(<<u, t>> \in OpToRel(<, Nat))
  BY <1>2, WFMin
<1>4. \A u \in T : t <= u
  <2> TAKE u \in T
  <2>1. u \in Nat /\ t \in Nat /\ ~(u < t)
    BY <1>3 DEF OpToRel
  <2> QED
    BY <2>1
<1> QED
  BY <1>4

LEMMA Defaults ==
    ASSUME OwnConstants, OwnTypes
    PROVE  /\ Own!WithDefaults \in Seq(Names \cup {None}) /\ DOMAIN types \subseteq DOMAIN Own!WithDefaults
           /\ \A t \in DOMAIN types : Own!WithDefaults[t] = types[t]
           /\ \E t \in DOMAIN Own!WithDefaults : Own!WithDefaults[t] # None
<1>1. types \in Seq(Names \cup {None}) /\ TASK \in Names /\ BUG \in Names /\ None \notin Names
  BY DEF OwnTypes, OwnConstants
<1>2. CASE Own!Known = {}
  <2>1. Own!WithDefaults = types \o <<TASK, BUG>>
    BY <1>2 DEF Own!WithDefaults
  <2>2. <<TASK, BUG>> \in Seq(Names \cup {None}) /\ Len(<<TASK, BUG>>) = 2
    BY <1>1
  <2>3. Own!WithDefaults[Len(types) + 1] = TASK /\ Len(types) + 1 \in DOMAIN Own!WithDefaults
    BY <1>1, <2>1, <2>2
  <2>4. Own!WithDefaults \in Seq(Names \cup {None})
    BY <1>1, <2>1, <2>2
  <2>5. \A t \in DOMAIN types : t \in DOMAIN Own!WithDefaults /\ Own!WithDefaults[t] = types[t]
    BY <1>1, <2>1, <2>2
  <2> QED
    BY <1>1, <2>3, <2>4, <2>5
<1>3. CASE Own!Known # {}
  <2>1. Own!WithDefaults = types
    BY <1>3 DEF Own!WithDefaults
  <2> QED
    BY <1>1, <1>3, <2>1 DEF Own!Known
<1> QED
  BY <1>2, <1>3

LEMMA DefaultIsKnown ==
    ASSUME NEW ts \in Seq(Names \cup {None}), NEW n \in DOMAIN ts, ts[n] # None
    PROVE  Own!DefaultType(ts) \in DOMAIN ts /\ ts[Own!DefaultType(ts)] # None
<1> DEFINE known == {t \in DOMAIN ts : ts[t] # None}
           tasks == {t \in known : ts[t] = TASK}
           best == IF tasks = {} THEN known ELSE tasks
<1>1. best \subseteq known /\ best # {}
  OBVIOUS
<1>2. best \subseteq Nat
  BY <1>1
<1>3. \E t \in best : \A u \in best : t <= u
  BY <1>1, <1>2, LeastType
<1>4. Own!DefaultType(ts) = CHOOSE t \in best : \A u \in best : t <= u
  BY DEF Own!DefaultType
<1> HIDE DEF best
<1>5. Own!DefaultType(ts) \in best
  BY <1>3, <1>4
<1> QED
  BY <1>1, <1>5

\* Types are only added: each stays what it was.
LEMMA TypesAdded ==
    ASSUME OwnInv, NEW r \in Slots, NEW k \in Demand \cup {Own!Free}, desk' = [desk EXCEPT ![r] = k], desk[r].op = "none",
           k.op \notin {"columns", "complete", "untype", "drop comments"}, types' \in Seq(Names \cup {None}),
           DOMAIN types \subseteq DOMAIN types', \A t \in DOMAIN types : types'[t] = types[t], TypesOf(k, DOMAIN types'),
           UNCHANGED <<columns, item, unused, stage, comments, astray>>
    PROVE  OwnInv'
<1> USE DEF OwnInv
<1>1. Own!Present' = Own!Present /\ Own!OpenSprints' = Own!OpenSprints /\ Own!Active' = Own!Active /\ Own!Known \subseteq Own!Known'
  BY DEF Own!Present, Own!OpenSprints, Own!Active, Own!Known
<1>2. Rest({"columns"}) /\ Rest({"complete"}) /\ Rest({"untype"}) /\ Rest({"drop comments"})
  BY DeskRests
<1>3. OwnTypes'
  BY DeskTurns DEF OwnTypes
<1>4. MadeInv'
  <2>1. \A i \in Own!Present : item[i].type \in DOMAIN types'
    BY DEF MadeInv
  <2> QED
    BY <1>1, <2>1, MadeKept DEF MadeInv
<1>5. ActiveInv'
  BY <1>1 DEF ActiveInv
<1>6. ArrangedInv' /\ ScheduledInv' /\ TypedInv' /\ CommentsInv'
  BY <1>1, <1>2, ColumnsKept, SprintsKept, TypesKept, CommentsKept
<1> QED
  BY <1>3, <1>4, <1>5, <1>6

LEMMA ReadCreateKept ==
    ASSUME OwnConstants, OwnInv, NEW r \in Slots, NEW col, NEW s, NEW t, Own!ReadCreate(r, col, s, t)
    PROVE  OwnInv'
<1> USE DEF OwnInv
<1>1. /\ col \in Own!Ids(columns) /\ s \in Own!OpenSprints
      /\ UNCHANGED <<columns, item, unused, stage, comments, astray>>
      /\ desk[r] = Own!Free /\ desk[r].op = "none"
      /\ (t = None /\ types' = Own!WithDefaults) \/ (t \in Own!Known /\ types' = types)
  <2>1. col \in Own!Ids(columns) /\ s \in Own!OpenSprints /\ UNCHANGED <<columns, item, unused, stage, comments, astray>>
    BY DEF Own!ReadCreate
  <2>2. (t = None /\ types' = Own!WithDefaults) \/ (t \in Own!Known /\ types' = types)
    BY DEF Own!ReadCreate
  <2>3. desk[r] = Own!Free /\ desk[r].op = "none"
    BY DEF Own!ReadCreate, Own!Start, Own!Free
  <2> QED
    BY <2>1, <2>2, <2>3
<1> DEFINE type == IF t = None THEN Own!DefaultType(types') ELSE t
<1>2. PICK k : k = [op |-> "insert", cols |-> columns, col |-> col, sprint |-> s, type |-> type]
  OBVIOUS
<1>3. desk' = [desk EXCEPT ![r] = k]
  BY <1>2 DEF Own!ReadCreate, Own!Start
<1>4. /\ types' \in Seq(Names \cup {None}) /\ DOMAIN types \subseteq DOMAIN types'
      /\ \A n \in DOMAIN types : types'[n] = types[n]
  BY <1>1, Defaults DEF OwnTypes
<1>5. type \in DOMAIN types'
  <2>1. CASE t = None
    <3>1. None \notin Own!Known
      BY DEF Own!Known, OwnTypes, OwnConstants
    <3>2. \E n \in DOMAIN types' : types'[n] # None
      BY <1>1, <2>1, <3>1, Defaults
    <3> QED
      BY <1>4, <2>1, <3>2, DefaultIsKnown
  <2>2. CASE t # None
    BY <1>1, <2>2 DEF Own!Known
  <2> QED
    BY <2>1, <2>2
<1>6. type \in Nat
  BY <1>4, <1>5
<1> HIDE DEF type
<1>7. k \in Demand /\ k.op = "insert" /\ k.type = type
  <2>1. columns \in AllBoards /\ col \in ColumnIds /\ s \in Plans
    BY <1>1, InAColumn DEF OwnTypes, Own!OpenSprints, Plans
  <2>2. k \in Inserting
    BY <1>1, <1>2, <1>6, <2>1 DEF Inserting
  <2> QED
    BY <1>2, <2>2 DEF Demand
<1>8. TypesOf(k, DOMAIN types')
  BY <1>5, <1>7 DEF TypesOf
<1> QED
  BY <1>1, <1>3, <1>4, <1>7, <1>8, TypesAdded

\* What does not stray: a request whose columns, sprint or type nobody changes meanwhile.
LEMMA ColumnStands ==
    ASSUME OwnInv, NEW r \in Slots, desk' = [desk EXCEPT ![r] = Own!Free], columns' = columns, NEW cols, ~Own!ColumnsMoved(r, cols),
           NEW i, item'[i].column \in Own!Ids(cols), item'[i].cat = Own!Column(cols, item'[i].column).cat
    PROVE  Arranged(i)'
<1>1. columns = cols /\ \A q \in Slots \ {r} : desk[q].op # "columns"
  BY DEF Own!ColumnsMoved, Own!Changing
<1>2. \A q \in Slots : desk'[q].op # "columns"
  BY <1>1, DeskTurns DEF OwnInv, Own!Free
<1> QED
  BY <1>1, <1>2 DEF Arranged, InColumn

LEMMA SprintStands ==
    ASSUME OwnConstants, OwnInv, NEW r \in Slots, NEW k \in Demand \cup {Own!Free}, desk' = [desk EXCEPT ![r] = k], stage' = stage,
           NEW i, ~Own!SprintMoved(r, item'[i].sprint), k.op = "complete" => k.s # item'[i].sprint
    PROVE  Scheduled(i)'
<1> DEFINE s == item'[i].sprint
<1>1. desk'[r] = k /\ \A q \in Slots \ {r} : desk'[q] = desk[q]
  BY DeskTurns DEF OwnInv
<1>2. Own!OpenSprints' = Own!OpenSprints /\ None \in Own!OpenSprints
  BY DEF Own!OpenSprints
<1>3. CASE s = None
  <2>1. \A q \in Slots : desk[q].op = "complete" => desk[q].s \in Iterations
    BY AtDesk, DemandKinds DEF OwnInv, Completing
  <2>2. None \notin Iterations
    BY DEF OwnConstants
  <2> QED
    BY <1>1, <1>2, <1>3, <2>1, <2>2 DEF Scheduled
<1>4. CASE s # None
  <2>1. s \in Own!OpenSprints /\ \A q \in Slots \ {r} : desk[q].op = "complete" => desk[q].s # s
    BY <1>4 DEF Own!SprintMoved
  <2> QED
    BY <1>1, <1>2, <2>1 DEF Scheduled
<1> QED
  BY <1>3, <1>4

LEMMA TypeStands ==
    ASSUME OwnInv, NEW r \in Slots, NEW k \in Demand \cup {Own!Free}, desk' = [desk EXCEPT ![r] = k], types' = types,
           NEW i, ~Own!TypeMoved(r, item'[i].type), k.op = "untype" => k.t # item'[i].type
    PROVE  Typed(i)'
<1>1. desk'[r] = k /\ \A q \in Slots \ {r} : desk'[q] = desk[q]
  BY DeskTurns DEF OwnInv
<1>2. Own!Known' = Own!Known
  BY DEF Own!Known
<1> QED
  BY <1>1, <1>2 DEF Typed, Own!TypeMoved, Own!Changing

\* An item whose category changes stays where its sprint is, unless it is reopened.
LEMMA CategoryStands ==
    ASSUME OwnConstants, OwnInv, NEW r \in Slots, NEW k \in Demand \cup {Own!Free}, desk' = [desk EXCEPT ![r] = k], k.op # "complete",
           stage' = stage, NEW i \in Own!Present, item'[i].sprint = item[i].sprint, ~Own!Reopened(r, i, item'[i].cat)
    PROVE  item'[i].cat = "done" \/ Scheduled(i)'
<1> SUFFICES ASSUME item'[i].cat # "done" PROVE Scheduled(i)'
  OBVIOUS
<1>1. item[i] # None
  BY DEF Own!Present
<1>2. ~Own!SprintMoved(r, item'[i].sprint)
  BY <1>1 DEF Own!Reopened
<1> QED
  BY <1>2, SprintStands

LEMMA InsertKept ==
    ASSUME OwnConstants, OwnInv, NEW r \in Slots, NEW i \in Items, Own!Insert(r, i)
    PROVE  OwnInv'
<1> USE DEF OwnInv
<1>1. PICK req : req = desk[r]
  OBVIOUS
<1> DEFINE moved(g) == CASE g = "column" -> Own!ColumnsMoved(r, req.cols)
                         [] g = "sprint" -> Own!SprintMoved(r, req.sprint)
                         [] g = "type" -> Own!TypeMoved(r, req.type)
           marks == {<<i, f>> : f \in {g \in {"column", "sprint", "type"} : moved(g)}}
           given == [column |-> req.col, cat |-> Own!Column(req.cols, req.col).cat, sprint |-> req.sprint, type |-> req.type]
<1>2. /\ req.op = "insert" /\ i \in unused /\ unused' = unused \ {i} /\ item' = [item EXCEPT ![i] = given]
      /\ Own!Stray(marks) /\ desk' = [desk EXCEPT ![r] = Own!Free] /\ UNCHANGED <<columns, stage, types, comments>>
  BY <1>1 DEF Own!Insert, Own!Finish
<1>3. req \in Inserting /\ req.type \in DOMAIN types
  BY <1>1, <1>2, AtDesk, DemandKinds DEF MadeInv
<1>4. PICK w : w = given
  OBVIOUS
<1>5. /\ w \in WorkItem /\ w.column = req.col /\ w.cat = Own!Column(req.cols, req.col).cat /\ w.sprint = req.sprint /\ w.type = req.type
      /\ req.col \in Own!Ids(req.cols)
  <2>1. Own!Column(req.cols, req.col).cat \in Categories
    BY <1>3, InAColumn DEF Inserting
  <2> QED
    BY <1>3, <1>4, <2>1 DEF Inserting, WorkItem
<1>6. item' = [item EXCEPT ![i] = w] /\ w # None
  BY <1>2, <1>4, <1>5 DEF OwnConstants
<1> HIDE DEF given
<1>7. item[i] = None
  BY <1>2 DEF MadeInv, Own!Present
<1>8. item' \in [Items -> WorkItem \cup {None}] /\ item'[i] = w /\ \A j \in Items : j # i => item'[j] = item[j]
  BY <1>5, <1>6 DEF OwnTypes
<1>9. Own!Present' = Own!Present \cup {i} /\ unused' \cap Own!Present' = {}
  BY <1>2, <1>6, <1>8 DEF Own!Present, MadeInv
<1>10. /\ astray \subseteq astray'
       /\ Own!ColumnsMoved(r, req.cols) => <<i, "column">> \in astray'
       /\ Own!SprintMoved(r, req.sprint) => <<i, "sprint">> \in astray'
       /\ Own!TypeMoved(r, req.type) => <<i, "type">> \in astray'
  <2>1. moved("column") = Own!ColumnsMoved(r, req.cols) /\ moved("sprint") = Own!SprintMoved(r, req.sprint) /\ moved("type") = Own!TypeMoved(r, req.type)
    OBVIOUS
  <2> HIDE DEF moved
  <2>2. astray' = astray \cup marks
    BY <1>2, Straying
  <2> QED
    BY <2>1, <2>2
<1> HIDE DEF marks
<1>11. Own!Free.op = "none" /\ desk[r].op = "insert"
  BY <1>1, <1>2 DEF Own!Free
<1>12. Rest({"columns"}) /\ Rest({"complete"}) /\ Rest({"untype"})
  BY <1>2, <1>11, DeskRests
<1>13. ArrangedInv'
  <2>1. <<i, "column">> \in astray' \/ Arranged(i)'
    BY <1>2, <1>5, <1>8, <1>10, ColumnStands
  <2> QED
    BY <1>2, <1>8, <1>9, <1>10, <1>12, <2>1, ColumnsKept, AnItem
<1>14. ScheduledInv'
  <2>1. <<i, "sprint">> \in astray' \/ Scheduled(i)'
    BY <1>2, <1>5, <1>8, <1>10, <1>11, SprintStands
  <2>2. Own!OpenSprints' = Own!OpenSprints
    BY <1>2 DEF Own!OpenSprints
  <2> QED
    BY <1>8, <1>9, <1>10, <1>12, <2>1, <2>2, SprintsKept, AnItem
<1>15. TypedInv'
  <2>1. <<i, "type">> \in astray' \/ Typed(i)'
    BY <1>2, <1>5, <1>8, <1>10, <1>11, TypeStands
  <2>2. Own!Known' = Own!Known
    BY <1>2 DEF Own!Known
  <2> QED
    BY <1>8, <1>9, <1>10, <1>12, <2>1, <2>2, TypesKept, AnItem
<1>16. \A j \in Own!Present' : item'[j].type \in DOMAIN types
  BY <1>3, <1>5, <1>8, <1>9, AnItem DEF MadeInv
<1>17. TypesOf(Own!Free, DOMAIN types)
  BY <1>11 DEF TypesOf
<1> QED
  BY <1>2, <1>8, <1>9, <1>10, <1>11, <1>13, <1>14, <1>15, <1>16, <1>17, OwnWrites

\* A request that ends with the write of one item, or with none.
LEMMA OwnEdits ==
    ASSUME OwnConstants, OwnInv, NEW r \in Slots, desk[r].op \in {"move", "plan", "retype"}, desk' = [desk EXCEPT ![r] = Own!Free],
           NEW i \in Items, item[i] # None, NEW w \in WorkItem, item' = [item EXCEPT ![i] = w], w.type \in DOMAIN types,
           UNCHANGED <<columns, unused, stage, types, comments>>, astray \subseteq astray',
           \/ <<i, "column">> \in astray' \/ Arranged(i)' \/ (w.column = item[i].column /\ w.cat = item[i].cat),
           \/ <<i, "sprint">> \in astray' \/ w.cat = "done" \/ Scheduled(i)' \/ (w.sprint = item[i].sprint /\ w.cat = item[i].cat),
           \/ <<i, "type">> \in astray' \/ Typed(i)' \/ w.type = item[i].type
    PROVE  OwnInv'
<1> USE DEF OwnInv
<1>1. item' \in [Items -> WorkItem \cup {None}] /\ item'[i] = w /\ \A j \in Items : j # i => item'[j] = item[j]
  BY OneItem
<1>2. Own!Present' = Own!Present
  BY OneItem
<1>3. Own!Free.op = "none" /\ Own!OpenSprints' = Own!OpenSprints /\ Own!Known' = Own!Known
  BY DEF Own!Free, Own!OpenSprints, Own!Known
<1>4. Rest({"columns"}) /\ Rest({"complete"}) /\ Rest({"untype"})
  BY <1>3, DeskRests
<1>5. ArrangedInv'
  BY <1>1, <1>2, <1>4, ColumnsKept, AnItem
<1>6. ScheduledInv'
  BY <1>1, <1>2, <1>3, <1>4, SprintsKept, AnItem
<1>7. TypedInv'
  BY <1>1, <1>2, <1>3, <1>4, TypesKept, AnItem
<1>8. \A j \in Own!Present' : item'[j].type \in DOMAIN types
  BY <1>1, <1>2, AnItem DEF MadeInv
<1>9. TypesOf(Own!Free, DOMAIN types) /\ unused' \cap Own!Present' = {}
  BY <1>2, <1>3 DEF TypesOf, MadeInv
<1> QED
  BY <1>1, <1>2, <1>3, <1>5, <1>6, <1>7, <1>8, <1>9, OwnWrites

LEMMA OwnEnds ==
    ASSUME OwnInv, NEW r \in Slots, desk[r].op \in {"move", "plan", "retype"}, desk' = [desk EXCEPT ![r] = Own!Free],
           UNCHANGED <<columns, item, unused, stage, types, comments, astray>>
    PROVE  OwnInv'
<1> USE DEF OwnInv
<1>1. /\ Own!Free.op = "none" /\ Own!Present' = Own!Present /\ Own!OpenSprints' = Own!OpenSprints /\ Own!Known' = Own!Known
      /\ TypesOf(Own!Free, DOMAIN types)
  BY DEF Own!Free, Own!Present, Own!OpenSprints, Own!Known, TypesOf
<1>2. Rest({"columns"}) /\ Rest({"complete"}) /\ Rest({"untype"})
  BY <1>1, DeskRests
<1>3. ArrangedInv' /\ ScheduledInv' /\ TypedInv'
  BY <1>1, <1>2, ColumnsKept, SprintsKept, TypesKept
<1>4. \A j \in Own!Present' : item'[j].type \in DOMAIN types
  BY <1>1 DEF MadeInv
<1>5. item' \in [Items -> WorkItem \cup {None}] /\ unused' \cap Own!Present' = {}
  BY <1>1 DEF OwnTypes, MadeInv
<1> QED
  BY <1>1, <1>3, <1>4, <1>5, OwnWrites

LEMMA MoveKept == ASSUME OwnConstants, OwnInv, NEW r \in Slots, Own!Move(r) PROVE OwnInv'
<1> USE DEF OwnInv
<1>1. PICK req : req = desk[r]
  OBVIOUS
<1> DEFINE cat == Own!Column(req.cols, req.col).cat
           i == req.i
<1>2. req.op = "move" /\ desk' = [desk EXCEPT ![r] = Own!Free] /\ UNCHANGED <<columns, unused, stage, types, comments>>
  BY <1>1 DEF Own!Move, Own!Finish
<1>3. i \in Items /\ req.col \in ColumnIds /\ req.col \in Own!Ids(req.cols) /\ cat \in Categories
  <2>1. req \in Moving
    BY <1>1, <1>2, AtDesk, DemandKinds
  <2> QED
    BY <2>1, InAColumn DEF Moving
<1>4. CASE item[i] = None
  BY <1>1, <1>2, <1>4, OwnEnds DEF Own!Move
<1>5. CASE item[i] # None
  <2> DEFINE marks == (IF Own!ColumnsMoved(r, req.cols) THEN {<<i, "column">>} ELSE {})
                      \cup (IF Own!Reopened(r, i, cat) THEN {<<i, "sprint">>} ELSE {})
  <2>1. item' = [item EXCEPT ![i].column = req.col, ![i].cat = cat] /\ Own!Stray(marks)
    BY <1>1, <1>5 DEF Own!Move
  <2>2. PICK w : w = [item[i] EXCEPT !.column = req.col, !.cat = cat]
    OBVIOUS
  <2>3. item[i] \in WorkItem /\ item[i].type \in DOMAIN types /\ i \in Own!Present
    BY <1>3, <1>5 DEF OwnTypes, MadeInv, Own!Present
  <2>4. w \in WorkItem /\ w.column = req.col /\ w.cat = cat /\ w.sprint = item[i].sprint /\ w.type = item[i].type
    BY <1>3, <2>2, <2>3 DEF WorkItem
  <2>5. item' = [item EXCEPT ![i] = w]
    BY <1>3, <2>1, <2>2 DEF OwnTypes
  <2>6. item'[i] = w
    BY <1>3, <2>5 DEF OwnTypes
  <2>7. /\ astray \subseteq astray'
        /\ Own!ColumnsMoved(r, req.cols) => <<i, "column">> \in astray'
        /\ Own!Reopened(r, i, cat) => <<i, "sprint">> \in astray'
    BY <2>1, Straying
  <2>8. <<i, "column">> \in astray' \/ Arranged(i)'
    BY <1>2, <1>3, <2>4, <2>6, <2>7, ColumnStands
  <2>9. <<i, "sprint">> \in astray' \/ w.cat = "done" \/ Scheduled(i)'
    <3>1. Own!Free.op = "none"
      BY DEF Own!Free
    <3> QED
      BY <1>2, <2>3, <2>4, <2>6, <2>7, <3>1, CategoryStands
  <2> QED
    BY <1>1, <1>2, <1>3, <1>5, <2>3, <2>4, <2>5, <2>7, <2>8, <2>9, OwnEdits
<1> QED
  BY <1>4, <1>5

LEMMA SetSprintOfKept == ASSUME OwnConstants, OwnInv, NEW r \in Slots, Own!SetSprint(r) PROVE OwnInv'
<1> USE DEF OwnInv
<1>1. PICK req : req = desk[r]
  OBVIOUS
<1> DEFINE i == req.i
<1>2. req.op = "plan" /\ desk' = [desk EXCEPT ![r] = Own!Free] /\ UNCHANGED <<columns, unused, stage, types, comments>>
  BY <1>1 DEF Own!SetSprint, Own!Finish
<1>3. i \in Items /\ req.s \in Plans
  BY <1>1, <1>2, AtDesk, DemandKinds DEF Scheduling
<1>4. CASE item[i] = None
  BY <1>1, <1>2, <1>4, OwnEnds DEF Own!SetSprint
<1>5. CASE item[i] # None
  <2> DEFINE marks == IF Own!SprintMoved(r, req.s) THEN {<<i, "sprint">>} ELSE {}
  <2>1. item' = [item EXCEPT ![i].sprint = req.s] /\ Own!Stray(marks)
    BY <1>1, <1>5 DEF Own!SetSprint
  <2>2. PICK w : w = [item[i] EXCEPT !.sprint = req.s]
    OBVIOUS
  <2>3. item[i] \in WorkItem /\ item[i].type \in DOMAIN types
    BY <1>3, <1>5 DEF OwnTypes, MadeInv, Own!Present
  <2>4. w \in WorkItem /\ w.column = item[i].column /\ w.cat = item[i].cat /\ w.sprint = req.s /\ w.type = item[i].type
    BY <1>3, <2>2, <2>3 DEF WorkItem
  <2>5. item' = [item EXCEPT ![i] = w]
    BY <1>3, <2>1, <2>2 DEF OwnTypes
  <2>6. item'[i] = w /\ Own!Free.op = "none"
    BY <1>3, <2>5 DEF OwnTypes, Own!Free
  <2>7. astray \subseteq astray' /\ (Own!SprintMoved(r, req.s) => <<i, "sprint">> \in astray')
    BY <2>1, Straying
  <2>8. <<i, "sprint">> \in astray' \/ Scheduled(i)'
    BY <1>2, <2>4, <2>6, <2>7, SprintStands
  <2> QED
    BY <1>1, <1>2, <1>3, <1>5, <2>3, <2>4, <2>5, <2>7, <2>8, OwnEdits
<1> QED
  BY <1>4, <1>5

LEMMA SetTypeKept == ASSUME OwnConstants, OwnInv, NEW r \in Slots, Own!SetType(r) PROVE OwnInv'
<1> USE DEF OwnInv
<1>1. PICK req : req = desk[r]
  OBVIOUS
<1> DEFINE i == req.i
<1>2. req.op = "retype" /\ desk' = [desk EXCEPT ![r] = Own!Free] /\ UNCHANGED <<columns, unused, stage, types, comments>>
  BY <1>1 DEF Own!SetType, Own!Finish
<1>3. i \in Items /\ req.t \in Nat /\ req.t \in DOMAIN types
  BY <1>1, <1>2, AtDesk, DemandKinds DEF Retyping, MadeInv
<1>4. CASE item[i] = None
  BY <1>1, <1>2, <1>4, OwnEnds DEF Own!SetType
<1>5. CASE item[i] # None
  <2> DEFINE marks == IF Own!TypeMoved(r, req.t) THEN {<<i, "type">>} ELSE {}
  <2>1. item' = [item EXCEPT ![i].type = req.t] /\ Own!Stray(marks)
    BY <1>1, <1>5 DEF Own!SetType
  <2>2. PICK w : w = [item[i] EXCEPT !.type = req.t]
    OBVIOUS
  <2>3. item[i] \in WorkItem
    BY <1>3, <1>5 DEF OwnTypes
  <2>4. w \in WorkItem /\ w.column = item[i].column /\ w.cat = item[i].cat /\ w.sprint = item[i].sprint /\ w.type = req.t
    BY <1>3, <2>2, <2>3 DEF WorkItem
  <2>5. item' = [item EXCEPT ![i] = w]
    BY <1>3, <2>1, <2>2 DEF OwnTypes
  <2>6. item'[i] = w /\ Own!Free.op = "none"
    BY <1>3, <2>5 DEF OwnTypes, Own!Free
  <2>7. astray \subseteq astray' /\ (Own!TypeMoved(r, req.t) => <<i, "type">> \in astray')
    BY <2>1, Straying
  <2>8. <<i, "type">> \in astray' \/ Typed(i)'
    BY <1>2, <2>4, <2>6, <2>7, TypeStands
  <2> QED
    BY <1>1, <1>2, <1>3, <1>5, <2>3, <2>4, <2>5, <2>7, <2>8, OwnEdits
<1> QED
  BY <1>4, <1>5

LEMMA Reads ==
    ASSUME NEW r, NEW k, Own!Read(r, k)
    PROVE  /\ desk[r] = Own!Free /\ desk' = [desk EXCEPT ![r] = k]
           /\ UNCHANGED <<columns, item, unused, stage, types, comments, astray>>
BY DEF Own!Read, Own!Start

LEMMA ReadItemKept ==
    ASSUME OwnInv, NEW r \in Slots, NEW i \in Items, NEW col, NEW s, NEW t,
           Own!ReadMove(r, i, col) \/ Own!ReadSetSprint(r, i, s) \/ Own!ReadSetType(r, i, t) \/ Own!ReadComment(r, i)
    PROVE  OwnInv'
<1> USE DEF OwnInv
<1>1. CASE Own!ReadMove(r, i, col)
  <2>1. PICK k : k = [op |-> "move", i |-> i, cols |-> columns, col |-> col]
    OBVIOUS
  <2>2. col \in Own!Ids(columns) /\ columns \in AllBoards
    BY <1>1 DEF Own!ReadMove, OwnTypes
  <2>3. k \in Moving /\ k.op = "move"
    BY <2>1, <2>2, InAColumn DEF Moving
  <2>4. k \in Demand /\ TypesOf(k, DOMAIN types)
    BY <2>3 DEF Demand, TypesOf
  <2>5. Own!Read(r, k)
    BY <1>1, <2>1 DEF Own!ReadMove
  <2> QED
    BY <2>3, <2>4, <2>5, Reads, OwnAsked
<1>2. CASE Own!ReadSetSprint(r, i, s)
  <2>1. PICK k : k = [op |-> "plan", i |-> i, s |-> s]
    OBVIOUS
  <2>2. s \in Plans
    BY <1>2 DEF Own!ReadSetSprint, Own!OpenSprints, Plans
  <2>3. k \in Scheduling /\ k.op = "plan"
    BY <2>1, <2>2 DEF Scheduling
  <2>4. k \in Demand /\ TypesOf(k, DOMAIN types)
    BY <2>3 DEF Demand, TypesOf
  <2>5. Own!Read(r, k)
    BY <1>2, <2>1 DEF Own!ReadSetSprint
  <2> QED
    BY <2>3, <2>4, <2>5, Reads, OwnAsked
<1>3. CASE Own!ReadSetType(r, i, t)
  <2>1. PICK k : k = [op |-> "retype", i |-> i, t |-> t]
    OBVIOUS
  <2>2. t \in DOMAIN types /\ t \in Nat
    BY <1>3 DEF Own!ReadSetType, Own!Known, OwnTypes
  <2>3. k \in Retyping /\ k.op = "retype" /\ k.t = t
    BY <2>1, <2>2 DEF Retyping
  <2>4. k \in Demand /\ TypesOf(k, DOMAIN types)
    BY <2>2, <2>3 DEF Demand, TypesOf
  <2>5. Own!Read(r, k)
    BY <1>3, <2>1 DEF Own!ReadSetType
  <2> QED
    BY <2>3, <2>4, <2>5, Reads, OwnAsked
<1>4. CASE Own!ReadComment(r, i)
  <2>1. PICK k : k = [op |-> "comment", i |-> i]
    OBVIOUS
  <2>2. k \in Commenting /\ k.op = "comment"
    BY <2>1 DEF Commenting
  <2>3. k \in Demand /\ TypesOf(k, DOMAIN types)
    BY <2>2 DEF Demand, TypesOf
  <2>4. Own!Read(r, k)
    BY <1>4, <2>1 DEF Own!ReadComment
  <2> QED
    BY <2>2, <2>3, <2>4, Reads, OwnAsked
<1> QED
  BY <1>1, <1>2, <1>3, <1>4

LEMMA DeleteOwnKept == ASSUME OwnConstants, OwnInv, NEW r \in Slots, NEW i \in Items, Own!Delete(r, i) PROVE OwnInv'
<1> USE DEF OwnInv
<1>1. PICK k : k = [op |-> "drop comments", i |-> i]
  OBVIOUS
<1>2. /\ desk[r] = Own!Free /\ desk[r].op = "none" /\ desk' = [desk EXCEPT ![r] = k] /\ item' = [item EXCEPT ![i] = None]
      /\ UNCHANGED <<columns, unused, stage, types, comments, astray>>
  <2>1. item' = [item EXCEPT ![i] = None] /\ UNCHANGED <<columns, unused, stage, types, comments, astray>>
    BY DEF Own!Delete
  <2>2. Own!Start(r, k)
    BY <1>1 DEF Own!Delete
  <2>3. desk[r] = Own!Free /\ desk' = [desk EXCEPT ![r] = k] /\ Own!Free.op = "none"
    BY <2>2 DEF Own!Start, Own!Free
  <2> QED
    BY <2>1, <2>3
<1>3. k \in Demand /\ k.op = "drop comments" /\ k.i = i
  <2>1. k \in Commenting
    BY <1>1 DEF Commenting
  <2> QED
    BY <1>1, <2>1 DEF Demand
<1>4. item' \in [Items -> WorkItem \cup {None}] /\ item'[i] = None /\ \A j \in Items : j # i => item'[j] = item[j]
  BY <1>2 DEF OwnTypes
<1>5. /\ Own!Present' = Own!Present \ {i} /\ \A j \in Own!Present' : j \in Own!Present /\ item'[j] = item[j]
      /\ Own!OpenSprints' = Own!OpenSprints /\ Own!Known' = Own!Known /\ Own!Active' = Own!Active
  BY <1>2, <1>4 DEF Own!Present, Own!OpenSprints, Own!Known, Own!Active
<1>6. Rest({"columns"}) /\ Rest({"complete"}) /\ Rest({"untype"})
  BY <1>2, <1>3, DeskRests
<1>7. OwnTypes'
  BY <1>2, <1>3, <1>4, DeskTurns DEF OwnTypes
<1>8. MadeInv'
  <2>1. TypesOf(k, DOMAIN types)
    BY <1>3 DEF TypesOf
  <2>2. unused' \cap Own!Present' = {} /\ \A j \in Own!Present' : item'[j].type \in DOMAIN types
    BY <1>2, <1>5 DEF MadeInv
  <2> QED
    BY <1>2, <1>3, <2>1, <2>2, MadeKept
<1>9. ActiveInv'
  BY <1>5 DEF ActiveInv
<1>10. ArrangedInv' /\ ScheduledInv' /\ TypedInv'
  BY <1>2, <1>5, <1>6, ColumnsKept, SprintsKept, TypesKept
<1>11. CommentsInv'
  <2> SUFFICES ASSUME NEW j \in comments PROVE j \in Own!Present' \/ <<j, "comments">> \in astray' \/ Dropping(j)'
    BY <1>2 DEF CommentsInv
  <2>1. desk'[r] = k /\ \A q \in Slots \ {r} : desk'[q] = desk[q]
    BY <1>2, <1>3, DeskTurns
  <2>2. CASE j = i
    BY <1>3, <2>1, <2>2 DEF Dropping
  <2>3. CASE j # i
    <3>1. Dropping(j) => Dropping(j)'
      BY <1>2, <2>1 DEF Dropping
    <3>2. j \in Own!Present \/ <<j, "comments">> \in astray \/ Dropping(j)
      BY DEF CommentsInv
    <3> QED
      BY <1>2, <1>5, <2>3, <3>1, <3>2
  <2> QED
    BY <2>2, <2>3
<1> QED
  BY <1>7, <1>8, <1>9, <1>10, <1>11

\* A request that ends with the comments.
LEMMA CommentsWritten ==
    ASSUME OwnInv, NEW r \in Slots, desk[r].op \in {"drop comments", "comment"}, desk' = [desk EXCEPT ![r] = Own!Free],
           UNCHANGED <<columns, item, unused, stage, types>>, comments' \subseteq Items, astray \subseteq astray', CommentsInv'
    PROVE  OwnInv'
<1> USE DEF OwnInv
<1>1. /\ Own!Free.op = "none" /\ Own!Present' = Own!Present /\ Own!OpenSprints' = Own!OpenSprints /\ Own!Known' = Own!Known
      /\ Own!Active' = Own!Active /\ TypesOf(Own!Free, DOMAIN types)
  BY DEF Own!Free, Own!Present, Own!OpenSprints, Own!Known, Own!Active, TypesOf
<1>2. Rest({"columns"}) /\ Rest({"complete"}) /\ Rest({"untype"})
  BY <1>1, DeskRests
<1>3. OwnTypes'
  BY DeskTurns DEF OwnTypes
<1>4. MadeInv'
  BY <1>1, MadeKept DEF MadeInv
<1>5. ActiveInv'
  BY <1>1 DEF ActiveInv
<1>6. ArrangedInv' /\ ScheduledInv' /\ TypedInv'
  BY <1>1, <1>2, ColumnsKept, SprintsKept, TypesKept
<1> QED
  BY <1>3, <1>4, <1>5, <1>6

LEMMA CommentsOfItemKept ==
    ASSUME OwnInv, NEW r \in Slots, Own!DropComments(r) \/ Own!Comment(r)
    PROVE  OwnInv'
<1> USE DEF OwnInv
<1>1. PICK req : req = desk[r]
  OBVIOUS
<1>2. /\ req.op \in {"drop comments", "comment"} /\ desk' = [desk EXCEPT ![r] = Own!Free]
      /\ UNCHANGED <<columns, item, unused, stage, types>>
  BY <1>1 DEF Own!DropComments, Own!Comment, Own!Finish
<1>3. req.i \in Items
  BY <1>1, <1>2, AtDesk, DemandKinds DEF Commenting
<1>4. Own!Present' = Own!Present /\ \A q \in Slots \ {r} : desk'[q] = desk[q]
  BY <1>2, DeskTurns DEF Own!Present
<1>5. CASE Own!DropComments(r)
  <2>1. comments' = comments \ {req.i} /\ astray' = astray
    BY <1>1, <1>5 DEF Own!DropComments
  <2>2. CommentsInv'
    BY <1>1, <1>4, <2>1 DEF CommentsInv, Dropping
  <2>3. comments' \subseteq Items
    BY <2>1 DEF OwnTypes
  <2> QED
    BY <1>1, <1>2, <2>1, <2>2, <2>3, CommentsWritten
<1>6. CASE Own!Comment(r)
  <2> DEFINE marks == IF req.i \notin Own!Present THEN {<<req.i, "comments">>} ELSE {}
  <2>1. comments' = comments \cup {req.i} /\ Own!Stray(marks) /\ req.op = "comment"
    BY <1>1, <1>6 DEF Own!Comment
  <2>2. astray \subseteq astray' /\ (req.i \in Own!Present \/ <<req.i, "comments">> \in astray')
    BY <2>1, Straying
  <2>3. CommentsInv'
    <3>1. desk[r].op = "comment"
      BY <1>1, <2>1
    <3>2. \A i \in comments : i \in Own!Present \/ <<i, "comments">> \in astray \/ Dropping(i)
      BY DEF CommentsInv
    <3>3. ASSUME NEW i, Dropping(i) PROVE Dropping(i)'
      BY <1>4, <3>1, <3>3 DEF Dropping
    <3>4. ASSUME NEW i \in comments' PROVE i \in Own!Present' \/ <<i, "comments">> \in astray' \/ Dropping(i)'
      <4>1. CASE i = req.i
        BY <1>4, <2>2, <4>1
      <4>2. CASE i # req.i
        BY <1>4, <2>1, <2>2, <3>2, <3>3, <4>2
      <4> QED
        BY <4>1, <4>2
    <3> QED
      BY <3>4 DEF CommentsInv
  <2>4. comments' \subseteq Items
    BY <1>3, <2>1 DEF OwnTypes
  <2> QED
    BY <1>1, <1>2, <2>2, <2>3, <2>4, CommentsWritten
<1> QED
  BY <1>5, <1>6

-----------------------------------------------------------------------------
(***************************************************************************)
(* NativeBoard: sprints                                                    *)
(***************************************************************************)

LEMMA SprintsWritten ==
    ASSUME OwnInv, NEW r \in Slots, NEW k \in Demand \cup {Own!Free}, desk' = [desk EXCEPT ![r] = k],
           {desk[r].op, k.op} \cap {"columns", "untype", "drop comments"} = {}, TypesOf(k, DOMAIN types),
           UNCHANGED <<columns, item, unused, types, comments, astray>>,
           stage' \in [Iterations -> {"none", "future", "active", "closed"}], ActiveInv', ScheduledInv'
    PROVE  OwnInv'
<1> USE DEF OwnInv
<1>1. Own!Present' = Own!Present /\ Own!Known' = Own!Known
  BY DEF Own!Present, Own!Known
<1>2. Rest({"columns"}) /\ Rest({"untype"}) /\ Rest({"drop comments"})
  BY DeskRests
<1>3. OwnTypes'
  BY DeskTurns DEF OwnTypes
<1>4. MadeInv'
  BY <1>1, MadeKept DEF MadeInv
<1>5. ArrangedInv' /\ TypedInv' /\ CommentsInv'
  BY <1>1, <1>2, ColumnsKept, TypesKept, CommentsKept
<1> QED
  BY <1>3, <1>4, <1>5

LEMMA CreateSprintKept == ASSUME OwnInv, NEW r \in Slots, NEW s \in Iterations, Own!CreateSprint(r, s) PROVE OwnInv'
<1> USE DEF OwnInv
<1>1. /\ stage[s] = "none" /\ stage' = [stage EXCEPT ![s] = "future"] /\ desk[r] = Own!Free /\ desk' = desk
      /\ UNCHANGED <<columns, item, unused, types, comments, astray>>
  BY DEF Own!CreateSprint
<1>2. Own!Free.op = "none" /\ desk' = [desk EXCEPT ![r] = Own!Free] /\ TypesOf(Own!Free, DOMAIN types)
  BY <1>1 DEF Own!Free, TypesOf, OwnTypes
<1>3. stage' \in [Iterations -> {"none", "future", "active", "closed"}] /\ Own!OpenSprints \subseteq Own!OpenSprints' /\ Own!Active' = Own!Active
  BY <1>1 DEF OwnTypes, Own!OpenSprints, Own!Active
<1>4. ActiveInv'
  BY <1>3 DEF ActiveInv
<1>5. ScheduledInv'
  <2>1. Rest({"complete"}) /\ Own!Present' = Own!Present
    BY <1>1 DEF Rest, Own!Present
  <2> QED
    BY <1>1, <1>3, <2>1, SprintsKept
<1> QED
  BY <1>1, <1>2, <1>3, <1>4, <1>5, SprintsWritten

LEMMA ReadStartKept == ASSUME OwnInv, NEW r \in Slots, NEW s \in Iterations, Own!ReadStart(r, s) PROVE OwnInv'
<1>1. PICK k : k = [op |-> "start", s |-> s]
  OBVIOUS
<1>2. k \in Starting /\ k.op = "start"
  BY <1>1 DEF Starting
<1>3. k \in Demand /\ TypesOf(k, DOMAIN types)
  BY <1>2 DEF Demand, TypesOf
<1>4. Own!Read(r, k)
  BY <1>1 DEF Own!ReadStart
<1> QED
  BY <1>2, <1>3, <1>4, Reads, OwnAsked

LEMMA StartSprintKept == ASSUME OwnInv, NEW r \in Slots, Own!StartSprint(r) PROVE OwnInv'
<1> USE DEF OwnInv
<1>1. PICK s : s = desk[r].s
  OBVIOUS
<1>2. /\ desk[r].op = "start" /\ desk' = [desk EXCEPT ![r] = Own!Free]
      /\ UNCHANGED <<columns, item, unused, types, comments, astray>>
      /\ stage' = IF Own!OneActive(s) THEN [stage EXCEPT ![s] = "active"] ELSE stage
  BY <1>1 DEF Own!StartSprint, Own!Finish
<1>3. s \in Iterations
  BY <1>1, <1>2, AtDesk, DemandKinds DEF Starting
<1>4. Own!Free.op = "none" /\ TypesOf(Own!Free, DOMAIN types)
  BY DEF Own!Free, TypesOf
<1>5. stage' \in [Iterations -> {"none", "future", "active", "closed"}] /\ Own!OpenSprints \subseteq Own!OpenSprints'
  BY <1>2, <1>3 DEF OwnTypes, Own!OpenSprints
<1>6. ActiveInv'
  <2>1. CASE Own!OneActive(s)
    <3>1. Own!Active' \subseteq {s}
      BY <1>2, <1>3, <2>1 DEF OwnTypes, Own!Active, Own!OneActive
    <3> QED
      BY <3>1 DEF ActiveInv
  <2>2. CASE ~Own!OneActive(s)
    BY <1>2, <2>2 DEF ActiveInv, Own!Active
  <2> QED
    BY <2>1, <2>2
<1>7. ScheduledInv'
  <2>1. Own!Present' = Own!Present
    BY <1>2 DEF Own!Present
  <2>2. Rest({"complete"})
    BY <1>2, <1>4, DeskRests
  <2> QED
    BY <1>2, <1>5, <2>1, <2>2, SprintsKept
<1> QED
  BY <1>2, <1>4, <1>5, <1>6, <1>7, SprintsWritten

LEMMA ReadCompleteKept ==
    ASSUME OwnInv, NEW r \in Slots, NEW s \in Iterations, NEW to, Own!ReadComplete(r, s, to)
    PROVE  OwnInv'
<1> USE DEF OwnInv
<1>1. PICK k : k = [op |-> "complete", s |-> s, to |-> to, open |-> Own!Unfinished(s), moved |-> FALSE]
  OBVIOUS
<1>2. to \in Plans /\ Own!Unfinished(s) \subseteq Items
  BY DEF Own!ReadComplete, Own!OpenSprints, Plans, Own!Unfinished, Own!Present
<1>3. k \in Completing /\ k.op = "complete" /\ k.s = s /\ k.open = Own!Unfinished(s) /\ k.moved = FALSE
  BY <1>1, <1>2 DEF Completing
<1>4. k \in Demand /\ TypesOf(k, DOMAIN types)
  BY <1>3 DEF Demand, TypesOf
<1>5. Own!Read(r, k)
  BY <1>1 DEF Own!ReadComplete
<1>6. /\ desk[r] = Own!Free /\ desk' = [desk EXCEPT ![r] = k]
      /\ UNCHANGED <<columns, item, unused, stage, types, comments, astray>>
  BY <1>5, Reads
<1>7. ScheduledInv'
  <2>1. desk'[r] = k /\ \A q \in Slots \ {r} : desk'[q] = desk[q]
    BY <1>4, <1>6, DeskTurns
  <2>2. Own!Present' = Own!Present /\ Own!OpenSprints' = Own!OpenSprints
    BY <1>6 DEF Own!Present, Own!OpenSprints
  <2> SUFFICES ASSUME NEW i \in Own!Present, <<i, "sprint">> \notin astray, item[i].cat # "done" PROVE Scheduled(i)'
    BY <1>6, <2>2 DEF ScheduledInv
  <2>3. Scheduled(i)
    BY DEF ScheduledInv
  <2>4. item[i].sprint = s => i \in Own!Unfinished(s)
    BY DEF Own!Unfinished
  <2> QED
    BY <1>3, <1>6, <2>1, <2>2, <2>3, <2>4 DEF Scheduled
<1> QED
  BY <1>3, <1>4, <1>6, <1>7, OwnAsked

LEMMA MoveOpenKept == ASSUME OwnConstants, OwnInv, NEW r \in Slots, Own!MoveOpen(r) PROVE OwnInv'
<1> USE DEF OwnInv
<1>1. PICK req : req = desk[r]
  OBVIOUS
<1>2. PICK k : k = [req EXCEPT !.moved = TRUE]
  OBVIOUS
<1> DEFINE marks == {<<i, "sprint">> : i \in {j \in req.open : req.to = req.s \/ Own!SprintMoved(r, req.to)}}
           after(i) == IF i \in req.open /\ item[i] # None THEN [item[i] EXCEPT !.sprint = req.to] ELSE item[i]
<1>3. req.op = "complete" /\ ~req.moved /\ UNCHANGED <<columns, unused, stage, types, comments>>
  BY <1>1 DEF Own!MoveOpen
<1>4. item' = [i \in Items |-> after(i)] /\ Own!Stray(marks)
  BY <1>1 DEF Own!MoveOpen
<1>5. desk' = [desk EXCEPT ![r] = k]
  BY <1>1, <1>2 DEF Own!MoveOpen, Own!Go
<1>6. req \in Completing
  BY <1>1, <1>3, AtDesk, DemandKinds
<1>7. /\ k \in Demand /\ k.op = "complete" /\ k.s = req.s /\ k.to = req.to /\ k.open = req.open /\ k.moved = TRUE
      /\ TypesOf(k, DOMAIN types)
  <2>1. k \in Completing /\ k.op = "complete" /\ k.s = req.s /\ k.to = req.to /\ k.open = req.open /\ k.moved = TRUE
    BY <1>2, <1>6 DEF Completing
  <2> QED
    BY <2>1 DEF Demand, TypesOf
<1>8. \A i \in Items : /\ item[i] = None => after(i) = None
                       /\ item[i] # None =>
                            /\ after(i) \in WorkItem /\ after(i).column = item[i].column /\ after(i).cat = item[i].cat
                            /\ after(i).type = item[i].type
                            /\ after(i).sprint = IF i \in req.open THEN req.to ELSE item[i].sprint
  <2> TAKE i \in Items
  <2>1. CASE i \in req.open /\ item[i] # None
    <3>1. PICK w : w = [item[i] EXCEPT !.sprint = req.to]
      OBVIOUS
    <3>2. item[i] \in WorkItem /\ req.to \in Plans
      BY <1>6, <2>1 DEF OwnTypes, Completing
    <3>3. w \in WorkItem /\ w.column = item[i].column /\ w.cat = item[i].cat /\ w.type = item[i].type /\ w.sprint = req.to
      BY <3>1, <3>2 DEF WorkItem
    <3>4. after(i) = w
      BY <2>1, <3>1
    <3> QED
      BY <2>1, <3>3, <3>4
  <2>2. CASE ~(i \in req.open /\ item[i] # None)
    BY <2>2 DEF OwnTypes
  <2> QED
    BY <2>1, <2>2
<1> HIDE DEF after
<1>9. /\ item' \in [Items -> WorkItem \cup {None}] /\ Own!Present' = Own!Present
      /\ \A i \in Own!Present : /\ item'[i].column = item[i].column /\ item'[i].cat = item[i].cat /\ item'[i].type = item[i].type
                                /\ item'[i].sprint = IF i \in req.open THEN req.to ELSE item[i].sprint
  BY <1>4, <1>8 DEF OwnTypes, Own!Present, OwnConstants
<1>10. astray \subseteq astray' /\ \A i \in req.open : req.to = req.s \/ Own!SprintMoved(r, req.to) => <<i, "sprint">> \in astray'
  BY <1>4, Straying
<1> HIDE DEF marks
<1>11. Rest({"columns"}) /\ Rest({"untype"})
  BY <1>1, <1>3, <1>5, <1>7, DeskRests
<1>12. ArrangedInv'
  BY <1>3, <1>9, <1>10, <1>11, ColumnsKept
<1>13. TypedInv'
  <2>1. Own!Known' = Own!Known
    BY <1>3 DEF Own!Known
  <2> QED
    BY <1>9, <1>10, <1>11, <2>1, TypesKept
<1>14. ScheduledInv'
  <2> SUFFICES ASSUME NEW i \in Own!Present, <<i, "sprint">> \notin astray', item'[i].cat # "done" PROVE Scheduled(i)'
    BY <1>9 DEF ScheduledInv
  <2>1. CASE i \in req.open
    <3>1. item'[i].sprint = req.to /\ req.to # req.s /\ ~Own!SprintMoved(r, req.to)
      BY <1>9, <1>10, <2>1
    <3> QED
      BY <1>3, <1>5, <1>7, <3>1, SprintStands
  <2>2. CASE i \notin req.open
    <3>1. item'[i].sprint = item[i].sprint /\ Scheduled(i)
      BY <1>9, <1>10, <2>2 DEF ScheduledInv
    <3>2. desk'[r] = k /\ \A q \in Slots \ {r} : desk'[q] = desk[q]
      BY <1>5, <1>7, DeskTurns
    <3>3. item[i].sprint # req.s
      BY <1>1, <1>3, <2>2, <3>1 DEF Scheduled
    <3>4. Own!OpenSprints' = Own!OpenSprints
      BY <1>3 DEF Own!OpenSprints
    <3> QED
      BY <1>7, <3>1, <3>2, <3>3, <3>4 DEF Scheduled
  <2> QED
    BY <2>1, <2>2
<1>15. unused' \cap Own!Present' = {} /\ \A i \in Own!Present' : item'[i].type \in DOMAIN types
  BY <1>3, <1>9 DEF MadeInv
<1>16. desk[r].op # "drop comments" /\ k.op # "drop comments"
  BY <1>1, <1>3, <1>7
<1> QED
  BY <1>3, <1>5, <1>7, <1>9, <1>10, <1>12, <1>13, <1>14, <1>15, <1>16, OwnWrites

LEMMA CloseSprintKept == ASSUME OwnInv, NEW r \in Slots, Own!CloseSprint(r) PROVE OwnInv'
<1> USE DEF OwnInv
<1>1. PICK s : s = desk[r].s
  OBVIOUS
<1>2. /\ desk[r].op = "complete" /\ desk[r].moved /\ desk' = [desk EXCEPT ![r] = Own!Free]
      /\ UNCHANGED <<columns, item, unused, types, comments, astray>> /\ stage' = [stage EXCEPT ![s] = "closed"]
  BY <1>1 DEF Own!CloseSprint, Own!Finish
<1>3. s \in Iterations /\ desk[r].moved = TRUE
  <2>1. desk[r] \in Completing
    BY <1>2, AtDesk, DemandKinds
  <2> QED
    BY <1>1, <1>2, <2>1 DEF Completing
<1>4. Own!Free.op = "none" /\ TypesOf(Own!Free, DOMAIN types)
  BY DEF Own!Free, TypesOf
<1>5. /\ stage' \in [Iterations -> {"none", "future", "active", "closed"}]
      /\ Own!Active' \subseteq Own!Active /\ Own!OpenSprints \ {s} \subseteq Own!OpenSprints'
  BY <1>2, <1>3 DEF OwnTypes, Own!Active, Own!OpenSprints
<1>6. ActiveInv'
  BY <1>5 DEF ActiveInv
<1>7. ScheduledInv'
  <2>1. Own!Present' = Own!Present
    BY <1>2 DEF Own!Present
  <2>2. \A q \in Slots \ {r} : desk'[q] = desk[q]
    BY <1>2, DeskTurns
  <2>3. desk'[r] = Own!Free
    BY <1>2, DeskTurns
  <2> SUFFICES ASSUME NEW i \in Own!Present, <<i, "sprint">> \notin astray, item[i].cat # "done" PROVE Scheduled(i)'
    BY <1>2, <2>1 DEF ScheduledInv
  <2>4. Scheduled(i)
    BY DEF ScheduledInv
  <2>5. item[i].sprint # s
    BY <1>1, <1>2, <1>3, <2>4 DEF Scheduled
  <2> QED
    BY <1>2, <1>4, <1>5, <2>2, <2>3, <2>4, <2>5 DEF Scheduled
<1> QED
  BY <1>2, <1>4, <1>5, <1>6, <1>7, SprintsWritten

-----------------------------------------------------------------------------
(***************************************************************************)
(* NativeBoard: columns                                                    *)
(***************************************************************************)

\* One request changes the columns: what it knows of an item when no other does.
LEMMA ArrangesAlone ==
    ASSUME OwnTypes, NEW r \in Slots, NEW k \in Demand, desk' = [desk EXCEPT ![r] = k], k.op = "columns", NEW i,
           (\A q \in Slots \ {r} : desk[q].op # "columns") =>
              /\ k.read = columns'
              /\ IF k.placed = TRUE
                 THEN item'[i].column \in Own!Ids(k.cols) /\ item'[i].cat = Own!Column(k.cols, item'[i].column).cat
                 ELSE item'[i].column \in k.left \cup Own!Ids(k.cols)
    PROVE  Arranged(i)'
<1>1. desk'[r] = k /\ \A q \in Slots \ {r} : desk'[q] = desk[q]
  BY DeskTurns
<1> SUFFICES ASSUME NEW p \in Slots, desk'[p].op = "columns", \A q \in Slots \ {p} : desk'[q].op # "columns"
             PROVE  /\ k.read = columns' /\ p = r
                    /\ IF k.placed = TRUE
                       THEN item'[i].column \in Own!Ids(k.cols) /\ item'[i].cat = Own!Column(k.cols, item'[i].column).cat
                       ELSE item'[i].column \in k.left \cup Own!Ids(k.cols)
  BY <1>1 DEF Arranged, InColumn
<1>2. p = r
  BY <1>1
<1> QED
  BY <1>1, <1>2

LEMMA ReadColumnsOwnKept ==
    ASSUME OwnInv, NEW r \in Slots, NEW cols \in Boards, NEW to \in Own!Ids(cols), Own!ReadColumns(r, cols, to)
    PROVE  OwnInv'
<1> USE DEF OwnInv
<1> DEFINE removed == Own!Ids(columns) \ Own!Ids(cols)
<1>1. PICK k : k = [op |-> "columns", read |-> columns, cols |-> cols, to |-> to, left |-> removed, placed |-> FALSE]
  OBVIOUS
<1>2. columns \in AllBoards /\ cols \in AllBoards
  BY DEF OwnTypes, AllBoards
<1>3. removed \subseteq ColumnIds /\ to \in ColumnIds
  BY <1>2, InAColumn
<1>4. /\ k \in Arranging /\ k.op = "columns" /\ k.read = columns /\ k.cols = cols /\ k.left = removed /\ k.placed = FALSE
  BY <1>1, <1>2, <1>3 DEF Arranging
<1>5. k \in Demand /\ TypesOf(k, DOMAIN types)
  BY <1>4 DEF Demand, TypesOf
<1>6. Own!Read(r, k)
  BY <1>1 DEF Own!ReadColumns
<1>7. /\ desk[r] = Own!Free /\ desk[r].op = "none" /\ desk' = [desk EXCEPT ![r] = k]
      /\ UNCHANGED <<columns, item, unused, stage, types, comments, astray>>
  BY <1>6, Reads DEF Own!Free
<1>8. ArrangedInv'
  <2>1. Own!Present' = Own!Present
    BY <1>7 DEF Own!Present
  <2> SUFFICES ASSUME NEW i \in Own!Present, <<i, "column">> \notin astray PROVE Arranged(i)'
    BY <1>7, <2>1 DEF ArrangedInv
  <2>2. (\A q \in Slots \ {r} : desk[q].op # "columns") => item[i].column \in Own!Ids(columns)
    BY <1>7 DEF ArrangedInv, Arranged, InColumn
  <2>3. (\A q \in Slots \ {r} : desk[q].op # "columns") => item'[i].column \in k.left \cup Own!Ids(k.cols)
    BY <1>4, <1>7, <2>2
  <2> QED
    BY <1>4, <1>5, <1>7, <2>3, ArrangesAlone
<1> QED
  BY <1>4, <1>5, <1>7, <1>8, OwnAsked

\* A request that changes the columns and category of items: none is reopened, or it strays.
LEMMA OwnPlaces ==
    ASSUME OwnConstants, OwnInv, NEW r \in Slots, desk[r].op = "columns", NEW k \in Demand, k.op = "columns",
           desk' = [desk EXCEPT ![r] = k], UNCHANGED <<columns, unused, stage, types, comments>>, astray \subseteq astray',
           item' \in [Items -> WorkItem \cup {None}], Own!Present' = Own!Present,
           \A i \in Own!Present :
              /\ item'[i].sprint = item[i].sprint /\ item'[i].type = item[i].type
              /\ item'[i].cat = item[i].cat \/ <<i, "sprint">> \in astray' \/ ~Own!Reopened(r, i, item'[i].cat)
              /\ <<i, "column">> \in astray' \/ Arranged(i)'
    PROVE  OwnInv'
<1> USE DEF OwnInv
<1>1. Rest({"complete"}) /\ Rest({"untype"}) /\ Own!OpenSprints' = Own!OpenSprints /\ Own!Known' = Own!Known
  BY DeskRests DEF Own!OpenSprints, Own!Known
<1>2. ArrangedInv'
  BY DEF ArrangedInv
<1>3. ScheduledInv'
  <2>1. \A i \in Own!Present : \/ <<i, "sprint">> \in astray'
                               \/ item'[i].cat = "done"
                               \/ Scheduled(i)'
                               \/ (item'[i].sprint = item[i].sprint /\ item'[i].cat = item[i].cat)
    BY CategoryStands
  <2> QED
    BY <1>1, <2>1, SprintsKept
<1>4. TypedInv'
  BY <1>1, TypesKept
<1>5. unused' \cap Own!Present' = {} /\ \A i \in Own!Present' : item'[i].type \in DOMAIN types
  BY DEF MadeInv
<1>6. TypesOf(k, DOMAIN types)
  BY DEF TypesOf
<1> QED
  BY <1>2, <1>3, <1>4, <1>5, <1>6, OwnWrites

LEMMA EmptyColumnKept == ASSUME OwnConstants, OwnInv, NEW r \in Slots, Own!EmptyColumn(r) PROVE OwnInv'
<1> USE DEF OwnInv
<1>1. PICK req : req = desk[r]
  OBVIOUS
<1> DEFINE cat == Own!Column(req.cols, req.to).cat
<1>2. req.op = "columns" /\ UNCHANGED <<columns, unused, stage, types, comments>>
  BY <1>1 DEF Own!EmptyColumn
<1>3. PICK id \in req.left :
         /\ item' = Own!MoveItems(id, req.to, cat)
         /\ Own!Stray({<<i, "sprint">> : i \in {j \in Own!Present : item[j].column = id /\ Own!Reopened(r, j, cat)}})
         /\ Own!Go(r, [req EXCEPT !.left = @ \ {id}])
  BY <1>1 DEF Own!EmptyColumn
<1>4. PICK k : k = [req EXCEPT !.left = @ \ {id}]
  OBVIOUS
<1>5. desk' = [desk EXCEPT ![r] = k]
  BY <1>3, <1>4 DEF Own!Go
<1>6. req \in Arranging
  BY <1>1, <1>2, AtDesk, DemandKinds
<1>7. /\ req.placed = FALSE /\ req.cols \in AllBoards /\ req.to \in Own!Ids(req.cols) /\ req.to \in ColumnIds /\ cat \in Categories
      /\ req.left \subseteq ColumnIds
  BY <1>3, <1>6, InAColumn DEF Arranging
<1>8. /\ k \in Arranging /\ k.op = "columns" /\ k.read = req.read /\ k.cols = req.cols /\ k.to = req.to
      /\ k.left = req.left \ {id} /\ k.placed = FALSE
  BY <1>4, <1>6, <1>7 DEF Arranging
<1>9. k \in Demand
  BY <1>8 DEF Demand
<1> DEFINE moved(i) == item[i] # None /\ item[i].column = id
           after(i) == IF item[i] # None /\ item[i].column = id THEN [item[i] EXCEPT !.column = req.to, !.cat = cat] ELSE item[i]
<1>10. item' = [i \in Items |-> after(i)]
  BY <1>3 DEF Own!MoveItems
<1>11. \A i \in Items : /\ item[i] = None => after(i) = None
                        /\ item[i] # None =>
                             /\ after(i) \in WorkItem /\ after(i).sprint = item[i].sprint /\ after(i).type = item[i].type
                             /\ after(i).column = IF item[i].column = id THEN req.to ELSE item[i].column
                             /\ after(i).cat = IF item[i].column = id THEN cat ELSE item[i].cat
  <2> TAKE i \in Items
  <2>1. CASE moved(i)
    <3>1. PICK w : w = [item[i] EXCEPT !.column = req.to, !.cat = cat]
      OBVIOUS
    <3>2. item[i] \in WorkItem
      BY <2>1 DEF OwnTypes
    <3>3. w \in WorkItem /\ w.column = req.to /\ w.cat = cat /\ w.type = item[i].type /\ w.sprint = item[i].sprint
      BY <1>7, <3>1, <3>2 DEF WorkItem
    <3>4. after(i) = w
      BY <2>1, <3>1
    <3> QED
      BY <2>1, <3>3, <3>4
  <2>2. CASE ~moved(i)
    BY <2>2 DEF OwnTypes
  <2> QED
    BY <2>1, <2>2
<1> HIDE DEF after, cat
<1>12. /\ item' \in [Items -> WorkItem \cup {None}] /\ Own!Present' = Own!Present
       /\ \A i \in Own!Present : /\ item'[i].sprint = item[i].sprint /\ item'[i].type = item[i].type
                                 /\ item'[i].column = IF item[i].column = id THEN req.to ELSE item[i].column
                                 /\ item'[i].cat = IF item[i].column = id THEN cat ELSE item[i].cat
  BY <1>10, <1>11 DEF OwnTypes, Own!Present, OwnConstants
<1>13. astray \subseteq astray' /\ \A i \in Own!Present : item[i].column = id /\ Own!Reopened(r, i, cat) => <<i, "sprint">> \in astray'
  BY <1>3, Straying
<1>14. \A i \in Own!Present : item'[i].cat = item[i].cat \/ <<i, "sprint">> \in astray' \/ ~Own!Reopened(r, i, item'[i].cat)
  BY <1>12, <1>13
<1>15. ASSUME NEW i \in Own!Present, <<i, "column">> \notin astray'
       PROVE  Arranged(i)'
  <2> SUFFICES ASSUME \A q \in Slots \ {r} : desk[q].op # "columns"
               PROVE  k.read = columns' /\ item'[i].column \in k.left \cup Own!Ids(k.cols)
    BY <1>5, <1>8, <1>9, ArrangesAlone
  <2>1. req.read = columns /\ item[i].column \in req.left \cup Own!Ids(req.cols)
    BY <1>1, <1>2, <1>7, <1>13, <1>15 DEF ArrangedInv, Arranged
  <2> QED
    BY <1>2, <1>7, <1>8, <1>12, <2>1
<1> QED
  BY <1>1, <1>2, <1>5, <1>8, <1>9, <1>12, <1>13, <1>14, <1>15, OwnPlaces

LEMMA RecategoriseKept == ASSUME OwnConstants, OwnInv, NEW r \in Slots, Own!Recategorise(r) PROVE OwnInv'
<1> USE DEF OwnInv
<1>1. PICK req : req = desk[r]
  OBVIOUS
<1> DEFINE cat(i) == Own!Column(req.cols, item[i].column).cat
           held == {i \in Own!Present : item[i].column \in Own!Ids(req.cols)}
           marks == {<<i, "sprint">> : i \in {j \in held : Own!Reopened(r, j, cat(j))}}
<1>2. req.op = "columns" /\ req.left = {} /\ ~req.placed /\ UNCHANGED <<columns, unused, stage, types, comments>>
  BY <1>1 DEF Own!Recategorise
<1>3. /\ item' = [i \in Items |-> IF i \in held THEN [item[i] EXCEPT !.cat = cat(i)] ELSE item[i]]
      /\ Own!Stray(marks)
  BY <1>1 DEF Own!Recategorise
<1>4. PICK k : k = [req EXCEPT !.placed = TRUE]
  OBVIOUS
<1>5. desk' = [desk EXCEPT ![r] = k]
  BY <1>1, <1>4 DEF Own!Recategorise, Own!Go
<1>6. req \in Arranging
  BY <1>1, <1>2, AtDesk, DemandKinds
<1>7. req.placed = FALSE /\ req.cols \in AllBoards
  BY <1>2, <1>6 DEF Arranging
<1>8. /\ k \in Arranging /\ k.op = "columns" /\ k.read = req.read /\ k.cols = req.cols /\ k.placed = TRUE
  BY <1>2, <1>4, <1>6 DEF Arranging
<1>9. k \in Demand
  BY <1>8 DEF Demand
<1> DEFINE after(i) == IF i \in held THEN [item[i] EXCEPT !.cat = cat(i)] ELSE item[i]
<1>10. item' = [i \in Items |-> after(i)]
  BY <1>3
<1>11. \A i \in Items : /\ item[i] = None => after(i) = None
                        /\ item[i] # None =>
                             /\ after(i) \in WorkItem /\ after(i).sprint = item[i].sprint /\ after(i).type = item[i].type
                             /\ after(i).column = item[i].column
                             /\ after(i).cat = IF i \in held THEN cat(i) ELSE item[i].cat
  <2> TAKE i \in Items
  <2>1. CASE i \in held
    <3>1. PICK w : w = [item[i] EXCEPT !.cat = cat(i)]
      OBVIOUS
    <3>2. item[i] \in WorkItem /\ item[i] # None
      BY <2>1 DEF OwnTypes, Own!Present
    <3>3. cat(i) \in Categories
      BY <1>7, <2>1, InAColumn
    <3>4. w \in WorkItem /\ w.column = item[i].column /\ w.cat = cat(i) /\ w.type = item[i].type /\ w.sprint = item[i].sprint
      BY <3>1, <3>2, <3>3 DEF WorkItem
    <3>5. after(i) = w
      BY <2>1, <3>1
    <3> QED
      BY <2>1, <3>2, <3>4, <3>5
  <2>2. CASE i \notin held
    BY <2>2 DEF OwnTypes
  <2> QED
    BY <2>1, <2>2
<1> HIDE DEF after
<1>12. /\ item' \in [Items -> WorkItem \cup {None}] /\ Own!Present' = Own!Present
       /\ \A i \in Own!Present : /\ item'[i].sprint = item[i].sprint /\ item'[i].type = item[i].type
                                 /\ item'[i].column = item[i].column
                                 /\ item'[i].cat = IF i \in held THEN cat(i) ELSE item[i].cat
  <2> HIDE DEF held, cat
  <2> QED
    BY <1>10, <1>11 DEF OwnTypes, Own!Present, OwnConstants
<1>13. astray \subseteq astray' /\ \A i \in held : Own!Reopened(r, i, cat(i)) => <<i, "sprint">> \in astray'
  <2> HIDE DEF held, cat
  <2> QED
    BY <1>3, Straying
<1> HIDE DEF marks
<1>14. \A i \in Own!Present : item'[i].cat = item[i].cat \/ <<i, "sprint">> \in astray' \/ ~Own!Reopened(r, i, item'[i].cat)
  <2> HIDE DEF held, cat
  <2> QED
    BY <1>12, <1>13
<1>15. ASSUME NEW i \in Own!Present, <<i, "column">> \notin astray'
       PROVE  Arranged(i)'
  <2> SUFFICES ASSUME \A q \in Slots \ {r} : desk[q].op # "columns"
               PROVE  /\ k.read = columns'
                      /\ item'[i].column \in Own!Ids(k.cols) /\ item'[i].cat = Own!Column(k.cols, item'[i].column).cat
    BY <1>5, <1>8, <1>9, ArrangesAlone
  <2>1. req.read = columns /\ item[i].column \in req.left \cup Own!Ids(req.cols)
    BY <1>1, <1>2, <1>7, <1>13, <1>15 DEF ArrangedInv, Arranged
  <2>2. i \in held
    BY <1>2, <2>1
  <2> QED
    BY <1>2, <1>8, <1>12, <2>1, <2>2
<1> QED
  BY <1>1, <1>2, <1>5, <1>8, <1>9, <1>12, <1>13, <1>14, <1>15, OwnPlaces

LEMMA SetColumnsKept == ASSUME OwnConstants, OwnInv, NEW r \in Slots, Own!SetColumns(r) PROVE OwnInv'
<1> USE DEF OwnInv
<1>1. PICK req : req = desk[r]
  OBVIOUS
<1> DEFINE marks == IF Own!ColumnsMoved(r, req.read) THEN {<<i, "column">> : i \in Items} ELSE {}
<1>2. /\ req.op = "columns" /\ req.placed /\ columns' = req.cols /\ UNCHANGED <<item, unused, stage, types, comments>>
      /\ Own!Stray(marks) /\ desk' = [desk EXCEPT ![r] = Own!Free]
  BY <1>1 DEF Own!SetColumns, Own!Finish
<1>3. req.placed = TRUE /\ req.cols \in AllBoards
  <2>1. req \in Arranging
    BY <1>1, <1>2, AtDesk, DemandKinds
  <2> QED
    BY <1>2, <2>1 DEF Arranging
<1>4. astray \subseteq astray' /\ (Own!ColumnsMoved(r, req.read) => \A i \in Items : <<i, "column">> \in astray')
  BY <1>2, Straying
<1> HIDE DEF marks
<1>5. /\ Own!Free.op = "none" /\ Own!Present' = Own!Present /\ Own!OpenSprints' = Own!OpenSprints /\ Own!Known' = Own!Known
      /\ Own!Active' = Own!Active /\ TypesOf(Own!Free, DOMAIN types)
  BY <1>2 DEF Own!Free, Own!Present, Own!OpenSprints, Own!Known, Own!Active, TypesOf
<1>6. Rest({"complete"}) /\ Rest({"untype"}) /\ Rest({"drop comments"})
  BY <1>1, <1>2, <1>5, DeskRests
<1>7. OwnTypes'
  BY <1>2, <1>3, DeskTurns DEF OwnTypes
<1>8. MadeInv'
  BY <1>2, <1>5, MadeKept DEF MadeInv
<1>9. ActiveInv'
  BY <1>5 DEF ActiveInv
<1>10. ArrangedInv'
  <2> SUFFICES ASSUME NEW i \in Own!Present, <<i, "column">> \notin astray' PROVE Arranged(i)'
    BY <1>5 DEF ArrangedInv
  <2>1. ~Own!ColumnsMoved(r, req.read)
    BY <1>4 DEF Own!Present
  <2>2. \A q \in Slots \ {r} : desk[q].op # "columns"
    BY <2>1 DEF Own!ColumnsMoved, Own!Changing
  <2>3. item[i].column \in Own!Ids(req.cols) /\ item[i].cat = Own!Column(req.cols, item[i].column).cat
    BY <1>1, <1>2, <1>3, <1>4, <2>2 DEF ArrangedInv, Arranged, InColumn
  <2>4. \A q \in Slots : desk'[q].op # "columns"
    BY <1>2, <1>5, <2>2, DeskTurns
  <2> QED
    BY <1>2, <2>3, <2>4 DEF Arranged, InColumn
<1>11. ScheduledInv' /\ TypedInv' /\ CommentsInv'
  BY <1>2, <1>4, <1>5, <1>6, SprintsKept, TypesKept, CommentsKept
<1> QED
  BY <1>7, <1>8, <1>9, <1>10, <1>11

-----------------------------------------------------------------------------
(***************************************************************************)
(* NativeBoard: types                                                      *)
(***************************************************************************)

LEMMA CreateTypeKept ==
    ASSUME OwnConstants, OwnInv, NEW r \in Slots, NEW name \in Names, Own!CreateType(r, name)
    PROVE  OwnInv'
<1> USE DEF OwnInv
<1> DEFINE base == Own!WithDefaults
<1>1. /\ desk[r] = Own!Free /\ desk' = desk /\ UNCHANGED <<columns, item, unused, stage, comments, astray>>
      /\ types' = IF name \in Own!ToSet(base) THEN base ELSE Append(base, name)
  BY DEF Own!CreateType
<1>2. Own!Free.op = "none" /\ desk' = [desk EXCEPT ![r] = Own!Free]
  BY <1>1 DEF Own!Free, OwnTypes
<1>3. /\ base \in Seq(Names \cup {None}) /\ DOMAIN types \subseteq DOMAIN base
      /\ \A t \in DOMAIN types : base[t] = types[t]
  BY Defaults
<1> HIDE DEF base
<1>4. /\ types' \in Seq(Names \cup {None}) /\ DOMAIN base \subseteq DOMAIN types'
      /\ \A t \in DOMAIN base : types'[t] = base[t]
  <2>1. CASE types' = base
    BY <1>3, <2>1
  <2>2. CASE types' = Append(base, name)
    BY <1>3, <2>2
  <2> QED
    BY <1>1, <2>1, <2>2
<1>5. DOMAIN types \subseteq DOMAIN types' /\ \A t \in DOMAIN types : types'[t] = types[t]
  BY <1>3, <1>4
<1>6. TypesOf(Own!Free, DOMAIN types')
  BY <1>2 DEF TypesOf
<1> QED
  BY <1>1, <1>2, <1>4, <1>5, <1>6, TypesAdded

LEMMA ReadDeleteTypeKept ==
    ASSUME OwnConstants, OwnInv, NEW r \in Slots, NEW t, NEW to, Own!ReadDeleteType(r, t, to)
    PROVE  OwnInv'
<1> USE DEF OwnInv
<1>1. PICK k : k = [op |-> "untype", t |-> t, to |-> to, reassign |-> to # None]
  OBVIOUS
<1>2. /\ t \in Own!Known /\ Own!Read(r, k)
      /\ (Own!UsedBy(t) = {} /\ to = None) \/ (Own!UsedBy(t) # {} /\ to \in Own!Known \ {t})
  BY <1>1 DEF Own!ReadDeleteType
<1>3. Own!Known \subseteq Nat /\ Own!Known \subseteq DOMAIN types /\ None \notin Nat
  BY DEF Own!Known, OwnTypes, OwnConstants
<1>4. k.op = "untype" /\ k.t = t /\ k.to = to /\ (k.reassign = TRUE <=> to # None) /\ k.reassign \in BOOLEAN
  BY <1>1
<1>5. to = None \/ (to \in DOMAIN types /\ to \in Nat /\ to # t)
  BY <1>2, <1>3
<1>6. k \in Untyping
  <2>1. k \in [op : {"untype"}, t : Nat, to : Nat \cup {None}, reassign : BOOLEAN]
    BY <1>1, <1>2, <1>3, <1>5
  <2> QED
    BY <1>4, <1>5, <2>1 DEF Untyping
<1>7. k \in Demand /\ TypesOf(k, DOMAIN types)
  BY <1>4, <1>5, <1>6 DEF Demand, TypesOf
<1>8. /\ desk[r] = Own!Free /\ desk' = [desk EXCEPT ![r] = k]
      /\ UNCHANGED <<columns, item, unused, stage, types, comments, astray>>
  BY <1>2, Reads
<1>9. TypedInv'
  <2>1. desk'[r] = k /\ \A q \in Slots \ {r} : desk'[q] = desk[q]
    BY <1>7, <1>8, DeskTurns
  <2>2. Own!Present' = Own!Present /\ Own!Known' = Own!Known
    BY <1>8 DEF Own!Present, Own!Known
  <2> SUFFICES ASSUME NEW i \in Own!Present, <<i, "type">> \notin astray PROVE Typed(i)'
    BY <1>8, <2>2 DEF TypedInv
  <2>3. Typed(i)
    BY DEF TypedInv
  <2>4. item[i].type = t => k.reassign = TRUE
    <3>1. item[i].type = t => Own!UsedBy(t) # {}
      BY DEF Own!UsedBy
    <3> QED
      BY <1>2, <1>3, <1>4, <3>1
  <2> QED
    BY <1>4, <1>8, <2>1, <2>2, <2>3, <2>4 DEF Typed
<1> QED
  BY <1>4, <1>7, <1>8, <1>9, OwnAsked

LEMMA ReassignTypeKept == ASSUME OwnConstants, OwnInv, NEW r \in Slots, Own!ReassignType(r) PROVE OwnInv'
<1> USE DEF OwnInv
<1>1. PICK req : req = desk[r]
  OBVIOUS
<1> DEFINE used == Own!UsedBy(req.t)
           marks == {<<i, "type">> : i \in {j \in used : Own!TypeMoved(r, req.to)}}
           after(i) == IF i \in used THEN [item[i] EXCEPT !.type = req.to] ELSE item[i]
<1>2. PICK k : k = [req EXCEPT !.reassign = FALSE]
  OBVIOUS
<1>3. req.op = "untype" /\ req.reassign /\ UNCHANGED <<columns, unused, stage, types, comments>>
  BY <1>1 DEF Own!ReassignType
<1>4. item' = [i \in Items |-> after(i)] /\ Own!Stray(marks)
  BY <1>1 DEF Own!ReassignType
<1>5. desk' = [desk EXCEPT ![r] = k]
  BY <1>1, <1>2 DEF Own!ReassignType, Own!Go
<1>6. req \in Untyping
  BY <1>1, <1>3, AtDesk, DemandKinds
<1>7. req.reassign = TRUE /\ req.to \in Nat /\ req.to # req.t /\ req.to \in DOMAIN types
  BY <1>1, <1>3, <1>6 DEF Untyping, MadeInv
<1>8. /\ k \in Demand /\ k.op = "untype" /\ k.t = req.t /\ k.reassign = FALSE /\ TypesOf(k, DOMAIN types)
  <2>1. k \in Untyping /\ k.op = "untype" /\ k.t = req.t /\ k.reassign = FALSE
    BY <1>2, <1>6 DEF Untyping
  <2> QED
    BY <2>1 DEF Demand, TypesOf
<1>9. \A i \in Own!Present : i \in used <=> item[i].type = req.t
  BY DEF Own!UsedBy
<1>10. \A i \in used : i \in Own!Present
  BY DEF Own!UsedBy
<1> HIDE DEF used
<1>11. \A i \in Items : /\ item[i] = None => after(i) = None
                        /\ item[i] # None =>
                             /\ after(i) \in WorkItem /\ after(i).column = item[i].column /\ after(i).cat = item[i].cat
                             /\ after(i).sprint = item[i].sprint
                             /\ after(i).type = IF i \in used THEN req.to ELSE item[i].type
  <2> TAKE i \in Items
  <2>1. CASE i \in used
    <3>1. PICK w : w = [item[i] EXCEPT !.type = req.to]
      OBVIOUS
    <3>2. item[i] \in WorkItem /\ item[i] # None
      BY <1>10, <2>1 DEF OwnTypes, Own!Present
    <3>3. w \in WorkItem /\ w.column = item[i].column /\ w.cat = item[i].cat /\ w.type = req.to /\ w.sprint = item[i].sprint
      BY <1>7, <3>1, <3>2 DEF WorkItem
    <3>4. after(i) = w
      BY <2>1, <3>1
    <3> QED
      BY <2>1, <3>2, <3>3, <3>4
  <2>2. CASE i \notin used
    BY <2>2 DEF OwnTypes
  <2> QED
    BY <2>1, <2>2
<1> HIDE DEF after
<1>12. /\ item' \in [Items -> WorkItem \cup {None}] /\ Own!Present' = Own!Present
       /\ \A i \in Own!Present : /\ item'[i].column = item[i].column /\ item'[i].cat = item[i].cat
                                 /\ item'[i].sprint = item[i].sprint
                                 /\ item'[i].type = IF i \in used THEN req.to ELSE item[i].type
  BY <1>4, <1>11 DEF OwnTypes, Own!Present, OwnConstants
<1>13. astray \subseteq astray' /\ \A i \in used : Own!TypeMoved(r, req.to) => <<i, "type">> \in astray'
  BY <1>4, Straying
<1> HIDE DEF marks
<1>14. Rest({"columns"}) /\ Rest({"complete"})
  BY <1>1, <1>3, <1>5, <1>8, DeskRests
<1>15. ArrangedInv' /\ ScheduledInv'
  <2>1. Own!OpenSprints' = Own!OpenSprints
    BY <1>3 DEF Own!OpenSprints
  <2>2. ArrangedInv'
    BY <1>3, <1>12, <1>13, <1>14, ColumnsKept
  <2> QED
    BY <1>12, <1>13, <1>14, <2>1, <2>2, SprintsKept
<1>16. TypedInv'
  <2> SUFFICES ASSUME NEW i \in Own!Present, <<i, "type">> \notin astray' PROVE Typed(i)'
    BY <1>12 DEF TypedInv
  <2>1. CASE i \in used
    <3>1. item'[i].type = req.to /\ ~Own!TypeMoved(r, req.to)
      BY <1>12, <1>13, <2>1
    <3> QED
      BY <1>3, <1>5, <1>7, <1>8, <3>1, TypeStands
  <2>2. CASE i \notin used
    <3>1. item'[i].type = item[i].type /\ item[i].type # req.t /\ Typed(i)
      BY <1>9, <1>12, <1>13, <2>2 DEF TypedInv
    <3>2. desk'[r] = k /\ \A q \in Slots \ {r} : desk'[q] = desk[q]
      BY <1>5, <1>8, DeskTurns
    <3>3. Own!Known' = Own!Known
      BY <1>3 DEF Own!Known
    <3> QED
      BY <1>8, <3>1, <3>2, <3>3 DEF Typed
  <2> QED
    BY <2>1, <2>2
<1>17. unused' \cap Own!Present' = {} /\ \A i \in Own!Present' : item'[i].type \in DOMAIN types
  BY <1>3, <1>7, <1>12 DEF MadeInv
<1>18. desk[r].op # "drop comments" /\ k.op # "drop comments"
  BY <1>1, <1>3, <1>8
<1> QED
  BY <1>3, <1>5, <1>8, <1>12, <1>13, <1>15, <1>16, <1>17, <1>18, OwnWrites

LEMMA DeleteTypeKept == ASSUME OwnConstants, OwnInv, NEW r \in Slots, Own!DeleteType(r) PROVE OwnInv'
<1> USE DEF OwnInv
<1>1. PICK t : t = desk[r].t
  OBVIOUS
<1>2. /\ desk[r].op = "untype" /\ ~desk[r].reassign /\ types' = [types EXCEPT ![t] = None]
      /\ desk' = [desk EXCEPT ![r] = Own!Free] /\ UNCHANGED <<columns, item, unused, stage, comments, astray>>
  BY <1>1 DEF Own!DeleteType, Own!Finish
<1>3. /\ Own!Free.op = "none" /\ Own!Present' = Own!Present /\ Own!OpenSprints' = Own!OpenSprints
      /\ Own!Active' = Own!Active
  BY <1>2 DEF Own!Free, Own!Present, Own!OpenSprints, Own!Active
<1>4. Rest({"columns"}) /\ Rest({"complete"}) /\ Rest({"drop comments"})
  BY <1>2, <1>3, DeskRests
<1>5. /\ types' \in Seq(Names \cup {None}) /\ DOMAIN types' = DOMAIN types
      /\ \A n \in DOMAIN types : n # t => types'[n] = types[n]
  <2>1. types \in Seq(Names \cup {None}) /\ DOMAIN types = 1..Len(types)
    BY DEF OwnTypes
  <2>2. CASE t \in DOMAIN types
    <3>1. types' \in Seq(Names \cup {None}) /\ Len(types') = Len(types)
      BY <1>2, <2>1, <2>2, ExceptSeq
    <3> QED
      BY <1>2, <2>1, <2>2, <3>1
  <2>3. CASE t \notin DOMAIN types
    <3>1. types' = types
      BY <1>2, <2>1, <2>3
    <3> QED
      BY <2>1, <3>1
  <2> QED
    BY <2>2, <2>3
<1>6. OwnTypes'
  BY <1>2, <1>5, DeskTurns DEF OwnTypes
<1>7. MadeInv'
  <2>1. TypesOf(Own!Free, DOMAIN types')
    BY <1>3 DEF TypesOf
  <2>2. unused' \cap Own!Present' = {} /\ \A i \in Own!Present' : item'[i].type \in DOMAIN types'
    BY <1>2, <1>3, <1>5 DEF MadeInv
  <2> QED
    BY <1>2, <1>5, <2>1, <2>2, MadeKept
<1>8. ActiveInv'
  BY <1>3 DEF ActiveInv
<1>9. ArrangedInv' /\ ScheduledInv' /\ CommentsInv'
  BY <1>2, <1>3, <1>4, ColumnsKept, SprintsKept, CommentsKept
<1>10. TypedInv'
  <2> SUFFICES ASSUME NEW i \in Own!Present, <<i, "type">> \notin astray PROVE Typed(i)'
    BY <1>2, <1>3 DEF TypedInv
  <2>1. Typed(i)
    BY DEF TypedInv
  <2>2. item[i].type # t
    BY <1>1, <1>2, <2>1 DEF Typed
  <2>3. item[i].type \in Own!Known'
    BY <1>5, <2>1, <2>2 DEF Typed, Own!Known
  <2>4. desk'[r] = Own!Free /\ \A q \in Slots \ {r} : desk'[q] = desk[q]
    BY <1>2, DeskTurns
  <2> QED
    BY <1>2, <1>3, <2>1, <2>3, <2>4 DEF Typed
<1> QED
  BY <1>6, <1>7, <1>8, <1>9, <1>10

-----------------------------------------------------------------------------
(***************************************************************************)
(* NativeBoard: what holds of it                                           *)
(***************************************************************************)

LEMMA OwnStep == ASSUME OwnConstants, OwnInv, [Own!Next]_(Own!vars) PROVE OwnInv'
<1>1. ASSUME NEW r \in Slots,
             \/ Own!Move(r) \/ Own!SetSprint(r) \/ Own!SetType(r) \/ Own!DropComments(r) \/ Own!Comment(r)
             \/ Own!StartSprint(r) \/ Own!MoveOpen(r) \/ Own!CloseSprint(r) \/ Own!EmptyColumn(r) \/ Own!Recategorise(r)
             \/ Own!SetColumns(r) \/ Own!ReassignType(r) \/ Own!DeleteType(r)
      PROVE  OwnInv'
  BY <1>1, MoveKept, SetSprintOfKept, SetTypeKept, CommentsOfItemKept, StartSprintKept, MoveOpenKept, CloseSprintKept, EmptyColumnKept,
     RecategoriseKept, SetColumnsKept, ReassignTypeKept, DeleteTypeKept
<1>2. ASSUME NEW r \in Slots, NEW i \in Items,
             \/ Own!Insert(r, i) \/ Own!Delete(r, i) \/ Own!ReadComment(r, i)
             \/ \E col : Own!ReadMove(r, i, col)
             \/ \E s : Own!ReadSetSprint(r, i, s)
             \/ \E t : Own!ReadSetType(r, i, t)
      PROVE  OwnInv'
  BY <1>2, InsertKept, DeleteOwnKept, ReadItemKept
<1>3. ASSUME NEW r \in Slots, NEW s \in Iterations,
             \/ Own!CreateSprint(r, s) \/ Own!ReadStart(r, s)
             \/ \E to : Own!ReadComplete(r, s, to)
      PROVE  OwnInv'
  BY <1>3, CreateSprintKept, ReadStartKept, ReadCompleteKept
<1>4. ASSUME NEW r \in Slots,
             \/ \E col, s, t : Own!ReadCreate(r, col, s, t)
             \/ \E cols \in Boards : \E to \in Own!Ids(cols) : Own!ReadColumns(r, cols, to)
             \/ \E name \in Names : Own!CreateType(r, name)
             \/ \E t, to : Own!ReadDeleteType(r, t, to)
      PROVE  OwnInv'
  BY <1>4, ReadCreateKept, ReadColumnsOwnKept, CreateTypeKept, ReadDeleteTypeKept
<1>5. CASE UNCHANGED Own!vars
  <2>1. UNCHANGED <<columns, item, unused, stage, types, comments, desk, astray>>
    BY <1>5 DEF Own!vars
  <2>2. Own!Present' = Own!Present /\ Own!OpenSprints' = Own!OpenSprints /\ Own!Known' = Own!Known /\ Own!Active' = Own!Active
    BY <2>1 DEF Own!Present, Own!OpenSprints, Own!Known, Own!Active
  <2>3. \A ops : Rest(ops)
    BY <2>1 DEF Rest
  <2>4. OwnTypes' /\ MadeInv' /\ ActiveInv'
    BY <2>1, <2>2 DEF OwnInv, OwnTypes, MadeInv, ActiveInv
  <2>5. ArrangedInv' /\ ScheduledInv' /\ TypedInv' /\ CommentsInv'
    BY <2>1, <2>2, <2>3, ColumnsKept, SprintsKept, TypesKept, CommentsKept DEF OwnInv
  <2> QED
    BY <2>4, <2>5 DEF OwnInv
<1>6. CASE Own!Next
  BY <1>1, <1>2, <1>3, <1>4, <1>6 DEF Own!Next
<1> QED
  BY <1>5, <1>6

LEMMA OwnHolds == ASSUME OwnConstants, OwnInv PROVE Own!BoardSound
<1> USE DEF OwnInv
<1>1. Own!TypeOK
  <2>1. \A i \in Own!Present : item[i].sprint \in Iterations \cup {None} /\ item[i].type \in DOMAIN types
    BY AnItem DEF WorkItem, Plans, MadeInv
  <2>2. Own!ToSet(types) \subseteq Names \cup {None}
    BY DEF OwnTypes, Own!ToSet
  <2> QED
    BY <2>1, <2>2 DEF Own!TypeOK, OwnTypes, MadeInv, AllBoards
<1>2. Own!AtMostOneActive
  <2> SUFFICES Cardinality(Own!Active) <= 1
    BY DEF Own!AtMostOneActive, Own!Cardinality, Cardinality
  <2>1. CASE Own!Active = {}
    BY <2>1, FS_EmptySet
  <2>2. CASE Own!Active # {}
    <3>1. PICK s : Own!Active = {s}
      BY <2>2 DEF ActiveInv
    <3>2. Cardinality({s}) = 1
      BY FS_Singleton
    <3> QED
      BY <3>1, <3>2
  <2> QED
    BY <2>1, <2>2
<1>3. Own!NothingLost
  <2> SUFFICES ASSUME \A r \in Slots : desk[r] = Own!Free
               PROVE  /\ \A i \in Own!Present :
                           /\ <<i, "column">> \notin astray => InColumn(i, columns)
                           /\ <<i, "sprint">> \notin astray => item[i].sprint \in Own!OpenSprints \/ item[i].cat = "done"
                           /\ <<i, "type">> \notin astray => item[i].type \in Own!Known
                      /\ \A i \in comments \ Own!Present : <<i, "comments">> \in astray
    BY DEF Own!NothingLost, InColumn
  <2>1. \A r \in Slots : desk[r].op = "none"
    BY DEF Own!Free
  <2> QED
    BY <2>1 DEF ArrangedInv, Arranged, ScheduledInv, Scheduled, TypedInv, Typed, CommentsInv, Dropping
<1> QED
  BY <1>1, <1>2, <1>3 DEF Own!BoardSound

\* boards/service.py set_native_columns, work_items, sprints, work_item_types and
\* comments/service.py: however their requests are interleaved, one sprint at most is active,
\* and no item falls off the board or out of an open sprint, or keeps a deleted type, or
\* leaves comments behind, unless a request wrote what another had changed meanwhile.
THEOREM OwnBoardLosesNothing == ASSUME OwnConstants PROVE Own!Spec => []Own!BoardSound
<1>1. Own!Init => OwnInv
  BY OwnStarts
<1>2. OwnInv /\ [Own!Next]_(Own!vars) => OwnInv'
  BY OwnStep
<1>3. OwnInv => Own!BoardSound
  BY OwnHolds
<1> QED
  BY <1>1, <1>2, <1>3, PTL DEF Own!Spec
=============================================================================
