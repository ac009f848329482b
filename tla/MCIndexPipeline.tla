-------------------------- MODULE MCIndexPipeline --------------------------
(* IndexPipeline on a small instance: two paths, two contents. *)
EXTENDS IndexPipeline, TLC

Symmetry == Permutations(Paths)
============================================================================
