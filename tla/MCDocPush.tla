----------------------------- MODULE MCDocPush -----------------------------
(* DocPush on a small instance. *)
EXTENDS DocPush, TLC

Symmetry == Permutations(Titles)
============================================================================
