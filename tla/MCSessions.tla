----------------------------- MODULE MCSessions -----------------------------
(* Sessions on a small instance: three tokens, two requests. *)
EXTENDS Sessions, TLC

Symmetry == Permutations(Tokens) \cup Permutations(Requests)
============================================================================
