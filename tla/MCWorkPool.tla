----------------------------- MODULE MCWorkPool -----------------------------
(***************************************************************************)
(* A few items on a small ring, so that it fills and wraps around.         *)
(***************************************************************************)
EXTENDS WorkPool, TLC

Symmetry == Permutations(Workers) \cup Permutations(Items)
=============================================================================
