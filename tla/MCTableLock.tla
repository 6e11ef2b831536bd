---------------------------- MODULE MCTableLock ----------------------------
(***************************************************************************)
(* Two threads on one shared table that holds two elements.                *)
(***************************************************************************)
EXTENDS TableLock, TLC

CONSTANTS v1, v2

MCInitial == {<<v1, v2>>}
Symmetry == Permutations(Threads) \cup Permutations(Values \ {v1, v2})
=============================================================================
