------------------------------ MODULE MCRwLock ------------------------------
(***************************************************************************)
(* Three threads on the lock of one table.                                 *)
(***************************************************************************)
EXTENDS RwLock, TLC

Symmetry == Permutations(Threads)
=============================================================================
