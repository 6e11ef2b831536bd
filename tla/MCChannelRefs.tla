--------------------------- MODULE MCChannelRefs ---------------------------
(***************************************************************************)
(* Two threads, two values, at the same time.                              *)
(***************************************************************************)
EXTENDS ChannelRefs, TLC

CONSTANTS t1, t2, m1, m2

Symmetry == Permutations(Threads) \cup Permutations(Messages)
=============================================================================
