--------------------------- MODULE MCThreadHandle ---------------------------
(***************************************************************************)
(* A main thread and two more.                                             *)
(***************************************************************************)
EXTENDS ThreadHandle, TLC

CONSTANTS main, t1, t2

\* Bound: with two threads made, nothing is explored beyond a state in which the first
\* thing has just happened that the library does not bear; with one made, everything is.
FewOrUnstrained == Unstrained \/ \E t \in Threads : status[t] = "none"

NewThreadSymmetry == Permutations(Threads \ {Main})
=============================================================================
