------------------------------ MODULE MCTimers ------------------------------
(***************************************************************************)
(* Two timers, time enough for each to run, nested iterations, and a run   *)
(* of the loop under an iteration.                                         *)
(***************************************************************************)
EXTENDS Timers

CONSTANTS n1, n2

\* Bound: n1 is the one that is made first. (The other behaviours are these with the two
\* names exchanged. Symmetry proper is not for liveness.)
InOrder == context[n2].kind # "none" => context[n1].kind # "none"
=============================================================================
