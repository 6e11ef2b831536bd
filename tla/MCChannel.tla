----------------------------- MODULE MCChannel -----------------------------
(***************************************************************************)
(* Small instances of Channel for TLC.                                     *)
(***************************************************************************)
EXTENDS Channel, TLC

CONSTANTS t1, t2, t3, c1, c2, m1, m2, m3

\* Channels that take any value.
AnyMessage == [c \in Channels |-> Messages]

\* The second channel lets in m1 only.
TypedSecond == [c \in Channels |-> IF c = c2 THEN {m1} ELSE Messages]

\* Two different channels, and one channel listed twice.
PairAndTwice == {<<c1, c2>>, <<c1, c1>>}

OnePair == {<<c1, c2>>}

ThreadSymmetry == Permutations(Threads)
=============================================================================
