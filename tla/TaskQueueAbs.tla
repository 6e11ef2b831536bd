---------------------------- MODULE TaskQueueAbs ----------------------------
(***************************************************************************)
(* What the event loop promises of its posted tasks: a bounded FIFO queue, *)
(* whose first task is taken, and called until it returns; a callback may  *)
(* have the following ones called inside it.                               *)
(***************************************************************************)
EXTENDS Naturals, Sequences, SequencesExt

CONSTANTS Items, Capacity

VARIABLES queue, serving

vars == <<queue, serving>>

Init == queue = <<>> /\ serving = <<>>

post(x) ==
    /\ Len(queue) < Capacity
    /\ queue' = Append(queue, x)
    /\ UNCHANGED serving

call ==
    /\ queue # <<>>
    /\ serving' = Append(serving, Head(queue))
    /\ queue' = Tail(queue)

return ==
    /\ serving # <<>>
    /\ serving' = Front(serving)
    /\ UNCHANGED queue

discard == queue' = <<>> /\ UNCHANGED serving

Next == (\E x \in Items : post(x)) \/ call \/ return \/ discard

Spec == Init /\ [][Next]_vars
=============================================================================
