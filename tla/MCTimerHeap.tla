---------------------------- MODULE MCTimerHeap ----------------------------
(***************************************************************************)
(* A heap of up to six timers: the least size at which the last element can*)
(* be smaller than the parent of the one it replaces.                      *)
(***************************************************************************)
EXTENDS TimerHeap

\* The loops of timer_heap_up and timer_heap_down, one swap at a time.
Swap(h, i, j) == [h EXCEPT ![i] = h[j], ![j] = h[i]]

RECURSIVE LoopUp(_, _)
LoopUp(h, i) ==
    IF i > 1 /\ h[i].timeout < h[i \div 2].timeout
    THEN LoopUp(Swap(h, i, i \div 2), i \div 2)
    ELSE h

RECURSIVE LoopDown(_, _)
LoopDown(h, i) ==
    LET left == 2 * i
        right == 2 * i + 1
        s == IF left <= Len(h) /\ h[left].timeout < h[i].timeout THEN left ELSE i
        smallest == IF right <= Len(h) /\ h[right].timeout < h[s].timeout THEN right ELSE s
    IN  IF smallest = i THEN h ELSE LoopDown(Swap(h, i, smallest), smallest)

\* Up and Down do what the loops do, from every position of every array of as
\* many timers as the heap holds, ordered or not.
Arrays ==
    UNION {{[i \in 1 .. n |-> [id |-> i, timeout |-> t[i]]] : t \in [1 .. n -> Timeouts]} :
        n \in 1 .. Capacity}
ASSUME MovesAreTheLoops ==
    \A h \in Arrays : \A i \in DOMAIN h : Up(h, i) = LoopUp(h, i) /\ Down(h, i) = LoopDown(h, i)
=============================================================================
