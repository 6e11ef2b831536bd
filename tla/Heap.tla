-------------------------------- MODULE Heap --------------------------------
(***************************************************************************)
(* The binary min-heap that holds an event loop's timers, src/src/utils/   *)
(* leventloop.c: timer_heap[0 .. timer_count - 1], ordered by timeout.     *)
(* Positions count from 1 here, so the parent of i is i \div 2.            *)
(***************************************************************************)
EXTENDS Integers, Sequences, SequencesExt

\* A timer is moved by swaps: from position k it goes on to next[k], and where
\* that is k it stays. These are the positions it passes from i on. (MCTimerHeap
\* compares the two moves below with the loops of the code.)
Trail(next, i) ==
    LET from[k \in DOMAIN next] == IF next[k] = k THEN {k} ELSE {k} \cup from[next[k]]
    IN  from[i]

\* Each timer it meets is moved one position back, and it ends at the last one.
Move(h, i, next) ==
    LET trail == Trail(next, i)
    IN  [k \in DOMAIN h |->
            IF k \notin trail THEN h[k] ELSE IF next[k] = k THEN h[i] ELSE h[next[k]]]

\* timer_heap_up: past the parents that are due later.
Rises(h, i) ==
    [k \in DOMAIN h |-> IF k > 1 /\ h[i].timeout < h[k \div 2].timeout THEN k \div 2 ELSE k]
Up(h, i) == Move(h, i, Rises(h, i))

\* timer_heap_down: past the smaller child while that is due earlier; the left
\* child wins a draw.
Smaller(h, i, k) ==
    {c \in {2 * k, 2 * k + 1} : c <= Len(h) /\ h[c].timeout < h[i].timeout}
Least(h, C) ==
    CHOOSE c \in C :
        \A d \in C : h[c].timeout < h[d].timeout \/ (h[c].timeout = h[d].timeout /\ c <= d)
Sinks(h, i) ==
    [k \in DOMAIN h |-> IF Smaller(h, i, k) = {} THEN k ELSE Least(h, Smaller(h, i, k))]
Down(h, i) == Move(h, i, Sinks(h, i))

\* find_timer_by_id: the first one of the array that has the id, 0 for none.
Find(h, id) ==
    IF \E i \in DOMAIN h : h[i].id = id
    THEN CHOOSE i \in DOMAIN h : h[i].id = id /\ \A j \in 1 .. i - 1 : h[j].id # id
    ELSE 0

\* (Mutant: it stays where it was put, at the end.)
Insert_last(h, timer) == Append(h, timer)
Insert(h, timer) == Up(Append(h, timer), Len(h) + 1)

\* The last element takes the place of the one at i. (Mutant: it is only moved
\* down, as it is in the loop, where i is the root.)
Delete_down_only(h, i) ==
    LET g == Front([h EXCEPT ![i] = Last(h)])
    IN  IF i < Len(h) THEN Down(g, i) ELSE g
Delete(h, i) ==
    LET g == Front([h EXCEPT ![i] = Last(h)])
    IN  IF i < Len(h) THEN Up(Down(g, i), i) ELSE g

\* (Mutant: only upwards.)
Retime_up_only(h, i, timeout) == Up([h EXCEPT ![i].timeout = timeout], i)
Retime(h, i, timeout) == Down(Up([h EXCEPT ![i].timeout = timeout], i), i)

\* The loop takes the first one. (Mutant: timer_count is not decremented.)
Pop_not_counted(h) == IF Len(h) = 1 THEN <<>> ELSE Down([h EXCEPT ![1] = Last(h)], 1)
Pop(h) ==
    LET g == Front([h EXCEPT ![1] = Last(h)])
    IN  IF g = <<>> THEN g ELSE Down(g, 1)

\* No timer is due before the one above it.
Ordered(h) == \A i \in 2 .. Len(h) : h[i \div 2].timeout <= h[i].timeout
=============================================================================
