----------------------------- MODULE TimerHeap -----------------------------
(***************************************************************************)
(* The heap of timers under the calls that change it: starting a timer,    *)
(* stopping one by its id, giving one a new timeout, and the loop taking   *)
(* the first (leventloop.c). Every call holds timer_lock from its start to *)
(* its end, so it is one action.                                           *)
(***************************************************************************)
EXTENDS Heap

CONSTANTS
    Timeouts,   \* the timeouts a timer can be given
    Capacity    \* loop->timer_capacity

ASSUME TimerHeapAssumption == Timeouts \subseteq Nat /\ Capacity \in Nat

VARIABLES
    heap,       \* loop->timer_heap[0 .. timer_count - 1]
    fired       \* the timer the last step has taken

vars == <<heap, fired>>

NoneFired == [id |-> -1, timeout |-> 0]

----------------------------------------------------------------------------
Init == heap = <<>> /\ fired = NoneFired

\* The id is the least unused one: the loop counts them up for ever.
ev_timer_start(timeout) ==
    LET id == CHOOSE i \in 1 .. Capacity : Find(heap, i) = 0 /\ \A j \in 1 .. i - 1 : Find(heap, j) # 0
    IN  /\ Len(heap) < Capacity
        /\ heap' = Insert(heap, [id |-> id, timeout |-> timeout])
        /\ fired' = NoneFired

ev_timer_stop_by_id(id) ==
    /\ Find(heap, id) # 0
    /\ heap' = Delete(heap, Find(heap, id))
    /\ fired' = NoneFired

ev_timer_again(id, timeout) ==
    /\ Find(heap, id) # 0
    /\ heap' = Retime(heap, Find(heap, id), timeout)
    /\ fired' = NoneFired

take_first ==
    /\ heap # <<>>
    /\ fired' = heap[1]
    /\ heap' = Pop(heap)

Next ==
    \/ \E timeout \in Timeouts :
        ev_timer_start(timeout) \/ \E id \in 1 .. Capacity : ev_timer_again(id, timeout)
    \/ \E id \in 1 .. Capacity : ev_timer_stop_by_id(id)
    \/ take_first

Spec == Init /\ [][Next]_vars
----------------------------------------------------------------------------
(***************************************************************************)
(* Properties.                                                             *)
(***************************************************************************)
\* The array is a set of timers: starting adds one, stopping removes the one
\* that has the id, a new timeout leaves the others alone, and the one taken is
\* the earliest.
Abs == INSTANCE TimersAbs WITH pending <- ToSet(heap)
RefinesTimersAbs == Abs!Spec
=============================================================================
