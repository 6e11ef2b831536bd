----------------------------- MODULE TimersAbs -----------------------------
(***************************************************************************)
(* What the users of an event loop's timers rely on: a set of pending      *)
(* timers, of which the earliest is taken first.                           *)
(***************************************************************************)
EXTENDS Integers

CONSTANTS Timeouts, Capacity

VARIABLES pending, fired

vars == <<pending, fired>>

NoneFired == [id |-> -1, timeout |-> 0]

Init == pending = {} /\ fired = NoneFired

start(timer) ==
    /\ \A other \in pending : other.id # timer.id
    /\ pending' = pending \cup {timer}
    /\ fired' = NoneFired

stop(timer) == pending' = pending \ {timer} /\ fired' = NoneFired

again(timer, timeout) ==
    /\ pending' = (pending \ {timer}) \cup {[timer EXCEPT !.timeout = timeout]}
    /\ fired' = NoneFired

take(timer) ==
    /\ \A other \in pending : timer.timeout <= other.timeout
    /\ pending' = pending \ {timer}
    /\ fired' = timer

Next ==
    \/ \E id \in 1 .. Capacity, timeout \in Timeouts : start([id |-> id, timeout |-> timeout])
    \/ \E timer \in pending :
        stop(timer) \/ take(timer) \/ \E timeout \in Timeouts : again(timer, timeout)

Spec == Init /\ [][Next]_vars
=============================================================================
