----------------------------- MODULE RwLockAbs -----------------------------
(***************************************************************************)
(* What a table's lock promises: a thread is inside for reading, or for    *)
(* writing and then alone, and a writer may lock again as often as it      *)
(* unlocks again. Every operation takes effect in one step.                *)
(***************************************************************************)
EXTENDS Naturals

CONSTANTS Threads, MaxDepth

VARIABLES
    mode,   \* mode[t]: "none", "shared" or "exclusive"
    depth   \* depth[t]: levels of locking of t

vars == <<mode, depth>>

Init ==
    /\ mode = [t \in Threads |-> "none"]
    /\ depth = [t \in Threads |-> 0]

Deeper(t) == depth' = [depth EXCEPT ![t] = @ + 1]

\* t locks again, for reading or for writing, inside its write lock.
again(t) ==
    /\ mode[t] = "exclusive"
    /\ depth[t] < MaxDepth
    /\ Deeper(t)
    /\ UNCHANGED mode

rdlock(t) ==
    /\ mode[t] = "none"
    /\ depth[t] < MaxDepth
    /\ \A u \in Threads : mode[u] # "exclusive"
    /\ mode' = [mode EXCEPT ![t] = "shared"]
    /\ Deeper(t)

wrlock(t) ==
    /\ depth[t] < MaxDepth
    /\ \A u \in Threads : mode[u] = "none"
    /\ mode' = [mode EXCEPT ![t] = "exclusive"]
    /\ Deeper(t)

unlock(t) ==
    /\ depth[t] > 0
    /\ depth' = [depth EXCEPT ![t] = @ - 1]
    /\ mode' = IF depth[t] = 1 THEN [mode EXCEPT ![t] = "none"] ELSE mode

Next == \E t \in Threads : again(t) \/ rdlock(t) \/ wrlock(t) \/ unlock(t)

Spec == Init /\ [][Next]_vars
=============================================================================
