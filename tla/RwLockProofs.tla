--------------------------- MODULE RwLockProofs ---------------------------
(***************************************************************************)
(* Proofs about RwLock, for any set of threads and any depth of nesting.   *)
(* The properties speak of threads at rest, or of one window; the          *)
(* inductive invariant says of every thread, wherever it is inside         *)
(* lthread.c, what it holds of the native lock, of writer_thread_id and of *)
(* write_recursion.                                                        *)
(***************************************************************************)
EXTENDS RwLock, TLAPS

\* The native lock is a read/write lock.
NativeLock == native_writer # NoThread => native_readers = {}

\* t has the native lock for writing and is not done storing its id.
Entering(t) == pc[t] \in {"wr_store", "wr_count"}

\* What t believes, and what it holds of the native lock.
Holds(t) ==
    /\ mode[t] = "none" <=> depth[t] = 0
    /\ mode[t] = "shared" => depth[t] = 1
    /\ mode[t] = "shared" <=> t \in native_readers
    /\ native_writer = t <=> mode[t] = "exclusive" \/ Entering(t)
    /\ Entering(t) => mode[t] = "none"

\* Where t can be with what it holds.
Where(t) ==
    /\ pc[t] \in {"rd_native", "wr_native"} => mode[t] = "none"
    /\ pc[t] \in {"rd_check", "wr_check"} => mode[t] # "shared"
    /\ pc[t] \in {"rd_again", "wr_again", "un_count", "un_clear"} => mode[t] = "exclusive"
    /\ pc[t] \in {"un_check", "un_native"} => mode[t] # "none"
    /\ pc[t] \in {"rd_check", "rd_native", "wr_check", "wr_native", "wr_store",
                  "wr_count", "rd_again", "wr_again"} => depth[t] < MaxDepth

\* The writer's id and its levels.
Owns(t) ==
    /\ writer_thread_id = t <=>
            \/ mode[t] = "exclusive" /\ pc[t] # "un_native"
            \/ pc[t] = "wr_count"
    /\ mode[t] = "exclusive" /\ pc[t] \notin {"un_clear", "un_native"}
            => write_recursion = depth[t]
    /\ mode[t] = "exclusive" /\ pc[t] \in {"un_clear", "un_native"}
            => write_recursion = 0 /\ depth[t] = 1

IInv ==
    /\ TypeOK
    /\ NativeLock
    /\ \A t \in Threads : Holds(t) /\ Where(t) /\ Owns(t)

----------------------------------------------------------------------------
LEMMA RwInit == Init => IInv
BY RwLockAssumption
DEF Init, IInv, TypeOK, NativeLock, Holds, Where, Owns, Entering, PCs

\* A step of t leaves everything another thread holds alone.
LEMMA RwOthers ==
    ASSUME IInv, NEW t \in Threads, Call(t) \/ Step(t), NEW u \in Threads, u # t
    PROVE  Holds(u)' /\ Where(u)' /\ Owns(u)'
<1> USE RwLockAssumption
    DEF IInv, TypeOK, NativeLock, Holds, Where, Owns, Entering, PCs, Goto, nativeVars
<1>1. CASE Call(t)
    BY <1>1 DEF Call, l_rwlock_rdlock, l_rwlock_wrlock, l_rwlock_unlock
<1>2. CASE check_writer(t)
    BY <1>2 DEF check_writer
<1>3. CASE lock_again(t)
    BY <1>3 DEF lock_again, Locked
<1>4. CASE rd_native(t)
    BY <1>4 DEF rd_native, Locked
<1>5. CASE wr_native(t)
    BY <1>5 DEF wr_native
<1>6. CASE wr_store(t)
    BY <1>6 DEF wr_store
<1>7. CASE wr_count(t)
    BY <1>7 DEF wr_count, Locked
<1>8. CASE un_count(t)
    BY <1>8 DEF un_count, Unlocked
<1>9. CASE un_clear(t)
    BY <1>9 DEF un_clear
<1>10. CASE un_native(t)
    BY <1>10 DEF un_native, Unlocked
<1> QED
    BY <1>1, <1>2, <1>3, <1>4, <1>5, <1>6, <1>7, <1>8, <1>9, <1>10 DEF Step

\* A step of t keeps the types, the native lock a lock, and t's own account.
LEMMA RwOwn ==
    ASSUME IInv, NEW t \in Threads, Call(t) \/ Step(t)
    PROVE  TypeOK' /\ NativeLock' /\ Holds(t)' /\ Where(t)' /\ Owns(t)'
<1> USE RwLockAssumption
    DEF IInv, TypeOK, NativeLock, Holds, Where, Owns, Entering, PCs, Goto, nativeVars
<1>1. CASE Call(t)
    BY <1>1 DEF Call, l_rwlock_rdlock, l_rwlock_wrlock, l_rwlock_unlock
<1>2. CASE check_writer(t)
    BY <1>2 DEF check_writer
<1>3. CASE lock_again(t)
    BY <1>3 DEF lock_again, Locked
<1>4. CASE rd_native(t)
    BY <1>4 DEF rd_native, Locked
<1>5. CASE wr_native(t)
    BY <1>5 DEF wr_native
<1>6. CASE wr_store(t)
    BY <1>6 DEF wr_store
<1>7. CASE wr_count(t)
    BY <1>7 DEF wr_count, Locked
<1>8. CASE un_count(t)
    BY <1>8 DEF un_count, Unlocked
<1>9. CASE un_clear(t)
    BY <1>9 DEF un_clear
<1>10. CASE un_native(t)
    BY <1>10 DEF un_native, Unlocked
<1> QED
    BY <1>1, <1>2, <1>3, <1>4, <1>5, <1>6, <1>7, <1>8, <1>9, <1>10 DEF Step

LEMMA RwNext == IInv /\ [Next]_vars => IInv'
<1> SUFFICES ASSUME IInv, [Next]_vars PROVE IInv'
    OBVIOUS
<1>1. ASSUME NEW t \in Threads, Call(t) \/ Step(t) PROVE IInv'
    BY <1>1, RwOthers, RwOwn DEF IInv
<1>2. CASE UNCHANGED vars
    BY <1>2 DEF IInv, TypeOK, NativeLock, Holds, Where, Owns, Entering, vars
<1> QED
    BY <1>1, <1>2 DEF Next

LEMMA RwIInv == Spec => []IInv
    BY RwInit, RwNext, PTL DEF Spec

----------------------------------------------------------------------------
\* The counter and the holds stay in their types; in particular a level is
\* never taken off a counter at zero.
THEOREM RwLockTypeOK == Spec => []TypeOK
<1>1. IInv => TypeOK
    BY DEF IInv
<1> QED
    BY <1>1, RwIInv, PTL

\* A thread that is inside for writing is alone inside.
THEOREM RwLockWriterExcludes == Spec => []WriterExcludes
<1>1. IInv => WriterExcludes
    <2> SUFFICES ASSUME IInv, NEW t \in Threads, NEW u \in Threads,
                        mode[t] = "exclusive", t # u
                 PROVE  mode[u] = "none"
        BY DEF WriterExcludes
    <2>1. native_writer = t /\ native_readers = {}
        BY RwLockAssumption DEF IInv, Holds, NativeLock
    <2> QED
        BY <2>1 DEF IInv, Holds, TypeOK
<1> QED
    BY <1>1, RwIInv, PTL

\* Only the native writer is about to access the plain counter.
THEOREM RwLockRecursionUnraced == Spec => []RecursionUnraced
<1>1. IInv => RecursionUnraced
    BY DEF IInv, Holds, Where, Entering, RecursionUnraced
<1> QED
    BY <1>1, RwIInv, PTL

\* A thread at rest holds what it has locked and not unlocked, no more.
THEOREM RwLockHoldsBalanced == Spec => []HoldsBalanced
<1>1. IInv => HoldsBalanced
    BY DEF IInv, Holds, Owns, Entering, HoldsBalanced
<1> QED
    BY <1>1, RwIInv, PTL

----------------------------------------------------------------------------
\* Every step of the lock's code is a step of the indivisible lock or a stutter.
LEMMA RwStepAbs ==
    ASSUME IInv, NEW t \in Threads, Call(t) \/ Step(t)
    PROVE  Abs!Next \/ UNCHANGED Abs!vars
<1> USE RwLockAssumption DEF Abs!vars
<1>1. CASE \/ Call(t) \/ check_writer(t) \/ wr_native(t) \/ wr_store(t) \/ un_clear(t)
    BY <1>1 DEF Call, l_rwlock_rdlock, l_rwlock_wrlock, l_rwlock_unlock, check_writer,
                wr_native, wr_store, un_clear
<1>2. CASE lock_again(t)
    <2>1. mode[t] = "exclusive" /\ depth[t] # 0 /\ depth[t] < MaxDepth
        BY <1>2 DEF lock_again, IInv, Where, Holds, TypeOK
    <2>2. Abs!again(t)
        BY <1>2, <2>1 DEF lock_again, Locked, Abs!again, Abs!Deeper
    <2> QED
        BY <2>2 DEF Abs!Next
<1>3. CASE rd_native(t)
    <2>1. mode[t] = "none" /\ depth[t] = 0 /\ depth[t] < MaxDepth
        BY <1>3 DEF rd_native, IInv, Where, Holds
    <2>2. \A u \in Threads : mode[u] # "exclusive"
        BY <1>3 DEF rd_native, IInv, Holds
    <2>3. Abs!rdlock(t)
        BY <1>3, <2>1, <2>2 DEF rd_native, Locked, Abs!rdlock, Abs!Deeper
    <2> QED
        BY <2>3 DEF Abs!Next
<1>4. CASE wr_count(t)
    <2>1. native_writer = t /\ depth[t] = 0 /\ depth[t] < MaxDepth
        BY <1>4 DEF wr_count, IInv, Where, Holds, Entering
    <2>2. \A u \in Threads : mode[u] = "none"
        BY <1>4, <2>1 DEF wr_count, IInv, Holds, NativeLock, Entering, TypeOK
    <2>3. Abs!wrlock(t)
        BY <1>4, <2>1, <2>2 DEF wr_count, Locked, Abs!wrlock, Abs!Deeper
    <2> QED
        BY <2>3 DEF Abs!Next
<1>5. CASE un_count(t) \/ un_native(t)
    <2>1. mode[t] # "none" /\ depth[t] \in Nat /\ depth[t] # 0
        BY <1>5 DEF un_count, un_native, IInv, Where, Holds, TypeOK
    <2>2. CASE Unlocked(t)
        <3>1. Abs!unlock(t)
            BY <2>1, <2>2 DEF Unlocked, Abs!unlock
        <3> QED
            BY <3>1 DEF Abs!Next
    <2>3. CASE UNCHANGED <<depth, mode>>
        BY <2>3
    <2> QED
        BY <1>5, <2>2, <2>3 DEF un_count, un_native
<1> QED
    BY <1>1, <1>2, <1>3, <1>4, <1>5 DEF Step

\* The lock implements an indivisible read/write lock with nesting writers.
THEOREM RwLockRefines == Spec => RefinesRwLockAbs
<1>1. Init => Abs!Init
    BY DEF Init, Abs!Init
<1>2. IInv /\ [Next]_vars => [Abs!Next]_(Abs!vars)
    <2> SUFFICES ASSUME IInv, [Next]_vars PROVE Abs!Next \/ UNCHANGED Abs!vars
        OBVIOUS
    <2>1. CASE UNCHANGED vars
        BY <2>1 DEF vars, Abs!vars
    <2> QED
        BY <2>1, RwStepAbs DEF Next
<1> QED
    BY <1>1, <1>2, RwIInv, PTL DEF Spec, Abs!Spec, RefinesRwLockAbs
=============================================================================
