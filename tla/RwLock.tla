------------------------------ MODULE RwLock ------------------------------
(***************************************************************************)
(* The read/write lock of a table, src/src/utils/lthread.c: a native       *)
(* rwlock, and beside it an atomic writer_thread_id and a plain counter    *)
(* write_recursion that let the writing thread lock again, for reading or  *)
(* writing, without blocking on itself.                                    *)
(*                                                                         *)
(* Grain: one action per access to the native lock, to the atomic and to   *)
(* the counter, so that every window between them is a state.              *)
(***************************************************************************)
EXTENDS Naturals, Sequences

CONSTANTS
    Threads,    \* threads that share the table
    MaxDepth,   \* bound: levels of locking a thread nests
    NoThread    \* thread id 0

ASSUME RwLockAssumption ==
    /\ MaxDepth \in Nat
    /\ NoThread \notin Threads

VARIABLES
    native_writer,      \* the thread that holds the native lock exclusively
    native_readers,     \* the threads that hold it shared
    writer_thread_id,   \* l->writer_thread_id
    write_recursion,    \* l->write_recursion
    pc,                 \* pc[t]: the next step of t inside a lock operation
    depth,              \* depth[t]: lock operations of t not yet undone
    mode                \* mode[t]: how t took the lock, "none" when it has not

nativeVars == <<native_writer, native_readers>>
vars == <<native_writer, native_readers, writer_thread_id, write_recursion, pc,
          depth, mode>>

\* "rest" is outside lthread.c; the others name the statement to come.
PCs == {"rest", "rd_check", "rd_native", "wr_check", "wr_native", "wr_store",
        "wr_count", "rd_again", "wr_again", "un_check", "un_count", "un_clear", "un_native"}

Goto(t, where) == pc' = [pc EXCEPT ![t] = where]

\* t returns from a lock operation with one more level; the first one decides
\* what it is inside for.
Locked(t, how) ==
    /\ Goto(t, "rest")
    /\ depth' = [depth EXCEPT ![t] = @ + 1]
    /\ mode' = IF depth[t] = 0 THEN [mode EXCEPT ![t] = how] ELSE mode

\* t returns from an unlock with one level less.
Unlocked(t) ==
    /\ Goto(t, "rest")
    /\ depth' = [depth EXCEPT ![t] = @ - 1]
    /\ mode' = IF depth[t] = 1 THEN [mode EXCEPT ![t] = "none"] ELSE mode

Init ==
    /\ native_writer = NoThread
    /\ native_readers = {}
    /\ writer_thread_id = NoThread
    /\ write_recursion = 0
    /\ pc = [t \in Threads |-> "rest"]
    /\ depth = [t \in Threads |-> 0]
    /\ mode = [t \in Threads |-> "none"]

----------------------------------------------------------------------------
\* What the callers do: a thread nests only inside a write lock (the virtual
\* machine gives a read lock back before it asks for anything else), and gives
\* back what it has taken.
l_rwlock_rdlock(t) ==
    /\ pc[t] = "rest"
    /\ mode[t] # "shared"
    /\ depth[t] < MaxDepth
    /\ Goto(t, "rd_check")
    /\ UNCHANGED <<nativeVars, writer_thread_id, write_recursion, depth, mode>>

l_rwlock_wrlock(t) ==
    /\ pc[t] = "rest"
    /\ mode[t] # "shared"
    /\ depth[t] < MaxDepth
    /\ Goto(t, "wr_check")
    /\ UNCHANGED <<nativeVars, writer_thread_id, write_recursion, depth, mode>>

l_rwlock_unlock(t) ==
    /\ pc[t] = "rest"
    /\ depth[t] > 0
    /\ Goto(t, "un_check")
    /\ UNCHANGED <<nativeVars, writer_thread_id, write_recursion, depth, mode>>

----------------------------------------------------------------------------
\* atomic_load(&l->writer_thread_id) == self, in each of the operations.
\* (Mutant: rdlock tests that there is a writer, not that it is this thread.)
check_writer_any(t) ==
    /\ \/ pc[t] = "rd_check" /\ Goto(t, IF writer_thread_id # NoThread THEN "rd_again" ELSE "rd_native")
       \/ pc[t] = "wr_check" /\ Goto(t, IF writer_thread_id = t THEN "wr_again" ELSE "wr_native")
       \/ pc[t] = "un_check" /\ Goto(t, IF writer_thread_id = t THEN "un_count" ELSE "un_native")
    /\ UNCHANGED <<nativeVars, writer_thread_id, write_recursion, depth, mode>>
check_writer(t) ==
    /\ \/ pc[t] = "rd_check" /\ Goto(t, IF writer_thread_id = t THEN "rd_again" ELSE "rd_native")
       \/ pc[t] = "wr_check" /\ Goto(t, IF writer_thread_id = t THEN "wr_again" ELSE "wr_native")
       \/ pc[t] = "un_check" /\ Goto(t, IF writer_thread_id = t THEN "un_count" ELSE "un_native")
    /\ UNCHANGED <<nativeVars, writer_thread_id, write_recursion, depth, mode>>

\* write_recursion++ and return, in rdlock and in wrlock. (Mutant: a read inside
\* the write lock is not counted.)
lock_again_uncounted(t) ==
    /\ \/ pc[t] = "rd_again" /\ Locked(t, "shared") /\ UNCHANGED write_recursion
       \/ pc[t] = "wr_again" /\ Locked(t, "exclusive") /\ write_recursion' = write_recursion + 1
    /\ UNCHANGED <<nativeVars, writer_thread_id>>
lock_again(t) ==
    /\ \/ pc[t] = "rd_again" /\ Locked(t, "shared")
       \/ pc[t] = "wr_again" /\ Locked(t, "exclusive")
    /\ write_recursion' = write_recursion + 1
    /\ UNCHANGED <<nativeVars, writer_thread_id>>

rd_native(t) ==
    /\ pc[t] = "rd_native"
    /\ native_writer = NoThread
    /\ native_readers' = native_readers \cup {t}
    /\ Locked(t, "shared")
    /\ UNCHANGED <<native_writer, writer_thread_id, write_recursion>>

wr_native(t) ==
    /\ pc[t] = "wr_native"
    /\ native_writer = NoThread
    /\ native_readers = {}
    /\ native_writer' = t
    /\ Goto(t, "wr_store")
    /\ UNCHANGED <<native_readers, writer_thread_id, write_recursion, depth, mode>>

wr_store(t) ==
    /\ pc[t] = "wr_store"
    /\ writer_thread_id' = t
    /\ Goto(t, "wr_count")
    /\ UNCHANGED <<nativeVars, write_recursion, depth, mode>>

\* The first level is counted. (Mutant: the counter holds the extra levels.)
wr_count_extra(t) ==
    /\ pc[t] = "wr_count"
    /\ write_recursion' = 0
    /\ Locked(t, "exclusive")
    /\ UNCHANGED <<nativeVars, writer_thread_id>>
wr_count(t) ==
    /\ pc[t] = "wr_count"
    /\ write_recursion' = 1
    /\ Locked(t, "exclusive")
    /\ UNCHANGED <<nativeVars, writer_thread_id>>

\* write_recursion--, and on to the release when it was the last level.
un_count(t) ==
    /\ pc[t] = "un_count"
    /\ write_recursion' = write_recursion - 1
    /\ \/ write_recursion = 1 /\ Goto(t, "un_clear") /\ UNCHANGED <<depth, mode>>
       \/ write_recursion # 1 /\ Unlocked(t)
    /\ UNCHANGED <<nativeVars, writer_thread_id>>

\* The writer's id is cleared while the native lock is still held. (Mutant: the
\* native lock is released first, and the id cleared by a later step.)
un_clear_late(t) ==
    /\ pc[t] = "un_clear"
    /\ \/ /\ native_writer = t
          /\ native_writer' = NoThread
          /\ UNCHANGED <<pc, depth, mode, writer_thread_id>>
       \/ /\ native_writer # t
          /\ writer_thread_id' = NoThread
          /\ Unlocked(t)
          /\ UNCHANGED native_writer
    /\ UNCHANGED <<native_readers, write_recursion>>
un_clear(t) ==
    /\ pc[t] = "un_clear"
    /\ writer_thread_id' = NoThread
    /\ Goto(t, "un_native")
    /\ UNCHANGED <<nativeVars, write_recursion, depth, mode>>

\* pthread_rwlock_unlock: it undoes whichever hold the calling thread has.
un_native(t) ==
    /\ pc[t] = "un_native"
    /\ Unlocked(t)
    /\ \/ /\ native_writer = t
          /\ native_writer' = NoThread
          /\ UNCHANGED native_readers
       \/ /\ t \in native_readers
          /\ native_readers' = native_readers \ {t}
          /\ UNCHANGED native_writer
    /\ UNCHANGED <<writer_thread_id, write_recursion>>
----------------------------------------------------------------------------
Call(t) == l_rwlock_rdlock(t) \/ l_rwlock_wrlock(t) \/ l_rwlock_unlock(t)

Step(t) ==
    \/ check_writer(t) \/ lock_again(t)
    \/ rd_native(t) \/ wr_native(t) \/ wr_store(t) \/ wr_count(t)
    \/ un_count(t) \/ un_clear(t) \/ un_native(t)

Next == \E t \in Threads : Call(t) \/ Step(t)

Spec == Init /\ [][Next]_vars
----------------------------------------------------------------------------
(***************************************************************************)
(* Properties.                                                             *)
(***************************************************************************)
TypeOK ==
    /\ native_writer \in Threads \cup {NoThread}
    /\ native_readers \subseteq Threads
    /\ writer_thread_id \in Threads \cup {NoThread}
    /\ write_recursion \in Nat
    /\ pc \in [Threads -> PCs]
    /\ depth \in [Threads -> Nat]
    /\ mode \in [Threads -> {"none", "shared", "exclusive"}]

\* Whoever is inside for writing is alone inside, however its levels of locking
\* interleave with the others' attempts.
WriterExcludes ==
    \A t, u \in Threads :
        mode[t] = "exclusive" /\ t # u => mode[u] = "none"

\* The counter is a plain int: only the thread that holds the native lock for
\* writing is ever about to access it, so no two threads race on it.
RecursionUnraced ==
    \A t \in Threads :
        pc[t] \in {"rd_again", "wr_again", "wr_count", "un_count"} => native_writer = t

\* A thread that rests holds exactly what it has locked and not unlocked: the
\* counter is its number of levels, and after the last level neither the native
\* lock nor the writer's id is left behind.
HoldsBalanced ==
    \A t \in Threads : pc[t] = "rest" =>
        /\ mode[t] = "none" <=> depth[t] = 0
        /\ native_writer = t <=> mode[t] = "exclusive"
        /\ t \in native_readers <=> mode[t] = "shared"
        /\ writer_thread_id = t <=> mode[t] = "exclusive"
        /\ mode[t] = "exclusive" => write_recursion = depth[t]
        /\ mode[t] = "shared" => depth[t] = 1

\* The lock behaves as one whose operations are indivisible.
Abs == INSTANCE RwLockAbs
RefinesRwLockAbs == Abs!Spec
=============================================================================
