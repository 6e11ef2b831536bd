--------------------------- MODULE WorkPoolProofs ---------------------------
(***************************************************************************)
(* Theorems about WorkPool, for every set of workers and items, every      *)
(* capacity of the ring and every depth of nested iterations.              *)
(***************************************************************************)
EXTENDS WorkPool, FiniteSetTheorems, SequenceTheorems, TLAPS

----------------------------------------------------------------------------
(***************************************************************************)
(* Positions of the ring. The remainder only ever undoes one lap.          *)
(***************************************************************************)
LEMMA RearMoves ==
    ASSUME NEW c \in Nat \ {0}, NEW f \in 0 .. c - 1, NEW n \in 0 .. c - 1
    PROVE  (((f + n) % c) + 1) % c = (f + n + 1) % c
<1>1. (f + n) % c = IF f + n < c THEN f + n ELSE f + n - c
    OBVIOUS
<1>2. CASE f + n < c
    BY <1>1, <1>2
<1>3. CASE f + n >= c
    <2>1. (f + n - c + 1) % c = f + n - c + 1
        BY <1>3
    <2>2. (f + n + 1) % c = f + n + 1 - c
        BY <1>3
    <2> QED
        BY <1>1, <1>3, <2>1, <2>2
<1> QED
    BY <1>2, <1>3

LEMMA FrontMoves ==
    ASSUME NEW c \in Nat \ {0}, NEW f \in 0 .. c - 1, NEW n \in 1 .. c
    PROVE  (((f + 1) % c) + (n - 1)) % c = (f + n) % c
<1>1. CASE f + 1 < c
    <2>1. (f + 1) % c = f + 1
        BY <1>1
    <2>2. f + 1 + (n - 1) = f + n
        OBVIOUS
    <2> QED
        BY <2>1, <2>2
<1>2. CASE f + 1 = c
    <2>1. (f + 1) % c = 0
        BY <1>2
    <2>2. (n - 1) % c = n - 1
        OBVIOUS
    <2>3. (f + n) % c = f + n - c
        BY <1>2
    <2> QED
        BY <1>2, <2>1, <2>2, <2>3
<1> QED
    BY <1>1, <1>2

LEMMA ModRange ==
    ASSUME NEW c \in Nat \ {0}, NEW n \in Nat PROVE n % c \in 0 .. c - 1
OBVIOUS

----------------------------------------------------------------------------
(***************************************************************************)
(* Types. Each step is looked at through the parts of TypeOK it changes.   *)
(***************************************************************************)
PCs == {"start", "wait", "woken", "work", "exited"}
Frames == [pc : {"tasks", "callback", "poll"}, for : {"run", "await"}, cur : Items \cup {NoItem}]
Outcomes == {"unused", "pending", "refused", "lost", "done", "dropped"}

RingOK ==
    /\ task_queue \in [0 .. Capacity - 1 -> Items \cup {NoItem}]
    /\ task_front \in 0 .. Capacity - 1 /\ task_rear \in 0 .. Capacity - 1
    /\ task_count \in 0 .. Capacity
    /\ task_rear = (task_front + task_count) % Capacity
PoolOK ==
    /\ pool_work \in Seq(Items)
    /\ pool_running \in BOOLEAN
    /\ wpc \in [Workers -> PCs]
    /\ item \in [Workers -> Items \cup {NoItem}]
    /\ \A w \in Workers : wpc[w] = "work" => item[w] # NoItem
LoopOK ==
    /\ state \in {"running", "stopped"}
    /\ frames \in Seq(Frames)
    /\ phase \in {"open", "joining", "freed"}
OutcomeOK == outcome \in [Items -> Outcomes]

LEMMA SameRing == ASSUME RingOK, UNCHANGED ringVars PROVE RingOK'
BY DEF RingOK, ringVars
LEMMA SamePool == ASSUME PoolOK, UNCHANGED poolVars PROVE PoolOK'
BY DEF PoolOK, poolVars
LEMMA SameLoop == ASSUME LoopOK, UNCHANGED loopVars PROVE LoopOK'
BY DEF LoopOK, loopVars

LEMMA PushKeeps ==
    ASSUME RingOK, ~Full, NEW x \in Items, Push(x) PROVE RingOK'
<1> USE WorkPoolAssumption
<1>1. Capacity \in Nat \ {0} /\ task_count \in 0 .. Capacity - 1 /\ task_front \in 0 .. Capacity - 1
    BY DEF RingOK, Full
<1>2. (((task_front + task_count) % Capacity) + 1) % Capacity = (task_front + task_count + 1) % Capacity
    BY <1>1, RearMoves
<1>3. task_rear' = (task_front' + task_count') % Capacity
    BY <1>1, <1>2 DEF RingOK, Push
<1>4. task_rear' \in 0 .. Capacity - 1
    BY <1>1, ModRange DEF RingOK, Push
<1> QED
    BY <1>1, <1>3, <1>4 DEF RingOK, Push

\* The calls of the loop: one more, one less, or the innermost one at another
\* place.
LEMMA FramePushed ==
    ASSUME frames \in Seq(Frames), NEW for \in {"run", "await"}
    PROVE  Append(frames, Frame(for)) \in Seq(Frames)
BY DEF Frame, Frames

LEMMA FramePopped ==
    ASSUME frames \in Seq(Frames), frames # <<>> PROVE Front(frames) \in Seq(Frames)
BY DEF Front

LEMMA FrameMoved ==
    ASSUME frames \in Seq(Frames), frames # <<>>, NEW pc \in {"tasks", "callback", "poll"}
    PROVE  [frames EXCEPT ![Len(frames)].pc = pc] \in Seq(Frames)
<1>1. Len(frames) \in 1 .. Len(frames) /\ frames[Len(frames)] \in Frames
    OBVIOUS
<1>2. [frames[Len(frames)] EXCEPT !.pc = pc] \in Frames
    BY <1>1 DEF Frames
<1> QED
    BY <1>1, <1>2, ExceptSeq

LEMMA FrameSet ==
    ASSUME frames \in Seq(Frames), frames # <<>>, NEW pc \in {"tasks", "callback", "poll"},
           NEW x \in Items \cup {NoItem}
    PROVE  [frames EXCEPT ![Len(frames)].pc = pc, ![Len(frames)].cur = x] \in Seq(Frames)
<1> DEFINE moved == [frames EXCEPT ![Len(frames)].pc = pc]
<1>1. moved \in Seq(Frames) /\ Len(moved) = Len(frames) /\ Len(frames) \in 1 .. Len(moved)
    BY FrameMoved
<1> HIDE DEF moved
<1>2. moved[Len(frames)] \in Frames
    BY <1>1
<1>3. [moved[Len(frames)] EXCEPT !.cur = x] \in Frames
    BY <1>2 DEF Frames
<1>4. [moved EXCEPT ![Len(frames)].cur = x] \in Seq(Frames)
    BY <1>1, <1>3, ExceptSeq
<1> QED
    BY <1>4 DEF moved

\* The innermost call is one of the frames.
LEMMA TopTyped ==
    ASSUME frames \in Seq(Frames), frames # <<>> PROVE Top \in Frames
BY DEF Top, Last

LEMMA PopKeeps ==
    ASSUME RingOK, LoopOK, pop_task PROVE RingOK' /\ LoopOK'
<1> USE WorkPoolAssumption
<1>1. Capacity \in Nat \ {0} /\ task_count \in 1 .. Capacity /\ task_front \in 0 .. Capacity - 1
    BY DEF RingOK, pop_task
<1>2. (((task_front + 1) % Capacity) + (task_count - 1)) % Capacity = (task_front + task_count) % Capacity
    BY <1>1, FrontMoves
<1>3. task_front' \in 0 .. Capacity - 1
    BY <1>1, ModRange DEF pop_task
<1>4. task_rear' = (task_front' + task_count') % Capacity
    BY <1>1, <1>2 DEF RingOK, pop_task
<1>9. RingOK'
    <2>1. task_queue' = task_queue /\ task_rear' = task_rear /\ task_count' \in 0 .. Capacity
        BY <1>1 DEF pop_task
    <2> QED
        BY <1>3, <1>4, <2>1 DEF RingOK
<1>5. task_queue[task_front] \in Items \cup {NoItem}
    BY DEF RingOK
<1>6. frames \in Seq(Frames) /\ frames # <<>>
    BY DEF LoopOK, pop_task, InLoop
<1>7. frames' \in Seq(Frames)
    BY <1>5, <1>6, FrameSet DEF pop_task
<1> QED
    BY <1>9, <1>7 DEF LoopOK, pop_task

LEMMA LoopKeeps ==
    ASSUME LoopOK,
           ev_loop_run \/ await_sync \/ ev_loop_stop \/ callback_done \/ poll \/ poll_done
    PROVE  LoopOK'
<1> USE DEF LoopOK
<1>1. CASE ev_loop_run
    BY <1>1, FramePushed DEF ev_loop_run
<1>2. CASE await_sync
    BY <1>2, FramePushed DEF await_sync
<1>3. CASE ev_loop_stop
    BY <1>3 DEF ev_loop_stop
<1>4. CASE callback_done
    <2>1. frames # <<>>
        BY <1>4 DEF callback_done, InLoop
    <2>2. frames' \in Seq(Frames)
        BY <1>4, <2>1, FrameSet DEF callback_done
    <2> QED
        BY <1>4, <2>2 DEF callback_done
<1>5. CASE poll
    BY <1>5, FrameMoved DEF poll, InLoop
<1>6. CASE poll_done
    BY <1>6, FrameMoved, FramePopped DEF poll_done, InLoop
<1> QED
    BY <1>1, <1>2, <1>3, <1>4, <1>5, <1>6

LEMMA WorkerKeeps ==
    ASSUME PoolOK, NEW w \in Workers, worker_take(w) \/ spurious_wakeup(w) PROVE PoolOK'
<1> USE DEF PoolOK, PCs
<1>1. CASE worker_take(w)
    <2>1. CASE wpc' = [wpc EXCEPT ![w] = "wait"] /\ UNCHANGED <<pool_work, item>>
        BY <1>1, <2>1 DEF worker_take
    <2>2. CASE wpc' = [wpc EXCEPT ![w] = "exited"] /\ UNCHANGED <<pool_work, item>>
        BY <1>1, <2>2 DEF worker_take
    <2>3. CASE /\ pool_work # <<>>
               /\ wpc' = [wpc EXCEPT ![w] = "work"]
               /\ item' = [item EXCEPT ![w] = Head(pool_work)]
               /\ pool_work' = Tail(pool_work)
        <3>1. Head(pool_work) \in Items /\ Tail(pool_work) \in Seq(Items)
            BY <2>3
        <3> QED
            BY <1>1, <2>3, <3>1, WorkPoolAssumption DEF worker_take
    <2> QED
        BY <1>1, <2>1, <2>2, <2>3 DEF worker_take
<1>2. CASE spurious_wakeup(w)
    BY <1>2 DEF spurious_wakeup
<1> QED
    BY <1>1, <1>2

LEMMA CompleteKeeps ==
    ASSUME RingOK, PoolOK, OutcomeOK, NEW w \in Workers, worker_complete(w)
    PROVE  RingOK' /\ PoolOK' /\ OutcomeOK'
<1>1. item[w] \in Items
    BY DEF PoolOK, worker_complete
<1>2. PoolOK'
    BY DEF PoolOK, PCs, worker_complete
<1>3. CASE Full /\ outcome' = [outcome EXCEPT ![item[w]] = "lost"] /\ UNCHANGED ringVars
    BY <1>1, <1>2, <1>3, SameRing DEF OutcomeOK, Outcomes
<1>4. CASE ~Full /\ Push(item[w]) /\ UNCHANGED outcome
    BY <1>1, <1>2, <1>4, PushKeeps DEF OutcomeOK
<1> QED
    BY <1>3, <1>4 DEF worker_complete

LEMMA SubmitKeeps ==
    ASSUME RingOK, PoolOK, OutcomeOK, NEW x \in Items, ev_run_in_pool(x) \/ ev_post_task(x)
    PROVE  RingOK' /\ PoolOK' /\ OutcomeOK'
<1>1. CASE ev_run_in_pool(x)
    <2>1. RingOK' /\ OutcomeOK'
        BY <1>1, SameRing DEF ev_run_in_pool, OutcomeOK, Outcomes
    <2>2. CASE pool_running /\ pool_work' = Append(pool_work, x) /\ signal_worker
        <3>1. pool_work' \in Seq(Items)
            BY <2>2, AppendProperties DEF PoolOK
        <3>2. wpc' \in [Workers -> PCs] /\ \A w \in Workers : wpc'[w] = "work" => wpc[w] = "work"
            BY <2>2 DEF signal_worker, PoolOK, PCs
        <3> QED
            BY <1>1, <2>1, <3>1, <3>2 DEF ev_run_in_pool, PoolOK
    <2>3. CASE ~pool_running /\ UNCHANGED <<pool_work, wpc>>
        BY <1>1, <2>1, <2>3 DEF ev_run_in_pool, PoolOK
    <2> QED
        BY <1>1, <2>2, <2>3 DEF ev_run_in_pool
<1>2. CASE ev_post_task(x)
    <2>1. PoolOK' /\ OutcomeOK'
        BY <1>2, SamePool DEF ev_post_task, OutcomeOK, Outcomes
    <2>2. RingOK'
        BY <1>2, SameRing, PushKeeps DEF ev_post_task
    <2> QED
        BY <2>1, <2>2
<1> QED
    BY <1>1, <1>2

LEMMA DestroyKeeps ==
    ASSUME RingOK, PoolOK, LoopOK, OutcomeOK, ev_loop_destroy \/ destroy_joined
    PROVE  RingOK' /\ PoolOK' /\ LoopOK' /\ OutcomeOK'
<1>1. CASE ev_loop_destroy
    <2>1. wpc' \in [Workers -> PCs] /\ \A w \in Workers : wpc'[w] = "work" => wpc[w] = "work"
        BY <1>1 DEF ev_loop_destroy, wake_workers, PoolOK, PCs
    <2>2. PoolOK'
        BY <1>1, <2>1 DEF ev_loop_destroy, PoolOK
    <2> QED
        BY <1>1, <2>2, SameRing DEF ev_loop_destroy, LoopOK, OutcomeOK
<1>2. CASE destroy_joined
    <2>1. task_rear % Capacity = task_rear
        BY WorkPoolAssumption DEF RingOK
    <2>2. RingOK'
        BY <1>2, <2>1, WorkPoolAssumption DEF destroy_joined, RingOK
    <2>3. PoolOK'
        BY <1>2 DEF destroy_joined, PoolOK
    <2>4. LoopOK'
        BY <1>2 DEF destroy_joined, LoopOK
    <2>5. OutcomeOK'
        BY <1>2 DEF destroy_joined, OutcomeOK, Outcomes
    <2> QED
        BY <2>2, <2>3, <2>4, <2>5
<1> QED
    BY <1>1, <1>2

LEMMA TypeInit == Init => TypeOK
<1> SUFFICES ASSUME Init PROVE RingOK /\ PoolOK /\ LoopOK /\ OutcomeOK
    BY DEF TypeOK, RingOK, PoolOK, LoopOK, OutcomeOK, PCs, Frames, Outcomes
<1> USE WorkPoolAssumption
<1>1. RingOK
    BY DEF Init, RingOK
<1>2. PoolOK
    BY DEF Init, PoolOK, PCs
<1>3. LoopOK /\ OutcomeOK
    BY DEF Init, LoopOK, OutcomeOK, Outcomes
<1> QED
    BY <1>1, <1>2, <1>3

LEMMA TypeStep == TypeOK /\ [Next]_vars => TypeOK'
<1> SUFFICES ASSUME RingOK, PoolOK, LoopOK, OutcomeOK, [Next]_vars
             PROVE  RingOK' /\ PoolOK' /\ LoopOK' /\ OutcomeOK'
    BY DEF TypeOK, RingOK, PoolOK, LoopOK, OutcomeOK, PCs, Frames, Outcomes
<1>1. CASE \E x \in Items : ev_run_in_pool(x) \/ ev_post_task(x)
    BY <1>1, SubmitKeeps, SameLoop DEF ev_run_in_pool, ev_post_task
<1>2. CASE ev_loop_run \/ await_sync \/ ev_loop_stop
    BY <1>2, LoopKeeps, SameRing, SamePool DEF ev_loop_run, await_sync, ev_loop_stop, OutcomeOK
<1>3. CASE ev_loop_destroy \/ destroy_joined
    BY <1>3, DestroyKeeps
<1>4. CASE pop_task
    BY <1>4, PopKeeps, SamePool DEF pop_task, OutcomeOK
<1>5. CASE callback_done
    <2>1. OutcomeOK'
        BY <1>5 DEF callback_done, OutcomeOK, Outcomes
    <2> QED
        BY <1>5, <2>1, LoopKeeps, SameRing, SamePool DEF callback_done
<1>6. CASE poll \/ poll_done
    BY <1>6, LoopKeeps, SameRing, SamePool DEF poll, poll_done, OutcomeOK
<1>7. CASE \E w \in Workers : worker_complete(w)
    BY <1>7, CompleteKeeps, SameLoop DEF worker_complete
<1>8. CASE \E w \in Workers : worker_take(w) \/ spurious_wakeup(w)
    BY <1>8, WorkerKeeps, SameRing, SameLoop DEF worker_take, spurious_wakeup, OutcomeOK
<1>9. CASE UNCHANGED vars
    BY <1>9, SameRing, SamePool, SameLoop DEF vars, OutcomeOK
<1> QED
    BY <1>1, <1>2, <1>3, <1>4, <1>5, <1>6, <1>7, <1>8, <1>9 DEF Next, Program, Loop, Worker

\* Every reachable state is well typed: the ring's rear is where its front and
\* its count say, and a worker that works holds an item.
THEOREM WorkPoolTypeOK == Spec => []TypeOK
<1> QED
    BY TypeInit, TypeStep, PTL DEF Spec

----------------------------------------------------------------------------
(***************************************************************************)
(* No worker sleeps over work. A stopped pool is a case of its own: its    *)
(* workers leave with work in the list, but then none of them waits.       *)
(***************************************************************************)
StoppedAwake == ~pool_running => \A w \in Workers : wpc[w] # "wait"

Awake == TypeOK /\ StoppedAwake /\ NoIdleBacklog

LEMMA ComingFinite == IsFiniteSet(Coming) /\ Cardinality(Coming) \in Nat
BY FS_Subset, FS_CardinalityType, WorkPoolAssumption DEF Coming

LEMMA ComingFiniteNext == IsFiniteSet(Coming') /\ Cardinality(Coming') \in Nat
BY FS_Subset, FS_CardinalityType, WorkPoolAssumption DEF Coming

\* One more item, and one waiting worker signalled for it.
LEMMA AwakeSubmit ==
    ASSUME Awake, TypeOK', NEW x \in Items, ev_run_in_pool(x)
    PROVE  StoppedAwake' /\ NoIdleBacklog'
<1> USE DEF Awake
<1>0. wpc \in [Workers -> PCs] /\ pool_work \in Seq(Items)
    BY DEF TypeOK, PCs
<1>1. CASE ~pool_running /\ UNCHANGED <<pool_work, wpc>>
    BY <1>1 DEF ev_run_in_pool, StoppedAwake, NoIdleBacklog
<1>2. CASE /\ pool_running
           /\ pool_work' = Append(pool_work, x)
           /\ \A w \in Workers : wpc[w] # "wait"
           /\ UNCHANGED wpc
    BY <1>2 DEF ev_run_in_pool, StoppedAwake, NoIdleBacklog
<1>3. ASSUME pool_running, pool_work' = Append(pool_work, x),
             NEW v \in Workers, wpc[v] = "wait", wpc' = [wpc EXCEPT ![v] = "woken"]
      PROVE  StoppedAwake' /\ NoIdleBacklog'
    <2>1. Coming' = Coming \cup {v} /\ v \notin Coming
        BY <1>0, <1>3 DEF Coming
    <2>2. Cardinality(Coming') = Cardinality(Coming) + 1
        BY <2>1, ComingFinite, FS_AddElement
    <2>3. Len(pool_work) <= Cardinality(Coming) /\ Len(pool_work) \in Nat
        BY <1>0, <1>3 DEF NoIdleBacklog
    <2>4. Len(pool_work') = Len(pool_work) + 1
        BY <1>0, <1>3
    <2>5. Len(pool_work') <= Cardinality(Coming')
        BY <2>2, <2>3, <2>4, ComingFinite
    <2> QED
        BY <1>3, <2>5 DEF ev_run_in_pool, StoppedAwake, NoIdleBacklog
<1> QED
    BY <1>1, <1>2, <1>3 DEF ev_run_in_pool, signal_worker

\* A worker takes an item, or waits because there is none, or leaves.
LEMMA AwakeTake ==
    ASSUME Awake, TypeOK', NEW w \in Workers, worker_take(w)
    PROVE  StoppedAwake' /\ NoIdleBacklog'
<1> USE DEF Awake
<1>0. wpc \in [Workers -> PCs] /\ pool_work \in Seq(Items) /\ UNCHANGED pool_running
    BY DEF TypeOK, PCs, worker_take
<1>1. CASE pool_running /\ pool_work = <<>> /\ wpc' = [wpc EXCEPT ![w] = "wait"]
           /\ UNCHANGED pool_work
    <2>1. Len(pool_work') = 0
        BY <1>1
    <2> QED
        BY <1>0, <1>1, <2>1, ComingFiniteNext DEF StoppedAwake, NoIdleBacklog
<1>2. CASE ~pool_running /\ wpc' = [wpc EXCEPT ![w] = "exited"]
    BY <1>0, <1>2 DEF StoppedAwake, NoIdleBacklog
<1>3. CASE /\ pool_running /\ pool_work # <<>> /\ wpc' = [wpc EXCEPT ![w] = "work"]
           /\ pool_work' = Tail(pool_work)
    <2>1. Coming' = Coming \ {w} /\ w \in Coming
        BY <1>0, <1>3 DEF Coming, worker_take
    <2>2. Cardinality(Coming') = Cardinality(Coming) - 1
        BY <2>1, ComingFinite, FS_RemoveElement
    <2>3. Len(pool_work') = Len(pool_work) - 1 /\ Len(pool_work) \in Nat
        BY <1>0, <1>3
    <2>4. (\E v \in Workers : wpc'[v] = "wait") => Len(pool_work) <= Cardinality(Coming)
        BY <1>0, <1>3 DEF NoIdleBacklog
    <2>5. NoIdleBacklog'
        BY <2>2, <2>3, <2>4, ComingFinite DEF NoIdleBacklog
    <2> QED
        BY <1>0, <1>3, <2>5 DEF StoppedAwake
<1> QED
    BY <1>1, <1>2, <1>3 DEF worker_take

\* A worker comes back from its work, or out of its wait for no reason.
LEMMA AwakeReturns ==
    ASSUME Awake, NEW w \in Workers, worker_complete(w) \/ spurious_wakeup(w)
    PROVE  StoppedAwake' /\ NoIdleBacklog'
<1> USE DEF Awake
<1>0. wpc \in [Workers -> PCs] /\ pool_work \in Seq(Items)
      /\ UNCHANGED <<pool_work, pool_running>>
    BY DEF TypeOK, PCs, worker_complete, spurious_wakeup
<1>1. \A v \in Workers : wpc'[v] = "wait" => wpc[v] = "wait"
    BY <1>0 DEF worker_complete, spurious_wakeup
<1>2. Coming \subseteq Coming'
    BY <1>0 DEF Coming, worker_complete, spurious_wakeup
<1>3. Cardinality(Coming) <= Cardinality(Coming')
    BY <1>2, ComingFiniteNext, FS_Subset
<1>4. Len(pool_work') = Len(pool_work) /\ Len(pool_work) \in Nat
    BY <1>0
<1> QED
    BY <1>0, <1>1, <1>3, <1>4, ComingFinite, ComingFiniteNext DEF StoppedAwake, NoIdleBacklog

LEMMA AwakeInit == Init => StoppedAwake /\ NoIdleBacklog
BY DEF Init, StoppedAwake, NoIdleBacklog

LEMMA AwakeStep == Awake /\ [Next]_vars => Awake'
<1> SUFFICES ASSUME Awake, [Next]_vars PROVE StoppedAwake' /\ NoIdleBacklog'
    BY TypeStep DEF Awake
<1>0. TypeOK /\ TypeOK'
    BY TypeStep DEF Awake
<1>1. CASE \E x \in Items : ev_run_in_pool(x)
    BY <1>0, <1>1, AwakeSubmit
<1>2. CASE \E w \in Workers : worker_take(w)
    BY <1>0, <1>2, AwakeTake
<1>3. CASE \E w \in Workers : worker_complete(w) \/ spurious_wakeup(w)
    BY <1>3, AwakeReturns
<1>4. CASE ev_loop_destroy
    <2>1. wpc \in [Workers -> PCs]
        BY <1>0 DEF TypeOK, PCs
    <2>2. \A w \in Workers : wpc'[w] # "wait"
        BY <1>4, <2>1 DEF ev_loop_destroy, wake_workers
    <2> QED
        BY <2>2 DEF StoppedAwake, NoIdleBacklog
<1>5. CASE destroy_joined
    BY <1>5 DEF destroy_joined, StoppedAwake, NoIdleBacklog
<1>6. CASE UNCHANGED <<pool_work, pool_running, wpc>>
    BY <1>6 DEF Awake, StoppedAwake, NoIdleBacklog, Coming
<1> QED
    BY <1>1, <1>2, <1>3, <1>4, <1>5, <1>6
    DEF Next, Program, Loop, Worker, vars, poolVars, ev_post_task, ev_loop_run, await_sync,
        ev_loop_stop, pop_task, callback_done, poll, poll_done

\* While workers wait, there are no more items in the list than workers on their
\* way to it: no signal of ev_run_in_pool is ever lost.
THEOREM WorkPoolNoIdleBacklog == Spec => []NoIdleBacklog
<1>1. Init => Awake
    BY TypeInit, AwakeInit DEF Awake
<1>2. Awake => NoIdleBacklog
    BY DEF Awake
<1> QED
    BY <1>1, <1>2, AwakeStep, PTL DEF Spec

----------------------------------------------------------------------------
(***************************************************************************)
(* The ring implements a queue. Besides the types this needs that all      *)
(* iterations but the innermost are in a callback.                         *)
(***************************************************************************)
Nested == \A i \in 1 .. Len(frames) - 1 : frames[i].pc = "callback"

LEMMA RingDistinct ==
    ASSUME NEW c \in Nat \ {0}, NEW f \in 0 .. c - 1, NEW n \in 0 .. c - 1, NEW k \in 0 .. n - 1
    PROVE  (f + k) % c # (f + n) % c
<1>1. (f + k) % c = IF f + k < c THEN f + k ELSE f + k - c
    OBVIOUS
<1>2. (f + n) % c = IF f + n < c THEN f + n ELSE f + n - c
    OBVIOUS
<1> QED
    BY <1>1, <1>2

LEMMA QueueTyped ==
    ASSUME RingOK PROVE Queue \in Seq(Items \cup {NoItem}) /\ Len(Queue) = task_count
<1>1. \A i \in 1 .. task_count : task_queue[(task_front + i - 1) % Capacity] \in Items \cup {NoItem}
    BY ModRange, WorkPoolAssumption DEF RingOK
<1> QED
    BY <1>1, WorkPoolAssumption DEF Queue, RingOK

LEMMA FunctionIsSeq ==
    ASSUME NEW S, NEW n \in Nat, NEW f \in [1 .. n -> S] PROVE f \in Seq(S) /\ Len(f) = n
OBVIOUS

LEMMA QueueAt ==
    ASSUME NEW i \in 1 .. task_count
    PROVE  Queue[i] = task_queue[(task_front + i - 1) % Capacity]
BY DEF Queue

LEMMA QueuePush ==
    ASSUME RingOK, RingOK', ~Full, NEW x \in Items, Push(x)
    PROVE  Len(Queue) < Capacity /\ Queue' = Append(Queue, x)
<1> USE WorkPoolAssumption
<1>1. Capacity \in Nat \ {0} /\ task_count \in 0 .. Capacity - 1 /\ task_front \in 0 .. Capacity - 1
    BY DEF RingOK, Full
<1>2. /\ task_count' = task_count + 1 /\ task_front' = task_front
      /\ task_queue' = [task_queue EXCEPT ![(task_front + task_count) % Capacity] = x]
    BY DEF Push, RingOK
<1>3. (task_front + task_count) % Capacity \in 0 .. Capacity - 1
    BY <1>1, ModRange
<1>4. task_queue'[(task_front + task_count) % Capacity] = x
    BY <1>2, <1>3 DEF RingOK
<1>5. ASSUME NEW i \in 1 .. task_count
      PROVE  task_queue'[(task_front + i - 1) % Capacity] = task_queue[(task_front + i - 1) % Capacity]
    <2>1. (task_front + (i - 1)) % Capacity # (task_front + task_count) % Capacity
        BY <1>1, RingDistinct
    <2>2. (task_front + i - 1) % Capacity \in 0 .. Capacity - 1
        BY <1>1, ModRange
    <2>3. task_front + (i - 1) = task_front + i - 1
        BY <1>1
    <2> QED
        BY <1>2, <2>1, <2>2, <2>3 DEF RingOK
<1>6. Queue \in Seq(Items \cup {NoItem}) /\ Len(Queue) = task_count
    BY QueueTyped
<1>7. Queue' = [i \in 1 .. task_count + 1 |-> task_queue'[(task_front + i - 1) % Capacity]]
    BY <1>2 DEF Queue
<1>8. ASSUME NEW i \in 1 .. task_count PROVE Queue'[i] = Queue[i]
    <2>1. i \in 1 .. task_count + 1
        BY <1>1
    <2>2. Queue'[i] = task_queue'[(task_front + i - 1) % Capacity]
        BY <1>7, <2>1
    <2> QED
        BY <2>2, <1>5, QueueAt
<1>9. Queue'[task_count + 1] = x
    BY <1>1, <1>4, <1>7
<1>10. Queue' = Append(Queue, x)
    <2>1. /\ Append(Queue, x) \in Seq(Items \cup {NoItem})
          /\ Len(Append(Queue, x)) = task_count + 1
          /\ \A i \in 1 .. task_count : Append(Queue, x)[i] = Queue[i]
          /\ Append(Queue, x)[task_count + 1] = x
        BY <1>6, AppendProperties
    <2>2. \A i \in 1 .. task_count + 1 : Queue'[i] = Append(Queue, x)[i]
        BY <1>1, <1>8, <1>9, <2>1
    <2>3. Queue' \in Seq(Items \cup {NoItem}) /\ Len(Queue') = task_count + 1
        <3>1. \A i \in 1 .. task_count + 1 : Append(Queue, x)[i] \in Items \cup {NoItem}
            BY <2>1
        <3>2. Queue' \in [1 .. task_count + 1 -> Items \cup {NoItem}]
            BY <1>7, <2>2, <3>1
        <3> QED
            BY <1>1, <3>2, FunctionIsSeq
    <2> QED
        BY <2>1, <2>2, <2>3, SeqEqual
<1> QED
    BY <1>1, <1>6, <1>10

LEMMA QueuePop ==
    ASSUME RingOK, RingOK', pop_task
    PROVE  Queue # <<>> /\ Head(Queue) = task_queue[task_front] /\ Queue' = Tail(Queue)
<1> USE WorkPoolAssumption
<1>1. Capacity \in Nat \ {0} /\ task_count \in 1 .. Capacity /\ task_front \in 0 .. Capacity - 1
    BY DEF RingOK, pop_task
<1>2. /\ task_count' = task_count - 1 /\ task_front' = (task_front + 1) % Capacity
      /\ task_queue' = task_queue
    BY DEF pop_task
<1>3. Queue \in Seq(Items \cup {NoItem}) /\ Len(Queue) = task_count
    BY QueueTyped
<1>4. Head(Queue) = task_queue[task_front]
    BY <1>1, <1>3 DEF Queue
<1>5. ASSUME NEW i \in 1 .. task_count - 1
      PROVE  (task_front' + i - 1) % Capacity = (task_front + i) % Capacity
    <2>1. (((task_front + 1) % Capacity) + (i - 1)) % Capacity = (task_front + i) % Capacity
        BY <1>1, FrontMoves
    <2>2. task_front' \in Nat /\ task_front' + (i - 1) = task_front' + i - 1
        BY DEF RingOK
    <2> QED
        BY <1>2, <2>1, <2>2
<1>6. Queue' = [i \in 1 .. task_count - 1 |-> task_queue[(task_front' + i - 1) % Capacity]]
    BY <1>2 DEF Queue
<1>7. ASSUME NEW i \in 1 .. task_count - 1 PROVE Queue'[i] = Queue[i + 1]
    <2>1. Queue'[i] = task_queue[(task_front + i) % Capacity]
        BY <1>5, <1>6
    <2>2. i + 1 \in 1 .. task_count /\ task_front + (i + 1) - 1 = task_front + i
        BY <1>1
    <2>3. Queue[i + 1] = task_queue[(task_front + i) % Capacity]
        BY <2>2, QueueAt
    <2> QED
        BY <2>1, <2>3
<1>8. Queue' = Tail(Queue)
    <2>1. /\ Tail(Queue) \in Seq(Items \cup {NoItem})
          /\ Len(Tail(Queue)) = task_count - 1
          /\ \A i \in 1 .. task_count - 1 : Tail(Queue)[i] = Queue[i + 1]
        BY <1>1, <1>3
    <2>2. \A i \in 1 .. task_count - 1 : Queue'[i] = Tail(Queue)[i]
        BY <1>7, <2>1
    <2>3. Queue' \in Seq(Items \cup {NoItem}) /\ Len(Queue') = task_count - 1
        <3>1. \A i \in 1 .. task_count - 1 : Tail(Queue)[i] \in Items \cup {NoItem}
            BY <2>1
        <3>2. Queue' \in [1 .. task_count - 1 -> Items \cup {NoItem}]
            BY <1>6, <2>2, <3>1
        <3> QED
            BY <1>1, <3>2, FunctionIsSeq
    <2> QED
        BY <2>1, <2>2, <2>3, SeqEqual
<1> QED
    BY <1>1, <1>3, <1>4, <1>8

\* The tasks being called, before and after a call begins, ends, or moves from
\* one place to another that is not a callback.
LEMMA ServingTyped ==
    ASSUME LoopOK PROVE Depth \in Nat /\ Depth <= Len(frames)
                        /\ Serving \in [1 .. Depth -> Items \cup {NoItem}]
<1>1. frames \in Seq(Frames) /\ (frames = <<>> => InLua)
    BY DEF LoopOK, InLua
<1>2. Depth \in Nat /\ Depth <= Len(frames)
    BY <1>1 DEF Depth
<1>3. ASSUME NEW i \in 1 .. Depth PROVE frames[i].cur \in Items \cup {NoItem}
    <2>1. frames[i] \in Frames
        BY <1>1, <1>2
    <2> QED
        BY <2>1 DEF Frames
<1> QED
    BY <1>2, <1>3 DEF Serving

LEMMA ServingCall ==
    ASSUME RingOK, LoopOK, pop_task
    PROVE  Serving' = Append(Serving, task_queue[task_front])
<1>1. frames \in Seq(Frames) /\ Len(frames) \in Nat \ {0} /\ Top.pc = "tasks"
    BY DEF LoopOK, pop_task, InLoop
<1>2. /\ Len(frames') = Len(frames)
      /\ \A i \in 1 .. Len(frames) - 1 : frames'[i] = frames[i]
      /\ frames'[Len(frames)].pc = "callback"
      /\ frames'[Len(frames)].cur = task_queue[task_front]
    <2>1. frames[Len(frames)] \in Frames
        BY <1>1
    <2> QED
        BY <1>1, <2>1 DEF pop_task, Frames
<1>3. Depth = Len(frames) - 1 /\ Depth' = Len(frames)
    BY <1>1, <1>2 DEF Depth, InLua, Top, Last
<1>4. Serving' = [i \in 1 .. Len(frames) |-> frames'[i].cur]
    BY <1>3 DEF Serving
<1>5. Serving \in Seq(Items \cup {NoItem}) /\ Len(Serving) = Len(frames) - 1
    BY <1>3, ServingTyped, FunctionIsSeq
<1>6. ASSUME NEW i \in 1 .. Len(frames) - 1 PROVE Serving'[i] = Serving[i]
    <2>1. Serving[i] = frames[i].cur
        BY <1>3 DEF Serving
    <2>2. Serving'[i] = frames'[i].cur
        BY <1>1, <1>4
    <2> QED
        BY <1>2, <2>1, <2>2
<1>7. Serving'[Len(frames)] = task_queue[task_front]
    BY <1>1, <1>2, <1>4
<1> DEFINE longer == Append(Serving, task_queue[task_front])
<1>8. task_queue[task_front] \in Items \cup {NoItem}
    BY DEF RingOK
<1>9. /\ longer \in Seq(Items \cup {NoItem}) /\ Len(longer) = Len(frames)
      /\ \A i \in 1 .. Len(frames) - 1 : longer[i] = Serving[i]
      /\ longer[Len(frames)] = task_queue[task_front]
    BY <1>1, <1>5, <1>8, AppendProperties
<1> HIDE DEF longer
<1>10. \A i \in 1 .. Len(frames) : Serving'[i] = longer[i]
    BY <1>1, <1>6, <1>7, <1>9
<1>11. Serving' \in [1 .. Len(frames) -> Items \cup {NoItem}]
    <2>1. \A i \in 1 .. Len(frames) : longer[i] \in Items \cup {NoItem}
        BY <1>9
    <2> QED
        BY <1>4, <1>10, <2>1
<1>12. Serving' \in Seq(Items \cup {NoItem}) /\ Len(Serving') = Len(frames)
    BY <1>1, <1>11, FunctionIsSeq
<1>13. Serving' = longer
    BY <1>9, <1>10, <1>12, SeqEqual
<1> QED
    BY <1>13 DEF longer

LEMMA ServingReturn ==
    ASSUME LoopOK, callback_done
    PROVE  Serving # <<>> /\ Serving' = Front(Serving)
<1>1. frames \in Seq(Frames) /\ Len(frames) \in Nat \ {0} /\ Top.pc = "callback"
    BY DEF LoopOK, callback_done, InLoop
<1>2. /\ Len(frames') = Len(frames)
      /\ \A i \in 1 .. Len(frames) - 1 : frames'[i] = frames[i]
      /\ frames'[Len(frames)].pc = "tasks"
    <2>1. frames[Len(frames)] \in Frames
        BY <1>1
    <2> QED
        BY <1>1, <2>1 DEF callback_done, Frames
<1>3. Depth = Len(frames) /\ Depth' = Len(frames) - 1
    BY <1>1, <1>2 DEF Depth, InLua, Top, Last
<1>4. Serving' = [i \in 1 .. Len(frames) - 1 |-> frames'[i].cur]
    BY <1>3 DEF Serving
<1>5. Serving \in Seq(Items \cup {NoItem}) /\ Len(Serving) = Len(frames)
    BY <1>3, ServingTyped, FunctionIsSeq
<1>6. ASSUME NEW i \in 1 .. Len(frames) - 1 PROVE Serving'[i] = Serving[i]
    <2>1. i \in 1 .. Len(frames)
        BY <1>1
    <2>2. Serving[i] = frames[i].cur
        BY <1>3, <2>1 DEF Serving
    <2>3. Serving'[i] = frames'[i].cur
        BY <1>4
    <2> QED
        BY <1>2, <2>2, <2>3
<1>7. /\ Front(Serving) \in Seq(Items \cup {NoItem})
      /\ Len(Front(Serving)) = Len(frames) - 1
      /\ \A i \in 1 .. Len(frames) - 1 : Front(Serving)[i] = Serving[i]
    BY <1>1, <1>5 DEF Front
<1>8. Serving' \in [1 .. Len(frames) - 1 -> Items \cup {NoItem}]
    <2>1. \A i \in 1 .. Len(frames) - 1 : Front(Serving)[i] \in Items \cup {NoItem}
        BY <1>7
    <2> QED
        BY <1>4, <1>6, <1>7, <2>1
<1>9. Serving' \in Seq(Items \cup {NoItem}) /\ Len(Serving') = Len(frames) - 1
    BY <1>1, <1>8, FunctionIsSeq
<1>10. Serving' = Front(Serving)
    BY <1>6, <1>7, <1>9, SeqEqual
<1> QED
    BY <1>1, <1>5, <1>10

LEMMA FrontFacts ==
    ASSUME NEW S, NEW seq \in Seq(S), seq # <<>>
    PROVE  /\ Len(Front(seq)) = Len(seq) - 1
           /\ \A i \in 1 .. Len(seq) - 1 : Front(seq)[i] = seq[i]
<1>1. Len(seq) \in Nat \ {0}
    OBVIOUS
<1>2. \A i \in 1 .. Len(seq) - 1 : seq[i] \in S
    OBVIOUS
<1>3. PICK n \in Nat : n = Len(seq) - 1
    BY <1>1
<1>4. /\ Len(SubSeq(seq, 1, n)) = n
      /\ \A i \in 1 .. n : SubSeq(seq, 1, n)[i] = seq[i]
    <2>1. \A i \in 1 .. n : 1 + i - 1 = i
        BY <1>3
    <2>2. 1 \in Int /\ n \in Int /\ n - 1 + 1 = n
        BY <1>3
    <2>3. /\ Len(SubSeq(seq, 1, n)) = IF 1 <= n THEN n - 1 + 1 ELSE 0
          /\ \A i \in 1 .. n - 1 + 1 : SubSeq(seq, 1, n)[i] = seq[1 + i - 1]
        BY <1>2, <1>3, <2>2, SubSeqProperties
    <2>4. (IF 1 <= n THEN n - 1 + 1 ELSE 0) = n
        BY <1>3
    <2> QED
        BY <2>1, <2>2, <2>3, <2>4
<1> QED
    BY <1>3, <1>4 DEF Front

LEMMA ServingSame ==
    ASSUME Depth' = Depth, \A i \in 1 .. Depth : frames'[i].cur = frames[i].cur
    PROVE  Serving' = Serving
BY DEF Serving

LEMMA ServingElsewhere ==
    ASSUME LoopOK, Nested,
           ev_loop_run \/ await_sync \/ poll \/ poll_done \/ UNCHANGED frames
    PROVE  Serving' = Serving
<1>1. frames \in Seq(Frames) /\ Len(frames) \in Nat
    BY DEF LoopOK
<1>2. CASE ev_loop_run \/ await_sync
    <2>1. PICK f : frames' = Append(frames, Frame(f))
        BY <1>2 DEF ev_loop_run, await_sync
    <2>2. /\ Len(frames') = Len(frames) + 1
          /\ \A i \in 1 .. Len(frames) : frames'[i] = frames[i]
          /\ frames'[Len(frames) + 1].pc = "tasks"
        BY <1>1, <2>1 DEF Frame
    <2>3. Depth = Len(frames) /\ Depth' = Len(frames)
        BY <1>1, <1>2, <2>2 DEF Depth, InLua, Top, Last, ev_loop_run, await_sync
    <2> QED
        BY <2>2, <2>3, ServingSame
<1>3. ASSUME frames # <<>>, Top.pc \in {"tasks", "poll"},
             NEW pc \in {"tasks", "poll"}, frames' = [frames EXCEPT ![Len(frames)].pc = pc]
      PROVE  Serving' = Serving
    <2>1. frames[Len(frames)] \in Frames /\ Len(frames) >= 1
        BY <1>1, <1>3
    <2>2. /\ Len(frames') = Len(frames)
          /\ \A i \in 1 .. Len(frames) - 1 : frames'[i] = frames[i]
          /\ frames'[Len(frames)].pc = pc
        BY <1>1, <1>3, <2>1 DEF Frames
    <2>3. Depth = Len(frames) - 1
        BY <1>3 DEF Depth, InLua
    <2>4. frames' # <<>> /\ Top'.pc = pc
        BY <1>1, <2>1, <2>2 DEF Top, Last
    <2>5. Depth' = Len(frames) - 1
        BY <1>3, <2>2, <2>4 DEF Depth, InLua
    <2> QED
        BY <1>1, <2>2, <2>3, <2>5, ServingSame
<1>4. ASSUME frames # <<>>, Top.pc = "poll", frames' = Front(frames)
      PROVE  Serving' = Serving
    <2>0. Len(frames) >= 1
        BY <1>1, <1>4
    <2>1. /\ Len(frames') = Len(frames) - 1
          /\ \A i \in 1 .. Len(frames) - 1 : frames'[i] = frames[i]
        BY <1>1, <1>4, FrontFacts
    <2>2. Depth = Len(frames) - 1
        BY <1>1, <1>4 DEF Depth, InLua
    <2>3. frames' # <<>> => frames'[Len(frames')].pc = "callback"
        BY <1>1, <2>0, <2>1, FramePopped, <1>4 DEF Nested
    <2>4. Depth' = Len(frames) - 1
        BY <2>1, <2>3 DEF Depth, InLua, Top, Last
    <2> QED
        BY <1>1, <2>1, <2>2, <2>4, ServingSame
<1>5. CASE UNCHANGED frames
    BY <1>5 DEF Serving, Depth, InLua, Top
<1>6. CASE poll
    BY <1>3, <1>6 DEF poll, InLoop
<1>7. CASE poll_done
    BY <1>3, <1>4, <1>7 DEF poll_done, InLoop
<1> QED
    BY <1>2, <1>5, <1>6, <1>7

LEMMA NestedStep ==
    ASSUME LoopOK, Nested, [Next]_vars PROVE Nested'
<1>1. frames \in Seq(Frames) /\ Len(frames) \in Nat
    BY DEF LoopOK
<1>2. CASE ev_loop_run \/ await_sync
    <2>1. PICK f : frames' = Append(frames, Frame(f))
        BY <1>2 DEF ev_loop_run, await_sync
    <2>2. Len(frames') = Len(frames) + 1 /\ \A i \in 1 .. Len(frames) : frames'[i] = frames[i]
        BY <1>1, <2>1
    <2>3. frames # <<>> => frames[Len(frames)].pc = "callback"
        BY <1>2 DEF InLua, Top, Last, ev_loop_run, await_sync
    <2> QED
        BY <1>1, <2>2, <2>3 DEF Nested
<1>3. ASSUME Len(frames') = Len(frames),
             \A i \in 1 .. Len(frames) - 1 : frames'[i] = frames[i]
      PROVE  Nested'
    BY <1>1, <1>3 DEF Nested
<1>4. CASE pop_task
    BY <1>1, <1>3, <1>4 DEF pop_task, InLoop
<1>5. CASE callback_done
    BY <1>1, <1>3, <1>5 DEF callback_done, InLoop
<1>6. CASE poll
    BY <1>1, <1>3, <1>6 DEF poll, InLoop
<1>7. CASE poll_done
    <2>1. CASE frames' = [frames EXCEPT ![Len(frames)].pc = "tasks"]
        BY <1>1, <1>3, <1>7, <2>1 DEF poll_done, InLoop
    <2>2. CASE frames' = Front(frames)
        <3>1. Len(frames) >= 1
            BY <1>1, <1>7 DEF poll_done, InLoop
        <3>2. Len(frames') = Len(frames) - 1 /\ \A i \in 1 .. Len(frames) - 1 : frames'[i] = frames[i]
            BY <1>1, <2>2, <3>1, FrontFacts
        <3> QED
            BY <1>1, <3>1, <3>2 DEF Nested
    <2> QED
        BY <1>7, <2>1, <2>2 DEF poll_done
<1>8. CASE UNCHANGED frames
    BY <1>8 DEF Nested
<1> QED
    BY <1>2, <1>4, <1>5, <1>6, <1>7, <1>8
    DEF Next, Program, Loop, Worker, vars, loopVars, ev_run_in_pool, ev_post_task, worker_take,
        worker_complete, spurious_wakeup, ev_loop_stop, ev_loop_destroy, destroy_joined

\* A step of the pool is a step of the queue, or none.
LEMMA RefineStep ==
    ASSUME TypeOK, TypeOK', Nested, [Next]_vars
    PROVE  [Abs!Next]_Abs!vars
<1> USE DEF Abs!vars
<1>1. RingOK /\ LoopOK /\ PoolOK /\ RingOK' /\ LoopOK'
    BY DEF TypeOK, RingOK, LoopOK, PoolOK, PCs, Frames
<1>2. ASSUME UNCHANGED ringVars PROVE Queue' = Queue
    BY <1>2 DEF ringVars, Queue
<1>3. ASSUME NEW x \in Items, ~Full, Push(x), UNCHANGED frames PROVE Abs!Next
    <2>1. Serving' = Serving
        BY <1>3 DEF Serving, Depth, InLua, Top
    <2> QED
        BY <1>1, <1>3, <2>1, QueuePush, QueueTyped DEF Abs!Next, Abs!post, RingOK
<1>4. CASE \E x \in Items : ev_run_in_pool(x) \/ ev_post_task(x)
    BY <1>1, <1>2, <1>3, <1>4, ServingElsewhere DEF ev_run_in_pool, ev_post_task, loopVars
<1>5. CASE \E w \in Workers : worker_complete(w)
    BY <1>1, <1>2, <1>3, <1>5, ServingElsewhere DEF worker_complete, loopVars, PoolOK
<1>6. CASE \E w \in Workers : worker_take(w) \/ spurious_wakeup(w)
    BY <1>1, <1>2, <1>6, ServingElsewhere DEF worker_take, spurious_wakeup, loopVars
<1>7. CASE pop_task
    BY <1>1, <1>7, QueuePop, ServingCall DEF Abs!Next, Abs!call
<1>8. CASE callback_done
    <2>1. Queue' = Queue
        BY <1>2, <1>8 DEF callback_done
    <2>2. Serving # <<>> /\ Serving' = Front(Serving)
        BY <1>1, <1>8, ServingReturn
    <2>3. Abs!return
        BY <2>1, <2>2 DEF Abs!return, Abs!Front, Front
    <2> QED
        BY <2>3 DEF Abs!Next
<1>9. CASE ev_loop_run \/ await_sync \/ poll \/ poll_done
    BY <1>1, <1>2, <1>9, ServingElsewhere DEF ev_loop_run, await_sync, poll, poll_done
<1>10. CASE ev_loop_stop \/ ev_loop_destroy
    BY <1>1, <1>2, <1>10, ServingElsewhere DEF ev_loop_stop, ev_loop_destroy
<1>11. CASE destroy_joined
    <2>1. Queue' = <<>>
        <3>1. Queue' \in [1 .. 0 -> Items \cup {NoItem}]
            BY <1>11 DEF destroy_joined, Queue
        <3>2. Queue' \in Seq(Items \cup {NoItem}) /\ Len(Queue') = 0
            BY <3>1, FunctionIsSeq
        <3> QED
            BY <3>2
    <2> QED
        BY <1>1, <1>11, <2>1, ServingElsewhere DEF destroy_joined, Abs!Next, Abs!discard
<1>12. CASE UNCHANGED vars
    BY <1>1, <1>2, <1>12, ServingElsewhere DEF vars, loopVars
<1> QED
    BY <1>4, <1>5, <1>6, <1>7, <1>8, <1>9, <1>10, <1>11, <1>12 DEF Next, Program, Loop, Worker

LEMMA RefineInit == ASSUME Init PROVE Nested /\ Abs!Init
<1>1. frames = <<>> /\ task_count = 0
    BY DEF Init
<1>2. Depth = 0
    BY <1>1 DEF Depth, InLua
<1>3. Queue \in [1 .. 0 -> {}] /\ Serving \in [1 .. 0 -> {}]
    BY <1>1, <1>2 DEF Queue, Serving
<1>4. Queue \in Seq({}) /\ Len(Queue) = 0 /\ Serving \in Seq({}) /\ Len(Serving) = 0
    BY <1>3, FunctionIsSeq
<1> QED
    BY <1>1, <1>4 DEF Nested, Abs!Init

\* The ring implements a bounded first-in first-out queue: its tasks are called
\* in the order they were posted in, also across its end and in nested
\* iterations.
THEOREM WorkPoolRefines == Spec => RefinesTaskQueueAbs
<1>1. TypeOK /\ Nested /\ [Next]_vars => (TypeOK /\ Nested)'
    BY TypeStep, NestedStep DEF TypeOK, LoopOK, Frames
<1>2. TypeOK /\ TypeOK' /\ Nested /\ [Next]_vars => [Abs!Next]_Abs!vars
    BY RefineStep
<1> QED
    BY <1>1, <1>2, TypeInit, RefineInit, PTL DEF Spec, RefinesTaskQueueAbs, Abs!Spec

----------------------------------------------------------------------------
(***************************************************************************)
(* How often an item occurs in a sequence.                                 *)
(***************************************************************************)
Places(x, s) == {i \in 1 .. Len(s) : s[i] = x}

LEMMA CountPlaces ==
    ASSUME NEW S, NEW s \in Seq(S), NEW x
    PROVE  /\ Count(x, s) = Cardinality(Places(x, s))
           /\ IsFiniteSet(Places(x, s)) /\ Count(x, s) \in Nat
<1>1. DOMAIN s = 1 .. Len(s) /\ Len(s) \in Nat
    OBVIOUS
<1>2. Count(x, s) = Cardinality(Places(x, s))
    BY <1>1 DEF Count, Places
<1>3. IsFiniteSet(1 .. Len(s)) /\ Places(x, s) \subseteq 1 .. Len(s)
    BY <1>1, FS_Interval DEF Places
<1>4. IsFiniteSet(Places(x, s))
    BY <1>3, FS_Subset
<1> QED
    BY <1>2, <1>4, FS_CardinalityType

LEMMA CountEmpty == \A x : Count(x, <<>>) = 0
<1> SUFFICES ASSUME NEW x PROVE Count(x, <<>>) = 0
    OBVIOUS
<1>1. <<>> \in Seq({}) /\ Len(<<>>) = 0
    OBVIOUS
<1>2. Places(x, <<>>) = {}
    BY DEF Places
<1> QED
    BY <1>1, <1>2, CountPlaces, FS_EmptySet

LEMMA CountSome ==
    ASSUME NEW S, NEW s \in Seq(S), NEW x
    PROVE  Count(x, s) > 0 <=> \E i \in 1 .. Len(s) : s[i] = x
<1>1. Cardinality(Places(x, s)) = 0 <=> Places(x, s) = {}
    BY CountPlaces, FS_EmptySet
<1>2. Places(x, s) = {} <=> ~ \E i \in 1 .. Len(s) : s[i] = x
    BY DEF Places
<1> QED
    BY <1>1, <1>2, CountPlaces

LEMMA CountAppend ==
    ASSUME NEW S, NEW s \in Seq(S), NEW y \in S, NEW x
    PROVE  Count(x, Append(s, y)) = Count(x, s) + (IF y = x THEN 1 ELSE 0)
<1> DEFINE longer == Append(s, y)
<1>1. /\ longer \in Seq(S) /\ Len(longer) = Len(s) + 1 /\ Len(s) \in Nat
      /\ \A i \in 1 .. Len(s) : longer[i] = s[i]
      /\ longer[Len(s) + 1] = y
    BY AppendProperties
<1> HIDE DEF longer
<1>2. CASE y = x
    <2>1. Places(x, longer) = Places(x, s) \cup {Len(s) + 1} /\ Len(s) + 1 \notin Places(x, s)
        BY <1>1, <1>2 DEF Places
    <2>2. Cardinality(Places(x, longer)) = Cardinality(Places(x, s)) + 1
        BY <2>1, CountPlaces, FS_AddElement
    <2> QED
        BY <1>1, <1>2, <2>2, CountPlaces DEF longer
<1>3. CASE y # x
    <2>1. Places(x, longer) = Places(x, s)
        BY <1>1, <1>3 DEF Places
    <2>2. Count(x, longer) = Count(x, s) /\ Count(x, s) \in Nat
        BY <1>1, <2>1, CountPlaces
    <2> QED
        BY <1>3, <2>2 DEF longer
<1> QED
    BY <1>2, <1>3

\* The first element is the one that Tail leaves out: the others move up by one.
LEMMA CountTail ==
    ASSUME NEW S, NEW s \in Seq(S), s # <<>>, NEW x
    PROVE  Count(x, s) = Count(x, Tail(s)) + (IF Head(s) = x THEN 1 ELSE 0)
<1> DEFINE rest == Tail(s)
           later == Places(x, s) \ {1}
           up == [i \in later |-> i - 1]
<1>1. /\ rest \in Seq(S) /\ Len(rest) = Len(s) - 1 /\ Len(s) \in Nat \ {0}
      /\ \A i \in 1 .. Len(s) - 1 : rest[i] = s[i + 1]
      /\ Head(s) = s[1]
    OBVIOUS
<1> HIDE DEF rest
<1>2. later \subseteq Nat
    BY <1>1 DEF Places
<1>3. \A i \in later : up[i] \in Places(x, rest)
    <2> SUFFICES ASSUME NEW i \in later PROVE i - 1 \in Places(x, rest)
        OBVIOUS
    <2>1. i \in 1 .. Len(s) /\ i # 1 /\ s[i] = x
        BY DEF Places
    <2>2. i - 1 \in 1 .. Len(s) - 1 /\ (i - 1) + 1 = i
        BY <1>1, <2>1
    <2> QED
        BY <1>1, <2>1, <2>2 DEF Places
<1>4. \A j \in Places(x, rest) : j + 1 \in later /\ up[j + 1] = j
    <2> SUFFICES ASSUME NEW j \in Places(x, rest) PROVE j + 1 \in later /\ (j + 1) - 1 = j
        OBVIOUS
    <2>1. j \in 1 .. Len(s) - 1 /\ rest[j] = x
        BY <1>1 DEF Places
    <2>2. j + 1 \in 1 .. Len(s) /\ j + 1 # 1 /\ (j + 1) - 1 = j
        BY <1>1, <2>1
    <2> QED
        BY <1>1, <2>1, <2>2 DEF Places
<1>5. \A i, j \in later : up[i] = up[j] => i = j
    BY <1>2
<1>6. up \in Bijection(later, Places(x, rest))
    <2>1. up \in [later -> Places(x, rest)]
        BY <1>3
    <2>2. \A j \in Places(x, rest) : \E i \in later : up[i] = j
        BY <1>4
    <2> HIDE DEF up, later
    <2> QED
        BY <1>5, <2>1, <2>2 DEF Bijection, Injection, Surjection, IsInjective
<1>7. IsFiniteSet(later)
    BY CountPlaces, FS_Subset
<1>8. Cardinality(Places(x, rest)) = Cardinality(later)
    <2> HIDE DEF up, later
    <2> QED
        BY <1>6, <1>7, FS_Bijection DEF ExistsBijection
<1>9. Cardinality(later) = IF 1 \in Places(x, s) THEN Cardinality(Places(x, s)) - 1
                           ELSE Cardinality(Places(x, s))
    BY CountPlaces, FS_RemoveElement
<1>10. 1 \in Places(x, s) <=> Head(s) = x
    BY <1>1 DEF Places
<1> QED
    <2> HIDE DEF later, up
    <2>1. Count(x, rest) = Cardinality(Places(x, rest)) /\ Count(x, rest) \in Nat
        BY <1>1, CountPlaces
    <2>2. Count(x, s) = Cardinality(Places(x, s)) /\ Count(x, s) \in Nat
        BY CountPlaces
    <2> QED
        BY <1>8, <1>9, <1>10, <2>1, <2>2 DEF rest

LEMMA CountFront ==
    ASSUME NEW S, NEW s \in Seq(S), s # <<>>, NEW x
    PROVE  Count(x, s) = Count(x, Front(s)) + (IF s[Len(s)] = x THEN 1 ELSE 0)
<1>1. Len(s) \in Nat \ {0} /\ s[Len(s)] \in S
    OBVIOUS
<1>2. /\ Len(Front(s)) = Len(s) - 1
      /\ \A i \in 1 .. Len(s) - 1 : Front(s)[i] = s[i]
    BY FrontFacts
<1>3. Front(s) \in Seq(S)
    BY <1>1 DEF Front
<1>4. CASE s[Len(s)] = x
    <2>1. Places(x, Front(s)) = Places(x, s) \ {Len(s)} /\ Len(s) \in Places(x, s)
        BY <1>1, <1>2, <1>4 DEF Places
    <2>2. Cardinality(Places(x, Front(s))) = Cardinality(Places(x, s)) - 1
        BY <2>1, CountPlaces, FS_RemoveElement
    <2> QED
        BY <1>3, <1>4, <2>2, CountPlaces
<1>5. CASE s[Len(s)] # x
    <2>1. Places(x, Front(s)) = Places(x, s)
        BY <1>1, <1>2, <1>5 DEF Places
    <2> QED
        BY <1>3, <1>5, <2>1, CountPlaces
<1> QED
    BY <1>4, <1>5

----------------------------------------------------------------------------
(***************************************************************************)
(* ItemsAccounted is inductive with two facts about who has nothing: a     *)
(* worker that is not at work has no item, and a loop that is being        *)
(* destroyed has no iteration.                                             *)
(***************************************************************************)
Held(x) == {w \in Workers : item[w] = x}
IdleHands == \A w \in Workers : wpc[w] # "work" => item[w] = NoItem
LoopAtRest == phase # "open" => frames = <<>>

InPlace == TypeOK /\ Nested /\ IdleHands /\ LoopAtRest

Total(x) == Count(x, pool_work) + Cardinality(Held(x)) + Count(x, Queue) + Count(x, Serving)
Due(x) == IF outcome[x] = "pending" THEN 1 ELSE 0

LEMMA AccountedTotal == ItemsAccounted <=> \A x \in Items : Total(x) = Due(x)
BY DEF ItemsAccounted, Total, Due, Held

LEMMA AccountedNext ==
    ASSUME \A x \in Items : Total(x)' = Due(x)' PROVE ItemsAccounted'
BY DEF ItemsAccounted, Total, Due, Held

LEMMA PartsTyped ==
    ASSUME TypeOK
    PROVE  RingOK /\ PoolOK /\ LoopOK /\ OutcomeOK
BY DEF TypeOK, RingOK, PoolOK, LoopOK, OutcomeOK, PCs, Frames, Outcomes

LEMMA ServingIsSeq ==
    ASSUME LoopOK PROVE Serving \in Seq(Items \cup {NoItem}) /\ Len(Serving) = Depth
BY ServingTyped, FunctionIsSeq

LEMMA HeldFinite ==
    ASSUME NEW x PROVE IsFiniteSet(Held(x)) /\ Cardinality(Held(x)) \in Nat
BY FS_Subset, FS_CardinalityType, WorkPoolAssumption DEF Held

LEMMA TotalParts ==
    ASSUME TypeOK, NEW x
    PROVE  /\ Count(x, pool_work) \in Nat /\ Cardinality(Held(x)) \in Nat
           /\ Count(x, Queue) \in Nat /\ Count(x, Serving) \in Nat
<1>1. /\ pool_work \in Seq(Items)
      /\ Queue \in Seq(Items \cup {NoItem})
      /\ Serving \in Seq(Items \cup {NoItem})
    BY PartsTyped, QueueTyped, ServingIsSeq DEF PoolOK
<1> QED
    BY <1>1, CountPlaces, HeldFinite

LEMMA SameQueue == ASSUME UNCHANGED ringVars PROVE Queue' = Queue
BY DEF Queue, ringVars

LEMMA SameServing == ASSUME UNCHANGED frames PROVE Serving' = Serving
BY DEF Serving, Depth, InLua, Top

\* A step that moves no item and decides nothing.
LEMMA AccountSame ==
    ASSUME ItemsAccounted, UNCHANGED <<pool_work, item, outcome>>,
           Queue' = Queue, Serving' = Serving
    PROVE  ItemsAccounted'
BY DEF ItemsAccounted

\* An item whose fate is open is in one place; any other is in none.
LEMMA AccountPush ==
    ASSUME TypeOK, TypeOK', NEW x \in Items, NEW y \in Items, ~Full, Push(x)
    PROVE  Count(y, Queue') = Count(y, Queue) + (IF x = y THEN 1 ELSE 0)
<1>1. RingOK /\ RingOK'
    BY DEF TypeOK, RingOK
<1>2. Queue' = Append(Queue, x) /\ Queue \in Seq(Items \cup {NoItem})
    BY <1>1, QueuePush, QueueTyped
<1> QED
    BY <1>2, CountAppend

LEMMA AccountSubmit ==
    ASSUME InPlace, ItemsAccounted, NEW x \in Items, ev_run_in_pool(x)
    PROVE  ItemsAccounted'
<1> SUFFICES ASSUME NEW y \in Items PROVE Total(y)' = Due(y)'
    BY AccountedNext
<1>1. TypeOK /\ outcome \in [Items -> Outcomes] /\ pool_work \in Seq(Items)
    BY PartsTyped DEF InPlace, OutcomeOK, PoolOK
<1>2. Queue' = Queue /\ Serving' = Serving /\ Held(y)' = Held(y)
    BY SameQueue, SameServing DEF ev_run_in_pool, loopVars, Held
<1>3. Total(y) = Due(y)
    BY AccountedTotal
<1>4. outcome[x] = "unused"
    BY DEF ev_run_in_pool
<1>5. CASE pool_work' = Append(pool_work, x) /\ outcome' = [outcome EXCEPT ![x] = "pending"]
    <2>1. Count(y, pool_work') = Count(y, pool_work) + (IF x = y THEN 1 ELSE 0)
        BY <1>1, <1>5, CountAppend
    <2>2. Due(y)' = Due(y) + (IF x = y THEN 1 ELSE 0)
        BY <1>1, <1>4, <1>5 DEF Due
    <2> QED
        BY <1>1, <1>2, <1>3, <2>1, <2>2, TotalParts DEF Total
<1>6. CASE outcome' = [outcome EXCEPT ![x] = "done"] /\ UNCHANGED pool_work
    <2>1. Due(y)' = Due(y)
        BY <1>1, <1>4, <1>6 DEF Due
    <2> QED
        BY <1>2, <1>3, <1>6, <2>1 DEF Total
<1> QED
    BY <1>5, <1>6 DEF ev_run_in_pool

LEMMA AccountPost ==
    ASSUME InPlace, TypeOK', ItemsAccounted, NEW x \in Items, ev_post_task(x)
    PROVE  ItemsAccounted'
<1> SUFFICES ASSUME NEW y \in Items PROVE Total(y)' = Due(y)'
    BY AccountedNext
<1>1. TypeOK /\ outcome \in [Items -> Outcomes]
    BY PartsTyped DEF InPlace, OutcomeOK
<1>2. Serving' = Serving /\ Held(y)' = Held(y) /\ pool_work' = pool_work
    BY SameServing DEF ev_post_task, poolVars, loopVars, Held
<1>3. Total(y) = Due(y)
    BY AccountedTotal
<1>4. outcome[x] = "unused"
    BY DEF ev_post_task
<1>5. CASE outcome' = [outcome EXCEPT ![x] = "refused"] /\ UNCHANGED ringVars
    <2>1. Due(y)' = Due(y)
        BY <1>1, <1>4, <1>5 DEF Due
    <2> QED
        BY <1>2, <1>3, <1>5, <2>1, SameQueue DEF Total
<1>6. CASE ~Full /\ outcome' = [outcome EXCEPT ![x] = "pending"] /\ Push(x)
    <2>1. Count(y, Queue') = Count(y, Queue) + (IF x = y THEN 1 ELSE 0)
        BY <1>1, <1>6, AccountPush
    <2>2. Due(y)' = Due(y) + (IF x = y THEN 1 ELSE 0)
        BY <1>1, <1>4, <1>6 DEF Due
    <2> QED
        BY <1>1, <1>2, <1>3, <2>1, <2>2, TotalParts DEF Total
<1> QED
    BY <1>5, <1>6 DEF ev_post_task

\* The first item of the list goes into the empty hands of a worker.
LEMMA AccountTake ==
    ASSUME InPlace, ItemsAccounted, NEW w \in Workers, worker_take(w)
    PROVE  ItemsAccounted'
<1>1. TypeOK /\ pool_work \in Seq(Items) /\ item \in [Workers -> Items \cup {NoItem}]
    BY PartsTyped DEF InPlace, PoolOK
<1>2. Queue' = Queue /\ Serving' = Serving /\ UNCHANGED outcome
    BY SameQueue, SameServing DEF worker_take, loopVars
<1>3. CASE UNCHANGED <<pool_work, item>>
    BY <1>2, <1>3, AccountSame
<1>4. CASE /\ pool_work # <<>>
           /\ item' = [item EXCEPT ![w] = Head(pool_work)]
           /\ pool_work' = Tail(pool_work)
    <2> SUFFICES ASSUME NEW y \in Items PROVE Total(y)' = Due(y)'
        BY AccountedNext
    <2>1. Count(y, pool_work) = Count(y, pool_work') + (IF Head(pool_work) = y THEN 1 ELSE 0)
        BY <1>1, <1>4, CountTail
    <2>2. item[w] = NoItem /\ y # NoItem
        BY WorkPoolAssumption DEF InPlace, IdleHands, worker_take
    <2>3. Cardinality(Held(y)') = Cardinality(Held(y)) + (IF Head(pool_work) = y THEN 1 ELSE 0)
        <3>1. CASE Head(pool_work) = y
            <4>1. Held(y)' = Held(y) \cup {w} /\ w \notin Held(y)
                BY <1>1, <1>4, <2>2, <3>1 DEF Held
            <4> QED
                BY <3>1, <4>1, HeldFinite, FS_AddElement
        <3>2. CASE Head(pool_work) # y
            <4>1. Held(y)' = Held(y)
                BY <1>1, <1>4, <2>2, <3>2 DEF Held
            <4> QED
                BY <3>2, <4>1, HeldFinite
        <3> QED
            BY <3>1, <3>2
    <2>4. Total(y) = Due(y) /\ Due(y)' = Due(y)
        BY <1>2, AccountedTotal DEF Due
    <2>5. Count(y, pool_work') \in Nat
        <3>1. pool_work' \in Seq(Items)
            BY <1>1, <1>4
        <3> QED
            BY <3>1, CountPlaces
    <2> QED
        BY <1>1, <1>2, <2>1, <2>3, <2>4, <2>5, TotalParts DEF Total
<1> QED
    BY <1>3, <1>4 DEF worker_take

\* The worker lets go of its item, which goes into the ring or gets lost.
LEMMA AccountComplete ==
    ASSUME InPlace, TypeOK', ItemsAccounted, NEW w \in Workers, worker_complete(w)
    PROVE  ItemsAccounted'
<1>1. /\ TypeOK /\ item \in [Workers -> Items \cup {NoItem}]
      /\ outcome \in [Items -> Outcomes]
    BY PartsTyped DEF InPlace, PoolOK, OutcomeOK
<1>2. /\ item[w] \in Items
      /\ item' = [item EXCEPT ![w] = NoItem]
    BY DEF InPlace, TypeOK, worker_complete
<1>3. Serving' = Serving /\ pool_work' = pool_work
    BY SameServing DEF worker_complete, loopVars
<1> SUFFICES ASSUME NEW y \in Items PROVE Total(y)' = Due(y)'
    BY AccountedNext
<1>4. Cardinality(Held(y)) = Cardinality(Held(y)') + (IF item[w] = y THEN 1 ELSE 0)
    <2>0. y # NoItem
        BY WorkPoolAssumption
    <2>1. CASE item[w] = y
        <3>1. Held(y)' = Held(y) \ {w} /\ w \in Held(y)
            BY <1>1, <1>2, <2>0, <2>1 DEF Held
        <3>2. Cardinality(Held(y)') = Cardinality(Held(y)) - 1
            BY <3>1, HeldFinite, FS_RemoveElement
        <3> QED
            BY <2>1, <3>2, HeldFinite
    <2>2. CASE item[w] # y
        <3>1. Held(y)' = Held(y)
            BY <1>1, <1>2, <2>0, <2>2 DEF Held
        <3> QED
            BY <2>2, <3>1, HeldFinite
    <2> QED
        BY <2>1, <2>2
<1>5. /\ Total(y) = Due(y)
      /\ Cardinality(Held(y)') \in Nat
    <2>1. IsFiniteSet({v \in Workers : item'[v] = y})
        BY FS_Subset, WorkPoolAssumption
    <2> QED
        BY <2>1, AccountedTotal, FS_CardinalityType DEF Held
<1>6. CASE outcome' = [outcome EXCEPT ![item[w]] = "lost"] /\ UNCHANGED ringVars
    <2>1. CASE item[w] = y
        <3>1. Due(y)' = 0
            BY <1>1, <1>6, <2>1 DEF Due
        <3>2. Cardinality(Held(y)) = Cardinality(Held(y)') + 1
            BY <1>4, <2>1
        <3>3. Due(y) \in {0, 1}
            BY DEF Due
        <3>4. /\ Count(y, pool_work) = 0 /\ Cardinality(Held(y)') = 0
              /\ Count(y, Queue) = 0 /\ Count(y, Serving) = 0
            BY <1>1, <1>5, <3>2, <3>3, TotalParts DEF Total
        <3> QED
            BY <1>3, <1>6, <3>1, <3>4, SameQueue DEF Total
    <2>2. CASE item[w] # y
        <3>1. Due(y)' = Due(y)
            BY <1>1, <1>2, <1>6, <2>2 DEF Due
        <3>2. Cardinality(Held(y)) = Cardinality(Held(y)')
            BY <1>4, <1>5, <2>2
        <3> QED
            BY <1>3, <1>5, <1>6, <3>1, <3>2, SameQueue DEF Total
    <2> QED
        BY <2>1, <2>2
<1>7. CASE ~Full /\ Push(item[w]) /\ UNCHANGED outcome
    <2>1. Count(y, Queue') = Count(y, Queue) + (IF item[w] = y THEN 1 ELSE 0)
        BY <1>1, <1>2, <1>7, AccountPush
    <2>2. Due(y)' = Due(y)
        BY <1>7 DEF Due
    <2> QED
        BY <1>1, <1>3, <1>4, <1>5, <2>1, <2>2, TotalParts DEF Total
<1> QED
    BY <1>6, <1>7 DEF worker_complete

\* From the ring into a callback.
LEMMA AccountCall ==
    ASSUME InPlace, TypeOK', ItemsAccounted, pop_task PROVE ItemsAccounted'
<1>1. TypeOK /\ RingOK /\ RingOK' /\ LoopOK
    BY PartsTyped DEF InPlace, TypeOK, RingOK
<1>2. /\ Queue # <<>> /\ Head(Queue) = task_queue[task_front] /\ Queue' = Tail(Queue)
      /\ Serving' = Append(Serving, task_queue[task_front])
      /\ task_queue[task_front] \in Items \cup {NoItem}
    BY <1>1, QueuePop, ServingCall DEF RingOK
<1>3. /\ Queue \in Seq(Items \cup {NoItem}) /\ Tail(Queue) \in Seq(Items \cup {NoItem})
      /\ Serving \in Seq(Items \cup {NoItem})
    <2>1. Queue \in Seq(Items \cup {NoItem})
        BY <1>1, QueueTyped
    <2>2. Tail(Queue) \in Seq(Items \cup {NoItem})
        BY <1>2, <2>1
    <2> QED
        BY <1>1, <2>1, <2>2, ServingIsSeq
<1> SUFFICES ASSUME NEW y \in Items PROVE Total(y)' = Due(y)'
    BY AccountedNext
<1>4. Count(y, Queue) = Count(y, Queue') + (IF task_queue[task_front] = y THEN 1 ELSE 0)
    BY <1>2, <1>3, CountTail
<1>5. Count(y, Serving') = Count(y, Serving) + (IF task_queue[task_front] = y THEN 1 ELSE 0)
    BY <1>2, <1>3, CountAppend
<1>6. Count(y, Queue') \in Nat
    BY <1>2, <1>3, CountPlaces
<1>7. pool_work' = pool_work /\ Held(y)' = Held(y) /\ Due(y)' = Due(y) /\ Total(y) = Due(y)
    BY AccountedTotal DEF pop_task, poolVars, Held, Due
<1> QED
    BY <1>1, <1>4, <1>5, <1>6, <1>7, TotalParts DEF Total

\* The innermost callback returns, and its item is done.
LEMMA AccountReturn ==
    ASSUME InPlace, ItemsAccounted, callback_done PROVE ItemsAccounted'
<1>1. TypeOK /\ LoopOK /\ outcome \in [Items -> Outcomes]
    BY PartsTyped DEF InPlace, OutcomeOK
<1>2. /\ Serving # <<>> /\ Serving' = Front(Serving)
      /\ Serving \in Seq(Items \cup {NoItem}) /\ Len(Serving) = Depth
    BY <1>1, ServingReturn, ServingIsSeq
<1>3. Serving[Len(Serving)] = Top.cur
    <2>1. frames # <<>> /\ Depth = Len(frames) /\ Len(frames) \in Nat \ {0}
        BY <1>1 DEF callback_done, InLoop, Depth, InLua, LoopOK
    <2> QED
        BY <1>2, <2>1 DEF Serving, Top, Last
<1>4. /\ outcome' = [outcome EXCEPT ![Top.cur] = "done"]
      /\ pool_work' = pool_work /\ item' = item /\ Queue' = Queue
    BY SameQueue DEF callback_done, poolVars
<1> SUFFICES ASSUME NEW y \in Items PROVE Total(y)' = Due(y)'
    BY AccountedNext
<1>5. Count(y, Serving) = Count(y, Serving') + (IF Top.cur = y THEN 1 ELSE 0)
    BY <1>2, <1>3, CountFront
<1>6. Count(y, Serving') \in Nat
    <2>1. Len(Serving) \in Nat \ {0}
        BY <1>2
    <2>2. Front(Serving) \in Seq(Items \cup {NoItem})
        BY <1>2, <2>1 DEF Front
    <2> QED
        BY <1>2, <2>2, CountPlaces
<1>7. Total(y) = Due(y)
    BY AccountedTotal
<1>8. CASE Top.cur = y
    <2>1. Due(y)' = 0
        BY <1>1, <1>4, <1>8 DEF Due
    <2>2. Due(y) \in {0, 1}
        BY DEF Due
    <2>3. /\ Count(y, pool_work) = 0 /\ Cardinality(Held(y)) = 0
          /\ Count(y, Queue) = 0 /\ Count(y, Serving') = 0
        BY <1>1, <1>5, <1>6, <1>7, <1>8, <2>2, TotalParts DEF Total
    <2> QED
        BY <1>4, <2>1, <2>3 DEF Total, Held
<1>9. CASE Top.cur # y
    <2>1. Due(y)' = Due(y)
        BY <1>1, <1>4, <1>9 DEF Due
    <2>2. Count(y, Serving') = Count(y, Serving)
        BY <1>5, <1>6, <1>9
    <2> QED
        BY <1>4, <1>7, <2>1, <2>2 DEF Total, Held
<1> QED
    BY <1>8, <1>9

\* What is freed with the loop is what was left in the list and in the ring:
\* no worker has an item any more, and no callback runs.
LEMMA LeftCounted ==
    ASSUME TypeOK, NEW x \in Items
    PROVE  x \in Left <=> Count(x, pool_work) > 0 \/ Count(x, Queue) > 0
<1>1. pool_work \in Seq(Items) /\ Queue \in Seq(Items \cup {NoItem}) /\ Len(Queue) = task_count
    BY PartsTyped, QueueTyped DEF PoolOK
<1>2. x \in ToSet(pool_work) <=> Count(x, pool_work) > 0
    <2>1. x \in ToSet(pool_work) <=> \E i \in 1 .. Len(pool_work) : pool_work[i] = x
        BY <1>1 DEF ToSet
    <2> QED
        BY <1>1, <2>1, CountSome
<1>3. task_count \in Nat /\ task_front \in Nat
    BY WorkPoolAssumption DEF TypeOK
<1>4. (\E i \in 0 .. task_count - 1 : task_queue[(task_front + i) % Capacity] = x)
        <=> Count(x, Queue) > 0
    <2>1. ASSUME NEW i \in 0 .. task_count - 1
          PROVE  i + 1 \in 1 .. task_count
                 /\ Queue[i + 1] = task_queue[(task_front + i) % Capacity]
        <3>1. i + 1 \in 1 .. task_count /\ task_front + (i + 1) - 1 = task_front + i
            BY <1>3
        <3> QED
            BY <3>1, QueueAt
    <2>2. ASSUME NEW i \in 1 .. task_count
          PROVE  i - 1 \in 0 .. task_count - 1
                 /\ Queue[i] = task_queue[(task_front + (i - 1)) % Capacity]
        <3>1. i - 1 \in 0 .. task_count - 1 /\ task_front + (i - 1) = task_front + i - 1
            BY <1>3
        <3> QED
            BY <3>1, QueueAt
    <2>3. Count(x, Queue) > 0 <=> \E i \in 1 .. task_count : Queue[i] = x
        BY <1>1, CountSome
    <2> QED
        BY <2>1, <2>2, <2>3
<1> QED
    BY <1>2, <1>4 DEF Left

LEMMA AccountJoined ==
    ASSUME InPlace, ItemsAccounted, destroy_joined PROVE ItemsAccounted'
<1>1. TypeOK /\ RingOK /\ frames = <<>> /\ frames' = <<>>
    BY PartsTyped DEF InPlace, LoopAtRest, destroy_joined
<1>2. pool_work' = <<>> /\ Queue' = <<>>
    <2>1. task_count' = 0
        BY DEF destroy_joined
    <2>2. Queue' \in [1 .. 0 -> {}]
        BY <2>1 DEF Queue
    <2>3. Queue' \in Seq({}) /\ Len(Queue') = 0
        BY <2>2, FunctionIsSeq
    <2> QED
        BY <2>3 DEF destroy_joined
<1>3. Serving = <<>> /\ Serving' = <<>>
    <2>1. Depth = 0 /\ Depth' = 0
        BY <1>1 DEF Depth, InLua
    <2>2. Serving \in [1 .. 0 -> {}] /\ Serving' \in [1 .. 0 -> {}]
        BY <2>1 DEF Serving
    <2>3. /\ Serving \in Seq({}) /\ Len(Serving) = 0
          /\ Serving' \in Seq({}) /\ Len(Serving') = 0
        BY <2>2, FunctionIsSeq
    <2> QED
        BY <2>3
<1> SUFFICES ASSUME NEW y \in Items PROVE Total(y)' = Due(y)'
    BY AccountedNext
<1>4. Cardinality(Held(y)) = 0 /\ Cardinality(Held(y)') = 0
    <2>1. \A w \in Workers : item[w] = NoItem
        BY DEF InPlace, IdleHands, destroy_joined
    <2>2. Held(y) = {} /\ Held(y)' = {}
        BY <2>1, WorkPoolAssumption DEF Held, destroy_joined
    <2> QED
        BY <2>2, FS_EmptySet
<1>5. Total(y)' = 0
    BY <1>2, <1>3, <1>4, CountEmpty DEF Total
<1>6. Due(y) = Count(y, pool_work) + Count(y, Queue)
    <2>1. Total(y) = Due(y) /\ Count(y, Serving) = 0
        BY <1>3, AccountedTotal, CountEmpty
    <2> QED
        BY <1>1, <1>4, <2>1, TotalParts DEF Total
<1>7. Due(y)' = 0
    <2>1. outcome'[y] = IF y \in Left THEN "dropped" ELSE outcome[y]
        BY DEF destroy_joined
    <2>2. y \notin Left => Due(y) = 0
        BY <1>1, <1>6, LeftCounted, TotalParts
    <2>3. y \notin Left => outcome[y] # "pending"
        BY <2>2 DEF Due
    <2> QED
        BY <2>1, <2>3 DEF Due
<1> QED
    BY <1>5, <1>7

\* The two facts about idle hands, and the account, from step to step.
LEMMA InPlaceStep == InPlace /\ [Next]_vars => InPlace'
<1> SUFFICES ASSUME InPlace, [Next]_vars PROVE IdleHands' /\ LoopAtRest'
    BY TypeStep, NestedStep, PartsTyped DEF InPlace
<1>1. /\ wpc \in [Workers -> PCs] /\ item \in [Workers -> Items \cup {NoItem}]
      /\ IdleHands /\ LoopAtRest
    BY PartsTyped DEF InPlace, PoolOK
<1>2. CASE \E x \in Items : ev_run_in_pool(x) \/ ev_post_task(x)
    <2>1. \A w \in Workers : wpc'[w] # "work" => wpc[w] # "work"
        BY <1>1, <1>2 DEF ev_run_in_pool, ev_post_task, poolVars, signal_worker
    <2>2. UNCHANGED <<item, frames, phase>>
        BY <1>2 DEF ev_run_in_pool, ev_post_task, poolVars, loopVars
    <2> QED
        BY <1>1, <2>1, <2>2 DEF IdleHands, LoopAtRest
<1>3. CASE \E w \in Workers : worker_take(w)
    <2>1. PICK w \in Workers : worker_take(w)
        BY <1>3
    <2>2. UNCHANGED <<frames, phase>>
        BY <2>1 DEF worker_take, loopVars
    <2>3. IdleHands'
        BY <1>1, <2>1 DEF worker_take, IdleHands
    <2> QED
        BY <1>1, <2>2, <2>3 DEF LoopAtRest
<1>4. CASE \E w \in Workers : worker_complete(w) \/ spurious_wakeup(w)
    BY <1>1, <1>4 DEF worker_complete, spurious_wakeup, IdleHands, LoopAtRest, loopVars
<1>5. CASE ev_loop_run \/ await_sync \/ ev_loop_stop
    BY <1>1, <1>5 DEF ev_loop_run, await_sync, ev_loop_stop, IdleHands, LoopAtRest, poolVars
<1>6. CASE ev_loop_destroy
    BY <1>1, <1>6 DEF ev_loop_destroy, wake_workers, IdleHands, LoopAtRest
<1>7. CASE destroy_joined
    BY <1>1, <1>7 DEF destroy_joined, IdleHands, LoopAtRest
<1>8. CASE pop_task \/ callback_done \/ poll \/ poll_done
    <2>1. frames # <<>> /\ UNCHANGED <<wpc, item, phase>>
        BY <1>8 DEF pop_task, callback_done, poll, poll_done, InLoop, poolVars
    <2> QED
        BY <1>1, <2>1 DEF IdleHands, LoopAtRest
<1>9. CASE UNCHANGED vars
    BY <1>1, <1>9 DEF vars, poolVars, loopVars, IdleHands, LoopAtRest
<1> QED
    BY <1>2, <1>3, <1>4, <1>5, <1>6, <1>7, <1>8, <1>9 DEF Next, Program, Loop, Worker

LEMMA AccountStep == InPlace /\ ItemsAccounted /\ [Next]_vars => ItemsAccounted'
<1> SUFFICES ASSUME InPlace, ItemsAccounted, [Next]_vars PROVE ItemsAccounted'
    OBVIOUS
<1>1. TypeOK' /\ LoopOK /\ Nested
    BY TypeStep, PartsTyped DEF InPlace
<1>2. CASE \E x \in Items : ev_run_in_pool(x) \/ ev_post_task(x)
    BY <1>1, <1>2, AccountSubmit, AccountPost
<1>3. CASE \E w \in Workers : worker_take(w) \/ worker_complete(w)
    BY <1>1, <1>3, AccountTake, AccountComplete
<1>4. CASE pop_task
    BY <1>1, <1>4, AccountCall
<1>5. CASE callback_done
    BY <1>5, AccountReturn
<1>6. CASE destroy_joined
    BY <1>6, AccountJoined
<1>7. CASE ev_loop_run \/ await_sync \/ poll \/ poll_done
    BY <1>1, <1>7, AccountSame, SameQueue, ServingElsewhere
    DEF ev_loop_run, await_sync, poll, poll_done, poolVars
<1>8. CASE ev_loop_stop \/ ev_loop_destroy
    BY <1>8, AccountSame, SameQueue, SameServing DEF ev_loop_stop, ev_loop_destroy, poolVars
<1>9. CASE \E w \in Workers : spurious_wakeup(w)
    BY <1>9, AccountSame, SameQueue, SameServing DEF spurious_wakeup, loopVars
<1>10. CASE UNCHANGED vars
    BY <1>10, AccountSame, SameQueue, SameServing DEF vars, poolVars, loopVars
<1> QED
    BY <1>2, <1>3, <1>4, <1>5, <1>6, <1>7, <1>8, <1>9, <1>10 DEF Next, Program, Loop, Worker

LEMMA AccountInit == Init => InPlace /\ ItemsAccounted
<1> SUFFICES ASSUME Init PROVE InPlace /\ ItemsAccounted
    OBVIOUS
<1>1. TypeOK /\ Nested
    BY TypeInit, RefineInit
<1>2. IdleHands /\ LoopAtRest
    BY DEF Init, IdleHands, LoopAtRest
<1>3. Queue = <<>> /\ Serving = <<>>
    BY RefineInit DEF Abs!Init
<1>4. \A x \in Items : Held(x) = {} /\ Due(x) = 0
    BY WorkPoolAssumption DEF Init, Held, Due
<1>5. ASSUME NEW x \in Items PROVE Total(x) = 0
    <2>1. pool_work = <<>> /\ Count(x, <<>>) = 0
        BY CountEmpty DEF Init
    <2>2. Cardinality(Held(x)) = 0
        BY <1>4, FS_EmptySet
    <2> QED
        BY <1>3, <2>1, <2>2 DEF Total
<1> QED
    BY <1>1, <1>2, <1>4, <1>5, AccountedTotal DEF InPlace

\* An item that has been accepted and is not over is in the pool's list, with a
\* worker, in the ring or in a callback: once, and nowhere else. None is run
\* twice, and none vanishes without being reported done, lost or dropped.
THEOREM WorkPoolItemsAccounted == Spec => []ItemsAccounted
<1> QED
    BY AccountInit, InPlaceStep, AccountStep, PTL DEF Spec
=============================================================================
