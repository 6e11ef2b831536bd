------------------------------ MODULE WorkPool ------------------------------
(***************************************************************************)
(* The event loop (src/src/utils/leventloop.c) between its pool of worker  *)
(* threads and its ring of posted tasks. ev_run_in_pool hands a work item  *)
(* to the pool; the worker that has run it posts its completion to the     *)
(* ring; the thread that drives the loop calls it. Any thread may submit   *)
(* and post at any time; one thread drives and destroys the loop.          *)
(*                                                                         *)
(* Grain: a section under task_lock or pool_lock is one action. Timers are *)
(* in module Timers; here they only decide whether a poll ends by itself.  *)
(***************************************************************************)
EXTENDS Naturals, Sequences, FiniteSets, SequencesExt

CONSTANTS
    Workers,        \* the threads of the pool
    Items,          \* work items and posted tasks, each used once
    Capacity,       \* loop->task_capacity
    TimersPending,  \* there is always a timer: every poll comes to an end
    MaxNest,        \* bound: iterations inside one another
    NoItem

ASSUME WorkPoolAssumption ==
    /\ Capacity \in Nat \ {0} /\ MaxNest \in Nat
    /\ IsFiniteSet(Workers)
    /\ TimersPending \in BOOLEAN
    /\ NoItem \notin Items

VARIABLES
    task_queue, task_front, task_rear, task_count,  \* the ring
    pool_work,      \* the pool's list of work items
    pool_running,   \* loop->pool_running
    wpc,            \* wpc[w]: where worker w is
    item,           \* item[w]: the work item w holds
    state,          \* loop->state
    frames,         \* the calls of ev_loop_iterate, the innermost last
    phase,          \* of the loop's life: "open", "joining", "freed"
    outcome         \* outcome[x]: what became of x

ringVars == <<task_queue, task_front, task_rear, task_count>>
poolVars == <<pool_work, pool_running, wpc, item>>
loopVars == <<state, frames, phase>>
vars == <<ringVars, poolVars, loopVars, outcome>>

Frame(for) == [pc |-> "tasks", for |-> for, cur |-> NoItem]
Top == Last(frames)
InLoop(pc) == frames # <<>> /\ Top.pc = pc
InLua == frames # <<>> => Top.pc = "callback"

\* ev_loop_new, with the pool or without it (EV_CONFIG_NO_THREADS).
Init ==
    /\ task_queue = [i \in 0 .. Capacity - 1 |-> NoItem]
    /\ task_front = 0 /\ task_rear = 0 /\ task_count = 0
    /\ pool_work = <<>>
    /\ pool_running \in BOOLEAN
    /\ wpc = [w \in Workers |-> IF pool_running THEN "start" ELSE "exited"]
    /\ item = [w \in Workers |-> NoItem]
    /\ state = "stopped"
    /\ frames = <<>>
    /\ phase = "open"
    /\ outcome = [x \in Items |-> "unused"]

----------------------------------------------------------------------------
\* task_queue_push. (Mutants: the ring may overwrite its first task; the rear
\* stays where it was.)
Full_never == FALSE
Full == task_count >= Capacity
Push_in_place(x) ==
    /\ task_queue' = [task_queue EXCEPT ![task_rear] = x]
    /\ task_count' = task_count + 1
    /\ UNCHANGED <<task_front, task_rear>>
Push(x) ==
    /\ task_queue' = [task_queue EXCEPT ![task_rear] = x]
    /\ task_rear' = (task_rear + 1) % Capacity
    /\ task_count' = task_count + 1
    /\ UNCHANGED task_front

\* ev_post_task, ev_post_delayed: -1 when the ring is full. The time a delayed
\* task is to run at goes into the ring with it, and is read by nobody.
ev_post_task(x) ==
    /\ phase = "open"
    /\ outcome[x] = "unused"
    /\ \/ Full /\ outcome' = [outcome EXCEPT ![x] = "refused"] /\ UNCHANGED ringVars
       \/ ~Full /\ outcome' = [outcome EXCEPT ![x] = "pending"] /\ Push(x)
    /\ UNCHANGED <<poolVars, loopVars>>

\* l_cond_signal: it wakes one waiting worker, if there is one. (Mutant: no
\* signal.)
signal_worker_never == UNCHANGED wpc
signal_worker ==
    IF \E w \in Workers : wpc[w] = "wait"
    THEN \E w \in Workers : wpc[w] = "wait" /\ wpc' = [wpc EXCEPT ![w] = "woken"]
    ELSE UNCHANGED wpc

\* Without the pool the work and its completion run here and now.
ev_run_in_pool(x) ==
    /\ phase = "open"
    /\ outcome[x] = "unused"
    /\ \/ /\ pool_running
          /\ pool_work' = Append(pool_work, x)
          /\ signal_worker
          /\ outcome' = [outcome EXCEPT ![x] = "pending"]
       \/ /\ ~pool_running
          /\ outcome' = [outcome EXCEPT ![x] = "done"]
          /\ UNCHANGED <<pool_work, wpc>>
    /\ UNCHANGED <<ringVars, pool_running, item, loopVars>>

----------------------------------------------------------------------------
\* pool_worker_thread, from l_mutex_lock to l_mutex_unlock or l_cond_wait.
worker_take(w) ==
    /\ wpc[w] \in {"start", "woken"}
    /\ \/ /\ pool_running /\ pool_work = <<>>
          /\ wpc' = [wpc EXCEPT ![w] = "wait"]
          /\ UNCHANGED <<pool_work, item>>
       \/ /\ ~pool_running
          /\ wpc' = [wpc EXCEPT ![w] = "exited"]
          /\ UNCHANGED <<pool_work, item>>
       \/ /\ pool_running /\ pool_work # <<>>
          /\ wpc' = [wpc EXCEPT ![w] = "work"]
          /\ item' = [item EXCEPT ![w] = Head(pool_work)]
          /\ pool_work' = Tail(pool_work)
    /\ UNCHANGED <<ringVars, pool_running, loopVars, outcome>>

\* work_func has returned; ev_post_callback posts the completion, and its answer
\* is not looked at.
worker_complete(w) ==
    /\ wpc[w] = "work"
    /\ wpc' = [wpc EXCEPT ![w] = "start"]
    /\ item' = [item EXCEPT ![w] = NoItem]
    /\ \/ Full /\ outcome' = [outcome EXCEPT ![item[w]] = "lost"] /\ UNCHANGED ringVars
       \/ ~Full /\ Push(item[w]) /\ UNCHANGED outcome
    /\ UNCHANGED <<pool_work, pool_running, loopVars>>

\* pthread_cond_wait may return without a signal.
spurious_wakeup(w) ==
    /\ wpc[w] = "wait"
    /\ wpc' = [wpc EXCEPT ![w] = "woken"]
    /\ UNCHANGED <<ringVars, pool_work, pool_running, item, loopVars, outcome>>
----------------------------------------------------------------------------
\* The thread of the loop, in Lua code: run it, or one iteration of it
\* (promise_await_sync), also from a callback.
ev_loop_run ==
    /\ phase = "open" /\ InLua
    /\ state # "running"
    /\ Len(frames) < MaxNest
    /\ state' = "running"
    /\ frames' = Append(frames, Frame("run"))
    /\ UNCHANGED <<ringVars, poolVars, phase, outcome>>

await_sync ==
    /\ phase = "open" /\ InLua
    /\ Len(frames) < MaxNest
    /\ frames' = Append(frames, Frame("await"))
    /\ UNCHANGED <<ringVars, poolVars, state, phase, outcome>>

\* From any thread.
ev_loop_stop ==
    /\ phase = "open"
    /\ state = "running"
    /\ state' = "stopped"
    /\ UNCHANGED <<ringVars, poolVars, frames, phase, outcome>>
----------------------------------------------------------------------------
\* ev_loop_iterate: task_queue_pop, and the callback runs without the lock.
pop_task ==
    /\ InLoop("tasks")
    /\ task_count > 0
    /\ frames' = [frames EXCEPT ![Len(frames)].pc = "callback",
                                ![Len(frames)].cur = task_queue[task_front]]
    /\ task_front' = (task_front + 1) % Capacity
    /\ task_count' = task_count - 1
    /\ UNCHANGED <<task_queue, task_rear, poolVars, state, phase, outcome>>

callback_done ==
    /\ InLoop("callback")
    /\ outcome' = [outcome EXCEPT ![Top.cur] = "done"]
    /\ frames' = [frames EXCEPT ![Len(frames)].pc = "tasks", ![Len(frames)].cur = NoItem]
    /\ UNCHANGED <<ringVars, poolVars, state, phase>>

\* The ring is empty: poll for I/O, until the next timer.
poll ==
    /\ InLoop("tasks")
    /\ task_count = 0
    /\ frames' = [frames EXCEPT ![Len(frames)].pc = "poll"]
    /\ UNCHANGED <<ringVars, poolVars, state, phase, outcome>>

\* (Mutant: a run polls again without a look at the ring.)
poll_done_again ==
    /\ InLoop("poll")
    /\ Top.for = "run" => TimersPending
    /\ frames' = IF Top.for = "run" /\ state = "running" THEN frames ELSE Front(frames)
    /\ UNCHANGED <<ringVars, poolVars, state, phase, outcome>>
poll_done ==
    /\ InLoop("poll")
    /\ Top.for = "run" => TimersPending
    /\ frames' = IF Top.for = "run" /\ state = "running"
                 THEN [frames EXCEPT ![Len(frames)].pc = "tasks"] ELSE Front(frames)
    /\ UNCHANGED <<ringVars, poolVars, state, phase, outcome>>

\* ev_loop_destroy: stop the workers. (Mutant: only one waiting worker is woken.)
wake_one_worker == signal_worker
wake_workers == wpc' = [w \in Workers |-> IF wpc[w] = "wait" THEN "woken" ELSE wpc[w]]
ev_loop_destroy ==
    /\ phase = "open" /\ frames = <<>>
    /\ pool_running' = FALSE
    /\ wake_workers
    /\ phase' = "joining"
    /\ UNCHANGED <<ringVars, pool_work, item, state, frames, outcome>>

\* All workers joined: what is left in the list and in the ring is freed.
Left == ToSet(pool_work) \cup {task_queue[(task_front + i) % Capacity] : i \in 0 .. task_count - 1}
destroy_joined ==
    /\ phase = "joining"
    /\ \A w \in Workers : wpc[w] = "exited"
    /\ phase' = "freed"
    /\ outcome' = [x \in Items |-> IF x \in Left THEN "dropped" ELSE outcome[x]]
    /\ pool_work' = <<>>
    /\ task_count' = 0 /\ task_front' = task_rear
    /\ UNCHANGED <<task_queue, task_rear, pool_running, wpc, item, state, frames>>
----------------------------------------------------------------------------
Program ==
    \/ \E x \in Items : ev_run_in_pool(x) \/ ev_post_task(x)
    \/ ev_loop_run \/ await_sync \/ ev_loop_stop \/ ev_loop_destroy

Worker(w) == worker_take(w) \/ worker_complete(w)
Loop == pop_task \/ callback_done \/ poll \/ poll_done \/ destroy_joined

Next ==
    \/ Program \/ Loop
    \/ \E w \in Workers : Worker(w) \/ spurious_wakeup(w)

Spec == Init /\ [][Next]_vars

\* The operating system runs every thread; work and callbacks return.
FairSpec == Spec /\ WF_vars(Loop) /\ \A w \in Workers : WF_vars(Worker(w))
----------------------------------------------------------------------------
(***************************************************************************)
(* Properties.                                                             *)
(***************************************************************************)
TypeOK ==
    /\ task_queue \in [0 .. Capacity - 1 -> Items \cup {NoItem}]
    /\ task_front \in 0 .. Capacity - 1 /\ task_rear \in 0 .. Capacity - 1
    /\ task_count \in 0 .. Capacity
    /\ task_rear = (task_front + task_count) % Capacity
    /\ pool_work \in Seq(Items)
    /\ pool_running \in BOOLEAN
    /\ wpc \in [Workers -> {"start", "wait", "woken", "work", "exited"}]
    /\ item \in [Workers -> Items \cup {NoItem}]
    /\ \A w \in Workers : wpc[w] = "work" => item[w] # NoItem
    /\ state \in {"running", "stopped"}
    /\ frames \in Seq([pc : {"tasks", "callback", "poll"}, for : {"run", "await"},
                       cur : Items \cup {NoItem}])
    /\ phase \in {"open", "joining", "freed"}
    /\ outcome \in [Items -> {"unused", "pending", "refused", "lost", "done", "dropped"}]

\* The ring as a sequence, and the tasks that are being called: one in each
\* iteration but the innermost, which may be doing something else.
Queue == [i \in 1 .. task_count |-> task_queue[(task_front + i - 1) % Capacity]]
Depth == IF InLua THEN Len(frames) ELSE Len(frames) - 1
Serving == [i \in 1 .. Depth |-> frames[i].cur]

Count(x, s) == Cardinality({i \in DOMAIN s : s[i] = x})

\* What has been submitted and is not over is in one place and only there: the
\* pool's list, a worker, the ring, or a callback. Nothing is run twice and
\* nothing vanishes on the way, when loops nest and when the loop is destroyed.
ItemsAccounted ==
    \A x \in Items :
        Count(x, pool_work) + Cardinality({w \in Workers : item[w] = x})
            + Count(x, Queue) + Count(x, Serving)
        = IF outcome[x] = "pending" THEN 1 ELSE 0

\* While workers wait, no more items wait than workers are on their way to take
\* them.
Coming == {w \in Workers : wpc[w] \in {"start", "woken"}}
NoIdleBacklog ==
    (\E w \in Workers : wpc[w] = "wait") => Len(pool_work) <= Cardinality(Coming)

\* Tasks are called in the order they were posted in, across the ring's end.
Abs == INSTANCE TaskQueueAbs WITH queue <- Queue, serving <- Serving
RefinesTaskQueueAbs == Abs!Spec

\* An item of the pool's list gets run, unless the loop is destroyed.
WorkGetsRun == \A x \in Items : x \in ToSet(pool_work) ~> x \notin ToSet(pool_work)

\* ev_loop_destroy returns, whatever the workers were doing.
DestroyReturns == phase = "joining" ~> phase = "freed"

\* With a timer pending, what is in the ring gets called while the loop runs.
CompletionRuns ==
    \A x \in Items :
        x \in ToSet(Queue) /\ InLoop("poll") /\ state = "running" ~>
            x \notin ToSet(Queue) \/ state # "running"

\* "将阻塞操作放到工作线程中执行，完成后通过回调通知主线程。" (leventloop.h:431): once a
\* worker of the pool is at work on an item, its completion is called while the loop runs.
PoolCompletionRuns ==
    \A x \in Items :
        pool_running /\ (\E w \in Workers : item[w] = x) /\ state = "running" ~>
            outcome[x] # "pending" \/ state # "running"
=============================================================================
