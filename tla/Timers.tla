------------------------------- MODULE Timers -------------------------------
(***************************************************************************)
(* The timers of an event loop (src/src/utils/leventloop.c) as Lua code    *)
(* uses them (src/src/utils/laio.c): asyncio.sleep, setInterval and        *)
(* clearInterval, and the direct users of the C interface.                 *)
(*                                                                         *)
(* One thread runs the loop and all its callbacks. Lua code runs outside   *)
(* the loop, in a posted task, or in the callback of a timer; it may then  *)
(* start, stop and renew timers, stop the loop, drive one iteration itself *)
(* (promise:await_sync), or run the loop unless it is running: both nest.  *)
(* Time passes at any point.                                               *)
(*                                                                         *)
(* Grain: what happens between two moments at which Lua code may run is one*)
(* action. A tick is the millisecond to which the poll rounds.             *)
(***************************************************************************)
EXTENDS Heap

CONSTANTS
    Names,      \* the timers programs create
    Delays,     \* the delays and intervals they ask for
    Capacity,   \* loop->timer_capacity
    Interfaces, \* who creates timers: "c", "lua"
    MaxClock,   \* bound: how far time goes
    MaxBusy,    \* bound: the part of it that passes while no poll sleeps
    MaxNest,    \* bound: iterations inside one another
    MaxOps,     \* bound: calls Lua code makes
    NoName

ASSUME TimersAssumption ==
    /\ Delays \subseteq Nat \ {0}
    /\ Capacity \in Nat /\ MaxClock \in Nat \ {0} /\ MaxBusy \in Nat /\ MaxNest \in Nat /\ MaxOps \in Nat
    /\ Interfaces \subseteq {"c", "lua"}
    /\ NoName \notin Names

VARIABLES
    clock,          \* monotonic time
    busy,           \* the part of it that passed while no poll slept
    start_time,     \* loop->start_time
    state,          \* loop->state
    timer_heap,     \* loop->timer_heap
    next_timer_id,  \* loop->next_timer_id
    frames,         \* the calls of ev_loop_iterate, the innermost last
    id,             \* id[n]: the id field of n's struct
    context,        \* context[n]: n's callback context, with its remaining_times
    due,            \* due[n]: the moment n was asked to run at first, 0 for none
    cleared,        \* the timers that were stopped through their id
    ops             \* calls Lua code has made

vars == <<clock, busy, start_time, state, timer_heap, next_timer_id, frames, id,
          context, due, cleared, ops>>

EV_TIMER_INVALID == -1

\* ev_loop_now
now == clock - start_time

\* A timer as the heap holds it, and a context as its creator allocates it.
Timer(n, i, timeout, repeat) == [name |-> n, id |-> i, timeout |-> timeout, repeat |-> repeat]
NoTimer == Timer(NoName, EV_TIMER_INVALID, 0, 0)
NoContext == [kind |-> "none", repeat |-> 0, times |-> 0, freed |-> FALSE]
Context(kind, repeat, times) ==
    [kind |-> kind, repeat |-> repeat, times |-> times, freed |-> FALSE]

\* One call of ev_loop_iterate: at "tasks" and at "callback" it runs Lua code.
\* now is the time it read when it started, wake the end of its poll; origin is
\* history: the start of the loop that now is counted from.
Frame(for) ==
    [pc |-> "tasks", for |-> for, now |-> now, origin |-> start_time, cur |-> NoTimer, wake |-> 0]
Never == MaxClock + 1   \* the poll without a timeout

Top == Last(frames)
InLua == frames # <<>> => Top.pc \in {"tasks", "callback"}
InLoop(pc) == frames # <<>> /\ Top.pc = pc
Sleeping == InLoop("poll") /\ clock < Top.wake
Goto(pc) == frames' = [frames EXCEPT ![Len(frames)].pc = pc]

\* Lua code makes a call.
Call ==
    /\ InLua
    /\ ops < MaxOps
    /\ ops' = ops + 1

Init ==
    /\ clock = 1 /\ busy = 0 /\ start_time = 0
    /\ state = "stopped"
    /\ timer_heap = <<>>
    /\ next_timer_id = 1
    /\ frames = <<>>
    /\ id = [n \in Names |-> EV_TIMER_INVALID]
    /\ context = [n \in Names |-> NoContext]
    /\ due = [n \in Names |-> 0]
    /\ cleared = {}
    /\ ops = 0

Tick ==
    /\ clock < MaxClock
    /\ ~Sleeping => busy < MaxBusy
    /\ clock' = clock + 1
    /\ busy' = IF Sleeping THEN busy ELSE busy + 1
    /\ UNCHANGED <<start_time, state, timer_heap, next_timer_id, frames, id,
                   context, due, cleared, ops>>
----------------------------------------------------------------------------
\* ev_timer_start: a new id only when the struct holds EV_TIMER_INVALID, and
\* nothing at all when the heap is full.
ev_timer_start(heap, timer) ==
    LET i == IF timer.id = EV_TIMER_INVALID THEN next_timer_id ELSE timer.id
    IN  IF Len(heap) >= Capacity
        THEN /\ timer_heap' = heap
             /\ id' = [id EXCEPT ![timer.name] = timer.id]
             /\ UNCHANGED next_timer_id
        ELSE /\ timer_heap' = Insert(heap, [timer EXCEPT !.id = i])
             /\ next_timer_id' = IF timer.id = i THEN next_timer_id ELSE next_timer_id + 1
             /\ id' = [id EXCEPT ![timer.name] = i]

\* The heap after ev_timer_stop_by_id. (Mutant: the last one is dropped.)
Stopped_last(heap, i) == IF Find(heap, i) = 0 THEN heap ELSE Front(heap)
Stopped(heap, i) == IF Find(heap, i) = 0 THEN heap ELSE Delete(heap, Find(heap, i))

\* A program starts n, to run after d and, if it is an interval, every d.
create(n, d, ctx, first_id) ==
    /\ Call
    /\ context[n].kind = "none"
    /\ ev_timer_start(timer_heap, Timer(n, first_id, now + d, ctx.repeat))
    /\ context' = [context EXCEPT ![n] = ctx]
    /\ due' = [due EXCEPT ![n] = clock + d]
    /\ UNCHANGED <<clock, busy, start_time, state, frames, cleared>>

\* laio.c clears the whole struct, the id included.
aio_sleep(n, d) == create(n, d, Context("sleep", 0, 0), 0)
aio_set_interval(n, d, times) == create(n, d, Context("interval", d, times), 0)

\* A user of leventloop.h leaves the id to the loop.
c_timer(n, d, repeat) == create(n, d, Context("c", repeat, 0), EV_TIMER_INVALID)

ev_timer_stop_by_id(n) ==
    /\ Call
    /\ context[n].kind \in {"interval", "c"}
    /\ timer_heap' = Stopped(timer_heap, id[n])
    /\ cleared' = cleared \cup {n}
    /\ UNCHANGED <<clock, busy, start_time, state, next_timer_id, frames, id, context, due>>

ev_timer_again(n, d) ==
    LET i == Find(timer_heap, id[n])
    IN  /\ Call
        /\ context[n].kind = "c" /\ i # 0
        /\ timer_heap' = Retime(timer_heap, i, now + d)
        /\ due' = [due EXCEPT ![n] = clock + d]
        /\ UNCHANGED <<clock, busy, start_time, state, next_timer_id, frames, id, context, cleared>>

ev_loop_stop ==
    /\ Call
    /\ state' = "stopped"
    /\ UNCHANGED <<clock, busy, start_time, timer_heap, next_timer_id, frames, id, context, due, cleared>>

\* The loop's time starts again, under the iterations it is called in.
ev_loop_run ==
    /\ Call
    /\ state # "running" /\ Len(frames) < MaxNest
    /\ state' = "running"
    /\ start_time' = clock
    /\ frames' = Append(frames, [Frame("run") EXCEPT !.now = 0, !.origin = clock])
    /\ UNCHANGED <<clock, busy, timer_heap, next_timer_id, id, context, due, cleared>>

\* promise_await_sync: one iteration that does not wait.
await_sync ==
    /\ Call
    /\ Len(frames) < MaxNest
    /\ frames' = Append(frames, Frame("await"))
    /\ UNCHANGED <<clock, busy, start_time, state, timer_heap, next_timer_id, id, context, due, cleared>>
----------------------------------------------------------------------------
\* ev_loop_iterate. The posted tasks have run.
tasks_done ==
    /\ InLoop("tasks")
    /\ Goto("timers")
    /\ UNCHANGED <<clock, busy, start_time, state, timer_heap, next_timer_id, id, context,
                   due, cleared, ops>>

\* The first timer is due: it leaves the heap, and its callback starts.
\* (Mutant: with an absolute timeout compared to the clock.)
expired_absolute(timer) == timer.timeout <= clock
expired(timer) == timer.timeout <= Top.now

fire ==
    /\ InLoop("timers")
    /\ timer_heap # <<>>
    /\ expired(timer_heap[1])
    /\ timer_heap' = Pop(timer_heap)
    /\ frames' = [frames EXCEPT ![Len(frames)].pc = "callback", ![Len(frames)].cur = timer_heap[1]]
    /\ UNCHANGED <<clock, busy, start_time, state, next_timer_id, id, context, due, cleared, ops>>

\* The Lua code of the callback returns. An interval counts it; after the last
\* one it stops its timer and frees its context. Then the loop puts a periodic
\* timer back.
callback_done ==
    LET timer == Top.cur
        ctx == context[timer.name]
        last == ctx.kind = "interval" /\ ctx.times = 1
        heap == IF last THEN Stopped(timer_heap, timer.id) ELSE timer_heap
    IN  /\ InLoop("callback")
        /\ Goto("timers")
        /\ context' = [context EXCEPT ![timer.name] =
                        [ctx EXCEPT !.freed = ctx.freed \/ last, !.times = IF @ > 0 THEN @ - 1 ELSE @]]
        /\ \/ /\ timer.repeat > 0
              /\ ev_timer_start(heap, [timer EXCEPT !.timeout = Top.now + timer.repeat])
              /\ due' = [due EXCEPT ![timer.name] = 0]
           \/ /\ timer.repeat = 0
              /\ timer_heap' = heap
              /\ UNCHANGED <<next_timer_id, id, due>>
        /\ UNCHANGED <<clock, busy, start_time, state, cleared, ops>>

\* No timer is due: wait for the first one, or for ever in a run without timers.
\* (Mutant: the wait is computed from the last timer of the array.)
first_timeout_of_last == Last(timer_heap).timeout
first_timeout == timer_heap[1].timeout

poll ==
    /\ InLoop("timers")
    /\ timer_heap # <<>> => ~expired(timer_heap[1])
    /\ frames' = [frames EXCEPT ![Len(frames)].pc = "poll", ![Len(frames)].wake =
        CASE Top.for = "await" -> clock
          [] Top.for = "run" /\ timer_heap = <<>> -> Never
          [] OTHER -> clock + (first_timeout - Top.now)]
    /\ UNCHANGED <<clock, busy, start_time, state, timer_heap, next_timer_id, id, context,
                   due, cleared, ops>>

\* The poll is over: the next iteration of the run, or the end of this one.
poll_done ==
    /\ InLoop("poll")
    /\ clock >= Top.wake
    /\ frames' = IF Top.for = "run" /\ state = "running"
                 THEN Append(Front(frames), Frame("run")) ELSE Front(frames)
    /\ UNCHANGED <<clock, busy, start_time, state, timer_heap, next_timer_id, id, context,
                   due, cleared, ops>>
----------------------------------------------------------------------------
Program ==
    \/ \E n \in Names, d \in Delays :
        \/ "lua" \in Interfaces /\ (aio_sleep(n, d) \/ \E times \in {0, 1} : aio_set_interval(n, d, times))
        \/ "c" \in Interfaces /\ (ev_timer_again(n, d) \/ \E repeat \in {0, d} : c_timer(n, d, repeat))
    \/ \E n \in Names : ev_timer_stop_by_id(n)
    \/ ev_loop_stop \/ ev_loop_run \/ await_sync

Iterate == tasks_done \/ fire \/ callback_done \/ poll \/ poll_done

Next == Program \/ Iterate \/ Tick

Spec == Init /\ [][Next]_vars

\* Callbacks return, the thread of the loop goes on, and time passes.
FairSpec == Spec /\ WF_vars(Iterate) /\ WF_vars(Tick)
----------------------------------------------------------------------------
(***************************************************************************)
(* Properties.                                                             *)
(***************************************************************************)
TimerType ==
    [name : Names \cup {NoName}, id : Int, timeout : Nat, repeat : Delays \cup {0}]

TypeOK ==
    /\ clock \in 1 .. MaxClock /\ busy \in 0 .. MaxBusy /\ start_time \in 0 .. clock
    /\ state \in {"running", "stopped"}
    /\ timer_heap \in Seq(TimerType) /\ Len(timer_heap) <= Capacity
    /\ \A i, j \in DOMAIN timer_heap : timer_heap[i].name = timer_heap[j].name => i = j
    /\ next_timer_id \in Nat
    /\ frames \in Seq([pc : {"tasks", "timers", "callback", "poll"}, for : {"run", "await"},
                       now : Nat, origin : Nat, cur : TimerType, wake : Nat])
    /\ id \in [Names -> Int]
    /\ context \in [Names -> [kind : {"none", "sleep", "interval", "c"}, repeat : Nat,
                             times : Nat, freed : BOOLEAN]]
    /\ due \in [Names -> Nat]
    /\ cleared \subseteq Names
    /\ ops \in 0 .. MaxOps

\* The heap stays ordered, whichever timers start, end, are stopped and renewed
\* inside the callback of another one.
HeapOrdered == Ordered(timer_heap)

\* A timer's first run comes before its delay is over in one case only: in an
\* iteration that has called, in a callback of its own, for a run of the loop, and
\* goes on with the time it read before that. However else the loop is driven and
\* restarted between the start of a timer and its run, it waits long enough.
Early(f) == f.pc = "callback" /\ \E n \in Names : n = f.cur.name /\ due[n] > clock
NeverEarly == \A i \in DOMAIN frames : Early(frames[i]) => frames[i].origin < start_time

\* While the loop runs, a timer does not wait for ever for its moment: it runs,
\* is stopped, or gets another one. (Moments so late that the time the loop
\* may lose would carry them past the bound are not asked about.)
Waits(n, t) ==
    \E i \in DOMAIN timer_heap :
        timer_heap[i].name = n /\ timer_heap[i].timeout + start_time = t
DueTimersLeave ==
    \A n \in Names, t \in 1 .. MaxClock - MaxBusy :
        Waits(n, t) /\ state = "running" ~> ~Waits(n, t) \/ state # "running"

\* A periodic timer of the C interface that nobody stopped is pending, or in its callback: neither
\* the calls of its own callback, nor nested iterations, nor the end of other
\* timers make it stop. (It needs a place in the heap to go back to.)
PeriodicGoesOn ==
    \A n \in Names :
        context[n].kind = "c" /\ context[n].repeat > 0 /\ n \notin cleared =>
            \/ \E i \in DOMAIN timer_heap : timer_heap[i].name = n
            \/ \E i \in DOMAIN frames : frames[i].pc = "callback" /\ frames[i].cur.name = n
=============================================================================
