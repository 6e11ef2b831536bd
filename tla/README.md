# LXCLUA-NCore in TLA+

A verification project for the concurrent core of LXCLUA-NCore, a fork of Lua
5.5 with native threads, channels, shared tables, an event loop, promises and
async functions. The interpreter proper (compiler, virtual machine, standard
libraries) is sequential and close to Lua's own; what this fork adds, and what
tests hardly reach, is the code in which several threads or callbacks meet.
That code is what the modules here model.

Paths below are relative to the repository; the sources live in `src/src/`.

## Inventory

| Component | Source | State | Operations | Hard part | What makes it correct |
|---|---|---|---|---|---|
| Channels and `pick` | `stdlib/lthreadlib.c` | per channel: mutex, condition variable, list of registry references, `closed`, list of listeners; per pick: a selector on the C stack | `send`, `try_send`, `receive`, `try_recv`, `peek`, `close`, `__gc`, `pick` | wake-ups, stealing between receivers and picks, listeners that point into another thread's stack, timeouts | FIFO, each message delivered once and anchored while in flight, no lost wake-up, no listener outlives its selector, close releases everybody |
| Thread handles | `stdlib/lthreadlib.c`, `utils/lthread.c` | native thread, coroutine state anchored in the registry, `joined`, `detached`, `has_error` | `create`, `createx`, `join`, `detach`, `self`, `__gc` | the native thread, the handle and the state have different lifetimes; join blocks between its check and its update | a running thread's state is never collected; a thread is joined once |
| Table locks | `utils/lthread.c`, `core/lapi.c`, `vm/lvm.c`, `stdlib/ltablib.c` | a global recursive mutex around the core, a read/write lock with writer recursion in every table | raw and VM access, `table.insert`, `table.remove`, `table.share` | two locks taken in either order, errors thrown while a lock is held, the reader's check of the writer's id without a lock | mutual exclusion, every acquisition released, no circular wait |
| Event loop (ring, pool, timers, watchers) | `utils/leventloop.c` | ring of posted tasks, timer heap, watchers, worker pool and its queue | `post`, timers, `run`, `stop`, `run_in_pool`, `destroy` | completions posted from workers while the loop sleeps in the poll, full queues, a stop from outside | every submitted work item completes once, timers run when due, `stop` stops |
| Promises and async I/O | `utils/lpromise.c`, `utils/laio.c` | state, reactions, reference count, one `on_settled` slot; coroutines suspended in `await` | `resolve`, `reject`, `then`, `catch`, `finally`, combinators, `await` | chaining, several consumers of one promise, settlement from callbacks | settled once, every consumer told once, chains settle |
| Registry references | `core/lauxlib.c` | free list inside the registry table | `luaL_ref`, `luaL_unref` | the free list is read and written in separately locked calls | a reference is never handed out twice |
| Memory pool | `core/lmem.c` | per-class free lists, counters, collector debt | allocate, free, shrink | shared by threads under one mutex | a block is in one list or in use; nothing in the sources allocates from it |
| Collector | `core/lgc.c` | colours, grey lists, phases, generations | mark, sweep, barriers, finalizers | incremental steps interleave with the mutator | no reachable object is collected |
| Coroutines and calls | `core/ldo.c`, `stdlib/lcorolib.c` | call infos, status, error jumps | resume, yield, close, error | re-entrancy, errors across C boundaries | status transitions, unwinding |
| Tables, strings, maps | `core/ltable.c`, `core/lstring.c`, `core/lmap.c` | array and hash parts, string table | get, set, rehash, next | rehash during iteration | lookups find what was stored |
| Compiler | `compiler/` | lexer, parser, code generator state | source to bytecode | size and register limits | sequential; a translation, not a protocol |
| Virtual machines | `vm/` | registers, frames | execute | table access under locks (see table locks) | sequential apart from the locks |
| Standard libraries | `stdlib/` other than threads | none of their own, mostly | strings, classes, structs, pointers, … | — | sequential |
| Cryptography, JSON, HTTP, archives | `utils/` | buffers | pure functions and I/O | — | conversions |
| Language server, wasm backend, tools | `lspsrv/`, `lua2wasm/`, `wasm/`, `bin/`, `tools/` | documents, modules | protocol handlers, translators | — | separate programs |
| Vendored code | `pcre2/`, `quickjs/`, `wasm/` (wasm3) | — | — | — | third party |

Components interact as follows. A Lua thread runs the virtual machine with the
global mutex held and gives it up around every C function; a C function takes
it again for the duration of each API call. Channels, thread handles and the
event loop are C libraries: between two API calls they run without the global
mutex, protected only by locks of their own. Messages and thread states are
kept alive through registry references. The event loop's pool workers are plain
native threads that hand results back by posting a task to the loop; promises
are settled by such tasks or by Lua code, and settling one resumes the
coroutines that await it.

## Modules

| Module | Models | Proofs | TLC |
|---|---|---|---|
| `Channel`, `ChannelAbs` | channels and `thread.pick` | `ChannelProofs` | `MCChannel` |
| `ChannelRefs` | the registry references behind a channel's elements | | `MCChannelRefs` |
| `RwLock`, `RwLockAbs` | the read/write lock of a table | `RwLockProofs` | `MCRwLock` |
| `TableLock`, `TableAbs` | shared tables between the global lock and the table's | `TableLockProofs` | `MCTableLock` |
| `Heap`, `TimerHeap`, `TimersAbs` | the timer heap as a data structure | `TimersProofs` | `MCTimerHeap` |
| `Timers` (uses `Heap`) | timers under the loop, with time | `TimersProofs` | `MCTimers` |
| `WorkPool`, `TaskQueueAbs` | ring of tasks, worker pool, stop, destroy | `WorkPoolProofs` | `MCWorkPool` |
| `Promise` | promises, combinators and async functions | `PromiseProofs`, `PromiseHeardProofs` | `MCPromise` |
| `ThreadHandle` | thread objects, their states, and registry references | `ThreadHandleProofs` | `MCThreadHandle` |

Definitions have the names of the C functions they translate; an operator whose
name ends like `_never`, `_always` or `_late` beside another is a deliberately
wrong version of it, used to see that a property notices, and is never part of
`Next`. Bounds on counters are constants called `Max…`.

## Channels (`Channel`, `ChannelAbs`, `ChannelRefs`)

`Channel` models every operation of the channel userdata and `thread.pick`.

* State. `queue`, `closed`, `listeners` and `lock` are the fields of the C
  struct; `listeners[c][t]` counts the nodes of the list of `c` that point to
  `t`'s selector (the order of the list decides only who is signalled first, and
  the model signals in any order). A selector is identified with the thread
  whose stack holds it: `live[t]` says whether it is initialised. A message stands
  for one element and its call of `luaL_ref`; `anchored` are those whose call has not
  been answered by `luaL_unref`.
  `pc`, `cases`, `idx`, `msg`, `after` are the local variables of the call.
* Grain. A section under `ch->lock` that takes no other lock is one action.
  `send`, `try_send` and `close` walk the listeners and lock each selector while
  they hold `ch->lock`, so the walk is a sequence of actions and `lock[c]` is a
  variable. Receivers that wait on `ch->cond` are those at `recv_wait`; a signal
  moves one to `recv_woken`, from where it competes for the lock like any other.
* Left out: what the values are, the functions pick calls with the value
  (running one is making further calls), and errors in the case table, which
  pick reports before it has any state.

`luaL_ref` and `luaL_unref` are one step each here, although the library calls them
without the interpreter's lock and each is several separately locked accesses to the
registry. So `Channel` says which of these calls are made and what becomes of the
elements (`MessagesAccounted`, `RefinesChannelAbs`), whatever numbers they carry, and
nothing of whether a number still leads to its value. That is the subject of `ChannelRefs`: sends,
receives and peeks at one channel with the calls one table access at a time, without waiting,
closing and finalising, which `Channel` has, and without nil, whose reference is fixed.
There `MessagesIntact`, that whoever receives gets the value that was sent, is violated
(`channel_race`): two sends that overlap may be given one reference. The theorems about
`Channel` do not contradict it; they say nothing of values.

## Table locks and shared tables (`RwLock`, `TableLock` and what they implement)

`RwLock` is `l_rwlock_*` of `lthread.c`: a native read/write lock, an atomic
`writer_thread_id` that is compared without the lock, and a plain
`write_recursion`. Every access to one of the three is an action (`check_writer`,
`wr_native`, `wr_store`, `wr_count`, `un_count`, `un_clear`, `un_native`), so a
window between any two is a state. Threads call as the sources do: read locks
are not upgraded, and unlocking follows locking. `RwLockAbs` is the same lock with
indivisible operations, and `RwLock` implements it.

`TableLock` takes the table's lock for granted and puts it beside the global lock
of the interpreter. `shared` is `is_shared`, which `table.share` sets with no lock and
which is looked at before each lock and again before each unlock; `level` is
`write_recursion`. The virtual machine and the raw API hold the global lock and
take the table's inside it; `table.insert` and `table.remove` take the table's
lock and enter the core, under the global lock, for each element they move. The
array part is a sequence; `frame[t]` is the state of the C function. `ArrayNow`
maps it to `TableAbs`, where each operation is one step: what an `insert` has done
shows as a whole with its first write, which is the one that lengthens the table
and may be seen by `#t` without the lock, and a `remove` with its last.
Metamethods, namespaces, and the errors of raw accesses and of memory are left out.

`Allowed` says what programs do although a shared table does not bear it; in the
runs they do neither.

| In `Allowed` | What programs then do | What fails |
|---|---|---|
| `"busy"` | other threads use the table before, or while, it gets shared | `LockReturned`, `RefinesTableAbs`: calls that began without the lock end by releasing it |
| `"raise"` | an instruction such as `t[nil] = v` raises its error in a shared table | `LockReturned`: the write lock is never given back, although a `pcall` goes on |

## Timers (`Heap`, `TimerHeap`, `Timers`)

`Heap` has the algorithms of the array heap as operators: sift up and down,
insert, delete in the middle, change of a timeout, take the first. A loop of swaps is
closed into one move: the positions it visits are a `Trail`, each timer on the trail
goes one position back, and the one that was moved ends at its last position. The loops
as the code has them, swap by swap, are in `MCTimerHeap`, whose assumption
`MovesAreTheLoops` has TLC compare both from every position of every array of up to six
timers, ordered or not. `TimerHeap` runs the operations
in every order on up to six timers, the least number at which the last
element can be smaller than the parent of the one it replaces, and implements
`TimersAbs`, a set from which the earliest is taken.

`Timers` puts them under `ev_loop_run` and `promise_await_sync`. `frames` is the
stack of iterations (a callback may iterate the loop); each remembers the time it
read at its start (`now`), as the code does. `clock` is the system's time and
`start_time` the origin `ev_loop_run` resets; timers hold times relative to it.
`due[n]` is the earliest moment timer `n` was promised. `ev_loop_run` refuses only while
the loop is running, so a callback under `await_sync`, or one that has stopped the loop,
may run it again: the outer iteration then goes on with a `now` that counts from an older
start. `origin`, a history field of an iteration, is the start its `now` counts from, and
`NeverEarly` says that an iteration brings a timer early only if its origin is no longer
the loop's. The run `timers` reaches that exception (await, run in its callback, a timer,
stop, and the same timer renewed: it runs a moment after it was renewed for 1). Two interfaces create
timers: C code with an id of its own, and `laio.c` with the id it gives to all of
them. In the run the heap has room for all timers, so failing to put one back is not
seen there; of the theorems only the one about periodic timers assumes it.

## Tasks and workers (`WorkPool`, `TaskQueueAbs`)

The ring (`task_queue`, front, rear, count), the pool's list, each worker's place
(`wpc`: about to take, waiting on the condition variable, woken, working, exited),
and the iterations of the loop. A section under `task_lock` or `pool_lock` is one
action. `outcome[x]` is a history variable: what became of item `x` (done, refused
by a full ring, lost by a worker that found it full, dropped by destroy).
`TaskQueueAbs` is the promise of the ring: a bounded queue called in order.

## Promises (`Promise`)

One thread runs everything, but settling a promise calls its handlers and resumes
the coroutine that awaits it, inside the call that settles it, so the order of
effects is what the C stack makes it. `work` is that stack: the things still to be
done, the next one first. `settle` replaces its item by the reactions and the
notification of `on_settled`; a handler or a resumed coroutine at the top is Lua
code, which may make any call (its items go in front); when it returns, its child
is settled and released, and so on. References are counted as in the code
(`ref_count`, `freed`); `handle`, `op` and `waiting` say who holds them, and the
collector may take a userdata between any two steps.

A combinator (`all`, `race`, `allSettled`, `any`, of two promises) is a
`compose_ctx` with a count, two slots and a parent. It sits in the `on_settled` slot
of each child that is still pending, so `awaiter[p]` is a coroutine or the parent of a
combinator. `compose_on_settled` counts, decides (`Decision`), settles the parent
inside the call, and frees the context with the last child (`compose_free`).
`with_timeout` is a race with a timer's promise, `wait` the await of C code.
The references are the code's, leaks included: each watched child is retained once
more than it is released, and a combinator that had nothing to wait for keeps its own.

`Allowed` says what programs do that the code does not allow for; in the run they do
none of it.

| In `Allowed` | What programs then do | What fails |
|---|---|---|
| `"drop"` | lose the userdata of a promise that something will still settle: the result of an async function, of a combinator, or the one awaited synchronously | `PromisesAlive`: it is used after it is freed |
| `"share"` | wait for one promise more than once: two awaits, an await and a combinator, `all(p, p)` | `NobodyForgotten`: the slot is overwritten and one of them is never told |
| `"late"` | `withTimeout` of a promise that is settled already | `PromisesAlive`: the timer keeps a promise that is freed |

`Programs` bounds what is explored: one program is a set of calls, how many of them
it makes and how many promises it may have. A constant of the run lists five; each
brings together the calls that meet in one part of the code.

Results are left out, except for being a success or a failure, and so are
combinators of plain values or of more than two promises, a `withTimeout` of no
time, and the helpers built from `then` (`map`, `series`, `retry`).

## Thread handles and registry references (`ThreadHandle`)

A thread object is three things with three lifetimes: the handle (a userdata), the
Lua state, and the native thread. `thread.create` anchors the state in the
registry with `luaL_ref`; the handle is kept by the Lua values that refer to it;
the native thread writes to both when it ends.

* State. `status`, `native` and `handle` are the three; `holders[u]` are the states
  from which the handle of `u` is reachable, `kept[t]` the states that are values on
  the stack of `t` (`createx` keeps its state there instead of in the registry).
  `slots` and `head` are the registry after its predefined values and the first
  free reference. `Reached(t)` is what the collector finds: it marks the main thread,
  the registry, and the thread it runs in, and nothing else.
* Grain. C functions run without the global lock, which every API call takes
  for itself, so `luaL_ref` and `luaL_unref` are three to five actions each, one
  for each table access; `join` blocks between its checks and its update. The
  collector finalises handles (`thread_gc`) and frees states (`luaE_freethread`) between any two.
* Left out: names and ids, `thread.self` inside a coroutine, a thread that joins
  itself, the end of the main thread.

Nothing keeps a program, or the collector, from what the library does not bear, and
nothing in the model does. `strains` records it, for each thread whose handle or
reference it was done with, and the properties say what holds until then, or in spite of it.

| In `strains` | What happened | What it breaks |
|---|---|---|
| `"overlap"` | two threads were in `luaL_ref` or `luaL_unref` at once | both get one reference (as in `channel_race`), and one of the states they anchor is left to the collector |
| `"release"` | a thread that runs was detached, or its handle collected | its state goes with its reference (`lthreadlib.c:386`, `InUseAlive`) |
| `"together"` | two threads were in a call on one handle | the native thread is joined or detached a second time (`lthreadlib.c:197`, `NativeReleasedOnce`) |
| `"fail"` | the handle of a thread that could not be made was collected | it detaches a native thread that never was, and gives its reference back twice (`lthreadlib.c:170`, `NativeReleasedOnce`, `ReferencesAccounted`) |
| `"self"` | a handle that `thread.self` made was joined, detached or collected | it joins or detaches a thread that another handle, or `createx`, answers for (`lthreadlib.c:356`, `NativeReleasedOnce`) |

`InUseAlive`, `ReferencesAccounted` and `JoinTellsOutcome` hold until the first of these;
`NativeReleasedOnce` holds whatever happens, and names the three that misuse a native thread.

## Runs

Three of them show a finding: TLC finds the property they check violated. The others
end without error, in at most a few minutes.

| Run | Configuration | Question | Bounds, and why they are enough |
|---|---|---|---|
| `channel` | `MCChannel` | Is every element in one place and each `luaL_ref` answered once, is no wake-up lost, do selectors outlive no call, are picks notified, are channels atomic FIFO queues? | 3 threads, 3 calls, 2 channels, picks over both and over one twice, malloc may fail: a receiver or a pick can wait, be overtaken and wait again |
| `channel_live` | `MCChannel_live` | Do close and timeouts release whoever is blocked? | 3 fair threads, one operation each |
| `channel_race` | `MCChannelRefs` | Does everybody get the value that was sent, `luaL_ref` being several accesses? Not so | 2 threads, 2 values |
| `rwlock` | `MCRwLock` | Exclusion, no race on the counter, balanced holds, atomicity | 3 threads, 3 levels: a reader, a writer that nests, and one that waits |
| `tablelock_atomic` | `MCTableLock_atomic` | Is the lock given back, does every access take effect at once? | 2 threads, 2 operations each, a table of two elements that gets shared and can grow and shrink; no errors, and nobody else uses the table before it is shared (`Allowed` is empty) |
| `tablelock_progress` | `MCTableLock_progress` | Does `table.insert` return? It does not | one operation each suffices |
| `timer_heap` | `MCTimerHeap` | Does each call change the one timer it names, is the earliest taken, are the moves those of the loops? | 6 timers, 3 timeouts |
| `timers` | `MCTimers` | Is the heap ordered after every call and callback? Is a timer early only under a run of the iteration's own, do periodic ones go on, does a due one leave the heap while the loop runs? | 2 timers, the first made first (`InOrder`: the other behaviours are these with the names exchanged), 5 calls, 2 nested iterations, time to 3, of which 1 may pass outside a poll: the least in which a run under an iteration brings a timer early |
| `workpool` | `MCWorkPool` | Items accounted for, no idle worker over work, order, work is taken, completions called, destroy returns | 3 items over a ring of 2 places, 2 workers: the ring wraps and overflows |
| `workpool_asleep` | `MCWorkPool_asleep` | Is the completion of a worker's item called if no timer ends the poll? It is not | 1 worker of a running pool, 1 item, so nothing but its completion could wake the loop |
| `promise` | `MCPromise` | Settled once, handlers once, outcomes and combinations as they should be, nobody forgotten, nothing freed in use | five programs of 3 to 5 calls, 4 promises, 2 async functions: a chain of two, a coroutine that awaits another's promise, a combinator over promises that settle before, while and after it is made |
| `thread_handles` | `MCThreadHandle` | Is whatever is in use alive, is each reference held once or free, does join tell how the thread ended? Which uses join or detach a native thread in vain? | the main thread and two more, each of which can make, hand on, join, detach and lose the other. Once both are made nothing is explored beyond the first strain; while one is made everything is, and any number of strains (`FewOrUnstrained` is the constraint). All five kinds of strain are reached, and what the last four of the table break |

`CHECK_DEADLOCK FALSE` stands in the configurations of systems that may stop:
programs end, loops are destroyed, and time is bounded. The channel and read/write
lock configurations do check for deadlock.

### Fairness

* Channels: every thread inside a call goes on (weak fairness of its next step).
  Spurious wake-ups happen, but not for ever: every one restarts the whole timeout
  of a pick, and with endlessly many it would not time out.
* Shared tables: strong fairness of each call's steps and of leaving the core, as
  given by fair locks and by `luai_threadyield`. It is generous on purpose: the run
  that needs it shows that even so the call does not return.
* Timers and loop: the thread of the loop goes on, callbacks return, time passes.
* Workers: each goes on; programs need not do anything.

## Findings

Three things the runs show:

* `table.insert` and `table.remove` on a shared table can wait for each other for
  ever with any access by another thread (`tablelock_progress`).
* Two threads in `luaL_ref` at the same time get one reference: a receiver is given
  another value than the one that was sent (`channel_race`). `thread.create` anchors
  states by the same call (`lthreadlib.c:148`), and what is not anchored is collected.
* The completion a worker of the pool posts does not wake a loop that sleeps without a
  timer (`workpool_asleep`).

Things that the passing runs reach, and that their properties name as exceptions. To see
one, drop the exception from the property:

* `detach`, documented as "fire-and-forget" (`lthreadlib.c:367`), and the loss of the
  handle free the state of a thread that runs (`Unstrained` in `InUseAlive`): create,
  detach, and the next collection frees the state (`lthreadlib.c:386`).
* Two calls on one handle join or detach its native thread twice (`"together"` in
  `NativeReleasedOnce`): the flags are looked at before the blocking join and set after
  it, with no lock (`lthreadlib.c:188-197`).
* The handle of a thread that could not be made keeps its state and reference
  (`lthreadlib.c:170`). Its finaliser detaches a thread that never was (`"fail"` in
  `NativeReleasedOnce`) and gives the reference back a second time, after which the free
  list links to itself (`Unstrained` in `ReferencesAccounted`).
* A handle that `thread.self` makes for a thread of `createx` detaches it after
  `createx` has joined it (`"self"` in `NativeReleasedOnce`, `lthreadlib.c:356`).
* A run of the loop inside a callback of an iteration that `await_sync` drives, which the
  loop does not refuse (`leventloop.c:682`), brings timers before their time (the origin in
  `NeverEarly`).

And things met while modelling that have no run of their own (those of the tables of
`Allowed` above can be seen by adding the flag to a configuration):

* An error raised in a shared table leaves its write lock taken: after
  `pcall(function() t[nil] = 1 end)` every other thread that touches `t` waits for ever,
  with the global lock if it is in the core (`lvm.c:1240`, `lapi.c:1522`).
* `clearInterval` does not stop its interval if there are others: all timers made
  by `laio.c` have id 0.
* A C timer stopped inside its own callback is put back into the heap if it is
  periodic (`leventloop.c:754`).
* `luaL_ref` on the registry takes index 1, the place of the main thread, for its free list:
  `lcorolib.c:195` then finds a number there.
* A promise that is awaited twice, or listed twice in `all`, tells only the last one
  (`lpromise.c:670`); `asyncio.all(a, b):done(f)` drops the promise of the combinator,
  which is then freed before its children settle it.

* `thread.pick` ends without calling any case when another receiver takes the
  element between its signal and its second look (`lthreadlib.c:1040`); the model
  has this as the result of `rescan_end`.
* The child of `then` on a rejected promise, and of `catch` on a fulfilled one, is
  never settled (`lpromise.c:351,370`): `p:done(f):fail(g)` does not call `g` when
  `p` is rejected, although `lpromise.c:4` and `docs/MODULES.md:312` claim Promise/A+.
  `NobodyForgotten` is stated for the outcomes the code passes on.
* A coroutine that awaits a promise which is rejected is resumed with nil
  (`laio.c:701`); `wait()` on one that is rejected already raises an error.
* An interval with a number of times is put back into the heap after its last run
  and runs once more with the context that run has freed (`laio.c:630`); the
  comments disagree on what a negative number means (`laio.h:211`, `laio.c:1548`).
* `ev_loop_run` resets the origin of the loop's time, so timers started before it
  come late by the time that has passed (`leventloop.c:682`), if they do not come early.
* The loop calls delayed tasks at once: nothing reads `schedule_time`
  (`leventloop.c:714`).
* A worker that finds the ring full drops its completion (`leventloop.c:259`); the
  model calls the item lost.
* The reference a coroutine holds to the last promise it awaited is not released
  when it ends normally (`laio.c:722`), and no reaction's handler reference ever is.
* `withTimeout` of a promise that is settled already leaves a timer with a promise
  that is freed (`laio.c:1525`).
* Documentation that has no code: `thread.channel(size)` (`docs/API_REFERENCE.md:40`),
  `thread.mutex`, `cond`, `rwlock` (`docs/README.md:502`).

## Proofs

The theorems hold for every value of the constants that satisfies the named
assumptions (`…Assumption`: the distinguished values are not members of the sets
they stand outside of, bounds are natural numbers, the ring has a place, the set of
workers or threads is finite where something is counted).

* `ChannelProofs`. `ChannelTypeOK`: `TypeOK` is inductive as it stands, because it
  says which steps have a channel and a message. `ChannelNoLostWakeup`: the number
  of queued messages grows by one only in a step that wakes a waiting receiver if
  there is one, and shrinks with every receiver that stops being woken; the lemmas
  are about cardinalities of `Woken` after adding or removing one thread, and
  `NoLostWakeup` is inductive relative to `TypeOK`. `ChannelRefines`: with `InUseKept` (a
  channel somebody uses has not been finalised) every step is one of `ChannelAbs`.
  `ChannelMessagesAccounted` is about the calls of `luaL_ref` and `luaL_unref` and not
  their numbers: a step does one of six things to
  the messages (anchor, give up, release, append, take, finalise) or none, and one
  lemma each shows that the account stays right. Anchoring and taking overwrite what
  the thread holds, so `MessagesAccounted` is inductive only with `EmptyHanded`: a
  thread holds a message only where it is on its way in or out.
  `ChannelSelectorsAlive` and `ChannelPickNotified` follow from `Selectors`. `Linked` bounds the
  nodes a pick has in a channel by the number of its cases that are registered and not
  yet unregistered, which is what makes `unregister_all` complete although it unlinks
  one node per case and a channel may be named twice; `Walks` says that who has
  selectors left to signal holds the lock of the channel they are linked in; and
  `Noticed`, with `Registered`, extends `PickNotified` to the cases a scan has passed.
  A step either leaves the lists and locks alone (`Calm`) or is one of six.
* `RwLockProofs`. `IInv` adds to the types what each thread's place says about the
  lock: `NativeLock` (a writer excludes readers), `Holds` (a thread's mode, depth and
  place determine its hold on the native lock), `Owns` (the id is a thread's exactly
  between its store and its clearing) and `Where` (which places go with which mode).
  None of the safety properties is inductive alone: exclusion needs that the
  unlocked comparison with one's own id can only succeed for the owner. All four
  properties, and the refinement of `RwLockAbs`, follow from `IInv`.
* `TableLockProofs`, for programs that do nothing of `Allowed`. `IInv` says of a table
  that is not shared that it has one user (`OneUser`), who may so go through a call
  that began without the lock; and of each place in `table.insert` and `table.remove`
  what the array is then, in terms of what the caller found under the lock: `MovedUp(i)`,
  `MovedDown(pos, i)` (which elements are already at their new place) and what the value
  read last, or about to be written, is. `LockReturned` needs the former,
  `TableLockRefines` the latter, with two lemmas on what `InsertAt` and `RemoveAt`
  make of a sequence, element by element. The lengths of the array and of `ArrayNow`
  are always equal, which is why `#t` may do without the lock.
* `TimersProofs` on `Heap`, for arrays of any length whose timeouts are integers. A recursive function
  is defined by `CHOOSE`, so that its value at a position is what the definition says has
  to be proved: `Reach`, the least set that has a position and goes on with each of its
  members, solves the equation, and the least position at which another solution
  differed (the greatest, for a trail that goes up) would give a smaller one. That every
  set of natural numbers has a least member, `LeastNumber`, comes from the library's
  theorem that the subsets of a finite set are well-founded. A trail never meets itself
  (`TrailInjective`), so a move rearranges (`MoveRearranges`); and it restores the order if
  only the moved timer was out of place (`UpOrders`, `DownOrders`), because the trail
  passes exactly the parents that are due later, or the smaller children due earlier. Five
  theorems say it of the operations, and that an ordered array has none due before
  its first. `TimerHeapRefines` puts them together: for any timeouts and capacity `TimerHeap`
  implements `TimersAbs`, with the set of the array's timers as the abstract state; what
  it needs besides is that no id is in the array twice.
* `TimersProofs` on `Timers`, for any timers, delays, capacity and depth of nesting. `TimersInv` says
  of what the loop holds, in the heap or in a callback that has started, that it is a timer
  as its creator made it (`AllKnown`) and that it is held once (`Apart`); of ids that a C
  timer has one of its own and laio.c's are 0 (`Numbered`); and of moments that relative
  ones, counted from the start of the loop, never come before they are due, that no
  iteration is ahead of the clock by its own origin, and that one that goes by the loop's
  last start runs nothing early (`InTime`, whose point is that the origin only moves up).
  `NeverEarly` alone is not inductive: it needs that the timer taken was due in time while
  it waited. `HeapOrdered` and half of `TypeOK` need that a timer put back after its
  callback is not in the heap already, which is `Apart`. `PeriodicGoesOn` is inductive
  relative to `TimersInv`, which keeps the ids of the others apart from the one that is
  stopped; it holds if the heap has room for every timer (`Room` counts their names), which
  is the theorem's hypothesis, because `ev_timer_start` does nothing when it is full.
* `ThreadHandleProofs`. Four of the theorems are about behaviours up to the first strain
  and follow from `Borne`, which says that `IInv` holds until then; what a program cannot
  avoid (overlapping calls, threads that cannot be made) is outside of them, and they say
  so. What keeps states
  alive is `Grounded`: every set of states that has the main thread, the states in
  the registry, and with each state what is on its stack, has all states in which
  Lua code runs or will. That is what the collector computes, so a live state is
  found whoever runs it; a state is added only on the stack of a live one, and moves
  from there to the registry in one step. `Chain` says of the free list what it is while
  one thread changes it (`Turns`), with that thread's place taken out, `Owned` that a
  handle with a reference has its place, `Registers` and `Place` what the local variables and
  the place of a thread say of the registry and of the thread its call is on, `Life`
  how handle, state and native thread go together: a handle of a live thread is held
  by somebody, and who holds handles is live. Each action has a lemma; those outside
  the registry share `Around`, which keeps `Turns`, `Chain`, `Owned` and `Registers`.
  `ThreadHandleNativeReleasedOnce` is about all behaviours and cannot use any of this, since
  registry and states may be in any disorder. Its `RInv` holds always: `Forms` are the types
  that survive, `Where` says of each thread's place what its call is and how far the thread it
  is on has come, `Begun` that there is nothing of a thread before it is made, and `Sound` of a
  thread with which none of the three misuses happened (`Fine`) that one call at a time is
  on it and that who relies on its native thread finds it neither joined nor detached. A
  step touches one thread's handle; the others are kept by `TurnKeeps`.
* `WorkPoolProofs`. `TypeOK` is inductive and holds the arithmetic of the ring.
  `NoIdleBacklog` needs `StoppedAwake` (nobody waits once the pool is stopped), without
  which a worker that exits would leave work behind. `WorkPoolRefines` needs `Nested`
  (every iteration but the innermost is in a callback), and lemmas that a push,
  a pop and the emptying of the ring are `Append`, `Tail` and the empty sequence on
  the mapped queue. `ItemsAccounted` counts occurrences in sequences, and the
  lemmas say how `Append`, `Tail` and `Front` change such a count (the last two by a
  bijection and by removing a place). A worker overwrites what it holds and
  `destroy_joined` forgets workers and callbacks, so the account is inductive only
  with `IdleHands` (who is not at work holds nothing) and `LoopAtRest` (a loop being
  destroyed has no iteration).
* `PromiseProofs`. `Inv` is about the C stack: `Sound` says what is true of each thing
  to be done from when it is put there, and stays so because what is settled stays
  settled and a promise keeps its parent (`Grown`, which is true of every step);
  `Stack` adds that no reaction and no coroutine is there twice (`Apart`), `Lists` that
  the reactions of a promise are those of children of its own that nobody has called,
  `Births` that what an operation, a combinator or a coroutine will settle is nobody's child.
  Three of the theorems follow, for all programs. `PromiseCombinedOutcome` is for
  programs without `"share"` and needs `Combining`: `Watches` (a pending child of a combinator
  points to it, and nobody points to one that is over), `Tallies` (the count of a
  combinator is the number of its children that are settled and whose notification
  is not still on the stack, and those left it open), `Settling` (a notification is
  there once, and what is about to be settled may become so), `Decided`. Most steps
  tell no combinator anything (`Calm`) and share one lemma. That there is always a
  fresh promise to take needs a finite number of them.
  `PromisePromisesAlive` and `PromiseTypeOK` are for programs that do nothing of
  `Allowed`, and rest on `Keeping`. Its `Owners` is the account of references: the places
  on the C stack that give one back or hand it on, the combinators and coroutines that
  hold one, the list with the reaction that will settle it, the userdata and the
  operation together are no more than `ref_count`, which is 0 for what is freed or not
  yet born (no more, not as many: the code leaks references). The rest is about what has
  no reference of its own. `Secured` says that such a thing is kept by its userdata or by
  the call that will make it, `Guarding` that what is about to be settled or told so is
  let go of only by something deeper in the stack, or is the settled promise a
  coroutine has just begun to await, whose other releases come before. One
  lemma (`OwningStep`) turns what a step gains in each of the six places into the account
  of the next state; the lemma of an action says what it gains.
  `PromiseNobodyForgotten` (`PromiseHeardProofs`), for the same programs, says only what is so when the C stack
  is empty, and rests on `Heard`, which says what the stack still has to do for each of
  those who wait. `Resumed`: a suspended coroutine has the slot of what it waits for, and
  once that is settled its notification is on the stack. `Prompt`: nothing but releases is
  done before such a notification if somebody who was told of the promise earlier, a
  coroutine or a combinator, will still clear its slot; without it the second of two waits
  in turn could lose its slot. `Knowing`: a chained promise is in the list of its pending
  parent, and once that is settled it is so itself or its reaction or settlement is on the
  stack (that the list of a settled promise is still there when its reactions are put on
  the stack needs `Keeping`: the promise has not been freed). `Deciding`: a combinator
  whose promise is pending waits, or is about to settle it, and that comes before its end.
  What a step pops and pushes is judged by three lemmas (`ResumedStep`, `KnowingStep`,
  `DecidingStep`), which the lemma of each action appeals to. On an empty stack nothing is
  still to be done, and `Tallies` says that the children leave the outcome open.

Only model-checked: liveness (out of the prover's reach), and that the moves of `Heap`
are those of the code's loops (which are recursive).

## Plan

Each safety property, action property and refinement of the runs that expect a pass is
a theorem. What is left is breadth: the components listed below as not modelled.

## Not modelled

* The watchers of the event loop: nothing in the sources outside `leventloop.c` starts
  one, so which calls are made in which order is not the repository's to say.
  (`ev_io_stop` looks for the caller's pointer among the loop's copies,
  `leventloop.c:993`, and does not find it.)
* The memory pool: `luaM_poolalloc` and `luaM_poolfree` have no callers; the collector
  shrinks free lists that are always empty.
* The collector beyond what it marks for threads, the compiler, the interpreter's
  sequential parts and libraries, conversions (JSON, cryptography, archives), the
  language server and the WebAssembly tools have no protocol between actors, or
  one far too large for exhaustive exploration next to the rest.
* Third-party code is left to its authors.
* Operating system primitives (mutex, condition variable, native read/write lock,
  `epoll`, clock) are modelled by what their users in the sources may rely on.
