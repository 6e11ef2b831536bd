------------------------------ MODULE Channel ------------------------------
(***************************************************************************)
(* The channels of the thread library, src/src/stdlib/lthreadlib.c: a FIFO *)
(* of elements behind a mutex and a condition variable, used by            *)
(* send, try_send, receive, try_recv, peek and close, and by pick, which   *)
(* waits on several channels at once through a Selector on the picking     *)
(* thread's stack and a Listener node in every channel it watches.         *)
(*                                                                         *)
(* Grain: a section that holds ch->lock and acquires nothing else is one   *)
(* action, and so is a section that holds only sel->lock. send, try_send   *)
(* and close hold ch->lock while they lock one selector after another, so  *)
(* their lock is a variable and the walk goes node by node.                *)
(*                                                                         *)
(* A message stands for one element and for the call of luaL_ref that has  *)
(* made its reference. What number that call hands out, and what is stored *)
(* there, is not in this module: luaL_ref and luaL_unref are called without *)
(* a lock, and two calls that overlap may be given one number. That is     *)
(* module ChannelRefs; here a call counts once it has returned.            *)
(***************************************************************************)
EXTENDS Naturals, Sequences, FiniteSets
LOCAL INSTANCE Functions

CONSTANTS
    Threads,        \* native threads that run Lua code
    Channels,       \* channel userdata
    Messages,       \* elements, each with a value and a call of luaL_ref of its own
    CaseLists,      \* the lists of channels a program hands to pick
    Accepts,        \* Accepts[c]: the values the type constraint of c lets in
    AllocMayFail,   \* whether malloc may return NULL
    MaxOps,         \* bound: operations each thread performs
    MaxCalls,       \* bound: operations of all threads together
    NoThread, NoMsg

ASSUME ChannelAssumption ==
    /\ IsFiniteSet(Threads)
    /\ CaseLists \subseteq Seq(Channels)
    /\ Accepts \in [Channels -> SUBSET Messages]
    /\ AllocMayFail \in BOOLEAN
    /\ MaxOps \in Nat
    /\ MaxCalls \in Nat
    /\ NoThread \notin Threads
    /\ NoMsg \notin Messages

VARIABLES
    lock,       \* lock[c]: the thread that holds ch->lock across steps
    queue,      \* queue[c]: the elements from ch->head to ch->tail
    closed,     \* closed[c]: ch->closed
    listeners,  \* listeners[c][t]: nodes of ch->listeners for t's selector
    collected,  \* channels whose __gc has run
    anchored,   \* messages whose luaL_ref no luaL_unref has answered yet
    fresh,      \* messages no operation has sent yet
    pc,         \* pc[t]: where t is
    cases,      \* cases[t]: the channels of t's operation, in order
    idx,        \* idx[t]: the case t is working on
    timed,      \* timed[t]: pick has a timeout case (has_timeout)
    live,       \* live[t]: t's stack holds an initialised Selector
    signaled,   \* signaled[t]: sel.signaled
    after,      \* after[t]: what pick does once it has unregistered
    todo,       \* todo[t]: selectors t has still to signal in its walk
    msg,        \* msg[t]: the reference t has allocated or taken
    out,        \* out[t]: the result of t's operation, once it is decided
    ops         \* ops[t]: operations t has begun

chanVars == <<lock, queue, closed, listeners, collected>>
refVars  == <<anchored, fresh>>
pickVars == <<timed, live, signaled, after>>
vars == <<lock, queue, closed, listeners, collected, anchored, fresh, pc, cases,
          idx, timed, live, signaled, after, todo, msg, out, ops>>

\* What a call ends in, besides a message. "eof" is the nil of receive and pick
\* on a closed channel, "nil" the nil of try_recv and peek on an empty one;
\* "nocase" is pick returning no value at all.
Results == {"none", "ok", "true", "false", "nil", "eof", "mismatch", "closed",
            "timeout", "nocase", "oom"}

PCs == {"idle", "send", "try_send", "walk", "receive", "recv_wait", "recv_woken",
        "fetch", "scan", "select", "sel_wait", "unregister", "rescan"}

\* The program counters inside thread_pick, from the initialisation of the
\* selector to its destruction.
PickPCs == {"scan", "select", "sel_wait", "unregister"}

----------------------------------------------------------------------------
\* The channel the current step of t is about.
Chan(t) == cases[t][idx[t]]

\* t may start an operation on the channels of list cs: it runs Lua code, and
\* holds the userdata of every one of them.
CanBegin(t, cs) ==
    /\ pc[t] = "idle"
    /\ ops[t] < MaxOps
    /\ SumFunction(ops) < MaxCalls
    /\ \A i \in DOMAIN cs : cs[i] \notin collected

Begin(t, cs, where) ==
    /\ CanBegin(t, cs)
    /\ pc' = [pc EXCEPT ![t] = where]
    /\ cases' = [cases EXCEPT ![t] = cs]
    /\ idx' = [idx EXCEPT ![t] = 1]
    /\ ops' = [ops EXCEPT ![t] = @ + 1]

\* t returns r to its caller.
Return(t, r) ==
    /\ pc' = [pc EXCEPT ![t] = "idle"]
    /\ out' = [out EXCEPT ![t] = r]

Goto(t, where) == pc' = [pc EXCEPT ![t] = where]

\* The thread that l_cond_signal(&ch->cond) lets go, if one waits: it has left
\* the wait set and has still to acquire ch->lock again.
Waiters(c) == {t \in Threads : pc[t] = "recv_wait" /\ Chan(t) = c}
Woken(c)   == {t \in Threads : pc[t] = "recv_woken" /\ Chan(t) = c}

\* The selectors on ch->listeners, each to be signalled by who sends or closes.
\* (Mutant: only one of them is.)
Watching_one(c) ==
    LET all == {t \in Threads : listeners[c][t] > 0}
    IN  IF all = {} THEN {} ELSE {CHOOSE t \in all : TRUE}
Watching(c) == {t \in Threads : listeners[c][t] > 0}

Uses(t, c) == pc[t] # "idle" /\ \E i \in DOMAIN cases[t] : cases[t][i] = c

----------------------------------------------------------------------------
Init ==
    /\ lock = [c \in Channels |-> NoThread]
    /\ queue = [c \in Channels |-> <<>>]
    /\ closed = [c \in Channels |-> FALSE]
    /\ listeners = [c \in Channels |-> [t \in Threads |-> 0]]
    /\ collected = {}
    /\ anchored = {}
    /\ fresh = Messages
    /\ pc = [t \in Threads |-> "idle"]
    /\ cases = [t \in Threads |-> <<>>]
    /\ idx = [t \in Threads |-> 1]
    /\ timed = [t \in Threads |-> FALSE]
    /\ live = [t \in Threads |-> FALSE]
    /\ signaled = [t \in Threads |-> FALSE]
    /\ after = [t \in Threads |-> "none"]
    /\ todo = [t \in Threads |-> {}]
    /\ msg = [t \in Threads |-> NoMsg]
    /\ out = [t \in Threads |-> "none"]
    /\ ops = [t \in Threads |-> 0]

----------------------------------------------------------------------------
\* send and try_send.

\* The type check fails: send raises an error and try_send returns false,
\* before the value is anchored.
send_mismatch(t, c, m) ==
    /\ m \in fresh \ Accepts[c]
    /\ \E r \in {"mismatch", "false"} :
        /\ Begin(t, <<c>>, "idle")
        /\ out' = [out EXCEPT ![t] = r]
    /\ UNCHANGED <<chanVars, refVars, pickVars, todo, msg>>

\* luaL_ref of the value, and the element is allocated; or the reference is released
\* again and the call fails.
anchor(t, c, m, where) ==
    /\ m \in fresh \cap Accepts[c]
    /\ fresh' = fresh \ {m}
    /\ \/ /\ Begin(t, <<c>>, where)
          /\ anchored' = anchored \cup {m}
          /\ msg' = [msg EXCEPT ![t] = m]
          /\ UNCHANGED out
       \/ /\ AllocMayFail
          /\ Begin(t, <<c>>, "idle")
          /\ out' = [out EXCEPT ![t] = "oom"]
          /\ UNCHANGED <<anchored, msg>>
    /\ UNCHANGED <<chanVars, pickVars, todo>>

channel_send(t, c, m)     == anchor(t, c, m, "send")
channel_try_send(t, c, m) == anchor(t, c, m, "try_send")

\* The call gives the message back: luaL_unref, and result r. (Mutant: the
\* reference is forgotten.)
refuse_leaking(t, r) ==
    /\ msg' = [msg EXCEPT ![t] = NoMsg]
    /\ Return(t, r)
    /\ UNCHANGED <<chanVars, refVars, pickVars, cases, idx, todo, ops>>
refuse(t, r) ==
    /\ anchored' = anchored \ {msg[t]}
    /\ msg' = [msg EXCEPT ![t] = NoMsg]
    /\ Return(t, r)
    /\ UNCHANGED <<chanVars, fresh, pickVars, cases, idx, todo, ops>>

\* l_cond_signal(&ch->cond), by t on its way to the listeners. (Mutant: only if
\* there are no listeners.)
signal_receiver_unless_watched(t, c) ==
    \/ /\ Waiters(c) = {} \/ Watching(c) # {}
       /\ Goto(t, "walk")
    \/ \E w \in Waiters(c) :
        /\ Watching(c) = {}
        /\ pc' = [pc EXCEPT ![t] = "walk", ![w] = "recv_woken"]
signal_receiver(t, c) ==
    \/ /\ Waiters(c) = {}
       /\ Goto(t, "walk")
    \/ \E w \in Waiters(c) : pc' = [pc EXCEPT ![t] = "walk", ![w] = "recv_woken"]

\* With ch->lock held and the channel open: append the element, signal one
\* receiver, and go on to the listeners with the lock still held.
enqueue(t, r) ==
    LET c == Chan(t)
    IN  /\ lock[c] = NoThread
        /\ ~closed[c]
        /\ lock' = [lock EXCEPT ![c] = t]
        /\ queue' = [queue EXCEPT ![c] = Append(@, msg[t])]
        /\ msg' = [msg EXCEPT ![t] = NoMsg]
        /\ out' = [out EXCEPT ![t] = r]
        /\ todo' = [todo EXCEPT ![t] = Watching(c)]
        /\ signal_receiver(t, c)
        /\ UNCHANGED <<closed, listeners, collected, refVars, pickVars, cases, idx, ops>>

send_locked(t) ==
    /\ pc[t] = "send"
    /\ \/ enqueue(t, "ok")
       \/ /\ lock[Chan(t)] = NoThread
          /\ closed[Chan(t)]
          /\ refuse(t, "closed")

\* l_mutex_trylock fails when another thread is inside a section of ch->lock,
\* which may be a section that is a single action here.
try_send_locked(t) ==
    /\ pc[t] = "try_send"
    /\ \/ enqueue(t, "true")
       \/ /\ lock[Chan(t)] = NoThread
          /\ closed[Chan(t)]
          /\ refuse(t, "false")
       \/ /\ Threads # {t}
          /\ refuse(t, "false")

\* One turn of the listener loop: lock the selector, set its flag, signal its
\* condition variable, unlock it.
notify_listener(t) ==
    /\ pc[t] = "walk"
    /\ \E s \in todo[t] :
        /\ todo' = [todo EXCEPT ![t] = @ \ {s}]
        /\ signaled' = [signaled EXCEPT ![s] = TRUE]
        /\ pc' = IF pc[s] = "sel_wait" THEN [pc EXCEPT ![s] = "select"] ELSE pc
    /\ UNCHANGED <<chanVars, refVars, cases, idx, timed, live, after, msg, out, ops>>

\* The loop has reached the end of the list: unlock and return.
notify_done(t) ==
    /\ pc[t] = "walk"
    /\ todo[t] = {}
    /\ lock' = [lock EXCEPT ![Chan(t)] = NoThread]
    /\ Goto(t, "idle")
    /\ UNCHANGED <<queue, closed, listeners, collected, refVars, pickVars, cases,
                   idx, todo, msg, out, ops>>

----------------------------------------------------------------------------
\* receive, try_recv, peek and close.

channel_receive(t, c) ==
    /\ Begin(t, <<c>>, "receive")
    /\ UNCHANGED <<chanVars, refVars, pickVars, todo, msg, out>>

\* Unlink the head of channel c: its reference is t's from here on. (Mutants:
\* the tail is unlinked; elem->ref is not read before the element is freed.)
take_newest(t, c) ==
    /\ queue[c] # <<>>
    /\ queue' = [queue EXCEPT ![c] = SubSeq(@, 1, Len(@) - 1)]
    /\ msg' = [msg EXCEPT ![t] = queue[c][Len(queue[c])]]
    /\ out' = [out EXCEPT ![t] = queue[c][Len(queue[c])]]
take_unqueued(t, c) ==
    /\ queue[c] # <<>>
    /\ queue' = [queue EXCEPT ![c] = Tail(@)]
    /\ msg' = [msg EXCEPT ![t] = NoMsg]
    /\ out' = [out EXCEPT ![t] = Head(queue[c])]
take(t, c) ==
    /\ queue[c] # <<>>
    /\ queue' = [queue EXCEPT ![c] = Tail(@)]
    /\ msg' = [msg EXCEPT ![t] = Head(queue[c])]
    /\ out' = [out EXCEPT ![t] = Head(queue[c])]

\* The loop of receive, entered with ch->lock held, first or after a wait.
receive_locked(t) ==
    LET c == Chan(t)
    IN  /\ pc[t] \in {"receive", "recv_woken"}
        /\ lock[c] = NoThread
        /\ \/ /\ take(t, c)
              /\ Goto(t, "fetch")
           \/ /\ queue[c] = <<>> /\ closed[c]
              /\ Return(t, "eof")
              /\ UNCHANGED <<queue, msg>>
           \/ /\ queue[c] = <<>> /\ ~closed[c]
              /\ Goto(t, "recv_wait")
              /\ UNCHANGED <<queue, msg, out>>
        /\ UNCHANGED <<lock, closed, listeners, collected, refVars, pickVars,
                       cases, idx, todo, ops>>

channel_try_receive(t, c) ==
    /\ lock[c] = NoThread
    /\ \/ /\ take(t, c)
          /\ Begin(t, <<c>>, "fetch")
       \/ /\ queue[c] = <<>>
          /\ Begin(t, <<c>>, "idle")
          /\ out' = [out EXCEPT ![t] = "nil"]
          /\ UNCHANGED <<queue, msg>>
    /\ UNCHANGED <<lock, closed, listeners, collected, refVars, pickVars, todo>>

\* lua_rawgeti and luaL_unref of the reference taken: the value is on the
\* thread's own stack from here on.
fetch(t) ==
    /\ pc[t] = "fetch"
    /\ anchored' = anchored \ {msg[t]}
    /\ msg' = [msg EXCEPT ![t] = NoMsg]
    /\ Goto(t, "idle")
    /\ UNCHANGED <<chanVars, fresh, pickVars, cases, idx, todo, out, ops>>

channel_peek(t, c) ==
    /\ lock[c] = NoThread
    /\ Begin(t, <<c>>, "idle")
    /\ out' = [out EXCEPT ![t] = IF queue[c] = <<>> THEN "nil" ELSE Head(queue[c])]
    /\ UNCHANGED <<chanVars, refVars, pickVars, todo, msg>>

\* l_cond_broadcast(&ch->cond), by t on its way to the listeners.
wake_receivers(t, c) ==
    pc' = [u \in Threads |-> CASE u = t -> "walk"
                              [] u \in Waiters(c) -> "recv_woken"
                              [] OTHER -> pc[u]]

\* Close: wake every receiver and every listener.
channel_close(t, c) ==
    /\ lock[c] = NoThread
    /\ CanBegin(t, <<c>>)
    /\ closed' = [closed EXCEPT ![c] = TRUE]
    /\ lock' = [lock EXCEPT ![c] = t]
    /\ todo' = [todo EXCEPT ![t] = Watching(c)]
    /\ wake_receivers(t, c)
    /\ cases' = [cases EXCEPT ![t] = <<c>>]
    /\ idx' = [idx EXCEPT ![t] = 1]
    /\ ops' = [ops EXCEPT ![t] = @ + 1]
    /\ out' = [out EXCEPT ![t] = "ok"]
    /\ UNCHANGED <<queue, listeners, collected, refVars, pickVars, msg>>

\* The collector finalises a channel no thread can reach.
channel_gc(c) ==
    /\ c \notin collected
    /\ \A t \in Threads : ~Uses(t, c)
    /\ anchored' = anchored \ {queue[c][i] : i \in DOMAIN queue[c]}
    /\ queue' = [queue EXCEPT ![c] = <<>>]
    /\ listeners' = [listeners EXCEPT ![c] = [t \in Threads |-> 0]]
    /\ collected' = collected \cup {c}
    /\ UNCHANGED <<lock, closed, fresh, pc, cases, idx, pickVars, todo, msg, out, ops>>

----------------------------------------------------------------------------
\* pick.

thread_pick(t, cs, over) ==
    /\ Begin(t, cs, "scan")
    /\ timed' = [timed EXCEPT ![t] = over]
    /\ live' = [live EXCEPT ![t] = TRUE]
    /\ signaled' = [signaled EXCEPT ![t] = FALSE]
    /\ UNCHANGED <<chanVars, refVars, after, todo, msg, out>>

\* unregister_all(L, 1, &sel), then what follows it. (Mutant: the loop starts
\* one case too late.)
Unregister_from_second(t, then) ==
    /\ pc' = [pc EXCEPT ![t] = "unregister"]
    /\ idx' = [idx EXCEPT ![t] = 2]
    /\ after' = [after EXCEPT ![t] = then]
Unregister(t, then) ==
    /\ pc' = [pc EXCEPT ![t] = "unregister"]
    /\ idx' = [idx EXCEPT ![t] = 1]
    /\ after' = [after EXCEPT ![t] = then]

\* One turn of the first loop: take from the channel if it has something to
\* say, register a listener otherwise.
scan_case(t) ==
    LET c == Chan(t)
    IN  /\ pc[t] = "scan"
        /\ idx[t] <= Len(cases[t])
        /\ lock[c] = NoThread
        /\ \/ /\ take(t, c)
              /\ Unregister(t, "take")
              /\ UNCHANGED listeners
           \/ /\ queue[c] = <<>> /\ closed[c]
              /\ out' = [out EXCEPT ![t] = "eof"]
              /\ Unregister(t, "take")
              /\ UNCHANGED <<queue, msg, listeners>>
           \/ /\ queue[c] = <<>> /\ ~closed[c]
              /\ listeners' = [listeners EXCEPT ![c][t] = @ + 1]
              /\ idx' = [idx EXCEPT ![t] = @ + 1]
              /\ UNCHANGED <<queue, msg, out, pc, after>>
           \/ /\ queue[c] = <<>> /\ ~closed[c] /\ AllocMayFail
              /\ out' = [out EXCEPT ![t] = "oom"]
              /\ Unregister(t, "return")
              /\ UNCHANGED <<queue, msg, listeners>>
        /\ UNCHANGED <<lock, closed, collected, refVars, cases, timed, live,
                       signaled, todo, ops>>

\* Every case has a listener. (Mutant: the flag is cleared here, not before.)
scan_end_clearing(t) ==
    /\ pc[t] = "scan"
    /\ idx[t] > Len(cases[t])
    /\ Goto(t, "select")
    /\ signaled' = [signaled EXCEPT ![t] = FALSE]
    /\ UNCHANGED <<chanVars, refVars, cases, idx, timed, live, after, todo, msg, out, ops>>
scan_end(t) ==
    /\ pc[t] = "scan"
    /\ idx[t] > Len(cases[t])
    /\ Goto(t, "select")
    /\ UNCHANGED <<chanVars, refVars, cases, idx, pickVars, todo, msg, out, ops>>

\* The loop under sel.lock: leave it when signaled, wait otherwise. (Mutant: the
\* wait is l_cond_wait whether or not there is a timeout.)
pick_wait_untimed(t) ==
    /\ pc[t] = "select"
    /\ \/ /\ signaled[t]
          /\ Unregister(t, "rescan")
          /\ UNCHANGED timed
       \/ /\ ~signaled[t]
          /\ Goto(t, "sel_wait")
          /\ timed' = [timed EXCEPT ![t] = FALSE]
          /\ UNCHANGED <<idx, after>>
    /\ UNCHANGED <<chanVars, refVars, cases, live, signaled, todo, msg, out, ops>>
pick_wait(t) ==
    /\ pc[t] = "select"
    /\ \/ /\ signaled[t]
          /\ Unregister(t, "rescan")
       \/ /\ ~signaled[t]
          /\ Goto(t, "sel_wait")
          /\ UNCHANGED <<idx, after>>
    /\ UNCHANGED <<chanVars, refVars, cases, timed, live, signaled, todo, msg, out, ops>>

\* l_cond_wait_timeout returns LTHREAD_TIMEDOUT: a sender may still set the
\* flag after this, it is not looked at again.
pick_timeout(t) ==
    /\ pc[t] = "sel_wait"
    /\ timed[t]
    /\ out' = [out EXCEPT ![t] = "timeout"]
    /\ Unregister(t, "return")
    /\ UNCHANGED <<chanVars, refVars, cases, timed, live, signaled, todo, msg, ops>>

\* Unlink the first node of this selector, if the list has one, under ch->lock.
unlink(t, c) ==
    /\ lock[c] = NoThread
    /\ \/ /\ listeners[c][t] > 0
          /\ listeners' = [listeners EXCEPT ![c][t] = @ - 1]
       \/ /\ listeners[c][t] = 0
          /\ UNCHANGED listeners

\* One turn of unregister_all.
unregister_all(t) ==
    /\ pc[t] = "unregister"
    /\ idx[t] <= Len(cases[t])
    /\ unlink(t, Chan(t))
    /\ idx' = [idx EXCEPT ![t] = @ + 1]
    /\ UNCHANGED <<lock, queue, closed, collected, refVars, pc, cases, pickVars,
                   todo, msg, out, ops>>

\* The selector is destroyed, and pick delivers, returns or looks again.
unregister_end(t) ==
    /\ pc[t] = "unregister"
    /\ idx[t] > Len(cases[t])
    /\ live' = [live EXCEPT ![t] = FALSE]
    /\ idx' = [idx EXCEPT ![t] = 1]
    /\ \/ /\ after[t] = "rescan"
          /\ Goto(t, "rescan")
       \/ /\ after[t] = "take" /\ msg[t] # NoMsg
          /\ Goto(t, "fetch")
       \/ /\ after[t] = "return" \/ (after[t] = "take" /\ msg[t] = NoMsg)
          /\ Goto(t, "idle")
    /\ after' = [after EXCEPT ![t] = "none"]
    /\ UNCHANGED <<chanVars, refVars, cases, timed, signaled, todo, msg, out, ops>>

\* One turn of the last loop, after a signal.
rescan_case(t) ==
    LET c == Chan(t)
    IN  /\ pc[t] = "rescan"
        /\ idx[t] <= Len(cases[t])
        /\ lock[c] = NoThread
        /\ \/ /\ take(t, c)
              /\ Goto(t, "fetch")
              /\ UNCHANGED idx
           \/ /\ queue[c] = <<>> /\ closed[c]
              /\ Return(t, "eof")
              /\ UNCHANGED <<queue, msg, idx>>
           \/ /\ queue[c] = <<>> /\ ~closed[c]
              /\ idx' = [idx EXCEPT ![t] = @ + 1]
              /\ UNCHANGED <<queue, msg, out, pc>>
        /\ UNCHANGED <<lock, closed, listeners, collected, refVars, cases, pickVars,
                       todo, ops>>

\* Nothing is left on any of the channels: return 0, no case chosen.
rescan_end(t) ==
    /\ pc[t] = "rescan"
    /\ idx[t] > Len(cases[t])
    /\ Return(t, "nocase")
    /\ UNCHANGED <<chanVars, refVars, cases, idx, pickVars, todo, msg, ops>>

\* A condition variable may wake a thread nobody signalled.
spurious_wakeup(t) ==
    /\ \/ pc[t] = "recv_wait" /\ Goto(t, "recv_woken")
       \/ pc[t] = "sel_wait" /\ Goto(t, "select")
    /\ UNCHANGED <<chanVars, refVars, cases, idx, pickVars, todo, msg, out, ops>>

----------------------------------------------------------------------------
\* What a Lua program may start.
Call(t) ==
    \/ \E c \in Channels :
        \/ \E m \in Messages : \/ send_mismatch(t, c, m)
                               \/ channel_send(t, c, m)
                               \/ channel_try_send(t, c, m)
        \/ channel_receive(t, c)
        \/ channel_try_receive(t, c)
        \/ channel_peek(t, c)
        \/ channel_close(t, c)
    \/ \E cs \in CaseLists, over \in BOOLEAN : thread_pick(t, cs, over)

\* The rest of a call that was started.
Step(t) ==
    \/ send_locked(t) \/ try_send_locked(t)
    \/ notify_listener(t) \/ notify_done(t)
    \/ receive_locked(t) \/ fetch(t)
    \/ scan_case(t) \/ scan_end(t) \/ pick_wait(t) \/ pick_timeout(t)
    \/ unregister_all(t) \/ unregister_end(t)
    \/ rescan_case(t) \/ rescan_end(t)

\* Nothing that was started has anything left to do: every thread runs its own
\* program, or waits, with no timeout, for channels that are open and empty.
Quiescent ==
    /\ \A t \in Threads :
        \/ pc[t] = "idle"
        \/ /\ pc[t] = "recv_wait" \/ (pc[t] = "sel_wait" /\ ~timed[t])
           /\ \A i \in DOMAIN cases[t] :
                queue[cases[t][i]] = <<>> /\ ~closed[cases[t][i]]
    /\ UNCHANGED vars

Next ==
    \/ \E t \in Threads : Call(t) \/ Step(t) \/ spurious_wakeup(t)
    \/ \E c \in Channels : channel_gc(c)
    \/ Quiescent

Spec == Init /\ [][Next]_vars

\* Every thread inside a call is scheduled; a program need not make a call. A
\* condition variable does not wake threads for nothing for ever: the loop of
\* pick restarts the whole timeout at every wake-up, and would never time out.
FairSpec ==
    /\ Spec
    /\ \A t \in Threads : WF_vars(Step(t))
    /\ <>[][\A t \in Threads : ~spurious_wakeup(t)]_vars
----------------------------------------------------------------------------
(***************************************************************************)
(* Properties.                                                             *)
(***************************************************************************)
Queued(c) == {queue[c][i] : i \in DOMAIN queue[c]}

\* Every variable has its type, a step that names a channel has one, and a step
\* that stores or delivers a reference has one.
TypeOK ==
    /\ lock \in [Channels -> Threads \cup {NoThread}]
    /\ queue \in [Channels -> Seq(Messages)]
    /\ closed \in [Channels -> BOOLEAN]
    /\ listeners \in [Channels -> [Threads -> Nat]]
    /\ collected \subseteq Channels
    /\ anchored \subseteq Messages
    /\ fresh \subseteq Messages
    /\ pc \in [Threads -> PCs]
    /\ cases \in [Threads -> Seq(Channels)]
    /\ idx \in [Threads -> Nat \ {0}]
    /\ timed \in [Threads -> BOOLEAN]
    /\ live \in [Threads -> BOOLEAN]
    /\ signaled \in [Threads -> BOOLEAN]
    /\ after \in [Threads -> {"none", "take", "return", "rescan"}]
    /\ todo \in [Threads -> SUBSET Threads]
    /\ msg \in [Threads -> Messages \cup {NoMsg}]
    /\ out \in [Threads -> Messages \cup Results]
    /\ ops \in [Threads -> Nat]
    /\ \A t \in Threads :
        pc[t] \in {"send", "try_send", "walk", "receive", "recv_wait", "recv_woken"}
            => idx[t] \in DOMAIN cases[t]
    /\ \A t \in Threads :
        pc[t] \in {"send", "try_send", "fetch"} => msg[t] \in Messages

\* A message is in exactly one place: queued once on one channel, or held by
\* one thread on its way in or out. And its luaL_ref has still to be answered by a
\* luaL_unref exactly while it is in such a place: on no path of send, receive, pick and
\* the finaliser is a release forgotten, or made twice, or made for an element that is
\* still queued. Whether the reference leads to the value is for ChannelRefs to say.
MessagesAccounted ==
    /\ anchored = (UNION {Queued(c) : c \in Channels})
                        \cup ({msg[t] : t \in Threads} \ {NoMsg})
    /\ fresh \cap anchored = {}
    /\ \A c, d \in Channels : \A i \in DOMAIN queue[c], j \in DOMAIN queue[d] :
            queue[c][i] = queue[d][j] => c = d /\ i = j
    /\ \A t, u \in Threads : msg[t] = msg[u] /\ msg[t] # NoMsg => t = u
    /\ \A t \in Threads, c \in Channels : msg[t] \notin Queued(c)

\* No channel lists, and no notifier is about to lock, a selector that has been
\* destroyed with the stack frame it lived in; the nodes a notifier walks stay
\* linked until it has unlocked the channel.
SelectorsAlive ==
    /\ \A c \in Channels, t \in Threads : listeners[c][t] > 0 => live[t]
    /\ \A t \in Threads : \A s \in todo[t] :
        live[s] /\ lock[Chan(t)] = t /\ listeners[Chan(t)][s] > 0

\* While receivers wait on ch->cond, every element of the queue has a receiver
\* on its way: it was woken and has still to run. One l_cond_signal per send
\* suffices although receivers, try_recv and pick steal from each other.
NoLostWakeup ==
    \A c \in Channels :
        Waiters(c) # {} => Len(queue[c]) <= Cardinality(Woken(c))

\* A thread blocked in pick, or about to block, is signalled or about to be as
\* soon as one of its channels is closed or holds an element nobody was there
\* to take.
PickNotified ==
    \A t \in Threads :
        pc[t] \in {"select", "sel_wait"} /\ ~signaled[t] =>
            \A i \in DOMAIN cases[t] :
                LET c == cases[t][i]
                IN  \/ queue[c] = <<>> /\ ~closed[c]
                    \/ lock[c] \in Threads /\ t \in todo[lock[c]]

\* A thread blocked in receive returns once its channel is closed, with one of
\* the elements left on it or with nil, and a thread blocked in pick once one of
\* its channels is.
CloseReleases ==
    \A t \in Threads, c \in Channels :
        /\ (closed[c] /\ pc[t] \in {"receive", "recv_wait", "recv_woken"} /\ Chan(t) = c)
                ~> pc[t] = "idle"
        /\ (closed[c] /\ pc[t] \in {"scan", "select", "sel_wait"} /\ Uses(t, c))
                ~> pc[t] = "idle"

\* A pick with a timeout case returns.
TimedPickReturns ==
    \A t \in Threads : (timed[t] /\ pc[t] \in PickPCs) ~> pc[t] = "idle"

\* The channels are FIFO queues of elements, each operation taking effect at one moment
\* between its call and its return.
Abs == INSTANCE ChannelAbs
RefinesChannelAbs == Abs!Spec
=============================================================================
