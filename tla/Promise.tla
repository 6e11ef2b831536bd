------------------------------ MODULE Promise ------------------------------
(***************************************************************************)
(* Promises (src/src/utils/lpromise.c) and the async functions that await  *)
(* them (src/src/utils/laio.c). One thread runs the loop, every callback   *)
(* and all Lua code; promises settle inside one another, because settling  *)
(* one calls its handlers and resumes the coroutine that awaits it.        *)
(*                                                                         *)
(* Grain: work is what the C stack has still to do, the next thing first.  *)
(* At a handler, in a coroutine and whenever the loop runs, Lua code may   *)
(* make any call. The collector runs anywhere. Results are left out, and a *)
(* combinator has two promises.                                            *)
(***************************************************************************)
EXTENDS Integers, Sequences, FiniteSets, SequencesExt

CONSTANTS
    Promises,       \* the promises that may come to be
    Coroutines,     \* the calls of async functions
    Allowed,        \* what programs do that the code does not allow for:
                    \* "drop": lose a promise that something will still settle
                    \* "share": wait for one promise more than once
                    \* "late": withTimeout of a promise that is settled already
    Programs,       \* bound: the calls a program makes, how many of them, and
                    \* how many promises it has
    NoPromise, NoWaiter

ASSUME PromiseAssumption ==
    /\ IsFiniteSet(Promises)
    /\ Allowed \subseteq {"drop", "share", "late"}
    /\ \A prog \in Programs : prog.ops \in Nat /\ prog.promises \in 0 .. Cardinality(Promises)
    /\ Promises \cap Coroutines = {}
    /\ NoPromise \notin Promises /\ NoWaiter \notin Promises \cup Coroutines

VARIABLES
    state,      \* state[p]: p->state, "unborn" before p is allocated
    freed,      \* the promises whose memory has been freed
    ref_count,  \* ref_count[p]: p->ref_count
    reactions,  \* reactions[p]: the list p->reactions
    awaiter,    \* awaiter[p]: whom p->aco_ctx and on_settled are for, a coroutine
                \* or the combinator that made a promise
    handle,     \* handle[p]: the userdata of p, "lost" if no program ever had it
    op,         \* op[p]: the operation of the loop that will settle p
    co,         \* co[c]: the coroutine_context of c
    work,       \* the C stack
    combo,      \* combo[p]: the compose_ctx whose parent is p
    origin,     \* origin[p]: the call of then, catch or finally that made p
    cancelled,  \* promises that were settled by cancel
    program,    \* bound: the one of Programs that runs
    ops         \* calls Lua code has made

memory == <<freed, ref_count>>
owners == <<handle, op>>
history == <<origin, cancelled>>
bounds == <<program, ops>>
vars == <<state, memory, reactions, awaiter, owners, combo, co, work, history, bounds>>

Settled == {"fulfilled", "rejected"}
Types == {"then", "catch", "finally"}
Modes == {"all", "race", "allSettled", "any"}
NoOrigin == [parent |-> NoPromise, type |-> "none", handler |-> FALSE, calls |-> 0]
NoContext == [status |-> "unused", result |-> NoPromise, waiting |-> NoPromise]
NoCombo == [mode |-> "none", children |-> <<>>, count |-> 0, status |-> "none"]

\* What the C stack has to do.
Settle(p, how) == [do |-> "settle", p |-> p, how |-> how]
React(p, r)    == [do |-> "react", p |-> p, r |-> r]
Handler(p, r)  == [do |-> "handler", p |-> p, r |-> r]
Notify(p)      == [do |-> "notify", p |-> p]
Release(p)     == [do |-> "release", p |-> p]
Run(c, p)      == [do |-> "run", c |-> c, p |-> p]
Finish(c, p, how) == [do |-> "finish", c |-> c, p |-> p, how |-> how]
Combined(p)    == [do |-> "combined", p |-> p]
Sync(p)        == [do |-> "sync", p |-> p]
Return(p, new) == [do |-> "return", p |-> p, new |-> new]

Doing(what) == work # <<>> /\ Head(work).do = what
Now == Head(work)
Next_do(items) == work' = items \o Tail(work)
InLua == work = <<>> \/ Doing("handler") \/ Doing("run") \/ Doing("sync")
May_call(what) == InLua /\ what \in program.calls /\ ops < program.ops

Init ==
    /\ state = [p \in Promises |-> "unborn"]
    /\ freed = {}
    /\ ref_count = [p \in Promises |-> 0]
    /\ reactions = [p \in Promises |-> <<>>]
    /\ awaiter = [p \in Promises |-> NoWaiter]
    /\ handle = [p \in Promises |-> "none"]
    /\ op = [p \in Promises |-> "none"]
    /\ co = [c \in Coroutines |-> NoContext]
    /\ work = <<>>
    /\ origin = [p \in Promises |-> NoOrigin]
    /\ combo = [p \in Promises |-> NoCombo]
    /\ cancelled = {}
    /\ program \in Programs
    /\ ops = 0

----------------------------------------------------------------------------
(***************************************************************************)
(* The C stack.                                                            *)
(***************************************************************************)
\* promise_resolve and promise_reject: settled once, then trigger_reactions, the
\* last one registered first, and on_settled. (Mutants: settled again; the list
\* of reactions is kept.)
May_settle_always(p) == TRUE
May_settle(p) == state[p] = "pending"
No_reactions_later(p) == reactions' = reactions
No_reactions(p) == reactions' = [reactions EXCEPT ![p] = <<>>]
Reactions_of(p) == [i \in DOMAIN reactions[p] |-> React(p, reactions[p][i])]
settle ==
    /\ Doing("settle")
    /\ LET p == Now.p IN
        \/ /\ ~May_settle(p)
           /\ Next_do(<<>>)
           /\ UNCHANGED <<state, reactions>>
        \/ /\ May_settle(p)
           /\ state' = [state EXCEPT ![p] = Now.how]
           /\ No_reactions(p)
           /\ Next_do(Reactions_of(p) \o <<Notify(p)>>)
    /\ UNCHANGED <<memory, awaiter, owners, combo, co, history, bounds>>

\* execute_reaction: the handler, or the parent's result if it has none. A then
\* of a rejected promise and a catch of a fulfilled one do nothing.
Concerns(r, p) ==
    \/ r.type = "finally"
    \/ r.type = "then" /\ state[p] = "fulfilled"
    \/ r.type = "catch" /\ state[p] = "rejected"
execute_reaction ==
    /\ Doing("react")
    /\ LET p == Now.p
           r == Now.r
           calls == Concerns(r, p) /\ r.handler
       IN  /\ Next_do(IF calls THEN <<Handler(p, r)>>
                      ELSE IF Concerns(r, p) THEN <<Settle(r.child, state[p]), Release(r.child)>>
                      ELSE <<Release(r.child)>>)
           /\ origin' = IF calls THEN [origin EXCEPT ![r.child].calls = @ + 1] ELSE origin
    /\ UNCHANGED <<state, memory, reactions, awaiter, owners, combo, co, cancelled, bounds>>

\* The handler returns, or raises an error. (Mutant: the error of a finally
\* handler rejects its child.)
Outcome_of_handler(r, p, how) == how
Outcome(r, p, how) == IF r.type = "finally" THEN state[p] ELSE how
handler_done ==
    /\ Doing("handler")
    /\ \E how \in Settled :
        LET r == Now.r
        IN  Next_do(<<Settle(r.child, Outcome(r, Now.p, how)), Release(r.child)>>)
    /\ UNCHANGED <<state, memory, reactions, awaiter, owners, combo, co, history, bounds>>

\* promise_release. The reactions of a promise that is freed while it is pending
\* are freed with it.
release ==
    /\ Doing("release")
    /\ LET p == Now.p
           last == ref_count[p] = 1
       IN  /\ ref_count' = [ref_count EXCEPT ![p] = @ - 1]
           /\ freed' = IF last THEN freed \cup {p} ELSE freed
           /\ reactions' = IF last THEN [reactions EXCEPT ![p] = <<>>] ELSE reactions
           /\ Next_do(IF last
                      THEN [i \in DOMAIN reactions[p] |-> Release(reactions[p][i].child)]
                      ELSE <<>>)
    /\ UNCHANGED <<state, awaiter, owners, combo, co, history, bounds>>

\* on_settled is laio_promise_settled: the coroutine that awaits p goes on, with
\* the result or, when p was rejected, with nil.
laio_promise_settled ==
    /\ Doing("notify")
    /\ LET p == Now.p
           c == awaiter[p]
       IN  \/ c = NoWaiter /\ Next_do(<<>>) /\ UNCHANGED <<awaiter, co>>
           \/ /\ c \in Coroutines
              /\ awaiter' = [awaiter EXCEPT ![p] = NoWaiter]
              /\ co' = [co EXCEPT ![c].status = "running"]
              /\ Next_do(<<Run(c, p)>>)
    /\ UNCHANGED <<state, memory, reactions, owners, combo, history, bounds>>

\* Or it is compose_on_settled: the combinator that watches p looks at it, unless
\* it has decided or its promise was settled by somebody else. (Mutant: all
\* counts a child without a look at what it became.)
Decision_by_count(m, how) ==
    IF combo[m].mode = "race" \/ (combo[m].mode = "any" /\ how = "fulfilled") THEN how
    ELSE IF combo[m].count + 1 < Len(combo[m].children) THEN "pending"
    ELSE IF combo[m].mode = "any" THEN "rejected" ELSE "fulfilled"
Decision(m, how) ==
    IF \/ combo[m].mode = "race"
       \/ combo[m].mode = "all" /\ how = "rejected"
       \/ combo[m].mode = "any" /\ how = "fulfilled"
    THEN how
    ELSE IF combo[m].count + 1 < Len(combo[m].children) THEN "pending"
    ELSE IF combo[m].mode = "any" THEN "rejected" ELSE "fulfilled"
compose_on_settled ==
    /\ Doing("notify")
    /\ awaiter[Now.p] \in Promises
    /\ LET m == awaiter[Now.p]
           verdict == Decision(m, state[Now.p])
       IN  IF combo[m].status # "waiting" \/ state[m] # "pending"
           THEN /\ combo' = [combo EXCEPT ![m].status = "decided"]
                /\ Next_do(<<>>)
           ELSE IF verdict = "pending"
           THEN /\ combo' = [combo EXCEPT ![m].count = @ + 1]
                /\ Next_do(<<>>)
           ELSE /\ combo' = [combo EXCEPT ![m].status = "decided"]
                /\ Next_do(<<Settle(m, verdict), Combined(m)>>)
    /\ UNCHANGED <<state, memory, reactions, awaiter, owners, co, history, bounds>>

\* Its end: the children are let go of, one reference each, and it is freed.
\* (Mutant: they still point to it.)
Let_go_pointing(m) == awaiter
Let_go(m) == [q \in Promises |-> IF q \in ToSet(combo[m].children) THEN NoWaiter ELSE awaiter[q]]
compose_free ==
    /\ Doing("combined")
    /\ LET children == combo[Now.p].children
       IN  Next_do([i \in DOMAIN children |-> Release(children[i])])
    /\ awaiter' = Let_go(Now.p)
    /\ combo' = [combo EXCEPT ![Now.p].status = "freed"]
    /\ UNCHANGED <<state, memory, reactions, owners, co, history, bounds>>

\* OP_AWAIT in the coroutine yields q to whoever runs it, who registers the
\* coroutine with q. (Mutants: a promise that is settled already is waited for
\* like any other; the coroutine keeps no reference to q.)
Awaited_unretained(q) == ref_count
Awaited(q) == [ref_count EXCEPT ![q] = @ + 1]
Await_settled_never(q) == <<>>
Await_settled(q) == IF state[q] \in Settled THEN <<Notify(q)>> ELSE <<>>
await ==
    /\ Doing("run") /\ May_call("await")
    /\ LET c == Now.c IN \E q \in Promises :
        /\ handle[q] = "held"
        /\ "share" \notin Allowed => awaiter[q] = NoWaiter
        /\ ref_count' = Awaited(q)
        /\ awaiter' = [awaiter EXCEPT ![q] = c]
        /\ co' = [co EXCEPT ![c].status = "suspended", ![c].waiting = q]
        /\ Next_do((IF co[c].waiting = NoPromise THEN <<>> ELSE <<Release(co[c].waiting)>>)
                   \o Await_settled(q))
    /\ ops' = ops + 1
    /\ UNCHANGED <<state, freed, reactions, owners, combo, history, program>>

\* asyncio.wait(q), a call in the coroutine (laio_await): it goes on at once with
\* what is settled already, as an error if that was rejected. Otherwise it yields
\* nothing, and whoever runs the coroutine finds q still on its stack and
\* registers it once more. The references waited for before are not given back.
wait ==
    /\ Doing("run") /\ May_call("wait")
    /\ LET c == Now.c IN \E q \in Promises :
        /\ handle[q] = "held"
        /\ "share" \notin Allowed => awaiter[q] = NoWaiter
        /\ \/ /\ state[q] \in Settled
              /\ UNCHANGED <<ref_count, awaiter, co, work>>
           \/ /\ state[q] = "pending"
              /\ ref_count' = [ref_count EXCEPT ![q] = @ + (IF Now.p = NoPromise THEN 2 ELSE 1)]
              /\ awaiter' = [awaiter EXCEPT ![q] = c]
              /\ co' = [co EXCEPT ![c].status = "suspended", ![c].waiting = q]
              /\ Next_do(<<>>)
    /\ ops' = ops + 1
    /\ UNCHANGED <<state, freed, reactions, owners, combo, history, program>>

\* The coroutine's function returns or raises an error: its promise is settled
\* and the context freed, in case of an error with the reference to the promise
\* it last waited for. The fields of that promise are cleared once more, in case
\* of an error before its own promise is settled, otherwise after.
Cleared(p) == [q \in Promises |-> IF q = p THEN NoWaiter ELSE awaiter[q]]
coroutine_done ==
    /\ Doing("run")
    /\ LET c == Now.c IN \E how \in Settled :
        /\ Next_do(<<Settle(co[c].result, how), Finish(c, Now.p, how)>>)
        /\ awaiter' = IF how = "rejected" THEN Cleared(Now.p) ELSE awaiter
    /\ UNCHANGED <<state, memory, reactions, owners, combo, co, history, bounds>>

coroutine_free ==
    /\ Doing("finish")
    /\ LET c == Now.c
           waiting == co[c].waiting
       IN  /\ co' = [co EXCEPT ![c] = [NoContext EXCEPT !.status = "done"]]
           /\ Next_do(IF Now.how = "rejected" /\ waiting # NoPromise THEN <<Release(waiting)>> ELSE <<>>)
           /\ awaiter' = IF Now.how = "fulfilled" THEN Cleared(Now.p) ELSE awaiter
    /\ UNCHANGED <<state, memory, reactions, owners, combo, history, bounds>>

\* A call returns to Lua, with the userdata of a new promise.
return ==
    /\ Doing("return")
    /\ Next_do(<<>>)
    /\ handle' = IF Now.new = NoPromise THEN handle ELSE [handle EXCEPT ![Now.new] = "held"]
    /\ UNCHANGED <<state, memory, reactions, awaiter, op, combo, co, history, bounds>>

----------------------------------------------------------------------------
(***************************************************************************)
(* Calls Lua code makes: what they have the C stack do comes before the    *)
(* rest of it.                                                             *)
(***************************************************************************)
Call(items) == ops' = ops + 1 /\ work' = items \o work
Unborn == {p \in Promises : state[p] = "unborn"}
Fresh(used) ==  \* which one is taken makes no difference
    IF Cardinality((Promises \ Unborn) \cup used) < program.promises
    THEN {CHOOSE p \in Unborn \ used : TRUE} ELSE {}
Born(p) == state' = [state EXCEPT ![p] = "pending"]

\* aio_sleep, defer: a promise that the loop settles later.
spawn(p) ==
    /\ Call(<<>>)
    /\ Born(p)
    /\ ref_count' = [ref_count EXCEPT ![p] = 2]
    /\ handle' = [handle EXCEPT ![p] = "held"]
    /\ op' = [op EXCEPT ![p] = "operation"]
    /\ UNCHANGED <<freed, reactions, awaiter, combo, co, history, program>>

\* promise_resolved, promise_rejected, and a sleep of no time: settled at once.
settled(p, how) ==
    /\ Born(p)
    /\ ref_count' = [ref_count EXCEPT ![p] = 1]
    /\ Call(<<Settle(p, how), Return(NoPromise, p)>>)
    /\ UNCHANGED <<freed, reactions, awaiter, owners, combo, co, history, program>>

\* p:done, p:fail, p:finally: promise_then, promise_catch, promise_finally. The
\* reaction holds the child, and so does the userdata made on return.
chain(p, type, handler, child) ==
    /\ handle[p] = "held" /\ (type = "finally" => handler)
    /\ Born(child)
    /\ ref_count' = [ref_count EXCEPT ![child] = 2]
    /\ origin' = [origin EXCEPT ![child] = [parent |-> p, type |-> type, handler |-> handler, calls |-> 0]]
    /\ LET all == <<[type |-> type, handler |-> handler, child |-> child]>> \o reactions[p]
       IN  \/ /\ state[p] = "pending"
              /\ reactions' = [reactions EXCEPT ![p] = all]
              /\ Call(<<Return(p, child)>>)
           \/ /\ state[p] \in Settled
              /\ reactions' = [reactions EXCEPT ![p] = <<>>]
              /\ Call([i \in DOMAIN all |-> React(p, all[i])] \o <<Return(p, child)>>)
    /\ UNCHANGED <<freed, awaiter, owners, combo, co, cancelled, program>>

\* p:cancel()
cancel(p) ==
    /\ handle[p] = "held" /\ state[p] = "pending"
    /\ cancelled' = cancelled \cup {p}
    /\ Call(<<Settle(p, "rejected"), Return(p, NoPromise)>>)
    /\ UNCHANGED <<state, memory, reactions, awaiter, owners, combo, co, origin, program>>

\* A call of an async function: aio_run_async runs it up to its first await. The
\* userdata of its promise is made when that returns, and has the only reference.
run_async(c, p) ==
    /\ Call(<<Run(c, NoPromise), Return(NoPromise, p)>>)
    /\ co[c].status = "unused"
    /\ c = CHOOSE d \in Coroutines : co[d].status = "unused"
    /\ Born(p)
    /\ ref_count' = [ref_count EXCEPT ![p] = 1]
    /\ co' = [co EXCEPT ![c] = [status |-> "running", result |-> p, waiting |-> NoPromise]]
    /\ UNCHANGED <<freed, reactions, awaiter, owners, combo, history, program>>

\* p:await_sync(): iterates the loop until p is settled or its time is over.
await_sync(p) ==
    /\ handle[p] = "held" /\ state[p] = "pending"
    /\ Call(<<Sync(p)>>)
    /\ UNCHANGED <<state, memory, reactions, awaiter, owners, combo, co, history, program>>

sync_done ==
    /\ Doing("sync")
    /\ Next_do(<<>>)
    /\ UNCHANGED <<state, memory, reactions, awaiter, owners, combo, co, history, bounds>>

\* promise_all, promise_race, promise_all_settled and promise_any: what they
\* decide at once from the states they find, one for each child.
Verdict(mode, found) ==
    LET some(how) == \E i \in DOMAIN found : found[i] = how
        first == CHOOSE i \in DOMAIN found :
                    found[i] # "pending" /\ \A j \in 1 .. i - 1 : found[j] = "pending"
        none_left(how) == IF some("pending") THEN "pending" ELSE how
    IN  CASE mode = "all" -> IF some("rejected") THEN "rejected" ELSE none_left("fulfilled")
          [] mode = "any" -> IF some("fulfilled") THEN "fulfilled" ELSE none_left("rejected")
          [] mode = "allSettled" -> none_left("fulfilled")
          [] mode = "race" -> IF some("fulfilled") \/ some("rejected") THEN found[first] ELSE "pending"
Pending(found) == {i \in DOMAIN found : found[i] = "pending"}

\* Otherwise they watch the pending ones. They hold a reference to each child,
\* and one more to each they watch, which is never given back; neither are the
\* others when all or allSettled find nothing to wait for.
Count_settled(found) == Cardinality((DOMAIN found) \ Pending(found))
Compose(mode, children, m, st, refs) ==
    LET found == [i \in DOMAIN children |-> st[children[i]]]
        verdict == Verdict(mode, found)
        at(q) == {i \in DOMAIN children : children[i] = q}
        given_up == verdict = "rejected" /\ mode = "all"
        unwatched == {i \in Pending(found) : \E j \in DOMAIN found : i < j /\ found[j] = "rejected"}
    IN  /\ state' = [st EXCEPT ![m] = verdict]
        /\ ref_count' = [q \in Promises |->
            IF q = m THEN 1
            ELSE CASE verdict = "pending" -> refs[q] + Cardinality(at(q)) + Cardinality(at(q) \cap Pending(found))
                   [] verdict = "fulfilled" /\ mode \in {"all", "allSettled"} -> refs[q] + Cardinality(at(q))
                   [] OTHER -> refs[q]]
        /\ awaiter' = [q \in Promises |->
            CASE verdict = "pending" /\ at(q) \cap Pending(found) # {} -> m
              [] given_up /\ at(q) \cap unwatched # {} -> NoWaiter
              [] OTHER -> awaiter[q]]
        /\ combo' = [combo EXCEPT ![m] =
            [mode |-> mode, children |-> children, count |-> Count_settled(found),
             status |-> IF verdict = "pending" THEN "waiting" ELSE "freed"]]

Sharing(children) ==
    \/ \E i \in DOMAIN children : awaiter[children[i]] # NoWaiter
    \/ \E i, j \in DOMAIN children : i # j /\ children[i] = children[j]

combine(mode, p, q, m) ==
    /\ Call(<<>>)
    /\ handle[p] = "held" /\ handle[q] = "held"
    /\ "share" \notin Allowed => ~Sharing(<<p, q>>)
    /\ Compose(mode, <<p, q>>, m, state, ref_count)
    /\ handle' = [handle EXCEPT ![m] = "held"]
    /\ UNCHANGED <<freed, reactions, op, co, history, program>>

\* laio_with_timeout, for a time above 0: the race of p with a promise t that a
\* timer rejects. The timer holds no reference to t, and gives one back.
with_timeout(p, t, m) ==
    /\ Call(<<>>)
    /\ handle[p] = "held"
    /\ "share" \notin Allowed => ~Sharing(<<p>>)
    /\ "late" \notin Allowed => state[p] = "pending"
    /\ Compose("race", <<p, t>>, m, [state EXCEPT ![t] = "pending"], [ref_count EXCEPT ![t] = 1])
    /\ handle' = [handle EXCEPT ![m] = "held", ![t] = "lost"]
    /\ op' = [op EXCEPT ![t] = "timeout"]
    /\ UNCHANGED <<freed, reactions, co, history, program>>

\* The loop completes the operation of p: timer_callback, file_complete,
\* http_complete, dns_complete, defer_callback, laio_wt_timer_callback.
complete(p, how) ==
    /\ work = <<>> \/ Doing("sync")
    /\ op[p] = "operation" \/ (op[p] = "timeout" /\ how = "rejected")
    /\ op' = [op EXCEPT ![p] = "none"]
    /\ work' = <<Settle(p, how), Release(p)>> \o work
    /\ UNCHANGED <<state, memory, reactions, awaiter, handle, combo, co, history, bounds>>

\* laio_gc. A call that has p on its stack keeps it; so does a program that waits
\* for p, or for the coroutine or the combinator that settles it.
Items == {work[i] : i \in DOMAIN work}
Wanted(p) ==
    \/ \E item \in Items : item.do \in {"sync", "combined"} /\ item.p = p
    \/ \E c \in Coroutines : co[c].result = p
    \/ combo[p].status = "waiting"
Kept(p) ==
    \/ \E item \in Items : item.do = "return" /\ item.p = p
    \/ "drop" \notin Allowed /\ Wanted(p)
collect(p) ==
    /\ handle[p] # "none" /\ ~Kept(p)
    /\ handle' = [handle EXCEPT ![p] = "none"]
    /\ work' = <<Release(p)>> \o work
    /\ UNCHANGED <<state, memory, reactions, awaiter, op, combo, co, history, bounds>>

----------------------------------------------------------------------------
Next ==
    \/ settle \/ execute_reaction \/ handler_done \/ release \/ laio_promise_settled
    \/ compose_on_settled \/ compose_free
    \/ await \/ wait \/ coroutine_done \/ coroutine_free \/ return \/ sync_done
    \/ \E p \in Promises : collect(p) \/ \E how \in Settled : complete(p, how)
    \/ May_call("spawn") /\ \E p \in Fresh({}) : spawn(p)
    \/ May_call("settled") /\ \E p \in Fresh({}), how \in Settled : settled(p, how)
    \/ \E type \in Types : May_call(type) /\
        \E p \in Promises, handler \in BOOLEAN, child \in Fresh({}) : chain(p, type, handler, child)
    \/ May_call("cancel") /\ \E p \in Promises : cancel(p)
    \/ May_call("run_async") /\ \E c \in Coroutines, p \in Fresh({}) : run_async(c, p)
    \/ May_call("await_sync") /\ \E p \in Promises : await_sync(p)
    \/ \E mode \in Modes : May_call(mode) /\
        \E p, q \in Promises, m \in Fresh({}) : combine(mode, p, q, m)
    \/ May_call("with_timeout") /\ \E p \in Promises, t \in Fresh({}) : \E m \in Fresh({t}) : with_timeout(p, t, m)

Spec == Init /\ [][Next]_vars

----------------------------------------------------------------------------
TypeOK ==
    /\ state \in [Promises -> {"unborn", "pending"} \cup Settled]
    /\ freed \subseteq Promises
    /\ ref_count \in [Promises -> Nat]
    /\ handle \in [Promises -> {"none", "held", "lost"}]
    /\ op \in [Promises -> {"none", "operation", "timeout"}]
    /\ awaiter \in [Promises -> Coroutines \cup Promises \cup {NoWaiter}]
    /\ \A p \in Promises : \A i \in DOMAIN reactions[p] : reactions[p][i].child \in Promises
    /\ \A p \in Promises : combo[p].status # "none" =>
        combo[p].mode \in Modes /\ combo[p].count \in 0 .. Len(combo[p].children)
    /\ \A c \in Coroutines : co[c] \in
        [status : {"unused", "running", "suspended", "done"},
         result : Promises \cup {NoPromise}, waiting : Promises \cup {NoPromise}]
    /\ cancelled \subseteq Promises /\ program \in Programs /\ ops \in 0 .. program.ops

\* Whatever the C stack, the loop, a reaction, a coroutine, a combinator or a
\* userdata still refers to has not been freed, in whichever order handlers,
\* coroutines, combinators and the collector give their references back; and a
\* pending promise points to no combinator that has been freed.
Refers(item) ==
    {item.p} \cup (IF item.do \in {"react", "handler"} THEN {item.r.child} ELSE {})
             \cup (IF item.do \in {"run", "finish"} THEN {co[item.c].result} ELSE {})
             \cup (IF item.do = "return" THEN {item.new} ELSE {})
PromisesAlive ==
    /\ \A item \in Items : Refers(item) \cap freed = {}
    /\ \A p \in freed : handle[p] = "none" /\ op[p] = "none"
    /\ \A p \in Promises : combo[p].status \in {"waiting", "decided"} => ToSet(combo[p].children) \cap freed = {}
    /\ \A p \in Promises : combo[p].status = "waiting" => p \notin freed
    /\ \A p \in Promises \ freed : state[p] = "pending" /\ awaiter[p] \in Promises
            => combo[awaiter[p]].status # "freed"
    /\ \A p \in Promises \ freed : \A i \in DOMAIN reactions[p] : reactions[p][i].child \notin freed
    /\ \A c \in Coroutines : {co[c].result, co[c].waiting} \cap freed = {}

\* When the loop is about to wait again nobody has been forgotten: a settled
\* promise has called its reactions and settled the children they concern (the
\* child of a then on a rejected promise, or of a catch on a fulfilled one, stays
\* pending), a coroutine that is suspended waits for a pending promise that
\* will resume it, and a combinator's promise is pending only while its children
\* leave the outcome open, each pending one of which will tell it.
NobodyForgotten ==
    work = <<>> =>
        /\ \A p \in Promises : state[p] \in Settled => reactions[p] = <<>> /\ awaiter[p] \notin Coroutines
        /\ \A p \in Promises : LET parent == origin[p].parent IN
            parent # NoPromise /\ state[parent] \in Settled /\ Concerns(origin[p], parent)
                => state[p] \in Settled
        /\ \A c \in Coroutines : co[c].status # "running"
        /\ \A c \in Coroutines : co[c].status = "suspended" =>
            state[co[c].waiting] = "pending" /\ awaiter[co[c].waiting] = c
        /\ \A m \in Promises : combo[m].mode # "none" /\ state[m] = "pending" =>
            LET found == [i \in DOMAIN combo[m].children |-> state[combo[m].children[i]]]
            IN  /\ Verdict(combo[m].mode, found) = "pending"
                /\ \A i \in Pending(found) : awaiter[combo[m].children[i]] = m

\* A handler is called once at most, though it may be registered before or after
\* its promise is settled, or by another handler of the same promise.
HandlersCalledOnce == \A p \in Promises : origin[p].calls <= 1

\* What a chained promise became, unless cancel settled it, agrees with what its
\* parent became: then follows success, catch follows failure, and both pass
\* through what they have no handler for; finally passes everything through.
ChainOutcome ==
    \A p \in Promises : state[p] \in Settled /\ p \notin cancelled /\ origin[p].parent # NoPromise =>
        LET parent == state[origin[p].parent] IN
        /\ parent \in Settled
        /\ origin[p].type = "then" => parent = "fulfilled"
        /\ origin[p].type = "catch" => parent = "rejected"
        /\ origin[p].type = "finally" \/ ~origin[p].handler => state[p] = parent

\* What a combinator's promise became, unless cancel settled it, agrees with its
\* children: all is fulfilled by all of them and rejected by one, any is fulfilled
\* by one and rejected by all, race became what one of them became, and allSettled
\* is fulfilled when none is pending.
CombinedOutcome ==
    \A m \in Promises : combo[m].mode # "none" /\ state[m] \in Settled /\ m \notin cancelled =>
        LET found == {state[q] : q \in ToSet(combo[m].children)}
        IN  CASE combo[m].mode = "all" -> IF state[m] = "fulfilled" THEN found = {"fulfilled"} ELSE "rejected" \in found
              [] combo[m].mode = "any" -> IF state[m] = "rejected" THEN found = {"rejected"} ELSE "fulfilled" \in found
              [] combo[m].mode = "race" -> state[m] \in found
              [] OTHER -> state[m] = "fulfilled" /\ "pending" \notin found

\* A settled promise stays what it is, whatever races to settle it: its
\* operation, cancel, the end of its coroutine.
SettledForGood == [][\A p \in Promises : state[p] \in Settled => state'[p] = state[p]]_vars
=============================================================================
