---------------------------- MODULE ThreadHandle ----------------------------
(***************************************************************************)
(* The thread objects of the thread library, src/src/stdlib/lthreadlib.c:  *)
(* a handle (a userdata), a Lua state and a native thread, which have three *)
(* different lifetimes. The state is kept alive by a registry reference,   *)
(* the handle by whoever holds it, and the collector looks at both between *)
(* any two steps.                                                          *)
(*                                                                         *)
(* Grain: C functions run without the interpreter's lock, which each API   *)
(* call takes for itself, so luaL_ref and luaL_unref (lauxlib.c) go one    *)
(* table access at a time.                                                 *)
(*                                                                         *)
(* Nothing stops a program, or the collector, from doing with a handle what*)
(* the library does not bear. strains records it, and the properties say   *)
(* what holds for as long as it has not happened.                          *)
(***************************************************************************)
EXTENDS Naturals, Sequences, FiniteSets

CONSTANTS
    Threads,    \* Lua states, each run by a native thread of its own
    Main        \* the one that exists from the start and never ends

ASSUME HandleAssumption ==
    /\ IsFiniteSet(Threads)
    /\ Main \in Threads
    /\ Threads \cap Nat = {}

VARIABLES
    status,     \* status[t]: where the native thread of t is in its life
    native,     \* native[t]: whether it has still to be joined or detached;
                \* "misused" is history: that was done to it in vain
    freed,      \* states the collector has freed
    handle,     \* handle[t]: the ThreadHandle of t
    holders,    \* holders[t]: the states from which that handle is reachable
    kept,       \* kept[t]: states that are values on the stack of t
    reported,   \* threads whose entry function has a handle to report to
    slots,      \* the registry after its predefined values: a state, or a link
    head,       \* registry[1]: the main thread, then the first free reference
    pc,         \* pc[t]: where t is
    call,       \* call[t]: the operation t is in, and on which thread
    reg,        \* reg[t]: the local variables of luaL_ref and luaL_unref
    failed,     \* history: threads that have ended in an error
    told,       \* told[t]: history: what join said of t
    strains     \* strains[t]: history: what was done with the handle of t that the
                \* library does not bear

lifeVars == <<status, native, freed, kept, reported>>
regVars == <<slots, head>>
vars == <<status, native, freed, handle, holders, kept, reported, slots, head,
          pc, call, reg, failed, told, strains>>

NoHandle == [exists |-> "no", bound |-> FALSE, ref |-> 0, joined |-> FALSE,
             detached |-> FALSE, has_error |-> FALSE]
NewHandle == [NoHandle EXCEPT !.exists = "yes", !.bound = TRUE]
LUA_NOREF == 0

RefPCs == {"ref_read", "ref_init", "ref_next", "ref_head", "ref_len", "ref_store",
           "unref_read", "unref_link", "unref_head"}
PCs == RefPCs \cup {"idle", "lua", "start", "join", "xjoin", "report"}

Finished == {"ended", "failed"}

----------------------------------------------------------------------------
On(t) == call[t].on
Goto(t, where) == pc' = [pc EXCEPT ![t] = where]
InCall(t) == pc[t] \in RefPCs \cup {"start", "join", "xjoin"}

\* What the library does not bear. t comes to the free list while somebody is there;
\* t joins, detaches or finalises the handle of u while somebody is in a call on it,
\* or of a thread that could not be made, or a handle that thread.self has made;
\* the thread whose handle is let go of has still to run.
Overlap(t) == IF \E w \in Threads \ {t} : pc[w] \in RefPCs THEN {"overlap"} ELSE {}
Misuse(t, u) ==
    (IF \E w \in Threads \ {t} : InCall(w) /\ On(w) = u THEN {"together"} ELSE {})
        \cup (IF status[u] = "failed" THEN {"fail"} ELSE {})
        \cup (IF handle[u].ref = LUA_NOREF THEN {"self"} ELSE {})
Loss(u) == IF status[u] \in Finished THEN {} ELSE {"release"}
Kinds == {"overlap", "together", "fail", "self", "release"}
Strain(u, what) == strains' = [strains EXCEPT ![u] = @ \cup what]

\* l_thread_join and l_thread_detach of the native thread of u.
Release(u) == [native EXCEPT ![u] = IF @ = "joinable" THEN "released" ELSE "misused"]

\* The states the collector finds, when t runs it: it marks the main thread, the
\* registry and the state it runs in, and what is on the stacks of those.
Roots(t) == {Main, t} \cup {u \in Threads : \E i \in DOMAIN slots : slots[i] = u}
Reached(t) ==
    {u \in Threads : \A S \in SUBSET Threads :
        Roots(t) \subseteq S /\ (\A s \in S : kept[s] \subseteq S) => u \in S}

Init ==
    /\ status = [t \in Threads |-> IF t = Main THEN "running" ELSE "none"]
    /\ native = [t \in Threads |-> IF t = Main THEN "joinable" ELSE "none"]
    /\ freed = {}
    /\ handle = [t \in Threads |-> NoHandle]
    /\ holders = [t \in Threads |-> {}]
    /\ kept = [t \in Threads |-> {}]
    /\ reported = {}
    /\ slots = <<>>
    /\ head = Main
    /\ pc = [t \in Threads |-> IF t = Main THEN "lua" ELSE "idle"]
    /\ call = [t \in Threads |-> [op |-> "none", on |-> t]]
    /\ reg = [t \in Threads |-> [ref |-> 0, next |-> 0]]
    /\ failed = {}
    /\ told = [t \in Threads |-> "nothing"]
    /\ strains = [t \in Threads |-> {}]

----------------------------------------------------------------------------
\* luaL_ref and luaL_unref on the registry.

ref_read(t) ==
    /\ pc[t] = "ref_read"
    /\ \/ /\ head \in Nat
          /\ reg' = [reg EXCEPT ![t].ref = head]
          /\ Goto(t, IF head = 0 THEN "ref_len" ELSE "ref_next")
       \/ /\ head \notin Nat
          /\ Goto(t, "ref_init")
          /\ UNCHANGED reg
    /\ UNCHANGED <<lifeVars, handle, holders, regVars, call, failed, told, strains>>

ref_init(t) ==
    /\ pc[t] = "ref_init"
    /\ head' = 0
    /\ Goto(t, "ref_len")
    /\ UNCHANGED <<lifeVars, handle, holders, slots, call, reg, failed, told, strains>>

ref_next(t) ==
    /\ pc[t] = "ref_next"
    /\ reg' = [reg EXCEPT ![t].next = slots[reg[t].ref]]
    /\ Goto(t, "ref_head")
    /\ UNCHANGED <<lifeVars, handle, holders, regVars, call, failed, told, strains>>

\* (Mutant: the list keeps the reference.)
ref_head_kept(t) ==
    /\ pc[t] = "ref_head"
    /\ Goto(t, "ref_store")
    /\ UNCHANGED <<lifeVars, handle, holders, regVars, call, reg, failed, told, strains>>
ref_head(t) ==
    /\ pc[t] = "ref_head"
    /\ head' = reg[t].next
    /\ Goto(t, "ref_store")
    /\ UNCHANGED <<lifeVars, handle, holders, slots, call, reg, failed, told, strains>>

ref_len(t) ==
    /\ pc[t] = "ref_len"
    /\ reg' = [reg EXCEPT ![t].ref = Len(slots) + 1]
    /\ Goto(t, "ref_store")
    /\ UNCHANGED <<lifeVars, handle, holders, regVars, call, failed, told, strains>>

\* Registry entry r becomes v.
Stored(r, v) == [i \in 1..(IF r > Len(slots) THEN r ELSE Len(slots)) |->
                    IF i = r THEN v ELSE slots[i]]

\* The state leaves the stack of its creator for the registry.
ref_store(t) ==
    /\ pc[t] = "ref_store"
    /\ slots' = Stored(reg[t].ref, On(t))
    /\ kept' = [kept EXCEPT ![t] = @ \ {On(t)}]
    /\ handle' = [handle EXCEPT ![On(t)].ref = reg[t].ref]
    /\ Goto(t, "start")
    /\ UNCHANGED <<status, native, freed, reported, holders, head, call, reg, failed, told, strains>>

unref_read(t) ==
    /\ pc[t] = "unref_read"
    /\ reg' = [reg EXCEPT ![t] = [ref |-> handle[On(t)].ref, next |-> head]]
    /\ Goto(t, "unref_link")
    /\ UNCHANGED <<lifeVars, handle, holders, regVars, call, failed, told, strains>>

\* (Mutant: the entry keeps its value.)
unref_unlinked(t) ==
    /\ pc[t] = "unref_link"
    /\ Goto(t, "unref_head")
    /\ UNCHANGED <<lifeVars, handle, holders, regVars, call, reg, failed, told, strains>>
unref_link(t) ==
    /\ pc[t] = "unref_link"
    /\ slots' = Stored(reg[t].ref, reg[t].next)
    /\ Goto(t, "unref_head")
    /\ UNCHANGED <<lifeVars, handle, holders, head, call, reg, failed, told, strains>>

\* What the caller of luaL_unref does with handle h afterwards. The handle of a
\* thread that could not be made keeps its state and its reference, and create raises
\* an error instead of returning it.
After(op, h) ==
    CASE op = "create" -> h
      [] op = "join"   -> [h EXCEPT !.bound = FALSE]
      [] op = "detach" -> [h EXCEPT !.bound = FALSE, !.detached = TRUE]
      [] op = "gc"     -> [h EXCEPT !.exists = "freed", !.bound = FALSE, !.detached = TRUE]

unref_head(t) ==
    /\ pc[t] = "unref_head"
    /\ head' = reg[t].ref
    /\ handle' = [handle EXCEPT ![On(t)] = After(call[t].op, @)]
    /\ holders' = [holders EXCEPT ![On(t)] = IF call[t].op = "create" THEN @ \ {t} ELSE @]
    /\ Goto(t, "lua")
    /\ UNCHANGED <<lifeVars, slots, call, reg, failed, told, strains>>

----------------------------------------------------------------------------
\* Making threads.

\* Up to the anchoring: handle and state exist, the state as a value on the
\* stack of its creator.
thread_create(t, u) ==
    /\ pc[t] = "lua" /\ status[u] = "none"
    /\ handle' = [handle EXCEPT ![u] = NewHandle]
    /\ holders' = [holders EXCEPT ![u] = {t}]
    /\ kept' = [kept EXCEPT ![t] = @ \cup {u}]
    /\ status' = [status EXCEPT ![u] = "new"]
    /\ reported' = reported \cup {u}
    /\ call' = [call EXCEPT ![t] = [op |-> "create", on |-> u]]
    /\ Goto(t, "ref_read")
    /\ Strain(u, Overlap(t))
    /\ UNCHANGED <<native, freed, regVars, reg, failed, told>>

Started(t, u, where) ==
    /\ status' = [status EXCEPT ![u] = "running"]
    /\ native' = [native EXCEPT ![u] = "joinable"]
    /\ pc' = [pc EXCEPT ![t] = where, ![u] = "lua"]

\* The rest of create: the thread is started, or the reference given back.
create_start(t) ==
    /\ pc[t] = "start"
    /\ \/ Started(t, On(t), "lua") /\ UNCHANGED strains
       \/ /\ status' = [status EXCEPT ![On(t)] = "failed"]
          /\ Goto(t, "unref_read")
          /\ Strain(On(t), Overlap(t))
          /\ UNCHANGED native
    /\ UNCHANGED <<freed, kept, reported, handle, holders, regVars, call, reg, failed, told>>

\* (Mutant: the state is taken off the stack before the join, not after it.)
createx_unkept(t, u) ==
    /\ pc[t] = "lua" /\ status[u] = "none"
    /\ call' = [call EXCEPT ![t] = [op |-> "createx", on |-> u]]
    /\ Started(t, u, "xjoin")
    /\ UNCHANGED <<kept, freed, reported, handle, holders, regVars, reg, failed, told, strains>>

\* createx has no handle and joins at once; a thread that cannot be made leaves
\* a state that is garbage.
thread_createx(t, u) ==
    /\ pc[t] = "lua" /\ status[u] = "none"
    /\ call' = [call EXCEPT ![t] = [op |-> "createx", on |-> u]]
    /\ \/ /\ Started(t, u, "xjoin")
          /\ kept' = [kept EXCEPT ![t] = @ \cup {u}]
       \/ /\ status' = [status EXCEPT ![u] = "failed"]
          /\ UNCHANGED <<native, pc, kept>>
    /\ UNCHANGED <<freed, reported, handle, holders, regVars, reg, failed, told, strains>>

createx_joined(t) ==
    /\ pc[t] = "xjoin" /\ status[On(t)] = "ended"
    /\ native' = Release(On(t))
    /\ kept' = [kept EXCEPT ![t] = @ \ {On(t)}]
    /\ Goto(t, "lua")
    /\ UNCHANGED <<status, freed, reported, handle, holders, regVars, call, reg, failed, told, strains>>

----------------------------------------------------------------------------
\* What is done with a handle.

\* The checks of join and detach. (Mutant: only detached is looked at.)
Usable_undetached(u) == ~handle[u].detached
Usable(u) == handle[u].bound /\ ~handle[u].joined /\ ~handle[u].detached

thread_join(t, u) ==
    /\ pc[t] = "lua" /\ t \in holders[u] /\ t # u
    /\ Usable(u)
    /\ call' = [call EXCEPT ![t] = [op |-> "join", on |-> u]]
    /\ Goto(t, "join")
    /\ Strain(u, Misuse(t, u))
    /\ UNCHANGED <<lifeVars, handle, holders, regVars, reg, failed, told>>

\* l_thread_join returns: the results are taken from the state, then its
\* reference goes. (Mutant: it does not wait.)
join_at_once(t) ==
    /\ pc[t] = "join"
    /\ native' = Release(On(t))
    /\ handle' = [handle EXCEPT ![On(t)].joined = TRUE]
    /\ told' = [told EXCEPT ![On(t)] = IF handle[On(t)].has_error THEN "false" ELSE "true"]
    /\ Goto(t, "unref_read")
    /\ Strain(On(t), Overlap(t))
    /\ UNCHANGED <<status, freed, kept, reported, holders, regVars, call, reg, failed>>
joined(t) ==
    /\ pc[t] = "join" /\ status[On(t)] \in Finished
    /\ native' = Release(On(t))
    /\ handle' = [handle EXCEPT ![On(t)].joined = TRUE]
    /\ told' = [told EXCEPT ![On(t)] = IF handle[On(t)].has_error THEN "false" ELSE "true"]
    /\ Goto(t, "unref_read")
    /\ Strain(On(t), Overlap(t))
    /\ UNCHANGED <<status, freed, kept, reported, holders, regVars, call, reg, failed>>

\* l_thread_detach, then luaL_unref, which ignores LUA_NOREF, and the end of op.
Let_go(t, u, op) ==
    LET noref == handle[u].ref = LUA_NOREF
    IN  /\ native' = Release(u)
        /\ call' = [call EXCEPT ![t] = [op |-> op, on |-> u]]
        /\ Goto(t, IF noref THEN "lua" ELSE "unref_read")
        /\ handle' = [handle EXCEPT ![u] = IF noref THEN After(op, @) ELSE @]

thread_detach(t, u) ==
    /\ pc[t] = "lua" /\ t \in holders[u]
    /\ Usable(u)
    /\ Let_go(t, u, "detach")
    /\ Strain(u, Overlap(t) \cup Misuse(t, u) \cup Loss(u))
    /\ UNCHANGED <<status, freed, kept, reported, holders, regVars, reg, failed, told>>

\* The collector has called __gc on the handle of u, which it does once.
Finalising(u) == \E w \in Threads : pc[w] \in RefPCs /\ call[w] = [op |-> "gc", on |-> u]

\* The collector, run by t, finalises a handle that no state it finds can reach.
thread_gc(t, u) ==
    /\ pc[t] = "lua"
    /\ handle[u].exists = "yes" /\ ~Finalising(u) /\ holders[u] \cap Reached(t) = {}
    /\ \/ /\ Usable(u)
          /\ Let_go(t, u, "gc")
          /\ Strain(u, Overlap(t) \cup Misuse(t, u) \cup Loss(u))
       \/ /\ ~Usable(u)
          /\ handle' = [handle EXCEPT ![u].exists = "freed"]
          /\ UNCHANGED <<native, call, pc, strains>>
    /\ UNCHANGED <<status, freed, kept, reported, holders, regVars, reg, failed, told>>

\* The collector, run by t, frees a state: what it held is held no longer.
luaE_freethread(t, u) ==
    /\ pc[t] = "lua"
    /\ status[u] # "none" /\ u \notin freed \cup Reached(t)
    /\ freed' = freed \cup {u}
    /\ holders' = [w \in Threads |-> holders[w] \ {u}]
    /\ UNCHANGED <<status, native, kept, reported, handle, regVars, pc, call, reg, failed, told, strains>>

\* thread.self finds the handle of the running thread, or makes one.
thread_self(t) ==
    /\ pc[t] = "lua" /\ ~Finalising(t)
    /\ \/ /\ handle[t].exists = "yes"
          /\ holders' = [holders EXCEPT ![t] = @ \cup {t}]
          /\ UNCHANGED handle
       \/ /\ handle[t].exists # "yes"
          /\ holders' = [holders EXCEPT ![t] = {t}]
          /\ handle' = [handle EXCEPT ![t] = NewHandle]
    /\ UNCHANGED <<lifeVars, regVars, pc, call, reg, failed, told, strains>>

\* Lua code passes a handle on, and lets go of one.
share(t, w, u) ==
    /\ pc[t] = "lua" /\ pc[w] \notin {"idle", "report"}
    /\ t \in holders[u]
    /\ holders' = [holders EXCEPT ![u] = @ \cup {w}]
    /\ UNCHANGED <<lifeVars, handle, regVars, pc, call, reg, failed, told, strains>>

drop(t, u) ==
    /\ pc[t] = "lua"
    /\ t \in holders[u]
    /\ holders' = [holders EXCEPT ![u] = @ \ {t}]
    /\ UNCHANGED <<lifeVars, handle, regVars, pc, call, reg, failed, told, strains>>

----------------------------------------------------------------------------
\* thread_entry, after lua_pcall.

\* Lua code is over: what t held is held no longer.
Unwind(t) ==
    /\ pc[t] = "lua" /\ t # Main
    /\ holders' = [u \in Threads |-> holders[u] \ {t}]

thread_returns(t) ==
    /\ Unwind(t)
    /\ status' = [status EXCEPT ![t] = "ended"]
    /\ Goto(t, "idle")
    /\ UNCHANGED <<native, freed, kept, reported, handle, regVars, call, reg, failed, told, strains>>

thread_fails(t) ==
    /\ Unwind(t)
    /\ failed' = failed \cup {t}
    /\ Goto(t, "report")
    /\ UNCHANGED <<lifeVars, handle, regVars, call, reg, told, strains>>

\* th->has_error = 1, through a pointer nothing keeps valid.
report(t) ==
    /\ pc[t] = "report"
    /\ status' = [status EXCEPT ![t] = "ended"]
    /\ Goto(t, "idle")
    /\ handle' = [handle EXCEPT ![t].has_error = IF t \in reported THEN TRUE ELSE @]
    /\ UNCHANGED <<native, freed, kept, reported, holders, regVars, call, reg, failed, told, strains>>

----------------------------------------------------------------------------
Call(t) ==
    \/ \E u \in Threads :
        \/ thread_create(t, u) \/ thread_createx(t, u)
        \/ thread_join(t, u) \/ thread_detach(t, u) \/ thread_gc(t, u)
        \/ luaE_freethread(t, u) \/ drop(t, u)
        \/ \E w \in Threads : share(t, w, u)
    \/ thread_self(t)
    \/ thread_returns(t) \/ thread_fails(t)

Step(t) ==
    \/ ref_read(t) \/ ref_init(t) \/ ref_next(t) \/ ref_head(t) \/ ref_len(t)
    \/ ref_store(t) \/ unref_read(t) \/ unref_link(t) \/ unref_head(t)
    \/ create_start(t) \/ createx_joined(t) \/ joined(t) \/ report(t)

Next == \E t \in Threads : Call(t) \/ Step(t)

Spec == Init /\ [][Next]_vars
----------------------------------------------------------------------------
(***************************************************************************)
(* Properties.                                                             *)
(***************************************************************************)

\* Nothing has happened yet that the library does not bear.
Unstrained == \A u \in Threads : strains[u] = {}

\* Until then every variable has its type, and the free list links numbers, never
\* states.
Types ==
    /\ status \in [Threads -> {"none", "new", "running"} \cup Finished]
    /\ native \in [Threads -> {"none", "joinable", "released", "misused"}]
    /\ freed \subseteq Threads /\ reported \subseteq Threads /\ failed \subseteq Threads
    /\ handle \in [Threads -> [exists : {"no", "yes", "freed"}, bound : BOOLEAN,
                               ref : Nat, joined : BOOLEAN, detached : BOOLEAN,
                               has_error : BOOLEAN]]
    /\ holders \in [Threads -> SUBSET Threads]
    /\ kept \in [Threads -> SUBSET Threads]
    /\ slots \in Seq(Threads \cup Nat)
    /\ head \in Nat \cup {Main}
    /\ pc \in [Threads -> PCs]
    /\ call \in [Threads -> [op : {"none", "create", "createx", "join", "detach", "gc"},
                             on : Threads]]
    /\ reg \in [Threads -> [ref : Nat, next : Nat \cup {Main}]]
    /\ told \in [Threads -> {"nothing", "true", "false"}]
TypeOK == strains \in [Threads -> SUBSET Kinds] /\ (Unstrained => Types)

\* Whoever uses a state or a handle finds it there: the thread that runs in the state
\* or has still to be started in it, the one that waits to take results from it, and
\* the one that reports an error to its handle.
UsedAlive ==
    \A t \in Threads :
        /\ status[t] \in {"new", "running"} => t \notin freed
        /\ pc[t] \in {"join", "xjoin"} => On(t) \notin freed
        /\ pc[t] = "join" => handle[On(t)].exists = "yes"
        /\ pc[t] = "report" /\ t \in reported => handle[t].exists = "yes"

\* So it is as long as nothing has happened that the library does not bear, whatever
\* joins, ends of threads, losses of handles and the collector do in between.
InUseAlive == Unstrained => UsedAlive

\* While nobody is changing the registry, each of its places is either held by one
\* handle that will give it back, or on the free list, which is one chain from its
\* head to zero.
Free == {i \in DOMAIN slots : slots[i] \in Nat}
FreeListed ==
    (\A t \in Threads : pc[t] \notin RefPCs) =>
        /\ \A i \in (DOMAIN slots) \ Free :
            LET h == handle[slots[i]]
            IN  h.ref = i /\ h.bound /\ h.exists = "yes"
        /\ \A u \in Threads :
            LET h == handle[u]
            IN  h.bound /\ h.ref # LUA_NOREF /\ status[u] # "failed" => slots[h.ref] = u
        /\ (IF head = Main THEN {} ELSE {head}) \cup {slots[i] : i \in Free}
                = IF head = Main THEN {} ELSE Free \cup {0}
        /\ \A S \in (SUBSET Free) \ {{}} : \E i \in S : slots[i] \notin S

\* So it is as long as nothing has happened that the library does not bear.
ReferencesAccounted == Unstrained => FreeListed

\* A native thread is joined or detached in vain, a second time or without having been
\* made, only if two calls were on its handle at once, or it could not be made, or the
\* handle is one of thread.self: whatever happens to other handles and in the registry,
\* the checks of join, detach and __gc suffice for the rest.
NativeReleasedOnce ==
    \A t \in Threads : native[t] = "misused" => strains[t] \cap {"together", "fail", "self"} # {}

\* Until something happens that the library does not bear, what join says of a thread
\* is what has become of it, and it says so after the end of the thread.
JoinTellsOutcome ==
    Unstrained => \A t \in Threads : told[t] # "nothing" =>
        /\ status[t] = "ended"
        /\ told[t] = "false" <=> t \in failed
=============================================================================
