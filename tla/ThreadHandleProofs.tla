------------------------- MODULE ThreadHandleProofs -------------------------
(***************************************************************************)
(* Theorems about ThreadHandle, for every set of threads: what holds until *)
(* something happens that the library does not bear, and that a native     *)
(* thread is let go of once, whatever happens to others.                   *)
(***************************************************************************)
EXTENDS ThreadHandle, SequenceTheorems, TLAPS

----------------------------------------------------------------------------
(***************************************************************************)
(* The inductive invariant.                                                *)
(***************************************************************************)
Handles == [exists : {"no", "yes", "freed"}, bound : BOOLEAN, ref : Nat, joined : BOOLEAN,
            detached : BOOLEAN, has_error : BOOLEAN]
Registries == [ref : Nat, next : Nat \cup {Main}]
Calls == [op : {"none", "create", "createx", "join", "detach", "gc"}, on : Threads]

\* States in which Lua code runs, or will; threads that may hold handles.
Live == {u \in Threads : status[u] \in {"new", "running"}}
Active == {w \in Threads : pc[w] \notin {"idle", "report"}}

Storing == {"ref_read", "ref_init", "ref_next", "ref_head", "ref_len", "ref_store"}
Unreffing == {"unref_read", "unref_link", "unref_head"}

\* The reference of u is being given back.
Letting(u) == \E t \in Threads : pc[t] \in Unreffing /\ On(t) = u

\* The thread u is being made.
Making(u) == \E t \in Threads : pc[t] \in Storing \cup {"start"} /\ On(t) = u

\* One thread at a time is in the registry, and in a call on one thread.
Turns ==
    /\ \A t, w \in Threads : pc[t] \in RefPCs /\ pc[w] \in RefPCs => t = w
    /\ \A t, w \in Threads : InCall(t) /\ InCall(w) /\ On(t) = On(w) => t = w

\* Every set of states that holds what the collector marks first, and what is on
\* the stacks of its members, holds the live ones.
Marks(S) ==
    /\ Main \in S
    /\ \A i \in DOMAIN slots : slots[i] \in Threads => slots[i] \in S
    /\ \A s \in S : kept[s] \subseteq S
Grounded == \A S \in SUBSET Threads : Marks(S) => Live \subseteq S

\* Free places are on the free list, but for the one that is in t's hands between
\* two accesses; the list visits each place once and ends.
Out == {reg[t].ref : t \in {u \in Threads : pc[u] \in {"ref_store", "unref_head"}}}
Listed == Free \ Out
Chain ==
    /\ head = Main => slots = <<>>
    /\ head # Main =>
        /\ head \in Listed \cup {0}
        /\ \A e \in Listed \cup {0} : e = head \/ \E i \in Listed : slots[i] = e
    /\ \A i \in Listed : slots[i] \in Listed \cup {0} /\ slots[i] # head
    /\ \A i, j \in Listed : slots[i] = slots[j] => i = j
    /\ \A S \in (SUBSET Listed) \ {{}} : \E i \in S : slots[i] \notin S

Owned ==
    /\ \A i \in DOMAIN slots : slots[i] \in Threads =>
        /\ handle[slots[i]].ref = i /\ handle[slots[i]].bound
        /\ handle[slots[i]].exists = "yes" /\ slots[i] \notin freed
    /\ \A u \in Threads :
        /\ handle[u].bound /\ handle[u].ref # 0 /\ status[u] # "failed"
        /\ \A t \in Threads : pc[t] = "unref_head" => On(t) # u
        => handle[u].ref \in DOMAIN slots /\ slots[handle[u].ref] = u

\* What the local variables of luaL_ref and luaL_unref have to do with the registry.
Registers(t) ==
    /\ pc[t] = "ref_init" => head = Main
    /\ pc[t] \in {"ref_next", "ref_head"} => head \in Nat \ {0} /\ reg[t].ref = head
    /\ pc[t] = "ref_head" => reg[t].next = slots[head]
    /\ pc[t] \in {"ref_len", "ref_store"} => head \in Nat
    /\ pc[t] = "ref_store" =>
        /\ reg[t].ref \in 1 .. Len(slots) + 1
        /\ reg[t].ref \in DOMAIN slots => slots[reg[t].ref] \in Nat
    /\ pc[t] \in {"unref_read", "unref_link"} =>
        handle[On(t)].ref \in DOMAIN slots /\ slots[handle[On(t)].ref] = On(t)
    /\ pc[t] \in {"unref_link", "unref_head"} =>
        reg[t].ref = handle[On(t)].ref /\ reg[t].next = head /\ head \in Nat
    /\ pc[t] = "unref_head" => reg[t].ref \in DOMAIN slots /\ slots[reg[t].ref] = head

\* What the place of t says of the thread its call is on.
Place(t) ==
    /\ pc[t] # "idle" => status[t] = "running"
    /\ kept[t] = IF pc[t] \in Storing \cup {"xjoin"} THEN {On(t)} ELSE {}
    /\ pc[t] \in Storing \cup {"start"} =>
        /\ call[t].op = "create" /\ status[On(t)] = "new" /\ On(t) \in reported
        /\ handle[On(t)].ref = 0 <=> pc[t] # "start"
    /\ pc[t] = "xjoin" =>
        /\ status[On(t)] \in {"running", "ended"} /\ On(t) \notin reported
        /\ native[On(t)] = "joinable"
    /\ pc[t] = "join" =>
        /\ call[t].op = "join" /\ status[On(t)] \in {"running", "ended"}
        /\ handle[On(t)].ref # 0 /\ Usable(On(t))
    /\ pc[t] \in RefPCs \cup {"start", "join"} /\ call[t].op # "gc" => t \in holders[On(t)]
    /\ pc[t] \in {"join", "xjoin"} => On(t) \notin freed
    /\ pc[t] \in Unreffing =>
        /\ call[t].op \in {"create", "join", "detach", "gc"}
        /\ status[On(t)] = IF call[t].op = "create" THEN "failed" ELSE "ended"
        /\ handle[On(t)].bound /\ handle[On(t)].ref # 0
        /\ call[t].op = "create" => ~handle[On(t)].joined

\* The lives of a handle, its state and its native thread.
Life(u) ==
    /\ status[u] = "none" => handle[u] = NoHandle /\ u \notin reported /\ u \notin failed
    /\ handle[u].bound => handle[u].exists = "yes" /\ ~handle[u].detached
    /\ handle[u].bound /\ handle[u].joined => Letting(u)
    /\ handle[u].ref # 0 => u \in reported
    /\ status[u] = "new" => Making(u)
    /\ u \in reported /\ u \in Live =>
        handle[u].bound /\ ~handle[u].joined /\ ~handle[u].has_error
    /\ u \in reported /\ status[u] = "running" => handle[u].ref # 0
    /\ status[u] \in {"running", "ended"} /\ Usable(u) /\ handle[u].ref # 0 /\ ~Letting(u) =>
        native[u] = "joinable"
    /\ native[u] # "misused"
    /\ u \in freed => status[u] \in Finished
    /\ holders[u] \subseteq Active
    /\ u \in failed => pc[u] = "report" \/ status[u] = "ended"
    /\ pc[u] = "report" => u \in failed
    /\ u \in reported /\ status[u] = "ended" => (handle[u].has_error <=> u \in failed)
    /\ told[u] # "nothing" => status[u] = "ended" /\ (told[u] = "false" <=> u \in failed)

IInv ==
    /\ Types /\ Turns /\ Grounded /\ Chain /\ Owned
    /\ \A t \in Threads : Registers(t) /\ Place(t) /\ Life(t)

----------------------------------------------------------------------------
(***************************************************************************)
(* What stays when a step changes nothing of it.                           *)
(***************************************************************************)
LEMMA PlaceStays ==
    ASSUME NEW w \in Threads, Place(w), pc'[w] = pc[w], call'[w] = call[w],
           kept'[w] = kept[w], status'[w] = status[w],
           InCall(w) =>
            /\ \/ status'[On(w)] = status[On(w)]
               \/ pc[w] \in {"join", "xjoin"} /\ status'[On(w)] = "ended"
            /\ On(w) \in reported' <=> On(w) \in reported
            /\ pc[w] # "xjoin" =>
                /\ handle'[On(w)].ref = handle[On(w)].ref
                /\ handle'[On(w)].bound = handle[On(w)].bound
                /\ handle'[On(w)].joined = handle[On(w)].joined
                /\ handle'[On(w)].detached = handle[On(w)].detached
                /\ w \in holders[On(w)] => w \in holders'[On(w)]
            /\ pc[w] = "xjoin" => native'[On(w)] = native[On(w)]
            /\ pc[w] \in {"join", "xjoin"} => On(w) \notin freed'
    PROVE  Place(w)'
<1>1. On(w)' = On(w)
    BY DEF On
<1>2. CASE ~InCall(w)
    BY <1>2 DEF Place, InCall, RefPCs, Storing, Unreffing
<1>3. CASE InCall(w)
    <2>1. CASE pc[w] \in Storing \cup {"start"}
        BY <1>1, <1>3, <2>1 DEF Place, Storing, Unreffing, InCall, RefPCs
    <2>2. CASE pc[w] = "join"
        BY <1>1, <1>3, <2>2 DEF Place, Storing, Unreffing, InCall, RefPCs, Usable
    <2>3. CASE pc[w] = "xjoin"
        BY <1>1, <1>3, <2>3 DEF Place, Storing, Unreffing, InCall, RefPCs
    <2>4. CASE pc[w] \in Unreffing
        BY <1>1, <1>3, <2>4 DEF Place, Storing, Unreffing, InCall, RefPCs
    <2> QED
        BY <1>3, <2>1, <2>2, <2>3, <2>4 DEF InCall, RefPCs, Storing, Unreffing
<1> QED
    BY <1>2, <1>3

LEMMA LifeStays ==
    ASSUME NEW u \in Threads, Life(u), status'[u] = status[u], handle'[u] = handle[u],
           u \in reported' <=> u \in reported, u \in failed' <=> u \in failed,
           u \in freed' <=> u \in freed, native'[u] = native[u], told'[u] = told[u],
           pc'[u] = "report" <=> pc[u] = "report", Letting(u)' <=> Letting(u),
           Making(u) => Making(u)', holders'[u] \subseteq Active'
    PROVE  Life(u)'
BY DEF Life, Live, Usable

LEMMA ChainStays ==
    ASSUME Chain, UNCHANGED <<slots, head, reg>>,
           \A u \in Threads : pc'[u] \in {"ref_store", "unref_head"}
                                <=> pc[u] \in {"ref_store", "unref_head"}
    PROVE  Chain'
<1>1. Out' = Out /\ Free' = Free
    BY DEF Out, Free
<1>2. Listed' = Listed
    BY <1>1 DEF Listed
<1> QED
    BY <1>2 DEF Chain

LEMMA GroundedStays ==
    ASSUME Grounded, Live' \subseteq Live,
           NEW x, x \notin Live,
           \A S \in SUBSET Threads : Marks(S)' => Marks(S) \/ (x \in Threads /\ Marks(S \cup {x}))
    PROVE  Grounded'
<1> SUFFICES ASSUME NEW S \in SUBSET Threads, Marks(S)' PROVE Live' \subseteq S
    BY DEF Grounded
<1>1. CASE Marks(S)
    BY <1>1 DEF Grounded
<1>2. CASE x \in Threads /\ Marks(S \cup {x})
    <2>1. S \cup {x} \in SUBSET Threads
        BY <1>2
    <2>2. Live \subseteq S \cup {x}
        BY <1>2, <2>1 DEF Grounded
    <2> QED
        BY <2>2
<1> QED
    BY <1>1, <1>2

\* One more state is kept by a live thread.
LEMMA GroundedGrows ==
    ASSUME Grounded, NEW t \in Live, NEW u \in Threads, Live' \subseteq Live \cup {u},
           slots' = slots, kept \in [Threads -> SUBSET Threads],
           kept' = [kept EXCEPT ![t] = @ \cup {u}]
    PROVE  Grounded'
<1> SUFFICES ASSUME NEW S \in SUBSET Threads, Marks(S)' PROVE Live' \subseteq S
    BY DEF Grounded
<1>1. t \in Threads
    BY DEF Live
<1>2. kept'[t] = kept[t] \cup {u} /\ \A s \in Threads : kept[s] \subseteq kept'[s]
    BY <1>1
<1>3. Marks(S)
    BY <1>2 DEF Marks
<1>4. t \in S
    BY <1>3 DEF Grounded
<1>5. u \in S
    BY <1>2, <1>4 DEF Marks
<1> QED
    BY <1>3, <1>5 DEF Grounded

\* What the collector finds are the live states, whoever runs it, and more.
LEMMA LiveReached ==
    ASSUME IInv, NEW t \in Threads
    PROVE  /\ Live \subseteq Reached(t)
           /\ \A i \in DOMAIN slots : slots[i] \in Threads => slots[i] \in Reached(t)
           /\ \A s \in Live : kept[s] \subseteq Reached(t)
<1>1. \A S \in SUBSET Threads : Roots(t) \subseteq S /\ (\A s \in S : kept[s] \subseteq S) => Marks(S)
    BY DEF Roots, Marks
<1>2. \A S \in SUBSET Threads : Marks(S) => Live \subseteq S
    BY DEF IInv, Grounded
<1>3. Live \subseteq Threads /\ kept \in [Threads -> SUBSET Threads]
    BY DEF Live, IInv, Types
<1>4. Live \subseteq Reached(t)
    BY <1>1, <1>2, <1>3 DEF Reached
<1>5. \A i \in DOMAIN slots : slots[i] \in Threads => slots[i] \in Reached(t)
    BY <1>1 DEF Reached, Marks
<1>6. ASSUME NEW s \in Live PROVE kept[s] \subseteq Reached(t)
    <2> SUFFICES ASSUME NEW v \in kept[s] PROVE v \in Reached(t)
        OBVIOUS
    <2>1. v \in Threads /\ s \in Threads
        BY <1>3
    <2>2. ASSUME NEW S \in SUBSET Threads, Roots(t) \subseteq S, \A w \in S : kept[w] \subseteq S
          PROVE  v \in S
        BY <1>1, <1>2, <2>2
    <2> QED
        BY <2>1, <2>2 DEF Reached
<1> QED
    BY <1>4, <1>5, <1>6

LEMMA ActiveLive ==
    ASSUME IInv PROVE Active \subseteq Live
BY DEF IInv, Active, Live, Place

----------------------------------------------------------------------------
(***************************************************************************)
(* Steps in the registry.                                                  *)
(***************************************************************************)
LEMMA OthersOut ==
    ASSUME IInv, NEW t \in Threads, pc[t] \in RefPCs
    PROVE  /\ \A w \in Threads \ {t} : pc[w] \notin RefPCs
           /\ InCall(t) /\ status[t] = "running"
           /\ \A w \in Threads \ {t} : InCall(w) => On(w) # On(t)
<1>1. \A w \in Threads \ {t} : pc[w] \notin RefPCs
    BY DEF IInv, Turns
<1>2. InCall(t)
    BY DEF InCall
<1>3. status[t] = "running"
    BY DEF IInv, Place, RefPCs
<1> QED
    BY <1>1, <1>2, <1>3 DEF IInv, Turns

\* A thread goes on from k to l in the registry.
LEMMA Goes ==
    ASSUME IInv, NEW t \in Threads, NEW l \in RefPCs, pc[t] \in RefPCs,
           Goto(t, l), UNCHANGED call
    PROVE  /\ pc' \in [Threads -> PCs] /\ pc'[t] = l
           /\ \A w \in Threads \ {t} : pc'[w] = pc[w] /\ pc'[w] \notin RefPCs
           /\ Turns' /\ Active' = Active
           /\ (l \in Unreffing <=> pc[t] \in Unreffing) => \A u \in Threads : Letting(u)' <=> Letting(u)
           /\ (l \in Storing <=> pc[t] \in Storing) => \A u \in Threads : Making(u)' <=> Making(u)
           /\ \A w \in Threads \ {t} : Registers(w)'
<1>1. pc' \in [Threads -> PCs] /\ pc'[t] = l /\ \A w \in Threads \ {t} : pc'[w] = pc[w]
    BY DEF Goto, PCs, IInv, Types
<1>2. \A w \in Threads \ {t} : pc'[w] = pc[w] /\ pc'[w] \notin RefPCs
    BY <1>1, OthersOut
<1>3. \A w \in Threads : On(w)' = On(w) /\ (InCall(w)' <=> InCall(w))
    BY <1>1 DEF On, InCall
<1>4. Turns'
    BY <1>1, <1>2, <1>3 DEF Turns, IInv
<1>5. Active' = Active
    BY <1>1 DEF Active, RefPCs
<1>6. (l \in Unreffing <=> pc[t] \in Unreffing) => \A u \in Threads : Letting(u)' <=> Letting(u)
    <2>1. ASSUME l \in Unreffing <=> pc[t] \in Unreffing
          PROVE  \A w \in Threads : pc'[w] \in Unreffing <=> pc[w] \in Unreffing
        BY <1>1, <2>1
    <2> QED
        BY <1>3, <2>1 DEF Letting
<1>7. (l \in Storing <=> pc[t] \in Storing) => \A u \in Threads : Making(u)' <=> Making(u)
    <2>1. ASSUME l \in Storing <=> pc[t] \in Storing
          PROVE  \A w \in Threads : pc'[w] \in Storing \cup {"start"} <=> pc[w] \in Storing \cup {"start"}
        BY <1>1, <2>1 DEF RefPCs
    <2> QED
        BY <1>3, <2>1 DEF Making
<1>8. \A w \in Threads \ {t} : Registers(w)'
    BY <1>2 DEF Registers, RefPCs
<1> QED
    BY <1>1, <1>2, <1>4, <1>5, <1>6, <1>7, <1>8

\* A step that changes no handle and keeps the kind of the call.
LEMMA WalkKeeps ==
    ASSUME IInv, NEW t \in Threads, NEW l \in RefPCs, pc[t] \in RefPCs,
           Goto(t, l), UNCHANGED <<lifeVars, handle, holders, call, failed, told>>,
           l \in Storing <=> pc[t] \in Storing,
           slots' \in Seq(Threads \cup Nat), head' \in Nat \cup {Main},
           reg' \in [Threads -> Registries],
           Grounded', Chain', Owned', Registers(t)'
    PROVE  IInv'
<1>0. l \in Unreffing <=> pc[t] \in Unreffing
    BY DEF RefPCs, Storing, Unreffing
<1>1. /\ pc' \in [Threads -> PCs] /\ pc'[t] = l /\ Turns' /\ Active' = Active
      /\ \A w \in Threads \ {t} : pc'[w] = pc[w] /\ pc'[w] \notin RefPCs
      /\ \A u \in Threads : (Letting(u)' <=> Letting(u)) /\ (Making(u)' <=> Making(u))
      /\ \A w \in Threads \ {t} : Registers(w)'
    BY <1>0, Goes
<1>2. Types'
    BY <1>1 DEF IInv, Types, lifeVars, Registries
<1>3. ASSUME NEW u \in Threads PROVE Life(u)'
    <2>1. /\ Life(u) /\ holders[u] \subseteq Active /\ (Letting(u)' <=> Letting(u))
          /\ Making(u) => Making(u)'
        BY <1>1 DEF IInv, Life
    <2>2. pc'[u] = "report" <=> pc[u] = "report"
        BY <1>1 DEF RefPCs
    <2>3. UNCHANGED <<status, handle, native, told, holders, reported, failed, freed>>
        BY DEF lifeVars
    <2> QED
        BY <1>1, <2>1, <2>2, <2>3, LifeStays
<1>4. ASSUME NEW w \in Threads \ {t} PROVE Place(w)'
    <2>1. Place(w) /\ pc'[w] = pc[w]
        BY <1>1 DEF IInv
    <2>2. pc[w] \in {"join", "xjoin"} => On(w) \notin freed'
        BY <2>1 DEF Place, lifeVars
    <2>3. UNCHANGED <<status, handle, native, holders, reported, freed, kept, call>>
        BY DEF lifeVars
    <2> QED
        BY <2>1, <2>2, <2>3, PlaceStays
<1>5. Place(t)'
    <2>1. Place(t) /\ On(t)' = On(t)
        BY DEF IInv, On
    <2>2. UNCHANGED <<status, handle, native, holders, reported, freed, kept, call>>
        BY DEF lifeVars
    <2>3. CASE pc[t] \in Storing
        BY <1>1, <2>1, <2>2, <2>3 DEF Place, Storing, Unreffing, InCall, RefPCs
    <2>4. CASE pc[t] \in Unreffing
        BY <1>0, <1>1, <2>1, <2>2, <2>4 DEF Place, Storing, Unreffing, InCall, RefPCs
    <2> QED
        BY <2>3, <2>4 DEF RefPCs, Storing, Unreffing
<1> QED
    BY <1>1, <1>2, <1>3, <1>4, <1>5 DEF IInv

LEMMA SameGround ==
    ASSUME IInv, UNCHANGED <<status, kept, slots>> PROVE Grounded'
BY DEF IInv, Grounded, Marks, Live

LEMMA SameOwners ==
    ASSUME IInv, UNCHANGED <<slots, handle, status, freed, call>>, NEW t \in Threads,
           \A w \in Threads \ {t} : pc'[w] = pc[w], pc[t] # "unref_head", pc'[t] # "unref_head"
    PROVE  Owned'
<1>1. \A w \in Threads : pc'[w] = "unref_head" <=> pc[w] = "unref_head"
    OBVIOUS
<1>2. \A w \in Threads : On(w)' = On(w)
    BY DEF On
<1> QED
    BY <1>1, <1>2 DEF IInv, Owned

\* While t has no place of the registry in its hands, all free places are listed.
LEMMA AllListed ==
    ASSUME IInv, NEW t \in Threads, pc[t] \in RefPCs \ {"ref_store", "unref_head"}
    PROVE  Out = {} /\ Listed = Free
<1>1. \A w \in Threads \ {t} : pc[w] \notin RefPCs
    BY OthersOut
<1> QED
    BY <1>1 DEF Out, Listed, RefPCs

LEMMA AllListedNext ==
    ASSUME NEW t \in Threads, pc'[t] \notin {"ref_store", "unref_head"},
           \A w \in Threads \ {t} : pc'[w] \notin RefPCs
    PROVE  Out' = {} /\ Listed' = Free'
BY DEF Out, Listed, RefPCs

LEMMA OneOutNext ==
    ASSUME NEW t \in Threads, pc'[t] \in {"ref_store", "unref_head"},
           \A w \in Threads \ {t} : pc'[w] \notin RefPCs
    PROVE  Out' = {reg'[t].ref} /\ Listed' = Free' \ {reg'[t].ref}
BY DEF Out, Listed, RefPCs

LEMMA OneOut ==
    ASSUME IInv, NEW t \in Threads, pc[t] \in {"ref_store", "unref_head"}
    PROVE  Out = {reg[t].ref} /\ Listed = Free \ {reg[t].ref}
<1>1. \A w \in Threads \ {t} : pc[w] \notin RefPCs
    BY OthersOut DEF RefPCs
<1> QED
    BY <1>1 DEF Out, Listed, RefPCs

LEMMA SameChain ==
    ASSUME IInv, UNCHANGED <<slots, head>>, Listed' = Listed PROVE Chain'
BY DEF IInv, Chain

LEMMA ReadKeeps ==
    ASSUME IInv, NEW t \in Threads, ref_read(t) \/ unref_read(t) PROVE IInv'
<1>1. /\ UNCHANGED <<lifeVars, handle, holders, slots, head, call, failed, told>>
      /\ pc[t] \in {"ref_read", "unref_read"}
    BY DEF ref_read, unref_read, regVars
<1>2. PICK l \in RefPCs \ {"ref_store", "unref_head"}, r \in Registries :
        /\ Goto(t, l) /\ reg' = [reg EXCEPT ![t] = r]
        /\ l \in Storing <=> pc[t] \in Storing
        /\ \/ l = "ref_next" /\ head \in Nat \ {0} /\ r.ref = head
           \/ l = "ref_len" /\ head \in Nat
           \/ l = "ref_init" /\ head = Main
           \/ l = "unref_link" /\ r.ref = handle[On(t)].ref /\ r.next = head
    <2>1. ASSUME ref_read(t), head \in Nat
          PROVE  \E r \in Registries : r.ref = head /\ reg' = [reg EXCEPT ![t] = r]
        <3>1. PICK q \in Registries : q = reg[t]
            BY DEF IInv, Types, Registries
        <3>2. PICK r \in Registries : r = [q EXCEPT !.ref = head]
            BY <2>1 DEF Registries
        <3>3. r.ref = head
            BY <3>1, <3>2 DEF Registries
        <3>4. reg' = [reg EXCEPT ![t] = r]
            BY <2>1, <3>1, <3>2 DEF ref_read, IInv, Types
        <3> QED
            BY <3>3, <3>4
    <2>2. ASSUME ref_read(t), head \notin Nat
          PROVE  /\ Goto(t, "ref_init") /\ head = Main /\ reg[t] \in Registries
                 /\ reg' = [reg EXCEPT ![t] = reg[t]]
        BY <2>2 DEF ref_read, IInv, Types, Registries
    <2>3. ASSUME unref_read(t)
          PROVE  \E r \in Registries : /\ r.ref = handle[On(t)].ref /\ r.next = head
                                       /\ reg' = [reg EXCEPT ![t] = r]
        <3>1. handle[On(t)].ref \in Nat /\ head \in Nat \cup {Main}
            BY DEF IInv, Types, On
        <3>2. PICK r \in Registries : r = [ref |-> handle[On(t)].ref, next |-> head]
            BY <3>1 DEF Registries
        <3> QED
            BY <2>3, <3>2 DEF unref_read
    <2>4. CASE ref_read(t) /\ head \in Nat
        <3>1. Goto(t, IF head = 0 THEN "ref_len" ELSE "ref_next") /\ pc[t] = "ref_read"
            BY <2>4 DEF ref_read
        <3> QED
            BY <2>1, <2>4, <3>1 DEF Storing, RefPCs
    <2>5. CASE ref_read(t) /\ head \notin Nat
        BY <2>2, <2>5 DEF ref_read, Storing, RefPCs
    <2>6. CASE unref_read(t)
        BY <2>3, <2>6 DEF unref_read, Storing, RefPCs
    <2> QED
        BY <2>4, <2>5, <2>6
<1>3. /\ pc'[t] = l /\ \A w \in Threads \ {t} : pc'[w] = pc[w] /\ pc'[w] \notin RefPCs
      /\ pc[t] \in RefPCs
    BY <1>1, <1>2, Goes DEF RefPCs
<1>4. reg' \in [Threads -> Registries] /\ reg'[t] = r
    BY <1>2 DEF IInv, Types, Registries
<1>5. Chain'
    <2>1. Listed = Free
        BY <1>1, AllListed DEF RefPCs
    <2>2. Listed' = Free'
        BY <1>2, <1>3, AllListedNext
    <2>3. Free' = Free
        BY <1>1 DEF Free
    <2> QED
        BY <1>1, <2>1, <2>2, <2>3, SameChain
<1>6. Registers(t)'
    <2>1. On(t)' = On(t)
        BY <1>1 DEF On
    <2>2. CASE l = "unref_link"
        <3>1. handle[On(t)].ref \in DOMAIN slots /\ slots[handle[On(t)].ref] = On(t)
            BY <1>1, <1>2, <2>2 DEF IInv, Registers, Storing
        <3>2. head \in Nat
            BY <3>1 DEF IInv, Chain, Types
        <3> QED
            BY <1>1, <1>2, <1>3, <1>4, <2>1, <2>2, <3>1, <3>2 DEF Registers
    <2>3. CASE l # "unref_link"
        BY <1>1, <1>2, <1>3, <1>4, <2>1, <2>3 DEF Registers
    <2> QED
        BY <2>2, <2>3
<1>7. Grounded' /\ Owned'
    BY <1>1, <1>2, <1>3, SameGround, SameOwners DEF lifeVars
<1>8. slots' \in Seq(Threads \cup Nat) /\ head' \in Nat \cup {Main}
    BY <1>1 DEF IInv, Types
<1> QED
    BY <1>1, <1>2, <1>3, <1>4, <1>5, <1>6, <1>7, <1>8, WalkKeeps

\* The registry is used for the first time.
LEMMA InitKeeps ==
    ASSUME IInv, NEW t \in Threads, ref_init(t) PROVE IInv'
<1>1. /\ UNCHANGED <<lifeVars, handle, holders, slots, call, failed, told, reg>>
      /\ pc[t] = "ref_init" /\ Goto(t, "ref_len") /\ head' = 0
    BY DEF ref_init
<1>2. /\ pc'[t] = "ref_len" /\ \A w \in Threads \ {t} : pc'[w] = pc[w] /\ pc'[w] \notin RefPCs
      /\ pc[t] \in RefPCs
    BY <1>1, Goes DEF RefPCs
<1>3. slots = <<>>
    BY <1>1 DEF IInv, Registers, Chain
<1>4. Free' = {} /\ Listed' = {}
    <2>1. Free' = {}
        BY <1>1, <1>3 DEF Free
    <2> QED
        BY <2>1 DEF Listed
<1>5. Chain'
    <2>1. head' # Main
        BY <1>1, HandleAssumption
    <2>2. head' \in Listed' \cup {0} /\ \A e \in Listed' \cup {0} : e = head'
        BY <1>1, <1>4
    <2>3. ASSUME NEW S \in (SUBSET Listed') \ {{}} PROVE FALSE
        <3>1. S # {}
            OBVIOUS
        <3>2. \E x : x \in S
            BY <3>1
        <3> QED
            BY <1>4, <3>2
    <2>4. \A i \in Listed' : slots'[i] \in Listed' \cup {0} /\ slots'[i] # head'
        BY <1>4
    <2>5. \A i, j \in Listed' : slots'[i] = slots'[j] => i = j
        BY <1>4
    <2>6. \A S \in (SUBSET Listed') \ {{}} : \E i \in S : slots'[i] \notin S
        BY <2>3
    <2> QED
        BY <2>1, <2>2, <2>4, <2>5, <2>6 DEF Chain
<1>6. Registers(t)'
    BY <1>1, <1>2 DEF Registers
<1>7. Grounded' /\ Owned'
    BY <1>1, <1>2, SameGround, SameOwners DEF lifeVars
<1>8. /\ slots' \in Seq(Threads \cup Nat) /\ head' \in Nat \cup {Main}
      /\ reg' \in [Threads -> Registries] /\ "ref_len" \in RefPCs
      /\ "ref_len" \in Storing /\ pc[t] \in Storing
    BY <1>1 DEF IInv, Types, Registries, RefPCs, Storing
<1> QED
    BY <1>1, <1>2, <1>5, <1>6, <1>7, <1>8, WalkKeeps

LEMMA NextKeeps ==
    ASSUME IInv, NEW t \in Threads, ref_next(t) PROVE IInv'
<1>1. /\ UNCHANGED <<lifeVars, handle, holders, slots, head, call, failed, told>>
      /\ pc[t] = "ref_next" /\ Goto(t, "ref_head")
      /\ reg' = [reg EXCEPT ![t].next = slots[reg[t].ref]]
    BY DEF ref_next, regVars
<1>2. /\ pc'[t] = "ref_head" /\ \A w \in Threads \ {t} : pc'[w] = pc[w] /\ pc'[w] \notin RefPCs
      /\ pc[t] \in RefPCs
    BY <1>1, Goes DEF RefPCs
<1>3. head \in Nat \ {0} /\ reg[t].ref = head
    BY <1>1 DEF IInv, Registers
<1>4. head \in DOMAIN slots /\ slots[head] \in Nat
    <2>1. head # Main
        BY <1>3, HandleAssumption
    <2> QED
        BY <1>3, <2>1 DEF IInv, Chain, Listed, Free
<1>5. PICK q \in Registries : q = reg[t]
    BY DEF IInv, Types, Registries
<1>6. PICK r \in Registries : r = [q EXCEPT !.next = slots[head]]
    BY <1>4 DEF Registries
<1>7. r.ref = head /\ r.next = slots[head]
    BY <1>3, <1>5, <1>6 DEF Registries
<1>8. reg' = [reg EXCEPT ![t] = r] /\ reg' \in [Threads -> Registries] /\ reg'[t] = r
    BY <1>1, <1>3, <1>5, <1>6 DEF IInv, Types, Registries
<1>9. Chain'
    <2>1. Listed = Free
        BY <1>1, AllListed DEF RefPCs
    <2>2. Listed' = Free'
        BY <1>2, AllListedNext
    <2>3. Free' = Free
        BY <1>1 DEF Free
    <2> QED
        BY <1>1, <2>1, <2>2, <2>3, SameChain
<1>10. Registers(t)'
    BY <1>1, <1>2, <1>3, <1>7, <1>8 DEF Registers
<1>11. Grounded' /\ Owned'
    BY <1>1, <1>2, SameGround, SameOwners DEF lifeVars
<1>12. /\ slots' \in Seq(Threads \cup Nat) /\ head' \in Nat \cup {Main}
       /\ "ref_head" \in RefPCs /\ "ref_head" \in Storing /\ pc[t] \in Storing
    BY <1>1 DEF IInv, Types, RefPCs, Storing
<1> QED
    BY <1>1, <1>2, <1>8, <1>9, <1>10, <1>11, <1>12, WalkKeeps

\* The first free place leaves the list.
LEMMA HeadKeeps ==
    ASSUME IInv, NEW t \in Threads, ref_head(t) PROVE IInv'
<1>1. /\ UNCHANGED <<lifeVars, handle, holders, slots, call, failed, told, reg>>
      /\ pc[t] = "ref_head" /\ Goto(t, "ref_store") /\ head' = reg[t].next
    BY DEF ref_head
<1>2. /\ pc'[t] = "ref_store" /\ \A w \in Threads \ {t} : pc'[w] = pc[w] /\ pc'[w] \notin RefPCs
      /\ pc[t] \in RefPCs
    BY <1>1, Goes DEF RefPCs
<1>3. head \in Nat \ {0} /\ reg[t].ref = head /\ head' = slots[head] /\ head # Main
    BY <1>1, HandleAssumption DEF IInv, Registers
<1>4. Listed = Free /\ Listed' = Free \ {head}
    <2>1. Listed = Free
        BY <1>1, AllListed DEF RefPCs
    <2>2. Listed' = Free' \ {reg'[t].ref}
        BY <1>2, OneOutNext
    <2>3. Free' = Free
        BY <1>1 DEF Free
    <2> QED
        BY <1>1, <1>3, <2>1, <2>2, <2>3
<1>5. /\ head \in Free
      /\ \A e \in Free \cup {0} : e = head \/ \E i \in Free : slots[i] = e
      /\ \A i \in Free : slots[i] \in Free \cup {0} /\ slots[i] # head
      /\ \A i, j \in Free : slots[i] = slots[j] => i = j
      /\ \A S \in (SUBSET Free) \ {{}} : \E i \in S : slots[i] \notin S
    BY <1>3, <1>4 DEF IInv, Chain
<1>6. head \in DOMAIN slots /\ slots[head] \in Nat /\ slots[head] # Main
    BY <1>5, HandleAssumption DEF Free
<1>7. Chain'
    <2>1. head' # Main /\ head' \in Listed' \cup {0}
        BY <1>3, <1>4, <1>5, <1>6
    <2>2. \A e \in Listed' \cup {0} : e = head' \/ \E i \in Listed' : slots'[i] = e
        BY <1>1, <1>3, <1>4, <1>5
    <2>3. \A i \in Listed' : slots'[i] \in Listed' \cup {0} /\ slots'[i] # head'
        BY <1>1, <1>3, <1>4, <1>5
    <2>4. \A i, j \in Listed' : slots'[i] = slots'[j] => i = j
        BY <1>1, <1>4, <1>5
    <2>5. \A S \in (SUBSET Listed') \ {{}} : \E i \in S : slots'[i] \notin S
        BY <1>1, <1>4, <1>5
    <2> QED
        BY <2>1, <2>2, <2>3, <2>4, <2>5 DEF Chain
<1>8. Registers(t)'
    <2>1. DOMAIN slots = 1 .. Len(slots) /\ Len(slots) \in Nat
        BY DEF IInv, Types
    <2> QED
        BY <1>1, <1>2, <1>3, <1>6, <2>1 DEF Registers
<1>9. Grounded' /\ Owned'
    BY <1>1, <1>2, SameGround, SameOwners DEF lifeVars
<1>10. /\ slots' \in Seq(Threads \cup Nat) /\ head' \in Nat \cup {Main}
       /\ reg' \in [Threads -> Registries]
       /\ "ref_store" \in RefPCs /\ "ref_store" \in Storing /\ pc[t] \in Storing
    BY <1>1, <1>3, <1>6 DEF IInv, Types, Registries, RefPCs, Storing
<1> QED
    BY <1>1, <1>2, <1>7, <1>8, <1>9, <1>10, WalkKeeps

LEMMA LenKeeps ==
    ASSUME IInv, NEW t \in Threads, ref_len(t) PROVE IInv'
<1>1. /\ UNCHANGED <<lifeVars, handle, holders, slots, head, call, failed, told>>
      /\ pc[t] = "ref_len" /\ Goto(t, "ref_store")
      /\ reg' = [reg EXCEPT ![t].ref = Len(slots) + 1]
    BY DEF ref_len, regVars
<1>2. /\ pc'[t] = "ref_store" /\ \A w \in Threads \ {t} : pc'[w] = pc[w] /\ pc'[w] \notin RefPCs
      /\ pc[t] \in RefPCs
    BY <1>1, Goes DEF RefPCs
<1>3. DOMAIN slots = 1 .. Len(slots) /\ Len(slots) \in Nat /\ head \in Nat
    BY <1>1 DEF IInv, Types, Registers
<1>4. PICK q \in Registries, n \in Nat : q = reg[t] /\ n = Len(slots) + 1
    BY <1>3 DEF IInv, Types, Registries
<1>5. PICK r \in Registries : r = [q EXCEPT !.ref = n]
    BY DEF Registries
<1>6. r.ref = n
    BY <1>5 DEF Registries
<1>7. reg' = [reg EXCEPT ![t] = r] /\ reg' \in [Threads -> Registries] /\ reg'[t] = r
    BY <1>1, <1>4, <1>5 DEF IInv, Types, Registries
<1>8. Chain'
    <2>1. Listed = Free
        BY <1>1, AllListed DEF RefPCs
    <2>2. Listed' = Free' \ {n}
        BY <1>2, <1>6, <1>7, OneOutNext
    <2>3. Free' = Free /\ n \notin Free
        BY <1>1, <1>3, <1>4 DEF Free
    <2> QED
        BY <1>1, <2>1, <2>2, <2>3, SameChain
<1>9. Registers(t)'
    BY <1>1, <1>2, <1>3, <1>4, <1>6, <1>7 DEF Registers
<1>10. Grounded' /\ Owned'
    BY <1>1, <1>2, SameGround, SameOwners DEF lifeVars
<1>11. /\ slots' \in Seq(Threads \cup Nat) /\ head' \in Nat \cup {Main}
       /\ "ref_store" \in RefPCs /\ "ref_store" \in Storing /\ pc[t] \in Storing
    BY <1>1 DEF IInv, Types, RefPCs, Storing
<1> QED
    BY <1>1, <1>2, <1>7, <1>8, <1>9, <1>10, <1>11, WalkKeeps

----------------------------------------------------------------------------
\* The fields of a changed handle.
LEMMA RefField ==
    ASSUME NEW h \in Handles, NEW r \in Nat
    PROVE  \E g \in Handles :
            /\ g = [h EXCEPT !.ref = r] /\ g.ref = r /\ g.exists = h.exists
            /\ g.bound = h.bound /\ g.joined = h.joined /\ g.detached = h.detached /\ g.has_error = h.has_error
<1>1. PICK g \in Handles : g = [h EXCEPT !.ref = r]
    BY DEF Handles
<1>2. g.ref = r /\ g.exists = h.exists /\ g.bound = h.bound
    BY <1>1 DEF Handles
<1>3. g.joined = h.joined /\ g.detached = h.detached /\ g.has_error = h.has_error
    BY <1>1 DEF Handles
<1> QED
    BY <1>1, <1>2, <1>3

LEMMA JoinedField ==
    ASSUME NEW h \in Handles
    PROVE  \E g \in Handles :
            /\ g = [h EXCEPT !.joined = TRUE] /\ g.ref = h.ref /\ g.exists = h.exists
            /\ g.bound = h.bound /\ g.joined = TRUE /\ g.detached = h.detached /\ g.has_error = h.has_error
<1>1. PICK g \in Handles : g = [h EXCEPT !.joined = TRUE]
    BY DEF Handles
<1>2. g.ref = h.ref /\ g.exists = h.exists /\ g.bound = h.bound
    BY <1>1 DEF Handles
<1>3. g.joined = TRUE /\ g.detached = h.detached /\ g.has_error = h.has_error
    BY <1>1 DEF Handles
<1> QED
    BY <1>1, <1>2, <1>3

LEMMA ExistsField ==
    ASSUME NEW h \in Handles
    PROVE  \E g \in Handles :
            /\ g = [h EXCEPT !.exists = "freed"] /\ g.ref = h.ref /\ g.exists = "freed"
            /\ g.bound = h.bound /\ g.joined = h.joined /\ g.detached = h.detached /\ g.has_error = h.has_error
<1>1. PICK g \in Handles : g = [h EXCEPT !.exists = "freed"]
    BY DEF Handles
<1>2. g.ref = h.ref /\ g.exists = "freed" /\ g.bound = h.bound
    BY <1>1 DEF Handles
<1>3. g.joined = h.joined /\ g.detached = h.detached /\ g.has_error = h.has_error
    BY <1>1 DEF Handles
<1> QED
    BY <1>1, <1>2, <1>3

LEMMA ErrorField ==
    ASSUME NEW h \in Handles, NEW b \in BOOLEAN
    PROVE  \E g \in Handles :
            /\ g = [h EXCEPT !.has_error = b] /\ g.ref = h.ref /\ g.exists = h.exists
            /\ g.bound = h.bound /\ g.joined = h.joined /\ g.detached = h.detached /\ g.has_error = b
<1>1. PICK g \in Handles : g = [h EXCEPT !.has_error = b]
    BY DEF Handles
<1>2. g.ref = h.ref /\ g.exists = h.exists /\ g.bound = h.bound
    BY <1>1 DEF Handles
<1>3. g.joined = h.joined /\ g.detached = h.detached /\ g.has_error = b
    BY <1>1 DEF Handles
<1> QED
    BY <1>1, <1>2, <1>3

\* What the caller of luaL_unref does to the handle.
LEMMA AfterFields ==
    ASSUME NEW h \in Handles, NEW op \in {"create", "join", "detach", "gc"}
    PROVE  \E g \in Handles :
            /\ g = After(op, h) /\ g.ref = h.ref /\ g.joined = h.joined
            /\ g.has_error = h.has_error
            /\ op = "create" => g = h
            /\ op # "create" => ~g.bound
<1>1. CASE op = "create"
    BY <1>1 DEF After
<1>2. CASE op = "join"
    <2>1. PICK g \in Handles : g = [h EXCEPT !.bound = FALSE]
        BY DEF Handles
    <2>2. g.ref = h.ref /\ g.joined = h.joined /\ g.has_error = h.has_error /\ ~g.bound
        BY <2>1 DEF Handles
    <2> QED
        BY <1>2, <2>1, <2>2 DEF After
<1>3. CASE op = "detach"
    <2>1. PICK g \in Handles : g = [h EXCEPT !.bound = FALSE, !.detached = TRUE]
        BY DEF Handles
    <2>2. g.ref = h.ref /\ g.joined = h.joined /\ g.has_error = h.has_error /\ ~g.bound
        BY <2>1 DEF Handles
    <2> QED
        BY <1>3, <2>1, <2>2 DEF After
<1>4. CASE op = "gc"
    <2>1. PICK g \in Handles :
            g = [h EXCEPT !.exists = "freed", !.bound = FALSE, !.detached = TRUE]
        BY DEF Handles
    <2>2. g.ref = h.ref /\ g.joined = h.joined /\ g.has_error = h.has_error /\ ~g.bound
        BY <2>1 DEF Handles
    <2> QED
        BY <1>4, <2>1, <2>2 DEF After
<1> QED
    BY <1>1, <1>2, <1>3, <1>4

LEMMA StoredIs ==
    ASSUME slots \in Seq(Threads \cup Nat), NEW r \in 1 .. Len(slots) + 1,
           NEW v \in Threads \cup Nat
    PROVE  /\ Stored(r, v) \in Seq(Threads \cup Nat)
           /\ DOMAIN Stored(r, v) = DOMAIN slots \cup {r}
           /\ Stored(r, v)[r] = v
           /\ \A i \in DOMAIN slots : i # r => Stored(r, v)[i] = slots[i]
<1>1. /\ Len(slots) \in Nat /\ DOMAIN slots = 1 .. Len(slots)
      /\ \A i \in 1 .. Len(slots) : slots[i] \in Threads \cup Nat
    OBVIOUS
<1>2. PICK n \in Nat : n = IF r > Len(slots) THEN r ELSE Len(slots)
    <2>1. r \in Nat
        BY <1>1
    <2> QED
        BY <1>1, <2>1
<1>3. Stored(r, v) = [i \in 1 .. n |-> IF i = r THEN v ELSE slots[i]]
    BY <1>2 DEF Stored
<1>4. \A i : i \in 1 .. n <=> i \in (1 .. Len(slots)) \cup {r}
    <2>1. PICK k \in Nat : k = Len(slots)
        BY <1>1
    <2>2. r \in 1 .. k + 1 /\ n = IF r > k THEN r ELSE k
        BY <1>2, <2>1
    <2>3. CASE r > k
        BY <2>2, <2>3, <2>1
    <2>4. CASE ~(r > k)
        BY <2>2, <2>4, <2>1
    <2> QED
        BY <2>3, <2>4
<1>5. \A i \in 1 .. n : (IF i = r THEN v ELSE slots[i]) \in Threads \cup Nat
    BY <1>1, <1>4
<1>6. [i \in 1 .. n |-> IF i = r THEN v ELSE slots[i]] \in Seq(Threads \cup Nat)
    BY <1>5
<1> QED
    BY <1>1, <1>3, <1>4, <1>6

LEMMA ChainKept ==
    ASSUME IInv, UNCHANGED head, head \in Nat, Listed' = Listed,
           \A i \in Listed : slots'[i] = slots[i]
    PROVE  Chain'
<1>1. head # Main
    BY HandleAssumption
<1> QED
    BY <1>1 DEF IInv, Chain

\* An entry of a reference becomes a link.
LEMMA LinkKeeps ==
    ASSUME IInv, NEW t \in Threads, unref_link(t) PROVE IInv'
<1>1. /\ UNCHANGED <<lifeVars, handle, holders, head, call, failed, told, reg>>
      /\ pc[t] = "unref_link" /\ Goto(t, "unref_head")
      /\ slots' = Stored(reg[t].ref, reg[t].next)
    BY DEF unref_link
<1>2. /\ pc'[t] = "unref_head" /\ \A w \in Threads \ {t} : pc'[w] = pc[w] /\ pc'[w] \notin RefPCs
      /\ pc[t] \in RefPCs
    BY <1>1, Goes DEF RefPCs
<1>3. PICK r \in Nat, u \in Threads :
        /\ r = reg[t].ref /\ r = handle[u].ref /\ u = On(t) /\ reg[t].next = head /\ head \in Nat
        /\ r \in DOMAIN slots /\ slots[r] = u /\ u \notin Nat
    BY <1>1, HandleAssumption DEF IInv, Types, Registers, On
<1>4. /\ slots \in Seq(Threads \cup Nat) /\ DOMAIN slots = 1 .. Len(slots) /\ Len(slots) \in Nat
    BY DEF IInv, Types
<1>5. /\ slots' \in Seq(Threads \cup Nat) /\ DOMAIN slots' = DOMAIN slots
      /\ slots'[r] = head /\ \A i \in DOMAIN slots : i # r => slots'[i] = slots[i]
    <2>1. r \in 1 .. Len(slots) + 1 /\ head \in Threads \cup Nat /\ slots' = Stored(r, head)
        BY <1>1, <1>3, <1>4
    <2>2. /\ Stored(r, head) \in Seq(Threads \cup Nat)
          /\ DOMAIN Stored(r, head) = DOMAIN slots \cup {r}
          /\ Stored(r, head)[r] = head
          /\ \A i \in DOMAIN slots : i # r => Stored(r, head)[i] = slots[i]
        BY <1>4, <2>1, StoredIs
    <2> QED
        BY <1>3, <2>1, <2>2
<1>6. Listed' = Listed /\ r \notin Listed /\ Listed \subseteq DOMAIN slots
    <2>1. Listed = Free
        BY <1>1, AllListed DEF RefPCs
    <2>2. Listed' = Free' \ {r}
        BY <1>1, <1>2, <1>3, OneOutNext
    <2>3. r \notin Free /\ Free' = Free \cup {r}
        BY <1>3, <1>5 DEF Free
    <2> QED
        BY <2>1, <2>2, <2>3 DEF Free
<1>7. Chain'
    BY <1>1, <1>3, <1>5, <1>6, ChainKept
<1>8. Grounded'
    <2>1. status[u] \in Finished /\ u \notin Live
        <3>1. status[On(t)] = IF call[t].op = "create" THEN "failed" ELSE "ended"
            BY <1>1 DEF IInv, Place, Unreffing
        <3>2. status[u] \in Finished
            BY <1>3, <3>1 DEF Finished
        <3> QED
            BY <3>2 DEF Finished, Live
    <2>2. kept[u] = {}
        BY <2>1 DEF IInv, Place, Finished, Storing
    <2>3. ASSUME NEW S \in SUBSET Threads, Marks(S)' PROVE Marks(S \cup {u})
        BY <1>1, <1>3, <1>5, <2>2, <2>3 DEF Marks, lifeVars
    <2>4. Live' = Live /\ Grounded
        BY <1>1 DEF Live, lifeVars, IInv
    <2> QED
        BY <2>1, <2>3, <2>4, GroundedStays
<1>9. Owned'
    <2>1. On(t)' = u /\ UNCHANGED <<handle, status, freed>>
        BY <1>1, <1>3 DEF On, lifeVars
    <2>2. \A i \in DOMAIN slots' : slots'[i] \in Threads => i # r /\ slots'[i] = slots[i]
        BY <1>3, <1>5, HandleAssumption
    <2>3. \A w \in Threads : \A x \in Threads : pc[x] = "unref_head" => On(x) # w
        BY <1>1, <1>2 DEF RefPCs
    <2>4. ASSUME NEW w \in Threads \ {u}, handle[w].bound, handle[w].ref # 0, status[w] # "failed"
          PROVE  handle[w].ref \in DOMAIN slots' /\ slots'[handle[w].ref] = w
        <3>1. handle[w].ref \in DOMAIN slots /\ slots[handle[w].ref] = w
            BY <2>3, <2>4 DEF IInv, Owned
        <3> QED
            BY <1>3, <1>5, <3>1
    <2> QED
        BY <1>2, <1>5, <2>1, <2>2, <2>4 DEF IInv, Owned
<1>10. Registers(t)'
    <2>1. On(t)' = u
        BY <1>1, <1>3 DEF On
    <2> QED
        BY <1>1, <1>2, <1>3, <1>5, <2>1 DEF Registers
<1>11. /\ head' \in Nat \cup {Main} /\ reg' \in [Threads -> Registries]
       /\ "unref_head" \in RefPCs /\ "unref_head" \notin Storing /\ pc[t] \notin Storing
    BY <1>1 DEF IInv, Types, Registries, RefPCs, Storing
<1> QED
    BY <1>1, <1>2, <1>5, <1>7, <1>8, <1>9, <1>10, <1>11, WalkKeeps

\* The calling thread leaves the registry.
LEMMA Leaves ==
    ASSUME IInv, NEW t \in Threads, NEW l \in {"start", "lua"}, pc[t] \in RefPCs,
           Goto(t, l), UNCHANGED call
    PROVE  /\ pc' \in [Threads -> PCs] /\ pc'[t] = l
           /\ \A w \in Threads \ {t} : pc'[w] = pc[w] /\ pc'[w] \notin RefPCs
           /\ Turns' /\ Active' = Active
           /\ \A w \in Threads : Registers(w)' /\ On(w)' = On(w) /\ ~(pc'[w] \in Unreffing)
<1>1. pc' \in [Threads -> PCs] /\ pc'[t] = l /\ \A w \in Threads \ {t} : pc'[w] = pc[w]
    BY DEF Goto, PCs, IInv, Types
<1>2. \A w \in Threads : pc'[w] \notin RefPCs
    BY <1>1, OthersOut DEF RefPCs
<1>3. \A w \in Threads : On(w)' = On(w) /\ (InCall(w)' => InCall(w))
    BY <1>1 DEF On, InCall
<1>4. Turns'
    BY <1>2, <1>3 DEF Turns, IInv
<1>5. Active' = Active
    BY <1>1 DEF Active, RefPCs
<1>6. \A w \in Threads : Registers(w)' /\ ~(pc'[w] \in Unreffing)
    BY <1>2 DEF Registers, RefPCs, Unreffing
<1> QED
    BY <1>1, <1>2, <1>3, <1>4, <1>5, <1>6

\* A reference is stored: the registry keeps the state in place of the stack of t.
LEMMA StoreKeeps ==
    ASSUME IInv, NEW t \in Threads, ref_store(t) PROVE IInv'
<1>1. /\ UNCHANGED <<status, native, freed, reported, holders, head, call, reg, failed, told>>
      /\ pc[t] = "ref_store" /\ Goto(t, "start")
      /\ slots' = Stored(reg[t].ref, On(t))
      /\ kept' = [kept EXCEPT ![t] = @ \ {On(t)}]
      /\ handle' = [handle EXCEPT ![On(t)].ref = reg[t].ref]
    BY DEF ref_store
<1>2. pc[t] \in RefPCs
    BY <1>1 DEF RefPCs
<1>3. /\ pc' \in [Threads -> PCs] /\ pc'[t] = "start"
      /\ \A w \in Threads \ {t} : pc'[w] = pc[w] /\ pc'[w] \notin RefPCs
      /\ Turns' /\ Active' = Active
      /\ \A w \in Threads : Registers(w)' /\ On(w)' = On(w) /\ ~(pc'[w] \in Unreffing)
    BY <1>1, <1>2, Leaves
<1>4. PICK r \in Nat, u \in Threads :
        /\ r = reg[t].ref /\ u = On(t) /\ head \in Nat /\ r # 0 /\ u \notin Nat
        /\ r \in 1 .. Len(slots) + 1 /\ (r \in DOMAIN slots => slots[r] \in Nat)
    <2>1. /\ reg[t].ref \in 1 .. Len(slots) + 1 /\ head \in Nat
          /\ reg[t].ref \in DOMAIN slots => slots[reg[t].ref] \in Nat
        BY <1>1 DEF IInv, Registers
    <2>2. reg[t].ref \in Nat /\ reg[t].ref # 0 /\ On(t) \in Threads
        BY <2>1 DEF IInv, Types, On
    <2> QED
        BY <2>1, <2>2, HandleAssumption
<1>5. /\ slots \in Seq(Threads \cup Nat) /\ DOMAIN slots = 1 .. Len(slots) /\ Len(slots) \in Nat
      /\ handle \in [Threads -> Handles] /\ kept \in [Threads -> SUBSET Threads]
    BY DEF IInv, Types, Handles
<1>6. /\ slots' \in Seq(Threads \cup Nat) /\ DOMAIN slots' = DOMAIN slots \cup {r}
      /\ slots'[r] = u /\ \A i \in DOMAIN slots : i # r => slots'[i] = slots[i]
    <2>1. u \in Threads \cup Nat /\ slots' = Stored(r, u)
        BY <1>1, <1>4
    <2> QED
        BY <1>4, <1>5, <2>1, StoredIs
<1>7. /\ pc[t] \in Storing /\ status[t] = "running" /\ kept[t] = {u} /\ call[t].op = "create"
      /\ status[u] = "new" /\ u \in reported /\ handle[u].ref = 0 /\ t \in holders[u]
    BY <1>1, <1>4 DEF IInv, Place, Storing, RefPCs
<1>8. /\ handle[u].bound /\ handle[u].exists = "yes"
      /\ ~handle[u].joined /\ ~handle[u].detached /\ ~handle[u].has_error
    BY <1>7 DEF IInv, Life, Live
<1>9. PICK g \in Handles :
        /\ handle' = [handle EXCEPT ![u] = g] /\ g.ref = r /\ g.exists = handle[u].exists
        /\ g.bound = handle[u].bound /\ g.joined = handle[u].joined
        /\ g.detached = handle[u].detached /\ g.has_error = handle[u].has_error
    <2>1. handle[u] \in Handles
        BY <1>5
    <2>2. PICK g \in Handles :
            /\ g = [handle[u] EXCEPT !.ref = r] /\ g.ref = r /\ g.exists = handle[u].exists
            /\ g.bound = handle[u].bound /\ g.joined = handle[u].joined
            /\ g.detached = handle[u].detached /\ g.has_error = handle[u].has_error
        BY <1>4, <2>1, RefField
    <2>3. handle' = [handle EXCEPT ![u] = g]
        BY <1>1, <1>4, <1>5, <2>2
    <2> QED
        BY <2>2, <2>3
<1>10. /\ handle' \in [Threads -> Handles] /\ handle'[u] = g
       /\ \A w \in Threads \ {u} : handle'[w] = handle[w]
    BY <1>5, <1>9
<1>11. /\ kept' \in [Threads -> SUBSET Threads] /\ kept'[t] = {}
       /\ \A w \in Threads \ {t} : kept'[w] = kept[w]
    BY <1>1, <1>4, <1>5, <1>7
<1>12. Types'
    BY <1>1, <1>3, <1>6, <1>10, <1>11 DEF IInv, Types, Handles
<1>13. Grounded'
    <2>1. Live' = Live /\ 0 \notin Live /\ 0 \notin Threads
        BY <1>1, HandleAssumption DEF Live
    <2>2. ASSUME NEW S \in SUBSET Threads, Marks(S)' PROVE Marks(S)
        <3>1. \A i \in DOMAIN slots : slots[i] \in Threads => slots[i] \in S
            BY <1>4, <1>6, <2>2, HandleAssumption DEF Marks
        <3>2. u \in S
            BY <1>6, <2>2 DEF Marks
        <3>3. \A s \in S : kept[s] \subseteq S
            BY <1>7, <1>11, <2>2, <3>2 DEF Marks
        <3> QED
            BY <2>2, <3>1, <3>3 DEF Marks
    <2> QED
        BY <2>1, <2>2, GroundedStays DEF IInv
<1>14. Chain'
    <2>1. Listed = Free \ {r}
        BY <1>1, <1>4, OneOut
    <2>2. Listed' = Free'
        BY <1>3, AllListedNext
    <2>3. \A i \in DOMAIN slots' : slots'[i] \in Nat <=> (i \in DOMAIN slots /\ i # r /\ slots[i] \in Nat)
        BY <1>4, <1>6
    <2>4. \A i : i \in Free' <=> i \in Free \ {r}
        BY <1>6, <2>3 DEF Free
    <2>5. Listed' = Listed /\ \A i \in Listed : slots'[i] = slots[i]
        BY <1>6, <2>1, <2>2, <2>4 DEF Free
    <2> QED
        BY <1>1, <1>4, <2>5, ChainKept
<1>15. Owned'
    <2>1. ASSUME NEW i \in DOMAIN slots', slots'[i] \in Threads
          PROVE  /\ handle'[slots'[i]].ref = i /\ handle'[slots'[i]].bound
                 /\ handle'[slots'[i]].exists = "yes" /\ slots'[i] \notin freed'
        <3>1. CASE i = r
            <4>1. u \notin freed
                BY <1>7 DEF IInv, Life, Finished
            <4> QED
                BY <1>1, <1>6, <1>8, <1>9, <1>10, <3>1, <4>1
        <3>2. CASE i # r
            <4>1. i \in DOMAIN slots /\ slots'[i] = slots[i] /\ i # 0
                BY <1>5, <1>6, <3>2
            <4>2. /\ handle[slots[i]].ref = i /\ handle[slots[i]].bound
                  /\ handle[slots[i]].exists = "yes" /\ slots[i] \notin freed
                BY <2>1, <4>1 DEF IInv, Owned
            <4>3. slots[i] # u
                BY <1>7, <4>1, <4>2
            <4> QED
                BY <1>1, <1>10, <2>1, <4>1, <4>2, <4>3
        <3> QED
            BY <3>1, <3>2
    <2>2. \A x \in Threads : pc[x] # "unref_head"
        BY <1>1, <1>3 DEF RefPCs
    <2>3. ASSUME NEW w \in Threads, handle'[w].bound, handle'[w].ref # 0, status'[w] # "failed"
          PROVE  handle'[w].ref \in DOMAIN slots' /\ slots'[handle'[w].ref] = w
        <3>1. CASE w = u
            BY <1>6, <1>9, <1>10, <3>1
        <3>2. CASE w # u
            <4>1. handle'[w] = handle[w] /\ status'[w] = status[w]
                BY <1>1, <1>10, <3>2
            <4>2. handle[w].ref \in DOMAIN slots /\ slots[handle[w].ref] = w
                BY <2>2, <2>3, <4>1 DEF IInv, Owned
            <4>3. handle[w].ref # r
                BY <1>4, <4>2, HandleAssumption
            <4> QED
                BY <1>6, <4>1, <4>2, <4>3
        <3> QED
            BY <3>1, <3>2
    <2> QED
        BY <2>1, <2>3 DEF Owned
<1>16. ASSUME NEW w \in Threads PROVE Place(w)'
    <2>1. CASE w = t
        BY <1>1, <1>3, <1>4, <1>7, <1>9, <1>10, <1>11, <2>1 DEF Place, Storing, Unreffing, InCall, RefPCs
    <2>2. CASE w # t
        <3>1. Place(w) /\ pc'[w] = pc[w] /\ kept'[w] = kept[w]
            BY <1>3, <1>11, <2>2 DEF IInv
        <3>2. InCall(w) => On(w) \in Threads /\ handle'[On(w)] = handle[On(w)]
            <4>1. On(w) \in Threads
                BY DEF IInv, Types, On
            <4> QED
                BY <1>2, <1>4, <1>10, <2>2, <4>1, OthersOut
        <3>3. pc[w] \in {"join", "xjoin"} => On(w) \notin freed'
            BY <1>1, <3>1 DEF Place
        <3> QED
            BY <1>1, <3>1, <3>2, <3>3, PlaceStays
    <2> QED
        BY <2>1, <2>2
<1>17. \A v \in Threads : ~Letting(v) /\ ~Letting(v)'
    <2>1. \A w \in Threads : ~(pc[w] \in Unreffing)
        BY <1>1, <1>3 DEF Unreffing, RefPCs
    <2> QED
        BY <1>3, <2>1 DEF Letting
<1>18. \A v \in Threads : Making(v) => Making(v)'
    <2>1. \A w \in Threads : pc[w] \in Storing \cup {"start"} => pc'[w] \in Storing \cup {"start"}
        BY <1>3
    <2> QED
        BY <1>3, <2>1 DEF Making
<1>19. ASSUME NEW v \in Threads PROVE Life(v)'
    <2>1. /\ Life(v) /\ holders'[v] \subseteq Active' /\ (pc'[v] = "report" <=> pc[v] = "report")
          /\ Making(v) => Making(v)'
        BY <1>1, <1>3, <1>18 DEF IInv, Life
    <2>2. CASE v = u
        BY <1>1, <1>4, <1>7, <1>8, <1>9, <1>10, <1>17, <2>1, <2>2 DEF Life, Live, Usable
    <2>3. CASE v # u
        BY <1>1, <1>10, <1>17, <2>1, <2>3, LifeStays
    <2> QED
        BY <2>2, <2>3
<1> QED
    BY <1>3, <1>12, <1>13, <1>14, <1>15, <1>16, <1>19 DEF IInv

\* The place of a reference becomes the first free one.
LEMMA HeadReturns ==
    ASSUME IInv, NEW t \in Threads, unref_head(t) PROVE IInv'
<1>1. /\ UNCHANGED <<lifeVars, slots, call, reg, failed, told>>
      /\ pc[t] = "unref_head" /\ Goto(t, "lua") /\ head' = reg[t].ref
      /\ handle' = [handle EXCEPT ![On(t)] = After(call[t].op, @)]
      /\ holders' = [holders EXCEPT ![On(t)] = IF call[t].op = "create" THEN @ \ {t} ELSE @]
    BY DEF unref_head
<1>2. pc[t] \in RefPCs /\ pc[t] \in Unreffing
    BY <1>1 DEF RefPCs, Unreffing
<1>3. /\ pc' \in [Threads -> PCs] /\ pc'[t] = "lua"
      /\ \A w \in Threads \ {t} : pc'[w] = pc[w] /\ pc'[w] \notin RefPCs
      /\ Turns' /\ Active' = Active
      /\ \A w \in Threads : Registers(w)' /\ On(w)' = On(w) /\ ~(pc'[w] \in Unreffing)
    BY <1>1, <1>2, Leaves
<1>4. PICK r \in Nat, u \in Threads :
        /\ r = reg[t].ref /\ r = handle[u].ref /\ u = On(t) /\ head \in Nat
        /\ r \in DOMAIN slots /\ slots[r] = head /\ r # 0 /\ head # Main /\ r # Main
    <2>1. /\ reg[t].ref = handle[On(t)].ref /\ head \in Nat
          /\ reg[t].ref \in DOMAIN slots /\ slots[reg[t].ref] = head
        BY <1>1 DEF IInv, Registers
    <2>2. reg[t].ref \in Nat /\ reg[t].ref # 0 /\ On(t) \in Threads
        BY <2>1 DEF IInv, Types, On
    <2> QED
        BY <2>1, <2>2, HandleAssumption
<1>5. /\ handle \in [Threads -> Handles] /\ kept \in [Threads -> SUBSET Threads]
    BY DEF IInv, Types, Handles
<1>6. /\ call[t].op \in {"create", "join", "detach", "gc"} /\ status[t] = "running" /\ kept[t] = {}
      /\ status[u] = IF call[t].op = "create" THEN "failed" ELSE "ended"
      /\ handle[u].bound /\ handle[u].ref # 0 /\ (call[t].op = "create" => ~handle[u].joined)
    BY <1>1, <1>2, <1>4 DEF IInv, Place, Unreffing, Storing
<1>7. PICK g \in Handles :
        /\ handle' = [handle EXCEPT ![u] = g] /\ g.ref = r
        /\ g.joined = handle[u].joined /\ g.has_error = handle[u].has_error
        /\ call[t].op = "create" => g = handle[u]
        /\ call[t].op # "create" => ~g.bound
    <2>1. handle[u] \in Handles /\ call[t].op \in {"create", "join", "detach", "gc"}
        BY <1>5, <1>6
    <2>2. PICK g \in Handles :
            /\ g = After(call[t].op, handle[u]) /\ g.ref = handle[u].ref
            /\ g.joined = handle[u].joined /\ g.has_error = handle[u].has_error
            /\ call[t].op = "create" => g = handle[u]
            /\ call[t].op # "create" => ~g.bound
        BY <2>1, AfterFields
    <2>3. handle' = [handle EXCEPT ![u] = g]
        BY <1>1, <1>4, <1>5, <2>2
    <2> QED
        BY <1>4, <2>2, <2>3
<1>8. /\ handle' \in [Threads -> Handles] /\ handle'[u] = g
      /\ \A w \in Threads \ {u} : handle'[w] = handle[w]
    BY <1>5, <1>7
<1>15. /\ holders' \in [Threads -> SUBSET Threads]
       /\ \A w \in Threads : holders'[w] \subseteq holders[w]
       /\ \A w \in Threads \ {u} : holders'[w] = holders[w]
    <2>1. holders \in [Threads -> SUBSET Threads]
        BY DEF IInv, Types
    <2> QED
        BY <1>1, <1>4, <2>1
<1>9. Types'
    BY <1>1, <1>3, <1>4, <1>8, <1>15 DEF IInv, Types, Handles, lifeVars
<1>10. Grounded'
    BY <1>1, SameGround DEF lifeVars
<1>11. Chain'
    <2>1. Listed = Free \ {r} /\ Listed' = Free' /\ Free' = Free /\ r \in Free
        <3>1. Listed = Free \ {r}
            BY <1>1, <1>4, OneOut
        <3>2. Listed' = Free'
            BY <1>3, AllListedNext
        <3> QED
            BY <1>1, <1>4, <3>1, <3>2 DEF Free
    <2>2. Listed' = Listed \cup {r} /\ r \notin Listed /\ head' = r /\ slots' = slots
        BY <1>1, <1>4, <2>1
    <2>3. /\ head \in Listed \cup {0}
          /\ \A e \in Listed \cup {0} : e = head \/ \E i \in Listed : slots[i] = e
          /\ \A i \in Listed : slots[i] \in Listed \cup {0} /\ slots[i] # head
          /\ \A i, j \in Listed : slots[i] = slots[j] => i = j
          /\ \A S \in (SUBSET Listed) \ {{}} : \E i \in S : slots[i] \notin S
        BY <1>4 DEF IInv, Chain
    <2>4. \A e \in Listed' \cup {0} : e = head' \/ \E i \in Listed' : slots'[i] = e
        BY <1>4, <2>2, <2>3
    <2>5. \A i \in Listed' : slots'[i] \in Listed' \cup {0} /\ slots'[i] # head'
        BY <1>4, <2>2, <2>3
    <2>6. \A i, j \in Listed' : slots'[i] = slots'[j] => i = j
        BY <1>4, <2>2, <2>3
    <2>7. ASSUME NEW S \in (SUBSET Listed') \ {{}} PROVE \E i \in S : slots'[i] \notin S
        <3>1. CASE S \ {r} = {}
            <4>1. r \in S /\ slots'[r] # r /\ \A x \in S : x = r
                BY <1>4, <2>2, <2>3, <3>1
            <4> QED
                BY <4>1
        <3>2. CASE S \ {r} # {}
            <4>1. S \ {r} \in (SUBSET Listed) \ {{}}
                BY <2>2, <3>2
            <4>2. PICK i \in S \ {r} : slots[i] \notin S \ {r}
                BY <2>3, <4>1
            <4>3. slots'[i] # r /\ slots'[i] = slots[i]
                BY <2>2, <2>5, <4>1, <4>2
            <4> QED
                BY <4>2, <4>3
        <3> QED
            BY <3>1, <3>2
    <2> QED
        BY <1>4, <2>2, <2>4, <2>5, <2>6, <2>7 DEF Chain
<1>12. Owned'
    <2>1. ASSUME NEW i \in DOMAIN slots', slots'[i] \in Threads
          PROVE  /\ handle'[slots'[i]].ref = i /\ handle'[slots'[i]].bound
                 /\ handle'[slots'[i]].exists = "yes" /\ slots'[i] \notin freed'
        <3>1. /\ i \in DOMAIN slots /\ slots'[i] = slots[i] /\ handle[slots[i]].ref = i
              /\ handle[slots[i]].bound /\ handle[slots[i]].exists = "yes"
              /\ slots[i] \notin freed /\ freed' = freed
            BY <1>1, <2>1 DEF IInv, Owned, lifeVars
        <3>2. slots[i] # u
            BY <1>4, <2>1, <3>1, HandleAssumption
        <3> QED
            BY <1>8, <2>1, <3>1, <3>2
    <2>2. \A x \in Threads : pc[x] = "unref_head" => x = t
        BY <1>3 DEF RefPCs
    <2>3. ASSUME NEW w \in Threads, handle'[w].bound, handle'[w].ref # 0, status'[w] # "failed"
          PROVE  handle'[w].ref \in DOMAIN slots' /\ slots'[handle'[w].ref] = w
        <3>1. w # u
            BY <1>1, <1>6, <1>7, <1>8, <2>3 DEF lifeVars
        <3>2. handle'[w] = handle[w] /\ status'[w] = status[w] /\ slots' = slots
            BY <1>1, <1>8, <3>1 DEF lifeVars
        <3> QED
            BY <1>4, <2>2, <2>3, <3>1, <3>2 DEF IInv, Owned
    <2> QED
        BY <2>1, <2>3 DEF Owned
<1>13. ASSUME NEW w \in Threads PROVE Place(w)'
    <2>1. CASE w = t
        BY <1>1, <1>3, <1>6, <2>1 DEF Place, Storing, Unreffing, InCall, RefPCs, lifeVars
    <2>2. CASE w # t
        <3>1. Place(w) /\ pc'[w] = pc[w] /\ kept'[w] = kept[w]
            BY <1>1, <1>3, <2>2 DEF IInv, lifeVars
        <3>2. InCall(w) => /\ On(w) \in Threads /\ handle'[On(w)] = handle[On(w)]
                           /\ holders'[On(w)] = holders[On(w)]
            <4>1. On(w) \in Threads
                BY DEF IInv, Types, On
            <4> QED
                BY <1>2, <1>4, <1>8, <1>15, <2>2, <4>1, OthersOut
        <3>3. pc[w] \in {"join", "xjoin"} => On(w) \notin freed'
            BY <1>1, <3>1 DEF Place, lifeVars
        <3> QED
            BY <1>1, <3>1, <3>2, <3>3, PlaceStays DEF lifeVars
    <2> QED
        BY <2>1, <2>2
<1>14. ASSUME NEW v \in Threads PROVE Life(v)'
    <2>1. /\ Life(v) /\ holders'[v] \subseteq Active' /\ (pc'[v] = "report" <=> pc[v] = "report")
          /\ ~Letting(v)'
        BY <1>1, <1>3, <1>15 DEF IInv, Life, Letting
    <2>2. UNCHANGED <<status, native, freed, reported, failed, told>>
        BY <1>1 DEF lifeVars
    <2>3. CASE v = u /\ call[t].op = "create"
        <3>1. handle'[v] = handle[v] /\ status[v] = "failed" /\ ~handle[v].joined
            BY <1>6, <1>7, <1>8, <2>3
        <3> QED
            BY <2>1, <2>2, <3>1 DEF Life, Live, Usable
    <2>4. CASE v = u /\ call[t].op # "create"
        <3>1. /\ ~handle'[v].bound /\ handle'[v].ref = handle[v].ref /\ status[v] = "ended"
              /\ handle'[v].has_error = handle[v].has_error
            BY <1>4, <1>6, <1>7, <1>8, <2>4
        <3> QED
            BY <2>1, <2>2, <3>1 DEF Life, Live, Usable
    <2>5. CASE v # u
        <3>1. ~Letting(v)
            <4>1. \A w \in Threads : pc[w] \in Unreffing => w = t
                BY <1>3 DEF RefPCs, Unreffing
            <4> QED
                BY <1>4, <2>5, <4>1 DEF Letting
        <3> QED
            <4>1. \A w \in Threads : pc[w] \in Storing \cup {"start"} => pc'[w] = pc[w]
                BY <1>1, <1>3 DEF Storing
            <4>2. Making(v) => Making(v)'
                BY <1>3, <4>1 DEF Making
            <4> QED
                BY <1>8, <2>1, <2>2, <2>5, <3>1, <4>2, LifeStays
    <2> QED
        BY <2>3, <2>4, <2>5
<1> QED
    BY <1>3, <1>9, <1>10, <1>11, <1>12, <1>13, <1>14 DEF IInv

----------------------------------------------------------------------------
(***************************************************************************)
(* Steps outside the registry.                                             *)
(***************************************************************************)
\* A thread whose Lua code runs.
LEMMA InLua ==
    ASSUME IInv, NEW t \in Threads, pc[t] = "lua"
    PROVE  /\ status[t] = "running" /\ kept[t] = {} /\ t \in Live /\ t \in Active
           /\ ~InCall(t) /\ t \notin freed
BY DEF IInv, Place, Life, Storing, Live, Active, InCall, RefPCs, Finished

\* Where nobody else is in the registry.
LEMMA AloneThere ==
    ASSUME NEW t \in Threads, Overlap(t) = {}
    PROVE  \A w \in Threads \ {t} : pc[w] \notin RefPCs
BY DEF Overlap

\* What a handle is like that is joined, detached or finalised in a way the library
\* bears.
LEMMA WellUsed ==
    ASSUME NEW t \in Threads, NEW u \in Threads, Misuse(t, u) = {}
    PROVE  /\ \A w \in Threads \ {t} : InCall(w) => On(w) # u
           /\ status[u] # "failed" /\ handle[u].ref # 0
BY DEF Misuse, LUA_NOREF

\* Threads in a call are not in one on a thread that does not exist yet.
LEMMA NobodyOn ==
    ASSUME IInv, NEW u \in Threads, status[u] = "none"
    PROVE  /\ \A w \in Threads : InCall(w) => On(w) # u
           /\ handle[u] = NoHandle /\ ~handle[u].bound /\ ~handle[u].joined
           /\ handle[u].ref = 0 /\ ~handle[u].has_error
           /\ u \notin reported /\ u \notin failed /\ u \notin freed /\ told[u] = "nothing"
           /\ pc[u] = "idle" /\ kept[u] = {} /\ u \notin Live /\ ~Letting(u)
           /\ \A i \in DOMAIN slots : slots[i] # u
<1>1. ASSUME NEW w \in Threads, InCall(w) PROVE status[On(w)] # "none"
    BY <1>1 DEF IInv, Place, InCall, RefPCs, Storing, Unreffing
<1>2. handle[u] = NoHandle
    BY DEF IInv, Life
<1>3. ~handle[u].bound /\ ~handle[u].joined /\ handle[u].ref = 0 /\ ~handle[u].has_error
    BY <1>2 DEF NoHandle
<1>4. /\ u \notin reported /\ u \notin failed /\ u \notin freed /\ told[u] = "nothing"
      /\ pc[u] = "idle" /\ kept[u] = {} /\ u \notin Live
    BY DEF IInv, Life, Place, Finished, Storing, Live
<1>5. ~Letting(u)
    BY <1>1 DEF Letting, InCall, RefPCs, Unreffing
<1>6. \A i \in DOMAIN slots : slots[i] # u
    BY <1>3 DEF IInv, Owned
<1> QED
    BY <1>1, <1>2, <1>3, <1>4, <1>5, <1>6

\* What a step of t outside the registry leaves as it is.
LEMMA Around ==
    ASSUME IInv, NEW t \in Threads, UNCHANGED <<slots, head, reg>>,
           \A w \in Threads \ {t} :
                call'[w] = call[w] /\ (pc'[w] = pc[w] \/ (pc[w] = "idle" /\ pc'[w] = "lua")),
           pc[t] \notin RefPCs, pc'[t] \notin RefPCs \ {"ref_read", "unref_read"},
           pc'[t] \in RefPCs => \A w \in Threads \ {t} : pc[w] \notin RefPCs,
           InCall(t)' => \A w \in Threads \ {t} : InCall(w) => On(w) # call'[t].on,
           pc'[t] = "unref_read" =>
                /\ handle'[call'[t].on].ref \in DOMAIN slots
                /\ slots[handle'[call'[t].on].ref] = call'[t].on,
           \A u \in Threads :
                \/ /\ handle'[u].bound = handle[u].bound /\ handle'[u].ref = handle[u].ref
                   /\ handle'[u].exists = handle[u].exists
                   /\ status[u] = "failed" => status'[u] = "failed"
                \/ /\ \A i \in DOMAIN slots : slots[i] # u
                   /\ handle'[u].ref = 0 \/ ~handle'[u].bound,
           \A i \in DOMAIN slots : slots[i] \in Threads => slots[i] \notin freed',
           \A w \in Threads \ {t} : InCall(w) => handle'[On(w)].ref = handle[On(w)].ref
    PROVE  /\ Turns' /\ Chain' /\ Owned' /\ \A w \in Threads : Registers(w)'
           /\ \A w \in Threads \ {t} : (InCall(w)' <=> InCall(w)) /\ On(w)' = On(w)
<1>1. \A w \in Threads \ {t} : (InCall(w)' <=> InCall(w)) /\ On(w)' = On(w)
    BY DEF InCall, On, RefPCs
<1>2. \A w \in Threads \ {t} : pc'[w] \in RefPCs <=> (pc[w] \in RefPCs /\ pc'[w] = pc[w])
    BY DEF RefPCs
<1>3. Turns'
    <2>1. \A v, w \in Threads : pc'[v] \in RefPCs /\ pc'[w] \in RefPCs => v = w
        BY <1>2 DEF IInv, Turns
    <2>2. ASSUME NEW v \in Threads, NEW w \in Threads, InCall(v)', InCall(w)', On(v)' = On(w)'
          PROVE  v = w
        <3>1. CASE v # t /\ w # t
            BY <1>1, <2>2, <3>1 DEF IInv, Turns
        <3>2. CASE v = t \/ w = t
            BY <1>1, <2>2, <3>2 DEF On
        <3> QED
            BY <3>1, <3>2
    <2> QED
        BY <2>1, <2>2 DEF Turns
<1>4. \A w \in Threads : pc'[w] \in {"ref_store", "unref_head"} <=> pc[w] \in {"ref_store", "unref_head"}
    BY <1>2 DEF RefPCs
<1>5. Chain'
    BY <1>4, ChainStays DEF IInv
<1>6. Owned'
    <2>1. \A w \in Threads : pc[w] = "unref_head" => pc'[w] = "unref_head" /\ On(w)' = On(w)
        BY <1>1, <1>2, <1>4 DEF RefPCs
    <2>2. ASSUME NEW i \in DOMAIN slots', slots'[i] \in Threads
          PROVE  /\ handle'[slots'[i]].ref = i /\ handle'[slots'[i]].bound
                 /\ handle'[slots'[i]].exists = "yes" /\ slots'[i] \notin freed'
        <3>1. PICK u \in Threads : u = slots[i] /\ slots'[i] = u /\ i \in DOMAIN slots
            BY <2>2
        <3>2. handle[u].ref = i /\ handle[u].bound /\ handle[u].exists = "yes"
            BY <3>1 DEF IInv, Owned
        <3>3. /\ handle'[u].bound = handle[u].bound /\ handle'[u].ref = handle[u].ref
              /\ handle'[u].exists = handle[u].exists
            BY <3>1
        <3> QED
            BY <3>1, <3>2, <3>3
    <2>3. ASSUME NEW u \in Threads, handle'[u].bound, handle'[u].ref # 0, status'[u] # "failed",
                 \A x \in Threads : pc'[x] = "unref_head" => On(x)' # u
          PROVE  handle'[u].ref \in DOMAIN slots' /\ slots'[handle'[u].ref] = u
        <3>1. /\ handle'[u].bound = handle[u].bound /\ handle'[u].ref = handle[u].ref
              /\ status[u] # "failed"
            BY <2>3
        <3>2. \A x \in Threads : pc[x] = "unref_head" => On(x) # u
            BY <2>1, <2>3
        <3> QED
            BY <2>3, <3>1, <3>2 DEF IInv, Owned
    <2> QED
        BY <2>2, <2>3 DEF Owned
<1>7. ASSUME NEW w \in Threads \ {t} PROVE Registers(w)'
    <2>1. CASE pc'[w] \in RefPCs
        <3>1. pc'[w] = pc[w] /\ Registers(w) /\ InCall(w)
            BY <1>2, <2>1 DEF IInv, InCall
        <3>2. On(w)' = On(w) /\ handle'[On(w)].ref = handle[On(w)].ref
            BY <1>1, <3>1
        <3> QED
            BY <3>1, <3>2 DEF Registers
    <2>2. CASE pc'[w] \notin RefPCs
        BY <2>2 DEF Registers, RefPCs
    <2> QED
        BY <2>1, <2>2
<1>8. Registers(t)'
    BY DEF Registers, RefPCs, On
<1> QED
    BY <1>1, <1>3, <1>5, <1>6, <1>7, <1>8

\* Calls that neither begin nor end the giving back of a reference, or the
\* making of a thread.
LEMMA LettingStays ==
    ASSUME \A w \in Threads : pc'[w] \in Unreffing <=> pc[w] \in Unreffing,
           \A w \in Threads : pc[w] \in Unreffing => call'[w] = call[w]
    PROVE  \A u \in Threads : Letting(u)' <=> Letting(u)
BY DEF Letting, On

LEMMA MakingStays ==
    ASSUME \A w \in Threads : pc[w] \in Storing \cup {"start"} =>
                pc'[w] \in Storing \cup {"start"} /\ call'[w] = call[w]
    PROVE  \A u \in Threads : Making(u) => Making(u)'
BY DEF Making, On

LEMMA GroundedShrinks ==
    ASSUME IInv, Live' \subseteq Live, UNCHANGED <<kept, slots>> PROVE Grounded'
<1>1. 0 \notin Live
    BY HandleAssumption DEF Live
<1>2. \A S \in SUBSET Threads : Marks(S)' => Marks(S)
    BY DEF Marks
<1> QED
    BY <1>1, <1>2, GroundedStays DEF IInv

----------------------------------------------------------------------------
LEMMA NewHandleIs ==
    /\ NewHandle \in Handles /\ NewHandle.exists = "yes" /\ NewHandle.bound
    /\ NewHandle.ref = 0 /\ ~NewHandle.joined /\ ~NewHandle.detached /\ ~NewHandle.has_error
BY DEF NewHandle, NoHandle, Handles

LEMMA CreateKeeps ==
    ASSUME IInv, NEW t \in Threads, NEW u \in Threads, thread_create(t, u), Overlap(t) = {}
    PROVE  IInv'
<1>1. /\ UNCHANGED <<native, freed, slots, head, reg, failed, told>>
      /\ pc[t] = "lua" /\ status[u] = "none"
      /\ handle' = [handle EXCEPT ![u] = NewHandle]
      /\ holders' = [holders EXCEPT ![u] = {t}]
      /\ kept' = [kept EXCEPT ![t] = @ \cup {u}]
      /\ status' = [status EXCEPT ![u] = "new"]
      /\ reported' = reported \cup {u}
      /\ call' = [call EXCEPT ![t] = [op |-> "create", on |-> u]]
      /\ Goto(t, "ref_read")
    BY DEF thread_create, regVars
<1>2. /\ status[t] = "running" /\ kept[t] = {} /\ t \in Live /\ t \in Active
      /\ ~InCall(t) /\ t \notin freed /\ t # u
    BY <1>1, InLua
<1>3. /\ \A w \in Threads : InCall(w) => On(w) # u
      /\ handle[u] = NoHandle /\ ~handle[u].bound /\ ~handle[u].joined
      /\ handle[u].ref = 0 /\ ~handle[u].has_error
      /\ u \notin reported /\ u \notin failed /\ u \notin freed /\ told[u] = "nothing"
      /\ pc[u] = "idle" /\ kept[u] = {} /\ u \notin Live /\ ~Letting(u)
      /\ \A i \in DOMAIN slots : slots[i] # u
    BY <1>1, NobodyOn
<1>4. \A w \in Threads \ {t} : pc[w] \notin RefPCs
    BY AloneThere
<1>5. /\ handle' \in [Threads -> Handles] /\ handle'[u] = NewHandle
      /\ \A w \in Threads \ {u} : handle'[w] = handle[w]
      /\ holders' \in [Threads -> SUBSET Threads] /\ holders'[u] = {t}
      /\ \A w \in Threads \ {u} : holders'[w] = holders[w]
      /\ kept' \in [Threads -> SUBSET Threads] /\ kept'[t] = {u}
      /\ \A w \in Threads \ {t} : kept'[w] = kept[w]
    BY <1>1, <1>2, NewHandleIs DEF IInv, Types, Handles
<1>6. /\ status' \in [Threads -> {"none", "new", "running"} \cup Finished] /\ status'[u] = "new"
      /\ \A w \in Threads \ {u} : status'[w] = status[w]
      /\ call' \in [Threads -> Calls] /\ call'[t].op = "create" /\ call'[t].on = u
      /\ \A w \in Threads \ {t} : call'[w] = call[w]
      /\ pc' \in [Threads -> PCs] /\ pc'[t] = "ref_read"
      /\ \A w \in Threads \ {t} : pc'[w] = pc[w]
    <2>1. [op |-> "create", on |-> u] \in Calls
        BY DEF Calls
    <2>2. "ref_read" \in PCs
        BY DEF PCs, RefPCs
    <2> QED
        BY <1>1, <2>1, <2>2 DEF IInv, Types, Calls, Goto
<1>7. Types'
    BY <1>1, <1>5, <1>6 DEF IInv, Types, Handles, Calls
<1>8. Grounded'
    <2>1. Live' \subseteq Live \cup {u}
        BY <1>6 DEF Live
    <2>2. kept \in [Threads -> SUBSET Threads]
        BY DEF IInv, Types
    <2> QED
        BY <1>1, <1>2, <2>1, <2>2, GroundedGrows DEF IInv
<1>9. /\ Turns' /\ Chain' /\ Owned' /\ \A w \in Threads : Registers(w)'
      /\ \A w \in Threads \ {t} : (InCall(w)' <=> InCall(w)) /\ On(w)' = On(w)
    <2>1. \A w \in Threads : On(w) \in Threads
        BY DEF IInv, Types, On
    <2>2. \A w \in Threads : InCall(w) => handle'[On(w)].ref = handle[On(w)].ref
        BY <1>3, <1>5, <2>1
    <2>3. \A w \in Threads :
            \/ /\ handle'[w].bound = handle[w].bound /\ handle'[w].ref = handle[w].ref
               /\ handle'[w].exists = handle[w].exists
               /\ status[w] = "failed" => status'[w] = "failed"
            \/ /\ \A i \in DOMAIN slots : slots[i] # w
               /\ handle'[w].ref = 0 \/ ~handle'[w].bound
        BY <1>3, <1>5, <1>6, NewHandleIs
    <2>4. \A i \in DOMAIN slots : slots[i] \in Threads => slots[i] \notin freed'
        BY <1>1 DEF IInv, Owned
    <2>5. pc[t] \notin RefPCs /\ pc'[t] \notin RefPCs \ {"ref_read", "unref_read"}
        BY <1>1, <1>6 DEF RefPCs
    <2> QED
        BY <1>1, <1>3, <1>4, <1>6, <2>2, <2>3, <2>4, <2>5, Around
<1>10. ASSUME NEW w \in Threads PROVE Place(w)'
    <2>1. CASE w = t
        <3>1. On(t)' = u /\ status'[t] = "running" /\ handle'[u].ref = 0
            BY <1>2, <1>5, <1>6, NewHandleIs DEF On
        <3> QED
            BY <1>1, <1>5, <1>6, <2>1, <3>1 DEF Place, Storing, Unreffing, InCall, RefPCs
    <2>2. CASE w = u
        BY <1>2, <1>3, <1>5, <1>6, <2>2 DEF Place, Storing, Unreffing, InCall, RefPCs
    <2>3. CASE w # t /\ w # u
        <3>1. Place(w) /\ pc'[w] = pc[w] /\ kept'[w] = kept[w] /\ status'[w] = status[w]
            BY <1>5, <1>6, <2>3 DEF IInv
        <3>2. InCall(w) => /\ On(w) \in Threads /\ On(w) # u /\ handle'[On(w)] = handle[On(w)]
                           /\ status'[On(w)] = status[On(w)] /\ holders'[On(w)] = holders[On(w)]
            <4>1. On(w) \in Threads
                BY DEF IInv, Types, On
            <4> QED
                BY <1>3, <1>5, <1>6, <4>1
        <3>3. pc[w] \in {"join", "xjoin"} => On(w) \notin freed'
            BY <1>1, <3>1 DEF Place
        <3> QED
            BY <1>1, <1>6, <2>3, <3>1, <3>2, <3>3, PlaceStays
    <2> QED
        BY <2>1, <2>2, <2>3
<1>11. Active' = Active
    BY <1>1, <1>6 DEF Active
<1>12. ASSUME NEW v \in Threads PROVE Life(v)'
    <2>1. Letting(v)' <=> Letting(v)
        BY <1>1, <1>6, LettingStays DEF Unreffing
    <2>2. Making(v) => Making(v)'
        BY <1>1, <1>6, MakingStays DEF Storing
    <2>3. CASE v = u
        <3>1. Making(u)'
            BY <1>6 DEF Making, Storing, On
        <3>2. native[u] # "misused"
            BY DEF IInv, Life
        <3>3. /\ UNCHANGED <<native, freed, failed, told>> /\ status'[u] = "new" /\ pc'[u] = "idle"
              /\ holders'[u] = {t} /\ t \in Active' /\ u \in reported'
            BY <1>1, <1>2, <1>3, <1>5, <1>6, <1>11
        <3>4. /\ handle'[u].exists = "yes" /\ handle'[u].bound /\ handle'[u].ref = 0
              /\ ~handle'[u].joined /\ ~handle'[u].detached /\ ~handle'[u].has_error
            BY <1>5, NewHandleIs
        <3> QED
            BY <1>3, <2>3, <3>1, <3>2, <3>3, <3>4 DEF Life, Live
    <2>4. CASE v # u
        <3>1. Life(v) /\ holders'[v] \subseteq Active' /\ (pc'[v] = "report" <=> pc[v] = "report")
            BY <1>1, <1>5, <1>6, <1>11, <2>4 DEF IInv, Life
        <3> QED
            BY <1>1, <1>5, <1>6, <2>1, <2>2, <2>4, <3>1, LifeStays
    <2> QED
        BY <2>3, <2>4
<1> QED
    BY <1>7, <1>8, <1>9, <1>10, <1>12 DEF IInv

\* The thread being made is started.
LEMMA StartKeeps ==
    ASSUME IInv, NEW t \in Threads, create_start(t), Started(t, On(t), "lua")
    PROVE  IInv'
<1>1. PICK u \in Threads :
        /\ u = On(t) /\ pc[t] = "start"
        /\ UNCHANGED <<freed, kept, reported, handle, holders, slots, head, call, reg, failed, told>>
        /\ status' = [status EXCEPT ![u] = "running"]
        /\ native' = [native EXCEPT ![u] = "joinable"]
        /\ pc' = [pc EXCEPT ![t] = "lua", ![u] = "lua"]
    BY DEF create_start, Started, regVars, IInv, Types, On
<1>2. /\ status[t] = "running" /\ kept[t] = {} /\ call[t].op = "create" /\ status[u] = "new"
      /\ u \in reported /\ handle[u].ref # 0 /\ InCall(t) /\ t # u /\ t \in holders[u]
    BY <1>1 DEF IInv, Place, Storing, InCall
<1>3. /\ pc[u] = "idle" /\ kept[u] = {} /\ u \notin freed /\ u \notin failed /\ u \in Live
      /\ told[u] = "nothing"
    BY <1>1, <1>2 DEF IInv, Place, Life, Storing, Finished, Live
<1>4. \A w \in Threads \ {t} : InCall(w) => On(w) # u
    BY <1>1, <1>2 DEF IInv, Turns
<1>5. /\ status' \in [Threads -> {"none", "new", "running"} \cup Finished] /\ status'[u] = "running"
      /\ \A w \in Threads \ {u} : status'[w] = status[w]
      /\ native' \in [Threads -> {"none", "joinable", "released", "misused"}]
      /\ native'[u] = "joinable" /\ \A w \in Threads \ {u} : native'[w] = native[w]
    BY <1>1 DEF IInv, Types
<1>6. /\ pc' \in [Threads -> PCs] /\ pc'[t] = "lua" /\ pc'[u] = "lua"
      /\ \A w \in Threads \ {t, u} : pc'[w] = pc[w]
    BY <1>1, <1>2 DEF IInv, Types, PCs
<1>7. Types'
    BY <1>1, <1>5, <1>6 DEF IInv, Types
<1>8. Grounded'
    <2>1. Live' \subseteq Live
        BY <1>3, <1>5 DEF Live
    <2> QED
        BY <1>1, <2>1, GroundedShrinks
<1>9. /\ Turns' /\ Chain' /\ Owned' /\ \A w \in Threads : Registers(w)'
      /\ \A w \in Threads \ {t} : (InCall(w)' <=> InCall(w)) /\ On(w)' = On(w)
    <2>1. \A w \in Threads : status[w] = "failed" => status'[w] = "failed"
        BY <1>2, <1>5
    <2>2. \A i \in DOMAIN slots : slots[i] \in Threads => slots[i] \notin freed'
        BY <1>1 DEF IInv, Owned
    <2>3. pc[t] \notin RefPCs /\ pc'[t] \notin RefPCs /\ ~(InCall(t)')
        BY <1>1, <1>6 DEF RefPCs, InCall
    <2>4. \A w \in Threads \ {t} : pc'[w] = pc[w] \/ (pc[w] = "idle" /\ pc'[w] = "lua")
        BY <1>3, <1>6
    <2>5. pc'[t] # "unref_read"
        BY <1>6
    <2> QED
        BY <1>1, <2>1, <2>2, <2>3, <2>4, <2>5, Around
<1>10. ASSUME NEW w \in Threads PROVE Place(w)'
    <2>1. CASE w = t \/ w = u
        <3>1. pc'[w] = "lua" /\ status'[w] = "running" /\ kept'[w] = {}
            BY <1>1, <1>2, <1>3, <1>5, <1>6, <2>1
        <3> QED
            BY <3>1 DEF Place, Storing, Unreffing, InCall, RefPCs
    <2>2. CASE w # t /\ w # u
        <3>1. Place(w) /\ pc'[w] = pc[w] /\ status'[w] = status[w]
            BY <1>5, <1>6, <2>2 DEF IInv
        <3>2. InCall(w) => /\ On(w) \in Threads /\ On(w) # u
                           /\ status'[On(w)] = status[On(w)] /\ native'[On(w)] = native[On(w)]
            <4>1. On(w) \in Threads
                BY DEF IInv, Types, On
            <4> QED
                BY <1>4, <1>5, <2>2, <4>1
        <3>3. pc[w] \in {"join", "xjoin"} => On(w) \notin freed'
            BY <1>1, <3>1 DEF Place
        <3> QED
            BY <1>1, <2>2, <3>1, <3>2, <3>3, PlaceStays
    <2> QED
        BY <2>1, <2>2
<1>11. Active \subseteq Active'
    BY <1>6 DEF Active
<1>12. ASSUME NEW v \in Threads PROVE Life(v)'
    <2>1. Letting(v)' <=> Letting(v)
        <3>1. \A w \in Threads : pc'[w] \in Unreffing <=> pc[w] \in Unreffing
            BY <1>1, <1>3, <1>6 DEF Unreffing
        <3> QED
            BY <1>1, <3>1, LettingStays
    <2>2. Life(v) /\ holders'[v] \subseteq Active'
        BY <1>1, <1>11 DEF IInv, Life
    <2>3. CASE v = u
        <3>1. ~handle[u].joined /\ ~handle[u].has_error /\ handle[u].bound
            BY <1>2, <1>3, <2>2, <2>3 DEF Life
        <3>2. UNCHANGED <<freed, reported, handle, holders, failed, told>>
            BY <1>1
        <3>3. /\ status'[v] = "running" /\ native'[v] = "joinable" /\ pc'[v] = "lua"
              /\ v \notin freed' /\ v \notin failed' /\ told'[v] = "nothing"
            BY <1>1, <1>3, <1>5, <1>6, <2>3
        <3> QED
            BY <1>2, <2>2, <2>3, <3>1, <3>2, <3>3 DEF Life, Usable
    <2>4. CASE v # u
        <3>1. pc'[v] = "report" <=> pc[v] = "report"
            BY <1>1, <1>6, <2>4
        <3>2. Making(v) => Making(v)'
            <4>1. \A w \in Threads : pc[w] \in Storing \cup {"start"} /\ w # t => pc'[w] = pc[w]
                BY <1>3, <1>6 DEF Storing
            <4>2. \A w \in Threads : On(w)' = On(w)
                BY <1>1 DEF On
            <4> QED
                BY <1>1, <2>4, <4>1, <4>2 DEF Making
        <3> QED
            BY <1>1, <1>5, <2>1, <2>2, <2>4, <3>1, <3>2, LifeStays
    <2> QED
        BY <2>3, <2>4
<1> QED
    BY <1>7, <1>8, <1>9, <1>10, <1>12 DEF IInv

\* It cannot be started: its reference is given back.
LEMMA StartFailsKeeps ==
    ASSUME IInv, NEW t \in Threads, create_start(t), Overlap(t) = {},
           status' = [status EXCEPT ![On(t)] = "failed"], Goto(t, "unref_read"), UNCHANGED native
    PROVE  IInv'
<1>1. PICK u \in Threads :
        /\ u = On(t) /\ pc[t] = "start"
        /\ UNCHANGED <<native, freed, kept, reported, handle, holders, slots, head, call, reg,
                       failed, told>>
        /\ status' = [status EXCEPT ![u] = "failed"]
    BY DEF create_start, regVars, IInv, Types, On
<1>2. /\ status[t] = "running" /\ kept[t] = {} /\ call[t].op = "create" /\ status[u] = "new"
      /\ u \in reported /\ handle[u].ref # 0 /\ InCall(t) /\ t # u /\ t \in holders[u]
    BY <1>1 DEF IInv, Place, Storing, InCall
<1>3. /\ pc[u] = "idle" /\ kept[u] = {} /\ u \notin freed /\ u \notin failed /\ u \in Live
      /\ told[u] = "nothing" /\ handle[u].bound /\ ~handle[u].joined
    BY <1>1, <1>2 DEF IInv, Place, Life, Storing, Finished, Live
<1>4. \A w \in Threads \ {t} : pc[w] \notin RefPCs /\ (InCall(w) => On(w) # u)
    BY <1>1, <1>2, AloneThere DEF IInv, Turns
<1>5. /\ status' \in [Threads -> {"none", "new", "running"} \cup Finished] /\ status'[u] = "failed"
      /\ \A w \in Threads \ {u} : status'[w] = status[w]
    BY <1>1 DEF IInv, Types, Finished
<1>6. /\ pc' \in [Threads -> PCs] /\ pc'[t] = "unref_read"
      /\ \A w \in Threads \ {t} : pc'[w] = pc[w]
    BY <1>2 DEF IInv, Types, PCs, RefPCs, Goto
<1>7. Types'
    BY <1>1, <1>5, <1>6 DEF IInv, Types
<1>8. Grounded'
    <2>1. Live' \subseteq Live
        BY <1>3, <1>5 DEF Live
    <2> QED
        BY <1>1, <2>1, GroundedShrinks
<1>9. handle[u].ref \in DOMAIN slots /\ slots[handle[u].ref] = u
    <2>1. \A w \in Threads : pc[w] = "unref_head" => On(w) # u
        BY <1>1, <1>4 DEF RefPCs
    <2> QED
        BY <1>2, <1>3, <2>1 DEF IInv, Owned
<1>10. /\ Turns' /\ Chain' /\ Owned' /\ \A w \in Threads : Registers(w)'
       /\ \A w \in Threads \ {t} : (InCall(w)' <=> InCall(w)) /\ On(w)' = On(w)
    <2>1. \A w \in Threads : status[w] = "failed" => status'[w] = "failed"
        BY <1>2, <1>5
    <2>2. \A i \in DOMAIN slots : slots[i] \in Threads => slots[i] \notin freed'
        BY <1>1 DEF IInv, Owned
    <2>3. pc[t] \notin RefPCs /\ pc'[t] \notin RefPCs \ {"ref_read", "unref_read"}
        BY <1>1, <1>6 DEF RefPCs
    <2>4. call'[t].on = u
        BY <1>1 DEF On
    <2> QED
        BY <1>1, <1>4, <1>6, <1>9, <2>1, <2>2, <2>3, <2>4, Around
<1>11. ASSUME NEW w \in Threads PROVE Place(w)'
    <2>1. CASE w = t
        <3>1. On(t)' = u /\ status'[t] = "running"
            BY <1>1, <1>2, <1>5 DEF On
        <3> QED
            BY <1>1, <1>2, <1>3, <1>5, <1>6, <2>1, <3>1 DEF Place, Storing, Unreffing, InCall, RefPCs
    <2>2. CASE w = u
        BY <1>1, <1>2, <1>3, <1>5, <1>6, <2>2 DEF Place, Storing, Unreffing, InCall, RefPCs
    <2>3. CASE w # t /\ w # u
        <3>1. Place(w) /\ pc'[w] = pc[w] /\ status'[w] = status[w]
            BY <1>5, <1>6, <2>3 DEF IInv
        <3>2. InCall(w) => On(w) \in Threads /\ On(w) # u /\ status'[On(w)] = status[On(w)]
            <4>1. On(w) \in Threads
                BY DEF IInv, Types, On
            <4> QED
                BY <1>4, <1>5, <2>3, <4>1
        <3>3. pc[w] \in {"join", "xjoin"} => On(w) \notin freed'
            BY <1>1, <3>1 DEF Place
        <3> QED
            BY <1>1, <2>3, <3>1, <3>2, <3>3, PlaceStays
    <2> QED
        BY <2>1, <2>2, <2>3
<1>12. Active' = Active
    BY <1>1, <1>6 DEF Active
<1>13. \A w \in Threads : On(w)' = On(w)
    BY <1>1 DEF On
<1>14. ASSUME NEW v \in Threads PROVE Life(v)'
    <2>1. Life(v) /\ holders'[v] \subseteq Active' /\ (pc'[v] = "report" <=> pc[v] = "report")
        BY <1>1, <1>6, <1>12 DEF IInv, Life
    <2>2. CASE v = u
        <3>1. UNCHANGED <<native, freed, reported, handle, holders, failed, told>>
            BY <1>1
        <3>2. status'[v] = "failed" /\ pc'[v] = "idle"
            BY <1>2, <1>3, <1>5, <1>6, <2>2
        <3> QED
            BY <1>2, <1>3, <2>1, <2>2, <3>1, <3>2 DEF Life, Live, Finished, Usable
    <2>3. CASE v # u
        <3>1. Letting(v)' <=> Letting(v)
            BY <1>1, <1>4, <1>6, <1>13, <2>3 DEF Letting, Unreffing, RefPCs
        <3>2. Making(v) => Making(v)'
            <4>1. \A w \in Threads : pc[w] \in Storing \cup {"start"} /\ w # t => pc'[w] = pc[w]
                BY <1>6
            <4> QED
                BY <1>1, <1>13, <2>3, <4>1 DEF Making
        <3> QED
            BY <1>1, <1>5, <2>1, <2>3, <3>1, <3>2, LifeStays
    <2> QED
        BY <2>2, <2>3
<1> QED
    BY <1>7, <1>8, <1>10, <1>11, <1>14 DEF IInv

\* createx: the thread runs, its creator waits for it.
LEMMA CreatexKeeps ==
    ASSUME IInv, NEW t \in Threads, NEW u \in Threads, thread_createx(t, u),
           Started(t, u, "xjoin"), kept' = [kept EXCEPT ![t] = @ \cup {u}]
    PROVE  IInv'
<1>1. /\ UNCHANGED <<freed, reported, handle, holders, slots, head, reg, failed, told>>
      /\ pc[t] = "lua" /\ status[u] = "none"
      /\ call' = [call EXCEPT ![t] = [op |-> "createx", on |-> u]]
      /\ status' = [status EXCEPT ![u] = "running"]
      /\ native' = [native EXCEPT ![u] = "joinable"]
      /\ pc' = [pc EXCEPT ![t] = "xjoin", ![u] = "lua"]
    BY DEF thread_createx, Started, regVars
<1>2. /\ status[t] = "running" /\ kept[t] = {} /\ t \in Live /\ ~InCall(t) /\ t # u
    BY <1>1, InLua
<1>3. /\ \A w \in Threads : InCall(w) => On(w) # u
      /\ ~handle[u].bound /\ ~handle[u].joined /\ handle[u].ref = 0
      /\ u \notin reported /\ u \notin failed /\ u \notin freed /\ told[u] = "nothing"
      /\ pc[u] = "idle" /\ kept[u] = {} /\ u \notin Live
    BY <1>1, NobodyOn
<1>4. /\ status' \in [Threads -> {"none", "new", "running"} \cup Finished] /\ status'[u] = "running"
      /\ \A w \in Threads \ {u} : status'[w] = status[w]
      /\ native' \in [Threads -> {"none", "joinable", "released", "misused"}]
      /\ native'[u] = "joinable" /\ \A w \in Threads \ {u} : native'[w] = native[w]
    BY <1>1 DEF IInv, Types
<1>5. /\ pc' \in [Threads -> PCs] /\ pc'[t] = "xjoin" /\ pc'[u] = "lua"
      /\ \A w \in Threads \ {t, u} : pc'[w] = pc[w]
    BY <1>1, <1>2 DEF IInv, Types, PCs
<1>6. /\ call' \in [Threads -> Calls] /\ call'[t].op = "createx" /\ call'[t].on = u
      /\ \A w \in Threads \ {t} : call'[w] = call[w]
      /\ kept' \in [Threads -> SUBSET Threads] /\ kept'[t] = {u}
      /\ \A w \in Threads \ {t} : kept'[w] = kept[w]
    <2>1. [op |-> "createx", on |-> u] \in Calls
        BY DEF Calls
    <2> QED
        BY <1>1, <1>2, <2>1 DEF IInv, Types, Calls
<1>7. Types'
    BY <1>1, <1>4, <1>5, <1>6 DEF IInv, Types, Calls
<1>8. Grounded'
    <2>1. Live' \subseteq Live \cup {u}
        BY <1>4 DEF Live
    <2>2. kept \in [Threads -> SUBSET Threads]
        BY DEF IInv, Types
    <2> QED
        BY <1>1, <1>2, <2>1, <2>2, GroundedGrows DEF IInv
<1>9. /\ Turns' /\ Chain' /\ Owned' /\ \A w \in Threads : Registers(w)'
      /\ \A w \in Threads \ {t} : (InCall(w)' <=> InCall(w)) /\ On(w)' = On(w)
    <2>1. \A w \in Threads : status[w] = "failed" => status'[w] = "failed"
        BY <1>1, <1>4
    <2>2. \A i \in DOMAIN slots : slots[i] \in Threads => slots[i] \notin freed'
        BY <1>1 DEF IInv, Owned
    <2>3. pc[t] \notin RefPCs /\ pc'[t] \notin RefPCs /\ pc'[t] # "unref_read"
        BY <1>1, <1>5 DEF RefPCs
    <2>4. \A w \in Threads \ {t} : pc'[w] = pc[w] \/ (pc[w] = "idle" /\ pc'[w] = "lua")
        BY <1>3, <1>5
    <2> QED
        <3>1. \A w \in Threads \ {t} : call'[w] = call[w] /\ (InCall(w) => On(w) # call'[t].on)
            BY <1>3, <1>6
        <3> QED
            BY <1>1, <2>1, <2>2, <2>3, <2>4, <3>1, Around
<1>10. ASSUME NEW w \in Threads PROVE Place(w)'
    <2>1. CASE w = t
        <3>1. On(t)' = u /\ status'[t] = "running"
            BY <1>2, <1>4, <1>6 DEF On
        <3> QED
            BY <1>1, <1>3, <1>4, <1>5, <1>6, <2>1, <3>1 DEF Place, Storing, Unreffing, InCall, RefPCs
    <2>2. CASE w = u
        BY <1>2, <1>3, <1>4, <1>5, <1>6, <2>2 DEF Place, Storing, Unreffing, InCall, RefPCs
    <2>3. CASE w # t /\ w # u
        <3>1. Place(w) /\ pc'[w] = pc[w] /\ kept'[w] = kept[w] /\ status'[w] = status[w]
            BY <1>4, <1>5, <1>6, <2>3 DEF IInv
        <3>2. InCall(w) => /\ On(w) \in Threads /\ On(w) # u
                           /\ status'[On(w)] = status[On(w)] /\ native'[On(w)] = native[On(w)]
            <4>1. On(w) \in Threads
                BY DEF IInv, Types, On
            <4> QED
                BY <1>3, <1>4, <4>1
        <3>3. pc[w] \in {"join", "xjoin"} => On(w) \notin freed'
            BY <1>1, <3>1 DEF Place
        <3> QED
            BY <1>1, <1>6, <2>3, <3>1, <3>2, <3>3, PlaceStays
    <2> QED
        BY <2>1, <2>2, <2>3
<1>11. Active \subseteq Active'
    BY <1>5 DEF Active
<1>12. ASSUME NEW v \in Threads PROVE Life(v)'
    <2>1. Letting(v)' <=> Letting(v)
        <3>1. \A w \in Threads : pc'[w] \in Unreffing <=> pc[w] \in Unreffing
            BY <1>1, <1>3, <1>5 DEF Unreffing
        <3>2. \A w \in Threads : pc[w] \in Unreffing => call'[w] = call[w]
            BY <1>1, <1>6 DEF Unreffing
        <3> QED
            BY <3>1, <3>2, LettingStays
    <2>2. Making(v) => Making(v)'
        <3>1. \A w \in Threads : pc[w] \in Storing \cup {"start"} =>
                pc'[w] \in Storing \cup {"start"} /\ call'[w] = call[w]
            BY <1>1, <1>3, <1>5, <1>6 DEF Storing
        <3> QED
            BY <3>1, MakingStays
    <2>3. Life(v) /\ holders'[v] \subseteq Active'
        BY <1>1, <1>11 DEF IInv, Life
    <2>4. CASE v = u
        <3>1. UNCHANGED <<freed, reported, handle, holders, failed, told>>
            BY <1>1
        <3>2. status'[v] = "running" /\ native'[v] = "joinable" /\ pc'[v] = "lua"
            BY <1>4, <1>5, <2>4
        <3> QED
            BY <1>3, <2>3, <2>4, <3>1, <3>2 DEF Life, Usable
    <2>5. CASE v # u
        <3>1. pc'[v] = "report" <=> pc[v] = "report"
            BY <1>1, <1>5, <2>5
        <3> QED
            BY <1>1, <1>4, <2>1, <2>2, <2>3, <2>5, <3>1, LifeStays
    <2> QED
        BY <2>4, <2>5
<1> QED
    BY <1>7, <1>8, <1>9, <1>10, <1>12 DEF IInv

\* createx fails: it leaves a state that is garbage.
LEMMA CreatexFailsKeeps ==
    ASSUME IInv, NEW t \in Threads, NEW u \in Threads, thread_createx(t, u),
           status' = [status EXCEPT ![u] = "failed"], UNCHANGED <<native, pc, kept>>
    PROVE  IInv'
<1>1. /\ UNCHANGED <<freed, reported, handle, holders, slots, head, reg, failed, told>>
      /\ pc[t] = "lua" /\ status[u] = "none"
      /\ call' = [call EXCEPT ![t] = [op |-> "createx", on |-> u]]
    BY DEF thread_createx, regVars
<1>2. /\ status[t] = "running" /\ kept[t] = {} /\ t \in Live /\ ~InCall(t) /\ t # u
    BY <1>1, InLua
<1>3. /\ \A w \in Threads : InCall(w) => On(w) # u
      /\ ~handle[u].bound /\ ~handle[u].joined /\ handle[u].ref = 0
      /\ u \notin reported /\ u \notin failed /\ u \notin freed /\ told[u] = "nothing"
      /\ pc[u] = "idle" /\ kept[u] = {} /\ u \notin Live
    BY <1>1, NobodyOn
<1>4. /\ status' \in [Threads -> {"none", "new", "running"} \cup Finished] /\ status'[u] = "failed"
      /\ \A w \in Threads \ {u} : status'[w] = status[w]
    BY DEF IInv, Types, Finished
<1>5. /\ call' \in [Threads -> Calls] /\ \A w \in Threads \ {t} : call'[w] = call[w]
    <2>1. [op |-> "createx", on |-> u] \in Calls
        BY DEF Calls
    <2> QED
        BY <1>1, <2>1 DEF IInv, Types, Calls
<1>6. Types'
    BY <1>1, <1>4, <1>5 DEF IInv, Types, Calls
<1>7. Grounded'
    <2>1. Live' \subseteq Live
        BY <1>4 DEF Live
    <2> QED
        BY <1>1, <2>1, GroundedShrinks
<1>8. /\ Turns' /\ Chain' /\ Owned' /\ \A w \in Threads : Registers(w)'
      /\ \A w \in Threads \ {t} : (InCall(w)' <=> InCall(w)) /\ On(w)' = On(w)
    <2>1. \A w \in Threads : status[w] = "failed" => status'[w] = "failed"
        BY <1>1, <1>4
    <2>2. \A i \in DOMAIN slots : slots[i] \in Threads => slots[i] \notin freed'
        BY <1>1 DEF IInv, Owned
    <2>3. pc[t] \notin RefPCs /\ pc'[t] \notin RefPCs /\ ~(InCall(t)') /\ pc'[t] # "unref_read"
        BY <1>1 DEF RefPCs, InCall
    <2> QED
        BY <1>1, <1>5, <2>1, <2>2, <2>3, Around
<1>9. ASSUME NEW w \in Threads PROVE Place(w)'
    <2>1. CASE w = t
        BY <1>1, <1>2, <1>4, <2>1 DEF Place, Storing, Unreffing, InCall, RefPCs
    <2>2. CASE w = u
        BY <1>2, <1>3, <1>4, <2>2 DEF Place, Storing, Unreffing, InCall, RefPCs
    <2>3. CASE w # t /\ w # u
        <3>1. Place(w) /\ status'[w] = status[w] /\ call'[w] = call[w]
            BY <1>4, <1>5, <2>3 DEF IInv
        <3>2. InCall(w) => On(w) \in Threads /\ On(w) # u /\ status'[On(w)] = status[On(w)]
            <4>1. On(w) \in Threads
                BY DEF IInv, Types, On
            <4> QED
                BY <1>3, <1>4, <4>1
        <3>3. pc[w] \in {"join", "xjoin"} => On(w) \notin freed'
            BY <1>1, <3>1 DEF Place
        <3> QED
            BY <1>1, <2>3, <3>1, <3>2, <3>3, PlaceStays
    <2> QED
        BY <2>1, <2>2, <2>3
<1>10. ASSUME NEW v \in Threads PROVE Life(v)'
    <2>1. (Letting(v)' <=> Letting(v)) /\ (Making(v) => Making(v)')
        <3>1. \A w \in Threads : pc[w] \in Unreffing \cup Storing \cup {"start"} => call'[w] = call[w]
            BY <1>1, <1>5 DEF Unreffing, Storing
        <3> QED
            BY <3>1, LettingStays, MakingStays
    <2>2. Life(v) /\ holders'[v] \subseteq Active'
        BY <1>1 DEF IInv, Life, Active
    <2>3. CASE v = u
        <3>1. UNCHANGED <<native, pc, freed, reported, handle, holders, failed, told>>
            BY <1>1
        <3>2. status'[v] = "failed"
            BY <1>4, <2>3
        <3> QED
            BY <1>3, <2>2, <2>3, <3>1, <3>2 DEF Life, Usable, Live
    <2>4. CASE v # u
        BY <1>1, <1>4, <2>1, <2>2, <2>4, LifeStays
    <2> QED
        BY <2>3, <2>4
<1> QED
    BY <1>6, <1>7, <1>8, <1>9, <1>10 DEF IInv

\* createx has joined its thread, and drops the state.
LEMMA CreatexJoinedKeeps ==
    ASSUME IInv, NEW t \in Threads, createx_joined(t) PROVE IInv'
<1>1. PICK u \in Threads :
        /\ u = On(t) /\ pc[t] = "xjoin" /\ status[u] = "ended"
        /\ UNCHANGED <<status, freed, reported, handle, holders, slots, head, call, reg, failed,
                       told>>
        /\ native' = Release(u)
        /\ kept' = [kept EXCEPT ![t] = @ \ {u}]
        /\ Goto(t, "lua")
    BY DEF createx_joined, regVars, IInv, Types, On
<1>2. /\ status[t] = "running" /\ kept[t] = {u} /\ u \notin reported /\ native[u] = "joinable"
      /\ InCall(t) /\ t # u
    BY <1>1 DEF IInv, Place, Storing, InCall
<1>3. handle[u].ref = 0 /\ kept[u] = {} /\ u \notin Live
    BY <1>1, <1>2 DEF IInv, Life, Place, Storing, Live
<1>4. \A w \in Threads \ {t} : InCall(w) => On(w) # u
    BY <1>1, <1>2 DEF IInv, Turns
<1>5. /\ native' \in [Threads -> {"none", "joinable", "released", "misused"}]
      /\ native'[u] = "released" /\ \A w \in Threads \ {u} : native'[w] = native[w]
      /\ kept' \in [Threads -> SUBSET Threads] /\ kept'[t] = {}
      /\ \A w \in Threads \ {t} : kept'[w] = kept[w]
      /\ pc' \in [Threads -> PCs] /\ pc'[t] = "lua" /\ \A w \in Threads \ {t} : pc'[w] = pc[w]
    BY <1>1, <1>2 DEF IInv, Types, PCs, Goto, Release
<1>6. Types'
    BY <1>1, <1>5 DEF IInv, Types
<1>7. Grounded'
    <2>1. Live' \subseteq Live
        BY <1>1 DEF Live
    <2>2. ASSUME NEW S \in SUBSET Threads, Marks(S)' PROVE Marks(S \cup {u})
        <3>1. \A s \in S : kept[s] \subseteq S \cup {u}
            BY <1>2, <1>5, <2>2 DEF Marks
        <3> QED
            BY <1>1, <1>3, <2>2, <3>1 DEF Marks
    <2> QED
        BY <1>3, <2>1, <2>2, GroundedStays DEF IInv
<1>8. /\ Turns' /\ Chain' /\ Owned' /\ \A w \in Threads : Registers(w)'
      /\ \A w \in Threads \ {t} : (InCall(w)' <=> InCall(w)) /\ On(w)' = On(w)
    <2>1. \A i \in DOMAIN slots : slots[i] \in Threads => slots[i] \notin freed'
        BY <1>1 DEF IInv, Owned
    <2>2. pc[t] \notin RefPCs /\ pc'[t] \notin RefPCs /\ ~(InCall(t)') /\ pc'[t] # "unref_read"
        BY <1>1, <1>5 DEF RefPCs, InCall
    <2> QED
        BY <1>1, <1>5, <2>1, <2>2, Around
<1>9. ASSUME NEW w \in Threads PROVE Place(w)'
    <2>1. CASE w = t
        BY <1>1, <1>2, <1>5, <2>1 DEF Place, Storing, Unreffing, InCall, RefPCs
    <2>2. CASE w # t
        <3>1. Place(w) /\ pc'[w] = pc[w] /\ kept'[w] = kept[w]
            BY <1>5, <2>2 DEF IInv
        <3>2. InCall(w) => On(w) \in Threads /\ native'[On(w)] = native[On(w)]
            <4>1. On(w) \in Threads
                BY DEF IInv, Types, On
            <4> QED
                BY <1>4, <1>5, <2>2, <4>1
        <3>3. pc[w] \in {"join", "xjoin"} => On(w) \notin freed'
            BY <1>1, <3>1 DEF Place
        <3> QED
            BY <1>1, <3>1, <3>2, <3>3, PlaceStays
    <2> QED
        BY <2>1, <2>2
<1>10. ASSUME NEW v \in Threads PROVE Life(v)'
    <2>1. (Letting(v)' <=> Letting(v)) /\ (Making(v) => Making(v)')
        <3>1. \A w \in Threads : pc[w] \in Unreffing \cup Storing \cup {"start"} => pc'[w] = pc[w]
            BY <1>1, <1>5 DEF Unreffing, Storing
        <3>2. \A w \in Threads : pc'[w] \in Unreffing => pc[w] \in Unreffing
            BY <1>5 DEF Unreffing
        <3> QED
            BY <1>1, <3>1, <3>2, LettingStays, MakingStays
    <2>2. Life(v) /\ holders'[v] \subseteq Active' /\ (pc'[v] = "report" <=> pc[v] = "report")
        BY <1>1, <1>5 DEF IInv, Life, Active
    <2>3. CASE v = u
        <3>1. UNCHANGED <<status, freed, reported, handle, holders, failed, told>>
            BY <1>1
        <3>2. native'[v] = "released"
            BY <1>5, <2>3
        <3> QED
            BY <1>1, <1>3, <2>1, <2>2, <2>3, <3>1, <3>2 DEF Life, Usable, Live
    <2>4. CASE v # u
        BY <1>1, <1>5, <2>1, <2>2, <2>4, LifeStays
    <2> QED
        BY <2>3, <2>4
<1> QED
    BY <1>6, <1>7, <1>8, <1>9, <1>10 DEF IInv

----------------------------------------------------------------------------
(***************************************************************************)
(* Joining, detaching and collecting.                                      *)
(***************************************************************************)
\* A handle with a reference that can be joined or detached is one of a thread
\* that runs or has ended, whose state the registry keeps.
LEMMA Held ==
    ASSUME IInv, NEW u \in Threads, Usable(u), handle[u].ref # 0, ~Letting(u), ~Making(u),
           status[u] # "failed"
    PROVE  /\ status[u] \in {"running", "ended"} /\ u \in reported /\ native[u] = "joinable"
           /\ handle[u].ref \in DOMAIN slots /\ slots[handle[u].ref] = u
           /\ u \notin freed
<1>1. status[u] # "none" /\ status[u] # "new" /\ u \in reported
    BY DEF IInv, Life, NoHandle
<1>2. status[u] \in {"running", "ended"}
    BY <1>1 DEF IInv, Types, Finished
<1>3. native[u] = "joinable"
    BY <1>2 DEF IInv, Life
<1>4. \A w \in Threads : pc[w] = "unref_head" => On(w) # u
    BY DEF Letting, Unreffing
<1>5. handle[u].ref \in DOMAIN slots /\ slots[handle[u].ref] = u
    BY <1>4 DEF IInv, Owned, Usable
<1>6. u \notin freed
    BY <1>5 DEF IInv, Owned
<1> QED
    BY <1>1, <1>2, <1>3, <1>5, <1>6

LEMMA JoinKeeps ==
    ASSUME IInv, NEW t \in Threads, NEW u \in Threads, thread_join(t, u), Misuse(t, u) = {}
    PROVE  IInv'
<1>1. /\ UNCHANGED <<status, native, freed, kept, reported, handle, holders, slots, head, reg,
                     failed, told>>
      /\ pc[t] = "lua" /\ t \in holders[u] /\ t # u /\ Usable(u)
      /\ call' = [call EXCEPT ![t] = [op |-> "join", on |-> u]]
      /\ Goto(t, "join")
    BY DEF thread_join, regVars, lifeVars
<1>2. /\ status[t] = "running" /\ kept[t] = {} /\ ~InCall(t)
    BY <1>1, InLua
<1>3. status[u] # "failed" /\ handle[u].ref # 0
    BY WellUsed
<1>4. \A w \in Threads \ {t} : InCall(w) => On(w) # u
    BY WellUsed
<1>5. ~Letting(u) /\ ~Making(u)
    BY <1>1, <1>4 DEF Letting, Making, InCall, RefPCs, Storing, Unreffing
<1>6. status[u] \in {"running", "ended"} /\ u \notin freed
    BY <1>1, <1>3, <1>5, Held
<1>7. /\ call' \in [Threads -> Calls] /\ call'[t].op = "join" /\ call'[t].on = u
      /\ \A w \in Threads \ {t} : call'[w] = call[w]
      /\ pc' \in [Threads -> PCs] /\ pc'[t] = "join" /\ \A w \in Threads \ {t} : pc'[w] = pc[w]
    <2>1. [op |-> "join", on |-> u] \in Calls
        BY DEF Calls
    <2> QED
        BY <1>1, <2>1 DEF IInv, Types, Calls, Goto, PCs
<1>8. Types'
    BY <1>1, <1>7 DEF IInv, Types, Calls
<1>9. Grounded'
    BY <1>1, SameGround
<1>10. /\ Turns' /\ Chain' /\ Owned' /\ \A w \in Threads : Registers(w)'
       /\ \A w \in Threads \ {t} : (InCall(w)' <=> InCall(w)) /\ On(w)' = On(w)
    <2>1. \A i \in DOMAIN slots : slots[i] \in Threads => slots[i] \notin freed'
        BY <1>1 DEF IInv, Owned
    <2>2. pc[t] \notin RefPCs /\ pc'[t] \notin RefPCs /\ pc'[t] # "unref_read"
        BY <1>1, <1>7 DEF RefPCs
    <2>3. \A w \in Threads \ {t} : call'[w] = call[w] /\ (InCall(w) => On(w) # call'[t].on)
        BY <1>4, <1>7
    <2> QED
        BY <1>1, <1>7, <2>1, <2>2, <2>3, Around
<1>11. ASSUME NEW w \in Threads PROVE Place(w)'
    <2>1. CASE w = t
        <3>1. On(t)' = u
            BY <1>7 DEF On
        <3> QED
            BY <1>1, <1>2, <1>3, <1>6, <1>7, <2>1, <3>1 DEF Place, Storing, Unreffing, InCall, RefPCs, Usable
    <2>2. CASE w # t
        <3>1. Place(w) /\ pc'[w] = pc[w] /\ call'[w] = call[w]
            BY <1>7, <2>2 DEF IInv
        <3>2. pc[w] \in {"join", "xjoin"} => On(w) \notin freed'
            BY <1>1, <3>1 DEF Place
        <3> QED
            BY <1>1, <3>1, <3>2, PlaceStays
    <2> QED
        BY <2>1, <2>2
<1>12. ASSUME NEW v \in Threads PROVE Life(v)'
    <2>1. (Letting(v)' <=> Letting(v)) /\ (Making(v) => Making(v)')
        <3>1. \A w \in Threads : pc[w] \in Unreffing \cup Storing \cup {"start"} =>
                pc'[w] = pc[w] /\ call'[w] = call[w]
            BY <1>1, <1>7 DEF Unreffing, Storing
        <3>2. \A w \in Threads : pc'[w] \in Unreffing => pc[w] \in Unreffing
            BY <1>7 DEF Unreffing
        <3> QED
            BY <3>1, <3>2, LettingStays, MakingStays
    <2>2. Life(v) /\ holders'[v] \subseteq Active' /\ (pc'[v] = "report" <=> pc[v] = "report")
        BY <1>1, <1>7 DEF IInv, Life, Active
    <2> QED
        BY <1>1, <2>1, <2>2, LifeStays
<1> QED
    BY <1>8, <1>9, <1>10, <1>11, <1>12 DEF IInv

\* The wait is over: the outcome is told, and the reference goes.
LEMMA JoinedKeeps ==
    ASSUME IInv, NEW t \in Threads, joined(t), Overlap(t) = {} PROVE IInv'
<1>1. PICK u \in Threads :
        /\ u = On(t) /\ pc[t] = "join" /\ status[u] = "ended"
        /\ UNCHANGED <<status, freed, kept, reported, holders, slots, head, call, reg, failed>>
        /\ native' = Release(u)
        /\ handle' = [handle EXCEPT ![u].joined = TRUE]
        /\ told' = [told EXCEPT ![u] = IF handle[u].has_error THEN "false" ELSE "true"]
        /\ Goto(t, "unref_read")
    <2>1. On(t) \in Threads /\ (pc[t] = "join" => status[On(t)] # "failed")
        BY DEF IInv, Types, Place, On
    <2> QED
        BY <2>1 DEF joined, regVars, Finished
<1>2. /\ status[t] = "running" /\ kept[t] = {} /\ call[t].op = "join" /\ handle[u].ref # 0
      /\ Usable(u) /\ InCall(t) /\ t # u /\ t \in holders[u]
    BY <1>1 DEF IInv, Place, Storing, InCall
<1>3. \A w \in Threads \ {t} : pc[w] \notin RefPCs /\ (InCall(w) => On(w) # u)
    BY <1>1, <1>2, AloneThere DEF IInv, Turns
<1>4. ~Letting(u) /\ ~Making(u)
    BY <1>1, <1>3 DEF Letting, Making, InCall, RefPCs, Storing, Unreffing
<1>5. /\ u \in reported /\ native[u] = "joinable"
      /\ handle[u].ref \in DOMAIN slots /\ slots[handle[u].ref] = u
    BY <1>1, <1>2, <1>4, Held
<1>6. PICK g \in Handles :
        /\ handle' = [handle EXCEPT ![u] = g] /\ g.ref = handle[u].ref
        /\ g.exists = handle[u].exists /\ g.bound = handle[u].bound /\ g.joined
        /\ g.detached = handle[u].detached /\ g.has_error = handle[u].has_error
    <2>1. handle[u] \in Handles /\ handle \in [Threads -> Handles]
        BY DEF IInv, Types, Handles
    <2>2. PICK g \in Handles :
            /\ g = [handle[u] EXCEPT !.joined = TRUE] /\ g.ref = handle[u].ref
            /\ g.exists = handle[u].exists /\ g.bound = handle[u].bound /\ g.joined = TRUE
            /\ g.detached = handle[u].detached /\ g.has_error = handle[u].has_error
        BY <2>1, JoinedField
    <2>3. handle' = [handle EXCEPT ![u] = g]
        BY <1>1, <2>1, <2>2
    <2> QED
        BY <2>2, <2>3
<1>7. /\ handle' \in [Threads -> Handles] /\ handle'[u] = g
      /\ \A w \in Threads \ {u} : handle'[w] = handle[w]
      /\ native' \in [Threads -> {"none", "joinable", "released", "misused"}]
      /\ native'[u] = "released" /\ \A w \in Threads \ {u} : native'[w] = native[w]
    <2>1. handle \in [Threads -> Handles]
        BY DEF IInv, Types, Handles
    <2>2. /\ handle' \in [Threads -> Handles] /\ handle'[u] = g
          /\ \A w \in Threads \ {u} : handle'[w] = handle[w]
        BY <1>6, <2>1
    <2>3. native' = [native EXCEPT ![u] = "released"]
        BY <1>1, <1>5 DEF Release
    <2> QED
        BY <2>2, <2>3 DEF IInv, Types
<1>8. /\ told' \in [Threads -> {"nothing", "true", "false"}]
      /\ told'[u] = IF handle[u].has_error THEN "false" ELSE "true"
      /\ \A w \in Threads \ {u} : told'[w] = told[w]
      /\ pc' \in [Threads -> PCs] /\ pc'[t] = "unref_read"
      /\ \A w \in Threads \ {t} : pc'[w] = pc[w]
    BY <1>1 DEF IInv, Types, PCs, RefPCs, Goto
<1>9. Types'
    BY <1>1, <1>7, <1>8 DEF IInv, Types, Handles
<1>10. Grounded'
    BY <1>1, SameGround
<1>11. /\ Turns' /\ Chain' /\ Owned' /\ \A w \in Threads : Registers(w)'
       /\ \A w \in Threads \ {t} : (InCall(w)' <=> InCall(w)) /\ On(w)' = On(w)
    <2>1. \A i \in DOMAIN slots : slots[i] \in Threads => slots[i] \notin freed'
        BY <1>1 DEF IInv, Owned
    <2>2. pc[t] \notin RefPCs /\ pc'[t] \notin RefPCs \ {"ref_read", "unref_read"}
        BY <1>1, <1>8 DEF RefPCs
    <2>3. call' = call /\ call'[t].on = u
        BY <1>1 DEF On
    <2>4. \A w \in Threads : /\ handle'[w].bound = handle[w].bound /\ handle'[w].ref = handle[w].ref
                             /\ handle'[w].exists = handle[w].exists
                             /\ status[w] = "failed" => status'[w] = "failed"
        BY <1>1, <1>6, <1>7
    <2>5. \A w \in Threads \ {t} : InCall(w) => handle'[On(w)].ref = handle[On(w)].ref
        BY <2>4 DEF IInv, Types, On
    <2>6. handle'[u].ref \in DOMAIN slots /\ slots[handle'[u].ref] = u
        BY <1>5, <2>4
    <2> QED
        BY <1>1, <1>3, <1>8, <2>1, <2>2, <2>3, <2>4, <2>5, <2>6, Around
<1>12. ASSUME NEW w \in Threads PROVE Place(w)'
    <2>1. CASE w = t
        <3>1. On(t)' = u
            BY <1>1 DEF On
        <3> QED
            BY <1>1, <1>2, <1>6, <1>7, <1>8, <2>1, <3>1 DEF Place, Storing, Unreffing, InCall, RefPCs, Usable
    <2>2. CASE w # t
        <3>1. Place(w) /\ pc'[w] = pc[w]
            BY <1>8, <2>2 DEF IInv
        <3>2. InCall(w) => /\ On(w) \in Threads /\ native'[On(w)] = native[On(w)]
                           /\ handle'[On(w)] = handle[On(w)]
            <4>1. On(w) \in Threads
                BY DEF IInv, Types, On
            <4> QED
                BY <1>3, <1>7, <2>2, <4>1
        <3>3. pc[w] \in {"join", "xjoin"} => On(w) \notin freed'
            BY <1>1, <3>1 DEF Place
        <3> QED
            BY <1>1, <3>1, <3>2, <3>3, PlaceStays
    <2> QED
        BY <2>1, <2>2
<1>13. \A w \in Threads : On(w)' = On(w)
    BY <1>1 DEF On
<1>14. ASSUME NEW v \in Threads PROVE Life(v)'
    <2>1. Life(v) /\ holders'[v] \subseteq Active' /\ (pc'[v] = "report" <=> pc[v] = "report")
        BY <1>1, <1>8 DEF IInv, Life, Active
    <2>2. CASE v = u
        <3>1. UNCHANGED <<status, freed, reported, holders, failed>>
            BY <1>1
        <3>2. /\ native'[u] = "released" /\ handle'[u].bound = handle[u].bound
              /\ handle'[u].ref = handle[u].ref /\ handle'[u].exists = handle[u].exists
              /\ handle'[u].detached = handle[u].detached /\ handle'[u].joined
              /\ handle'[u].has_error = handle[u].has_error
            BY <1>6, <1>7
        <3>3. Letting(u)'
            BY <1>1, <1>8, <1>13 DEF Letting, Unreffing
        <3>4. told'[u] = "false" <=> u \in failed
            BY <1>1, <1>5, <1>8, <2>1, <2>2 DEF Life
        <3> QED
            BY <1>1, <2>1, <2>2, <3>1, <3>2, <3>3, <3>4 DEF Life, Usable, Live
    <2>3. CASE v # u
        <3>1. Letting(v)' <=> Letting(v)
            BY <1>1, <1>3, <1>8, <1>13, <2>3 DEF Letting, Unreffing, RefPCs
        <3>2. Making(v) => Making(v)'
            <4>1. \A w \in Threads : pc[w] \in Storing \cup {"start"} => pc'[w] = pc[w]
                BY <1>1, <1>8 DEF Storing
            <4> QED
                BY <1>1, <4>1, MakingStays
        <3> QED
            BY <1>1, <1>7, <1>8, <2>1, <2>3, <3>1, <3>2, LifeStays
    <2> QED
        BY <2>2, <2>3
<1> QED
    BY <1>9, <1>10, <1>11, <1>12, <1>14 DEF IInv

\* The native thread of an ended thread is let go, then its reference.
LEMMA LetGoKeeps ==
    ASSUME IInv, NEW t \in Threads, NEW u \in Threads, NEW op \in {"detach", "gc"},
           pc[t] = "lua", Let_go(t, u, op), Usable(u), handle[u].ref # 0, status[u] = "ended",
           op # "gc" => t \in holders[u],
           \A w \in Threads \ {t} : pc[w] \notin RefPCs /\ (InCall(w) => On(w) # u),
           UNCHANGED <<status, freed, kept, reported, holders, slots, head, reg, failed, told>>
    PROVE  IInv'
<1>1. /\ native' = Release(u) /\ call' = [call EXCEPT ![t] = [op |-> op, on |-> u]]
      /\ Goto(t, "unref_read") /\ handle' = handle
    BY DEF Let_go, LUA_NOREF, IInv, Types
<1>2. /\ status[t] = "running" /\ kept[t] = {} /\ ~InCall(t) /\ t # u
    BY InLua
<1>3. ~Letting(u) /\ ~Making(u)
    BY <1>2 DEF Letting, Making, InCall, RefPCs, Storing, Unreffing
<1>4. /\ native[u] = "joinable" /\ handle[u].ref \in DOMAIN slots /\ slots[handle[u].ref] = u
    BY <1>3, Held
<1>5. /\ native' \in [Threads -> {"none", "joinable", "released", "misused"}]
      /\ native'[u] = "released" /\ \A w \in Threads \ {u} : native'[w] = native[w]
    <2>1. native' = [native EXCEPT ![u] = "released"]
        BY <1>1, <1>4 DEF Release
    <2> QED
        BY <2>1 DEF IInv, Types
<1>6. /\ call' \in [Threads -> Calls] /\ call'[t].op = op /\ call'[t].on = u
      /\ \A w \in Threads \ {t} : call'[w] = call[w]
      /\ pc' \in [Threads -> PCs] /\ pc'[t] = "unref_read"
      /\ \A w \in Threads \ {t} : pc'[w] = pc[w]
    <2>1. [op |-> op, on |-> u] \in Calls
        BY DEF Calls
    <2> QED
        BY <1>1, <2>1 DEF IInv, Types, Calls, Goto, PCs, RefPCs
<1>7. Types'
    BY <1>1, <1>5, <1>6 DEF IInv, Types, Calls
<1>8. Grounded'
    BY SameGround
<1>9. /\ Turns' /\ Chain' /\ Owned' /\ \A w \in Threads : Registers(w)'
      /\ \A w \in Threads \ {t} : (InCall(w)' <=> InCall(w)) /\ On(w)' = On(w)
    <2>1. \A i \in DOMAIN slots : slots[i] \in Threads => slots[i] \notin freed'
        BY DEF IInv, Owned
    <2>2. pc[t] \notin RefPCs /\ pc'[t] \notin RefPCs \ {"ref_read", "unref_read"}
        BY <1>6 DEF RefPCs
    <2>3. \A w \in Threads \ {t} : call'[w] = call[w] /\ (InCall(w) => On(w) # call'[t].on)
        BY <1>6
    <2> QED
        BY <1>1, <1>4, <1>6, <2>1, <2>2, <2>3, Around
<1>10. ASSUME NEW w \in Threads PROVE Place(w)'
    <2>1. CASE w = t
        <3>1. On(t)' = u
            BY <1>6 DEF On
        <3> QED
            BY <1>1, <1>2, <1>6, <2>1, <3>1 DEF Place, Storing, Unreffing, InCall, RefPCs, Usable
    <2>2. CASE w # t
        <3>1. Place(w) /\ pc'[w] = pc[w] /\ call'[w] = call[w]
            BY <1>6, <2>2 DEF IInv
        <3>2. InCall(w) => On(w) \in Threads /\ native'[On(w)] = native[On(w)]
            <4>1. On(w) \in Threads
                BY DEF IInv, Types, On
            <4> QED
                BY <1>5, <2>2, <4>1
        <3>3. pc[w] \in {"join", "xjoin"} => On(w) \notin freed'
            BY <3>1 DEF Place
        <3> QED
            BY <1>1, <3>1, <3>2, <3>3, PlaceStays
    <2> QED
        BY <2>1, <2>2
<1>11. \A w \in Threads \ {t} : On(w)' = On(w)
    BY <1>6 DEF On
<1>12. ASSUME NEW v \in Threads PROVE Life(v)'
    <2>1. Life(v) /\ holders'[v] \subseteq Active' /\ (pc'[v] = "report" <=> pc[v] = "report")
        BY <1>6 DEF IInv, Life, Active
    <2>2. Making(v) => Making(v)'
        <3>1. \A w \in Threads : pc[w] \in Storing \cup {"start"} =>
                pc'[w] = pc[w] /\ call'[w] = call[w]
            BY <1>6 DEF Storing
        <3> QED
            BY <3>1, MakingStays
    <2>3. CASE v = u
        <3>1. native'[u] = "released" /\ Letting(u)'
            BY <1>5, <1>6 DEF Letting, Unreffing, On
        <3> QED
            BY <1>1, <2>1, <2>2, <2>3, <3>1 DEF Life, Usable, Live
    <2>4. CASE v # u
        <3>1. Letting(v)' <=> Letting(v)
            <4>1. On(t)' = u /\ pc[t] \notin Unreffing
                BY <1>6 DEF On, Unreffing
            <4> QED
                BY <1>6, <1>11, <2>4, <4>1 DEF Letting
        <3> QED
            BY <1>1, <1>5, <2>1, <2>2, <2>4, <3>1, LifeStays
    <2> QED
        BY <2>3, <2>4
<1> QED
    BY <1>7, <1>8, <1>9, <1>10, <1>12 DEF IInv

LEMMA DetachKeeps ==
    ASSUME IInv, NEW t \in Threads, NEW u \in Threads, thread_detach(t, u),
           Overlap(t) = {}, Misuse(t, u) = {}, Loss(u) = {}
    PROVE  IInv'
<1>1. /\ pc[t] = "lua" /\ t \in holders[u] /\ Usable(u) /\ Let_go(t, u, "detach")
      /\ UNCHANGED <<status, freed, kept, reported, holders, slots, head, reg, failed, told>>
    BY DEF thread_detach, regVars
<1>2. status[u] = "ended" /\ handle[u].ref # 0
    BY WellUsed DEF Loss, Finished
<1>3. \A w \in Threads \ {t} : pc[w] \notin RefPCs /\ (InCall(w) => On(w) # u)
    BY AloneThere, WellUsed
<1> QED
    BY <1>1, <1>2, <1>3, LetGoKeeps

\* Nobody is in a call on a handle the collector finalises, and no thread that has still
\* to run in Lua has a handle that is not bound to it.
LEMMA Unreachable ==
    ASSUME IInv, NEW t \in Threads, NEW u \in Threads, pc[t] = "lua",
           handle[u].exists = "yes", ~Finalising(u), holders[u] \cap Reached(t) = {}
    PROVE  status[u] # "none" /\ ~Letting(u)
<1>1. holders[u] = {}
    <2>1. holders[u] \subseteq Reached(t)
        BY LiveReached, ActiveLive DEF IInv, Life
    <2> QED
        BY <2>1
<1>2. status[u] # "none"
    BY DEF IInv, Life, NoHandle
<1>3. ASSUME NEW w \in Threads, pc[w] \in Unreffing, On(w) = u PROVE FALSE
    <2>1. pc[w] \in RefPCs /\ call[w].op = "gc"
        BY <1>1, <1>3 DEF IInv, Place, Unreffing, RefPCs
    <2>2. call[w] = [op |-> "gc", on |-> u]
        <3>1. call[w] \in Calls /\ call[w].on = u
            BY <1>3 DEF IInv, Types, Calls, On
        <3> QED
            BY <2>1, <3>1 DEF Calls
    <2> QED
        BY <2>1, <2>2 DEF Finalising
<1> QED
    BY <1>2, <1>3 DEF Letting

\* A step that changes only which handles exist, and who holds them.
LEMMA HandsKeep ==
    ASSUME IInv, NEW t \in Threads, Types',
           UNCHANGED <<status, native, freed, kept, reported, slots, head, pc, call, reg, failed,
                       told>>,
           \A u \in Threads :
                \/ handle'[u] = handle[u]
                \/ /\ u \notin reported /\ handle[u].ref = 0 /\ ~handle[u].bound
                   /\ status[u] # "none" /\ handle'[u].ref = 0 /\ ~handle'[u].joined
                   /\ handle'[u].bound => handle'[u].exists = "yes" /\ ~handle'[u].detached
                \/ /\ handle'[u] = [handle[u] EXCEPT !.exists = "freed"]
                   /\ ~handle[u].bound /\ status[u] # "none",
           \A u \in Threads :
                /\ holders'[u] \subseteq Active
                /\ handle[u].bound => holders[u] \ {t} \subseteq holders'[u],
           pc[t] = "lua"
    PROVE  IInv'
<1>1. ASSUME NEW u \in Threads
      PROVE  /\ handle'[u].ref = handle[u].ref
             /\ handle[u].bound => handle'[u] = handle[u]
             /\ u \in reported => /\ handle'[u].bound = handle[u].bound
                                  /\ handle'[u].has_error = handle[u].has_error
             /\ handle'[u].bound => handle'[u].exists = "yes" /\ ~handle'[u].detached
             /\ handle'[u].bound /\ handle'[u].joined => handle[u].bound
             /\ handle[u].bound /\ ~handle[u].joined => ~handle'[u].joined
             /\ status[u] = "none" => handle'[u] = handle[u]
             /\ Usable(u)' /\ handle'[u].ref # 0 => Usable(u)
    <2>1. CASE handle'[u] = handle[u]
        BY <2>1 DEF IInv, Life, Usable
    <2>2. CASE /\ u \notin reported /\ handle[u].ref = 0 /\ ~handle[u].bound
               /\ status[u] # "none" /\ handle'[u].ref = 0 /\ ~handle'[u].joined
               /\ handle'[u].bound => handle'[u].exists = "yes" /\ ~handle'[u].detached
        BY <2>2
    <2>3. CASE /\ handle'[u] = [handle[u] EXCEPT !.exists = "freed"]
               /\ ~handle[u].bound /\ status[u] # "none"
        <3>1. PICK h \in Handles : h = handle[u]
            BY DEF IInv, Types, Handles
        <3>2. PICK g \in Handles :
                /\ g = [h EXCEPT !.exists = "freed"] /\ g.ref = h.ref /\ g.exists = "freed"
                /\ g.bound = h.bound /\ g.joined = h.joined /\ g.detached = h.detached
                /\ g.has_error = h.has_error
            BY ExistsField
        <3>3. handle'[u] = g
            BY <2>3, <3>1, <3>2
        <3> QED
            BY <2>3, <3>1, <3>2, <3>3 DEF Usable
    <2> QED
        BY <2>1, <2>2, <2>3
<1>2. Grounded'
    BY SameGround
<1>3. \A w \in Threads : On(w) \in Threads /\ On(w)' = On(w)
    BY DEF IInv, Types, On
<1>4. /\ Turns' /\ Chain' /\ Owned' /\ \A w \in Threads : Registers(w)'
    <2>1. \A i \in DOMAIN slots : slots[i] \in Threads => slots[i] \notin freed'
        BY DEF IInv, Owned
    <2>2. pc[t] \notin RefPCs /\ pc'[t] \notin RefPCs /\ ~(InCall(t)') /\ pc'[t] # "unref_read"
        BY DEF RefPCs, InCall
    <2>3. ASSUME NEW u \in Threads
          PROVE  \/ /\ handle'[u].bound = handle[u].bound /\ handle'[u].ref = handle[u].ref
                    /\ handle'[u].exists = handle[u].exists
                    /\ status[u] = "failed" => status'[u] = "failed"
                 \/ /\ \A i \in DOMAIN slots : slots[i] # u
                    /\ handle'[u].ref = 0 \/ ~handle'[u].bound
        <3>1. CASE handle[u].bound
            BY <1>1, <3>1
        <3>2. CASE ~handle[u].bound
            <4>1. \A i \in DOMAIN slots : slots[i] # u
                BY <3>2 DEF IInv, Owned
            <4>2. CASE handle'[u] = handle[u]
                BY <4>2
            <4>3. CASE handle'[u].ref = 0
                BY <4>1, <4>3
            <4>4. CASE handle'[u] = [handle[u] EXCEPT !.exists = "freed"]
                <5>1. handle[u] \in Handles
                    BY DEF IInv, Types, Handles
                <5>2. ~handle'[u].bound
                    BY <3>2, <4>4, <5>1 DEF Handles
                <5> QED
                    BY <4>1, <5>2
            <4> QED
                BY <4>2, <4>3, <4>4
        <3> QED
            BY <3>1, <3>2
    <2>4. \A w \in Threads \ {t} : InCall(w) => handle'[On(w)].ref = handle[On(w)].ref
        BY <1>1, <1>3
    <2> QED
        BY <2>1, <2>2, <2>3, <2>4, Around
<1>5. ASSUME NEW w \in Threads PROVE Place(w)'
    <2>1. Place(w)
        BY DEF IInv
    <2>2. ASSUME InCall(w), pc[w] # "xjoin"
          PROVE  handle[On(w)].bound /\ handle'[On(w)] = handle[On(w)]
        <3>1. handle[On(w)].bound
            <4>1. CASE pc[w] \in Storing \cup {"start"}
                BY <1>3, <2>1, <4>1 DEF Place, IInv, Life, Live
            <4>2. CASE pc[w] \in Unreffing
                BY <2>1, <4>2 DEF Place
            <4>3. CASE pc[w] = "join"
                BY <2>1, <4>3 DEF Place, Usable
            <4> QED
                BY <2>2, <4>1, <4>2, <4>3 DEF InCall, RefPCs, Storing, Unreffing
        <3> QED
            BY <1>1, <1>3, <3>1
    <2>3. ASSUME InCall(w), pc[w] # "xjoin", w \in holders[On(w)] PROVE w \in holders'[On(w)]
        <3>1. handle[On(w)].bound
            BY <2>2, <2>3
        <3>2. w # t
            BY <2>3 DEF InCall, RefPCs
        <3> QED
            BY <1>3, <2>3, <3>1, <3>2
    <2>4. pc[w] \in {"join", "xjoin"} => On(w) \notin freed'
        BY <2>1 DEF Place
    <2> QED
        BY <2>1, <2>2, <2>3, <2>4, PlaceStays
<1>6. ASSUME NEW v \in Threads PROVE Life(v)'
    <2>1. Life(v)
        BY DEF IInv
    <2>2. (Letting(v)' <=> Letting(v)) /\ (Making(v)' <=> Making(v)) /\ Active' = Active /\ Live' = Live
        BY <1>3 DEF Letting, Making, Active, Live
    <2>3. v \in reported /\ v \in Live => handle'[v] = handle[v]
        BY <1>1, <2>1 DEF Life
    <2>4. status[v] = "none" => handle'[v] = handle[v]
        BY <1>1
    <2>5. handle'[v].bound /\ handle'[v].joined => Letting(v)
        BY <1>1, <2>1 DEF Life
    <2> QED
        BY <1>1, <2>1, <2>2, <2>3, <2>4, <2>5 DEF Life
<1> QED
    BY <1>2, <1>4, <1>5, <1>6 DEF IInv

LEMMA CollectKeeps ==
    ASSUME IInv, NEW t \in Threads, NEW u \in Threads, thread_gc(t, u),
           Usable(u) => Overlap(t) = {} /\ Misuse(t, u) = {} /\ Loss(u) = {}
    PROVE  IInv'
<1>1. /\ pc[t] = "lua" /\ handle[u].exists = "yes" /\ ~Finalising(u)
      /\ holders[u] \cap Reached(t) = {}
      /\ UNCHANGED <<status, freed, kept, reported, holders, slots, head, reg, failed, told>>
    BY DEF thread_gc, regVars
<1>2. status[u] # "none" /\ ~Letting(u)
    BY <1>1, Unreachable
<1>3. CASE Usable(u) /\ Let_go(t, u, "gc")
    <2>1. handle[u].ref # 0 /\ status[u] = "ended"
        BY <1>3, WellUsed DEF Loss, Finished
    <2>2. \A w \in Threads \ {t} : pc[w] \notin RefPCs /\ (InCall(w) => On(w) # u)
        BY <1>3, AloneThere, WellUsed
    <2> QED
        BY <1>1, <1>3, <2>1, <2>2, LetGoKeeps
<1>4. CASE /\ ~Usable(u) /\ handle' = [handle EXCEPT ![u].exists = "freed"]
           /\ UNCHANGED <<native, call, pc>>
    <2>1. ~handle[u].bound
        BY <1>2, <1>4 DEF Usable, IInv, Life
    <2>2. PICK g \in Handles : g = [handle[u] EXCEPT !.exists = "freed"]
        BY ExistsField DEF IInv, Types, Handles
    <2>3. /\ handle' \in [Threads -> Handles] /\ handle'[u] = [handle[u] EXCEPT !.exists = "freed"]
          /\ \A w \in Threads \ {u} : handle'[w] = handle[w]
        BY <1>4, <2>2 DEF IInv, Types, Handles
    <2>4. Types'
        BY <1>1, <1>4, <2>3 DEF IInv, Types, Handles
    <2>5. ASSUME NEW v \in Threads
          PROVE  /\ holders'[v] \subseteq Active
                 /\ handle[v].bound => holders[v] \ {t} \subseteq holders'[v]
        BY <1>1 DEF IInv, Life
    <2> QED
        BY <1>1, <1>2, <1>4, <2>1, <2>3, <2>4, <2>5, HandsKeep
<1> QED
    BY <1>3, <1>4 DEF thread_gc

\* The collector frees no state anybody will use.
LEMMA FreeKeeps ==
    ASSUME IInv, NEW t \in Threads, NEW u \in Threads, luaE_freethread(t, u)
    PROVE  IInv'
<1>1. /\ pc[t] = "lua" /\ status[u] # "none" /\ u \notin Reached(t)
      /\ freed' = freed \cup {u}
      /\ holders' = [w \in Threads |-> holders[w] \ {u}]
      /\ UNCHANGED <<status, native, kept, reported, handle, slots, head, pc, call, reg, failed,
                     told>>
    BY DEF luaE_freethread, regVars
<1>2. /\ u \notin Live /\ (\A i \in DOMAIN slots : slots[i] # u) /\ \A s \in Live : u \notin kept[s]
    BY <1>1, LiveReached
<1>3. status[u] \in Finished
    BY <1>1, <1>2 DEF IInv, Types, Live, Finished
<1>4. holders' = holders
    <2>1. \A w \in Threads : u \notin holders[w]
        BY <1>2, ActiveLive DEF IInv, Life
    <2>2. holders \in [Threads -> SUBSET Threads]
        BY DEF IInv, Types
    <2>3. \A w \in Threads : holders[w] \ {u} = holders[w]
        BY <2>1
    <2>4. [w \in Threads |-> holders[w] \ {u}] = [w \in Threads |-> holders[w]]
        BY <2>3
    <2> QED
        BY <1>1, <2>2, <2>4
<1>5. Types'
    BY <1>1, <1>4 DEF IInv, Types
<1>6. Grounded'
    BY <1>1, SameGround
<1>7. /\ Turns' /\ Chain' /\ Owned' /\ \A w \in Threads : Registers(w)'
    <2>1. \A i \in DOMAIN slots : slots[i] \in Threads => slots[i] \notin freed'
        BY <1>1, <1>2 DEF IInv, Owned
    <2>2. pc[t] \notin RefPCs /\ pc'[t] \notin RefPCs /\ ~(InCall(t)') /\ pc'[t] # "unref_read"
        BY <1>1 DEF RefPCs, InCall
    <2> QED
        BY <1>1, <2>1, <2>2, Around
<1>8. ASSUME NEW w \in Threads PROVE Place(w)'
    <2>1. Place(w)
        BY DEF IInv
    <2>2. ASSUME pc[w] \in {"join", "xjoin"} PROVE On(w) \notin freed'
        <3>1. On(w) \in Threads /\ On(w) \notin freed
            BY <2>1, <2>2 DEF Place, IInv, Types, On
        <3>2. CASE pc[w] = "xjoin"
            <4>1. On(w) \in kept[w] /\ w \in Live
                BY <2>1, <3>2 DEF Place, Live
            <4> QED
                BY <1>1, <1>2, <3>1, <4>1
        <3>3. CASE pc[w] = "join"
            <4>1. handle[On(w)].bound /\ handle[On(w)].ref # 0 /\ status[On(w)] # "failed"
                BY <2>1, <3>3 DEF Place, Usable
            <4>2. \A x \in Threads : pc[x] = "unref_head" => On(x) # On(w)
                BY <3>3 DEF IInv, Turns, InCall, RefPCs
            <4>3. handle[On(w)].ref \in DOMAIN slots /\ slots[handle[On(w)].ref] = On(w)
                BY <3>1, <4>1, <4>2 DEF IInv, Owned
            <4> QED
                BY <1>1, <1>2, <3>1, <4>3
        <3> QED
            BY <2>2, <3>2, <3>3
    <2> QED
        BY <1>1, <1>4, <2>1, <2>2, PlaceStays
<1>9. ASSUME NEW v \in Threads PROVE Life(v)'
    <2>1. Life(v)
        BY DEF IInv
    <2>2. (Letting(v)' <=> Letting(v)) /\ (Making(v)' <=> Making(v)) /\ Active' = Active /\ Live' = Live
        BY <1>1 DEF Letting, Making, Active, Live, On
    <2>3. v \in freed' => status[v] \in Finished
        BY <1>1, <1>3, <2>1 DEF Life
    <2> QED
        BY <1>1, <1>4, <2>1, <2>2, <2>3 DEF Life, Usable
<1> QED
    BY <1>5, <1>6, <1>7, <1>8, <1>9 DEF IInv

LEMMA SelfKeeps ==
    ASSUME IInv, NEW t \in Threads, thread_self(t) PROVE IInv'
<1>1. /\ pc[t] = "lua"
      /\ UNCHANGED <<status, native, freed, kept, reported, slots, head, pc, call, reg, failed, told>>
    BY DEF thread_self, lifeVars, regVars
<1>2. status[t] = "running" /\ t \in Active /\ t \in Live
    BY <1>1, InLua
<1>3. PICK H \in SUBSET Threads : /\ holders' = [holders EXCEPT ![t] = H] /\ t \in H /\ H \subseteq Active
                                  /\ holders[t] \ {t} \subseteq H \/ handle[t].exists # "yes"
    <2>1. holders[t] \in SUBSET Threads /\ holders[t] \subseteq Active
        BY DEF IInv, Types, Life
    <2>2. CASE holders' = [holders EXCEPT ![t] = @ \cup {t}]
        <3>1. holders' = [holders EXCEPT ![t] = holders[t] \cup {t}]
            BY <2>2
        <3>2. holders[t] \cup {t} \in SUBSET Threads /\ holders[t] \cup {t} \subseteq Active
            BY <1>2, <2>1
        <3>3. t \in holders[t] \cup {t} /\ holders[t] \ {t} \subseteq holders[t] \cup {t}
            OBVIOUS
        <3> QED
            BY <3>1, <3>2, <3>3
    <2>3. CASE holders' = [holders EXCEPT ![t] = {t}] /\ handle[t].exists # "yes"
        <3>1. {t} \in SUBSET Threads /\ {t} \subseteq Active /\ t \in {t}
            BY <1>2
        <3> QED
            BY <2>3, <3>1
    <2> QED
        BY <2>2, <2>3 DEF thread_self
<1>4. /\ holders' \in [Threads -> SUBSET Threads] /\ holders'[t] = H
      /\ \A w \in Threads \ {t} : holders'[w] = holders[w]
    BY <1>3 DEF IInv, Types
<1>5. CASE handle[t].exists = "yes" /\ UNCHANGED handle
    <2>1. Types'
        BY <1>1, <1>4, <1>5 DEF IInv, Types
    <2>2. ASSUME NEW v \in Threads
          PROVE  /\ holders'[v] \subseteq Active
                 /\ handle[v].bound => holders[v] \ {t} \subseteq holders'[v]
        <3>1. CASE v = t
            BY <1>3, <1>4, <1>5, <3>1
        <3>2. CASE v # t
            BY <1>4, <3>2 DEF IInv, Life
        <3> QED
            BY <3>1, <3>2
    <2> QED
        BY <1>1, <1>5, <2>1, <2>2, HandsKeep
<1>6. CASE handle[t].exists # "yes" /\ handle' = [handle EXCEPT ![t] = NewHandle]
    <2>1. ~handle[t].bound /\ t \notin reported /\ handle[t].ref = 0
        BY <1>2, <1>6 DEF IInv, Life
    <2>2. /\ handle' \in [Threads -> Handles] /\ handle'[t] = NewHandle
          /\ \A w \in Threads \ {t} : handle'[w] = handle[w]
        BY <1>6, NewHandleIs DEF IInv, Types, Handles
    <2>3. Types'
        BY <1>1, <1>4, <2>2 DEF IInv, Types, Handles
    <2>4. ASSUME NEW v \in Threads
          PROVE  /\ holders'[v] \subseteq Active
                 /\ handle[v].bound => holders[v] \ {t} \subseteq holders'[v]
        <3>1. CASE v = t
            BY <1>3, <1>4, <2>1, <3>1
        <3>2. CASE v # t
            BY <1>4, <3>2 DEF IInv, Life
        <3> QED
            BY <3>1, <3>2
    <2>5. \A v \in Threads :
            \/ handle'[v] = handle[v]
            \/ /\ v \notin reported /\ handle[v].ref = 0 /\ ~handle[v].bound
               /\ status[v] # "none" /\ handle'[v].ref = 0 /\ ~handle'[v].joined
               /\ handle'[v].bound => handle'[v].exists = "yes" /\ ~handle'[v].detached
        BY <1>2, <2>1, <2>2, NewHandleIs
    <2> QED
        BY <1>1, <2>3, <2>4, <2>5, HandsKeep
<1> QED
    BY <1>5, <1>6 DEF thread_self

LEMMA ShareKeeps ==
    ASSUME IInv, NEW t \in Threads, NEW w \in Threads, NEW u \in Threads, share(t, w, u)
    PROVE  IInv'
<1>1. /\ pc[t] = "lua" /\ w \in Active /\ holders' = [holders EXCEPT ![u] = @ \cup {w}]
      /\ UNCHANGED <<status, native, freed, kept, reported, handle, slots, head, pc, call, reg,
                     failed, told>>
    BY DEF share, lifeVars, regVars, Active
<1>2. /\ holders' \in [Threads -> SUBSET Threads] /\ holders'[u] = holders[u] \cup {w}
      /\ \A v \in Threads \ {u} : holders'[v] = holders[v]
    BY <1>1 DEF IInv, Types
<1>3. Types'
    BY <1>1, <1>2 DEF IInv, Types
<1>4. ASSUME NEW v \in Threads
      PROVE  /\ holders'[v] \subseteq Active
             /\ handle[v].bound => holders[v] \ {t} \subseteq holders'[v]
    BY <1>1, <1>2 DEF IInv, Life
<1> QED
    BY <1>1, <1>3, <1>4, HandsKeep

LEMMA DropKeeps ==
    ASSUME IInv, NEW t \in Threads, NEW u \in Threads, drop(t, u)
    PROVE  IInv'
<1>1. /\ pc[t] = "lua" /\ t \in holders[u]
      /\ holders' = [holders EXCEPT ![u] = @ \ {t}]
      /\ UNCHANGED <<status, native, freed, kept, reported, handle, slots, head, pc, call, reg,
                     failed, told>>
    BY DEF drop, lifeVars, regVars
<1>2. /\ holders' \in [Threads -> SUBSET Threads] /\ holders'[u] = holders[u] \ {t}
      /\ \A v \in Threads \ {u} : holders'[v] = holders[v]
    BY <1>1 DEF IInv, Types
<1>3. Types'
    BY <1>1, <1>2 DEF IInv, Types
<1>4. ASSUME NEW v \in Threads
      PROVE  /\ holders'[v] \subseteq Active
             /\ handle[v].bound => holders[v] \ {t} \subseteq holders'[v]
    BY <1>2 DEF IInv, Life
<1> QED
    BY <1>1, <1>3, <1>4, HandsKeep

----------------------------------------------------------------------------
(***************************************************************************)
(* The end of a thread.                                                    *)
(***************************************************************************)
\* Lua code that is over has left its handles to others.
LEMMA Unwound ==
    ASSUME IInv, NEW t \in Threads, Unwind(t)
    PROVE  /\ holders' \in [Threads -> SUBSET Threads]
           /\ \A u \in Threads : holders'[u] = holders[u] \ {t} /\ holders'[u] \subseteq Active \ {t}
<1>1. holders' = [u \in Threads |-> holders[u] \ {t}] /\ holders \in [Threads -> SUBSET Threads]
    BY DEF Unwind, IInv, Types
<1>2. ASSUME NEW u \in Threads
      PROVE  holders'[u] = holders[u] \ {t} /\ holders'[u] \subseteq Active \ {t}
    BY <1>1 DEF IInv, Life
<1> QED
    BY <1>1, <1>2

LEMMA EndKeeps ==
    ASSUME IInv, NEW t \in Threads, pc[t] \in {"lua", "report"}, Types',
           status' = [status EXCEPT ![t] = "ended"], Goto(t, "idle"),
           UNCHANGED <<native, freed, kept, reported, slots, head, call, reg, failed, told>>,
           \A u \in Threads :
                /\ handle'[u].exists = handle[u].exists /\ handle'[u].bound = handle[u].bound
                /\ handle'[u].ref = handle[u].ref /\ handle'[u].joined = handle[u].joined
                /\ handle'[u].detached = handle[u].detached,
           \A u \in Threads \ {t} : handle'[u] = handle[u],
           t \in reported => (handle'[t].has_error <=> t \in failed),
           \A u \in Threads :
                /\ holders'[u] \subseteq Active \ {t} /\ holders[u] \ {t} \subseteq holders'[u]
    PROVE  IInv'
<1>1. /\ status[t] = "running" /\ kept[t] = {} /\ ~InCall(t) /\ t \in Live /\ t \notin freed
      /\ told[t] = "nothing"
    BY DEF IInv, Place, Life, InCall, RefPCs, Storing, Live, Finished
<1>2. /\ status'[t] = "ended" /\ \A w \in Threads \ {t} : status'[w] = status[w]
      /\ pc' \in [Threads -> PCs] /\ pc'[t] = "idle" /\ \A w \in Threads \ {t} : pc'[w] = pc[w]
    BY DEF IInv, Types, Goto, PCs
<1>3. Grounded'
    <2>1. Live' \subseteq Live
        BY <1>2 DEF Live
    <2> QED
        BY <2>1, GroundedShrinks
<1>4. /\ Turns' /\ Chain' /\ Owned' /\ \A w \in Threads : Registers(w)'
      /\ \A w \in Threads \ {t} : (InCall(w)' <=> InCall(w)) /\ On(w)' = On(w)
    <2>1. \A w \in Threads : status[w] = "failed" => status'[w] = "failed"
        BY <1>1, <1>2
    <2>2. \A i \in DOMAIN slots : slots[i] \in Threads => slots[i] \notin freed'
        BY DEF IInv, Owned
    <2>3. pc[t] \notin RefPCs /\ pc'[t] \notin RefPCs /\ ~(InCall(t)') /\ pc'[t] # "unref_read"
        BY <1>2 DEF RefPCs, InCall
    <2>4. \A w \in Threads : On(w) \in Threads
        BY DEF IInv, Types, On
    <2> QED
        BY <1>2, <2>1, <2>2, <2>3, <2>4, Around
<1>5. ASSUME NEW w \in Threads PROVE Place(w)'
    <2>1. CASE w = t
        BY <1>1, <1>2, <2>1 DEF Place, Storing, Unreffing, InCall, RefPCs
    <2>2. CASE w # t
        <3>1. Place(w) /\ pc'[w] = pc[w] /\ status'[w] = status[w] /\ On(w) \in Threads
            BY <1>2, <2>2 DEF IInv, Types, On
        <3>2. ASSUME InCall(w), On(w) = t PROVE pc[w] \in {"join", "xjoin"}
            <4>1. pc[w] \notin Storing \cup {"start"} /\ pc[w] \notin Unreffing
                BY <1>1, <3>1, <3>2 DEF Place
            <4> QED
                BY <3>2, <4>1 DEF InCall, RefPCs, Storing, Unreffing
        <3>3. InCall(w) => \/ status'[On(w)] = status[On(w)]
                           \/ pc[w] \in {"join", "xjoin"} /\ status'[On(w)] = "ended"
            BY <1>2, <3>1, <3>2
        <3>4. pc[w] \in {"join", "xjoin"} => On(w) \notin freed'
            BY <3>1 DEF Place
        <3>5. w \in holders[On(w)] => w \in holders'[On(w)]
            BY <2>2, <3>1
        <3> QED
            BY <2>2, <3>1, <3>3, <3>4, <3>5, PlaceStays
    <2> QED
        BY <2>1, <2>2
<1>6. Active' = Active \ {t}
    BY <1>2 DEF Active
<1>7. ASSUME NEW v \in Threads PROVE Life(v)'
    <2>1. (Letting(v)' <=> Letting(v)) /\ (Making(v) => Making(v)')
        <3>1. \A w \in Threads : pc[w] \in Unreffing \cup Storing \cup {"start"} => pc'[w] = pc[w]
            BY <1>2 DEF Unreffing, Storing
        <3>2. \A w \in Threads : pc'[w] \in Unreffing => pc[w] \in Unreffing
            BY <1>2 DEF Unreffing
        <3> QED
            BY <3>1, <3>2, LettingStays, MakingStays
    <2>2. Life(v) /\ holders'[v] \subseteq Active'
        BY <1>6 DEF IInv
    <2>3. CASE v = t
        <3>1. Usable(v)' => Usable(v)
            BY DEF Usable
        <3>2. /\ handle'[v].bound => handle'[v].exists = "yes" /\ ~handle'[v].detached
              /\ handle'[v].bound /\ handle'[v].joined => Letting(v)'
              /\ handle'[v].ref # 0 => v \in reported
              /\ Usable(v)' /\ handle'[v].ref # 0 /\ ~Letting(v)' => native'[v] = "joinable"
            BY <1>1, <2>1, <2>2, <2>3, <3>1 DEF Life
        <3>3. native'[v] # "misused" /\ v \notin freed' /\ told'[v] = "nothing"
            BY <1>1, <2>2, <2>3 DEF Life
        <3>4. status'[v] = "ended" /\ pc'[v] = "idle" /\ v \notin Live'
            BY <1>2, <2>3 DEF Live
        <3> QED
            BY <2>2, <2>3, <3>2, <3>3, <3>4 DEF Life
    <2>4. CASE v # t
        <3>1. /\ status'[v] = status[v] /\ handle'[v] = handle[v]
              /\ (pc'[v] = "report" <=> pc[v] = "report") /\ (v \in Live' <=> v \in Live)
            BY <1>2, <2>4 DEF Live
        <3> QED
            BY <2>1, <2>2, <3>1 DEF Life, Usable
    <2> QED
        BY <2>3, <2>4
<1> QED
    BY <1>3, <1>4, <1>5, <1>7 DEF IInv

LEMMA ReturnsKeeps ==
    ASSUME IInv, NEW t \in Threads, thread_returns(t) PROVE IInv'
<1>1. /\ Unwind(t) /\ pc[t] = "lua" /\ status' = [status EXCEPT ![t] = "ended"] /\ Goto(t, "idle")
      /\ UNCHANGED <<native, freed, kept, reported, handle, slots, head, call, reg, failed, told>>
    BY DEF thread_returns, Unwind, regVars
<1>2. /\ holders' \in [Threads -> SUBSET Threads]
      /\ \A u \in Threads : /\ holders'[u] = holders[u] \ {t} /\ holders'[u] \subseteq Active \ {t}
    BY <1>1, Unwound
<1>3. Types'
    BY <1>1, <1>2 DEF IInv, Types, Goto, PCs, Finished
<1>4. t \in reported => (handle'[t].has_error <=> t \in failed)
    <2>1. status[t] = "running" /\ t \in Live
        BY <1>1, InLua
    <2> QED
        BY <1>1, <2>1 DEF IInv, Life
<1> QED
    BY <1>1, <1>2, <1>3, <1>4, EndKeeps

LEMMA FailsKeeps ==
    ASSUME IInv, NEW t \in Threads, thread_fails(t) PROVE IInv'
<1>1. /\ Unwind(t) /\ pc[t] = "lua" /\ failed' = failed \cup {t} /\ Goto(t, "report")
      /\ UNCHANGED <<status, native, freed, kept, reported, handle, slots, head, call, reg, told>>
    BY DEF thread_fails, Unwind, regVars, lifeVars
<1>2. /\ holders' \in [Threads -> SUBSET Threads]
      /\ \A u \in Threads : /\ holders'[u] = holders[u] \ {t} /\ holders'[u] \subseteq Active \ {t}
    BY <1>1, Unwound
<1>3. /\ status[t] = "running" /\ kept[t] = {} /\ ~InCall(t) /\ t \notin freed
    BY <1>1, InLua
<1>4. told[t] = "nothing"
    BY <1>3 DEF IInv, Life
<1>5. /\ pc' \in [Threads -> PCs] /\ pc'[t] = "report" /\ \A w \in Threads \ {t} : pc'[w] = pc[w]
    BY <1>1 DEF IInv, Types, Goto, PCs
<1>6. Types'
    BY <1>1, <1>2, <1>5 DEF IInv, Types
<1>7. Grounded'
    BY <1>1, SameGround
<1>8. /\ Turns' /\ Chain' /\ Owned' /\ \A w \in Threads : Registers(w)'
    <2>1. \A i \in DOMAIN slots : slots[i] \in Threads => slots[i] \notin freed'
        BY <1>1 DEF IInv, Owned
    <2>2. pc[t] \notin RefPCs /\ pc'[t] \notin RefPCs /\ ~(InCall(t)') /\ pc'[t] # "unref_read"
        BY <1>1, <1>5 DEF RefPCs, InCall
    <2> QED
        BY <1>1, <1>5, <2>1, <2>2, Around
<1>9. ASSUME NEW w \in Threads PROVE Place(w)'
    <2>1. CASE w = t
        BY <1>1, <1>3, <1>5, <2>1 DEF Place, Storing, Unreffing, InCall, RefPCs
    <2>2. CASE w # t
        <3>1. Place(w) /\ pc'[w] = pc[w] /\ On(w) \in Threads
            BY <1>5, <2>2 DEF IInv, Types, On
        <3>2. pc[w] \in {"join", "xjoin"} => On(w) \notin freed'
            BY <1>1, <3>1 DEF Place
        <3>3. w \in holders[On(w)] => w \in holders'[On(w)]
            BY <1>2, <2>2, <3>1
        <3> QED
            BY <1>1, <3>1, <3>2, <3>3, PlaceStays
    <2> QED
        BY <2>1, <2>2
<1>10. Active' = Active \ {t} /\ Live' = Live
    BY <1>1, <1>5 DEF Active, Live
<1>11. ASSUME NEW v \in Threads PROVE Life(v)'
    <2>1. (Letting(v)' <=> Letting(v)) /\ (Making(v) => Making(v)')
        <3>1. \A w \in Threads : pc[w] \in Unreffing \cup Storing \cup {"start"} => pc'[w] = pc[w]
            BY <1>1, <1>5 DEF Unreffing, Storing
        <3>2. \A w \in Threads : pc'[w] \in Unreffing => pc[w] \in Unreffing
            BY <1>5 DEF Unreffing
        <3> QED
            BY <1>1, <3>1, <3>2, LettingStays, MakingStays
    <2>2. /\ Life(v) /\ holders'[v] \subseteq Active'
        BY <1>2, <1>10 DEF IInv
    <2>3. UNCHANGED <<status, native, freed, reported, handle, told>>
        BY <1>1
    <2>4. CASE v = t
        <3>1. v \in failed' /\ pc'[v] = "report"
            BY <1>1, <1>5, <2>4
        <3> QED
            BY <1>3, <1>4, <1>10, <2>1, <2>2, <2>3, <2>4, <3>1 DEF Life, Usable
    <2>5. CASE v # t
        <3>1. (v \in failed' <=> v \in failed) /\ pc'[v] = pc[v]
            BY <1>1, <1>5, <2>5
        <3> QED
            BY <1>10, <2>1, <2>2, <2>3, <3>1 DEF Life, Usable
    <2> QED
        BY <2>4, <2>5
<1> QED
    BY <1>6, <1>7, <1>8, <1>9, <1>11 DEF IInv

LEMMA ReportKeeps ==
    ASSUME IInv, NEW t \in Threads, report(t) PROVE IInv'
<1>1. /\ pc[t] = "report" /\ status' = [status EXCEPT ![t] = "ended"] /\ Goto(t, "idle")
      /\ handle' = [handle EXCEPT ![t].has_error = IF t \in reported THEN TRUE ELSE @]
      /\ UNCHANGED <<native, freed, kept, reported, holders, slots, head, call, reg, failed, told>>
    BY DEF report, regVars
<1>2. PICK b \in BOOLEAN, h \in Handles :
        /\ h = handle[t] /\ b = IF t \in reported THEN TRUE ELSE h.has_error
        /\ handle' = [handle EXCEPT ![t] = [h EXCEPT !.has_error = b]]
    <2>1. PICK h \in Handles : h = handle[t]
        BY DEF IInv, Types, Handles
    <2>2. h.has_error \in BOOLEAN
        BY DEF Handles
    <2>3. PICK b \in BOOLEAN : b = IF t \in reported THEN TRUE ELSE h.has_error
        BY <2>2
    <2>4. handle' = [handle EXCEPT ![t] = [h EXCEPT !.has_error = b]]
        BY <1>1, <2>1, <2>3
    <2> QED
        BY <2>1, <2>3, <2>4
<1>3. PICK g \in Handles :
        /\ g = [h EXCEPT !.has_error = b] /\ g.ref = h.ref /\ g.exists = h.exists
        /\ g.bound = h.bound /\ g.joined = h.joined /\ g.detached = h.detached
        /\ g.has_error = b
    BY ErrorField
<1>4. /\ handle' \in [Threads -> Handles] /\ handle'[t] = g
      /\ \A w \in Threads \ {t} : handle'[w] = handle[w]
    BY <1>2, <1>3 DEF IInv, Types, Handles
<1>5. Types'
    BY <1>1, <1>4 DEF IInv, Types, Handles, Goto, PCs, Finished
<1>6. t \in failed
    BY <1>1 DEF IInv, Life
<1>7. t \in reported => (handle'[t].has_error <=> t \in failed)
    BY <1>2, <1>3, <1>4, <1>6
<1>8. \A u \in Threads :
        /\ handle'[u].exists = handle[u].exists /\ handle'[u].bound = handle[u].bound
        /\ handle'[u].ref = handle[u].ref /\ handle'[u].joined = handle[u].joined
        /\ handle'[u].detached = handle[u].detached
    BY <1>2, <1>3, <1>4
<1>9. \A u \in Threads :
        /\ holders'[u] \subseteq Active \ {t} /\ holders[u] \ {t} \subseteq holders'[u]
    <2>1. t \notin Active /\ holders' = holders
        BY <1>1 DEF Active
    <2> QED
        BY <2>1 DEF IInv, Life
<1> QED
    BY <1>1, <1>4, <1>5, <1>7, <1>8, <1>9, EndKeeps

----------------------------------------------------------------------------
(***************************************************************************)
(* The invariant, and what follows from it.                                *)
(***************************************************************************)
LEMMA InvariantInit ==
    ASSUME Init PROVE IInv
<1>1. Main \in Threads /\ 0 \notin Threads
    BY HandleAssumption
<1>2. /\ NoHandle \in Handles /\ ~NoHandle.bound /\ ~NoHandle.joined /\ NoHandle.ref = 0
      /\ ~NoHandle.has_error
    BY DEF NoHandle, Handles
<1>3. /\ status \in [Threads -> {"none", "new", "running"} \cup Finished]
      /\ native \in [Threads -> {"none", "joinable", "released", "misused"}]
      /\ handle \in [Threads -> Handles]
      /\ holders \in [Threads -> SUBSET Threads]
      /\ kept \in [Threads -> SUBSET Threads]
      /\ pc \in [Threads -> PCs]
      /\ told \in [Threads -> {"nothing", "true", "false"}]
    BY <1>2 DEF Init, PCs
<1>4. call \in [Threads -> Calls] /\ reg \in [Threads -> Registries]
    <2>1. \A t \in Threads : [op |-> "none", on |-> t] \in Calls
        BY DEF Calls
    <2>2. [ref |-> 0, next |-> 0] \in Registries
        BY DEF Registries
    <2> QED
        BY <2>1, <2>2 DEF Init
<1>5. Types
    BY <1>1, <1>3, <1>4 DEF Init, Types, Handles, Calls, Registries
<1>6. \A t \in Threads : /\ pc[t] \in {"lua", "idle"} /\ (pc[t] = "lua" <=> t = Main)
                         /\ (pc[t] # "idle" => status[t] = "running")
                         /\ (status[t] = "running" <=> t = Main) /\ status[t] \in {"none", "running"}
    BY DEF Init
<1>7. Turns
    BY <1>6 DEF Turns, InCall, RefPCs
<1>8. Grounded
    <2>1. Live = {Main}
        BY <1>1, <1>6 DEF Live
    <2> QED
        BY <2>1 DEF Grounded, Marks
<1>9. Chain
    <2>1. slots = <<>> /\ head = Main /\ DOMAIN slots = {}
        BY DEF Init
    <2>2. \A x : x \notin Listed
        BY <2>1 DEF Listed, Free
    <2> QED
        BY <2>1, <2>2 DEF Chain
<1>10. Owned
    <2>1. DOMAIN slots = {} /\ \A u \in Threads : ~handle[u].bound
        BY <1>2 DEF Init
    <2> QED
        BY <2>1 DEF Owned
<1>11. ASSUME NEW t \in Threads PROVE Registers(t) /\ Place(t)
    <2>1. kept[t] = {}
        BY DEF Init
    <2> QED
        BY <1>6, <2>1 DEF Registers, Place, Storing, Unreffing, RefPCs
<1>12. ASSUME NEW u \in Threads PROVE Life(u)
    <2>1. /\ handle[u] = NoHandle /\ reported = {} /\ failed = {} /\ freed = {} /\ holders[u] = {}
          /\ told[u] = "nothing" /\ native[u] # "misused"
        BY DEF Init
    <2> QED
        BY <1>2, <1>6, <2>1 DEF Life, Usable
<1> QED
    BY <1>5, <1>7, <1>8, <1>9, <1>10, <1>11, <1>12 DEF IInv

LEMMA InvariantStutter ==
    ASSUME IInv, UNCHANGED vars PROVE IInv'
<1>1. UNCHANGED <<status, native, freed, handle, holders, kept, reported, slots, head, pc, call, reg,
                  failed, told>>
    BY DEF vars
<1>2. /\ \A w \in Threads : On(w)' = On(w) /\ (InCall(w)' <=> InCall(w))
      /\ Live' = Live /\ Active' = Active
    BY <1>1 DEF On, InCall, Live, Active
<1>3. Types'
    BY <1>1 DEF IInv, Types
<1>4. Turns'
    BY <1>1, <1>2 DEF IInv, Turns
<1>5. Grounded'
    BY <1>1, SameGround
<1>6. Chain'
    BY <1>1, ChainStays DEF IInv
<1>7. Owned'
    BY <1>1, <1>2 DEF IInv, Owned
<1>8. ASSUME NEW t \in Threads PROVE Registers(t)' /\ Place(t)' /\ Life(t)'
    <2>1. Registers(t)'
        BY <1>1, <1>2 DEF IInv, Registers
    <2>2. Place(t)'
        <3>1. Place(t) /\ (pc[t] \in {"join", "xjoin"} => On(t) \notin freed')
            BY <1>1 DEF IInv, Place
        <3> QED
            BY <1>1, <3>1, PlaceStays
    <2>3. Life(t)'
        <3>1. Life(t) /\ holders'[t] \subseteq Active' /\ (Letting(t)' <=> Letting(t))
              /\ (Making(t) => Making(t)')
            BY <1>1, <1>2 DEF IInv, Life, Letting, Making
        <3> QED
            BY <1>1, <3>1, LifeStays
    <2> QED
        BY <2>1, <2>2, <2>3
<1> QED
    BY <1>3, <1>4, <1>5, <1>6, <1>7, <1>8 DEF IInv

\* What a step records is a kind of strain, and nothing recorded is forgotten.
LEMMA Recorded ==
    ASSUME strains \in [Threads -> SUBSET Kinds], NEW u, NEW S, Strain(u, S)
    PROVE  /\ S \in SUBSET Kinds => strains' \in [Threads -> SUBSET Kinds]
           /\ \A w \in Threads : strains[w] \subseteq strains'[w]
           /\ u \in Threads => S \subseteq strains'[u]
<1>1. CASE u \in Threads
    <2>1. strains' = [strains EXCEPT ![u] = strains[u] \cup S] /\ strains[u] \in SUBSET Kinds
        BY <1>1 DEF Strain
    <2> QED
        BY <1>1, <2>1
<1>2. CASE u \notin Threads
    BY <1>2 DEF Strain
<1> QED
    BY <1>1, <1>2

LEMMA StrainsGrow ==
    ASSUME strains \in [Threads -> SUBSET Kinds], [Next]_vars
    PROVE  /\ strains' \in [Threads -> SUBSET Kinds]
           /\ \A u \in Threads : strains[u] \subseteq strains'[u]
<1>1. \/ UNCHANGED strains
      \/ \E t, u \in Threads : \/ Strain(u, Overlap(t))
                              \/ Strain(On(t), Overlap(t))
                              \/ Strain(u, Misuse(t, u))
                              \/ Strain(u, Overlap(t) \cup Misuse(t, u) \cup Loss(u))
    <2>1. CASE UNCHANGED vars
        BY <2>1 DEF vars
    <2>2. ASSUME NEW t \in Threads, Step(t) PROVE UNCHANGED strains \/ Strain(On(t), Overlap(t))
        BY <2>2 DEF Step, ref_read, ref_init, ref_next, ref_head, ref_len, ref_store, unref_read,
                    unref_link, unref_head, create_start, createx_joined, joined, report
    <2>3. ASSUME NEW t \in Threads, Call(t)
          PROVE  \/ UNCHANGED strains
                 \/ \E u \in Threads : \/ Strain(u, Overlap(t)) \/ Strain(u, Misuse(t, u))
                                      \/ Strain(u, Overlap(t) \cup Misuse(t, u) \cup Loss(u))
        BY <2>3 DEF Call, thread_create, thread_createx, thread_join, thread_detach, thread_gc,
                    luaE_freethread, drop, share, thread_self, thread_returns, thread_fails
    <2> QED
        BY <2>1, <2>2, <2>3 DEF Next
<1>2. \A t, u \in Threads :
        /\ Overlap(t) \in SUBSET Kinds /\ Misuse(t, u) \in SUBSET Kinds
        /\ Overlap(t) \cup Misuse(t, u) \cup Loss(u) \in SUBSET Kinds
    BY DEF Overlap, Misuse, Loss, Kinds
<1>3. CASE UNCHANGED strains
    BY <1>3
<1>4. ASSUME NEW u, NEW S \in SUBSET Kinds, Strain(u, S)
      PROVE  /\ strains' \in [Threads -> SUBSET Kinds]
             /\ \A w \in Threads : strains[w] \subseteq strains'[w]
    BY <1>4, Recorded
<1> QED
    BY <1>1, <1>2, <1>3, <1>4

LEMMA InvariantStep ==
    ASSUME IInv, strains \in [Threads -> SUBSET Kinds], Unstrained', [Next]_vars PROVE IInv'
<1>0. ASSUME NEW u \in Threads, NEW S, Strain(u, S) PROVE S = {}
    BY <1>0, Recorded DEF Unstrained
<1>1. ASSUME NEW t \in Threads, Step(t) PROVE IInv'
    <2>1. CASE ref_read(t) \/ unref_read(t)
        BY <2>1, ReadKeeps
    <2>2. CASE ref_init(t)
        BY <2>2, InitKeeps
    <2>3. CASE ref_next(t)
        BY <2>3, NextKeeps
    <2>4. CASE ref_head(t)
        BY <2>4, HeadKeeps
    <2>5. CASE ref_len(t)
        BY <2>5, LenKeeps
    <2>6. CASE ref_store(t)
        BY <2>6, StoreKeeps
    <2>7. CASE unref_link(t)
        BY <2>7, LinkKeeps
    <2>8. CASE unref_head(t)
        BY <2>8, HeadReturns
    <2>9. CASE create_start(t)
        <3>1. CASE Started(t, On(t), "lua")
            BY <2>9, <3>1, StartKeeps
        <3>2. CASE /\ status' = [status EXCEPT ![On(t)] = "failed"]
                   /\ Goto(t, "unref_read") /\ Strain(On(t), Overlap(t)) /\ UNCHANGED native
            <4>1. On(t) \in Threads
                BY DEF IInv, Types, On
            <4> QED
                BY <1>0, <2>9, <3>2, <4>1, StartFailsKeeps
        <3> QED
            BY <2>9, <3>1, <3>2 DEF create_start
    <2>10. CASE createx_joined(t)
        BY <2>10, CreatexJoinedKeeps
    <2>11. CASE joined(t)
        <3>1. On(t) \in Threads /\ Strain(On(t), Overlap(t))
            BY <2>11 DEF joined, IInv, Types, On
        <3> QED
            BY <1>0, <2>11, <3>1, JoinedKeeps
    <2>12. CASE report(t)
        BY <2>12, ReportKeeps
    <2> QED
        BY <1>1, <2>1, <2>2, <2>3, <2>4, <2>5, <2>6, <2>7, <2>8, <2>9, <2>10, <2>11, <2>12 DEF Step
<1>2. ASSUME NEW t \in Threads, Call(t) PROVE IInv'
    <2>1. CASE thread_self(t)
        BY <2>1, SelfKeeps
    <2>2. CASE thread_returns(t)
        BY <2>2, ReturnsKeeps
    <2>3. CASE thread_fails(t)
        BY <2>3, FailsKeeps
    <2>4. ASSUME NEW u \in Threads,
                 \/ thread_create(t, u) \/ thread_createx(t, u) \/ thread_join(t, u)
                 \/ thread_detach(t, u) \/ thread_gc(t, u) \/ luaE_freethread(t, u) \/ drop(t, u)
                 \/ \E w \in Threads : share(t, w, u)
          PROVE  IInv'
        <3>1. CASE thread_create(t, u)
            <4>1. Strain(u, Overlap(t))
                BY <3>1 DEF thread_create
            <4> QED
                BY <1>0, <3>1, <4>1, CreateKeeps
        <3>2. CASE thread_createx(t, u)
            <4>1. CASE Started(t, u, "xjoin") /\ kept' = [kept EXCEPT ![t] = @ \cup {u}]
                BY <3>2, <4>1, CreatexKeeps
            <4>2. CASE status' = [status EXCEPT ![u] = "failed"] /\ UNCHANGED <<native, pc, kept>>
                BY <3>2, <4>2, CreatexFailsKeeps
            <4> QED
                BY <3>2, <4>1, <4>2 DEF thread_createx
        <3>3. CASE thread_join(t, u)
            <4>1. Strain(u, Misuse(t, u))
                BY <3>3 DEF thread_join
            <4> QED
                BY <1>0, <3>3, <4>1, JoinKeeps
        <3>4. CASE thread_detach(t, u)
            <4>1. Strain(u, Overlap(t) \cup Misuse(t, u) \cup Loss(u))
                BY <3>4 DEF thread_detach
            <4>2. Overlap(t) = {} /\ Misuse(t, u) = {} /\ Loss(u) = {}
                BY <1>0, <4>1
            <4> QED
                BY <3>4, <4>2, DetachKeeps
        <3>5. CASE thread_gc(t, u)
            <4>1. Usable(u) => Strain(u, Overlap(t) \cup Misuse(t, u) \cup Loss(u))
                BY <3>5 DEF thread_gc
            <4>2. Usable(u) => Overlap(t) = {} /\ Misuse(t, u) = {} /\ Loss(u) = {}
                BY <1>0, <4>1
            <4> QED
                BY <3>5, <4>2, CollectKeeps
        <3>6. CASE luaE_freethread(t, u)
            BY <3>6, FreeKeeps
        <3>7. CASE drop(t, u)
            BY <3>7, DropKeeps
        <3>8. CASE \E w \in Threads : share(t, w, u)
            BY <3>8, ShareKeeps
        <3> QED
            BY <2>4, <3>1, <3>2, <3>3, <3>4, <3>5, <3>6, <3>7, <3>8
    <2> QED
        BY <1>2, <2>1, <2>2, <2>3, <2>4 DEF Call
<1>3. CASE UNCHANGED vars
    BY <1>3, InvariantStutter
<1> QED
    BY <1>1, <1>2, <1>3 DEF Next

\* As long as nothing has happened that the library does not bear.
Borne == strains \in [Threads -> SUBSET Kinds] /\ (Unstrained => IInv)

LEMMA InvariantAlways == Spec => []Borne
<1>1. Init => Borne
    <2>1. Init => strains \in [Threads -> SUBSET Kinds]
        BY DEF Init
    <2> QED
        BY <2>1, InvariantInit DEF Borne
<1>2. Borne /\ [Next]_vars => Borne'
    <2> SUFFICES ASSUME Borne, [Next]_vars PROVE Borne'
        OBVIOUS
    <2>1. /\ strains' \in [Threads -> SUBSET Kinds]
          /\ \A u \in Threads : strains[u] \subseteq strains'[u]
        BY StrainsGrow DEF Borne
    <2>2. Unstrained' => Unstrained
        BY <2>1 DEF Unstrained
    <2>3. ASSUME Unstrained' PROVE IInv'
        BY <2>2, <2>3, InvariantStep DEF Borne
    <2> QED
        BY <2>1, <2>3 DEF Borne
<1> QED
    BY <1>1, <1>2, PTL DEF Spec

----------------------------------------------------------------------------
(***************************************************************************)
(* What holds however a program uses the library.                          *)
(***************************************************************************)
\* The fields of a handle, whatever its reference has become.
HandlesOver(R) ==
    [exists : {"no", "yes", "freed"}, bound : BOOLEAN, ref : R, joined : BOOLEAN,
     detached : BOOLEAN, has_error : BOOLEAN]
Shape(h) == \E R : h \in HandlesOver(R)
Shaped == handle = [u \in Threads |-> handle[u]] /\ \A u \in Threads : Shape(handle[u])

Makers == Storing \cup {"start"}

\* What the place of t says of the thread its call is on.
Where(t) ==
    /\ pc[t] # "idle" => status[t] = "running"
    /\ pc[t] \in Makers => call[t].op = "create" /\ status[On(t)] = "new"
    /\ pc[t] \in Unreffing =>
        /\ call[t].op \in {"create", "join", "detach", "gc"} /\ status[On(t)] # "none"
        /\ call[t].op = "create" => status[On(t)] = "failed"
    /\ pc[t] = "join" => call[t].op = "join" /\ status[On(t)] # "none"
    /\ pc[t] = "xjoin" => status[On(t)] \notin {"none", "new"} /\ handle[On(t)].ref = 0

\* A thread that does not exist has no handle, one that is new somebody makes.
Begun(u) ==
    /\ status[u] = "none" => handle[u] = NoHandle
    /\ status[u] = "new" => \E t \in Threads : pc[t] \in Makers /\ On(t) = u

\* Nothing was done with the handle of u that could misuse its native thread.
Fine(u) == strains[u] \cap {"together", "fail", "self"} = {}

\* Then one thread at a time is in a call on u, and who relies on the native thread
\* finds it neither joined nor detached.
Sound(u) ==
    /\ native[u] # "misused"
    /\ \A t, w \in Threads : InCall(t) /\ On(t) = u /\ InCall(w) /\ On(w) = u => t = w
    /\ status[u] \in {"running", "ended"} /\ Usable(u) /\ handle[u].ref # 0 /\ ~Letting(u) =>
        native[u] = "joinable"
    /\ \A t \in Threads : On(t) = u =>
        /\ pc[t] = "xjoin" => native[u] = "joinable"
        /\ pc[t] = "join" => Usable(u) /\ native[u] = "joinable"

Forms ==
    /\ strains \in [Threads -> SUBSET Kinds]
    /\ status \in [Threads -> {"none", "new", "running"} \cup Finished]
    /\ native \in [Threads -> {"none", "joinable", "released", "misused"}]
    /\ pc \in [Threads -> PCs]
    /\ call \in [Threads -> Calls]
    /\ Shaped
    /\ \A t, w \in Threads : pc[t] \in Makers /\ pc[w] \in Makers /\ On(t) = On(w) => t = w
RInv ==
    /\ Forms
    /\ \A t \in Threads : Where(t) /\ Begun(t) /\ (Fine(t) => Sound(t))

----------------------------------------------------------------------------
LEMMA OnThreads ==
    ASSUME RInv, NEW t \in Threads PROVE On(t) \in Threads /\ call[t] \in Calls
BY DEF RInv, Forms, On, Calls

LEMMA Altered ==
    ASSUME Shaped, NEW u \in Threads, NEW g, Shape(g), handle' = [handle EXCEPT ![u] = g]
    PROVE  Shaped' /\ handle'[u] = g /\ \A w \in Threads \ {u} : handle'[w] = handle[w]
<1>1. handle' = [w \in Threads |-> IF w = u THEN g ELSE handle[w]]
    BY DEF Shaped
<1>2. \A w \in Threads : handle'[w] = IF w = u THEN g ELSE handle[w]
    BY <1>1
<1>3. handle' = [w \in Threads |-> handle'[w]]
    BY <1>1, <1>2
<1> QED
    BY <1>2, <1>3 DEF Shaped

LEMMA RefOf ==
    ASSUME NEW h, Shape(h), NEW r
    PROVE  \E g : /\ g = [h EXCEPT !.ref = r] /\ Shape(g) /\ g.detached = h.detached
                  /\ g.bound = h.bound /\ g.joined = h.joined /\ g.ref = r
<1>1. PICK R : h \in HandlesOver(R)
    BY DEF Shape
<1>2. PICK g \in HandlesOver({r}) : g = [h EXCEPT !.ref = r]
    BY <1>1 DEF HandlesOver
<1>3. /\ g.detached = h.detached
      /\ g.bound = h.bound /\ g.joined = h.joined /\ g.ref = r
    BY <1>1, <1>2 DEF HandlesOver
<1> QED
    BY <1>2, <1>3 DEF Shape

LEMMA JoinedOf ==
    ASSUME NEW h, Shape(h)
    PROVE  \E g : /\ g = [h EXCEPT !.joined = TRUE] /\ Shape(g) /\ g.detached = h.detached
                  /\ g.bound = h.bound /\ g.joined = TRUE /\ g.ref = h.ref
<1>1. PICK R : h \in HandlesOver(R)
    BY DEF Shape
<1>2. PICK g \in HandlesOver(R) : g = [h EXCEPT !.joined = TRUE]
    BY <1>1 DEF HandlesOver
<1>3. /\ g.detached = h.detached
      /\ g.bound = h.bound /\ g.joined = TRUE /\ g.ref = h.ref
    BY <1>1, <1>2 DEF HandlesOver
<1> QED
    BY <1>2, <1>3 DEF Shape

LEMMA ExistsOf ==
    ASSUME NEW h, Shape(h)
    PROVE  \E g : /\ g = [h EXCEPT !.exists = "freed"] /\ Shape(g) /\ g.detached = h.detached
                  /\ g.bound = h.bound /\ g.joined = h.joined /\ g.ref = h.ref
<1>1. PICK R : h \in HandlesOver(R)
    BY DEF Shape
<1>2. PICK g \in HandlesOver(R) : g = [h EXCEPT !.exists = "freed"]
    BY <1>1 DEF HandlesOver
<1>3. /\ g.detached = h.detached
      /\ g.bound = h.bound /\ g.joined = h.joined /\ g.ref = h.ref
    BY <1>1, <1>2 DEF HandlesOver
<1> QED
    BY <1>2, <1>3 DEF Shape

LEMMA ErrorOf ==
    ASSUME NEW h, Shape(h), NEW b \in BOOLEAN
    PROVE  \E g : /\ g = [h EXCEPT !.has_error = b] /\ Shape(g) /\ g.detached = h.detached
                  /\ g.bound = h.bound /\ g.joined = h.joined /\ g.ref = h.ref
<1>1. PICK R : h \in HandlesOver(R)
    BY DEF Shape
<1>2. PICK g \in HandlesOver(R) : g = [h EXCEPT !.has_error = b]
    BY <1>1 DEF HandlesOver
<1>3. /\ g.detached = h.detached
      /\ g.bound = h.bound /\ g.joined = h.joined /\ g.ref = h.ref
    BY <1>1, <1>2 DEF HandlesOver
<1> QED
    BY <1>2, <1>3 DEF Shape

LEMMA AfterOf ==
    ASSUME NEW h, Shape(h), NEW op \in {"create", "join", "detach", "gc"}
    PROVE  \E g : /\ g = After(op, h) /\ Shape(g) /\ g.ref = h.ref
                  /\ (op = "create" => g = h) /\ (op # "create" => ~g.bound)
<1>1. PICK R : h \in HandlesOver(R)
    BY DEF Shape
<1>2. CASE op = "create"
    BY <1>2 DEF After
<1>3. CASE op = "join"
    <2>1. PICK g \in HandlesOver(R) : g = [h EXCEPT !.bound = FALSE]
        BY <1>1 DEF HandlesOver
    <2>2. g.ref = h.ref /\ ~g.bound
        BY <1>1, <2>1 DEF HandlesOver
    <2>3. g = After(op, h)
        BY <1>3, <2>1 DEF After
    <2> QED
        BY <1>3, <2>1, <2>2, <2>3 DEF Shape
<1>4. CASE op = "detach"
    <2>1. PICK g \in HandlesOver(R) : g = [h EXCEPT !.bound = FALSE, !.detached = TRUE]
        BY <1>1 DEF HandlesOver
    <2>2. g.ref = h.ref /\ ~g.bound
        BY <1>1, <2>1 DEF HandlesOver
    <2>3. g = After(op, h)
        BY <1>4, <2>1 DEF After
    <2> QED
        BY <1>4, <2>1, <2>2, <2>3 DEF Shape
<1>5. CASE op = "gc"
    <2>1. PICK g \in HandlesOver(R) : g = [h EXCEPT !.exists = "freed", !.bound = FALSE, !.detached = TRUE]
        BY <1>1 DEF HandlesOver
    <2>2. g.ref = h.ref /\ ~g.bound
        BY <1>1, <2>1 DEF HandlesOver
    <2>3. g = After(op, h)
        BY <1>5, <2>1 DEF After
    <2> QED
        BY <1>5, <2>1, <2>2, <2>3 DEF Shape
<1> QED
    BY <1>2, <1>3, <1>4, <1>5

LEMMA NewShape ==
    Shape(NewHandle) /\ NewHandle.ref = 0 /\ Shape(NoHandle) /\ ~NoHandle.bound
        /\ NoHandle.ref = 0 /\ NoHandle.exists = "no"
<1>1. NewHandle \in HandlesOver({0}) /\ NoHandle \in HandlesOver({0})
    BY DEF NewHandle, NoHandle, HandlesOver
<1> QED
    BY <1>1 DEF NewHandle, NoHandle, Shape

\* A thread that is in no call, and one that a call is on.
LEMMA Placed ==
    ASSUME RInv, NEW w \in Threads
    PROVE  /\ InCall(w) => status[On(w)] # "none"
           /\ pc[w] \in Makers \cup Unreffing => InCall(w)
           /\ pc[w] \in {"idle", "lua", "report"} => ~InCall(w)
BY DEF RInv, Where, InCall, RefPCs, Makers, Storing, Unreffing

\* The calls on u, and what they rely on, have not changed.
LEMMA Elsewhere ==
    ASSUME RInv, NEW u \in Threads, native'[u] = native[u], strains[u] \subseteq strains'[u],
           status'[u] = status[u] \/ (status[u] = "running" /\ status'[u] = "ended"),
           handle'[u].bound = handle[u].bound, handle'[u].joined = handle[u].joined,
           handle'[u].detached = handle[u].detached,
           handle'[u].ref = handle[u].ref \/ status[u] = "new",
           status[u] = "none" => handle'[u] = handle[u],
           \A w \in Threads :
                \/ /\ On(w)' = On(w)
                   /\ \/ pc'[w] = pc[w]
                      \/ pc[w] \in Makers /\ pc'[w] \in Makers
                      \/ pc[w] \in Unreffing /\ pc'[w] \in Unreffing
                \/ (InCall(w) => On(w) # u) /\ (InCall(w)' => On(w)' # u)
    PROVE  Begun(u)' /\ (Fine(u)' => Sound(u)')
<1>1. ASSUME NEW w \in Threads
      PROVE  /\ pc[w] \in Makers /\ On(w) = u => pc'[w] \in Makers /\ On(w)' = u
             /\ InCall(w)' /\ On(w)' = u => InCall(w) /\ On(w) = u
             /\ pc[w] \in Unreffing /\ On(w) = u <=> pc'[w] \in Unreffing /\ On(w)' = u
             /\ pc'[w] \in {"join", "xjoin"} /\ On(w)' = u => pc[w] = pc'[w] /\ On(w) = u
    BY DEF Makers, Storing, Unreffing, InCall, RefPCs
<1>2. Begun(u)'
    <2>1. Begun(u)
        BY DEF RInv
    <2>2. status'[u] = "none" => handle'[u] = NoHandle
        BY <2>1 DEF Begun
    <2>3. status'[u] = "new" => \E t \in Threads : pc'[t] \in Makers /\ On(t)' = u
        BY <1>1, <2>1 DEF Begun
    <2> QED
        BY <2>2, <2>3 DEF Begun
<1>3. ASSUME Fine(u)' PROVE Sound(u)'
    <2>1. Sound(u)
        BY <1>3 DEF Fine, RInv
    <2>2. Letting(u)' <=> Letting(u)
        BY <1>1 DEF Letting
    <2>3. Usable(u)' <=> Usable(u)
        BY DEF Usable
    <2>4. \A t, w \in Threads : InCall(t)' /\ On(t)' = u /\ InCall(w)' /\ On(w)' = u => t = w
        BY <1>1, <2>1 DEF Sound
    <2>5. status'[u] \in {"running", "ended"} /\ Usable(u)' /\ handle'[u].ref # 0 /\ ~Letting(u)' =>
            native'[u] = "joinable"
        BY <2>1, <2>2, <2>3 DEF Sound
    <2>6. \A t \in Threads : On(t)' = u =>
            /\ pc'[t] = "xjoin" => native'[u] = "joinable"
            /\ pc'[t] = "join" => Usable(u)' /\ native'[u] = "joinable"
        BY <1>1, <2>1, <2>3 DEF Sound
    <2> QED
        BY <2>1, <2>4, <2>5, <2>6 DEF Sound
<1> QED
    BY <1>2, <1>3

\* A step that makes and releases nothing, and changes no call.
LEMMA QuietKeeps ==
    ASSUME RInv, UNCHANGED <<native, strains, call>>, Shaped',
           status' \in [Threads -> {"none", "new", "running"} \cup Finished],
           pc' \in [Threads -> PCs],
           \A u \in Threads :
                /\ \/ status'[u] = status[u]
                   \/ status[u] = "running" /\ status'[u] = "ended" /\ pc'[u] = "idle"
                /\ handle'[u].bound = handle[u].bound /\ handle'[u].joined = handle[u].joined
                /\ handle'[u].detached = handle[u].detached
                /\ handle'[u].ref = handle[u].ref \/ status[u] = "new"
                /\ status[u] = "none" => handle'[u] = handle[u]
                /\ \/ pc'[u] = pc[u]
                   \/ pc[u] \in Makers /\ pc'[u] \in Makers
                   \/ pc[u] \in Unreffing /\ pc'[u] \in Unreffing
                   \/ pc[u] \in {"lua", "report"} /\ pc'[u] \in {"report", "idle"}
    PROVE  RInv'
<1>1. \A w \in Threads : On(w)' = On(w) /\ On(w) \in Threads
    BY OnThreads DEF On
<1>2. \A w \in Threads : pc'[w] \in Makers <=> pc[w] \in Makers
    BY DEF Makers, Storing, Unreffing
<1>3. Forms'
    BY <1>1, <1>2 DEF RInv, Forms
<1>4. ASSUME NEW w \in Threads PROVE Where(w)'
    <2>1. Where(w) /\ On(w)' = On(w) /\ call'[w] = call[w]
        BY <1>1 DEF RInv
    <2>2. pc'[w] # "idle" => status'[w] = "running"
        BY <2>1 DEF Where, Makers, Storing, Unreffing
    <2>3. pc'[w] \in Makers => call'[w].op = "create" /\ status'[On(w)] = "new"
        BY <1>1, <1>2, <2>1 DEF Where
    <2>4. pc'[w] \in Unreffing =>
            /\ pc[w] \in Unreffing /\ status'[On(w)] # "none"
            /\ status[On(w)] = "failed" => status'[On(w)] = "failed"
        BY <1>1, <2>1 DEF Where, Makers, Storing, Unreffing
    <2>5. pc'[w] \in {"join", "xjoin"} =>
            /\ pc[w] = pc'[w] /\ status'[On(w)] # "none"
            /\ status[On(w)] # "new" => status'[On(w)] # "new" /\ handle'[On(w)].ref = handle[On(w)].ref
        BY <1>1, <2>1 DEF Where, Makers, Storing, Unreffing
    <2> QED
        BY <2>1, <2>2, <2>3, <2>4, <2>5 DEF Where
<1>5. ASSUME NEW u \in Threads PROVE Begun(u)' /\ (Fine(u)' => Sound(u)')
    <2>1. ASSUME NEW w \in Threads
          PROVE \/ /\ On(w)' = On(w)
                   /\ \/ pc'[w] = pc[w]
                      \/ pc[w] \in Makers /\ pc'[w] \in Makers
                      \/ pc[w] \in Unreffing /\ pc'[w] \in Unreffing
                \/ ~InCall(w) /\ ~(InCall(w)')
        BY <1>1 DEF InCall, RefPCs
    <2>2. native'[u] = native[u] /\ strains[u] \subseteq strains'[u]
        OBVIOUS
    <2>3. /\ status'[u] = status[u] \/ (status[u] = "running" /\ status'[u] = "ended")
          /\ handle'[u].bound = handle[u].bound /\ handle'[u].joined = handle[u].joined
          /\ handle'[u].detached = handle[u].detached
          /\ handle'[u].ref = handle[u].ref \/ status[u] = "new"
          /\ status[u] = "none" => handle'[u] = handle[u]
        OBVIOUS
    <2>4. ASSUME NEW w \in Threads
          PROVE \/ /\ On(w)' = On(w)
                   /\ \/ pc'[w] = pc[w]
                      \/ pc[w] \in Makers /\ pc'[w] \in Makers
                      \/ pc[w] \in Unreffing /\ pc'[w] \in Unreffing
                \/ (InCall(w) => On(w) # u) /\ (InCall(w)' => On(w)' # u)
        BY <2>1
    <2> QED
        BY <2>2, <2>3, <2>4, Elsewhere
<1> QED
    BY <1>3, <1>4, <1>5 DEF RInv

----------------------------------------------------------------------------
\* What luaL_ref and luaL_unref do before their last step; luaL_ref's last one.
LEMMA WalksQuiet ==
    ASSUME RInv, NEW t \in Threads,
           \/ ref_read(t) \/ ref_init(t) \/ ref_next(t) \/ ref_head(t) \/ ref_len(t)
           \/ unref_read(t) \/ unref_link(t)
    PROVE  RInv'
<1>1. UNCHANGED <<native, strains, call, status, handle>>
    BY DEF ref_read, ref_init, ref_next, ref_head, ref_len, unref_read, unref_link, lifeVars
<1>2. \E l \in PCs : /\ Goto(t, l)
                     /\ (pc[t] \in Makers /\ l \in Makers) \/ (pc[t] \in Unreffing /\ l \in Unreffing)
    BY DEF ref_read, ref_init, ref_next, ref_head, ref_len, unref_read, unref_link, PCs, RefPCs,
           Makers, Storing, Unreffing
<1>3. /\ pc' \in [Threads -> PCs]
      /\ \A u \in Threads : \/ pc'[u] = pc[u]
                            \/ pc[u] \in Makers /\ pc'[u] \in Makers
                            \/ pc[u] \in Unreffing /\ pc'[u] \in Unreffing
    BY <1>2 DEF Goto, RInv, Forms
<1>4. Shaped' /\ status' \in [Threads -> {"none", "new", "running"} \cup Finished]
    BY <1>1 DEF RInv, Forms, Shaped
<1> QED
    BY <1>1, <1>3, <1>4, QuietKeeps

LEMMA StoreQuiet ==
    ASSUME RInv, NEW t \in Threads, ref_store(t) PROVE RInv'
<1>1. /\ UNCHANGED <<native, strains, call, status>>
      /\ pc[t] = "ref_store" /\ Goto(t, "start")
      /\ handle' = [handle EXCEPT ![On(t)].ref = reg[t].ref]
    BY DEF ref_store
<1>2. PICK v \in Threads : v = On(t) /\ status[v] = "new"
    <2>1. Where(t)
        BY DEF RInv
    <2> QED
        BY <1>1, <2>1, OnThreads DEF Where, Makers, Storing
<1>3. PICK r : /\ handle' = [handle EXCEPT ![v] = [handle[v] EXCEPT !.ref = r]]
               /\ Shaped /\ Shape(handle[v])
    <2>1. Shaped
        BY DEF RInv, Forms
    <2> QED
        BY <1>1, <1>2, <2>1 DEF Shaped
<1>4. PICK g : /\ Shape(g) /\ handle' = [handle EXCEPT ![v] = g] /\ g.bound = handle[v].bound
               /\ g.joined = handle[v].joined /\ g.detached = handle[v].detached
    <2>1. PICK g : /\ g = [handle[v] EXCEPT !.ref = r] /\ Shape(g)
                   /\ g.detached = handle[v].detached
                   /\ g.bound = handle[v].bound /\ g.joined = handle[v].joined /\ g.ref = r
        BY <1>3, RefOf
    <2>2. handle' = [handle EXCEPT ![v] = g]
        BY <1>3, <2>1
    <2> QED
        BY <2>1, <2>2
<1>5. Shaped' /\ handle'[v] = g /\ \A w \in Threads \ {v} : handle'[w] = handle[w]
    BY <1>3, <1>4, Altered
<1>6. /\ pc' \in [Threads -> PCs] /\ pc'[t] = "start" /\ \A w \in Threads \ {t} : pc'[w] = pc[w]
    BY <1>1 DEF Goto, RInv, Forms, PCs
<1>7. \A u \in Threads :
        /\ handle'[u].bound = handle[u].bound /\ handle'[u].joined = handle[u].joined
        /\ handle'[u].detached = handle[u].detached
        /\ handle'[u].ref = handle[u].ref \/ status[u] = "new"
        /\ status[u] = "none" => handle'[u] = handle[u]
        /\ pc'[u] = pc[u] \/ (pc[u] \in Makers /\ pc'[u] \in Makers)
    BY <1>1, <1>2, <1>4, <1>5, <1>6 DEF Makers, Storing
<1>8. status' \in [Threads -> {"none", "new", "running"} \cup Finished]
    BY <1>1 DEF RInv, Forms
<1> QED
    BY <1>1, <1>5, <1>6, <1>7, <1>8, QuietKeeps

\* Handles are passed on, let go of and collected; states are freed.
LEMMA HandsQuiet ==
    ASSUME RInv, NEW t \in Threads, NEW u \in Threads,
           \/ luaE_freethread(t, u) \/ drop(t, u) \/ \E w \in Threads : share(t, w, u)
           \/ UNCHANGED vars
    PROVE  RInv'
<1>1. UNCHANGED <<native, strains, call, status, handle, pc>>
    BY DEF luaE_freethread, drop, share, lifeVars, vars
<1>2. /\ Shaped' /\ pc' \in [Threads -> PCs]
      /\ status' \in [Threads -> {"none", "new", "running"} \cup Finished]
    BY <1>1 DEF RInv, Forms, Shaped
<1> QED
    BY <1>1, <1>2, QuietKeeps

LEMMA EndsQuiet ==
    ASSUME RInv, NEW t \in Threads, thread_returns(t) \/ thread_fails(t) \/ report(t) PROVE RInv'
<1>1. /\ UNCHANGED <<native, strains, call>> /\ pc[t] \in {"lua", "report"} /\ status[t] = "running"
    <2>1. Where(t)
        BY DEF RInv
    <2> QED
        BY <2>1 DEF thread_returns, thread_fails, report, Unwind, lifeVars, Where
<1>2. \/ status' = [status EXCEPT ![t] = "ended"] /\ Goto(t, "idle")
      \/ UNCHANGED status /\ Goto(t, "report")
    BY DEF thread_returns, thread_fails, report, lifeVars
<1>3. Shaped /\ Shape(handle[t])
    BY DEF RInv, Forms, Shaped
<1>4. UNCHANGED handle \/ \E b \in BOOLEAN : handle' = [handle EXCEPT ![t] = [@ EXCEPT !.has_error = b]]
    <2>1. CASE report(t)
        <3>1. PICK R : handle[t] \in HandlesOver(R)
            BY <1>3 DEF Shape
        <3>2. handle[t].has_error \in BOOLEAN
            BY <3>1 DEF HandlesOver
        <3>3. PICK b \in BOOLEAN : b = IF t \in reported THEN TRUE ELSE handle[t].has_error
            BY <3>2
        <3>4. handle' = [handle EXCEPT ![t] = [handle[t] EXCEPT !.has_error = b]]
            BY <1>3, <2>1, <3>3 DEF report, Shaped
        <3> QED
            BY <3>4
    <2>2. CASE ~report(t)
        BY <2>2 DEF thread_returns, thread_fails
    <2> QED
        BY <2>1, <2>2
<1>5. /\ Shaped'
      /\ \A u \in Threads :
            /\ handle'[u].bound = handle[u].bound /\ handle'[u].joined = handle[u].joined
            /\ handle'[u].detached = handle[u].detached /\ handle'[u].ref = handle[u].ref
            /\ status[u] = "none" => handle'[u] = handle[u]
    <2>1. CASE UNCHANGED handle
        BY <1>3, <2>1 DEF Shaped
    <2>2. ASSUME NEW b \in BOOLEAN, handle' = [handle EXCEPT ![t] = [@ EXCEPT !.has_error = b]]
          PROVE  /\ Shaped'
                 /\ \A u \in Threads :
                        /\ handle'[u].bound = handle[u].bound
                        /\ handle'[u].joined = handle[u].joined
                        /\ handle'[u].detached = handle[u].detached
                        /\ handle'[u].ref = handle[u].ref
                        /\ status[u] = "none" => handle'[u] = handle[u]
        <3>1. PICK g : /\ Shape(g) /\ handle' = [handle EXCEPT ![t] = g] /\ g.bound = handle[t].bound
                       /\ g.joined = handle[t].joined /\ g.detached = handle[t].detached
                       /\ g.ref = handle[t].ref
            <4>1. PICK g : /\ g = [handle[t] EXCEPT !.has_error = b] /\ Shape(g)
                           /\ g.bound = handle[t].bound /\ g.joined = handle[t].joined
                           /\ g.detached = handle[t].detached /\ g.ref = handle[t].ref
                BY <1>3, ErrorOf
            <4>2. handle' = [handle EXCEPT ![t] = g]
                BY <2>2, <4>1 DEF Shaped
            <4> QED
                BY <4>1, <4>2
        <3>2. Shaped' /\ handle'[t] = g /\ \A w \in Threads \ {t} : handle'[w] = handle[w]
            BY <1>3, <3>1, Altered
        <3> QED
            BY <1>1, <3>1, <3>2
    <2> QED
        BY <1>4, <2>1, <2>2
<1>6. /\ status' \in [Threads -> {"none", "new", "running"} \cup Finished] /\ pc' \in [Threads -> PCs]
      /\ \A u \in Threads :
            /\ status'[u] = status[u] \/ (status[u] = "running" /\ status'[u] = "ended" /\ pc'[u] = "idle")
            /\ pc'[u] = pc[u] \/ (pc[u] \in {"lua", "report"} /\ pc'[u] \in {"report", "idle"})
    BY <1>1, <1>2 DEF Goto, RInv, Forms, PCs, Finished
<1> QED
    BY <1>1, <1>5, <1>6, QuietKeeps

\* A step of t that enters, goes on in or leaves a call on v.
LEMMA TurnKeeps ==
    ASSUME RInv, NEW t \in Threads, NEW v \in Threads,
           strains' \in [Threads -> SUBSET Kinds],
           status' \in [Threads -> {"none", "new", "running"} \cup Finished],
           native' \in [Threads -> {"none", "joinable", "released", "misused"}],
           pc' \in [Threads -> PCs], call' \in [Threads -> Calls], Shaped',
           On(t)' = v, InCall(t) => On(t) = v,
           \A w \in Threads \ {t} :
                /\ call'[w] = call[w]
                /\ \/ pc'[w] = pc[w]
                   \/ w = v /\ pc[w] = "idle" /\ pc'[w] = "lua" /\ status'[w] = "running",
           \A u \in Threads \ {v} :
                /\ native'[u] = native[u] /\ status'[u] = status[u] /\ handle'[u] = handle[u]
                /\ strains'[u] = strains[u],
           handle'[v].ref = handle[v].ref \/ \A w \in Threads \ {t} : InCall(w) => On(w) # v,
           \/ status'[v] = status[v]
           \/ status[v] # "running" /\ \A w \in Threads \ {t} : InCall(w) => On(w) # v
           \/ status[v] = "new" /\ status'[v] # "none" /\ pc[t] \in Makers,
           pc'[t] \in Makers => \A w \in Threads \ {t} : InCall(w) => On(w) # v,
           Where(t)', Begun(v)', Fine(v)' => Sound(v)'
    PROVE  RInv'
<1>1. ASSUME NEW w \in Threads \ {t} PROVE On(w)' = On(w) /\ On(w) \in Threads
    BY OnThreads DEF On
<1>2. ASSUME NEW w \in Threads \ {t}
      PROVE  /\ pc'[w] \in Makers => pc'[w] = pc[w] /\ InCall(w)
             /\ pc'[w] \in Unreffing => pc'[w] = pc[w] /\ InCall(w)
             /\ pc'[w] \in {"join", "xjoin"} => pc'[w] = pc[w] /\ InCall(w)
    BY DEF Makers, Storing, Unreffing, InCall, RefPCs
<1>3. Forms'
    <2>1. \A w \in Threads \ {t} : pc'[w] \in Makers /\ pc'[t] \in Makers => On(w)' # On(t)'
        BY <1>1, <1>2
    <2>2. \A w, x \in Threads \ {t} :
            pc'[w] \in Makers /\ pc'[x] \in Makers /\ On(w)' = On(x)' => w = x
        <3>1. \A w, x \in Threads : pc[w] \in Makers /\ pc[x] \in Makers /\ On(w) = On(x) => w = x
            BY DEF RInv, Forms
        <3> QED
            BY <1>1, <1>2, <3>1
    <2>3. \A w, x \in Threads : pc'[w] \in Makers /\ pc'[x] \in Makers /\ On(w)' = On(x)' => w = x
        BY <2>1, <2>2
    <2> QED
        BY <2>3 DEF Forms
<1>4. ASSUME NEW w \in Threads \ {t} PROVE Where(w)'
    <2>1. Where(w) /\ Where(v)
        BY DEF RInv
    <2>2. pc'[w] # "idle" => status'[w] = "running"
        <3>1. CASE w = v
            BY <2>1, <3>1 DEF Where
        <3>2. CASE w # v
            BY <2>1, <3>2 DEF Where
        <3> QED
            BY <3>1, <3>2
    <2>3. CASE InCall(w) /\ On(w) = v
        <3>1. On(w)' = v /\ call'[w] = call[w] /\ handle'[v].ref = handle[v].ref
            BY <1>1, <2>3
        <3>2. CASE status'[v] = status[v]
            BY <1>2, <2>1, <2>2, <2>3, <3>1, <3>2 DEF Where
        <3>3. CASE status[v] = "new" /\ status'[v] # "none" /\ pc[t] \in Makers
            <4>1. pc[w] \notin Makers
                <5>1. InCall(t)
                    BY <3>3, Placed
                <5> QED
                    BY <2>3, <3>3, <5>1 DEF RInv, Forms
            <4>2. pc[w] # "xjoin" /\ (pc[w] \in Unreffing => call[w].op # "create")
                BY <2>1, <2>3, <3>3 DEF Where, Finished
            <4>3. pc'[w] # "xjoin" /\ pc'[w] \notin Makers
                BY <1>2, <4>1, <4>2
            <4>4. pc'[w] = "join" => call'[w].op = "join" /\ status'[On(w)'] # "none"
                BY <1>2, <2>1, <3>1, <3>3 DEF Where
            <4>5. pc'[w] \in Unreffing =>
                    /\ call'[w].op \in {"create", "join", "detach", "gc"} /\ status'[On(w)'] # "none"
                    /\ call'[w].op # "create"
                BY <1>2, <2>1, <3>1, <3>3, <4>2 DEF Where
            <4> QED
                BY <2>2, <4>3, <4>4, <4>5 DEF Where
        <3> QED
            BY <2>3, <3>2, <3>3
    <2>4. CASE InCall(w) /\ On(w) # v
        <3>1. On(w)' = On(w) /\ On(w) \in Threads \ {v} /\ call'[w] = call[w]
            BY <1>1, <2>4
        <3>2. status'[On(w)] = status[On(w)] /\ handle'[On(w)] = handle[On(w)]
            BY <3>1
        <3> QED
            BY <1>2, <2>1, <2>2, <3>1, <3>2 DEF Where
    <2>5. CASE ~InCall(w)
        BY <1>2, <2>2, <2>5 DEF Where
    <2> QED
        BY <2>3, <2>4, <2>5
<1>5. ASSUME NEW u \in Threads \ {v} PROVE Begun(u)' /\ (Fine(u)' => Sound(u)')
    <2>1. native'[u] = native[u] /\ strains[u] \subseteq strains'[u]
        OBVIOUS
    <2>2. /\ status'[u] = status[u] \/ (status[u] = "running" /\ status'[u] = "ended")
          /\ handle'[u].bound = handle[u].bound /\ handle'[u].joined = handle[u].joined
          /\ handle'[u].detached = handle[u].detached
          /\ handle'[u].ref = handle[u].ref \/ status[u] = "new"
          /\ status[u] = "none" => handle'[u] = handle[u]
        OBVIOUS
    <2>3. ASSUME NEW w \in Threads
          PROVE \/ /\ On(w)' = On(w)
                   /\ \/ pc'[w] = pc[w]
                      \/ pc[w] \in Makers /\ pc'[w] \in Makers
                      \/ pc[w] \in Unreffing /\ pc'[w] \in Unreffing
                \/ (InCall(w) => On(w) # u) /\ (InCall(w)' => On(w)' # u)
        <3>1. CASE w = t
            BY <3>1
        <3>2. CASE w # t /\ pc'[w] = pc[w]
            BY <1>1, <3>2
        <3>3. CASE w # t /\ pc[w] = "idle" /\ pc'[w] = "lua"
            BY <3>3 DEF InCall, RefPCs
        <3> QED
            BY <3>1, <3>2, <3>3
    <2> QED
        BY <2>1, <2>2, <2>3, Elsewhere
<1>6. \A w \in Threads : Where(w)' /\ Begun(w)' /\ (Fine(w)' => Sound(w)')
    BY <1>4, <1>5
<1> QED
    BY <1>3, <1>6 DEF RInv

\* t alone is in a call on v.
LEMMA SoundAlone ==
    ASSUME NEW t \in Threads, NEW v \in Threads,
           \A w \in Threads \ {t} : InCall(w)' => On(w)' # v,
           native'[v] # "misused",
           status'[v] \in {"running", "ended"} /\ Usable(v)' /\ handle'[v].ref # 0 /\ ~Letting(v)'
                => native'[v] = "joinable",
           pc'[t] = "xjoin" => native'[v] = "joinable",
           pc'[t] = "join" => Usable(v)' /\ native'[v] = "joinable"
    PROVE  Sound(v)'
<1>1. \A w, x \in Threads : InCall(w)' /\ On(w)' = v /\ InCall(x)' /\ On(x)' = v => w = x
    OBVIOUS
<1>2. \A w \in Threads : On(w)' = v =>
        /\ pc'[w] = "xjoin" => native'[v] = "joinable"
        /\ pc'[w] = "join" => Usable(v)' /\ native'[v] = "joinable"
    BY DEF InCall
<1> QED
    BY <1>1, <1>2 DEF Sound

\* The others in a call, when t is in one on v and it is fine, or t finds nobody there.
LEMMA OthersGone ==
    ASSUME RInv, NEW t \in Threads, NEW v \in Threads, Fine(v)
    PROVE  /\ Sound(v)
           /\ InCall(t) /\ On(t) = v => \A w \in Threads \ {t} : InCall(w) => On(w) # v
<1>1. Sound(v)
    BY DEF RInv
<1> QED
    BY <1>1 DEF Sound

LEMMA FineBefore ==
    ASSUME NEW v \in Threads, strains[v] \subseteq strains'[v], Fine(v)' PROVE Fine(v)
BY DEF Fine

\* Where a call moves to, and what the others do.
LEMMA Moved ==
    ASSUME RInv, NEW t \in Threads, NEW l \in PCs, Goto(t, l)
    PROVE  /\ pc' \in [Threads -> PCs] /\ pc'[t] = l
           /\ \A w \in Threads \ {t} : pc'[w] = pc[w]
BY DEF RInv, Forms, Goto

----------------------------------------------------------------------------
\* The steps that enter, end or make a call.
LEMMA HeadTurn ==
    ASSUME RInv, NEW t \in Threads, unref_head(t) PROVE RInv'
<1>1. /\ UNCHANGED <<native, strains, call, status>>
      /\ pc[t] = "unref_head" /\ Goto(t, "lua")
      /\ handle' = [handle EXCEPT ![On(t)] = After(call[t].op, @)]
    BY DEF unref_head, lifeVars
<1>2. PICK v \in Threads : v = On(t)
    BY OnThreads
<1>3. PICK op \in {"create", "join", "detach", "gc"} :
            op = call[t].op /\ status[v] # "none" /\ (op = "create" => status[v] = "failed")
    <2>1. Where(t)
        BY DEF RInv
    <2> QED
        BY <1>1, <1>2, <2>1 DEF Where, Unreffing
<1>4. Shaped /\ Shape(handle[v]) /\ handle' = [handle EXCEPT ![v] = After(op, handle[v])]
    BY <1>1, <1>2, <1>3 DEF RInv, Forms, Shaped
<1>5. PICK g : /\ g = After(op, handle[v]) /\ Shape(g) /\ g.ref = handle[v].ref
               /\ (op = "create" => g = handle[v]) /\ (op # "create" => ~g.bound)
    BY <1>4, AfterOf
<1>6. handle' = [handle EXCEPT ![v] = g]
    BY <1>4, <1>5
<1>7. Shaped' /\ handle'[v] = g /\ \A w \in Threads \ {v} : handle'[w] = handle[w]
    BY <1>4, <1>5, <1>6, Altered
<1>8. /\ pc' \in [Threads -> PCs] /\ pc'[t] = "lua"
      /\ \A w \in Threads \ {t} : pc'[w] = pc[w]
    BY <1>1, Moved DEF PCs
<1>9. InCall(t) /\ On(t)' = v /\ \A w \in Threads : On(w)' = On(w) /\ call'[w] = call[w]
    BY <1>1, <1>2 DEF InCall, RefPCs, On
<1>10. Where(t)'
    <2>1. Where(t)
        BY DEF RInv
    <2> QED
        BY <1>1, <1>8, <2>1 DEF Where, Makers, Storing, Unreffing
<1>11. Begun(v)'
    <2>1. Begun(v)
        BY DEF RInv
    <2>2. ASSUME status[v] = "new" PROVE \E w \in Threads : pc'[w] \in Makers /\ On(w)' = v
        <3>1. PICK w \in Threads : pc[w] \in Makers /\ On(w) = v
            BY <2>1, <2>2 DEF Begun
        <3>2. w # t
            BY <1>1, <3>1 DEF Makers, Storing
        <3> QED
            BY <1>8, <1>9, <3>1, <3>2
    <2> QED
        BY <1>1, <1>3, <2>2 DEF Begun
<1>12. ASSUME Fine(v)' PROVE Sound(v)'
    <2>1. Fine(v)
        BY <1>1, <1>12 DEF Fine
    <2>2. Sound(v) /\ \A w \in Threads \ {t} : InCall(w) => On(w) # v
        BY <1>2, <1>9, <2>1, OthersGone
    <2>3. \A w \in Threads \ {t} : InCall(w)' => On(w)' # v
        BY <1>8, <1>9, <2>2 DEF InCall
    <2>4. ~(status'[v] \in {"running", "ended"} /\ Usable(v)')
        <3>1. CASE op = "create"
            BY <1>1, <1>3, <3>1
        <3>2. CASE op # "create"
            BY <1>5, <1>7, <3>2 DEF Usable
        <3> QED
            BY <3>1, <3>2
    <2>5. native'[v] # "misused"
        BY <1>1, <2>2 DEF Sound
    <2> QED
        BY <1>8, <2>3, <2>4, <2>5, SoundAlone
<1>13. /\ strains' \in [Threads -> SUBSET Kinds]
       /\ status' \in [Threads -> {"none", "new", "running"} \cup Finished]
       /\ native' \in [Threads -> {"none", "joinable", "released", "misused"}]
       /\ call' \in [Threads -> Calls]
    BY <1>1 DEF RInv, Forms
<1>14. \A u \in Threads \ {v} :
            /\ native'[u] = native[u] /\ status'[u] = status[u] /\ handle'[u] = handle[u]
            /\ strains'[u] = strains[u]
    BY <1>1, <1>7
<1>15. handle'[v].ref = handle[v].ref /\ status'[v] = status[v] /\ pc'[t] \notin Makers
    BY <1>1, <1>5, <1>7, <1>8 DEF Makers, Storing
<1>16. \A w \in Threads \ {t} :
            /\ call'[w] = call[w]
            /\ \/ pc'[w] = pc[w]
               \/ w = v /\ pc[w] = "idle" /\ pc'[w] = "lua" /\ status'[w] = "running"
    BY <1>8, <1>9
<1>17. InCall(t) => On(t) = v
    BY <1>2
<1> QED
    BY <1>7, <1>8, <1>9, <1>10, <1>11, <1>12, <1>13, <1>14, <1>15, <1>16, <1>17, TurnKeeps

\* A thread that does not exist: nobody is in a call on it.
LEMMA NoneYet ==
    ASSUME RInv, NEW v \in Threads, status[v] = "none"
    PROVE  handle[v] = NoHandle /\ pc[v] = "idle" /\ \A w \in Threads : InCall(w) => On(w) # v
<1>1. Begun(v) /\ Where(v)
    BY DEF RInv
<1> QED
    BY <1>1, Placed DEF Begun, Where

LEMMA CreateTurn ==
    ASSUME RInv, NEW t \in Threads, NEW v \in Threads, thread_create(t, v) PROVE RInv'
<1>1. /\ pc[t] = "lua" /\ status[v] = "none" /\ UNCHANGED native
      /\ handle' = [handle EXCEPT ![v] = NewHandle]
      /\ status' = [status EXCEPT ![v] = "new"]
      /\ call' = [call EXCEPT ![t] = [op |-> "create", on |-> v]]
      /\ Goto(t, "ref_read") /\ Strain(v, Overlap(t))
    BY DEF thread_create
<1>2. Shaped /\ status[t] = "running"
    <2>1. Where(t)
        BY DEF RInv
    <2> QED
        BY <1>1, <2>1 DEF Where, RInv, Forms
<1>3. /\ Shaped' /\ handle'[v] = NewHandle
      /\ \A w \in Threads \ {v} : handle'[w] = handle[w]
    BY <1>1, <1>2, NewShape, Altered
<1>4. /\ pc' \in [Threads -> PCs] /\ pc'[t] = "ref_read"
      /\ \A w \in Threads \ {t} : pc'[w] = pc[w]
    BY <1>1, Moved DEF PCs, RefPCs
<1>5. /\ call' \in [Threads -> Calls] /\ On(t)' = v /\ call'[t].op = "create"
      /\ \A w \in Threads \ {t} : On(w)' = On(w) /\ call'[w] = call[w]
    BY <1>1 DEF RInv, Forms, Calls, On
<1>6. /\ status' \in [Threads -> {"none", "new", "running"} \cup Finished]
      /\ status'[v] = "new" /\ status'[t] = "running"
      /\ \A w \in Threads \ {v} : status'[w] = status[w]
    BY <1>1, <1>2 DEF RInv, Forms
<1>7. \A w \in Threads : InCall(w) => On(w) # v
    BY <1>1, NoneYet
<1>8. ~InCall(t)
    BY <1>1 DEF InCall, RefPCs
<1>9. /\ strains' \in [Threads -> SUBSET Kinds] /\ strains[v] \subseteq strains'[v]
      /\ \A w \in Threads \ {v} : strains'[w] = strains[w]
    <2>1. Overlap(t) \in SUBSET Kinds
        BY DEF Overlap, Kinds
    <2>2. strains \in [Threads -> SUBSET Kinds]
        BY DEF RInv, Forms
    <2> QED
        BY <1>1, <2>1, <2>2, Recorded DEF Strain
<1>10. Where(t)'
    BY <1>4, <1>5, <1>6 DEF Where, Makers, Storing, Unreffing
<1>11. Begun(v)'
    BY <1>4, <1>5, <1>6 DEF Begun, Makers, Storing
<1>12. ASSUME Fine(v)' PROVE Sound(v)'
    <2>1. Sound(v)
        BY <1>9, <1>12, FineBefore, OthersGone
    <2>2. native'[v] # "misused"
        BY <1>1, <2>1 DEF Sound
    <2>3. \A w \in Threads \ {t} : InCall(w)' => On(w)' # v
        BY <1>4, <1>5, <1>7 DEF InCall
    <2> QED
        BY <1>4, <1>6, <2>2, <2>3, SoundAlone
<1>13. /\ native' \in [Threads -> {"none", "joinable", "released", "misused"}]
       /\ \A u \in Threads : native'[u] = native[u]
    BY <1>1 DEF RInv, Forms
<1> QED
    BY <1>1, <1>3, <1>4, <1>5, <1>6, <1>7, <1>8, <1>9, <1>10, <1>11, <1>12, <1>13, TurnKeeps

\* The thread that is made starts to run.
LEMMA StartTurn ==
    ASSUME RInv, NEW t \in Threads, create_start(t) PROVE RInv'
<1>1. pc[t] = "start" /\ UNCHANGED <<handle, call>>
    BY DEF create_start
<1>2. PICK v \in Threads : v = On(t) /\ status[v] = "new"
    <2>1. Where(t)
        BY DEF RInv
    <2> QED
        BY <1>1, <2>1, OnThreads DEF Where, Makers
<1>3. Where(t) /\ Where(v) /\ Begun(v) /\ InCall(t) /\ pc[t] \in Makers
    BY <1>1 DEF RInv, InCall, Makers
<1>4. status[t] = "running" /\ pc[v] = "idle" /\ t # v /\ call[t].op = "create"
    BY <1>1, <1>2, <1>3 DEF Where
<1>5. On(t)' = v /\ \A w \in Threads : On(w)' = On(w) /\ call'[w] = call[w]
    BY <1>1, <1>2 DEF On
<1>6. /\ Shaped' /\ call' \in [Threads -> Calls] /\ \A w \in Threads : handle'[w] = handle[w]
    BY <1>1 DEF RInv, Forms, Shaped
<1>7. CASE Started(t, v, "lua") /\ UNCHANGED strains
    <2>1. /\ pc' \in [Threads -> PCs] /\ pc'[t] = "lua" /\ pc'[v] = "lua"
          /\ \A w \in Threads \ {t, v} : pc'[w] = pc[w]
        BY <1>4, <1>7 DEF Started, RInv, Forms, PCs
    <2>2. /\ status' \in [Threads -> {"none", "new", "running"} \cup Finished]
          /\ status'[v] = "running" /\ \A w \in Threads \ {v} : status'[w] = status[w]
        BY <1>7 DEF Started, RInv, Forms
    <2>3. /\ native' \in [Threads -> {"none", "joinable", "released", "misused"}]
          /\ native'[v] = "joinable" /\ \A w \in Threads \ {v} : native'[w] = native[w]
        BY <1>7 DEF Started, RInv, Forms
    <2>4. strains' \in [Threads -> SUBSET Kinds] /\ strains' = strains
        BY <1>7 DEF RInv, Forms
    <2>5. Where(t)'
        BY <1>4, <2>1, <2>2 DEF Where, Makers, Storing, Unreffing
    <2>6. Begun(v)'
        BY <2>2 DEF Begun
    <2>7. ASSUME Fine(v)' PROVE Sound(v)'
        <3>1. \A w \in Threads \ {t} : InCall(w) => On(w) # v
            BY <1>2, <1>3, <2>4, <2>7, OthersGone DEF Fine
        <3>2. \A w \in Threads \ {t} : InCall(w)' => On(w)' # v
            BY <1>5, <2>1, <3>1 DEF InCall, RefPCs
        <3> QED
            BY <2>1, <2>3, <3>2, SoundAlone
    <2>8. \A w \in Threads \ {t} :
            /\ call'[w] = call[w]
            /\ \/ pc'[w] = pc[w]
               \/ w = v /\ pc[w] = "idle" /\ pc'[w] = "lua" /\ status'[w] = "running"
        BY <1>4, <1>5, <2>1, <2>2
    <2>9. pc'[t] \notin Makers
        BY <2>1 DEF Makers, Storing
    <2> QED
        BY <1>2, <1>3, <1>5, <1>6, <2>1, <2>2, <2>3, <2>4, <2>5, <2>6, <2>7, <2>8, <2>9, TurnKeeps
<1>8. CASE /\ status' = [status EXCEPT ![v] = "failed"] /\ Goto(t, "unref_read")
           /\ Strain(v, Overlap(t)) /\ UNCHANGED native
    <2>1. /\ pc' \in [Threads -> PCs] /\ pc'[t] = "unref_read"
          /\ \A w \in Threads \ {t} : pc'[w] = pc[w]
        BY <1>8, Moved DEF PCs, RefPCs
    <2>2. /\ status' \in [Threads -> {"none", "new", "running"} \cup Finished]
          /\ status'[v] = "failed" /\ \A w \in Threads \ {v} : status'[w] = status[w]
        BY <1>8 DEF RInv, Forms, Finished
    <2>3. /\ native' \in [Threads -> {"none", "joinable", "released", "misused"}]
          /\ \A w \in Threads : native'[w] = native[w]
        BY <1>8 DEF RInv, Forms
    <2>4. /\ strains' \in [Threads -> SUBSET Kinds] /\ strains[v] \subseteq strains'[v]
          /\ \A w \in Threads \ {v} : strains'[w] = strains[w]
        <3>1. Overlap(t) \in SUBSET Kinds
            BY DEF Overlap, Kinds
        <3>2. strains \in [Threads -> SUBSET Kinds]
            BY DEF RInv, Forms
        <3> QED
            BY <1>8, <3>1, <3>2, Recorded DEF Strain
    <2>5. Where(t)'
        <3>1. pc'[t] \notin Makers /\ status'[t] = "running" /\ call'[t].op = "create"
            BY <1>4, <1>5, <2>1, <2>2 DEF Makers, Storing
        <3> QED
            BY <1>5, <2>1, <2>2, <3>1 DEF Where
    <2>6. Begun(v)'
        BY <2>2 DEF Begun
    <2>7. ASSUME Fine(v)' PROVE Sound(v)'
        <3>1. Sound(v) /\ \A w \in Threads \ {t} : InCall(w) => On(w) # v
            BY <1>2, <1>3, <2>4, <2>7, FineBefore, OthersGone
        <3>2. \A w \in Threads \ {t} : InCall(w)' => On(w)' # v
            BY <1>5, <2>1, <3>1 DEF InCall
        <3>3. native'[v] # "misused"
            BY <2>3, <3>1 DEF Sound
        <3> QED
            BY <2>1, <2>2, <3>2, <3>3, SoundAlone
    <2>8. \A w \in Threads \ {t} :
            /\ call'[w] = call[w]
            /\ \/ pc'[w] = pc[w]
               \/ w = v /\ pc[w] = "idle" /\ pc'[w] = "lua" /\ status'[w] = "running"
        BY <1>5, <2>1
    <2>9. pc'[t] \notin Makers
        BY <2>1 DEF Makers, Storing
    <2> QED
        BY <1>2, <1>3, <1>5, <1>6, <2>1, <2>2, <2>3, <2>4, <2>5, <2>6, <2>7, <2>8, <2>9, TurnKeeps
<1> QED
    BY <1>2, <1>7, <1>8 DEF create_start

LEMMA CreatexTurn ==
    ASSUME RInv, NEW t \in Threads, NEW v \in Threads, thread_createx(t, v) PROVE RInv'
<1>1. /\ pc[t] = "lua" /\ status[v] = "none" /\ UNCHANGED <<handle, strains>>
      /\ call' = [call EXCEPT ![t] = [op |-> "createx", on |-> v]]
    BY DEF thread_createx
<1>2. status[t] = "running" /\ t # v
    <2>1. Where(t)
        BY DEF RInv
    <2> QED
        BY <1>1, <2>1 DEF Where
<1>3. /\ handle[v] = NoHandle /\ pc[v] = "idle" /\ \A w \in Threads : InCall(w) => On(w) # v
      /\ ~InCall(t)
    BY <1>1, NoneYet DEF InCall, RefPCs
<1>4. /\ call' \in [Threads -> Calls] /\ On(t)' = v
      /\ \A w \in Threads \ {t} : On(w)' = On(w) /\ call'[w] = call[w]
    BY <1>1 DEF RInv, Forms, Calls, On
<1>5. /\ Shaped' /\ strains' \in [Threads -> SUBSET Kinds]
      /\ \A w \in Threads : handle'[w] = handle[w] /\ strains'[w] = strains[w]
    BY <1>1 DEF RInv, Forms, Shaped
<1>6. ASSUME Fine(v)' PROVE native[v] # "misused"
    <2>1. Fine(v)
        BY <1>5, <1>6 DEF Fine
    <2> QED
        BY <2>1 DEF RInv, Sound
<1>7. CASE Started(t, v, "xjoin")
    <2>1. /\ pc' \in [Threads -> PCs] /\ pc'[t] = "xjoin" /\ pc'[v] = "lua"
          /\ \A w \in Threads \ {t, v} : pc'[w] = pc[w]
        BY <1>2, <1>7 DEF Started, RInv, Forms, PCs
    <2>2. /\ status' \in [Threads -> {"none", "new", "running"} \cup Finished]
          /\ status'[v] = "running" /\ \A w \in Threads \ {v} : status'[w] = status[w]
        BY <1>7 DEF Started, RInv, Forms
    <2>3. /\ native' \in [Threads -> {"none", "joinable", "released", "misused"}]
          /\ native'[v] = "joinable" /\ \A w \in Threads \ {v} : native'[w] = native[w]
        BY <1>7 DEF Started, RInv, Forms
    <2>4. handle'[v].ref = 0
        BY <1>3, <1>5, NewShape
    <2>5. pc'[t] \notin Makers /\ pc'[t] \notin Unreffing
        BY <2>1 DEF Makers, Storing, Unreffing
    <2>6. Where(t)'
        BY <1>2, <1>4, <2>1, <2>2, <2>4, <2>5 DEF Where
    <2>7. Begun(v)'
        BY <2>2 DEF Begun
    <2>8. \A w \in Threads \ {t} : InCall(w)' => On(w)' # v
        BY <1>3, <1>4, <2>1 DEF InCall, RefPCs
    <2>9. Fine(v)' => Sound(v)'
        BY <2>1, <2>3, <2>8, SoundAlone
    <2>10. \A w \in Threads \ {t} :
            /\ call'[w] = call[w]
            /\ \/ pc'[w] = pc[w]
               \/ w = v /\ pc[w] = "idle" /\ pc'[w] = "lua" /\ status'[w] = "running"
        BY <1>3, <1>4, <2>1, <2>2
    <2> QED
        BY <1>1, <1>3, <1>4, <1>5, <2>1, <2>2, <2>3, <2>5, <2>6, <2>7, <2>9, <2>10, TurnKeeps
<1>8. CASE status' = [status EXCEPT ![v] = "failed"] /\ UNCHANGED <<native, pc>>
    <2>1. pc' \in [Threads -> PCs] /\ pc'[t] = "lua" /\ \A w \in Threads : pc'[w] = pc[w]
        BY <1>1, <1>8 DEF RInv, Forms
    <2>2. /\ status' \in [Threads -> {"none", "new", "running"} \cup Finished]
          /\ status'[v] = "failed" /\ \A w \in Threads \ {v} : status'[w] = status[w]
        BY <1>8 DEF RInv, Forms, Finished
    <2>3. /\ native' \in [Threads -> {"none", "joinable", "released", "misused"}]
          /\ \A w \in Threads : native'[w] = native[w]
        BY <1>8 DEF RInv, Forms
    <2>5. pc'[t] \notin Makers /\ pc'[t] \notin Unreffing
        BY <2>1 DEF Makers, Storing, Unreffing
    <2>6. Where(t)'
        BY <1>2, <2>1, <2>2, <2>5 DEF Where
    <2>7. Begun(v)'
        BY <2>2 DEF Begun
    <2>8. \A w \in Threads \ {t} : InCall(w)' => On(w)' # v
        BY <1>3, <1>4, <2>1 DEF InCall
    <2>9. Fine(v)' => Sound(v)'
        BY <1>6, <2>1, <2>2, <2>3, <2>8, SoundAlone
    <2>10. \A w \in Threads \ {t} :
            /\ call'[w] = call[w]
            /\ \/ pc'[w] = pc[w]
               \/ w = v /\ pc[w] = "idle" /\ pc'[w] = "lua" /\ status'[w] = "running"
        BY <1>4, <2>1
    <2> QED
        BY <1>1, <1>3, <1>4, <1>5, <2>1, <2>2, <2>3, <2>5, <2>6, <2>7, <2>9, <2>10, TurnKeeps
<1> QED
    BY <1>7, <1>8 DEF thread_createx

LEMMA CreatexJoinedTurn ==
    ASSUME RInv, NEW t \in Threads, createx_joined(t) PROVE RInv'
<1>1. /\ pc[t] = "xjoin" /\ status[On(t)] = "ended" /\ native' = Release(On(t)) /\ Goto(t, "lua")
      /\ UNCHANGED <<status, handle, call, strains>>
    BY DEF createx_joined
<1>2. PICK v \in Threads : v = On(t)
    BY OnThreads
<1>3. /\ Where(t) /\ InCall(t) /\ status[v] = "ended"
    BY <1>1, <1>2 DEF RInv, InCall
<1>4. /\ pc' \in [Threads -> PCs] /\ pc'[t] = "lua" /\ \A w \in Threads \ {t} : pc'[w] = pc[w]
    BY <1>1, Moved DEF PCs
<1>5. On(t)' = v /\ \A w \in Threads : On(w)' = On(w) /\ call'[w] = call[w]
    BY <1>1, <1>2 DEF On
<1>6. /\ Shaped' /\ call' \in [Threads -> Calls] /\ strains' \in [Threads -> SUBSET Kinds]
      /\ status' \in [Threads -> {"none", "new", "running"} \cup Finished]
      /\ \A w \in Threads : /\ handle'[w] = handle[w] /\ strains'[w] = strains[w]
                            /\ status'[w] = status[w]
    BY <1>1 DEF RInv, Forms, Shaped
<1>7. /\ native' \in [Threads -> {"none", "joinable", "released", "misused"}]
      /\ \A w \in Threads \ {v} : native'[w] = native[w]
      /\ native[v] = "joinable" => native'[v] = "released"
    BY <1>1, <1>2 DEF Release, RInv, Forms
<1>8. pc'[t] \notin Makers /\ pc'[t] \notin Unreffing
    BY <1>4 DEF Makers, Storing, Unreffing
<1>9. Where(t)'
    BY <1>1, <1>3, <1>4, <1>6, <1>8 DEF Where
<1>10. Begun(v)'
    BY <1>3, <1>6 DEF Begun
<1>11. ASSUME Fine(v)' PROVE Sound(v)'
    <2>1. Fine(v)
        BY <1>6, <1>11 DEF Fine
    <2>2. Sound(v) /\ \A w \in Threads \ {t} : InCall(w) => On(w) # v
        BY <1>2, <1>3, <2>1, OthersGone
    <2>3. native'[v] = "released"
        BY <1>1, <1>2, <1>7, <2>2 DEF Sound
    <2>4. \A w \in Threads \ {t} : InCall(w)' => On(w)' # v
        BY <1>4, <1>5, <2>2 DEF InCall
    <2>5. ~(Usable(v)' /\ handle'[v].ref # 0)
        BY <1>1, <1>2, <1>3, <1>6 DEF Where
    <2> QED
        BY <1>4, <2>3, <2>4, <2>5, SoundAlone
<1>12. \A w \in Threads \ {t} :
            /\ call'[w] = call[w]
            /\ \/ pc'[w] = pc[w]
               \/ w = v /\ pc[w] = "idle" /\ pc'[w] = "lua" /\ status'[w] = "running"
    BY <1>4, <1>5
<1> QED
    BY <1>2, <1>4, <1>5, <1>6, <1>7, <1>8, <1>9, <1>10, <1>11, <1>12, TurnKeeps

\* t begins to join, detach or finalise a handle that the checks let pass.
LEMMA Entered ==
    ASSUME RInv, NEW t \in Threads, NEW v \in Threads, pc[t] = "lua", Usable(v)
    PROVE  /\ ~InCall(t) /\ status[t] = "running" /\ status[v] # "none"
           /\ status[v] = "new" => \E w \in Threads \ {t} : pc[w] \in Makers /\ On(w) = v
           /\ Fine(v) /\ Misuse(t, v) \cap {"together", "fail", "self"} = {} =>
                /\ native[v] = "joinable" /\ handle[v].ref # 0
                /\ \A w \in Threads \ {t} : InCall(w) => On(w) # v
<1>1. ~InCall(t) /\ Where(t) /\ Begun(v) /\ pc[t] \notin Makers
    BY DEF RInv, InCall, RefPCs, Makers, Storing
<1>2. status[t] = "running"
    BY <1>1 DEF Where
<1>3. status[v] # "none"
    BY <1>1, NewShape DEF Begun, Usable
<1>4. status[v] = "new" => \E w \in Threads \ {t} : pc[w] \in Makers /\ On(w) = v
    BY <1>1 DEF Begun
<1>5. ASSUME Fine(v), Misuse(t, v) \cap {"together", "fail", "self"} = {}
      PROVE  /\ native[v] = "joinable" /\ handle[v].ref # 0
             /\ \A w \in Threads \ {t} : InCall(w) => On(w) # v
    <2>1. \A w \in Threads \ {t} : ~(InCall(w) /\ On(w) = v)
        BY <1>5 DEF Misuse
    <2>2. status[v] # "failed" /\ handle[v].ref # 0
        BY <1>5 DEF Misuse, LUA_NOREF
    <2>3. status[v] # "new"
        BY <1>4, <2>1, Placed
    <2>4. status[v] \in {"running", "ended"}
        BY <1>3, <2>2, <2>3 DEF RInv, Forms, Finished
    <2>5. ~Letting(v)
        BY <1>1, <2>1, Placed DEF Letting
    <2>6. Sound(v)
        BY <1>5 DEF RInv
    <2> QED
        BY <2>1, <2>2, <2>4, <2>5, <2>6 DEF Sound
<1> QED
    BY <1>1, <1>2, <1>3, <1>4, <1>5

LEMMA JoinTurn ==
    ASSUME RInv, NEW t \in Threads, NEW v \in Threads, thread_join(t, v) PROVE RInv'
<1>1. /\ pc[t] = "lua" /\ Usable(v) /\ Goto(t, "join") /\ Strain(v, Misuse(t, v))
      /\ call' = [call EXCEPT ![t] = [op |-> "join", on |-> v]]
      /\ UNCHANGED <<status, native, handle>>
    BY DEF thread_join, lifeVars
<1>2. /\ ~InCall(t) /\ status[t] = "running" /\ status[v] # "none"
      /\ status[v] = "new" => \E w \in Threads \ {t} : pc[w] \in Makers /\ On(w) = v
    BY <1>1, Entered
<1>3. /\ pc' \in [Threads -> PCs] /\ pc'[t] = "join" /\ \A w \in Threads \ {t} : pc'[w] = pc[w]
    BY <1>1, Moved DEF PCs
<1>4. /\ call' \in [Threads -> Calls] /\ On(t)' = v /\ call'[t].op = "join"
      /\ \A w \in Threads \ {t} : On(w)' = On(w) /\ call'[w] = call[w]
    BY <1>1 DEF RInv, Forms, Calls, On
<1>5. /\ Shaped' /\ status' \in [Threads -> {"none", "new", "running"} \cup Finished]
      /\ native' \in [Threads -> {"none", "joinable", "released", "misused"}]
      /\ \A w \in Threads : /\ handle'[w] = handle[w] /\ native'[w] = native[w]
                            /\ status'[w] = status[w]
    BY <1>1 DEF RInv, Forms, Shaped
<1>6. /\ strains' \in [Threads -> SUBSET Kinds] /\ strains[v] \subseteq strains'[v]
      /\ Misuse(t, v) \subseteq strains'[v]
      /\ \A w \in Threads \ {v} : strains'[w] = strains[w]
    <2>1. Misuse(t, v) \in SUBSET Kinds
        BY DEF Misuse, Kinds
    <2>2. strains \in [Threads -> SUBSET Kinds]
        BY DEF RInv, Forms
    <2> QED
        BY <1>1, <2>1, <2>2, Recorded DEF Strain
<1>7. pc'[t] \notin Makers /\ pc'[t] \notin Unreffing
    BY <1>3 DEF Makers, Storing, Unreffing
<1>8. Where(t)'
    BY <1>2, <1>3, <1>4, <1>5, <1>7 DEF Where
<1>9. Begun(v)'
    <2>1. ASSUME status[v] = "new" PROVE \E w \in Threads : pc'[w] \in Makers /\ On(w)' = v
        BY <1>2, <1>3, <1>4, <2>1
    <2> QED
        BY <1>2, <1>5, <2>1 DEF Begun
<1>10. ASSUME Fine(v)' PROVE Sound(v)'
    <2>1. Fine(v) /\ Misuse(t, v) \cap {"together", "fail", "self"} = {}
        BY <1>6, <1>10 DEF Fine
    <2>2. /\ native[v] = "joinable"
          /\ \A w \in Threads \ {t} : InCall(w) => On(w) # v
        BY <1>1, <2>1, Entered
    <2>3. \A w \in Threads \ {t} : InCall(w)' => On(w)' # v
        BY <1>3, <1>4, <2>2 DEF InCall
    <2>4. Usable(v)' /\ native'[v] = "joinable"
        BY <1>1, <1>5, <2>2 DEF Usable
    <2> QED
        BY <2>3, <2>4, SoundAlone
<1>11. \A w \in Threads \ {t} :
            /\ call'[w] = call[w]
            /\ \/ pc'[w] = pc[w]
               \/ w = v /\ pc[w] = "idle" /\ pc'[w] = "lua" /\ status'[w] = "running"
    BY <1>3, <1>4
<1> QED
    BY <1>2, <1>3, <1>4, <1>5, <1>6, <1>7, <1>8, <1>9, <1>10, <1>11, TurnKeeps

LEMMA JoinedTurn ==
    ASSUME RInv, NEW t \in Threads, joined(t) PROVE RInv'
<1>1. /\ pc[t] = "join" /\ status[On(t)] \in Finished /\ native' = Release(On(t))
      /\ Goto(t, "unref_read") /\ Strain(On(t), Overlap(t)) /\ UNCHANGED <<status, call>>
      /\ handle' = [handle EXCEPT ![On(t)].joined = TRUE]
    BY DEF joined
<1>2. PICK v \in Threads : v = On(t)
    BY OnThreads
<1>3. /\ InCall(t) /\ status[v] \in Finished /\ status[t] = "running" /\ call[t].op = "join"
    <2>1. Where(t)
        BY DEF RInv
    <2> QED
        BY <1>1, <1>2, <2>1 DEF Where, InCall
<1>4. /\ pc' \in [Threads -> PCs] /\ pc'[t] = "unref_read"
      /\ \A w \in Threads \ {t} : pc'[w] = pc[w]
    BY <1>1, Moved DEF PCs, RefPCs
<1>5. On(t)' = v /\ \A w \in Threads : On(w)' = On(w) /\ call'[w] = call[w]
    BY <1>1, <1>2 DEF On
<1>6. /\ call' \in [Threads -> Calls]
      /\ status' \in [Threads -> {"none", "new", "running"} \cup Finished]
      /\ \A w \in Threads : status'[w] = status[w]
    BY <1>1 DEF RInv, Forms
<1>7. /\ native' \in [Threads -> {"none", "joinable", "released", "misused"}]
      /\ \A w \in Threads \ {v} : native'[w] = native[w]
      /\ native[v] = "joinable" => native'[v] = "released"
    BY <1>1, <1>2 DEF Release, RInv, Forms
<1>8. /\ Shaped' /\ handle'[v].ref = handle[v].ref /\ ~Usable(v)'
      /\ \A w \in Threads \ {v} : handle'[w] = handle[w]
    <2>1. Shaped /\ Shape(handle[v])
        BY DEF RInv, Forms, Shaped
    <2>2. PICK g : /\ g = [handle[v] EXCEPT !.joined = TRUE] /\ Shape(g)
                   /\ g.detached = handle[v].detached
                   /\ g.bound = handle[v].bound /\ g.joined = TRUE /\ g.ref = handle[v].ref
        BY <2>1, JoinedOf
    <2>3. handle' = [handle EXCEPT ![v] = g]
        BY <1>1, <1>2, <2>1, <2>2 DEF Shaped
    <2>4. Shaped' /\ handle'[v] = g /\ \A w \in Threads \ {v} : handle'[w] = handle[w]
        BY <2>1, <2>2, <2>3, Altered
    <2> QED
        BY <2>2, <2>4 DEF Usable
<1>9. /\ strains' \in [Threads -> SUBSET Kinds] /\ strains[v] \subseteq strains'[v]
      /\ \A w \in Threads \ {v} : strains'[w] = strains[w]
    <2>1. Overlap(t) \in SUBSET Kinds
        BY DEF Overlap, Kinds
    <2>2. strains \in [Threads -> SUBSET Kinds]
        BY DEF RInv, Forms
    <2> QED
        BY <1>1, <1>2, <2>1, <2>2, Recorded DEF Strain
<1>10. pc'[t] \notin Makers
    BY <1>4 DEF Makers, Storing
<1>11. Where(t)'
    <2>1. /\ status'[t] = "running" /\ call'[t].op = "join" /\ status'[On(t)'] # "none"
        BY <1>3, <1>5, <1>6 DEF Finished
    <2> QED
        BY <1>4, <1>10, <2>1 DEF Where
<1>12. Begun(v)'
    BY <1>3, <1>6 DEF Begun, Finished
<1>13. ASSUME Fine(v)' PROVE Sound(v)'
    <2>1. Fine(v)
        BY <1>9, <1>13, FineBefore
    <2>2. Sound(v) /\ \A w \in Threads \ {t} : InCall(w) => On(w) # v
        BY <1>2, <1>3, <2>1, OthersGone
    <2>3. native'[v] = "released"
        BY <1>1, <1>2, <1>7, <2>2 DEF Sound
    <2>4. \A w \in Threads \ {t} : InCall(w)' => On(w)' # v
        BY <1>4, <1>5, <2>2 DEF InCall
    <2> QED
        BY <1>4, <1>8, <2>3, <2>4, SoundAlone
<1>14. \A w \in Threads \ {t} :
            /\ call'[w] = call[w]
            /\ \/ pc'[w] = pc[w]
               \/ w = v /\ pc[w] = "idle" /\ pc'[w] = "lua" /\ status'[w] = "running"
    BY <1>4, <1>5
<1> QED
    BY <1>2, <1>4, <1>5, <1>6, <1>7, <1>8, <1>9, <1>10, <1>11, <1>12, <1>13, <1>14, TurnKeeps

\* detach, and __gc of a handle that nobody has joined or detached.
LEMMA GoTurn ==
    ASSUME RInv, NEW t \in Threads, NEW v \in Threads, NEW op \in {"detach", "gc"},
           pc[t] = "lua", Usable(v), Let_go(t, v, op), UNCHANGED status,
           Strain(v, Overlap(t) \cup Misuse(t, v) \cup Loss(v))
    PROVE  RInv'
<1>1. /\ ~InCall(t) /\ status[t] = "running" /\ status[v] # "none"
      /\ status[v] = "new" => \E w \in Threads \ {t} : pc[w] \in Makers /\ On(w) = v
    BY Entered
<1>2. /\ native' = Release(v)
      /\ call' = [call EXCEPT ![t] = [op |-> op, on |-> v]]
      /\ Goto(t, IF handle[v].ref = 0 THEN "lua" ELSE "unref_read")
      /\ handle' = [handle EXCEPT ![v] = IF handle[v].ref = 0 THEN After(op, @) ELSE @]
    BY DEF Let_go, LUA_NOREF
<1>3. /\ pc' \in [Threads -> PCs] /\ pc'[t] \in {"lua", "unref_read"}
      /\ handle[v].ref # 0 => pc'[t] = "unref_read"
      /\ \A w \in Threads \ {t} : pc'[w] = pc[w]
    BY <1>2, Moved DEF PCs, RefPCs
<1>4. /\ call' \in [Threads -> Calls] /\ On(t)' = v /\ call'[t].op = op
      /\ \A w \in Threads \ {t} : On(w)' = On(w) /\ call'[w] = call[w]
    BY <1>2 DEF RInv, Forms, Calls, On
<1>5. /\ status' \in [Threads -> {"none", "new", "running"} \cup Finished]
      /\ \A w \in Threads : status'[w] = status[w]
    BY DEF RInv, Forms
<1>6. /\ native' \in [Threads -> {"none", "joinable", "released", "misused"}]
      /\ \A w \in Threads \ {v} : native'[w] = native[w]
      /\ native[v] = "joinable" => native'[v] = "released"
    BY <1>2 DEF Release, RInv, Forms
<1>7. /\ Shaped' /\ handle'[v].ref = handle[v].ref
      /\ \A w \in Threads \ {v} : handle'[w] = handle[w]
    <2>1. Shaped /\ Shape(handle[v])
        BY DEF RInv, Forms, Shaped
    <2>2. CASE handle[v].ref = 0
        <3>1. PICK g : /\ g = After(op, handle[v]) /\ Shape(g) /\ g.ref = handle[v].ref
                       /\ (op = "create" => g = handle[v]) /\ (op # "create" => ~g.bound)
            BY <2>1, AfterOf
        <3>2. handle' = [handle EXCEPT ![v] = g]
            BY <1>2, <2>1, <2>2, <3>1 DEF Shaped
        <3>3. Shaped' /\ handle'[v] = g /\ \A w \in Threads \ {v} : handle'[w] = handle[w]
            BY <2>1, <3>1, <3>2, Altered
        <3> QED
            BY <3>1, <3>3
    <2>3. CASE handle[v].ref # 0
        <3>1. handle' = [handle EXCEPT ![v] = handle[v]]
            BY <1>2, <2>1, <2>3 DEF Shaped
        <3>2. /\ Shaped' /\ handle'[v] = handle[v]
              /\ \A w \in Threads \ {v} : handle'[w] = handle[w]
            BY <2>1, <3>1, Altered
        <3> QED
            BY <3>2
    <2> QED
        BY <2>2, <2>3
<1>8. /\ strains' \in [Threads -> SUBSET Kinds] /\ strains[v] \subseteq strains'[v]
      /\ Misuse(t, v) \subseteq strains'[v]
      /\ \A w \in Threads \ {v} : strains'[w] = strains[w]
    <2>1. Overlap(t) \cup Misuse(t, v) \cup Loss(v) \in SUBSET Kinds
        BY DEF Overlap, Misuse, Loss, Kinds
    <2>2. strains \in [Threads -> SUBSET Kinds]
        BY DEF RInv, Forms
    <2> QED
        BY <2>1, <2>2, Recorded DEF Strain
<1>9. pc'[t] \notin Makers
    BY <1>3 DEF Makers, Storing
<1>10. Where(t)'
    <2>1. /\ status'[t] = "running" /\ call'[t].op = op /\ status'[On(t)'] # "none"
        BY <1>1, <1>4, <1>5
    <2> QED
        BY <1>3, <1>9, <2>1 DEF Where
<1>11. Begun(v)'
    <2>1. ASSUME status[v] = "new" PROVE \E w \in Threads : pc'[w] \in Makers /\ On(w)' = v
        BY <1>1, <1>3, <1>4, <2>1
    <2> QED
        BY <1>1, <1>5, <2>1 DEF Begun
<1>12. ASSUME Fine(v)' PROVE Sound(v)'
    <2>1. Fine(v) /\ Misuse(t, v) \cap {"together", "fail", "self"} = {}
        BY <1>8, <1>12 DEF Fine
    <2>2. /\ native[v] = "joinable" /\ handle[v].ref # 0
          /\ \A w \in Threads \ {t} : InCall(w) => On(w) # v
        BY <2>1, Entered
    <2>3. \A w \in Threads \ {t} : InCall(w)' => On(w)' # v
        BY <1>3, <1>4, <2>2 DEF InCall
    <2>4. native'[v] = "released" /\ pc'[t] = "unref_read"
        BY <1>3, <1>6, <2>2
    <2>5. Letting(v)'
        BY <1>4, <2>4 DEF Letting, Unreffing
    <2> QED
        BY <2>3, <2>4, <2>5, SoundAlone
<1>13. \A w \in Threads \ {t} :
            /\ call'[w] = call[w]
            /\ \/ pc'[w] = pc[w]
               \/ w = v /\ pc[w] = "idle" /\ pc'[w] = "lua" /\ status'[w] = "running"
    BY <1>3, <1>4
<1> QED
    BY <1>1, <1>3, <1>4, <1>5, <1>6, <1>7, <1>8, <1>9, <1>10, <1>11, <1>12, <1>13, TurnKeeps

LEMMA CollectTurn ==
    ASSUME RInv, NEW t \in Threads, NEW v \in Threads, thread_gc(t, v) PROVE RInv'
<1>1. CASE Usable(v) /\ Let_go(t, v, "gc") /\ Strain(v, Overlap(t) \cup Misuse(t, v) \cup Loss(v))
    BY <1>1, GoTurn DEF thread_gc
<1>2. CASE /\ handle' = [handle EXCEPT ![v].exists = "freed"]
           /\ UNCHANGED <<native, call, pc, strains>>
    <2>1. handle[v].exists = "yes" /\ UNCHANGED status
        BY DEF thread_gc
    <2>2. Shaped /\ Shape(handle[v]) /\ Begun(v)
        BY DEF RInv, Forms, Shaped
    <2>3. PICK g : /\ g = [handle[v] EXCEPT !.exists = "freed"] /\ Shape(g)
                   /\ g.detached = handle[v].detached
                   /\ g.bound = handle[v].bound /\ g.joined = handle[v].joined
                   /\ g.ref = handle[v].ref
        BY <2>2, ExistsOf
    <2>4. handle' = [handle EXCEPT ![v] = g]
        BY <1>2, <2>2, <2>3 DEF Shaped
    <2>5. Shaped' /\ handle'[v] = g /\ \A w \in Threads \ {v} : handle'[w] = handle[w]
        BY <2>2, <2>3, <2>4, Altered
    <2>6. status[v] # "none"
        BY <2>1, <2>2, NewShape DEF Begun
    <2>7. \A u \in Threads :
            /\ handle'[u].bound = handle[u].bound /\ handle'[u].joined = handle[u].joined
            /\ handle'[u].detached = handle[u].detached /\ handle'[u].ref = handle[u].ref
            /\ status[u] = "none" => handle'[u] = handle[u]
        BY <2>3, <2>5, <2>6
    <2>8. /\ status' \in [Threads -> {"none", "new", "running"} \cup Finished]
          /\ pc' \in [Threads -> PCs]
          /\ \A u \in Threads : status'[u] = status[u] /\ pc'[u] = pc[u]
        BY <1>2, <2>1 DEF RInv, Forms
    <2>9. UNCHANGED <<native, strains, call>>
        BY <1>2
    <2> QED
        BY <2>5, <2>7, <2>8, <2>9, QuietKeeps
<1> QED
    BY <1>1, <1>2 DEF thread_gc

\* thread.self.
LEMMA SelfTurn ==
    ASSUME RInv, NEW t \in Threads, thread_self(t) PROVE RInv'
<1>1. UNCHANGED <<native, strains, call, status, pc>> /\ pc[t] = "lua"
    BY DEF thread_self, lifeVars
<1>2. CASE UNCHANGED handle
    <2>1. /\ Shaped' /\ pc' \in [Threads -> PCs]
          /\ status' \in [Threads -> {"none", "new", "running"} \cup Finished]
        BY <1>1, <1>2 DEF RInv, Forms, Shaped
    <2> QED
        BY <1>1, <1>2, <2>1, QuietKeeps
<1>3. CASE handle' = [handle EXCEPT ![t] = NewHandle]
    <2>1. Shaped
        BY DEF RInv, Forms
    <2>2. /\ Shaped' /\ handle'[t] = NewHandle
          /\ \A w \in Threads \ {t} : handle'[w] = handle[w]
        BY <1>3, <2>1, NewShape, Altered
    <2>3. handle'[t].ref = 0 /\ Usable(t)'
        BY <2>2 DEF NewHandle, NoHandle, Usable
    <2>4. \A w \in Threads :
            /\ On(w)' = On(w) /\ On(w) \in Threads /\ pc'[w] = pc[w] /\ status'[w] = status[w]
            /\ call'[w] = call[w] /\ native'[w] = native[w] /\ strains'[w] = strains[w]
        BY <1>1, OnThreads DEF On
    <2>5. Forms'
        <3>1. /\ strains' \in [Threads -> SUBSET Kinds]
              /\ status' \in [Threads -> {"none", "new", "running"} \cup Finished]
              /\ native' \in [Threads -> {"none", "joinable", "released", "misused"}]
              /\ pc' \in [Threads -> PCs]
              /\ call' \in [Threads -> Calls]
            BY <1>1 DEF RInv, Forms
        <3>2. \A w, x \in Threads : pc'[w] \in Makers /\ pc'[x] \in Makers /\ On(w)' = On(x)' => w = x
            BY <2>4 DEF RInv, Forms
        <3> QED
            BY <2>2, <3>1, <3>2 DEF Forms
    <2>6. ASSUME NEW w \in Threads PROVE Where(w)'
        <3>1. Where(w)
            BY DEF RInv
        <3>2. handle[On(w)].ref = 0 => handle'[On(w)].ref = 0
            BY <2>2, <2>3, <2>4
        <3> QED
            BY <2>4, <3>1, <3>2 DEF Where
    <2>7. ASSUME NEW u \in Threads \ {t} PROVE Begun(u)' /\ (Fine(u)' => Sound(u)')
        <3>1. /\ native'[u] = native[u] /\ strains[u] \subseteq strains'[u]
              /\ status'[u] = status[u] /\ handle'[u] = handle[u]
            BY <2>2, <2>4
        <3>2. \A w \in Threads : On(w)' = On(w) /\ pc'[w] = pc[w]
            BY <2>4
        <3> QED
            BY <3>1, <3>2, Elsewhere
    <2>8. Begun(t)'
        <3>1. Where(t)
            BY DEF RInv
        <3>2. status'[t] = "running"
            BY <1>1, <3>1 DEF Where
        <3> QED
            BY <3>2 DEF Begun
    <2>9. ASSUME Fine(t)' PROVE Sound(t)'
        <3>1. Fine(t)
            BY <2>4, <2>9 DEF Fine
        <3>2. Sound(t)
            BY <3>1 DEF RInv
        <3>3. \A w \in Threads : InCall(w)' <=> InCall(w)
            BY <2>4 DEF InCall
        <3>4. /\ native'[t] # "misused"
              /\ \A w, x \in Threads : InCall(w)' /\ On(w)' = t /\ InCall(x)' /\ On(x)' = t => w = x
            BY <2>4, <3>2, <3>3 DEF Sound
        <3>5. \A w \in Threads : On(w)' = t =>
                /\ pc'[w] = "xjoin" => native'[t] = "joinable"
                /\ pc'[w] = "join" => Usable(t)' /\ native'[t] = "joinable"
            BY <2>3, <2>4, <3>2 DEF Sound
        <3> QED
            BY <2>3, <3>4, <3>5 DEF Sound
    <2>10. \A w \in Threads : Where(w)' /\ Begun(w)' /\ (Fine(w)' => Sound(w)')
        BY <2>6, <2>7, <2>8, <2>9
    <2> QED
        BY <2>5, <2>10 DEF RInv
<1> QED
    BY <1>2, <1>3 DEF thread_self

----------------------------------------------------------------------------
LEMMA RInvInit == ASSUME Init PROVE RInv
<1>1. Shaped
    <2>1. handle = [u \in Threads |-> NoHandle]
        BY DEF Init
    <2>2. \A u \in Threads : handle[u] = NoHandle
        BY <2>1
    <2>3. handle = [u \in Threads |-> handle[u]]
        BY <2>1, <2>2
    <2> QED
        BY <2>2, <2>3, NewShape DEF Shaped
<1>2. Main \in Threads
    BY HandleAssumption
<1>3. \A t \in Threads :
        /\ pc[t] \in {"idle", "lua"} /\ (pc[t] # "idle" => status[t] = "running")
        /\ status[t] = "none" => handle[t] = NoHandle
        /\ status[t] \in {"none", "running"} /\ native[t] # "misused"
        /\ ~handle[t].bound \/ handle[t].ref = 0
    BY DEF Init, NoHandle
<1>4. \A t \in Threads : pc[t] \notin Makers /\ pc[t] \notin Unreffing /\ ~InCall(t)
    BY <1>3 DEF Makers, Storing, Unreffing, InCall, RefPCs
<1>5. /\ strains \in [Threads -> SUBSET Kinds]
      /\ status \in [Threads -> {"none", "new", "running"} \cup Finished]
      /\ native \in [Threads -> {"none", "joinable", "released", "misused"}]
      /\ pc \in [Threads -> PCs]
      /\ call \in [Threads -> Calls]
    BY <1>2 DEF Init, PCs, Calls
<1>6. Forms
    BY <1>1, <1>4, <1>5 DEF Forms
<1>7. ASSUME NEW t \in Threads PROVE Where(t) /\ Begun(t) /\ Sound(t)
    <2>1. Where(t)
        BY <1>3, <1>4 DEF Where
    <2>2. Begun(t)
        BY <1>3 DEF Begun
    <2>3. ~(Usable(t) /\ handle[t].ref # 0)
        BY <1>3 DEF Usable
    <2>4. \A w \in Threads : pc[w] # "join" /\ pc[w] # "xjoin"
        BY <1>3
    <2>5. Sound(t)
        BY <1>3, <1>4, <2>3, <2>4 DEF Sound
    <2> QED
        BY <2>1, <2>2, <2>5
<1> QED
    BY <1>6, <1>7 DEF RInv

LEMMA RInvStep == ASSUME RInv, [Next]_vars PROVE RInv'
<1>1. ASSUME NEW t \in Threads, Step(t) PROVE RInv'
    <2>1. CASE \/ ref_read(t) \/ ref_init(t) \/ ref_next(t) \/ ref_head(t) \/ ref_len(t)
               \/ unref_read(t) \/ unref_link(t)
        BY <2>1, WalksQuiet
    <2>2. CASE ref_store(t)
        BY <2>2, StoreQuiet
    <2>3. CASE unref_head(t)
        BY <2>3, HeadTurn
    <2>4. CASE create_start(t)
        BY <2>4, StartTurn
    <2>5. CASE createx_joined(t)
        BY <2>5, CreatexJoinedTurn
    <2>6. CASE joined(t)
        BY <2>6, JoinedTurn
    <2>7. CASE report(t)
        BY <2>7, EndsQuiet
    <2> QED
        BY <1>1, <2>1, <2>2, <2>3, <2>4, <2>5, <2>6, <2>7 DEF Step
<1>2. ASSUME NEW t \in Threads, Call(t) PROVE RInv'
    <2>1. CASE thread_self(t)
        BY <2>1, SelfTurn
    <2>2. CASE thread_returns(t) \/ thread_fails(t)
        BY <2>2, EndsQuiet
    <2>3. ASSUME NEW u \in Threads,
                 \/ thread_create(t, u) \/ thread_createx(t, u)
                 \/ thread_join(t, u) \/ thread_detach(t, u) \/ thread_gc(t, u)
                 \/ luaE_freethread(t, u) \/ drop(t, u)
                 \/ \E w \in Threads : share(t, w, u)
          PROVE  RInv'
        <3>1. CASE thread_create(t, u)
            BY <3>1, CreateTurn
        <3>2. CASE thread_createx(t, u)
            BY <3>2, CreatexTurn
        <3>3. CASE thread_join(t, u)
            BY <3>3, JoinTurn
        <3>4. CASE thread_detach(t, u)
            BY <3>4, GoTurn DEF thread_detach
        <3>5. CASE thread_gc(t, u)
            BY <3>5, CollectTurn
        <3>6. CASE luaE_freethread(t, u) \/ drop(t, u) \/ \E w \in Threads : share(t, w, u)
            BY <3>6, HandsQuiet
        <3> QED
            BY <2>3, <3>1, <3>2, <3>3, <3>4, <3>5, <3>6
    <2> QED
        BY <1>2, <2>1, <2>2, <2>3 DEF Call
<1>3. ASSUME UNCHANGED vars PROVE RInv'
    <2>1. Main \in Threads
        BY HandleAssumption
    <2> QED
        BY <1>3, <2>1, HandsQuiet
<1> QED
    BY <1>1, <1>2, <1>3 DEF Next

LEMMA RInvAlways == Spec => []RInv
BY RInvInit, RInvStep, PTL DEF Spec

----------------------------------------------------------------------------
(***************************************************************************)
(* The theorems.                                                           *)
(***************************************************************************)
\* Until something happens that the library does not bear (two threads in luaL_ref or
\* luaL_unref at a time, a detach, a loss of the handle or a second join of a thread that
\* runs, the use of a handle that thread.self has made or whose thread was not made),
\* every variable has its type.
THEOREM ThreadHandleTypeOK == Spec => []TypeOK
<1>1. Borne => TypeOK
    BY DEF Borne, IInv, TypeOK
<1> QED
    BY <1>1, InvariantAlways, PTL

\* Until then whoever uses a state or a handle (lthreadlib.c) finds it there: no state
\* is freed under the thread that runs in it or takes results from it, no handle under
\* the join that reads it or the end of a thread that writes to it. It says nothing of
\* threads that are detached, or whose handle is lost, while they run.
THEOREM ThreadHandleInUseAlive == Spec => []InUseAlive
<1>1. ASSUME IInv PROVE UsedAlive
    <2> SUFFICES ASSUME NEW t \in Threads
                 PROVE  /\ status[t] \in {"new", "running"} => t \notin freed
                        /\ pc[t] \in {"join", "xjoin"} => On(t) \notin freed
                        /\ pc[t] = "join" => handle[On(t)].exists = "yes"
                        /\ pc[t] = "report" /\ t \in reported => handle[t].exists = "yes"
        BY DEF UsedAlive
    <2>1. Place(t) /\ Life(t) /\ On(t) \in Threads
        BY <1>1 DEF IInv, Types, On
    <2>2. status[t] \in {"new", "running"} => t \notin freed
        BY <2>1 DEF Life, Finished
    <2>3. pc[t] \in {"join", "xjoin"} => On(t) \notin freed
        BY <2>1 DEF Place
    <2>4. pc[t] = "join" => handle[On(t)].exists = "yes"
        <3>1. pc[t] = "join" => handle[On(t)].bound
            BY <2>1 DEF Place, Usable
        <3> QED
            BY <1>1, <2>1, <3>1 DEF IInv, Life
    <2>5. pc[t] = "report" /\ t \in reported => handle[t].exists = "yes"
        BY <2>1 DEF Place, Life, Live
    <2> QED
        BY <2>2, <2>3, <2>4, <2>5
<1>2. Borne => InUseAlive
    BY <1>1 DEF Borne, InUseAlive
<1> QED
    BY <1>2, InvariantAlways, PTL

\* Until then, between two calls of luaL_ref and luaL_unref (lauxlib.c) every place of
\* the registry is one handle's reference or on the free list, which is one chain. Such
\* calls may not have overlapped (two that do may get one reference), and nothing may
\* have been done with the handle of a thread that could not be made (its finaliser
\* gives the reference back once more).
THEOREM ThreadHandleReferencesAccounted == Spec => []ReferencesAccounted
<1>1. ASSUME IInv PROVE FreeListed
    <2> SUFFICES ASSUME \A t \in Threads : pc[t] \notin RefPCs
                 PROVE
                    /\ \A i \in (DOMAIN slots) \ Free :
                        /\ handle[slots[i]].ref = i /\ handle[slots[i]].bound
                        /\ handle[slots[i]].exists = "yes"
                    /\ \A u \in Threads :
                        handle[u].bound /\ handle[u].ref # LUA_NOREF /\ status[u] # "failed"
                            => slots[handle[u].ref] = u
                    /\ (IF head = Main THEN {} ELSE {head}) \cup {slots[i] : i \in Free}
                            = IF head = Main THEN {} ELSE Free \cup {0}
                    /\ \A S \in (SUBSET Free) \ {{}} : \E i \in S : slots[i] \notin S
        BY DEF FreeListed
    <2>1. ASSUME NEW i \in (DOMAIN slots) \ Free
          PROVE  /\ handle[slots[i]].ref = i /\ handle[slots[i]].bound
                 /\ handle[slots[i]].exists = "yes"
        <3>1. slots \in Seq(Threads \cup Nat)
            BY <1>1 DEF IInv, Types
        <3>2. slots[i] \in Threads
            BY <2>1, <3>1 DEF Free
        <3> QED
            BY <1>1, <2>1, <3>2 DEF IInv, Owned
    <2>2. ASSUME NEW u \in Threads, handle[u].bound, handle[u].ref # LUA_NOREF,
                 status[u] # "failed"
          PROVE  slots[handle[u].ref] = u
        <3>1. \A t \in Threads : pc[t] # "unref_head"
            BY DEF RefPCs
        <3> QED
            BY <1>1, <2>2, <3>1 DEF IInv, Owned, LUA_NOREF
    <2>3. Listed = Free
        <3>1. Out = {}
            BY DEF Out, RefPCs
        <3> QED
            BY <3>1 DEF Listed
    <2>4. CASE head = Main
        <3>1. slots = <<>>
            BY <1>1, <2>4 DEF IInv, Chain
        <3>2. Free = {}
            BY <3>1 DEF Free
        <3> QED
            BY <2>1, <2>2, <2>4, <3>2
    <2>5. CASE head # Main
        <3>1. /\ head \in Free \cup {0}
              /\ \A e \in Free \cup {0} : e = head \/ \E i \in Free : slots[i] = e
              /\ \A i \in Free : slots[i] \in Free \cup {0}
              /\ \A S \in (SUBSET Free) \ {{}} : \E i \in S : slots[i] \notin S
            BY <1>1, <2>3, <2>5 DEF IInv, Chain
        <3>2. {head} \cup {slots[i] : i \in Free} = Free \cup {0}
            BY <3>1
        <3> QED
            BY <2>1, <2>2, <2>5, <3>1, <3>2
    <2> QED
        BY <2>4, <2>5
<1>2. Borne => ReferencesAccounted
    BY <1>1 DEF Borne, ReferencesAccounted
<1> QED
    BY <1>2, InvariantAlways, PTL

\* However a program uses the library, whatever it does with other handles, whoever is in
\* the registry and whichever states have gone: a native thread is joined or detached a
\* second time, or without having been made, only if two calls were on its handle at once,
\* or it could not be made, or the handle is one that thread.self has made (thread_join,
\* thread_detach and thread_gc, lthreadlib.c). Each of the three does occur.
THEOREM ThreadHandleNativeReleasedOnce == Spec => []NativeReleasedOnce
<1>1. RInv => NativeReleasedOnce
    BY DEF RInv, Fine, Sound, NativeReleasedOnce
<1> QED
    BY <1>1, RInvAlways, PTL

\* Until then join tells what has become of the thread, and tells it after its end
\* (has_error, lthreadlib.c).
THEOREM ThreadHandleJoinTellsOutcome == Spec => []JoinTellsOutcome
<1>1. Borne => JoinTellsOutcome
    BY DEF Borne, IInv, Life, JoinTellsOutcome
<1> QED
    BY <1>1, InvariantAlways, PTL
=============================================================================
