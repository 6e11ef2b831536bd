---------------------------- MODULE PromiseProofs ----------------------------
(***************************************************************************)
(* Theorems about Promise, for every set of promises and coroutines and    *)
(* every set of programs.                                                  *)
(***************************************************************************)
EXTENDS Promise, FiniteSetTheorems, SequenceTheorems, TLAPS

----------------------------------------------------------------------------
(***************************************************************************)
(* The inductive invariant.                                                *)
(***************************************************************************)
States == {"unborn", "pending"} \cup Settled
SomePromise == Promises \cup {NoPromise}
Reactions == [type : Types, handler : BOOLEAN, child : Promises]
Contexts == [status : {"unused", "running", "suspended", "done"},
             result : SomePromise, waiting : SomePromise]
Combos == [mode : Modes \cup {"none"}, children : Seq(Promises), count : Nat,
           status : {"none", "waiting", "decided", "freed"}]
Origins == [parent : SomePromise, type : Types \cup {"none"}, handler : BOOLEAN, calls : {0, 1}]

SettleItems == [do : {"settle"}, p : Promises, how : Settled]
ReactionItems == [do : {"react", "handler"}, p : Promises, r : Reactions]
PromiseItems == [do : {"notify", "release", "combined", "sync"}, p : Promises]
RunItems == [do : {"run"}, c : Coroutines, p : SomePromise]
FinishItems == [do : {"finish"}, c : Coroutines, p : SomePromise, how : Settled]
ReturnItems == [do : {"return"}, p : SomePromise, new : SomePromise]
WorkItems == SettleItems \cup ReactionItems \cup PromiseItems \cup RunItems \cup FinishItems \cup ReturnItems

Typed ==
    /\ state \in [Promises -> States]
    /\ reactions \in [Promises -> Seq(Reactions)]
    /\ awaiter \in [Promises -> Coroutines \cup Promises \cup {NoWaiter}]
    /\ handle \in [Promises -> {"none", "held", "lost"}]
    /\ op \in [Promises -> {"none", "operation", "timeout"}]
    /\ co \in [Coroutines -> Contexts]
    /\ combo \in [Promises -> Combos]
    /\ origin \in [Promises -> Origins]
    /\ program \in Programs

\* A promise that no call of then, catch or finally made.
Root(p) == p \in Promises /\ state[p] # "unborn" /\ origin[p].parent = NoPromise

\* What a chained promise becomes agrees with its parent (ChainOutcome).
Fits(p, how) ==
    LET parent == state[origin[p].parent] IN
    /\ parent \in Settled
    /\ origin[p].type = "then" => parent = "fulfilled"
    /\ origin[p].type = "catch" => parent = "rejected"
    /\ origin[p].type = "finally" \/ ~origin[p].handler => how = parent
Free_to_become(p, how) == p \in cancelled \/ origin[p].parent = NoPromise \/ Fits(p, how)
Registered(r, p) ==
    /\ origin[r.child].parent = p
    /\ origin[r.child].type = r.type
    /\ origin[r.child].handler = r.handler

\* What is true of a thing to be done from when it is put on the stack.
Sound(x) ==
    /\ x.do = "settle" => state[x.p] # "unborn" /\ Free_to_become(x.p, x.how)
    /\ x.do = "react" => /\ state[x.p] \in Settled
                         /\ Registered(x.r, x.p)
                         /\ origin[x.r.child].calls = 0
    /\ x.do = "handler" => /\ state[x.p] \in Settled
                           /\ Registered(x.r, x.p)
                           /\ Concerns(x.r, x.p)
                           /\ x.r.handler
    /\ x.do = "notify" => state[x.p] \in Settled
    /\ x.do \in {"run", "finish"} => co[x.c].status = "running"
    /\ x.do = "return" => x.new = NoPromise \/ state[x.new] # "unborn"
SoundItems == {x \in WorkItems : Sound(x)}

\* Two things to be done that are one: the reaction of one child, the run of one
\* coroutine.
Clash(x, y) ==
    \/ x.do = "react" /\ y.do = "react" /\ x.r.child = y.r.child
    \/ x.do \in {"run", "finish"} /\ y.do \in {"run", "finish"} /\ x.c = y.c
Apart(s) == \A i, j \in DOMAIN s : i # j => ~Clash(s[i], s[j])

Stack == work \in Seq(SoundItems) /\ Apart(work)

\* The reactions of a promise are those of children of its own, not called yet;
\* a settled promise has none.
ListOK(p) ==
    /\ reactions[p] # <<>> => state[p] = "pending"
    /\ \A i \in DOMAIN reactions[p] :
        /\ Registered(reactions[p][i], p)
        /\ origin[reactions[p][i].child].calls = 0
    /\ \A i, j \in DOMAIN reactions[p] : i # j => reactions[p][i].child # reactions[p][j].child
Lists == \A p \in Promises : ListOK(p)

\* What an operation, a combinator or a coroutine will settle is nobody's child.
Births ==
    \A p \in Promises :
        /\ state[p] = "unborn" => origin[p] = NoOrigin /\ handle[p] = "none"
        /\ op[p] # "none" => Root(p)
        /\ combo[p].status = "waiting" => Root(p)
\* A promise resumes only a coroutine that is suspended and waits for it.
Waits ==
    /\ \A q \in Promises : awaiter[q] \in Coroutines =>
        co[awaiter[q]].status = "suspended" /\ co[awaiter[q]].waiting = q
    /\ \A c \in Coroutines : co[c].status \in {"running", "suspended"} => Root(co[c].result)
Chained ==
    \A p \in Promises : state[p] \in Settled => Free_to_become(p, state[p])

Inv == Typed /\ Stack /\ Lists /\ Births /\ Waits /\ Chained

----------------------------------------------------------------------------
(***************************************************************************)
(* Things to be done.                                                      *)
(***************************************************************************)
LEMMA ItemFields ==
    ASSUME NEW x \in WorkItems
    PROVE  /\ x.do \in {"settle", "react", "handler", "notify", "release", "combined", "sync",
                        "run", "finish", "return"}
           /\ x.do = "settle" => x.p \in Promises /\ x.how \in Settled
           /\ x.do \in {"react", "handler"} => x.p \in Promises /\ x.r \in Reactions
           /\ x.do \in {"notify", "release", "combined", "sync"} => x.p \in Promises
           /\ x.do \in {"run", "finish"} => x.c \in Coroutines /\ x.p \in SomePromise
           /\ x.do = "finish" => x.how \in Settled
           /\ x.do = "return" => x.p \in SomePromise /\ x.new \in SomePromise
<1>1. CASE x \in SettleItems
    BY <1>1 DEF SettleItems
<1>2. CASE x \in ReactionItems
    BY <1>2 DEF ReactionItems
<1>3. CASE x \in PromiseItems
    BY <1>3 DEF PromiseItems
<1>4. CASE x \in RunItems
    BY <1>4 DEF RunItems
<1>5. CASE x \in FinishItems
    BY <1>5 DEF FinishItems
<1>6. CASE x \in ReturnItems
    BY <1>6 DEF ReturnItems
<1> QED
    BY <1>1, <1>2, <1>3, <1>4, <1>5, <1>6 DEF WorkItems

LEMMA ItemKinds ==
    /\ \A p \in Promises, how \in Settled :
        Settle(p, how) \in WorkItems
    /\ \A p \in Promises, r \in Reactions : React(p, r) \in WorkItems /\ Handler(p, r) \in WorkItems
    /\ \A p \in Promises :
        Notify(p) \in WorkItems /\ Release(p) \in WorkItems /\ Combined(p) \in WorkItems /\ Sync(p) \in WorkItems
    /\ \A c \in Coroutines, p \in SomePromise : Run(c, p) \in WorkItems
    /\ \A c \in Coroutines, p \in SomePromise, how \in Settled : Finish(c, p, how) \in WorkItems
    /\ \A p, new \in SomePromise : Return(p, new) \in WorkItems
<1>1. \A p \in Promises, how \in Settled : Settle(p, how) \in SettleItems
    BY DEF Settle, SettleItems
<1>2. \A p \in Promises, r \in Reactions : React(p, r) \in ReactionItems /\ Handler(p, r) \in ReactionItems
    BY DEF React, Handler, ReactionItems
<1>3. \A p \in Promises :
        Notify(p) \in PromiseItems /\ Release(p) \in PromiseItems
        /\ Combined(p) \in PromiseItems /\ Sync(p) \in PromiseItems
    BY DEF Notify, Release, Combined, Sync, PromiseItems
<1>4. \A c \in Coroutines, p \in SomePromise : Run(c, p) \in RunItems
    BY DEF Run, RunItems
<1>5. \A c \in Coroutines, p \in SomePromise, how \in Settled : Finish(c, p, how) \in FinishItems
    BY DEF Finish, FinishItems
<1>6. \A p, new \in SomePromise : Return(p, new) \in ReturnItems
    BY DEF Return, ReturnItems
<1> QED
    BY <1>1, <1>2, <1>3, <1>4, <1>5, <1>6 DEF WorkItems

\* The top of the stack and the rest.
LEMMA HeadOfStack ==
    ASSUME Stack, work # <<>>
    PROVE  /\ Now \in SoundItems /\ Tail(work) \in Seq(SoundItems) /\ Apart(Tail(work))
           /\ \A j \in DOMAIN Tail(work) : ~Clash(Now, Tail(work)[j])
<1>1. work \in Seq(SoundItems) /\ Len(work) \in Nat /\ Len(work) > 0
    BY DEF Stack
<1>2. Now = work[1] /\ 1 \in DOMAIN work /\ work[1] \in SoundItems
    BY <1>1 DEF Now
<1>3. Tail(work) \in Seq(SoundItems) /\ Len(Tail(work)) = Len(work) - 1
    BY <1>1
<1>4. \A j \in DOMAIN Tail(work) : j \in Nat /\ j + 1 \in DOMAIN work /\ Tail(work)[j] = work[j + 1] /\ j + 1 # 1
    BY <1>1, <1>3
<1>5. Apart(Tail(work))
    BY <1>4 DEF Stack, Apart
<1>6. \A j \in DOMAIN Tail(work) : ~Clash(Now, Tail(work)[j])
    BY <1>2, <1>4 DEF Stack, Apart
<1> QED
    BY <1>2, <1>3, <1>5, <1>6

LEMMA ClashBoth ==
    ASSUME NEW x, NEW y PROVE Clash(x, y) <=> Clash(y, x)
BY DEF Clash

LEMMA ApartFront ==
    ASSUME NEW S, NEW s \in Seq(S), NEW t \in Seq(S), Apart(s), Apart(t),
           \A i \in DOMAIN s, j \in DOMAIN t : ~Clash(s[i], t[j])
    PROVE  Apart(s \o t)
<1>1. Len(s) \in Nat /\ Len(t) \in Nat /\ DOMAIN s = 1 .. Len(s) /\ DOMAIN t = 1 .. Len(t)
    OBVIOUS
<1>2. DOMAIN (s \o t) = 1 .. Len(s) + Len(t)
    BY <1>1
<1>3. \A i \in DOMAIN (s \o t) :
        \/ i \in DOMAIN s /\ (s \o t)[i] = s[i]
        \/ i - Len(s) \in DOMAIN t /\ (s \o t)[i] = t[i - Len(s)]
    BY <1>1, <1>2
<1>4. ASSUME NEW i \in DOMAIN (s \o t), NEW j \in DOMAIN (s \o t), i # j
      PROVE  ~Clash((s \o t)[i], (s \o t)[j])
    <2>1. i \in Int /\ j \in Int
        BY <1>1, <1>2
    <2>2. CASE i \in DOMAIN s /\ (s \o t)[i] = s[i] /\ j \in DOMAIN s /\ (s \o t)[j] = s[j]
        BY <2>2, <1>4 DEF Apart
    <2>3. CASE i \in DOMAIN s /\ (s \o t)[i] = s[i] /\ j - Len(s) \in DOMAIN t /\ (s \o t)[j] = t[j - Len(s)]
        BY <2>3
    <2>4. CASE j \in DOMAIN s /\ (s \o t)[j] = s[j] /\ i - Len(s) \in DOMAIN t /\ (s \o t)[i] = t[i - Len(s)]
        BY <2>4, ClashBoth
    <2>5. CASE /\ i - Len(s) \in DOMAIN t /\ (s \o t)[i] = t[i - Len(s)]
               /\ j - Len(s) \in DOMAIN t /\ (s \o t)[j] = t[j - Len(s)]
        <3>1. i - Len(s) # j - Len(s)
            BY <2>1, <1>1, <1>4
        <3> QED
            BY <2>5, <3>1 DEF Apart
    <2> QED
        BY <1>3, <2>2, <2>3, <2>4, <2>5
<1> QED
    BY <1>4 DEF Apart

----------------------------------------------------------------------------
(***************************************************************************)
(* New promises.                                                           *)
(***************************************************************************)
LEMMA FreshUnborn ==
    ASSUME Typed, NEW used, used \subseteq Promises, NEW p \in Fresh(used)
    PROVE  p \in Promises /\ state[p] = "unborn" /\ p \notin used
<1>1. Cardinality((Promises \ Unborn) \cup used) < program.promises
      /\ p = CHOOSE q \in Unborn \ used : TRUE
    BY DEF Fresh
<1>2. IsFiniteSet(Promises) /\ program.promises \in 0 .. Cardinality(Promises)
    BY PromiseAssumption DEF Typed
<1>3. Cardinality(Promises) \in Nat
    BY <1>2, FS_CardinalityType
<1>4. ASSUME Unborn \ used = {} PROVE FALSE
    <2>1. (Promises \ Unborn) \cup used = Promises
        BY <1>4 DEF Unborn
    <2> QED
        BY <1>1, <1>2, <1>3, <2>1
<1>5. p \in Unborn \ used
    BY <1>1, <1>4
<1> QED
    BY <1>5 DEF Unborn

----------------------------------------------------------------------------
(***************************************************************************)
(* What steps leave as it is. Grown is true of all of them: what is settled *)
(* stays, promises are born once and keep their parents.                   *)
(***************************************************************************)
Grown ==
    /\ cancelled \subseteq cancelled'
    /\ \A p \in Promises : state[p] \in Settled => state'[p] = state[p]
    /\ \A p \in Promises : state[p] # "unborn" =>
        /\ state'[p] # "unborn"
        /\ origin'[p].parent = origin[p].parent
        /\ origin'[p].type = origin[p].type
        /\ origin'[p].handler = origin[p].handler
    /\ \A p \in Promises : state'[p] = "unborn" => origin'[p] = origin[p]

LEMMA QuietGrown ==
    ASSUME UNCHANGED <<state, origin>>, cancelled \subseteq cancelled'
    PROVE  Grown
BY DEF Grown

LEMMA RootStays ==
    ASSUME Grown, NEW p, Root(p) PROVE Root(p)'
BY DEF Grown, Root

LEMMA FitsStays ==
    ASSUME Typed, Grown, NEW p \in Promises, NEW how, state[p] # "unborn", Free_to_become(p, how)
    PROVE  Free_to_become(p, how)'
<1>1. CASE p \in cancelled \/ origin[p].parent = NoPromise
    BY <1>1 DEF Grown, Free_to_become
<1>2. CASE origin[p].parent # NoPromise /\ Fits(p, how)
    <2>1. origin[p].parent \in Promises
        BY <1>2 DEF Typed, Origins, SomePromise
    <2>2. state'[origin'[p].parent] = state[origin[p].parent]
        BY <1>2, <2>1 DEF Grown, Fits
    <2> QED
        BY <1>2, <2>2 DEF Grown, Fits, Free_to_become
<1> QED
    BY <1>1, <1>2 DEF Free_to_become

LEMMA RegisteredStays ==
    ASSUME Births, Grown, NEW p \in Promises, NEW r \in Reactions, Registered(r, p)
    PROVE  Registered(r, p)' /\ state[r.child] # "unborn"
<1>1. r.child \in Promises /\ p # NoPromise
    BY PromiseAssumption DEF Reactions
<1>2. state[r.child] # "unborn"
    BY <1>1 DEF Births, NoOrigin, Registered
<1> QED
    BY <1>1, <1>2 DEF Grown, Registered

LEMMA SoundStays ==
    ASSUME Typed, Births, Grown, NEW x \in SoundItems,
           x.do = "react" => origin'[x.r.child].calls = 0,
           x.do \in {"run", "finish"} => co'[x.c].status = "running"
    PROVE  x \in SoundItems'
<1>1. x \in WorkItems /\ Sound(x)
    BY DEF SoundItems
<1>2. CASE x.do = "settle"
    <2>1. x.p \in Promises /\ x.how \in Settled
        BY <1>1, <1>2, ItemFields
    <2>2. state[x.p] # "unborn" /\ Free_to_become(x.p, x.how)
        BY <1>1, <1>2 DEF Sound
    <2>3. state'[x.p] # "unborn" /\ Free_to_become(x.p, x.how)'
        BY <2>1, <2>2, FitsStays DEF Grown
    <2> QED
        BY <1>1, <1>2, <2>3 DEF Sound, SoundItems
<1>3. CASE x.do \in {"react", "handler"}
    <2>1. x.p \in Promises /\ x.r \in Reactions
        BY <1>1, <1>3, ItemFields
    <2>2. state[x.p] \in Settled /\ Registered(x.r, x.p)
        BY <1>1, <1>3 DEF Sound
    <2>3. state'[x.p] = state[x.p] /\ Registered(x.r, x.p)'
        BY <2>1, <2>2, RegisteredStays DEF Grown
    <2>4. Concerns(x.r, x.p) => Concerns(x.r, x.p)'
        BY <2>3 DEF Concerns
    <2> QED
        BY <1>1, <1>3, <2>2, <2>3, <2>4 DEF Sound, SoundItems
<1>4. CASE x.do = "notify"
    <2>1. x.p \in Promises
        BY <1>1, <1>4, ItemFields
    <2> QED
        BY <1>1, <1>4, <2>1 DEF Sound, SoundItems, Grown
<1>5. CASE x.do \in {"run", "finish"}
    BY <1>1, <1>5 DEF Sound, SoundItems
<1>6. CASE x.do = "return"
    <2>1. x.new \in SomePromise
        BY <1>1, <1>6, ItemFields
    <2> QED
        BY <1>1, <1>6, <2>1 DEF Sound, SoundItems, Grown, SomePromise
<1>7. CASE x.do \in {"release", "combined", "sync"}
    BY <1>1, <1>7 DEF Sound, SoundItems
<1> QED
    BY <1>1, <1>2, <1>3, <1>4, <1>5, <1>6, <1>7, ItemFields

\* The stack after a step: what the step has put there, then what was left.
Plain(x) == x.do \notin {"react", "run", "finish"}
PlainItems == {x \in SoundItems : Plain(x)}

LEMMA RestStays ==
    ASSUME Typed, Births, Grown, NEW rest \in Seq(SoundItems),
           \A i \in DOMAIN rest :
            /\ rest[i].do = "react" => origin'[rest[i].r.child].calls = 0
            /\ rest[i].do \in {"run", "finish"} => co'[rest[i].c].status = "running"
    PROVE  rest \in Seq(SoundItems')
<1>1. \A i \in DOMAIN rest : rest[i] \in SoundItems
    OBVIOUS
<1>2. \A i \in DOMAIN rest : rest[i] \in SoundItems'
    BY <1>1, SoundStays
<1>3. rest \in [1 .. Len(rest) -> SoundItems'] /\ Len(rest) \in Nat
    BY <1>2
<1> QED
    BY <1>3

LEMMA StackStep ==
    ASSUME NEW items \in Seq(SoundItems'), NEW rest \in Seq(SoundItems'),
           Apart(items), Apart(rest), work' = items \o rest,
           \A i \in DOMAIN items, j \in DOMAIN rest : ~Clash(items[i], rest[j])
    PROVE  Stack'
<1>1. Apart(items \o rest)
    BY ApartFront
<1>2. Apart(work)' <=> Apart(work')
    BY DEF Apart
<1> QED
    BY <1>1, <1>2 DEF Stack

\* Most steps call no reaction and leave the coroutines that run running.
Undisturbed ==
    /\ \A p \in Promises : origin[p].calls = 0 /\ state[p] # "unborn" => origin'[p].calls = 0
    /\ \A c \in Coroutines : co[c].status = "running" => co'[c].status = "running"

LEMMA RestUndisturbed ==
    ASSUME Typed, Births, Grown, Undisturbed, NEW rest \in Seq(SoundItems)
    PROVE  rest \in Seq(SoundItems')
<1>1. ASSUME NEW i \in DOMAIN rest
      PROVE  /\ rest[i].do = "react" => origin'[rest[i].r.child].calls = 0
             /\ rest[i].do \in {"run", "finish"} => co'[rest[i].c].status = "running"
    <2>1. rest[i] \in WorkItems /\ Sound(rest[i])
        BY DEF SoundItems
    <2>2. ASSUME rest[i].do = "react" PROVE origin'[rest[i].r.child].calls = 0
        <3>1. rest[i].p \in Promises /\ rest[i].r \in Reactions
            BY <2>1, <2>2, ItemFields
        <3>2. rest[i].r.child \in Promises
            BY <3>1 DEF Reactions
        <3>3. Registered(rest[i].r, rest[i].p) /\ origin[rest[i].r.child].calls = 0
            BY <2>1, <2>2 DEF Sound
        <3> QED
            BY <3>1, <3>2, <3>3, RegisteredStays DEF Undisturbed
    <2>3. ASSUME rest[i].do \in {"run", "finish"} PROVE co'[rest[i].c].status = "running"
        <3>1. rest[i].c \in Coroutines
            BY <2>1, <2>3, ItemFields
        <3> QED
            BY <2>1, <2>3, <3>1 DEF Sound, Undisturbed
    <2> QED
        BY <2>2, <2>3
<1> QED
    BY <1>1, RestStays

LEMMA PlainStep ==
    ASSUME Typed, Births, Grown, Undisturbed,
           NEW items \in Seq(PlainItems'), NEW rest \in Seq(SoundItems), Apart(rest),
           work' = items \o rest
    PROVE  Stack'
<1>1. \A i \in DOMAIN items : items[i] \in PlainItems'
    OBVIOUS
<1>2. \A i \in DOMAIN items : items[i] \in SoundItems' /\ Plain(items[i])
    BY <1>1 DEF PlainItems
<1>3. items \in [1 .. Len(items) -> SoundItems'] /\ Len(items) \in Nat
    BY <1>2
<1>4. items \in Seq(SoundItems')
    BY <1>3
<1>5. Apart(items)
    BY <1>2 DEF Apart, Clash, Plain
<1>6. \A i \in DOMAIN items, j \in DOMAIN rest : ~Clash(items[i], rest[j])
    BY <1>2 DEF Clash, Plain
<1>7. rest \in Seq(SoundItems')
    BY RestUndisturbed
<1> QED
    BY <1>4, <1>5, <1>6, <1>7, StackStep

LEMMA ListStays ==
    ASSUME Typed, Births, Grown, NEW p \in Promises, ListOK(p),
           reactions'[p] = reactions[p],
           reactions[p] # <<>> => state'[p] = state[p],
           \A i \in DOMAIN reactions[p] : origin'[reactions[p][i].child].calls = 0
    PROVE  ListOK(p)'
<1>1. reactions[p] \in Seq(Reactions)
    BY DEF Typed
<1>2. ASSUME NEW i \in DOMAIN reactions[p] PROVE Registered(reactions[p][i], p)'
    <2>1. reactions[p][i] \in Reactions /\ Registered(reactions[p][i], p)
        BY <1>1 DEF ListOK
    <2> QED
        BY <2>1, RegisteredStays
<1> QED
    BY <1>2 DEF ListOK, Registered

LEMMA ListUndisturbed ==
    ASSUME Typed, Births, Grown, Undisturbed, NEW p \in Promises, ListOK(p),
           reactions'[p] = reactions[p],
           reactions[p] # <<>> => state'[p] = state[p]
    PROVE  ListOK(p)'
<1>1. reactions[p] \in Seq(Reactions)
    BY DEF Typed
<1>2. ASSUME NEW i \in DOMAIN reactions[p] PROVE origin'[reactions[p][i].child].calls = 0
    <2>1. reactions[p][i] \in Reactions /\ Registered(reactions[p][i], p) /\ origin[reactions[p][i].child].calls = 0
        BY <1>1 DEF ListOK
    <2>2. reactions[p][i].child \in Promises
        BY <2>1 DEF Reactions
    <2> QED
        BY <2>1, <2>2, RegisteredStays DEF Undisturbed
<1> QED
    BY <1>2, ListStays

LEMMA EmptyList ==
    ASSUME NEW p, reactions'[p] = <<>> PROVE ListOK(p)'
BY DEF ListOK

LEMMA ListsUndisturbed ==
    ASSUME Typed, Births, Lists, Grown, Undisturbed, reactions' = reactions,
           \A p \in Promises : state[p] = "pending" => state'[p] = state[p]
    PROVE  Lists'
<1> SUFFICES ASSUME NEW p \in Promises PROVE ListOK(p)'
    BY DEF Lists
<1>1. ListOK(p)
    BY DEF Lists
<1>2. reactions[p] # <<>> => state'[p] = state[p]
    BY <1>1 DEF ListOK
<1> QED
    BY <1>1, <1>2, ListUndisturbed

LEMMA BirthsStay ==
    ASSUME Births, Grown,
           \A p \in Promises :
            /\ handle'[p] \in {"none", handle[p]} \/ state'[p] # "unborn"
            /\ op'[p] \in {"none", op[p]} \/ Root(p)'
            /\ combo'[p].status \in {combo[p].status, "decided", "freed"} \/ Root(p)'
    PROVE  Births'
<1> SUFFICES ASSUME NEW p \in Promises
             PROVE  /\ state'[p] = "unborn" => origin'[p] = NoOrigin /\ handle'[p] = "none"
                    /\ op'[p] # "none" => Root(p)'
                    /\ combo'[p].status = "waiting" => Root(p)'
    BY DEF Births, NoOrigin
<1>1. state'[p] = "unborn" => origin'[p] = NoOrigin /\ handle'[p] = "none"
    BY DEF Births, Grown
<1>2. op'[p] # "none" => Root(p)'
    BY RootStays DEF Births
<1>3. combo'[p].status = "waiting" => Root(p)'
    BY RootStays DEF Births
<1> QED
    BY <1>1, <1>2, <1>3

LEMMA WaitsStay ==
    ASSUME Waits, Grown,
           \A q \in Promises : awaiter'[q] \in Coroutines =>
            \/ awaiter'[q] = awaiter[q] /\ co'[awaiter[q]] = co[awaiter[q]]
            \/ co'[awaiter'[q]].status = "suspended" /\ co'[awaiter'[q]].waiting = q,
           \A c \in Coroutines : co'[c].status \in {"running", "suspended"} =>
            \/ co[c].status \in {"running", "suspended"} /\ co'[c].result = co[c].result
            \/ Root(co[c].result)'
    PROVE  Waits'
<1>1. ASSUME NEW q \in Promises, awaiter'[q] \in Coroutines
      PROVE  co'[awaiter'[q]].status = "suspended" /\ co'[awaiter'[q]].waiting = q
    BY <1>1 DEF Waits
<1>2. ASSUME NEW c \in Coroutines, co'[c].status \in {"running", "suspended"}
      PROVE  Root(co[c].result)'
    <2>1. CASE co[c].status \in {"running", "suspended"} /\ co'[c].result = co[c].result
        <3>1. Root(co[c].result)
            BY <2>1 DEF Waits
        <3>2. \A r : Root(r) => Root(r)'
            BY RootStays
        <3> QED
            BY <2>1, <3>1, <3>2 DEF Root
    <2> QED
        BY <1>2, <2>1
<1> QED
    BY <1>1, <1>2 DEF Waits

LEMMA WaitsQuiet ==
    ASSUME Waits, Grown, UNCHANGED <<awaiter, co>>
    PROVE  Waits'
BY WaitsStay

LEMMA ChainedStay ==
    ASSUME Typed, Chained, Grown,
           \A p \in Promises : state'[p] \in Settled /\ state'[p] # state[p] => Free_to_become(p, state[p])'
    PROVE  Chained'
<1> SUFFICES ASSUME NEW p \in Promises, state'[p] \in Settled PROVE Free_to_become(p, state[p])'
    BY DEF Chained
<1>1. CASE state'[p] = state[p]
    <2>1. Free_to_become(p, state[p]) /\ state[p] # "unborn"
        BY <1>1 DEF Chained, Settled
    <2>2. \A how : how = state[p] => Free_to_become(p, how)'
        BY <2>1, FitsStays
    <2> QED
        BY <1>1, <2>2
<1> QED
    BY <1>1

----------------------------------------------------------------------------
(***************************************************************************)
(* What steps put on the stack.                                            *)
(***************************************************************************)
LEMMA PlainSettle ==
    ASSUME NEW p \in Promises, NEW how \in Settled, state'[p] # "unborn", Free_to_become(p, how)'
    PROVE  Settle(p, how) \in PlainItems'
<1>1. Settle(p, how) \in WorkItems
    BY ItemKinds
<1> QED
    BY <1>1 DEF PlainItems, SoundItems, Sound, Plain, Settle

LEMMA PlainHandler ==
    ASSUME NEW p \in Promises, NEW r \in Reactions, state'[p] \in Settled,
           Registered(r, p)', Concerns(r, p)', r.handler
    PROVE  Handler(p, r) \in PlainItems'
<1>1. Handler(p, r) \in WorkItems
    BY ItemKinds
<1> QED
    BY <1>1 DEF PlainItems, SoundItems, Sound, Plain, Handler

LEMMA PlainNotify ==
    ASSUME NEW p \in Promises, state'[p] \in Settled
    PROVE  Notify(p) \in PlainItems'
<1>1. Notify(p) \in WorkItems
    BY ItemKinds
<1> QED
    BY <1>1 DEF PlainItems, SoundItems, Sound, Plain, Notify

LEMMA PlainReturn ==
    ASSUME NEW p \in SomePromise, NEW new \in SomePromise, new = NoPromise \/ state'[new] # "unborn"
    PROVE  Return(p, new) \in PlainItems'
<1>1. Return(p, new) \in WorkItems
    BY ItemKinds
<1> QED
    BY <1>1 DEF PlainItems, SoundItems, Sound, Plain, Return

LEMMA PlainOthers ==
    ASSUME NEW p \in Promises
    PROVE  Release(p) \in PlainItems' /\ Combined(p) \in PlainItems' /\ Sync(p) \in PlainItems'
<1>1. Release(p) \in WorkItems /\ Combined(p) \in WorkItems /\ Sync(p) \in WorkItems
    BY ItemKinds
<1> QED
    BY <1>1 DEF PlainItems, SoundItems, Sound, Plain, Release, Combined, Sync

LEMMA PlainRelease ==
    ASSUME NEW s \in Seq(Promises)
    PROVE  [i \in DOMAIN s |-> Release(s[i])] \in Seq(PlainItems')
<1>1. DOMAIN s = 1 .. Len(s) /\ Len(s) \in Nat /\ \A i \in DOMAIN s : s[i] \in Promises
    OBVIOUS
<1>2. [i \in DOMAIN s |-> Release(s[i])] \in [1 .. Len(s) -> PlainItems']
    BY <1>1, PlainOthers
<1> QED
    BY <1>1, <1>2

\* What is on top of the stack.
LEMMA Top ==
    ASSUME Inv, NEW what, Doing(what)
    PROVE  \E x \in SoundItems :
            /\ x = Now /\ x \in WorkItems /\ Sound(x) /\ x.do = what
            /\ Tail(work) \in Seq(SoundItems) /\ Apart(Tail(work))
            /\ \A j \in DOMAIN Tail(work) : ~Clash(x, Tail(work)[j])
BY HeadOfStack DEF Inv, Doing, Now, SoundItems

----------------------------------------------------------------------------
(***************************************************************************)
(* The actions of the stack.                                               *)
(***************************************************************************)
\* A step that only replaces the top of the stack.
LEMMA OnlyStack ==
    ASSUME Inv, work # <<>>,
           UNCHANGED <<state, reactions, awaiter, handle, op, co, combo, origin, program>>,
           cancelled \subseteq cancelled',
           NEW items \in Seq(PlainItems'), work' = items \o Tail(work)
    PROVE  Inv' /\ Grown
<1>1. Typed /\ Births /\ Lists /\ Waits /\ Chained /\ Tail(work) \in Seq(SoundItems) /\ Apart(Tail(work))
    BY HeadOfStack DEF Inv
<1>2. Grown /\ Undisturbed
    BY QuietGrown DEF Undisturbed
<1>3. Stack'
    BY <1>1, <1>2, PlainStep
<1>4. Typed'
    BY <1>1 DEF Typed
<1>5. Lists' /\ Births' /\ Waits' /\ Chained'
    BY <1>1, <1>2, ListsUndisturbed, BirthsStay, WaitsQuiet, ChainedStay
<1> QED
    BY <1>2, <1>3, <1>4, <1>5 DEF Inv

LEMMA HandlerDoneStep ==
    ASSUME Inv, handler_done
    PROVE  Inv' /\ Grown
<1>1. PICK x \in SoundItems :
        /\ x = Now /\ x \in WorkItems /\ Sound(x) /\ x.do = "handler"
        /\ Tail(work) \in Seq(SoundItems) /\ Apart(Tail(work))
        /\ \A j \in DOMAIN Tail(work) : ~Clash(x, Tail(work)[j])
    BY Top DEF handler_done
<1>2. PICK how \in Settled : work' = <<Settle(x.r.child, Outcome(x.r, x.p, how)), Release(x.r.child)>> \o Tail(work)
    BY <1>1 DEF handler_done, Next_do
<1>3. /\ UNCHANGED <<state, reactions, awaiter, handle, op, co, combo, origin, cancelled, program>>
      /\ Typed /\ Births /\ Lists /\ Waits /\ Chained
    BY DEF handler_done, owners, history, bounds, Inv
<1>4. Grown /\ Undisturbed
    BY <1>3, QuietGrown DEF Undisturbed
<1>5. /\ x.p \in Promises /\ x.r \in Reactions /\ x.r.child \in Promises
      /\ state[x.p] \in Settled /\ Registered(x.r, x.p) /\ Concerns(x.r, x.p) /\ x.r.handler
    BY <1>1, ItemFields DEF Sound, Reactions
<1>6. PICK out \in Settled : out = Outcome(x.r, x.p, how)
    BY <1>5 DEF Outcome
<1>7. Settle(x.r.child, out) \in PlainItems'
    <2>1. state[x.r.child] # "unborn"
        BY <1>3, <1>4, <1>5, RegisteredStays
    <2>2. Fits(x.r.child, out)
        BY <1>5, <1>6 DEF Fits, Registered, Concerns, Outcome, Settled
    <2>3. Free_to_become(x.r.child, out)'
        BY <1>3, <1>4, <1>5, <2>1, <2>2, FitsStays DEF Free_to_become
    <2> QED
        BY <1>3, <1>5, <1>6, <2>1, <2>3, PlainSettle
<1>8. <<Settle(x.r.child, out), Release(x.r.child)>> \in Seq(PlainItems')
    BY <1>5, <1>7, PlainOthers
<1> QED
    BY <1>2, <1>3, <1>6, <1>8, OnlyStack DEF handler_done, Doing

LEMMA ReactionCalled ==
    ASSUME Inv, execute_reaction, Concerns(Now.r, Now.p), Now.r.handler
    PROVE  Inv' /\ Grown
<1>1. PICK x \in SoundItems :
        /\ x = Now /\ x \in WorkItems /\ Sound(x) /\ x.do = "react"
        /\ Tail(work) \in Seq(SoundItems) /\ Apart(Tail(work))
        /\ \A j \in DOMAIN Tail(work) : ~Clash(x, Tail(work)[j])
    BY Top DEF execute_reaction
<1>2. /\ work' = <<Handler(x.p, x.r)>> \o Tail(work)
      /\ origin' = [origin EXCEPT ![x.r.child].calls = @ + 1]
      /\ UNCHANGED <<state, reactions, awaiter, handle, op, co, combo, cancelled, program>>
      /\ Typed /\ Births /\ Lists /\ Waits /\ Chained
    BY <1>1 DEF execute_reaction, Next_do, owners, bounds, Inv
<1>3. /\ x.p \in Promises /\ x.r \in Reactions /\ x.r.child \in Promises
      /\ state[x.p] \in Settled /\ Registered(x.r, x.p) /\ Concerns(x.r, x.p) /\ x.r.handler
      /\ origin[x.r.child].calls = 0
    BY <1>1, ItemFields DEF Sound, Reactions
<1>4. state[x.r.child] # "unborn"
    BY <1>2, <1>3, PromiseAssumption DEF Births, NoOrigin, Registered
<1>5. \A p \in Promises :
        /\ origin'[p].parent = origin[p].parent /\ origin'[p].type = origin[p].type
        /\ origin'[p].handler = origin[p].handler
        /\ p # x.r.child => origin'[p] = origin[p]
    BY <1>2, <1>3 DEF Typed, Origins
<1>6. Grown
    BY <1>2, <1>4, <1>5 DEF Grown
<1>7. Typed'
    <2>1. origin[x.r.child] \in Origins
        BY <1>2, <1>3 DEF Typed
    <2>2. [origin[x.r.child] EXCEPT !.calls = @ + 1] \in Origins
        BY <1>3, <2>1 DEF Origins
    <2>3. origin' \in [Promises -> Origins]
        BY <1>2, <1>3, <2>2 DEF Typed
    <2> QED
        BY <1>2, <2>3 DEF Typed
<1>8. Stack'
    <2>1. ASSUME NEW j \in DOMAIN Tail(work)
          PROVE  /\ Tail(work)[j].do = "react" => origin'[Tail(work)[j].r.child].calls = 0
                 /\ Tail(work)[j].do \in {"run", "finish"} => co'[Tail(work)[j].c].status = "running"
        <3>1. PICK y \in SoundItems : y = Tail(work)[j]
            BY <1>1
        <3>2. y \in WorkItems /\ Sound(y) /\ ~Clash(x, y)
            BY <1>1, <3>1 DEF SoundItems
        <3>3. ASSUME y.do = "react" PROVE origin'[y.r.child].calls = 0
            <4>1. y.r.child \in Promises /\ y.r.child # x.r.child
                BY <1>1, <3>2, <3>3, ItemFields DEF Clash, Reactions
            <4> QED
                BY <1>5, <3>2, <3>3, <4>1 DEF Sound
        <3>4. ASSUME y.do \in {"run", "finish"} PROVE co'[y.c].status = "running"
            BY <1>2, <3>2, <3>4 DEF Sound
        <3> QED
            BY <3>1, <3>3, <3>4
    <2>2. Tail(work) \in Seq(SoundItems')
        BY <1>1, <1>2, <1>6, <2>1, RestStays
    <2>3. Handler(x.p, x.r) \in PlainItems'
        <3>1. Registered(x.r, x.p)'
            BY <1>2, <1>3, <1>6, RegisteredStays
        <3>2. Concerns(x.r, x.p)'
            BY <1>2, <1>3 DEF Concerns
        <3> QED
            BY <1>2, <1>3, <3>1, <3>2, PlainHandler
    <2>4. Handler(x.p, x.r) \in SoundItems' /\ Plain(Handler(x.p, x.r))
        BY <2>3 DEF PlainItems
    <2>5. <<Handler(x.p, x.r)>> \in Seq(SoundItems') /\ Apart(<<Handler(x.p, x.r)>>)
        BY <2>4 DEF Apart
    <2>6. \A i \in DOMAIN <<Handler(x.p, x.r)>>, j \in DOMAIN Tail(work) :
            ~Clash(<<Handler(x.p, x.r)>>[i], Tail(work)[j])
        BY <2>4 DEF Clash, Plain
    <2> QED
        BY <1>1, <1>2, <2>2, <2>5, <2>6, StackStep
<1>9. Lists'
    <2> SUFFICES ASSUME NEW p \in Promises PROVE ListOK(p)'
        BY DEF Lists
    <2>1. ListOK(p) /\ reactions[p] \in Seq(Reactions)
        BY <1>2 DEF Lists, Typed
    <2>2. ASSUME NEW i \in DOMAIN reactions[p] PROVE origin'[reactions[p][i].child].calls = 0
        <3>1. reactions[p][i] \in Reactions /\ reactions[p][i].child \in Promises
            <4>1. reactions[p][i] \in Reactions
                BY <2>1
            <4> QED
                BY <4>1 DEF Reactions
        <3>2. reactions[p][i].child # x.r.child
            <4>1. state[p] = "pending" /\ Registered(reactions[p][i], p)
                BY <2>1 DEF ListOK
            <4> QED
                BY <1>3, <4>1 DEF Registered, Settled
        <3> QED
            BY <1>5, <2>1, <3>1, <3>2 DEF ListOK
    <2> QED
        BY <1>2, <1>6, <2>1, <2>2, ListStays
<1>10. Births' /\ Waits' /\ Chained'
    BY <1>2, <1>6, BirthsStay, WaitsQuiet, ChainedStay
<1> QED
    BY <1>6, <1>7, <1>8, <1>9, <1>10 DEF Inv

LEMMA ReactionStep ==
    ASSUME Inv, execute_reaction
    PROVE  Inv' /\ Grown
<1>1. PICK x \in SoundItems :
        /\ x = Now /\ x \in WorkItems /\ Sound(x) /\ x.do = "react"
    BY Top DEF execute_reaction
<1>2. /\ x.p \in Promises /\ x.r \in Reactions /\ x.r.child \in Promises
      /\ state[x.p] \in Settled /\ Registered(x.r, x.p)
    BY <1>1, ItemFields DEF Sound, Reactions
<1>3. CASE Concerns(x.r, x.p) /\ x.r.handler
    BY <1>1, <1>3, ReactionCalled
<1>4. CASE ~(Concerns(x.r, x.p) /\ x.r.handler)
    <2>1. PICK items : /\ work' = items \o Tail(work) /\ work # <<>>
                       /\ items = IF Concerns(x.r, x.p) THEN <<Settle(x.r.child, state[x.p]), Release(x.r.child)>>
                                  ELSE <<Release(x.r.child)>>
        BY <1>1, <1>4 DEF execute_reaction, Next_do, Doing
    <2>2. /\ UNCHANGED <<state, reactions, awaiter, handle, op, co, combo, origin, cancelled, program>>
          /\ Typed /\ Births
        BY <1>1, <1>4 DEF execute_reaction, owners, bounds, Inv
    <2>3. Grown
        BY <2>2, QuietGrown
    <2>4. items \in Seq(PlainItems')
        <3>1. CASE Concerns(x.r, x.p)
            <4>1. PICK how \in Settled : how = state[x.p]
                BY <1>2
            <4>2. state[x.r.child] # "unborn"
                BY <1>2, <2>2, <2>3, RegisteredStays
            <4>3. Fits(x.r.child, how)
                BY <1>2, <1>4, <3>1, <4>1 DEF Fits, Registered, Concerns, Settled
            <4>4. Free_to_become(x.r.child, how)'
                BY <1>2, <2>2, <2>3, <4>2, <4>3, FitsStays DEF Free_to_become
            <4>5. Settle(x.r.child, how) \in PlainItems'
                BY <1>2, <2>2, <4>2, <4>4, PlainSettle
            <4> QED
                BY <1>2, <2>1, <3>1, <4>1, <4>5, PlainOthers
        <3>2. CASE ~Concerns(x.r, x.p)
            BY <1>2, <2>1, <3>2, PlainOthers
        <3> QED
            BY <3>1, <3>2
    <2> QED
        BY <2>1, <2>2, <2>4, OnlyStack
<1> QED
    BY <1>3, <1>4

LEMMA SettleStep ==
    ASSUME Inv, settle
    PROVE  Inv' /\ Grown
<1>1. PICK x \in SoundItems :
        /\ x = Now /\ x \in WorkItems /\ Sound(x) /\ x.do = "settle"
        /\ Tail(work) \in Seq(SoundItems) /\ Apart(Tail(work))
        /\ \A j \in DOMAIN Tail(work) : ~Clash(x, Tail(work)[j])
    BY Top DEF settle
<1>2. /\ UNCHANGED <<awaiter, handle, op, co, combo, origin, cancelled, program>>
      /\ Typed /\ Births /\ Lists /\ Waits /\ Chained /\ work # <<>>
    BY DEF settle, owners, history, bounds, Inv, Doing
<1>3. x.p \in Promises /\ x.how \in Settled /\ Free_to_become(x.p, x.how)
    BY <1>1, ItemFields DEF Sound
<1>4. CASE state[x.p] # "pending"
    <2>1. work' = <<>> \o Tail(work) /\ UNCHANGED <<state, reactions>>
        BY <1>1, <1>4 DEF settle, Next_do, May_settle
    <2>2. <<>> \in Seq(PlainItems')
        OBVIOUS
    <2> QED
        BY <1>2, <2>1, <2>2, OnlyStack
<1>5. CASE state[x.p] = "pending"
    <2>1. /\ state' = [state EXCEPT ![x.p] = x.how]
          /\ reactions' = [reactions EXCEPT ![x.p] = <<>>]
          /\ work' = (Reactions_of(x.p) \o <<Notify(x.p)>>) \o Tail(work)
        BY <1>1, <1>5 DEF settle, Next_do, May_settle, No_reactions
    <2>2. /\ state'[x.p] = x.how /\ reactions'[x.p] = <<>>
          /\ \A p \in Promises : p # x.p => state'[p] = state[p] /\ reactions'[p] = reactions[p]
        BY <1>2, <1>3, <2>1 DEF Typed
    <2>3. Grown
        BY <1>2, <1>3, <1>5, <2>2 DEF Grown, Settled
    <2>4. Typed'
        BY <1>2, <1>3, <2>1 DEF Typed, States
    <2>5. Undisturbed
        BY <1>2 DEF Undisturbed
    <2>6. Stack'
        <3>1. PICK rs \in Seq(Reactions) : rs = reactions[x.p]
            BY <1>2, <1>3 DEF Typed
        <3>2. /\ DOMAIN rs = 1 .. Len(rs) /\ Len(rs) \in Nat /\ \A i \in DOMAIN rs : rs[i] \in Reactions
            BY <3>1
        <3>3. \A i \in DOMAIN rs : /\ Registered(rs[i], x.p) /\ origin[rs[i].child].calls = 0
                                   /\ \A j \in DOMAIN rs : i # j => rs[i].child # rs[j].child
            BY <1>2, <1>3, <3>1 DEF Lists, ListOK
        <3>4. PICK calls : calls = Reactions_of(x.p)
            OBVIOUS
        <3>5. calls = [i \in DOMAIN rs |-> React(x.p, rs[i])]
            BY <3>1, <3>4 DEF Reactions_of
        <3>6. ASSUME NEW i \in DOMAIN rs PROVE React(x.p, rs[i]) \in SoundItems'
            <4>1. React(x.p, rs[i]) \in WorkItems
                BY <1>3, <3>2, ItemKinds
            <4>2. Registered(rs[i], x.p)'
                BY <1>2, <1>3, <2>3, <3>2, <3>3, RegisteredStays
            <4>3. origin'[rs[i].child].calls = 0 /\ state'[x.p] \in Settled
                BY <1>2, <1>3, <2>2, <3>3
            <4> QED
                BY <4>1, <4>2, <4>3 DEF SoundItems, Sound, React
        <3>7. calls \in Seq(SoundItems')
            <4>1. calls \in [1 .. Len(rs) -> SoundItems']
                BY <3>2, <3>5, <3>6
            <4> QED
                BY <3>2, <4>1
        <3>8. Apart(calls)
            BY <3>2, <3>3, <3>5 DEF Apart, Clash, React
        <3>9. ASSUME NEW i \in DOMAIN calls, NEW j \in DOMAIN Tail(work) PROVE ~Clash(calls[i], Tail(work)[j])
            <4>1. PICK y \in SoundItems : y = Tail(work)[j]
                BY <1>1
            <4>2. y \in WorkItems /\ Sound(y)
                BY <4>1 DEF SoundItems
            <4>3. i \in DOMAIN rs /\ calls[i].do = "react" /\ calls[i].r = rs[i]
                BY <3>5, <3>9 DEF React
            <4>4. ASSUME y.do = "react", y.r.child = rs[i].child PROVE FALSE
                <5>1. y.p = x.p /\ state[y.p] \in Settled
                    BY <3>3, <4>2, <4>3, <4>4 DEF Sound, Registered
                <5> QED
                    BY <1>5, <5>1 DEF Settled
            <4> QED
                BY <4>1, <4>3, <4>4 DEF Clash
        <3>10. Tail(work) \in Seq(SoundItems')
            BY <1>1, <1>2, <2>3, <2>5, RestUndisturbed
        <3>11. PICK last : last = <<Notify(x.p)>>
            OBVIOUS
        <3>12. last \in Seq(SoundItems') /\ Apart(last) /\ last[1].do = "notify" /\ DOMAIN last = {1}
            <4>1. Notify(x.p) \in PlainItems'
                BY <1>3, <2>2, PlainNotify
            <4>2. Notify(x.p) \in SoundItems'
                BY <4>1 DEF PlainItems
            <4> QED
                BY <3>11, <4>2 DEF Apart, Notify
        <3>13. \A i \in DOMAIN calls, j \in DOMAIN last : ~Clash(calls[i], last[j])
            BY <3>12 DEF Clash
        <3>14. \A i \in DOMAIN last, j \in DOMAIN Tail(work) : ~Clash(last[i], Tail(work)[j])
            BY <3>12 DEF Clash
        <3>15. PICK after : after = last \o Tail(work)
            OBVIOUS
        <3>16. after \in Seq(SoundItems') /\ Apart(after)
            <4>1. PICK rest : rest = Tail(work)
                OBVIOUS
            <4>2. /\ rest \in Seq(SoundItems') /\ last \in Seq(SoundItems')
                  /\ Apart(rest) /\ Apart(last)
                  /\ \A i \in DOMAIN last, j \in DOMAIN rest : ~Clash(last[i], rest[j])
                BY <1>1, <3>10, <3>12, <3>14, <4>1
            <4>3. Apart(last \o rest)
                BY <4>2, ApartFront
            <4> QED
                BY <3>15, <4>1, <4>2, <4>3
        <3>17. ASSUME NEW i \in DOMAIN calls, NEW j \in DOMAIN after PROVE ~Clash(calls[i], after[j])
            <4>1. j = 1 \/ (j - 1 \in DOMAIN Tail(work) /\ after[j] = Tail(work)[j - 1])
                BY <1>1, <3>11, <3>15
            <4>2. after[1] = last[1]
                BY <1>1, <3>11, <3>15
            <4> QED
                BY <3>9, <3>12, <3>13, <4>1, <4>2
        <3>18. work' = calls \o after
            BY <2>1, <3>4, <3>7, <3>10, <3>11, <3>12, <3>15
        <3> QED
            BY <3>7, <3>8, <3>16, <3>17, <3>18, StackStep
    <2>7. Lists'
        <3> SUFFICES ASSUME NEW p \in Promises PROVE ListOK(p)'
            BY DEF Lists
        <3>1. CASE p = x.p
            BY <2>2, <3>1, EmptyList
        <3>2. CASE p # x.p
            BY <1>2, <2>2, <2>3, <2>5, <3>2, ListUndisturbed DEF Lists
        <3> QED
            BY <3>1, <3>2
    <2>8. Births' /\ Waits'
        BY <1>2, <2>3, BirthsStay, WaitsQuiet
    <2>9. Chained'
        <3>1. Free_to_become(x.p, x.how)'
            BY <1>2, <1>3, <1>5, <2>3, FitsStays
        <3>2. \A how : how = state'[x.p] => Free_to_become(x.p, how)'
            BY <2>2, <3>1
        <3>3. \A p \in Promises : state'[p] # state[p] => Free_to_become(p, state[p])'
            BY <2>2, <3>2
        <3> QED
            BY <1>2, <2>3, <3>3, ChainedStay
    <2> QED
        BY <2>3, <2>4, <2>6, <2>7, <2>8, <2>9 DEF Inv
<1> QED
    BY <1>4, <1>5

LEMMA ReleaseStep ==
    ASSUME Inv, release
    PROVE  Inv' /\ Grown
<1>1. PICK x \in SoundItems :
        /\ x = Now /\ x \in WorkItems /\ Sound(x) /\ x.do = "release"
        /\ Tail(work) \in Seq(SoundItems) /\ Apart(Tail(work))
        /\ \A j \in DOMAIN Tail(work) : ~Clash(x, Tail(work)[j])
    BY Top DEF release
<1>2. /\ UNCHANGED <<state, awaiter, handle, op, co, combo, origin, cancelled, program>>
      /\ Typed /\ Births /\ Lists /\ Waits /\ Chained
    BY DEF release, owners, history, bounds, Inv
<1>3. x.p \in Promises
    BY <1>1, ItemFields
<1>4. PICK rs \in Seq(Reactions) : rs = reactions[x.p]
    BY <1>2, <1>3 DEF Typed
<1>5. /\ reactions' \in {reactions, [reactions EXCEPT ![x.p] = <<>>]}
      /\ work' \in {<<>> \o Tail(work), [i \in DOMAIN rs |-> Release(rs[i].child)] \o Tail(work)}
    BY <1>1, <1>4 DEF release, Next_do
<1>6. Grown /\ Undisturbed
    BY <1>2, QuietGrown DEF Undisturbed
<1>7. Stack'
    <2>1. DOMAIN rs = 1 .. Len(rs) /\ Len(rs) \in Nat /\ \A i \in DOMAIN rs : rs[i] \in Reactions
        OBVIOUS
    <2>2. \A i \in DOMAIN rs : Release(rs[i].child) \in PlainItems'
        BY <2>1, PlainOthers DEF Reactions
    <2>3. [i \in DOMAIN rs |-> Release(rs[i].child)] \in [1 .. Len(rs) -> PlainItems']
        BY <2>1, <2>2
    <2>4. [i \in DOMAIN rs |-> Release(rs[i].child)] \in Seq(PlainItems') /\ <<>> \in Seq(PlainItems')
        BY <2>1, <2>3
    <2> QED
        BY <1>1, <1>2, <1>5, <1>6, <2>4, PlainStep
<1>8. Typed'
    <2>1. <<>> \in Seq(Reactions) /\ reactions \in [Promises -> Seq(Reactions)]
        BY <1>2 DEF Typed
    <2>2. reactions' \in [Promises -> Seq(Reactions)]
        BY <1>5, <2>1
    <2> QED
        BY <1>2, <2>2 DEF Typed
<1>9. Lists'
    <2> SUFFICES ASSUME NEW p \in Promises PROVE ListOK(p)'
        BY DEF Lists
    <2>1. reactions'[p] = reactions[p] \/ reactions'[p] = <<>>
        BY <1>2, <1>5 DEF Typed
    <2> QED
        BY <1>2, <1>6, <2>1, ListUndisturbed, EmptyList DEF Lists
<1>10. Births' /\ Waits' /\ Chained'
    BY <1>2, <1>6, BirthsStay, WaitsQuiet, ChainedStay
<1> QED
    BY <1>6, <1>7, <1>8, <1>9, <1>10 DEF Inv

LEMMA SyncDoneStep ==
    ASSUME Inv, sync_done
    PROVE  Inv' /\ Grown
<1>1. /\ UNCHANGED <<state, reactions, awaiter, handle, op, co, combo, origin, cancelled, program>>
      /\ work # <<>> /\ work' = <<>> \o Tail(work)
    BY DEF sync_done, owners, history, bounds, Doing, Next_do
<1>2. <<>> \in Seq(PlainItems')
    OBVIOUS
<1> QED
    BY <1>1, <1>2, OnlyStack

LEMMA ReturnStep ==
    ASSUME Inv, return
    PROVE  Inv' /\ Grown
<1>1. PICK x \in SoundItems :
        /\ x = Now /\ x \in WorkItems /\ Sound(x) /\ x.do = "return"
        /\ Tail(work) \in Seq(SoundItems) /\ Apart(Tail(work))
        /\ \A j \in DOMAIN Tail(work) : ~Clash(x, Tail(work)[j])
    BY Top DEF return
<1>2. /\ UNCHANGED <<state, reactions, awaiter, op, co, combo, origin, cancelled, program>>
      /\ Typed /\ Births /\ Lists /\ Waits /\ Chained
      /\ work' = <<>> \o Tail(work)
      /\ handle' = IF x.new = NoPromise THEN handle ELSE [handle EXCEPT ![x.new] = "held"]
    BY <1>1 DEF return, Next_do, history, bounds, Inv
<1>3. x.new = NoPromise \/ (x.new \in Promises /\ state[x.new] # "unborn")
    BY <1>1, ItemFields DEF Sound, SomePromise
<1>4. Grown /\ Undisturbed
    BY <1>2, QuietGrown DEF Undisturbed
<1>5. Stack'
    <2>1. <<>> \in Seq(PlainItems')
        OBVIOUS
    <2> QED
        BY <1>1, <1>2, <1>4, <2>1, PlainStep
<1>6. Typed'
    BY <1>2, <1>3 DEF Typed
<1>7. Births'
    <2>1. \A p \in Promises : handle'[p] = handle[p] \/ state'[p] # "unborn"
        BY <1>2, <1>3 DEF Typed
    <2> QED
        BY <1>2, <1>4, <2>1, BirthsStay
<1>8. Lists' /\ Waits' /\ Chained'
    BY <1>2, <1>4, ListsUndisturbed, WaitsQuiet, ChainedStay
<1> QED
    BY <1>4, <1>5, <1>6, <1>7, <1>8 DEF Inv

LEMMA ComposeSettledStep ==
    ASSUME Inv, compose_on_settled
    PROVE  Inv' /\ Grown
<1>1. PICK x \in SoundItems :
        /\ x = Now /\ x \in WorkItems /\ Sound(x) /\ x.do = "notify"
        /\ Tail(work) \in Seq(SoundItems) /\ Apart(Tail(work))
        /\ \A j \in DOMAIN Tail(work) : ~Clash(x, Tail(work)[j])
    BY Top DEF compose_on_settled
<1>2. /\ UNCHANGED <<state, reactions, awaiter, handle, op, co, origin, cancelled, program>>
      /\ Typed /\ Births /\ Lists /\ Waits /\ Chained
    BY DEF compose_on_settled, owners, history, bounds, Inv
<1>3. x.p \in Promises /\ state[x.p] \in Settled
    BY <1>1, ItemFields DEF Sound
<1>4. PICK m \in Promises : m = awaiter[x.p]
    BY <1>1 DEF compose_on_settled
<1>5. Grown /\ Undisturbed
    BY <1>2, QuietGrown DEF Undisturbed
<1>6. combo[m] \in Combos
    BY <1>2 DEF Typed
<1>7. \/ combo' = [combo EXCEPT ![m].status = "decided"] /\ work' = <<>> \o Tail(work)
      \/ combo' = [combo EXCEPT ![m].count = @ + 1] /\ work' = <<>> \o Tail(work)
      \/ /\ combo[m].status = "waiting" /\ Decision(m, state[x.p]) # "pending"
         /\ combo' = [combo EXCEPT ![m].status = "decided"]
         /\ work' = <<Settle(m, Decision(m, state[x.p])), Combined(m)>> \o Tail(work)
    BY <1>1, <1>4 DEF compose_on_settled, Next_do
<1>8. PICK new \in Combos : combo' = [combo EXCEPT ![m] = new] /\ new.status \in {combo[m].status, "decided"}
    <2>1. [combo[m] EXCEPT !.status = "decided"] \in Combos
        BY <1>6 DEF Combos
    <2>2. [combo[m] EXCEPT !.count = @ + 1] \in Combos
        BY <1>6 DEF Combos
    <2>3. [combo[m] EXCEPT !.status = "decided"].status = "decided"
          /\ [combo[m] EXCEPT !.count = @ + 1].status = combo[m].status
        BY <1>6 DEF Combos
    <2> QED
        BY <1>7, <2>1, <2>2, <2>3
<1>9. Stack'
    <2>1. <<>> \in Seq(PlainItems')
        OBVIOUS
    <2>2. ASSUME combo[m].status = "waiting", Decision(m, state[x.p]) # "pending"
          PROVE  <<Settle(m, Decision(m, state[x.p])), Combined(m)>> \in Seq(PlainItems')
        <3>1. Root(m)
            BY <1>2, <2>2 DEF Births
        <3>2. PICK how \in Settled : how = Decision(m, state[x.p])
            BY <1>3, <2>2 DEF Decision, Settled
        <3>3. Settle(m, how) \in PlainItems'
            BY <1>2, <3>1, PlainSettle DEF Root, Free_to_become
        <3> QED
            BY <3>2, <3>3, PlainOthers
    <2> QED
        BY <1>1, <1>2, <1>5, <1>7, <2>1, <2>2, PlainStep
<1>10. Typed'
    BY <1>2, <1>8 DEF Typed
<1>11. Births'
    <2>1. \A p \in Promises : combo'[p].status \in {combo[p].status, "decided"}
        BY <1>2, <1>8 DEF Typed
    <2> QED
        BY <1>2, <1>5, <2>1, BirthsStay
<1>12. Lists' /\ Waits' /\ Chained'
    BY <1>2, <1>5, ListsUndisturbed, WaitsQuiet, ChainedStay
<1> QED
    BY <1>5, <1>9, <1>10, <1>11, <1>12 DEF Inv

\* awaiter[q] is set to NoWaiter for some q.
LEMMA WaitsCleared ==
    ASSUME Waits, Grown, co' = co,
           \A q \in Promises : awaiter'[q] \in {awaiter[q], NoWaiter}
    PROVE  Waits'
<1>1. NoWaiter \notin Coroutines
    BY PromiseAssumption
<1> QED
    BY <1>1, WaitsStay

LEMMA ComposeFreeStep ==
    ASSUME Inv, compose_free
    PROVE  Inv' /\ Grown
<1>1. PICK x \in SoundItems :
        /\ x = Now /\ x \in WorkItems /\ Sound(x) /\ x.do = "combined"
        /\ Tail(work) \in Seq(SoundItems) /\ Apart(Tail(work))
        /\ \A j \in DOMAIN Tail(work) : ~Clash(x, Tail(work)[j])
    BY Top DEF compose_free
<1>2. /\ UNCHANGED <<state, reactions, handle, op, co, origin, cancelled, program>>
      /\ Typed /\ Births /\ Lists /\ Waits /\ Chained
    BY DEF compose_free, owners, history, bounds, Inv
<1>3. x.p \in Promises
    BY <1>1, ItemFields
<1>4. combo[x.p] \in Combos
    BY <1>2, <1>3 DEF Typed
<1>5. PICK children \in Seq(Promises) : children = combo[x.p].children
    BY <1>4 DEF Combos
<1>6. /\ work' = [i \in DOMAIN children |-> Release(children[i])] \o Tail(work)
      /\ awaiter' = [q \in Promises |-> IF q \in ToSet(children) THEN NoWaiter ELSE awaiter[q]]
      /\ combo' = [combo EXCEPT ![x.p].status = "freed"]
    BY <1>1, <1>5 DEF compose_free, Next_do, Let_go
<1>7. Grown /\ Undisturbed
    BY <1>2, QuietGrown DEF Undisturbed
<1>8. Stack'
    BY <1>1, <1>2, <1>6, <1>7, PlainRelease, PlainStep
<1>9. Typed'
    <2>1. [combo[x.p] EXCEPT !.status = "freed"] \in Combos
        BY <1>4 DEF Combos
    <2>2. combo' \in [Promises -> Combos]
        BY <1>2, <1>6, <2>1 DEF Typed
    <2>3. awaiter' \in [Promises -> Coroutines \cup Promises \cup {NoWaiter}]
        BY <1>2, <1>6 DEF Typed
    <2> QED
        BY <1>2, <2>2, <2>3 DEF Typed
<1>10. Births'
    <2>1. \A p \in Promises : combo'[p].status \in {combo[p].status, "freed"}
        BY <1>2, <1>4, <1>6 DEF Typed, Combos
    <2> QED
        BY <1>2, <1>7, <2>1, BirthsStay
<1>11. Waits'
    BY <1>2, <1>6, <1>7, WaitsCleared
<1>12. Lists' /\ Chained'
    BY <1>2, <1>7, ListsUndisturbed, ChainedStay
<1> QED
    BY <1>7, <1>8, <1>9, <1>10, <1>11, <1>12 DEF Inv

\* The context of c gets another status and, maybe, another promise to wait for.
LEMMA ContextStep ==
    ASSUME Typed, NEW c \in Coroutines, NEW new \in Contexts, co' = [co EXCEPT ![c] = new]
    PROVE  /\ co' \in [Coroutines -> Contexts] /\ co'[c] = new
           /\ \A d \in Coroutines : d # c => co'[d] = co[d]
BY DEF Typed

\* The stack after a step that takes the run of c from its top, or starts c; no
\* other run of c is on the stack.
LEMMA RunnerStep ==
    ASSUME Typed, Births, Grown, NEW c \in Coroutines, NEW rest \in Seq(SoundItems), Apart(rest),
           UNCHANGED <<state, origin>>,
           \A j \in DOMAIN rest : rest[j].do \in {"run", "finish"} => rest[j].c # c,
           \A d \in Coroutines : d # c => co'[d] = co[d],
           NEW items \in Seq(SoundItems'), Apart(items), work' = items \o rest,
           \A i \in DOMAIN items : Plain(items[i]) \/ (items[i].do \in {"run", "finish"} /\ items[i].c = c)
    PROVE  Stack'
<1>1. ASSUME NEW j \in DOMAIN rest
      PROVE  /\ rest[j].do = "react" => origin'[rest[j].r.child].calls = 0
             /\ rest[j].do \in {"run", "finish"} => co'[rest[j].c].status = "running"
    <2>1. rest[j] \in WorkItems /\ Sound(rest[j])
        BY DEF SoundItems
    <2>2. rest[j].do \in {"run", "finish"} => rest[j].c \in Coroutines
        BY <2>1, ItemFields
    <2> QED
        BY <2>1, <2>2 DEF Sound
<1>2. rest \in Seq(SoundItems')
    BY <1>1, RestStays
<1>3. \A i \in DOMAIN items, j \in DOMAIN rest : ~Clash(items[i], rest[j])
    BY DEF Clash, Plain
<1> QED
    BY <1>2, <1>3, StackStep

LEMMA PromiseSettledStep ==
    ASSUME Inv, laio_promise_settled
    PROVE  Inv' /\ Grown
<1>1. PICK x \in SoundItems :
        /\ x = Now /\ x \in WorkItems /\ Sound(x) /\ x.do = "notify"
        /\ Tail(work) \in Seq(SoundItems) /\ Apart(Tail(work))
        /\ \A j \in DOMAIN Tail(work) : ~Clash(x, Tail(work)[j])
    BY Top DEF laio_promise_settled
<1>2. /\ UNCHANGED <<state, reactions, handle, op, combo, origin, cancelled, program>>
      /\ Typed /\ Births /\ Lists /\ Waits /\ Chained /\ work # <<>>
    BY DEF laio_promise_settled, owners, history, bounds, Inv, Doing
<1>3. x.p \in Promises
    BY <1>1, ItemFields
<1>4. CASE awaiter[x.p] = NoWaiter
    <2>1. work' = <<>> \o Tail(work) /\ UNCHANGED <<awaiter, co>>
        BY <1>1, <1>4, PromiseAssumption DEF laio_promise_settled, Next_do
    <2>2. <<>> \in Seq(PlainItems')
        OBVIOUS
    <2> QED
        BY <1>2, <2>1, <2>2, OnlyStack
<1>5. CASE awaiter[x.p] # NoWaiter
    <2>1. PICK c \in Coroutines : c = awaiter[x.p]
        BY <1>1, <1>5 DEF laio_promise_settled
    <2>2. /\ awaiter' = [awaiter EXCEPT ![x.p] = NoWaiter]
          /\ co' = [co EXCEPT ![c].status = "running"]
          /\ work' = <<Run(c, x.p)>> \o Tail(work)
        BY <1>1, <1>5, <2>1 DEF laio_promise_settled, Next_do
    <2>3. Grown
        BY <1>2, QuietGrown
    <2>4. co[c].status = "suspended" /\ co[c].waiting = x.p /\ co[c] \in Contexts
        BY <1>2, <1>3, <2>1 DEF Waits, Typed
    <2>5. PICK new \in Contexts : /\ co' = [co EXCEPT ![c] = new]
                                  /\ new.status = "running" /\ new.result = co[c].result
        <3>1. [co[c] EXCEPT !.status = "running"] \in Contexts
            BY <2>4 DEF Contexts
        <3>2. [co[c] EXCEPT !.status = "running"].status = "running"
              /\ [co[c] EXCEPT !.status = "running"].result = co[c].result
            BY <2>4 DEF Contexts
        <3> QED
            BY <2>2, <3>1, <3>2
    <2>6. /\ co' \in [Coroutines -> Contexts] /\ co'[c] = new
          /\ \A d \in Coroutines : d # c => co'[d] = co[d]
        BY <1>2, <2>5, ContextStep
    <2>7. Stack'
        <3>1. PICK rest : rest = Tail(work)
            OBVIOUS
        <3>2. rest \in Seq(SoundItems) /\ Apart(rest)
            BY <1>1, <3>1
        <3>3. \A j \in DOMAIN rest : rest[j].do \in {"run", "finish"} => rest[j].c # c
            <4>1. \A j \in DOMAIN rest : Sound(rest[j])
                BY <3>2 DEF SoundItems
            <4> QED
                BY <2>4, <4>1 DEF Sound
        <3>4. <<Run(c, x.p)>> \in Seq(SoundItems')
            <4>1. Run(c, x.p) \in WorkItems
                BY <1>3, ItemKinds DEF SomePromise
            <4>2. Run(c, x.p) \in SoundItems'
                BY <2>5, <2>6, <4>1 DEF SoundItems, Sound, Run
            <4> QED
                BY <4>2
        <3>5. PICK items : items = <<Run(c, x.p)>>
            OBVIOUS
        <3>6. items \in Seq(SoundItems') /\ DOMAIN items = {1} /\ items[1].do = "run" /\ items[1].c = c
            BY <3>4, <3>5 DEF Run
        <3>7. Apart(items)
            BY <3>6 DEF Apart
        <3>8. work' = items \o rest
            BY <2>2, <3>1, <3>5
        <3> QED
            BY <1>2, <2>3, <2>6, <3>2, <3>3, <3>6, <3>7, <3>8, RunnerStep
    <2>8. Typed'
        BY <1>2, <2>2, <2>6 DEF Typed
    <2>9. Waits'
        <3>1. ASSUME NEW q \in Promises, awaiter'[q] \in Coroutines
              PROVE  awaiter'[q] = awaiter[q] /\ co'[awaiter[q]] = co[awaiter[q]]
            <4>1. q # x.p /\ awaiter'[q] = awaiter[q]
                BY <1>2, <1>3, <2>2, <3>1, PromiseAssumption DEF Typed
            <4>2. awaiter[q] # c
                BY <1>2, <2>4, <3>1, <4>1 DEF Waits
            <4> QED
                BY <2>6, <3>1, <4>1, <4>2
        <3>2. ASSUME NEW d \in Coroutines, co'[d].status \in {"running", "suspended"}
              PROVE  co[d].status \in {"running", "suspended"} /\ co'[d].result = co[d].result
            BY <2>4, <2>5, <2>6, <3>2
        <3> QED
            BY <1>2, <2>3, <3>1, <3>2, WaitsStay
    <2>10. Lists'
        <3>1. Undisturbed
            BY <1>2, <2>5, <2>6 DEF Undisturbed
        <3> QED
            BY <1>2, <2>3, <3>1, ListsUndisturbed
    <2>11. Births' /\ Chained'
        BY <1>2, <2>3, BirthsStay, ChainedStay
    <2> QED
        BY <2>3, <2>7, <2>8, <2>9, <2>10, <2>11 DEF Inv
<1> QED
    BY <1>4, <1>5

LEMMA ListsQuiet ==
    ASSUME Lists, UNCHANGED <<state, origin, reactions>>
    PROVE  Lists'
BY DEF Lists, ListOK, Registered

\* Steps of a coroutine: c is on top of the stack and nowhere else on it.
LEMMA Runner ==
    ASSUME Inv, NEW what \in {"run", "finish"}, Doing(what)
    PROVE  \E x \in SoundItems :
            /\ x = Now /\ x.do = what /\ x.c \in Coroutines /\ x.p \in SomePromise
            /\ x.do = "finish" => x.how \in Settled
            /\ co[x.c].status = "running" /\ Root(co[x.c].result)
            /\ co[x.c] \in Contexts
            /\ Tail(work) \in Seq(SoundItems) /\ Apart(Tail(work))
            /\ \A j \in DOMAIN Tail(work) :
                Tail(work)[j].do \in {"run", "finish"} => Tail(work)[j].c # x.c
<1>1. PICK x \in SoundItems :
        /\ x = Now /\ x \in WorkItems /\ Sound(x) /\ x.do = what
        /\ Tail(work) \in Seq(SoundItems) /\ Apart(Tail(work))
        /\ \A j \in DOMAIN Tail(work) : ~Clash(x, Tail(work)[j])
    BY Top
<1>2. x.c \in Coroutines /\ x.p \in SomePromise /\ (x.do = "finish" => x.how \in Settled)
    BY <1>1, ItemFields
<1>3. co[x.c].status = "running"
    BY <1>1 DEF Sound
<1>4. Root(co[x.c].result) /\ co[x.c] \in Contexts
    BY <1>2, <1>3 DEF Inv, Waits, Typed
<1>5. \A j \in DOMAIN Tail(work) :
        Tail(work)[j].do \in {"run", "finish"} => Tail(work)[j].c # x.c
    BY <1>1 DEF Clash
<1> QED
    BY <1>1, <1>2, <1>3, <1>4, <1>5

\* A coroutine that waits for q; nobody else is told of q.
LEMMA SuspendStep ==
    ASSUME Inv, Doing("run"), NEW q \in Promises,
           UNCHANGED <<state, reactions, handle, op, combo, origin, cancelled, program>>,
           awaiter' = [awaiter EXCEPT ![q] = Now.c],
           co' = [co EXCEPT ![Now.c].status = "suspended", ![Now.c].waiting = q],
           NEW items \in Seq(PlainItems'), work' = items \o Tail(work)
    PROVE  Inv' /\ Grown
<1>1. PICK x \in SoundItems :
        /\ x = Now /\ x.do = "run" /\ x.c \in Coroutines
        /\ co[x.c].status = "running" /\ Root(co[x.c].result) /\ co[x.c] \in Contexts
        /\ Tail(work) \in Seq(SoundItems) /\ Apart(Tail(work))
        /\ \A j \in DOMAIN Tail(work) :
            Tail(work)[j].do \in {"run", "finish"} => Tail(work)[j].c # x.c
    BY Runner
<1>2. Typed /\ Births /\ Lists /\ Waits /\ Chained
    BY DEF Inv
<1>3. Grown
    BY QuietGrown
<1>4. PICK c \in Coroutines : c = x.c
    BY <1>1
<1>5. PICK new \in Contexts : /\ co' = [co EXCEPT ![c] = new]
                              /\ new.status = "suspended" /\ new.waiting = q /\ new.result = co[c].result
    <2>1. [co[c] EXCEPT !.status = "suspended", !.waiting = q] \in Contexts
        BY <1>1, <1>4 DEF Contexts, SomePromise
    <2>2. /\ [co[c] EXCEPT !.status = "suspended", !.waiting = q].status = "suspended"
          /\ [co[c] EXCEPT !.status = "suspended", !.waiting = q].waiting = q
          /\ [co[c] EXCEPT !.status = "suspended", !.waiting = q].result = co[c].result
        BY <1>1, <1>4 DEF Contexts
    <2>3. co' = [co EXCEPT ![c] = [co[c] EXCEPT !.status = "suspended", !.waiting = q]]
        BY <1>1, <1>2, <1>4 DEF Typed, Contexts
    <2> QED
        BY <2>1, <2>2, <2>3
<1>6. /\ co' \in [Coroutines -> Contexts] /\ co'[c] = new
      /\ \A d \in Coroutines : d # c => co'[d] = co[d]
    BY <1>2, <1>5, ContextStep
<1>7. Stack'
    <2>1. PICK rest : rest = Tail(work)
        OBVIOUS
    <2>2. rest \in Seq(SoundItems) /\ Apart(rest)
        BY <1>1, <2>1
    <2>3. \A j \in DOMAIN rest : rest[j].do \in {"run", "finish"} => rest[j].c # c
        BY <1>1, <1>4, <2>1
    <2>4. \A i \in DOMAIN items : items[i] \in PlainItems'
        OBVIOUS
    <2>5. \A i \in DOMAIN items : items[i] \in SoundItems' /\ Plain(items[i])
        BY <2>4 DEF PlainItems
    <2>6. items \in [1 .. Len(items) -> SoundItems'] /\ Len(items) \in Nat
        BY <2>5
    <2>7. items \in Seq(SoundItems')
        BY <2>6
    <2>8. Apart(items)
        BY <2>5 DEF Apart, Clash, Plain
    <2>9. work' = items \o rest
        BY <2>1
    <2>10. \A i \in DOMAIN items : Plain(items[i]) \/ (items[i].do \in {"run", "finish"} /\ items[i].c = c)
        BY <2>5
    <2> QED
        BY <1>2, <1>3, <1>6, <2>2, <2>3, <2>7, <2>8, <2>9, <2>10, RunnerStep
<1>8. Typed'
    BY <1>1, <1>2, <1>6 DEF Typed
<1>9. Waits'
    <2>1. ASSUME NEW p \in Promises, awaiter'[p] \in Coroutines
          PROVE  \/ awaiter'[p] = awaiter[p] /\ co'[awaiter[p]] = co[awaiter[p]]
                 \/ co'[awaiter'[p]].status = "suspended" /\ co'[awaiter'[p]].waiting = p
        <3>1. CASE p = q
            BY <1>1, <1>2, <1>4, <1>5, <1>6, <3>1 DEF Typed
        <3>2. CASE p # q
            <4>1. awaiter'[p] = awaiter[p]
                BY <1>2, <3>2 DEF Typed
            <4>2. awaiter[p] # c
                BY <1>1, <1>2, <1>4, <2>1, <4>1 DEF Waits
            <4> QED
                BY <1>6, <2>1, <4>1, <4>2
        <3> QED
            BY <3>1, <3>2
    <2>2. ASSUME NEW d \in Coroutines, co'[d].status \in {"running", "suspended"}
          PROVE  co[d].status \in {"running", "suspended"} /\ co'[d].result = co[d].result
        BY <1>1, <1>4, <1>5, <1>6, <2>2
    <2> QED
        BY <1>2, <1>3, <2>1, <2>2, WaitsStay
<1>10. Lists' /\ Births' /\ Chained'
    BY <1>2, <1>3, ListsQuiet, BirthsStay, ChainedStay
<1> QED
    BY <1>3, <1>7, <1>8, <1>9, <1>10 DEF Inv

LEMMA AwaitStep ==
    ASSUME Inv, await
    PROVE  Inv' /\ Grown
<1>1. PICK x \in SoundItems :
        /\ x = Now /\ x.do = "run" /\ x.c \in Coroutines /\ co[x.c] \in Contexts
    BY Runner DEF await
<1>2. PICK q \in Promises :
        /\ awaiter' = [awaiter EXCEPT ![q] = x.c]
        /\ co' = [co EXCEPT ![x.c].status = "suspended", ![x.c].waiting = q]
        /\ Next_do((IF co[x.c].waiting = NoPromise THEN <<>> ELSE <<Release(co[x.c].waiting)>>)
                   \o Await_settled(q))
    BY <1>1 DEF await
<1>3. UNCHANGED <<state, reactions, handle, op, combo, origin, cancelled, program>>
    BY DEF await, owners, history
<1>4. PICK before : before = IF co[x.c].waiting = NoPromise THEN <<>> ELSE <<Release(co[x.c].waiting)>>
    OBVIOUS
<1>5. PICK after : after = Await_settled(q)
    OBVIOUS
<1>6. before \in Seq(PlainItems')
    <2>1. co[x.c].waiting \in SomePromise
        BY <1>1 DEF Contexts
    <2>2. CASE co[x.c].waiting = NoPromise
        BY <1>4, <2>2
    <2>3. CASE co[x.c].waiting # NoPromise
        <3>1. PICK p \in Promises : p = co[x.c].waiting
            BY <2>1, <2>3 DEF SomePromise
        <3>2. Release(p) \in PlainItems' /\ before = <<Release(p)>>
            BY <1>4, <2>3, <3>1, PlainOthers
        <3> QED
            BY <3>2
    <2> QED
        BY <2>2, <2>3
<1>7. after \in Seq(PlainItems')
    <2>1. CASE state[q] \in Settled
        <3>1. Notify(q) \in PlainItems' /\ after = <<Notify(q)>>
            BY <1>3, <1>5, <2>1, PlainNotify DEF Await_settled
        <3> QED
            BY <3>1
    <2>2. CASE state[q] \notin Settled
        BY <1>5, <2>2 DEF Await_settled
    <2> QED
        BY <2>1, <2>2
<1>8. PICK items \in Seq(PlainItems') : items = before \o after
    <2>1. before \o after \in Seq(PlainItems')
        BY <1>6, <1>7
    <2> QED
        BY <2>1
<1>9. work' = items \o Tail(work)
    BY <1>2, <1>4, <1>5, <1>8 DEF Next_do
<1>10. Doing("run")
    BY DEF await
<1> QED
    BY <1>1, <1>2, <1>3, <1>9, <1>10, SuspendStep

LEMMA WaitStep ==
    ASSUME Inv, wait
    PROVE  Inv' /\ Grown
<1>1. PICK q \in Promises :
        \/ UNCHANGED <<awaiter, co, work>>
        \/ /\ awaiter' = [awaiter EXCEPT ![q] = Now.c]
           /\ co' = [co EXCEPT ![Now.c].status = "suspended", ![Now.c].waiting = q]
           /\ work' = <<>> \o Tail(work)
    BY DEF wait, Next_do
<1>2. /\ UNCHANGED <<state, reactions, handle, op, combo, origin, cancelled, program>>
      /\ Doing("run") /\ Typed /\ Births /\ Lists /\ Waits /\ Chained /\ Stack
    BY DEF wait, owners, history, Inv
<1>3. CASE UNCHANGED <<awaiter, co, work>>
    <2>1. Grown /\ Undisturbed
        BY <1>2, <1>3, QuietGrown DEF Undisturbed
    <2>2. Stack'
        <3>1. <<>> \in Seq(PlainItems') /\ work' = <<>> \o work /\ work \in Seq(SoundItems) /\ Apart(work)
            BY <1>2, <1>3 DEF Stack
        <3> QED
            BY <1>2, <2>1, <3>1, PlainStep
    <2>3. Typed'
        BY <1>2, <1>3 DEF Typed
    <2> QED
        BY <1>2, <1>3, <2>1, <2>2, <2>3, ListsQuiet, BirthsStay, WaitsQuiet, ChainedStay DEF Inv
<1>4. CASE /\ awaiter' = [awaiter EXCEPT ![q] = Now.c]
           /\ co' = [co EXCEPT ![Now.c].status = "suspended", ![Now.c].waiting = q]
           /\ work' = <<>> \o Tail(work)
    <2>1. <<>> \in Seq(PlainItems')
        OBVIOUS
    <2> QED
        BY <1>2, <1>4, <2>1, SuspendStep
<1> QED
    BY <1>1, <1>3, <1>4

LEMMA CoroutineDoneStep ==
    ASSUME Inv, coroutine_done
    PROVE  Inv' /\ Grown
<1>1. PICK x \in SoundItems :
        /\ x = Now /\ x.do = "run" /\ x.c \in Coroutines /\ x.p \in SomePromise
        /\ co[x.c].status = "running" /\ Root(co[x.c].result)
        /\ Tail(work) \in Seq(SoundItems) /\ Apart(Tail(work))
        /\ \A j \in DOMAIN Tail(work) :
            Tail(work)[j].do \in {"run", "finish"} => Tail(work)[j].c # x.c
    BY Runner DEF coroutine_done
<1>2. PICK how \in Settled :
        /\ work' = <<Settle(co[x.c].result, how), Finish(x.c, x.p, how)>> \o Tail(work)
        /\ awaiter' = IF how = "rejected" THEN Cleared(x.p) ELSE awaiter
    BY <1>1 DEF coroutine_done, Next_do
<1>3. /\ UNCHANGED <<state, reactions, handle, op, co, combo, origin, cancelled, program>>
      /\ Typed /\ Births /\ Lists /\ Waits /\ Chained
    BY DEF coroutine_done, owners, history, bounds, Inv
<1>4. Grown
    BY <1>3, QuietGrown
<1>5. PICK c \in Coroutines, p \in Promises : c = x.c /\ p = co[c].result
    BY <1>1 DEF Root
<1>6. Stack'
    <2>1. PICK rest : rest = Tail(work)
        OBVIOUS
    <2>2. rest \in Seq(SoundItems) /\ Apart(rest)
        BY <1>1, <2>1
    <2>3. \A j \in DOMAIN rest : rest[j].do \in {"run", "finish"} => rest[j].c # c
        BY <1>1, <1>5, <2>1
    <2>4. Settle(p, how) \in PlainItems'
        BY <1>1, <1>3, <1>5, PlainSettle DEF Root, Free_to_become
    <2>5. Settle(p, how) \in SoundItems' /\ Plain(Settle(p, how))
        BY <2>4 DEF PlainItems
    <2>6. Finish(c, x.p, how) \in SoundItems' /\ Finish(c, x.p, how).do = "finish" /\ Finish(c, x.p, how).c = c
        <3>1. Finish(c, x.p, how) \in WorkItems
            BY <1>1, ItemKinds
        <3> QED
            BY <1>1, <1>3, <1>5, <3>1 DEF SoundItems, Sound, Finish
    <2>7. PICK items : items = <<Settle(p, how), Finish(c, x.p, how)>>
        OBVIOUS
    <2>8. items \in Seq(SoundItems') /\ DOMAIN items = 1 .. 2
          /\ Plain(items[1]) /\ items[2].do = "finish" /\ items[2].c = c
        BY <2>5, <2>6, <2>7
    <2>9. Apart(items)
        BY <2>8 DEF Apart, Clash, Plain
    <2>10. work' = items \o rest
        BY <1>2, <1>5, <2>1, <2>7
    <2>11. \A i \in DOMAIN items : Plain(items[i]) \/ (items[i].do \in {"run", "finish"} /\ items[i].c = c)
        BY <2>8
    <2> QED
        BY <1>3, <1>4, <2>2, <2>3, <2>8, <2>9, <2>10, <2>11, RunnerStep
<1>7. \A q \in Promises : awaiter'[q] \in {awaiter[q], NoWaiter}
    BY <1>2, <1>3 DEF Cleared, Typed
<1>8. Typed'
    <2>1. awaiter' \in [Promises -> Coroutines \cup Promises \cup {NoWaiter}]
        BY <1>2, <1>3 DEF Typed, Cleared
    <2> QED
        BY <1>3, <2>1 DEF Typed
<1> QED
    BY <1>3, <1>4, <1>6, <1>7, <1>8, ListsQuiet, BirthsStay, WaitsCleared, ChainedStay DEF Inv

LEMMA CoroutineFreeStep ==
    ASSUME Inv, coroutine_free
    PROVE  Inv' /\ Grown
<1>1. PICK x \in SoundItems :
        /\ x = Now /\ x.do = "finish" /\ x.c \in Coroutines /\ x.p \in SomePromise
        /\ co[x.c].status = "running" /\ co[x.c] \in Contexts
        /\ Tail(work) \in Seq(SoundItems) /\ Apart(Tail(work))
        /\ \A j \in DOMAIN Tail(work) :
            Tail(work)[j].do \in {"run", "finish"} => Tail(work)[j].c # x.c
    BY Runner DEF coroutine_free
<1>2. PICK new, items :
        /\ new = [NoContext EXCEPT !.status = "done"]
        /\ items = IF x.how = "rejected" /\ co[x.c].waiting # NoPromise
                   THEN <<Release(co[x.c].waiting)>> ELSE <<>>
        /\ co' = [co EXCEPT ![x.c] = new] /\ work' = items \o Tail(work)
        /\ awaiter' = IF x.how = "fulfilled" THEN Cleared(x.p) ELSE awaiter
    BY <1>1 DEF coroutine_free, Next_do
<1>3. /\ UNCHANGED <<state, reactions, handle, op, combo, origin, cancelled, program>>
      /\ Typed /\ Births /\ Lists /\ Waits /\ Chained
    BY DEF coroutine_free, owners, history, bounds, Inv
<1>4. Grown
    BY <1>3, QuietGrown
<1>5. PICK c \in Coroutines : c = x.c
    BY <1>1
<1>6. new \in Contexts /\ new.status = "done"
    BY <1>2 DEF NoContext, Contexts, SomePromise
<1>7. /\ co' \in [Coroutines -> Contexts] /\ co'[c] = new
      /\ \A d \in Coroutines : d # c => co'[d] = co[d]
    BY <1>2, <1>3, <1>5, <1>6, ContextStep
<1>8. items \in Seq(PlainItems')
    <2>1. CASE x.how = "rejected" /\ co[x.c].waiting # NoPromise
        <3>1. PICK p \in Promises : p = co[x.c].waiting
            BY <1>1, <2>1 DEF Contexts, SomePromise
        <3>2. Release(p) \in PlainItems' /\ items = <<Release(p)>>
            BY <1>2, <2>1, <3>1, PlainOthers
        <3> QED
            BY <3>2
    <2>2. CASE ~(x.how = "rejected" /\ co[x.c].waiting # NoPromise)
        BY <1>2, <2>2
    <2> QED
        BY <2>1, <2>2
<1>9. Stack'
    <2>1. PICK rest : rest = Tail(work)
        OBVIOUS
    <2>2. rest \in Seq(SoundItems) /\ Apart(rest)
        BY <1>1, <2>1
    <2>3. \A j \in DOMAIN rest : rest[j].do \in {"run", "finish"} => rest[j].c # c
        BY <1>1, <1>5, <2>1
    <2>4. \A i \in DOMAIN items : items[i] \in PlainItems'
        BY <1>8
    <2>5. \A i \in DOMAIN items : items[i] \in SoundItems' /\ Plain(items[i])
        BY <2>4 DEF PlainItems
    <2>6. items \in [1 .. Len(items) -> SoundItems'] /\ Len(items) \in Nat
        BY <1>8, <2>5
    <2>7. items \in Seq(SoundItems')
        BY <2>6
    <2>8. Apart(items)
        BY <2>5 DEF Apart, Clash, Plain
    <2>9. work' = items \o rest
        BY <1>2, <2>1
    <2>10. \A i \in DOMAIN items : Plain(items[i]) \/ (items[i].do \in {"run", "finish"} /\ items[i].c = c)
        BY <2>5
    <2> QED
        BY <1>3, <1>4, <1>7, <2>2, <2>3, <2>7, <2>8, <2>9, <2>10, RunnerStep
<1>10. \A q \in Promises : awaiter'[q] \in {awaiter[q], NoWaiter}
    BY <1>2, <1>3 DEF Cleared, Typed
<1>11. Typed'
    <2>1. awaiter' \in [Promises -> Coroutines \cup Promises \cup {NoWaiter}]
        BY <1>2, <1>3 DEF Typed, Cleared
    <2> QED
        BY <1>3, <1>7, <2>1 DEF Typed
<1>12. Waits'
    <2>1. ASSUME NEW q \in Promises, awaiter'[q] \in Coroutines
          PROVE  awaiter'[q] = awaiter[q] /\ co'[awaiter[q]] = co[awaiter[q]]
        <3>1. awaiter'[q] = awaiter[q]
            BY <1>10, <2>1, PromiseAssumption
        <3>2. awaiter[q] # c
            BY <1>1, <1>3, <1>5, <2>1, <3>1 DEF Waits
        <3> QED
            BY <1>7, <2>1, <3>1, <3>2
    <2>2. ASSUME NEW d \in Coroutines, co'[d].status \in {"running", "suspended"}
          PROVE  co[d].status \in {"running", "suspended"} /\ co'[d].result = co[d].result
        BY <1>6, <1>7, <2>2
    <2> QED
        BY <1>3, <1>4, <2>1, <2>2, WaitsStay
<1> QED
    BY <1>3, <1>4, <1>9, <1>11, <1>12, ListsQuiet, BirthsStay, ChainedStay DEF Inv

----------------------------------------------------------------------------
(***************************************************************************)
(* Calls, the loop and the collector: what they do comes before the rest.  *)
(***************************************************************************)
LEMMA OnlyFront ==
    ASSUME Inv, UNCHANGED <<state, reactions, awaiter, co, origin, program>>,
           cancelled \subseteq cancelled',
           handle' \in [Promises -> {"none", "held", "lost"}],
           \A p \in Promises : handle'[p] \in {"none", handle[p]},
           op' \in [Promises -> {"none", "operation", "timeout"}],
           \A p \in Promises : op'[p] \in {"none", op[p]},
           combo' = combo,
           NEW items \in Seq(PlainItems'), work' = items \o work
    PROVE  Inv' /\ Grown
<1>1. Typed /\ Births /\ Lists /\ Waits /\ Chained /\ work \in Seq(SoundItems) /\ Apart(work)
    BY DEF Inv, Stack
<1>2. Grown /\ Undisturbed
    BY QuietGrown DEF Undisturbed
<1>3. Stack'
    BY <1>1, <1>2, PlainStep
<1>4. Typed'
    BY <1>1 DEF Typed
<1>5. Births'
    BY <1>1, <1>2, BirthsStay
<1>6. Lists' /\ Waits' /\ Chained'
    BY <1>1, <1>2, ListsQuiet, WaitsQuiet, ChainedStay
<1> QED
    BY <1>2, <1>3, <1>4, <1>5, <1>6 DEF Inv

LEMMA CancelStep ==
    ASSUME Inv, NEW p \in Promises, cancel(p)
    PROVE  Inv' /\ Grown
<1>1. /\ UNCHANGED <<state, reactions, awaiter, handle, op, combo, co, origin, program>>
      /\ cancelled' = cancelled \cup {p} /\ state[p] = "pending"
      /\ work' = <<Settle(p, "rejected"), Return(p, NoPromise)>> \o work
      /\ Typed
    BY DEF cancel, owners, Call, Inv
<1>2. Settle(p, "rejected") \in PlainItems'
    <2>1. "rejected" \in Settled /\ state'[p] # "unborn" /\ Free_to_become(p, "rejected")'
        BY <1>1 DEF Settled, Free_to_become
    <2> QED
        BY <2>1, PlainSettle
<1>3. Return(p, NoPromise) \in PlainItems'
    BY PlainReturn DEF SomePromise
<1>4. <<Settle(p, "rejected"), Return(p, NoPromise)>> \in Seq(PlainItems')
    BY <1>2, <1>3
<1> QED
    BY <1>1, <1>4, OnlyFront DEF Typed

LEMMA AwaitSyncStep ==
    ASSUME Inv, NEW p \in Promises, await_sync(p)
    PROVE  Inv' /\ Grown
<1>1. /\ UNCHANGED <<state, reactions, awaiter, handle, op, combo, co, origin, cancelled, program>>
      /\ work' = <<Sync(p)>> \o work /\ Typed
    BY DEF await_sync, owners, history, Call, Inv
<1>2. <<Sync(p)>> \in Seq(PlainItems')
    BY PlainOthers
<1> QED
    BY <1>1, <1>2, OnlyFront DEF Typed

LEMMA CompleteStep ==
    ASSUME Inv, NEW p \in Promises, NEW how \in Settled, complete(p, how)
    PROVE  Inv' /\ Grown
<1>1. /\ UNCHANGED <<state, reactions, awaiter, handle, combo, co, origin, cancelled, program>>
      /\ op[p] # "none" /\ op' = [op EXCEPT ![p] = "none"]
      /\ work' = <<Settle(p, how), Release(p)>> \o work
      /\ Typed /\ Births
    BY DEF complete, history, bounds, Inv
<1>2. Root(p)
    BY <1>1 DEF Births
<1>3. Settle(p, how) \in PlainItems'
    BY <1>1, <1>2, PlainSettle DEF Root, Free_to_become
<1>4. <<Settle(p, how), Release(p)>> \in Seq(PlainItems')
    BY <1>3, PlainOthers
<1>5. op' \in [Promises -> {"none", "operation", "timeout"}] /\ \A q \in Promises : op'[q] \in {"none", op[q]}
    BY <1>1 DEF Typed
<1> QED
    BY <1>1, <1>4, <1>5, OnlyFront DEF Typed

LEMMA CollectStep ==
    ASSUME Inv, NEW p \in Promises, collect(p)
    PROVE  Inv' /\ Grown
<1>1. /\ UNCHANGED <<state, reactions, awaiter, op, combo, co, origin, cancelled, program>>
      /\ handle' = [handle EXCEPT ![p] = "none"]
      /\ work' = <<Release(p)>> \o work /\ Typed
    BY DEF collect, history, bounds, Inv
<1>2. <<Release(p)>> \in Seq(PlainItems')
    BY PlainOthers
<1>3. handle' \in [Promises -> {"none", "held", "lost"}] /\ \A q \in Promises : handle'[q] \in {"none", handle[q]}
    BY <1>1 DEF Typed
<1> QED
    BY <1>1, <1>2, <1>3, OnlyFront DEF Typed

\* Promises are born, none of them as the child of another.
LEMMA RootsBorn ==
    ASSUME Inv, UNCHANGED <<reactions, origin, cancelled>>,
           \A p \in Promises : state'[p] = state[p] \/ (state[p] = "unborn" /\ state'[p] # "unborn")
    PROVE  /\ Grown /\ Lists' /\ Chained'
           /\ \A p \in Promises : state[p] = "unborn" /\ state'[p] # "unborn" => Root(p)'
<1>1. Typed /\ Births /\ Lists /\ Chained
    BY DEF Inv
<1>2. Grown
    BY DEF Grown, Settled
<1>3. Lists'
    <2> SUFFICES ASSUME NEW p \in Promises PROVE ListOK(p)'
        BY DEF Lists
    <2>1. ListOK(p)
        BY <1>1 DEF Lists
    <2>2. reactions[p] # <<>> => state'[p] = state[p]
        BY <2>1 DEF ListOK
    <2>3. \A i \in DOMAIN reactions[p] : origin'[reactions[p][i].child].calls = 0
        BY <2>1 DEF ListOK
    <2> QED
        BY <1>1, <1>2, <2>1, <2>2, <2>3, ListStays
<1>4. ASSUME NEW p \in Promises, state[p] = "unborn" PROVE origin'[p].parent = NoPromise
    BY <1>1, <1>4 DEF Births, NoOrigin
<1>5. Chained'
    <2>1. \A p \in Promises : state'[p] # state[p] => Free_to_become(p, state[p])'
        BY <1>4 DEF Free_to_become
    <2> QED
        BY <1>1, <1>2, <2>1, ChainedStay
<1> QED
    BY <1>2, <1>3, <1>4, <1>5 DEF Root

LEMMA SpawnStep ==
    ASSUME Inv, NEW p \in Fresh({}), spawn(p)
    PROVE  Inv' /\ Grown
<1>1. /\ UNCHANGED <<reactions, awaiter, combo, co, origin, cancelled, program>>
      /\ state' = [state EXCEPT ![p] = "pending"]
      /\ handle' = [handle EXCEPT ![p] = "held"] /\ op' = [op EXCEPT ![p] = "operation"]
      /\ work' = <<>> \o work
      /\ Typed /\ Births /\ Lists /\ Waits /\ Chained /\ work \in Seq(SoundItems) /\ Apart(work)
    BY DEF spawn, Born, Call, history, Inv, Stack
<1>2. p \in Promises /\ state[p] = "unborn"
    BY <1>1, FreshUnborn
<1>3. /\ Grown /\ Lists' /\ Chained'
      /\ \A q \in Promises : state[q] = "unborn" /\ state'[q] # "unborn" => Root(q)'
    <2>1. \A q \in Promises : state'[q] = state[q] \/ (state[q] = "unborn" /\ state'[q] # "unborn")
        BY <1>1, <1>2 DEF Typed
    <2> QED
        BY <1>1, <2>1, RootsBorn
<1>4. Stack'
    <2>1. <<>> \in Seq(PlainItems') /\ Undisturbed
        BY <1>1 DEF Undisturbed
    <2> QED
        BY <1>1, <1>3, <2>1, PlainStep
<1>5. Typed'
    BY <1>1, <1>2 DEF Typed, States
<1>6. Births'
    <2>1. Root(p)'
        BY <1>1, <1>2, <1>3 DEF Typed
    <2>2. \A q \in Promises : /\ handle'[q] = handle[q] \/ state'[q] # "unborn"
                              /\ op'[q] = op[q] \/ q = p
        BY <1>1, <1>2 DEF Typed
    <2> QED
        BY <1>1, <1>3, <2>1, <2>2, BirthsStay
<1> QED
    BY <1>1, <1>3, <1>4, <1>5, <1>6, WaitsQuiet DEF Inv

LEMMA SettledStep ==
    ASSUME Inv, NEW p \in Fresh({}), NEW how \in Settled, settled(p, how)
    PROVE  Inv' /\ Grown
<1>1. /\ UNCHANGED <<reactions, awaiter, handle, op, combo, co, origin, cancelled, program>>
      /\ state' = [state EXCEPT ![p] = "pending"]
      /\ work' = <<Settle(p, how), Return(NoPromise, p)>> \o work
      /\ Typed /\ Births /\ Lists /\ Waits /\ Chained /\ work \in Seq(SoundItems) /\ Apart(work)
    BY DEF settled, Born, Call, owners, history, Inv, Stack
<1>2. p \in Promises /\ state[p] = "unborn" /\ state'[p] = "pending"
    <2>1. p \in Promises /\ state[p] = "unborn"
        BY <1>1, FreshUnborn
    <2> QED
        BY <1>1, <2>1 DEF Typed
<1>3. /\ Grown /\ Lists' /\ Chained'
      /\ \A q \in Promises : state[q] = "unborn" /\ state'[q] # "unborn" => Root(q)'
    <2>1. \A q \in Promises : state'[q] = state[q] \/ (state[q] = "unborn" /\ state'[q] # "unborn")
        BY <1>1, <1>2 DEF Typed
    <2> QED
        BY <1>1, <2>1, RootsBorn
<1>4. Stack'
    <2>1. Settle(p, how) \in PlainItems'
        BY <1>2, <1>3, PlainSettle DEF Root, Free_to_become
    <2>2. Return(NoPromise, p) \in PlainItems'
        BY <1>2, PlainReturn DEF SomePromise
    <2>3. <<Settle(p, how), Return(NoPromise, p)>> \in Seq(PlainItems') /\ Undisturbed
        BY <1>1, <2>1, <2>2 DEF Undisturbed
    <2> QED
        BY <1>1, <1>3, <2>3, PlainStep
<1>5. Typed'
    BY <1>1, <1>2 DEF Typed, States
<1> QED
    BY <1>1, <1>3, <1>4, <1>5, BirthsStay, WaitsQuiet DEF Inv

LEMMA RunAsyncStep ==
    ASSUME Inv, NEW c \in Coroutines, NEW p \in Fresh({}), run_async(c, p)
    PROVE  Inv' /\ Grown
<1>1. /\ UNCHANGED <<reactions, awaiter, handle, op, combo, origin, cancelled, program>>
      /\ state' = [state EXCEPT ![p] = "pending"]
      /\ work' = <<Run(c, NoPromise), Return(NoPromise, p)>> \o work
      /\ co' = [co EXCEPT ![c] = [status |-> "running", result |-> p, waiting |-> NoPromise]]
      /\ co[c].status = "unused"
      /\ Typed /\ Births /\ Lists /\ Waits /\ Chained /\ work \in Seq(SoundItems) /\ Apart(work)
    BY DEF run_async, Born, Call, owners, history, Inv, Stack
<1>2. p \in Promises /\ state[p] = "unborn" /\ state'[p] = "pending"
    <2>1. p \in Promises /\ state[p] = "unborn"
        BY <1>1, FreshUnborn
    <2> QED
        BY <1>1, <2>1 DEF Typed
<1>3. /\ Grown /\ Lists' /\ Chained'
      /\ \A q \in Promises : state[q] = "unborn" /\ state'[q] # "unborn" => Root(q)'
    <2>1. \A q \in Promises : state'[q] = state[q] \/ (state[q] = "unborn" /\ state'[q] # "unborn")
        BY <1>1, <1>2 DEF Typed
    <2> QED
        BY <1>1, <2>1, RootsBorn
<1>4. PICK new \in Contexts : /\ co' = [co EXCEPT ![c] = new]
                              /\ new.status = "running" /\ new.result = p
    <2>1. [status |-> "running", result |-> p, waiting |-> NoPromise] \in Contexts
        BY <1>2 DEF Contexts, SomePromise
    <2> QED
        BY <1>1, <2>1
<1>5. /\ co' \in [Coroutines -> Contexts] /\ co'[c] = new
      /\ \A d \in Coroutines : d # c => co'[d] = co[d]
    BY <1>1, <1>4, ContextStep
<1>6. Stack'
    <2>1. \A i \in DOMAIN work : work[i] \in WorkItems /\ Sound(work[i])
        BY <1>1 DEF SoundItems
    <2>2. \A j \in DOMAIN work : work[j].do \in {"run", "finish"} => work[j].c # c
        BY <1>1, <2>1 DEF Sound
    <2>3. Undisturbed
        BY <1>1, <1>5 DEF Undisturbed
    <2>4. work \in Seq(SoundItems')
        BY <1>1, <1>3, <2>3, RestUndisturbed
    <2>5. Return(NoPromise, p) \in PlainItems'
        BY <1>2, PlainReturn DEF SomePromise
    <2>6. Return(NoPromise, p) \in SoundItems' /\ Plain(Return(NoPromise, p))
        BY <2>5 DEF PlainItems
    <2>7. Run(c, NoPromise) \in SoundItems' /\ Run(c, NoPromise).do = "run" /\ Run(c, NoPromise).c = c
        <3>1. Run(c, NoPromise) \in WorkItems
            BY ItemKinds DEF SomePromise
        <3> QED
            BY <1>4, <1>5, <3>1 DEF SoundItems, Sound, Run
    <2>8. PICK items : items = <<Run(c, NoPromise), Return(NoPromise, p)>>
        OBVIOUS
    <2>9. items \in Seq(SoundItems') /\ DOMAIN items = 1 .. 2
          /\ Plain(items[2]) /\ items[1].do = "run" /\ items[1].c = c
        BY <2>6, <2>7, <2>8
    <2>10. Apart(items)
        BY <2>9 DEF Apart, Clash, Plain
    <2>11. \A i \in DOMAIN items, j \in DOMAIN work : ~Clash(items[i], work[j])
        BY <2>2, <2>9 DEF Clash, Plain
    <2>12. PICK rest : rest = work
        OBVIOUS
    <2>13. /\ rest \in Seq(SoundItems') /\ Apart(rest) /\ work' = items \o rest
           /\ \A i \in DOMAIN items, j \in DOMAIN rest : ~Clash(items[i], rest[j])
        BY <1>1, <2>4, <2>8, <2>11, <2>12
    <2> QED
        BY <2>9, <2>10, <2>13, StackStep
<1>7. Typed'
    BY <1>1, <1>2, <1>5 DEF Typed, States
<1>8. Waits'
    <2>1. ASSUME NEW q \in Promises, awaiter'[q] \in Coroutines
          PROVE  awaiter'[q] = awaiter[q] /\ co'[awaiter[q]] = co[awaiter[q]]
        BY <1>1, <1>5, <2>1 DEF Waits
    <2>2. ASSUME NEW d \in Coroutines, co'[d].status \in {"running", "suspended"}, d # c
          PROVE  co[d].status \in {"running", "suspended"} /\ co'[d].result = co[d].result
        BY <1>5, <2>2
    <2>3. Root(co[c].result)'
        BY <1>2, <1>3, <1>4, <1>5 DEF Root
    <2> QED
        BY <1>1, <1>3, <2>1, <2>2, <2>3, WaitsStay
<1> QED
    BY <1>1, <1>3, <1>6, <1>7, <1>8, BirthsStay DEF Inv

\* The child of p and the reaction that will settle it.
LEMMA ChainStep ==
    ASSUME Inv, NEW p \in Promises, NEW type \in Types, NEW handler \in BOOLEAN, NEW child \in Fresh({}),
           chain(p, type, handler, child)
    PROVE  Inv' /\ Grown
<1> DEFINE r == [type |-> type, handler |-> handler, child |-> child]
           made == [parent |-> p, type |-> type, handler |-> handler, calls |-> 0]
<1>1. /\ UNCHANGED <<awaiter, handle, op, combo, co, cancelled, program>>
      /\ state' = [state EXCEPT ![child] = "pending"]
      /\ origin' = [origin EXCEPT ![child] = made]
      /\ Typed /\ Births /\ Lists /\ Waits /\ Chained /\ work \in Seq(SoundItems) /\ Apart(work)
    BY DEF chain, Born, owners, Inv, Stack
<1>2. child \in Promises /\ state[child] = "unborn"
    BY <1>1, FreshUnborn
<1>3. /\ state'[child] = "pending" /\ origin'[child] = made
      /\ \A q \in Promises : q # child => state'[q] = state[q] /\ origin'[q] = origin[q]
    BY <1>1, <1>2 DEF Typed
<1>4. Grown
    BY <1>1, <1>2, <1>3 DEF Grown, Settled
<1>5. Undisturbed
    BY <1>1, <1>2, <1>3 DEF Undisturbed
<1>6. r \in Reactions /\ r.child = child /\ made \in Origins
    BY <1>2 DEF Reactions, Origins, SomePromise
<1>7. PICK rs \in Seq(Reactions) : rs = reactions[p]
    BY <1>1 DEF Typed
<1>8. DOMAIN rs = 1 .. Len(rs) /\ Len(rs) \in Nat /\ \A i \in DOMAIN rs : rs[i] \in Reactions
    OBVIOUS
<1>9. Registered(r, p)'
    BY <1>3, <1>6 DEF Registered
<1>10. Return(p, child) \in PlainItems'
    BY <1>2, <1>3, PlainReturn DEF SomePromise
<1>11. Births' /\ Waits'
    BY <1>1, <1>4, BirthsStay, WaitsQuiet
<1>12. Chained'
    <2>1. \A q \in Promises : state'[q] \in Settled => state'[q] = state[q]
        BY <1>3 DEF Settled
    <2> QED
        BY <1>1, <1>4, <2>1, ChainedStay
<1>13. \A q \in Promises : q # p => (reactions'[q] = reactions[q] => ListOK(q)')
    <2> SUFFICES ASSUME NEW q \in Promises, reactions'[q] = reactions[q] PROVE ListOK(q)'
        OBVIOUS
    <2>1. ListOK(q)
        BY <1>1 DEF Lists
    <2>2. reactions[q] # <<>> => state'[q] = state[q]
        BY <1>2, <1>3, <2>1 DEF ListOK
    <2> QED
        BY <1>1, <1>4, <1>5, <2>1, <2>2, ListUndisturbed
<1>14. CASE state[p] = "pending"
    <2>1. /\ reactions' = [reactions EXCEPT ![p] = <<r>> \o rs]
          /\ work' = <<Return(p, child)>> \o work
        BY <1>7, <1>14 DEF chain, Call, Settled
    <2>2. Stack'
        <3>1. <<Return(p, child)>> \in Seq(PlainItems')
            BY <1>10
        <3> QED
            BY <1>1, <1>4, <1>5, <2>1, <3>1, PlainStep
    <2>3. PICK all : all = <<r>> \o rs
        OBVIOUS
    <2>4. all \in Seq(Reactions) /\ Len(all) = Len(rs) + 1 /\ DOMAIN all = 1 .. Len(rs) + 1
          /\ all[1] = r /\ \A i \in 2 .. Len(rs) + 1 : all[i] = rs[i - 1] /\ i - 1 \in DOMAIN rs
        <3>1. <<r>> \in Seq(Reactions) /\ Len(<<r>>) = 1 /\ <<r>>[1] = r
            BY <1>6
        <3>2. PICK one \in Seq(Reactions) : one = <<r>> /\ Len(one) = 1 /\ one[1] = r
            BY <3>1
        <3> QED
            BY <1>8, <2>3, <3>2
    <2>5. reactions' = [reactions EXCEPT ![p] = all]
        BY <2>1, <2>3
    <2>6. Typed'
        BY <1>1, <1>2, <1>6, <2>4, <2>5 DEF Typed, States
    <2>7. reactions'[p] = all /\ \A q \in Promises : q # p => reactions'[q] = reactions[q]
        BY <1>1, <2>5 DEF Typed
    <2>8. \A i \in DOMAIN rs : /\ Registered(rs[i], p) /\ origin[rs[i].child].calls = 0
                               /\ \A j \in DOMAIN rs : i # j => rs[i].child # rs[j].child
        BY <1>1, <1>7 DEF Lists, ListOK
    <2>9. ASSUME NEW i \in DOMAIN rs
          PROVE  Registered(rs[i], p)' /\ origin'[rs[i].child].calls = 0 /\ rs[i].child # child
        <3>1. Registered(rs[i], p)' /\ state[rs[i].child] # "unborn"
            BY <1>1, <1>4, <1>8, <2>8, RegisteredStays
        <3>2. rs[i].child \in Promises
            BY <1>8 DEF Reactions
        <3> QED
            BY <1>2, <1>3, <2>8, <3>1, <3>2
    <2>10. ListOK(p)'
        <3>1. state'[p] = "pending"
            BY <1>3, <1>14
        <3>2. ASSUME NEW i \in DOMAIN all PROVE Registered(all[i], p)' /\ origin'[all[i].child].calls = 0
            <4>1. CASE i = 1
                BY <1>3, <1>6, <1>9, <2>4, <4>1
            <4>2. CASE i # 1
                <5>1. i \in 2 .. Len(rs) + 1
                    BY <2>4, <4>2
                <5>2. all[i] = rs[i - 1] /\ i - 1 \in DOMAIN rs
                    BY <2>4, <5>1
                <5> QED
                    BY <2>9, <5>2
            <4> QED
                BY <4>1, <4>2
        <3>3. ASSUME NEW i \in DOMAIN all, NEW j \in DOMAIN all, i < j PROVE all[i].child # all[j].child
            <4>1. j \in 2 .. Len(rs) + 1 /\ i \in 1 .. Len(rs) + 1
                BY <1>8, <2>4, <3>3
            <4>2. all[j] = rs[j - 1] /\ j - 1 \in DOMAIN rs
                BY <2>4, <4>1
            <4>3. CASE i = 1
                BY <1>6, <2>4, <2>9, <4>2, <4>3
            <4>4. CASE i # 1
                <5>1. i \in 2 .. Len(rs) + 1
                    BY <4>1, <4>4
                <5>2. all[i] = rs[i - 1] /\ i - 1 \in DOMAIN rs /\ i - 1 # j - 1
                    BY <2>4, <3>3, <4>1, <5>1
                <5> QED
                    BY <2>8, <4>2, <5>2
            <4> QED
                BY <4>3, <4>4
        <3>4. ASSUME NEW i \in DOMAIN all, NEW j \in DOMAIN all, i # j PROVE all[i].child # all[j].child
            <4>1. i < j \/ j < i
                BY <2>4, <3>4
            <4> QED
                BY <3>3, <4>1
        <3> QED
            BY <2>7, <3>1, <3>2, <3>4 DEF ListOK, Registered
    <2>11. Lists'
        BY <1>13, <2>7, <2>10 DEF Lists
    <2> QED
        BY <1>4, <1>11, <1>12, <2>2, <2>6, <2>11 DEF Inv
<1>15. CASE state[p] \in Settled
    <2>1. rs = <<>>
        BY <1>1, <1>7, <1>15 DEF Lists, ListOK, Settled
    <2>2. PICK all : all = <<r>> \o rs
        OBVIOUS
    <2>3. DOMAIN all = {1} /\ all[1] = r
        BY <2>1, <2>2
    <2>4. /\ reactions' = [reactions EXCEPT ![p] = <<>>]
          /\ work' = ([i \in DOMAIN all |-> React(p, all[i])] \o <<Return(p, child)>>) \o work
        BY <1>7, <1>15, <2>2 DEF chain, Call, Settled
    <2>5. [i \in DOMAIN all |-> React(p, all[i])] = <<React(p, r)>>
        BY <2>3
    <2>6. PICK items : items = <<React(p, r), Return(p, child)>>
        OBVIOUS
    <2>7. work' = items \o work
        BY <2>4, <2>5, <2>6
    <2>8. Stack'
        <3>1. React(p, r) \in SoundItems' /\ React(p, r).do = "react" /\ React(p, r).r = r
            <4>1. React(p, r) \in WorkItems
                BY <1>6, ItemKinds
            <4>2. state'[p] \in Settled /\ origin'[r.child].calls = 0
                BY <1>2, <1>3, <1>6, <1>15 DEF Settled
            <4> QED
                BY <1>9, <4>1, <4>2 DEF SoundItems, Sound, React
        <3>2. Return(p, child) \in SoundItems' /\ Plain(Return(p, child))
            BY <1>10 DEF PlainItems
        <3>3. items \in Seq(SoundItems') /\ DOMAIN items = 1 .. 2
              /\ items[1].do = "react" /\ items[1].r = r /\ Plain(items[2])
            BY <2>6, <3>1, <3>2
        <3>4. Apart(items)
            BY <3>3 DEF Apart, Clash, Plain
        <3>5. ASSUME NEW j \in DOMAIN work PROVE ~Clash(items[1], work[j])
            <4>1. work[j] \in WorkItems /\ Sound(work[j])
                BY <1>1 DEF SoundItems
            <4>2. ASSUME work[j].do = "react" PROVE work[j].r.child # child
                <5>1. work[j].p \in Promises /\ work[j].r \in Reactions /\ Registered(work[j].r, work[j].p)
                    BY <4>1, <4>2, ItemFields DEF Sound
                <5> QED
                    BY <1>1, <1>2, <1>4, <5>1, RegisteredStays
            <4> QED
                BY <1>6, <3>3, <4>2 DEF Clash
        <3>6. PICK rest : rest = work
            OBVIOUS
        <3>7. rest \in Seq(SoundItems') /\ Apart(rest)
            BY <1>1, <1>4, <1>5, <3>6, RestUndisturbed
        <3>8. \A i \in DOMAIN items, j \in DOMAIN rest : ~Clash(items[i], rest[j])
            BY <3>3, <3>5, <3>6 DEF Clash, Plain
        <3> QED
            BY <2>7, <3>3, <3>4, <3>6, <3>7, <3>8, StackStep
    <2>9. Typed'
        BY <1>1, <1>2, <1>6, <2>4 DEF Typed, States
    <2>10. reactions'[p] = <<>> /\ \A q \in Promises : q # p => reactions'[q] = reactions[q]
        BY <1>1, <2>4 DEF Typed
    <2>11. Lists'
        BY <1>13, <2>10, EmptyList DEF Lists
    <2> QED
        BY <1>4, <1>11, <1>12, <2>8, <2>9, <2>11 DEF Inv
<1> QED
    BY <1>14, <1>15 DEF chain

----------------------------------------------------------------------------
(***************************************************************************)
(* Combinators.                                                            *)
(***************************************************************************)
Found == {"pending"} \cup Settled

LEMMA VerdictKind ==
    ASSUME NEW mode \in Modes, NEW found \in [1 .. 2 -> Found]
    PROVE  Verdict(mode, found) \in Found
<1> DEFINE some(how) == \E i \in DOMAIN found : found[i] = how
           early(i) == found[i] # "pending" /\ \A j \in 1 .. i - 1 : found[j] = "pending"
<1>1. CASE mode = "race" /\ (some("fulfilled") \/ some("rejected"))
    <2>1. 1 \in DOMAIN found /\ 2 \in DOMAIN found /\ DOMAIN found = {1, 2}
        OBVIOUS
    <2>2. \E i \in DOMAIN found : early(i)
        <3>1. CASE found[1] # "pending"
            BY <2>1, <3>1
        <3>2. CASE found[1] = "pending"
            <4>1. found[2] # "pending"
                BY <1>1, <2>1, <3>2
            <4>2. \A j \in 1 .. 2 - 1 : found[j] = "pending"
                BY <3>2
            <4> QED
                BY <2>1, <4>1, <4>2
        <3> QED
            BY <3>1, <3>2
    <2>3. (CHOOSE i \in DOMAIN found : early(i)) \in DOMAIN found
        BY <2>2
    <2>4. Verdict(mode, found) = found[CHOOSE i \in DOMAIN found : early(i)]
        BY <1>1 DEF Verdict
    <2> QED
        BY <2>3, <2>4
<1>2. CASE ~(mode = "race" /\ (some("fulfilled") \/ some("rejected")))
    BY <1>2 DEF Verdict, Found, Settled, Modes
<1> QED
    BY <1>1, <1>2

\* A combinator of a and b is made: m is its promise, and st what the states are
\* but for m.
LEMMA ComposeStep ==
    ASSUME Inv, NEW mode \in Modes, NEW a \in Promises, NEW b \in Promises, NEW m \in Promises,
           NEW st \in [Promises -> States], st[m] = "unborn", st[a] # "unborn", st[b] # "unborn",
           \A p \in Promises : st[p] = state[p] \/ (state[p] = "unborn" /\ st[p] = "pending"),
           NEW refs, Compose(mode, <<a, b>>, m, st, refs),
           handle' \in [Promises -> {"none", "held", "lost"}],
           \A p \in Promises : handle'[p] = handle[p] \/ p = m \/ (state[p] = "unborn" /\ st[p] = "pending"),
           op' \in [Promises -> {"none", "operation", "timeout"}],
           \A p \in Promises : op'[p] = op[p] \/ (state[p] = "unborn" /\ st[p] = "pending"),
           UNCHANGED <<reactions, co, origin, cancelled, program>>, work' = work
    PROVE  Inv' /\ Grown
<1>1. Typed /\ Births /\ Lists /\ Waits /\ Chained /\ work \in Seq(SoundItems) /\ Apart(work)
    BY DEF Inv, Stack
<1>2. PICK children : children = <<a, b>>
    OBVIOUS
<1>3. children \in Seq(Promises) /\ DOMAIN children = 1 .. 2 /\ \A i \in DOMAIN children : children[i] \in {a, b}
    BY <1>2
<1>4. PICK found : found = [i \in DOMAIN children |-> st[children[i]]]
    OBVIOUS
<1>5. found \in [1 .. 2 -> Found]
    <2>1. st[a] \in Found /\ st[b] \in Found
        BY DEF States, Found
    <2> QED
        BY <1>3, <1>4, <2>1
<1>6. PICK verdict \in Found : verdict = Verdict(mode, found)
    BY <1>5, VerdictKind
<1>7. PICK new : new = [mode |-> mode, children |-> children, count |-> Count_settled(found),
                        status |-> IF verdict = "pending" THEN "waiting" ELSE "freed"]
    OBVIOUS
<1>8. /\ state' = [st EXCEPT ![m] = verdict]
      /\ combo' = [combo EXCEPT ![m] = new]
      /\ awaiter' \in [Promises -> Coroutines \cup Promises \cup {NoWaiter}]
      /\ \A q \in Promises : awaiter'[q] \in {m, NoWaiter, awaiter[q]}
    BY <1>1, <1>2, <1>4, <1>6, <1>7 DEF Compose, Typed
<1>9. new \in Combos
    <2>1. IsFiniteSet(1 .. 2)
        BY 1 \in Int /\ 2 \in Int, FS_Interval
    <2>2. (DOMAIN found) \ Pending(found) \subseteq 1 .. 2
        BY <1>5
    <2>3. IsFiniteSet((DOMAIN found) \ Pending(found))
        BY <2>1, <2>2, FS_Subset
    <2>4. Count_settled(found) \in Nat
        BY <2>3, FS_CardinalityType DEF Count_settled
    <2> QED
        BY <1>3, <1>7, <2>4 DEF Combos
<1>10. state[m] = "unborn" /\ state'[m] = verdict /\ \A p \in Promises : p # m => state'[p] = st[p]
    BY <1>8
<1>11. \A p \in Promises : state'[p] = state[p] \/ (state[p] = "unborn" /\ state'[p] # "unborn")
    BY <1>10 DEF Found, Settled
<1>12. /\ Grown /\ Lists' /\ Chained'
       /\ \A p \in Promises : state[p] = "unborn" /\ state'[p] # "unborn" => Root(p)'
    BY <1>11, RootsBorn
<1>13. Stack'
    <2>1. <<>> \in Seq(PlainItems') /\ Undisturbed /\ work' = <<>> \o work
        BY <1>1 DEF Undisturbed
    <2> QED
        BY <1>1, <1>12, <2>1, PlainStep
<1>14. Typed'
    <2>1. state' \in [Promises -> States]
        BY <1>8 DEF States, Found
    <2>2. combo' \in [Promises -> Combos]
        BY <1>1, <1>8, <1>9 DEF Typed
    <2> QED
        BY <1>1, <1>8, <2>1, <2>2 DEF Typed
<1>15. Births'
    <2>1. Root(m)'
        BY <1>10, <1>12 DEF Found, Settled
    <2>2. ASSUME NEW p \in Promises, state[p] = "unborn", st[p] = "pending" PROVE Root(p)' /\ state'[p] # "unborn"
        BY <1>10, <1>12, <2>2, <2>1 DEF Root
    <2>3. \A p \in Promises : p # m => combo'[p] = combo[p]
        BY <1>1, <1>8 DEF Typed
    <2>4. state'[m] # "unborn"
        BY <2>1 DEF Root
    <2>5. \A p \in Promises : handle'[p] = handle[p] \/ state'[p] # "unborn"
        BY <2>2, <2>4
    <2>6. \A p \in Promises : op'[p] = op[p] \/ Root(p)'
        BY <2>2
    <2>7. \A p \in Promises : combo'[p].status = combo[p].status \/ Root(p)'
        BY <2>1, <2>3
    <2> QED
        BY <1>1, <1>12, <2>5, <2>6, <2>7, BirthsStay
<1>16. Waits'
    <2>1. ASSUME NEW q \in Promises, awaiter'[q] \in Coroutines
          PROVE  awaiter'[q] = awaiter[q] /\ co'[awaiter[q]] = co[awaiter[q]]
        BY <1>8, <2>1, PromiseAssumption
    <2> QED
        BY <1>1, <1>12, <2>1, WaitsStay
<1> QED
    BY <1>12, <1>13, <1>14, <1>15, <1>16 DEF Inv

LEMMA CombineStep ==
    ASSUME Inv, NEW mode \in Modes, NEW a \in Promises, NEW b \in Promises, NEW m \in Fresh({}),
           combine(mode, a, b, m)
    PROVE  Inv' /\ Grown
<1>1. Typed /\ Births
    BY DEF Inv
<1>2. m \in Promises /\ state[m] = "unborn"
    BY <1>1, FreshUnborn
<1>3. state[a] # "unborn" /\ state[b] # "unborn"
    BY <1>1 DEF combine, Births
<1>4. PICK st \in [Promises -> States] : st = state
    BY <1>1 DEF Typed
<1>5. PICK refs : Compose(mode, <<a, b>>, m, st, refs)
    BY <1>4 DEF combine
<1>6. handle' \in [Promises -> {"none", "held", "lost"}] /\ \A p \in Promises : handle'[p] = handle[p] \/ p = m
    BY <1>1, <1>2 DEF combine, Typed
<1>7. work' = work
    BY DEF combine, Call, Inv, Stack
<1>8. UNCHANGED <<op, reactions, co, origin, cancelled, program>>
    BY DEF combine, history
<1>9. op' \in [Promises -> {"none", "operation", "timeout"}] /\ \A p \in Promises : op'[p] = op[p]
    BY <1>1, <1>8 DEF Typed
<1>10. st[m] = "unborn" /\ st[a] # "unborn" /\ st[b] # "unborn" /\ \A p \in Promises : st[p] = state[p]
    BY <1>2, <1>3, <1>4
<1> QED
    BY <1>2, <1>5, <1>6, <1>7, <1>8, <1>9, <1>10, ComposeStep

LEMMA WithTimeoutStep ==
    ASSUME Inv, NEW p \in Promises, NEW t \in Fresh({}), NEW m \in Fresh({t}), with_timeout(p, t, m)
    PROVE  Inv' /\ Grown
<1>1. Typed /\ Births
    BY DEF Inv
<1>2. t \in Promises /\ state[t] = "unborn"
    BY <1>1, FreshUnborn
<1>3. m \in Promises /\ state[m] = "unborn" /\ m # t
    BY <1>1, <1>2, FreshUnborn
<1>4. state[p] # "unborn"
    BY <1>1 DEF with_timeout, Births
<1>5. PICK st : st = [state EXCEPT ![t] = "pending"]
    OBVIOUS
<1>6. st \in [Promises -> States] /\ st[t] = "pending" /\ \A q \in Promises : q # t => st[q] = state[q]
    BY <1>1, <1>2, <1>5 DEF Typed, States
<1>7. PICK refs : Compose("race", <<p, t>>, m, st, refs)
    BY <1>5 DEF with_timeout
<1>8. /\ handle' \in [Promises -> {"none", "held", "lost"}]
      /\ op' \in [Promises -> {"none", "operation", "timeout"}]
      /\ \A q \in Promises : (handle'[q] = handle[q] \/ q \in {m, t}) /\ (op'[q] = op[q] \/ q = t)
    BY <1>1, <1>2, <1>3 DEF with_timeout, Typed
<1>9. work' = work /\ UNCHANGED <<reactions, co, origin, cancelled, program>>
    BY DEF with_timeout, Call, history, Inv, Stack
<1>10. st[m] = "unborn" /\ st[p] # "unborn" /\ st[t] # "unborn" /\ "race" \in Modes
    BY <1>3, <1>4, <1>6 DEF Modes
<1>11. \A q \in Promises : /\ st[q] = state[q] \/ (state[q] = "unborn" /\ st[q] = "pending")
                           /\ handle'[q] = handle[q] \/ q = m \/ (state[q] = "unborn" /\ st[q] = "pending")
                           /\ op'[q] = op[q] \/ (state[q] = "unborn" /\ st[q] = "pending")
    BY <1>2, <1>6, <1>8
<1> QED
    BY <1>2, <1>3, <1>6, <1>7, <1>8, <1>9, <1>10, <1>11, ComposeStep

----------------------------------------------------------------------------
(***************************************************************************)
(* Theorems.                                                               *)
(***************************************************************************)
LEMMA InvInit == Init => Inv
<1> SUFFICES ASSUME Init PROVE Inv
    OBVIOUS
<1>1. Typed
    <2>1. NoContext \in Contexts /\ NoCombo \in Combos /\ NoOrigin \in Origins /\ <<>> \in Seq(Reactions)
        BY DEF NoContext, Contexts, NoCombo, Combos, NoOrigin, Origins, SomePromise
    <2> QED
        BY <2>1 DEF Init, Typed, States
<1>2. Stack
    BY DEF Init, Stack, Apart
<1>3. Lists
    BY DEF Init, Lists, ListOK
<1>4. Births
    BY DEF Init, Births, NoCombo
<1>5. Waits
    BY PromiseAssumption DEF Init, Waits, NoContext
<1>6. Chained
    BY DEF Init, Chained, Settled
<1> QED
    BY <1>1, <1>2, <1>3, <1>4, <1>5, <1>6 DEF Inv

LEMMA InvStutter ==
    ASSUME Inv, UNCHANGED vars
    PROVE  Inv' /\ Grown
<1>1. Typed /\ Births /\ Lists /\ Waits /\ Chained /\ Stack
      /\ UNCHANGED <<state, reactions, awaiter, handle, op, co, combo, origin, cancelled, program, work>>
    BY DEF Inv, vars, owners, history, bounds
<1>2. <<>> \in Seq(PlainItems') /\ work' = <<>> \o work
    BY <1>1 DEF Stack
<1> QED
    BY <1>1, <1>2, OnlyFront DEF Typed

LEMMA InvStep == Inv /\ [Next]_vars => Inv' /\ Grown
<1> SUFFICES ASSUME Inv, [Next]_vars PROVE Inv' /\ Grown
    OBVIOUS
<1>1. CASE UNCHANGED vars
    BY <1>1, InvStutter
<1>2. CASE settle \/ execute_reaction \/ handler_done \/ release \/ laio_promise_settled
    BY <1>2, SettleStep, ReactionStep, HandlerDoneStep, ReleaseStep, PromiseSettledStep
<1>3. CASE compose_on_settled \/ compose_free
    BY <1>3, ComposeSettledStep, ComposeFreeStep
<1>4. CASE await \/ wait \/ coroutine_done \/ coroutine_free \/ return \/ sync_done
    BY <1>4, AwaitStep, WaitStep, CoroutineDoneStep, CoroutineFreeStep, ReturnStep, SyncDoneStep
<1>5. CASE \E p \in Promises : collect(p) \/ \E how \in Settled : complete(p, how)
    BY <1>5, CollectStep, CompleteStep
<1>6. CASE \E p \in Fresh({}) : spawn(p)
    BY <1>6, SpawnStep
<1>7. CASE \E p \in Fresh({}), how \in Settled : settled(p, how)
    BY <1>7, SettledStep
<1>8. CASE \E type \in Types, p \in Promises, handler \in BOOLEAN, child \in Fresh({}) :
            chain(p, type, handler, child)
    BY <1>8, ChainStep
<1>9. CASE \E p \in Promises : cancel(p) \/ await_sync(p)
    BY <1>9, CancelStep, AwaitSyncStep
<1>10. CASE \E c \in Coroutines, p \in Fresh({}) : run_async(c, p)
    BY <1>10, RunAsyncStep
<1>11. CASE \E mode \in Modes, p, q \in Promises, m \in Fresh({}) : combine(mode, p, q, m)
    BY <1>11, CombineStep
<1>12. CASE \E p \in Promises, t \in Fresh({}) : \E m \in Fresh({t}) : with_timeout(p, t, m)
    BY <1>12, WithTimeoutStep
<1> QED
    BY <1>1, <1>2, <1>3, <1>4, <1>5, <1>6, <1>7, <1>8, <1>9, <1>10, <1>11, <1>12 DEF Next

LEMMA InvAlways == Spec => []Inv
BY InvInit, InvStep, PTL DEF Spec

\* A settled promise stays what it is, whatever races to settle it.
THEOREM PromiseSettledForGood == Spec => SettledForGood
<1>1. Inv /\ [Next]_vars => [\A p \in Promises : state[p] \in Settled => state'[p] = state[p]]_vars
    BY InvStep DEF Grown
<1> QED
    BY <1>1, InvAlways, PTL DEF Spec, SettledForGood

\* A handler is called once at most: while its child is in a list or on the
\* stack it has not been called, and it is in one of them once.
THEOREM PromiseHandlersCalledOnce == Spec => []HandlersCalledOnce
<1>1. ASSUME Inv PROVE HandlersCalledOnce
    <2>1. \A p \in Promises : origin[p] \in Origins
        BY <1>1 DEF Inv, Typed
    <2>2. \A p \in Promises : origin[p].calls \in {0, 1}
        BY <2>1 DEF Origins
    <2> QED
        BY <2>2 DEF HandlersCalledOnce
<1> QED
    BY <1>1, InvAlways, PTL

\* What a chained promise became agrees with its parent, unless cancel settled it.
THEOREM PromiseChainOutcome == Spec => []ChainOutcome
<1>1. Inv => ChainOutcome
    BY DEF Inv, Chained, ChainOutcome, Free_to_become, Fits
<1> QED
    BY <1>1, InvAlways, PTL

----------------------------------------------------------------------------
(***************************************************************************)
(* What becomes of combinators, when no promise is waited for twice.       *)
(***************************************************************************)
Children(m) == ToSet(combo[m].children)

\* What a combinator's promise becomes agrees with its children (CombinedOutcome).
Agrees(m, how) ==
    /\ combo[m].mode = "all" =>
        IF how = "fulfilled" THEN \A q \in Children(m) : state[q] = "fulfilled"
        ELSE \E q \in Children(m) : state[q] = "rejected"
    /\ combo[m].mode = "any" =>
        IF how = "rejected" THEN \A q \in Children(m) : state[q] = "rejected"
        ELSE \E q \in Children(m) : state[q] = "fulfilled"
    /\ combo[m].mode = "race" => \E q \in Children(m) : state[q] = how
    /\ combo[m].mode = "allSettled" =>
        how = "fulfilled" /\ \A q \in Children(m) : state[q] \in Settled
May_agree(m, how) == combo[m].mode # "none" => m \in cancelled \/ Agrees(m, how)

\* The promises a combinator watches.
Watched == {q \in Promises : awaiter[q] \in Promises}

\* A coroutine that goes on has a promise behind it that nobody watches.
Settles(x) ==
    /\ x.do = "settle" => May_agree(x.p, x.how)
    /\ x.do = "combined" => combo[x.p].status = "decided"
    /\ x.do \in {"run", "finish"} /\ x.p # NoPromise => state[x.p] \in Settled /\ x.p \notin Watched
SettlingItems == {x \in WorkItems : Settles(x)}

\* The end of a combinator, or the notification of one, is to be done once.
Twice(x, y, watched) ==
    \/ x.do = "combined" /\ y.do = "combined" /\ x.p = y.p
    \/ x.do = "notify" /\ y.do = "notify" /\ x.p = y.p /\ x.p \in watched
Once(s, watched) == \A i, j \in DOMAIN s : i # j => ~Twice(s[i], s[j], watched)
Settling == work \in Seq(SettlingItems) /\ Once(work, Watched)

Made(m) ==
    /\ Root(m) /\ op[m] = "none"
    /\ \A c \in Coroutines : co[c].status \in {"running", "suspended"} => co[c].result # m
    /\ Len(combo[m].children) = 2 /\ combo[m].children[1] # combo[m].children[2]
    /\ \A q \in Children(m) : state[q] # "unborn"
Makes == \A m \in Promises :
    /\ combo[m].mode = "none" => combo[m].status = "none"
    /\ combo[m].mode # "none" => Made(m)

Watching(m) == combo[m].status \in {"waiting", "decided"}
Watches ==
    /\ \A q \in Watched : Watching(awaiter[q]) /\ q \in Children(awaiter[q])
    /\ \A m \in Promises : Watching(m) => \A q \in Children(m) :
        /\ state[q] = "pending" => awaiter[q] = m
        /\ q \in Watched => awaiter[q] = m

\* The children that have been counted: those that were settled when the
\* combinator was made, and those that have told it.
Tells(s, q) == \E i \in DOMAIN s : s[i].do = "notify" /\ s[i].p = q
Counted(m, q) == state[q] \in Settled /\ (awaiter[q] = m => ~Tells(work, q))
Leaves_open(m, q) ==
    /\ combo[m].mode = "all" => state[q] = "fulfilled"
    /\ combo[m].mode = "any" => state[q] = "rejected"
    /\ combo[m].mode # "race"
Tally(m) ==
    LET a == combo[m].children[1]
        b == combo[m].children[2]
    IN  /\ combo[m].count = IF Counted(m, a) \/ Counted(m, b) THEN 1 ELSE 0
        /\ ~(Counted(m, a) /\ Counted(m, b))
        /\ Counted(m, a) => Leaves_open(m, a)
        /\ Counted(m, b) => Leaves_open(m, b)
Tallies == \A m \in Promises : combo[m].status = "waiting" /\ state[m] = "pending" => Tally(m)
Decided == \A m \in Promises : state[m] \in Settled => May_agree(m, state[m])

Combining == Settling /\ Makes /\ Watches /\ Tallies /\ Decided

----------------------------------------------------------------------------
LEMMA SequenceOf ==
    ASSUME NEW S, NEW T, NEW s \in Seq(S), \A i \in DOMAIN s : s[i] \in T
    PROVE  s \in Seq(T)
<1>1. s \in [1 .. Len(s) -> T] /\ Len(s) \in Nat
    OBVIOUS
<1> QED
    BY <1>1

LEMMA ElementsOf ==
    ASSUME NEW S, NEW s \in Seq(S), NEW t \in Seq(S), NEW i \in DOMAIN (s \o t)
    PROVE  \/ i \in DOMAIN s /\ (s \o t)[i] = s[i]
           \/ i - Len(s) \in DOMAIN t /\ (s \o t)[i] = t[i - Len(s)]
<1>1. Len(s) \in Nat /\ Len(t) \in Nat /\ DOMAIN s = 1 .. Len(s) /\ DOMAIN t = 1 .. Len(t)
    OBVIOUS
<1>2. DOMAIN (s \o t) = 1 .. Len(s) + Len(t)
    BY <1>1
<1> QED
    BY <1>1, <1>2

LEMMA OnceFront ==
    ASSUME NEW S, NEW s \in Seq(S), NEW t \in Seq(S), NEW watched, Once(s, watched), Once(t, watched),
           \A i \in DOMAIN s, j \in DOMAIN t : ~Twice(s[i], t[j], watched)
    PROVE  Once(s \o t, watched)
<1>1. Len(s) \in Nat /\ Len(t) \in Nat /\ DOMAIN s = 1 .. Len(s) /\ DOMAIN t = 1 .. Len(t)
    OBVIOUS
<1>2. DOMAIN (s \o t) = 1 .. Len(s) + Len(t)
    BY <1>1
<1>3. \A i \in DOMAIN (s \o t) :
        \/ i \in DOMAIN s /\ (s \o t)[i] = s[i]
        \/ i - Len(s) \in DOMAIN t /\ (s \o t)[i] = t[i - Len(s)]
    BY <1>1, <1>2
<1>4. ASSUME NEW i \in DOMAIN (s \o t), NEW j \in DOMAIN (s \o t), i # j
      PROVE  ~Twice((s \o t)[i], (s \o t)[j], watched)
    <2>1. i \in Int /\ j \in Int
        BY <1>1, <1>2
    <2>2. CASE i \in DOMAIN s /\ (s \o t)[i] = s[i] /\ j \in DOMAIN s /\ (s \o t)[j] = s[j]
        BY <2>2, <1>4 DEF Once
    <2>3. CASE i \in DOMAIN s /\ (s \o t)[i] = s[i] /\ j - Len(s) \in DOMAIN t /\ (s \o t)[j] = t[j - Len(s)]
        BY <2>3
    <2>4. CASE j \in DOMAIN s /\ (s \o t)[j] = s[j] /\ i - Len(s) \in DOMAIN t /\ (s \o t)[i] = t[i - Len(s)]
        BY <2>4 DEF Twice
    <2>5. CASE /\ i - Len(s) \in DOMAIN t /\ (s \o t)[i] = t[i - Len(s)]
               /\ j - Len(s) \in DOMAIN t /\ (s \o t)[j] = t[j - Len(s)]
        <3>1. i - Len(s) # j - Len(s)
            BY <2>1, <1>1, <1>4
        <3> QED
            BY <2>5, <3>1 DEF Once
    <2> QED
        BY <1>3, <2>2, <2>3, <2>4, <2>5
<1> QED
    BY <1>4 DEF Once

LEMMA TellsFront ==
    ASSUME NEW S, NEW s \in Seq(S), NEW t \in Seq(S), NEW q
    PROVE  Tells(s \o t, q) <=> Tells(s, q) \/ Tells(t, q)
<1>1. Len(s) \in Nat /\ Len(t) \in Nat /\ DOMAIN s = 1 .. Len(s) /\ DOMAIN t = 1 .. Len(t)
    OBVIOUS
<1>2. DOMAIN (s \o t) = 1 .. Len(s) + Len(t)
    BY <1>1
<1>3. \A i \in DOMAIN (s \o t) :
        \/ i \in DOMAIN s /\ (s \o t)[i] = s[i]
        \/ i - Len(s) \in DOMAIN t /\ (s \o t)[i] = t[i - Len(s)]
    BY <1>1, <1>2
<1>4. \A i \in DOMAIN s : i \in DOMAIN (s \o t) /\ (s \o t)[i] = s[i]
    BY <1>1, <1>2
<1>5. \A i \in DOMAIN t : i + Len(s) \in DOMAIN (s \o t) /\ (s \o t)[i + Len(s)] = t[i]
    BY <1>1, <1>2
<1>6. Tells(s \o t, q) => Tells(s, q) \/ Tells(t, q)
    BY <1>3 DEF Tells
<1>7. Tells(s, q) => Tells(s \o t, q)
    BY <1>4 DEF Tells
<1>8. Tells(t, q) => Tells(s \o t, q)
    BY <1>5 DEF Tells
<1> QED
    BY <1>6, <1>7, <1>8

\* The top of the stack and the rest.
LEMMA HeadSettles ==
    ASSUME Settling, work # <<>>
    PROVE  /\ Now \in SettlingItems /\ Tail(work) \in Seq(SettlingItems) /\ Once(Tail(work), Watched)
           /\ \A j \in DOMAIN Tail(work) : ~Twice(Now, Tail(work)[j], Watched)
           /\ \A q : Tells(work, q) <=> (Now.do = "notify" /\ Now.p = q) \/ Tells(Tail(work), q)
<1>1. work \in Seq(SettlingItems) /\ Len(work) \in Nat /\ Len(work) > 0
    BY DEF Settling
<1>2. Now = work[1] /\ 1 \in DOMAIN work /\ work[1] \in SettlingItems
    BY <1>1 DEF Now
<1>3. Tail(work) \in Seq(SettlingItems) /\ Len(Tail(work)) = Len(work) - 1
    BY <1>1
<1>4. \A j \in DOMAIN Tail(work) : j \in Nat /\ j + 1 \in DOMAIN work /\ Tail(work)[j] = work[j + 1] /\ j + 1 # 1
    BY <1>1, <1>3
<1>5. \A i \in DOMAIN work : i = 1 \/ (i - 1 \in DOMAIN Tail(work) /\ work[i] = Tail(work)[i - 1])
    BY <1>1, <1>3
<1>6. Once(Tail(work), Watched)
    BY <1>4 DEF Settling, Once
<1>7. \A j \in DOMAIN Tail(work) : ~Twice(Now, Tail(work)[j], Watched)
    BY <1>2, <1>4 DEF Settling, Once
<1>8. ASSUME NEW q, Tells(work, q) PROVE (Now.do = "notify" /\ Now.p = q) \/ Tells(Tail(work), q)
    BY <1>2, <1>5, <1>8 DEF Tells
<1>9. ASSUME NEW q, (Now.do = "notify" /\ Now.p = q) \/ Tells(Tail(work), q) PROVE Tells(work, q)
    BY <1>2, <1>4, <1>9 DEF Tells
<1> QED
    BY <1>2, <1>3, <1>6, <1>7, <1>8, <1>9

\* Combinators that have been made stay what they are; the others are new.
Kept_combos ==
    \A m \in Promises : state[m] # "unborn" =>
        combo'[m].mode = combo[m].mode /\ combo'[m].children = combo[m].children

LEMMA ChildrenIn ==
    ASSUME Typed, NEW m \in Promises
    PROVE  Children(m) \subseteq Promises
<1>1. combo[m].children \in Seq(Promises)
    BY DEF Typed, Combos
<1> QED
    BY <1>1 DEF Children, ToSet

LEMMA AgreesStays ==
    ASSUME Typed, Makes, Grown, Kept_combos, NEW m \in Promises, state[m] # "unborn",
           NEW how \in Settled, May_agree(m, how)
    PROVE  May_agree(m, how)'
<1>1. combo'[m].mode = combo[m].mode /\ Children(m)' = Children(m)
    BY DEF Kept_combos, Children
<1>2. CASE combo[m].mode = "none" \/ m \in cancelled
    BY <1>1, <1>2 DEF May_agree, Grown
<1>3. CASE combo[m].mode # "none" /\ Agrees(m, how)
    <2>1. \A q \in Children(m) : state[q] \in Settled => state'[q] = state[q]
        BY ChildrenIn DEF Grown
    <2>2. \A q \in Children(m) : \A s \in Settled : state[q] = s => state'[q] = s
        BY <2>1
    <2>3. Agrees(m, how)'
        BY <1>1, <1>3, <2>2 DEF Agrees, Settled
    <2> QED
        BY <2>3 DEF May_agree
<1> QED
    BY <1>2, <1>3 DEF May_agree

LEMMA SettlesStays ==
    ASSUME Typed, Makes, Grown, Kept_combos, NEW x \in SettlingItems, Sound(x),
           x.do = "combined" => combo'[x.p].status = "decided",
           x.do \in {"run", "finish"} /\ x.p # NoPromise => x.p \notin Watched'
    PROVE  x \in SettlingItems'
<1>1. x \in WorkItems /\ Settles(x)
    BY DEF SettlingItems
<1>2. CASE x.do = "settle"
    <2>1. x.p \in Promises /\ x.how \in Settled /\ state[x.p] # "unborn"
        BY <1>1, <1>2, ItemFields DEF Sound
    <2>2. May_agree(x.p, x.how)'
        BY <1>1, <1>2, <2>1, AgreesStays DEF Settles
    <2> QED
        BY <1>1, <1>2, <2>2 DEF SettlingItems, Settles
<1>3. CASE x.do \in {"run", "finish"}
    <2>1. x.p # NoPromise => x.p \in Promises /\ state[x.p] \in Settled
        BY <1>1, <1>3, ItemFields DEF Settles, SomePromise
    <2>2. x.p # NoPromise => state'[x.p] \in Settled
        BY <2>1 DEF Grown
    <2> QED
        BY <1>1, <1>3, <2>2 DEF SettlingItems, Settles
<1>4. CASE x.do \notin {"settle", "run", "finish"}
    BY <1>1, <1>4 DEF SettlingItems, Settles
<1> QED
    BY <1>2, <1>3, <1>4

LEMMA SettlingRest ==
    ASSUME Typed, Makes, Grown, Kept_combos,
           NEW rest \in Seq(SettlingItems), rest \in Seq(SoundItems),
           \A i \in DOMAIN rest :
            /\ rest[i].do = "combined" => combo'[rest[i].p].status = "decided"
            /\ rest[i].do \in {"run", "finish"} /\ rest[i].p # NoPromise => rest[i].p \notin Watched'
    PROVE  rest \in Seq(SettlingItems')
<1>1. \A i \in DOMAIN rest : rest[i] \in SettlingItems
    OBVIOUS
<1>2. \A i \in DOMAIN rest : rest[i] \in SoundItems
    OBVIOUS
<1>3. \A i \in DOMAIN rest : rest[i] \in SettlingItems'
    BY <1>1, <1>2, SettlesStays DEF SoundItems
<1>4. rest \in [1 .. Len(rest) -> SettlingItems'] /\ Len(rest) \in Nat
    BY <1>3
<1> QED
    BY <1>4

LEMMA SettlingStep ==
    ASSUME NEW items \in Seq(SettlingItems'), NEW rest \in Seq(SettlingItems'),
           Once(items, Watched'), Once(rest, Watched'), work' = items \o rest,
           \A i \in DOMAIN items, j \in DOMAIN rest : ~Twice(items[i], rest[j], Watched')
    PROVE  Settling'
<1>1. PICK watched : watched = Watched'
    OBVIOUS
<1>2. Once(items \o rest, watched)
    BY <1>1, OnceFront
<1>3. Once(work, Watched)' <=> Once(work', watched)
    BY <1>1 DEF Once
<1> QED
    BY <1>2, <1>3 DEF Settling

----------------------------------------------------------------------------
(***************************************************************************)
(* Steps that tell no combinator anything: promises may be born, and       *)
(* coroutines be resumed and wait.                                         *)
(***************************************************************************)
Untold(items) ==
    \A i \in DOMAIN items : items[i].do # "combined" /\ (items[i].do = "notify" => items[i].p \notin Watched)

\* The stack, whole or without its top, if that notifies no combinator.
Left_to_do(rest) ==
    \/ rest = work
    \/ /\ rest = Tail(work) /\ work # <<>>
       /\ Now.do = "notify" => Now.p \notin Watched

Calm ==
    /\ Grown /\ combo' = combo
    /\ \A p \in Promises : state'[p] = state[p] \/ (state[p] = "unborn" /\ state'[p] = "pending")
    /\ \A q \in Promises : awaiter'[q] = awaiter[q] \/ (awaiter[q] \notin Promises /\ awaiter'[q] \notin Promises)
    /\ \A m \in Promises : state[m] # "unborn" =>
        /\ op[m] = "none" => op'[m] = "none"
        /\ \A c \in Coroutines : co'[c].status \in {"running", "suspended"} /\ co'[c].result = m =>
            co[c].status \in {"running", "suspended"} /\ co[c].result = m

LEMMA WatchedCalm ==
    ASSUME Calm
    PROVE  /\ Watched' = Watched
           /\ \A q \in Watched : awaiter'[q] = awaiter[q]
<1>1. \A q : q \in Watched' <=> q \in Watched
    BY DEF Calm, Watched
<1> QED
    BY <1>1 DEF Calm, Watched

LEMMA MakesStay ==
    ASSUME Typed, Makes, Grown, Kept_combos,
           \A m \in Promises : combo[m].mode # "none" => op'[m] = "none",
           \A m \in Promises : combo'[m].mode # "none" => combo[m].mode # "none" \/ Made(m)',
           \A m \in Promises : combo'[m].mode = "none" => combo'[m].status = "none",
           \A c \in Coroutines : co'[c].status \in {"running", "suspended"} =>
            \/ co[c].status \in {"running", "suspended"} /\ co[c].result = co'[c].result
            \/ co'[c].result \in Promises => state[co'[c].result] = "unborn"
    PROVE  Makes'
<1> SUFFICES ASSUME NEW m \in Promises, combo'[m].mode # "none", combo[m].mode # "none" PROVE Made(m)'
    BY DEF Makes
<1>1. Made(m)
    BY DEF Makes
<1>2. Root(m)' /\ state[m] # "unborn"
    BY <1>1, RootStays DEF Made, Root
<1>3. combo'[m].children = combo[m].children
    BY <1>2 DEF Kept_combos
<1>4. \A c \in Coroutines : co'[c].status \in {"running", "suspended"} => co'[c].result # m
    BY <1>1, <1>2 DEF Made
<1>5. \A q \in Children(m) : state'[q] # "unborn"
    BY <1>1, ChildrenIn DEF Made, Grown
<1> QED
    BY <1>1, <1>2, <1>3, <1>4, <1>5 DEF Made, Children

LEMMA CalmMakes ==
    ASSUME Typed, Makes, Calm
    PROVE  Makes'
<1>1. Grown /\ Kept_combos /\ combo' = combo
    BY DEF Calm, Kept_combos
<1>2. \A m \in Promises : combo[m].mode # "none" => state[m] # "unborn" /\ op[m] = "none"
    BY DEF Makes, Made, Root
<1>3. \A m \in Promises : combo[m].mode # "none" => op'[m] = "none"
    BY <1>2 DEF Calm
<1>4. \A m \in Promises : combo'[m].mode = "none" => combo'[m].status = "none"
    BY <1>1 DEF Makes
<1>5. \A c \in Coroutines : co'[c].status \in {"running", "suspended"} =>
        \/ co[c].status \in {"running", "suspended"} /\ co[c].result = co'[c].result
        \/ co'[c].result \in Promises => state[co'[c].result] = "unborn"
    BY DEF Calm
<1> QED
    BY <1>1, <1>3, <1>4, <1>5, MakesStay

LEMMA CalmWatches ==
    ASSUME Typed, Makes, Watches, Calm
    PROVE  Watches'
<1>1. combo' = combo /\ Watched' = Watched /\ \A q \in Watched : awaiter'[q] = awaiter[q]
    BY WatchedCalm DEF Calm
<1>2. ASSUME NEW q \in Watched' PROVE Watching(awaiter[q])' /\ q \in Children(awaiter[q])'
    BY <1>1, <1>2 DEF Watches, Watching, Children
<1>3. ASSUME NEW m \in Promises, Watching(m)', NEW q \in Children(m)'
      PROVE  /\ state'[q] = "pending" => awaiter'[q] = m
             /\ q \in Watched' => awaiter'[q] = m
    <2>1. Watching(m) /\ q \in Children(m) /\ q \in Promises
        BY <1>1, <1>3, ChildrenIn DEF Watching, Children
    <2>2. combo[m].mode # "none"
        BY <2>1 DEF Makes, Watching
    <2>3. state[q] # "unborn"
        BY <2>1, <2>2 DEF Makes, Made
    <2>4. state'[q] = state[q]
        BY <2>1, <2>3 DEF Calm
    <2>5. CASE state[q] = "pending"
        <3>1. awaiter[q] = m /\ q \in Watched
            BY <2>1, <2>5 DEF Watches, Watched
        <3> QED
            BY <1>1, <3>1
    <2>6. CASE state[q] # "pending"
        BY <1>1, <2>1, <2>4, <2>6 DEF Watches
    <2> QED
        BY <2>5, <2>6
<1> QED
    BY <1>2, <1>3 DEF Watches

\* The tally of m, if nothing that concerns it has changed.
LEMMA TallyStays ==
    ASSUME Typed, Grown, NEW m \in Promises, Tally(m), Made(m), combo'[m] = combo[m],
           \A q \in Children(m) : Counted(m, q)' <=> Counted(m, q)
    PROVE  Tally(m)'
<1>1. PICK a, b : a = combo[m].children[1] /\ b = combo[m].children[2]
    OBVIOUS
<1>2. a \in Children(m) /\ b \in Children(m) /\ a \in Promises /\ b \in Promises
    <2>1. combo[m].children \in Seq(Promises) /\ Len(combo[m].children) = 2
        BY DEF Typed, Combos, Made
    <2>2. PICK s \in Seq(Promises) : s = combo[m].children /\ Len(s) = 2
        BY <2>1
    <2>3. DOMAIN s = 1 .. 2 /\ a = s[1] /\ b = s[2]
        BY <1>1, <2>2
    <2> QED
        BY <2>2, <2>3 DEF Children, ToSet
<1>3. (Counted(m, a)' <=> Counted(m, a)) /\ (Counted(m, b)' <=> Counted(m, b))
    BY <1>2
<1>4. ASSUME NEW q \in {a, b}, Counted(m, q), Leaves_open(m, q) PROVE Leaves_open(m, q)'
    <2>1. state'[q] = state[q]
        BY <1>2, <1>4 DEF Counted, Grown
    <2> QED
        BY <1>4, <2>1 DEF Leaves_open
<1>5. /\ combo[m].count = IF Counted(m, a) \/ Counted(m, b) THEN 1 ELSE 0
      /\ ~(Counted(m, a) /\ Counted(m, b))
      /\ Counted(m, a) => Leaves_open(m, a)
      /\ Counted(m, b) => Leaves_open(m, b)
    BY <1>1 DEF Tally
<1>6. /\ combo'[m].count = IF Counted(m, a)' \/ Counted(m, b)' THEN 1 ELSE 0
      /\ ~(Counted(m, a)' /\ Counted(m, b)')
      /\ Counted(m, a)' => Leaves_open(m, a)'
      /\ Counted(m, b)' => Leaves_open(m, b)'
    BY <1>3, <1>4, <1>5
<1>7. combo'[m].children[1] = a /\ combo'[m].children[2] = b
    BY <1>1
<1> QED
    BY <1>6, <1>7 DEF Tally, Counted, Leaves_open

LEMMA DecidedStays ==
    ASSUME Typed, Makes, Decided, Grown, Kept_combos,
           \A m \in Promises : state'[m] \in Settled /\ state'[m] # state[m] => May_agree(m, state[m])'
    PROVE  Decided'
<1> SUFFICES ASSUME NEW m \in Promises, state'[m] \in Settled PROVE May_agree(m, state[m])'
    BY DEF Decided
<1>1. CASE state'[m] = state[m]
    <2>1. PICK how \in Settled : how = state[m]
        BY <1>1
    <2>2. May_agree(m, how) /\ state[m] # "unborn"
        BY <2>1 DEF Decided, Settled
    <2>3. May_agree(m, how)'
        BY <2>2, AgreesStays
    <2> QED
        BY <1>1, <2>1, <2>3
<1> QED
    BY <1>1

LEMMA CalmStep ==
    ASSUME Inv, Combining, Calm,
           NEW items \in Seq(SettlingItems'), Untold(items)',
           NEW rest, Left_to_do(rest), work' = items \o rest
    PROVE  Combining'
<1>1. Typed /\ Births /\ Stack /\ Settling /\ Makes /\ Watches /\ Tallies /\ Decided /\ Grown /\ combo' = combo
    BY DEF Inv, Combining, Calm
<1>2. PICK watched : watched = Watched /\ watched = Watched'
    BY WatchedCalm
<1>3. /\ rest \in Seq(SettlingItems) /\ rest \in Seq(SoundItems) /\ Once(rest, watched)
      /\ \A q \in watched : Tells(work, q) <=> Tells(rest, q)
    <2>1. CASE rest = work
        BY <1>1, <1>2, <2>1 DEF Settling, Stack
    <2>2. CASE rest = Tail(work) /\ work # <<>> /\ (Now.do = "notify" => Now.p \notin Watched)
        BY <1>1, <1>2, <2>2, HeadSettles, HeadOfStack
    <2> QED
        BY <2>1, <2>2 DEF Left_to_do
<1>4. Kept_combos
    BY <1>1 DEF Kept_combos
<1>5. \A i \in DOMAIN items : items[i].do # "combined" /\ (items[i].do = "notify" => items[i].p \notin watched)
    BY <1>2 DEF Untold
<1>6. Settling'
    <2>1. ASSUME NEW i \in DOMAIN rest
          PROVE  /\ rest[i].do = "combined" => combo'[rest[i].p].status = "decided"
                 /\ rest[i].do \in {"run", "finish"} /\ rest[i].p # NoPromise => rest[i].p \notin Watched'
        <3>1. rest[i] \in SettlingItems
            BY <1>3
        <3> QED
            BY <1>1, <1>2, <3>1 DEF SettlingItems, Settles
    <2>2. rest \in Seq(SettlingItems')
        BY <1>1, <1>3, <1>4, <2>1, SettlingRest
    <2>3. Once(items, watched)
        BY <1>5 DEF Once, Twice
    <2>4. \A i \in DOMAIN items, j \in DOMAIN rest : ~Twice(items[i], rest[j], watched)
        BY <1>5 DEF Twice
    <2> QED
        BY <1>2, <1>3, <2>2, <2>3, <2>4, SettlingStep
<1>7. Makes' /\ Watches'
    BY <1>1, CalmMakes, CalmWatches
<1>8. \A q \in watched : Tells(work', q) <=> Tells(work, q)
    <2> SUFFICES ASSUME NEW q \in watched PROVE Tells(work', q) <=> Tells(work, q)
        OBVIOUS
    <2>1. ~Tells(items, q)
        BY <1>5 DEF Tells
    <2>2. items \in Seq(WorkItems) /\ rest \in Seq(WorkItems)
        <3>1. \A i \in DOMAIN items : items[i] \in SettlingItems'
            OBVIOUS
        <3>2. \A i \in DOMAIN items : items[i] \in WorkItems
            BY <3>1 DEF SettlingItems
        <3>3. \A i \in DOMAIN rest : rest[i] \in WorkItems
            BY <1>3 DEF SettlingItems
        <3> QED
            BY <1>3, <3>2, <3>3, SequenceOf
    <2>3. Tells(items \o rest, q) <=> Tells(items, q) \/ Tells(rest, q)
        BY <2>2, TellsFront
    <2> QED
        BY <1>3, <2>1, <2>3
<1>9. Tallies'
    <2> SUFFICES ASSUME NEW m \in Promises, combo'[m].status = "waiting", state'[m] = "pending" PROVE Tally(m)'
        BY DEF Tallies
    <2>1. combo[m].status = "waiting" /\ combo[m].mode # "none" /\ Made(m)
        BY <1>1 DEF Makes
    <2>2. state[m] = "pending" /\ Tally(m)
        <3>1. state[m] = "pending"
            BY <2>1 DEF Made, Root, Calm
        <3> QED
            BY <1>1, <2>1, <3>1 DEF Tallies
    <2>3. ASSUME NEW q \in Children(m) PROVE Counted(m, q)' <=> Counted(m, q)
        <3>1. q \in Promises /\ state[q] # "unborn"
            BY <1>1, <2>1, ChildrenIn DEF Made
        <3>2. state'[q] = state[q]
            BY <3>1 DEF Calm
        <3>3. awaiter'[q] = m <=> awaiter[q] = m
            BY <3>1 DEF Calm
        <3>4. awaiter[q] = m => (Tells(work, q)' <=> Tells(work, q))
            <4>1. awaiter[q] = m => q \in watched
                BY <1>2, <3>1 DEF Watched
            <4> QED
                BY <1>8, <4>1 DEF Tells
        <3> QED
            BY <3>2, <3>3, <3>4 DEF Counted
    <2> QED
        BY <1>1, <2>1, <2>2, <2>3, TallyStays
<1>10. Decided'
    <2>1. \A m \in Promises : state'[m] \in Settled => state'[m] = state[m]
        BY DEF Calm, Settled
    <2> QED
        BY <1>1, <1>4, <2>1, DecidedStays
<1> QED
    BY <1>6, <1>7, <1>9, <1>10 DEF Combining

\* What calm steps put on the stack.
LEMMA SettlingOthers ==
    ASSUME NEW p \in Promises, NEW s \in SomePromise, NEW new \in SomePromise, NEW r \in Reactions
    PROVE  /\ Release(p) \in SettlingItems' /\ Sync(p) \in SettlingItems' /\ Notify(p) \in SettlingItems'
           /\ Handler(p, r) \in SettlingItems' /\ React(p, r) \in SettlingItems'
           /\ Return(s, new) \in SettlingItems'
<1>1. /\ Release(p) \in WorkItems /\ Sync(p) \in WorkItems /\ Notify(p) \in WorkItems
      /\ Handler(p, r) \in WorkItems /\ React(p, r) \in WorkItems /\ Return(s, new) \in WorkItems
    BY ItemKinds
<1>2. Release(p) \in SettlingItems' /\ Sync(p) \in SettlingItems' /\ Notify(p) \in SettlingItems'
    BY <1>1 DEF SettlingItems, Settles, Release, Sync, Notify
<1>3. Handler(p, r) \in SettlingItems' /\ React(p, r) \in SettlingItems' /\ Return(s, new) \in SettlingItems'
    BY <1>1 DEF SettlingItems, Settles, Handler, React, Return
<1> QED
    BY <1>2, <1>3

LEMMA SettlingSettle ==
    ASSUME NEW p \in Promises, NEW how \in Settled, May_agree(p, how)'
    PROVE  Settle(p, how) \in SettlingItems'
<1>1. Settle(p, how) \in WorkItems
    BY ItemKinds
<1> QED
    BY <1>1 DEF SettlingItems, Settles, Settle

\* Nobody's child is a combinator's promise.
LEMMA ChildAgrees ==
    ASSUME Makes, NEW p \in Promises, NEW how, combo' = combo, ~Root(p) \/ op[p] # "none"
    PROVE  May_agree(p, how)'
BY DEF Makes, Made, May_agree

LEMMA SameCalm ==
    ASSUME Grown, UNCHANGED <<state, awaiter, co, combo>>,
           \A m \in Promises : op'[m] = "none" \/ op'[m] = op[m]
    PROVE  Calm
BY DEF Calm

\* Steps that only change the stack.
LEMMA CombiningStack ==
    ASSUME Inv, Combining, Grown, UNCHANGED <<state, awaiter, co, combo>>,
           \A m \in Promises : op'[m] = "none" \/ op'[m] = op[m],
           NEW items \in Seq(SettlingItems'), Untold(items),
           NEW rest, Left_to_do(rest), work' = items \o rest
    PROVE  Combining'
<1>1. Calm
    BY SameCalm
<1>2. Untold(items)'
    BY DEF Untold, Watched
<1> QED
    BY <1>1, <1>2, CalmStep

LEMMA HandlerDoneCombining ==
    ASSUME Inv, Combining, Grown, handler_done
    PROVE  Combining'
<1>1. PICK x \in SoundItems : x = Now /\ x \in WorkItems /\ Sound(x) /\ x.do = "handler"
    BY Top DEF handler_done
<1>2. PICK how \in Settled : work' = <<Settle(x.r.child, Outcome(x.r, x.p, how)), Release(x.r.child)>> \o Tail(work)
    BY <1>1 DEF handler_done, Next_do
<1>3. UNCHANGED <<state, awaiter, co, combo, op>> /\ Makes /\ Typed /\ Births /\ work # <<>>
    BY DEF handler_done, owners, Inv, Combining, Doing
<1>4. /\ x.p \in Promises /\ x.r \in Reactions /\ x.r.child \in Promises
      /\ state[x.p] \in Settled /\ Registered(x.r, x.p)
    BY <1>1, ItemFields DEF Sound, Reactions
<1>5. PICK out \in Settled : out = Outcome(x.r, x.p, how)
    BY <1>4 DEF Outcome
<1>6. ~Root(x.r.child)
    BY <1>4, PromiseAssumption DEF Registered, Root
<1>7. Settle(x.r.child, out) \in SettlingItems'
    BY <1>3, <1>4, <1>6, ChildAgrees, SettlingSettle
<1>8. <<Settle(x.r.child, out), Release(x.r.child)>> \in Seq(SettlingItems')
    BY <1>4, <1>7, SettlingOthers DEF SomePromise
<1>9. Untold(<<Settle(x.r.child, out), Release(x.r.child)>>)
    BY DEF Untold, Settle, Release
<1> QED
    <2>1. Left_to_do(Tail(work))
        BY <1>1, <1>2, <1>3 DEF Left_to_do
    <2> QED
        BY <2>1, <1>1, <1>2, <1>3, <1>5, <1>8, <1>9, CombiningStack

LEMMA ReactionCombining ==
    ASSUME Inv, Combining, Grown, execute_reaction
    PROVE  Combining'
<1>1. PICK x \in SoundItems : x = Now /\ x \in WorkItems /\ Sound(x) /\ x.do = "react"
    BY Top DEF execute_reaction
<1>2. UNCHANGED <<state, awaiter, co, combo, op>> /\ Makes /\ work # <<>>
    BY DEF execute_reaction, owners, Combining, Doing
<1>3. /\ x.p \in Promises /\ x.r \in Reactions /\ x.r.child \in Promises
      /\ state[x.p] \in Settled /\ Registered(x.r, x.p)
    BY <1>1, ItemFields DEF Sound, Reactions
<1>4. PICK how \in Settled : how = state[x.p]
    BY <1>3
<1>5. ~Root(x.r.child)
    BY <1>3, PromiseAssumption DEF Registered, Root
<1>6. Settle(x.r.child, how) \in SettlingItems'
    BY <1>2, <1>3, <1>5, ChildAgrees, SettlingSettle
<1>7. Release(x.r.child) \in SettlingItems' /\ Handler(x.p, x.r) \in SettlingItems'
    BY <1>3, SettlingOthers DEF SomePromise
<1>8. PICK items :
        /\ work' = items \o Tail(work)
        /\ items \in {<<Handler(x.p, x.r)>>, <<Settle(x.r.child, how), Release(x.r.child)>>, <<Release(x.r.child)>>}
    BY <1>1, <1>4 DEF execute_reaction, Next_do
<1>9. items \in Seq(SettlingItems')
    BY <1>6, <1>7, <1>8
<1>10. Untold(items)
    BY <1>8 DEF Untold, Settle, Release, Handler
<1> QED
    <2>1. Left_to_do(Tail(work))
        BY <1>1, <1>2, <1>3 DEF Left_to_do
    <2> QED
        BY <2>1, <1>1, <1>2, <1>8, <1>9, <1>10, CombiningStack

LEMMA SettlingRelease ==
    ASSUME NEW s \in Seq(Promises)
    PROVE  /\ [i \in DOMAIN s |-> Release(s[i])] \in Seq(SettlingItems')
           /\ Untold([i \in DOMAIN s |-> Release(s[i])])'
<1>1. DOMAIN s = 1 .. Len(s) /\ Len(s) \in Nat /\ \A i \in DOMAIN s : s[i] \in Promises
    OBVIOUS
<1>2. \A p \in Promises : Release(p) \in WorkItems
    BY ItemKinds
<1>3. \A p \in Promises : Release(p) \in SettlingItems' /\ Release(p).do = "release"
    BY <1>2 DEF SettlingItems, Settles, Release
<1>4. [i \in DOMAIN s |-> Release(s[i])] \in [1 .. Len(s) -> SettlingItems']
    BY <1>1, <1>3
<1>5. Untold([i \in DOMAIN s |-> Release(s[i])])'
    BY <1>1, <1>3 DEF Untold
<1> QED
    BY <1>1, <1>4, <1>5

LEMMA ReleaseCombining ==
    ASSUME Inv, Combining, Grown, release
    PROVE  Combining'
<1>1. PICK x \in SoundItems : x = Now /\ x \in WorkItems /\ x.do = "release"
    BY Top DEF release
<1>2. UNCHANGED <<state, awaiter, co, combo, op>> /\ Typed /\ work # <<>>
    BY DEF release, owners, Inv, Doing
<1>3. x.p \in Promises
    BY <1>1, ItemFields
<1>4. PICK rs \in Seq(Reactions) : rs = reactions[x.p]
    BY <1>2, <1>3 DEF Typed
<1>5. PICK items : /\ items \in {<<>>, [i \in DOMAIN rs |-> Release(rs[i].child)]}
                   /\ work' = items \o Tail(work)
    BY <1>1, <1>4 DEF release, Next_do
<1>6. items \in Seq(SettlingItems') /\ Untold(items)
    <2>1. DOMAIN rs = 1 .. Len(rs) /\ Len(rs) \in Nat /\ \A i \in DOMAIN rs : rs[i] \in Reactions
        OBVIOUS
    <2>2. \A p \in Promises : Release(p) \in WorkItems
        BY ItemKinds
    <2>3. \A p \in Promises : Release(p) \in SettlingItems' /\ Release(p).do = "release"
        BY <2>2 DEF SettlingItems, Settles, Release
    <2>4. \A i \in DOMAIN rs : rs[i].child \in Promises
        BY <2>1 DEF Reactions
    <2>5. [i \in DOMAIN rs |-> Release(rs[i].child)] \in [1 .. Len(rs) -> SettlingItems']
        BY <2>1, <2>3, <2>4
    <2>6. Untold([i \in DOMAIN rs |-> Release(rs[i].child)]) /\ Untold(<<>>)
        BY <2>3, <2>4 DEF Untold
    <2>7. [i \in DOMAIN rs |-> Release(rs[i].child)] \in Seq(SettlingItems') /\ <<>> \in Seq(SettlingItems')
        BY <2>1, <2>5
    <2> QED
        BY <1>5, <2>6, <2>7
<1> QED
    <2>1. Left_to_do(Tail(work))
        BY <1>1, <1>2, <1>3 DEF Left_to_do
    <2> QED
        BY <2>1, <1>1, <1>2, <1>5, <1>6, CombiningStack

LEMMA EmptyItems == <<>> \in Seq(SettlingItems') /\ Untold(<<>>)
BY DEF Untold

LEMMA ReturnCombining ==
    ASSUME Inv, Combining, Grown, return \/ sync_done
    PROVE  Combining'
<1>1. CASE return
    <2>1. /\ UNCHANGED <<state, awaiter, co, combo>> /\ op' = op /\ work # <<>> /\ Now.do # "notify"
          /\ work' = <<>> \o Tail(work)
        BY <1>1 DEF return, Doing, Next_do, Now
    <2>2. Left_to_do(Tail(work))
        BY <2>1 DEF Left_to_do
    <2> QED
        BY <2>1, <2>2, EmptyItems, CombiningStack
<1>2. CASE sync_done
    <2>1. /\ UNCHANGED <<state, awaiter, co, combo>> /\ op' = op /\ work # <<>> /\ Now.do # "notify"
          /\ work' = <<>> \o Tail(work)
        BY <1>2 DEF sync_done, owners, Doing, Next_do, Now
    <2>2. Left_to_do(Tail(work))
        BY <2>1 DEF Left_to_do
    <2> QED
        BY <2>1, <2>2, EmptyItems, CombiningStack
<1> QED
    BY <1>1, <1>2

LEMMA CancelCombining ==
    ASSUME Inv, Combining, Grown, NEW p \in Promises, cancel(p)
    PROVE  Combining'
<1>1. /\ UNCHANGED <<state, awaiter, co, combo, op>> /\ cancelled' = cancelled \cup {p}
      /\ work' = <<Settle(p, "rejected"), Return(p, NoPromise)>> \o work
    BY DEF cancel, owners, Call
<1>2. Settle(p, "rejected") \in SettlingItems'
    BY <1>1, SettlingSettle DEF Settled, May_agree
<1>3. Return(p, NoPromise) \in SettlingItems'
    <2>1. Return(p, NoPromise) \in WorkItems
        BY ItemKinds DEF SomePromise
    <2> QED
        BY <2>1 DEF SettlingItems, Settles, Return
<1>4. /\ <<Settle(p, "rejected"), Return(p, NoPromise)>> \in Seq(SettlingItems')
      /\ Untold(<<Settle(p, "rejected"), Return(p, NoPromise)>>)
    BY <1>2, <1>3 DEF Untold, Settle, Return
<1> QED
    <2>1. Left_to_do(work)
        BY DEF Left_to_do
    <2> QED
        BY <2>1, <1>1, <1>4, CombiningStack

LEMMA AwaitSyncCombining ==
    ASSUME Inv, Combining, Grown, NEW p \in Promises, await_sync(p)
    PROVE  Combining'
<1>1. UNCHANGED <<state, awaiter, co, combo, op>> /\ work' = <<Sync(p)>> \o work
    BY DEF await_sync, owners, Call
<1>2. Sync(p) \in SettlingItems'
    <2>1. Sync(p) \in WorkItems
        BY ItemKinds
    <2> QED
        BY <2>1 DEF SettlingItems, Settles, Sync
<1>3. <<Sync(p)>> \in Seq(SettlingItems') /\ Untold(<<Sync(p)>>)
    BY <1>2 DEF Untold, Sync
<1> QED
    <2>1. Left_to_do(work)
        BY DEF Left_to_do
    <2> QED
        BY <2>1, <1>1, <1>3, CombiningStack

LEMMA CollectCombining ==
    ASSUME Inv, Combining, Grown, NEW p \in Promises, collect(p)
    PROVE  Combining'
<1>1. UNCHANGED <<state, awaiter, co, combo, op>> /\ work' = <<Release(p)>> \o work
    BY DEF collect
<1>2. Release(p) \in SettlingItems'
    <2>1. Release(p) \in WorkItems
        BY ItemKinds
    <2> QED
        BY <2>1 DEF SettlingItems, Settles, Release
<1>3. <<Release(p)>> \in Seq(SettlingItems') /\ Untold(<<Release(p)>>)
    BY <1>2 DEF Untold, Release
<1> QED
    <2>1. Left_to_do(work)
        BY DEF Left_to_do
    <2> QED
        BY <2>1, <1>1, <1>3, CombiningStack

LEMMA CompleteCombining ==
    ASSUME Inv, Combining, Grown, NEW p \in Promises, NEW how \in Settled, complete(p, how)
    PROVE  Combining'
<1>1. /\ UNCHANGED <<state, awaiter, co, combo>> /\ op[p] # "none" /\ op' = [op EXCEPT ![p] = "none"]
      /\ work' = <<Settle(p, how), Release(p)>> \o work /\ Typed /\ Makes
    BY DEF complete, Inv, Combining
<1>2. Settle(p, how) \in SettlingItems'
    BY <1>1, ChildAgrees, SettlingSettle
<1>3. Release(p) \in SettlingItems'
    <2>1. Release(p) \in WorkItems
        BY ItemKinds
    <2> QED
        BY <2>1 DEF SettlingItems, Settles, Release
<1>4. <<Settle(p, how), Release(p)>> \in Seq(SettlingItems') /\ Untold(<<Settle(p, how), Release(p)>>)
    BY <1>2, <1>3 DEF Untold, Settle, Release
<1>5. \A m \in Promises : op'[m] = "none" \/ op'[m] = op[m]
    BY <1>1 DEF Typed
<1> QED
    <2>1. Left_to_do(work)
        BY DEF Left_to_do
    <2> QED
        BY <2>1, <1>1, <1>4, <1>5, CombiningStack

----------------------------------------------------------------------------
(***************************************************************************)
(* Births of promises that no combinator makes.                            *)
(***************************************************************************)
LEMMA BornCalm ==
    ASSUME Typed, Grown, NEW p \in Promises, state[p] = "unborn", UNCHANGED <<awaiter, combo>>,
           state' = [state EXCEPT ![p] = "pending"],
           \A m \in Promises : m # p => op'[m] = op[m],
           \A c \in Coroutines : co'[c] = co[c] \/ co'[c].result = p
    PROVE  Calm
<1>1. \A m \in Promises : state'[m] = state[m] \/ (state[m] = "unborn" /\ state'[m] = "pending")
    BY DEF Typed
<1>2. ASSUME NEW m \in Promises, state[m] # "unborn"
      PROVE  /\ op[m] = "none" => op'[m] = "none"
             /\ \A c \in Coroutines : co'[c].status \in {"running", "suspended"} /\ co'[c].result = m =>
                co[c].status \in {"running", "suspended"} /\ co[c].result = m
    BY <1>2
<1> QED
    BY <1>1, <1>2 DEF Calm

LEMMA SpawnCombining ==
    ASSUME Inv, Combining, Grown, NEW p \in Fresh({}), spawn(p)
    PROVE  Combining'
<1>1. /\ UNCHANGED <<awaiter, co, combo>> /\ state' = [state EXCEPT ![p] = "pending"]
      /\ op' = [op EXCEPT ![p] = "operation"] /\ work' = <<>> \o work /\ Typed
    BY DEF spawn, Call, Born, Inv
<1>2. p \in Promises /\ state[p] = "unborn"
    BY <1>1, FreshUnborn
<1>3. \A m \in Promises : m # p => op'[m] = op[m]
    BY <1>1, <1>2 DEF Typed
<1>4. Calm
    BY <1>1, <1>2, <1>3, BornCalm
<1>5. <<>> \in Seq(SettlingItems') /\ Untold(<<>>)'
    BY DEF Untold
<1>6. Left_to_do(work)
    BY DEF Left_to_do
<1> QED
    BY <1>1, <1>4, <1>5, <1>6, CalmStep

LEMMA SettledCombining ==
    ASSUME Inv, Combining, Grown, NEW p \in Fresh({}), NEW how \in Settled, settled(p, how)
    PROVE  Combining'
<1>1. /\ UNCHANGED <<awaiter, co, combo>> /\ op' = op /\ state' = [state EXCEPT ![p] = "pending"]
      /\ work' = <<Settle(p, how), Return(NoPromise, p)>> \o work /\ Typed /\ Makes
    BY DEF settled, Call, Born, owners, Inv, Combining
<1>2. p \in Promises /\ state[p] = "unborn"
    BY <1>1, FreshUnborn
<1>3. Calm
    BY <1>1, <1>2, BornCalm
<1>4. Settle(p, how) \in SettlingItems'
    <2>1. ~Root(p)
        BY <1>2 DEF Root
    <2> QED
        BY <1>1, <1>2, <2>1, ChildAgrees, SettlingSettle
<1>5. Return(NoPromise, p) \in SettlingItems'
    <2>1. Return(NoPromise, p) \in WorkItems
        BY <1>2, ItemKinds DEF SomePromise
    <2> QED
        BY <2>1 DEF SettlingItems, Settles, Return
<1>6. /\ <<Settle(p, how), Return(NoPromise, p)>> \in Seq(SettlingItems')
      /\ Untold(<<Settle(p, how), Return(NoPromise, p)>>)'
    BY <1>4, <1>5 DEF Untold, Settle, Return
<1>7. Left_to_do(work)
    BY DEF Left_to_do
<1> QED
    BY <1>1, <1>3, <1>6, <1>7, CalmStep

LEMMA RunAsyncCombining ==
    ASSUME Inv, Combining, Grown, NEW c \in Coroutines, NEW p \in Fresh({}), run_async(c, p)
    PROVE  Combining'
<1>1. /\ UNCHANGED <<awaiter, combo>> /\ op' = op /\ state' = [state EXCEPT ![p] = "pending"]
      /\ co' = [co EXCEPT ![c] = [status |-> "running", result |-> p, waiting |-> NoPromise]]
      /\ work' = <<Run(c, NoPromise), Return(NoPromise, p)>> \o work /\ Typed
    BY DEF run_async, Call, Born, owners, Inv
<1>2. p \in Promises /\ state[p] = "unborn"
    BY <1>1, FreshUnborn
<1>3. \A d \in Coroutines : co'[d] = co[d] \/ co'[d].result = p
    BY <1>1 DEF Typed
<1>4. Calm
    BY <1>1, <1>2, <1>3, BornCalm
<1>5. Run(c, NoPromise) \in SettlingItems' /\ Return(NoPromise, p) \in SettlingItems'
    <2>1. Return(NoPromise, p) \in WorkItems /\ Run(c, NoPromise) \in WorkItems
        BY <1>2, ItemKinds DEF SomePromise
    <2> QED
        BY <2>1 DEF SettlingItems, Settles, Return, Run
<1>6. /\ <<Run(c, NoPromise), Return(NoPromise, p)>> \in Seq(SettlingItems')
      /\ Untold(<<Run(c, NoPromise), Return(NoPromise, p)>>)'
    BY <1>5 DEF Untold, Run, Return
<1>7. Left_to_do(work)
    BY DEF Left_to_do
<1> QED
    BY <1>1, <1>4, <1>6, <1>7, CalmStep

LEMMA ChainCombining ==
    ASSUME Inv, Combining, Grown, NEW p \in Promises, NEW type \in Types, NEW handler \in BOOLEAN,
           NEW child \in Fresh({}), chain(p, type, handler, child)
    PROVE  Combining'
<1>1. /\ UNCHANGED <<awaiter, co, combo>> /\ op' = op /\ state' = [state EXCEPT ![child] = "pending"] /\ Typed
    BY DEF chain, Born, owners, Inv
<1>2. child \in Promises /\ state[child] = "unborn"
    BY <1>1, FreshUnborn
<1>3. Calm
    BY <1>1, <1>2, BornCalm
<1>4. PICK r \in Reactions : r = [type |-> type, handler |-> handler, child |-> child]
    BY <1>2 DEF Reactions
<1>5. PICK all \in Seq(Reactions) : all = <<r>> \o reactions[p]
    <2>1. PICK rs \in Seq(Reactions) : rs = reactions[p]
        BY <1>1 DEF Typed
    <2>2. PICK one \in Seq(Reactions) : one = <<r>>
        <3>1. <<r>> \in Seq(Reactions)
            OBVIOUS
        <3> QED
            BY <3>1
    <2>3. one \o rs \in Seq(Reactions)
        OBVIOUS
    <2> QED
        BY <2>1, <2>2, <2>3
<1>6. PICK calls : calls = [i \in DOMAIN all |-> React(p, all[i])]
    OBVIOUS
<1>7. PICK last : last = <<Return(p, child)>>
    OBVIOUS
<1>8. work' = last \o work \/ work' = (calls \o last) \o work
    BY <1>4, <1>5, <1>6, <1>7 DEF chain, Call
<1>9. last \in Seq(SettlingItems') /\ DOMAIN last = {1} /\ last[1].do = "return"
    <2>1. Return(p, child) \in WorkItems
        BY <1>2, ItemKinds DEF SomePromise
    <2>2. Return(p, child) \in SettlingItems' /\ Return(p, child).do = "return"
        BY <2>1 DEF SettlingItems, Settles, Return
    <2> QED
        BY <1>7, <2>2
<1>10. calls \in Seq(SettlingItems') /\ \A i \in DOMAIN calls : calls[i].do = "react"
    <2>1. DOMAIN all = 1 .. Len(all) /\ Len(all) \in Nat /\ \A i \in DOMAIN all : all[i] \in Reactions
        BY <1>5
    <2>2. \A i \in DOMAIN all : React(p, all[i]) \in WorkItems
        BY <2>1, ItemKinds
    <2>3. \A i \in DOMAIN all : React(p, all[i]) \in SettlingItems' /\ React(p, all[i]).do = "react"
        BY <2>2 DEF SettlingItems, Settles, React
    <2>4. calls \in [1 .. Len(all) -> SettlingItems']
        BY <1>6, <2>1, <2>3
    <2> QED
        BY <1>6, <2>1, <2>3, <2>4
<1>11. PICK items : items \in {last, calls \o last} /\ work' = items \o work
    BY <1>8
<1>12. items \in Seq(SettlingItems')
    <2>1. PICK S : S = SettlingItems' /\ last \in Seq(S) /\ calls \in Seq(S)
        BY <1>9, <1>10
    <2>2. calls \o last \in Seq(S)
        BY <2>1
    <2> QED
        BY <1>11, <2>1, <2>2
<1>13. \A i \in DOMAIN items : items[i].do \in {"react", "return"}
    <2>1. CASE items = last
        BY <1>9, <2>1
    <2>2. CASE items = calls \o last
        <3> PICK S : calls \in Seq(S) /\ last \in Seq(S)
            BY <1>9, <1>10
        <3>0. DOMAIN calls = 1 .. Len(calls) /\ Len(calls) \in Nat /\ DOMAIN last = 1 .. Len(last) /\ Len(last) \in Nat
            OBVIOUS
        <3>1. \A i \in DOMAIN items :
                \/ i \in DOMAIN calls /\ items[i] = calls[i]
                \/ i - Len(calls) \in DOMAIN last /\ items[i] = last[i - Len(calls)]
            BY <2>2, <3>0
        <3> QED
            BY <1>9, <1>10, <3>1
    <2> QED
        BY <1>11, <2>1, <2>2
<1>14. Untold(items)'
    BY <1>13 DEF Untold
<1>15. Left_to_do(work)
    BY DEF Left_to_do
<1> QED
    BY <1>3, <1>11, <1>12, <1>14, <1>15, CalmStep

----------------------------------------------------------------------------
(***************************************************************************)
(* Coroutines and combinators.                                             *)
(***************************************************************************)
\* Coroutines go on, wait and end; no promise changes.
LEMMA CoroutinesCalm ==
    ASSUME Grown, UNCHANGED <<state, combo>>, op' = op,
           \A q \in Promises : awaiter'[q] = awaiter[q] \/ (awaiter[q] \notin Promises /\ awaiter'[q] \notin Promises),
           \A c \in Coroutines : co'[c].status \in {"running", "suspended"} =>
            co[c].status \in {"running", "suspended"} /\ co'[c].result = co[c].result
    PROVE  Calm
BY DEF Calm

LEMMA PromiseSettledCombining ==
    ASSUME Inv, Combining, Grown, laio_promise_settled
    PROVE  Combining'
<1>1. PICK x \in SoundItems : x = Now /\ x \in WorkItems /\ Sound(x) /\ x.do = "notify"
    BY Top DEF laio_promise_settled
<1>2. /\ UNCHANGED <<state, combo>> /\ op' = op /\ Typed /\ Waits /\ work # <<>>
    BY DEF laio_promise_settled, owners, Inv, Doing
<1>3. x.p \in Promises /\ state[x.p] \in Settled
    BY <1>1, ItemFields DEF Sound
<1>4. CASE awaiter[x.p] = NoWaiter
    <2>1. /\ UNCHANGED <<awaiter, co>> /\ work' = <<>> \o Tail(work)
        BY <1>1, <1>4, PromiseAssumption DEF laio_promise_settled, Next_do
    <2>2. x.p \notin Watched
        BY <1>4, PromiseAssumption DEF Watched
    <2>3. Left_to_do(Tail(work))
        BY <1>1, <1>2, <2>2 DEF Left_to_do
    <2> QED
        BY <1>2, <2>1, <2>3, EmptyItems, CombiningStack
<1>5. CASE awaiter[x.p] # NoWaiter
    <2>1. PICK c \in Coroutines :
            /\ c = awaiter[x.p]
            /\ awaiter' = [awaiter EXCEPT ![x.p] = NoWaiter]
            /\ co' = [co EXCEPT ![c].status = "running"]
            /\ work' = <<Run(c, x.p)>> \o Tail(work)
        BY <1>1, <1>5 DEF laio_promise_settled, Next_do
    <2>2. x.p \notin Watched
        BY <2>1, PromiseAssumption DEF Watched
    <2>3. Left_to_do(Tail(work))
        BY <1>1, <1>2, <2>2 DEF Left_to_do
    <2>4. co[c].status = "suspended" /\ co[c] \in Contexts
        BY <1>2, <1>3, <2>1 DEF Waits, Typed
    <2>5. \A d \in Coroutines : co'[d].status \in {"running", "suspended"} =>
            co[d].status \in {"running", "suspended"} /\ co'[d].result = co[d].result
        BY <1>2, <2>1, <2>4 DEF Typed, Contexts
    <2>6. \A q \in Promises : awaiter'[q] = awaiter[q] \/ (awaiter[q] \notin Promises /\ awaiter'[q] \notin Promises)
        BY <1>2, <2>1, PromiseAssumption DEF Typed
    <2>7. Calm
        BY <1>2, <2>5, <2>6, CoroutinesCalm
    <2>8. Run(c, x.p) \in SettlingItems'
        <3>1. Run(c, x.p) \in WorkItems
            BY <1>3, ItemKinds DEF SomePromise
        <3>2. x.p \notin Watched' /\ state'[x.p] \in Settled
            BY <1>2, <1>3, <2>2, <2>7, WatchedCalm
        <3> QED
            BY <3>1, <3>2 DEF SettlingItems, Settles, Run
    <2>9. <<Run(c, x.p)>> \in Seq(SettlingItems') /\ Untold(<<Run(c, x.p)>>)'
        BY <2>8 DEF Untold, Run
    <2> QED
        BY <2>1, <2>3, <2>7, <2>9, CalmStep
<1> QED
    BY <1>4, <1>5

\* The coroutine on top of the stack waits for q, which nobody else waits for.
LEMMA SuspendCombining ==
    ASSUME Inv, Combining, Grown, Doing("run"), NEW q \in Promises, awaiter[q] = NoWaiter,
           UNCHANGED <<state, op, combo>>,
           awaiter' = [awaiter EXCEPT ![q] = Now.c],
           co' = [co EXCEPT ![Now.c].status = "suspended", ![Now.c].waiting = q],
           NEW items \in Seq(SettlingItems'), Untold(items), work' = items \o Tail(work)
    PROVE  Combining'
<1>1. PICK x \in SoundItems :
        /\ x = Now /\ x.do = "run" /\ x.c \in Coroutines
        /\ co[x.c].status = "running" /\ co[x.c] \in Contexts
    BY Runner
<1>2. Typed /\ work # <<>>
    BY DEF Inv, Doing
<1>3. \A d \in Coroutines : co'[d].status \in {"running", "suspended"} =>
        co[d].status \in {"running", "suspended"} /\ co'[d].result = co[d].result
    BY <1>1, <1>2 DEF Typed, Contexts
<1>4. \A p \in Promises : awaiter'[p] = awaiter[p] \/ (awaiter[p] \notin Promises /\ awaiter'[p] \notin Promises)
    BY <1>1, <1>2, PromiseAssumption DEF Typed
<1>5. Calm
    BY <1>3, <1>4, CoroutinesCalm
<1>6. Untold(items)'
    BY <1>5, WatchedCalm DEF Untold
<1>7. Left_to_do(Tail(work))
    BY <1>1, <1>2 DEF Left_to_do
<1> QED
    BY <1>5, <1>6, <1>7, CalmStep

LEMMA AwaitCombining ==
    ASSUME Inv, Combining, Grown, "share" \notin Allowed, await
    PROVE  Combining'
<1>1. PICK x \in SoundItems :
        /\ x = Now /\ x.do = "run" /\ x.c \in Coroutines /\ co[x.c] \in Contexts
    BY Runner DEF await
<1>2. PICK q \in Promises :
        /\ awaiter[q] = NoWaiter
        /\ awaiter' = [awaiter EXCEPT ![q] = x.c]
        /\ co' = [co EXCEPT ![x.c].status = "suspended", ![x.c].waiting = q]
        /\ Next_do((IF co[x.c].waiting = NoPromise THEN <<>> ELSE <<Release(co[x.c].waiting)>>)
                   \o Await_settled(q))
    BY <1>1 DEF await
<1>3. UNCHANGED <<state, op, combo>> /\ Doing("run")
    BY DEF await, owners
<1>4. PICK before : before = IF co[x.c].waiting = NoPromise THEN <<>> ELSE <<Release(co[x.c].waiting)>>
    OBVIOUS
<1>5. PICK after : after = Await_settled(q)
    OBVIOUS
<1>6. PICK items : items = before \o after
    OBVIOUS
<1>7. work' = items \o Tail(work)
    BY <1>2, <1>4, <1>5, <1>6 DEF Next_do
<1>8. Notify(q) \in SettlingItems' /\ Notify(q).do = "notify" /\ Notify(q).p = q /\ q \notin Watched
    <2>1. Notify(q) \in WorkItems
        BY ItemKinds
    <2> QED
        BY <1>2, <2>1, PromiseAssumption DEF SettlingItems, Settles, Notify, Watched
<1>9. co[x.c].waiting # NoPromise => Release(co[x.c].waiting) \in SettlingItems'
                                     /\ Release(co[x.c].waiting).do = "release"
    <2>1. co[x.c].waiting \in SomePromise
        BY <1>1 DEF Contexts
    <2>2. co[x.c].waiting # NoPromise => Release(co[x.c].waiting) \in WorkItems
        BY <2>1, ItemKinds DEF SomePromise
    <2> QED
        BY <2>2 DEF SettlingItems, Settles, Release
<1>10. items \in Seq(SettlingItems') /\ Untold(items)
    <2>1. CASE before = <<>> /\ after = <<>>
        BY <1>6, <2>1 DEF Untold
    <2>2. CASE before = <<>> /\ after = <<Notify(q)>>
        BY <1>6, <1>8, <2>2 DEF Untold
    <2>3. CASE co[x.c].waiting # NoPromise /\ before = <<Release(co[x.c].waiting)>> /\ after = <<>>
        BY <1>6, <1>9, <2>3 DEF Untold
    <2>4. CASE co[x.c].waiting # NoPromise /\ before = <<Release(co[x.c].waiting)>> /\ after = <<Notify(q)>>
        <3>1. PICK S : S = SettlingItems' /\ before \in Seq(S) /\ after \in Seq(S)
            BY <1>8, <1>9, <2>4
        <3>2. Len(before) = 1 /\ before[1].do = "release" /\ Len(after) = 1 /\ after[1] = Notify(q)
            BY <1>9, <2>4
        <3>3. items \in Seq(S) /\ DOMAIN items = 1 .. 2 /\ items[1] = before[1] /\ items[2] = after[1]
            <4>1. PICK s \in Seq(S), t \in Seq(S) : s = before /\ t = after /\ Len(s) = 1 /\ Len(t) = 1
                BY <3>1, <3>2
            <4>2. /\ s \o t \in Seq(S) /\ Len(s \o t) = 2
                  /\ (s \o t)[1] = s[1] /\ (s \o t)[2] = t[1]
                BY <4>1, ConcatProperties
            <4> QED
                BY <1>6, <4>1, <4>2
        <3> QED
            BY <1>8, <3>1, <3>2, <3>3 DEF Untold
    <2>5. after = <<>> \/ after = <<Notify(q)>>
        BY <1>5 DEF Await_settled
    <2> QED
        BY <1>4, <2>1, <2>2, <2>3, <2>4, <2>5
<1> QED
    BY <1>1, <1>2, <1>3, <1>7, <1>10, SuspendCombining

LEMMA WaitCombining ==
    ASSUME Inv, Combining, Grown, "share" \notin Allowed, wait
    PROVE  Combining'
<1>1. PICK q \in Promises :
        /\ awaiter[q] = NoWaiter
        /\ \/ UNCHANGED <<awaiter, co, work>>
           \/ /\ awaiter' = [awaiter EXCEPT ![q] = Now.c]
              /\ co' = [co EXCEPT ![Now.c].status = "suspended", ![Now.c].waiting = q]
              /\ work' = <<>> \o Tail(work)
    BY DEF wait, Next_do
<1>2. UNCHANGED <<state, op, combo>> /\ Doing("run")
    BY DEF wait, owners
<1>3. CASE UNCHANGED <<awaiter, co, work>>
    <2>1. work' = <<>> \o work /\ Left_to_do(work)
        <3>1. work \in Seq(SoundItems)
            BY DEF Inv, Stack
        <3> QED
            BY <1>3, <3>1 DEF Left_to_do
    <2> QED
        BY <1>2, <1>3, <2>1, EmptyItems, CombiningStack
<1>4. CASE /\ awaiter' = [awaiter EXCEPT ![q] = Now.c]
           /\ co' = [co EXCEPT ![Now.c].status = "suspended", ![Now.c].waiting = q]
           /\ work' = <<>> \o Tail(work)
    BY <1>1, <1>2, <1>4, EmptyItems, SuspendCombining
<1> QED
    BY <1>1, <1>3, <1>4

LEMMA ClearedCalm ==
    ASSUME Typed, NEW p \in SomePromise, p \notin Watched, awaiter' \in {awaiter, Cleared(p)}
    PROVE  \A q \in Promises : awaiter'[q] = awaiter[q] \/ (awaiter[q] \notin Promises /\ awaiter'[q] \notin Promises)
<1> SUFFICES ASSUME NEW q \in Promises
             PROVE  awaiter'[q] = awaiter[q] \/ (awaiter[q] \notin Promises /\ awaiter'[q] \notin Promises)
    OBVIOUS
<1>1. q = p => awaiter[q] \notin Promises
    BY DEF Watched
<1> QED
    BY <1>1, PromiseAssumption DEF Cleared

LEMMA CoroutineDoneCombining ==
    ASSUME Inv, Combining, Grown, coroutine_done
    PROVE  Combining'
<1>1. PICK x \in SoundItems :
        /\ x = Now /\ x.do = "run" /\ x.c \in Coroutines /\ x.p \in SomePromise
        /\ co[x.c].status = "running" /\ Root(co[x.c].result)
    BY Runner DEF coroutine_done
<1>2. PICK how \in Settled :
        /\ work' = <<Settle(co[x.c].result, how), Finish(x.c, x.p, how)>> \o Tail(work)
        /\ awaiter' \in {awaiter, Cleared(x.p)}
    BY <1>1 DEF coroutine_done, Next_do
<1>3. UNCHANGED <<state, co, combo>> /\ op' = op /\ Typed /\ Makes /\ Settling /\ work # <<>>
    BY DEF coroutine_done, owners, Inv, Combining, Doing
<1>4. PICK p \in Promises : p = co[x.c].result
    BY <1>1 DEF Root
<1>5. x.p # NoPromise => state[x.p] \in Settled /\ x.p \notin Watched
    BY <1>1, <1>3, HeadSettles DEF SettlingItems, Settles
<1>6. x.p \notin Watched
    BY <1>5, PromiseAssumption DEF Watched
<1>7. Calm
    BY <1>1, <1>2, <1>3, <1>6, ClearedCalm, CoroutinesCalm
<1>8. Settle(p, how) \in SettlingItems'
    <2>1. combo[p].mode = "none"
        BY <1>1, <1>3, <1>4 DEF Makes, Made
    <2>2. May_agree(p, how)'
        BY <1>3, <2>1 DEF May_agree
    <2> QED
        BY <2>2, SettlingSettle
<1>9. Finish(x.c, x.p, how) \in SettlingItems'
    <2>1. Finish(x.c, x.p, how) \in WorkItems
        BY <1>1, ItemKinds
    <2>2. x.p # NoPromise => state'[x.p] \in Settled /\ x.p \notin Watched'
        BY <1>3, <1>5, <1>7, WatchedCalm
    <2> QED
        BY <2>1, <2>2 DEF SettlingItems, Settles, Finish
<1>10. /\ <<Settle(p, how), Finish(x.c, x.p, how)>> \in Seq(SettlingItems')
       /\ Untold(<<Settle(p, how), Finish(x.c, x.p, how)>>)'
    BY <1>8, <1>9 DEF Untold, Settle, Finish
<1>11. Left_to_do(Tail(work))
    BY <1>1, <1>3 DEF Left_to_do
<1> QED
    BY <1>2, <1>4, <1>7, <1>10, <1>11, CalmStep

LEMMA CoroutineFreeCombining ==
    ASSUME Inv, Combining, Grown, coroutine_free
    PROVE  Combining'
<1>1. PICK x \in SoundItems :
        /\ x = Now /\ x.do = "finish" /\ x.c \in Coroutines /\ x.p \in SomePromise
        /\ co[x.c].status = "running" /\ co[x.c] \in Contexts
    BY Runner DEF coroutine_free
<1>2. PICK items :
        /\ items \in {<<>>, <<Release(co[x.c].waiting)>>}
        /\ items # <<>> => co[x.c].waiting # NoPromise
        /\ work' = items \o Tail(work)
    <2>1. <<Release(co[x.c].waiting)>> # <<>>
        OBVIOUS
    <2> QED
        BY <1>1, <2>1 DEF coroutine_free, Next_do
<1>3. /\ UNCHANGED <<state, combo>> /\ op' = op /\ Typed /\ Settling /\ work # <<>>
      /\ awaiter' \in {awaiter, Cleared(x.p)}
      /\ co' = [co EXCEPT ![x.c] = [NoContext EXCEPT !.status = "done"]]
    BY <1>1 DEF coroutine_free, owners, Inv, Combining, Doing
<1>4. x.p # NoPromise => state[x.p] \in Settled /\ x.p \notin Watched
    BY <1>1, <1>3, HeadSettles DEF SettlingItems, Settles
<1>5. x.p \notin Watched
    BY <1>4, PromiseAssumption DEF Watched
<1>6. \A d \in Coroutines : co'[d].status \in {"running", "suspended"} =>
        co[d].status \in {"running", "suspended"} /\ co'[d].result = co[d].result
    <2>1. co'[x.c].status = "done"
        BY <1>1, <1>3 DEF Typed, NoContext
    <2>2. \A d \in Coroutines : d # x.c => co'[d] = co[d]
        BY <1>3 DEF Typed
    <2> QED
        BY <2>1, <2>2
<1>7. Calm
    BY <1>1, <1>3, <1>5, <1>6, ClearedCalm, CoroutinesCalm
<1>8. items \in Seq(SettlingItems') /\ Untold(items)'
    <2>1. CASE items = <<>>
        BY <2>1 DEF Untold
    <2>2. CASE items # <<>>
        <3>1. PICK p \in Promises : p = co[x.c].waiting
            BY <1>1, <1>2, <2>2 DEF Contexts, SomePromise
        <3>2. Release(p) \in WorkItems
            BY ItemKinds
        <3>3. Release(p) \in SettlingItems' /\ Release(p).do = "release"
            BY <3>2 DEF SettlingItems, Settles, Release
        <3> QED
            BY <1>2, <2>2, <3>1, <3>3 DEF Untold
    <2> QED
        BY <2>1, <2>2
<1>9. Left_to_do(Tail(work))
    BY <1>1, <1>3 DEF Left_to_do
<1> QED
    BY <1>2, <1>7, <1>8, <1>9, CalmStep

----------------------------------------------------------------------------
(***************************************************************************)
(* Steps that tell combinators something.                                  *)
(***************************************************************************)
\* Coroutines and operations are left alone.
LEMMA MakesQuiet ==
    ASSUME Typed, Makes, Grown, Kept_combos, UNCHANGED <<co, op>>,
           \A m \in Promises : combo'[m].mode = combo[m].mode,
           \A m \in Promises : combo[m].status = "none" => combo'[m].status = "none"
    PROVE  Makes'
<1>1. \A m \in Promises : combo[m].mode # "none" => op'[m] = "none"
    BY DEF Makes, Made
<1>2. \A m \in Promises : combo'[m].mode = "none" => combo'[m].status = "none"
    BY DEF Makes
<1> QED
    BY <1>1, <1>2, MakesStay

\* The same notifications are to be done for the children of m but q, and m is
\* what it was.
LEMMA CountedStays ==
    ASSUME NEW m, NEW q, awaiter'[q] = m <=> awaiter[q] = m, state'[q] = state[q],
           awaiter[q] = m => (Tells(work', q) <=> Tells(work, q))
    PROVE  Counted(m, q)' <=> Counted(m, q)
BY DEF Counted, Tells

\* A pending promise is settled.
LEMMA SettleCombining ==
    ASSUME Inv, Combining, Grown, settle
    PROVE  Combining'
<1>1. PICK x \in SoundItems :
        /\ x = Now /\ x \in WorkItems /\ Sound(x) /\ x.do = "settle"
        /\ Tail(work) \in Seq(SoundItems)
    BY Top DEF settle
<1>2. /\ UNCHANGED <<awaiter, co, combo>> /\ op' = op /\ work # <<>>
      /\ Typed /\ Settling /\ Makes /\ Watches /\ Tallies /\ Decided
    BY DEF settle, owners, Inv, Combining, Doing
<1>3. x.p \in Promises /\ x.how \in Settled /\ state[x.p] # "unborn"
    BY <1>1, ItemFields DEF Sound
<1>4. CASE state[x.p] # "pending"
    <2>1. work' = <<>> \o Tail(work) /\ state' = state
        BY <1>1, <1>4 DEF settle, Next_do, May_settle
    <2>2. Left_to_do(Tail(work))
        BY <1>1, <1>2 DEF Left_to_do
    <2> QED
        BY <1>2, <2>1, <2>2, EmptyItems, CombiningStack
<1>5. CASE state[x.p] = "pending"
    <2>1. PICK calls, last, rest :
            /\ calls = Reactions_of(x.p) /\ last = <<Notify(x.p)>> /\ rest = Tail(work)
        OBVIOUS
    <2>2. state' = [state EXCEPT ![x.p] = x.how] /\ work' = (calls \o last) \o rest
        BY <1>1, <1>5, <2>1 DEF settle, Next_do, May_settle
    <2>3. state'[x.p] = x.how /\ \A p \in Promises : p # x.p => state'[p] = state[p]
        BY <1>2, <1>3, <2>2 DEF Typed
    <2>4. Kept_combos /\ Watched' = Watched
        BY <1>2 DEF Kept_combos, Watched
    <2>5. PICK watched : watched = Watched
        OBVIOUS
    <2>6. /\ rest \in Seq(SettlingItems) /\ rest \in Seq(SoundItems) /\ Once(rest, watched)
          /\ \A q : Tells(work, q) <=> Tells(rest, q)
        BY <1>1, <1>2, <2>1, <2>5, HeadSettles
    <2>7. ~Tells(rest, x.p)
        <3>1. ASSUME NEW i \in DOMAIN rest, rest[i].do = "notify", rest[i].p = x.p PROVE FALSE
            <4>1. rest[i] \in SoundItems
                BY <2>6
            <4> QED
                BY <1>5, <3>1, <4>1 DEF SoundItems, Sound, Settled
        <3> QED
            BY <3>1 DEF Tells
    <2>8. PICK rs \in Seq(Reactions) : rs = reactions[x.p]
        BY <1>2, <1>3 DEF Typed
    <2>9. calls \in Seq(SettlingItems') /\ (\A i \in DOMAIN calls : calls[i].do = "react")
        <3>1. DOMAIN rs = 1 .. Len(rs) /\ Len(rs) \in Nat /\ \A i \in DOMAIN rs : rs[i] \in Reactions
            OBVIOUS
        <3>2. calls = [i \in DOMAIN rs |-> React(x.p, rs[i])]
            BY <2>1, <2>8 DEF Reactions_of
        <3>3. \A i \in DOMAIN rs : React(x.p, rs[i]) \in WorkItems
            BY <1>3, <3>1, ItemKinds
        <3>4. \A i \in DOMAIN rs : React(x.p, rs[i]) \in SettlingItems' /\ React(x.p, rs[i]).do = "react"
            BY <3>3 DEF SettlingItems, Settles, React
        <3>5. calls \in [1 .. Len(rs) -> SettlingItems']
            BY <3>1, <3>2, <3>4
        <3> QED
            BY <3>1, <3>2, <3>4, <3>5
    <2>10. last \in Seq(SettlingItems') /\ Len(last) = 1 /\ last[1].do = "notify" /\ last[1].p = x.p
        <3>1. Notify(x.p) \in WorkItems
            BY <1>3, ItemKinds
        <3>2. Notify(x.p) \in SettlingItems' /\ Notify(x.p).do = "notify" /\ Notify(x.p).p = x.p
            BY <3>1 DEF SettlingItems, Settles, Notify
        <3> QED
            BY <2>1, <3>2
    <2>11. PICK S : S = SettlingItems'
        OBVIOUS
    <2>12. PICK items \in Seq(S) : items = calls \o last
        <3>1. calls \o last \in Seq(S)
            BY <2>9, <2>10, <2>11
        <3> QED
            BY <3>1
    <2>13. Once(items, watched)
        <3>1. Once(calls, watched) /\ Once(last, watched)
            BY <2>9, <2>10 DEF Once, Twice
        <3>2. \A i \in DOMAIN calls, j \in DOMAIN last : ~Twice(calls[i], last[j], watched)
            BY <2>9 DEF Twice
        <3>3. calls \in Seq(S) /\ last \in Seq(S)
            BY <2>9, <2>10, <2>11
        <3> QED
            BY <2>12, <3>1, <3>2, <3>3, OnceFront
    <2>14. \A i \in DOMAIN items : items[i].do = "react" \/ (items[i].do = "notify" /\ items[i].p = x.p)
        <3>1. PICK s \in Seq(S), t \in Seq(S) : s = calls /\ t = last /\ DOMAIN t = 1 .. 1
            BY <2>9, <2>10, <2>11
        <3>2. \A i \in DOMAIN items :
                \/ i \in DOMAIN s /\ items[i] = s[i]
                \/ i - Len(s) \in DOMAIN t /\ items[i] = t[i - Len(s)]
            BY <2>12, <3>1, ElementsOf
        <3>3. \A i \in DOMAIN t : i = 1
            BY <3>1
        <3> QED
            BY <2>9, <2>10, <3>1, <3>2, <3>3
    <2>15. work' = items \o rest
        BY <2>2, <2>12
    <2>16. Settling'
        <3>1. ASSUME NEW i \in DOMAIN rest
              PROVE  /\ rest[i].do = "combined" => combo'[rest[i].p].status = "decided"
                     /\ rest[i].do \in {"run", "finish"} /\ rest[i].p # NoPromise => rest[i].p \notin Watched'
            <4>1. rest[i] \in SettlingItems
                BY <2>6
            <4> QED
                BY <1>2, <2>4, <4>1 DEF SettlingItems, Settles
        <3>2. rest \in Seq(SettlingItems')
            BY <1>2, <2>4, <2>6, <3>1, SettlingRest
        <3>3. \A i \in DOMAIN items, j \in DOMAIN rest : ~Twice(items[i], rest[j], watched)
            BY <2>7, <2>14 DEF Twice, Tells
        <3> QED
            BY <2>4, <2>5, <2>6, <2>11, <2>12, <2>13, <2>15, <3>2, <3>3, SettlingStep
    <2>17. Makes'
        BY <1>2, <2>4, MakesQuiet
    <2>18. Watches'
        <3>1. \A q \in Promises : state'[q] = "pending" => state[q] = "pending"
            BY <1>3, <2>3 DEF Settled
        <3>2. \A m \in Promises : Children(m) \subseteq Promises
            BY <1>2, ChildrenIn
        <3>3. /\ \A q \in Watched : Watching(awaiter[q]) /\ q \in Children(awaiter[q])
              /\ \A m \in Promises : Watching(m) => \A q \in Children(m) :
                    /\ state'[q] = "pending" => awaiter[q] = m
                    /\ q \in Watched => awaiter[q] = m
            BY <1>2, <3>1, <3>2 DEF Watches
        <3> QED
            BY <1>2, <2>4, <3>3 DEF Watches, Watching, Children
    <2>19. \A q : Tells(work', q) <=> q = x.p \/ Tells(work, q)
        <3>1. items \in Seq(WorkItems) /\ rest \in Seq(WorkItems)
            <4>1. \A i \in DOMAIN items : items[i] \in WorkItems
                <5>1. \A i \in DOMAIN items : items[i] \in S
                    BY <2>12
                <5> QED
                    BY <2>11, <5>1 DEF SettlingItems
            <4>2. \A i \in DOMAIN rest : rest[i] \in WorkItems
                BY <2>6 DEF SettlingItems
            <4> QED
                BY <2>6, <4>1, <4>2, SequenceOf
        <3>2. \A q : Tells(items, q) => q = x.p
            BY <2>14 DEF Tells
        <3>3. Tells(items, x.p)
            <4>1. Tells(last, x.p)
                BY <2>10 DEF Tells
            <4>2. calls \in Seq(S) /\ last \in Seq(S)
                BY <2>9, <2>10, <2>11
            <4> QED
                BY <2>12, <4>1, <4>2, TellsFront
        <3>4. \A q : Tells(items \o rest, q) <=> Tells(items, q) \/ Tells(rest, q)
            BY <3>1, TellsFront
        <3> QED
            BY <2>6, <2>15, <3>2, <3>3, <3>4
    <2>20. Tallies'
        <3> SUFFICES ASSUME NEW m \in Promises, combo'[m].status = "waiting", state'[m] = "pending" PROVE Tally(m)'
            BY DEF Tallies
        <3>1. combo[m].status = "waiting" /\ combo[m].mode # "none" /\ Made(m) /\ combo'[m] = combo[m]
            BY <1>2 DEF Makes
        <3>2. state[m] = "pending" /\ Tally(m)
            <4>1. state[m] = "pending"
                BY <1>3, <2>3 DEF Settled
            <4> QED
                BY <1>2, <3>1, <4>1 DEF Tallies
        <3>3. ASSUME NEW q \in Children(m) PROVE Counted(m, q)' <=> Counted(m, q)
            <4>1. q \in Promises
                BY <1>2, ChildrenIn
            <4>2. CASE q = x.p
                <5>1. awaiter'[q] = m /\ Tells(work', q) /\ ~Counted(m, q)
                    BY <1>2, <1>5, <2>19, <3>1, <4>2 DEF Watches, Watching, Counted, Settled
                <5> QED
                    BY <5>1 DEF Counted, Tells
            <4>3. CASE q # x.p
                BY <1>2, <2>3, <2>19, <4>1, <4>3, CountedStays
            <4> QED
                BY <4>2, <4>3
        <3> QED
            BY <1>2, <3>1, <3>2, <3>3, TallyStays
    <2>21. Decided'
        <3>1. May_agree(x.p, x.how)
            BY <1>1, <1>2, HeadSettles DEF SettlingItems, Settles
        <3>2. May_agree(x.p, x.how)'
            BY <1>2, <1>3, <2>4, <3>1, AgreesStays
        <3>3. \A how : how = state'[x.p] => May_agree(x.p, how)'
            BY <2>3, <3>2
        <3>4. \A m \in Promises : state'[m] # state[m] => May_agree(m, state[m])'
            BY <2>3, <3>3
        <3> QED
            BY <1>2, <2>4, <3>4, DecidedStays
    <2> QED
        BY <2>16, <2>17, <2>18, <2>20, <2>21 DEF Combining
<1> QED
    BY <1>4, <1>5

\* A combinator lets go of its children.
LEMMA ComposeFreeCombining ==
    ASSUME Inv, Combining, Grown, compose_free
    PROVE  Combining'
<1>1. PICK x \in SoundItems :
        /\ x = Now /\ x \in WorkItems /\ x.do = "combined"
        /\ Tail(work) \in Seq(SoundItems)
    BY Top DEF compose_free
<1>2. /\ UNCHANGED <<state, co>> /\ op' = op /\ work # <<>>
      /\ Typed /\ Settling /\ Makes /\ Watches /\ Tallies /\ Decided
    BY DEF compose_free, owners, Inv, Combining, Doing
<1>3. PICK m \in Promises : m = x.p
    BY <1>1, ItemFields
<1>4. PICK children \in Seq(Promises) : children = combo[m].children
    BY <1>2 DEF Typed, Combos
<1>5. PICK items, rest : items = [i \in DOMAIN children |-> Release(children[i])] /\ rest = Tail(work)
    OBVIOUS
<1>6. /\ work' = items \o rest
      /\ awaiter' = [q \in Promises |-> IF q \in Children(m) THEN NoWaiter ELSE awaiter[q]]
      /\ combo' = [combo EXCEPT ![m].status = "freed"]
    BY <1>1, <1>3, <1>4, <1>5 DEF compose_free, Next_do, Let_go, Children
<1>7. items \in Seq(SettlingItems') /\ \A i \in DOMAIN items : items[i].do = "release"
    <2>1. items \in Seq(SettlingItems')
        BY <1>5, SettlingRelease
    <2>2. \A i \in DOMAIN items : items[i].do = "release"
        BY <1>5 DEF Release
    <2> QED
        BY <2>1, <2>2
<1>8. combo[m].status = "decided" /\ Watching(m)
    BY <1>1, <1>2, <1>3, HeadSettles DEF SettlingItems, Settles, Watching
<1>9. /\ combo'[m].status = "freed" /\ combo'[m].mode = combo[m].mode /\ combo'[m].children = combo[m].children
      /\ \A p \in Promises : p # m => combo'[p] = combo[p]
    BY <1>2, <1>6 DEF Typed, Combos
<1>10. Kept_combos /\ \A p \in Promises : Children(p)' = Children(p)
    BY <1>9 DEF Kept_combos, Children
<1>11. ASSUME NEW q \in Promises
       PROVE  /\ q \in Watched' => q \in Watched /\ awaiter'[q] = awaiter[q] /\ awaiter[q] # m
              /\ q \in Watched /\ awaiter[q] # m => q \in Watched' /\ awaiter'[q] = awaiter[q]
    <2>1. awaiter'[q] = IF q \in Children(m) THEN NoWaiter ELSE awaiter[q]
        BY <1>6
    <2>2. q \in Watched => (q \in Children(m) <=> awaiter[q] = m)
        BY <1>2, <1>8 DEF Watches, Watched
    <2> QED
        BY <2>1, <2>2, PromiseAssumption DEF Watched
<1>12. Watched' \subseteq Watched
    BY <1>11 DEF Watched
<1>13. PICK watched, after : watched = Watched /\ after = Watched'
    OBVIOUS
<1>14. /\ rest \in Seq(SettlingItems) /\ rest \in Seq(SoundItems) /\ Once(rest, watched)
       /\ \A j \in DOMAIN rest : ~Twice(x, rest[j], watched)
       /\ \A q : Tells(work, q) <=> Tells(rest, q)
    BY <1>1, <1>2, <1>5, <1>13, HeadSettles
<1>15. Settling'
    <2>1. ASSUME NEW i \in DOMAIN rest
          PROVE  /\ rest[i].do = "combined" => combo'[rest[i].p].status = "decided"
                 /\ rest[i].do \in {"run", "finish"} /\ rest[i].p # NoPromise => rest[i].p \notin Watched'
        <3>1. rest[i] \in SettlingItems /\ ~Twice(x, rest[i], watched)
            BY <1>14
        <3>2. rest[i] \in WorkItems /\ Settles(rest[i])
            BY <3>1 DEF SettlingItems
        <3>3. ASSUME rest[i].do = "combined" PROVE combo'[rest[i].p].status = "decided"
            <4>1. rest[i].p # m /\ rest[i].p \in Promises
                BY <1>1, <1>3, <3>1, <3>2, <3>3, ItemFields DEF Twice
            <4> QED
                BY <1>9, <3>2, <3>3, <4>1 DEF Settles
        <3> QED
            BY <1>12, <3>2, <3>3 DEF Settles
    <2>2. rest \in Seq(SettlingItems')
        BY <1>2, <1>10, <1>14, <2>1, SettlingRest
    <2>3. Once(items, after) /\ Once(rest, after)
        BY <1>7, <1>12, <1>13, <1>14 DEF Once, Twice
    <2>4. \A i \in DOMAIN items, j \in DOMAIN rest : ~Twice(items[i], rest[j], after)
        BY <1>7 DEF Twice
    <2> QED
        BY <1>6, <1>7, <1>13, <2>2, <2>3, <2>4, SettlingStep
<1>16. Makes'
    <2>1. /\ \A p \in Promises : combo'[p].mode = combo[p].mode
          /\ \A p \in Promises : combo[p].status = "none" => combo'[p].status = "none"
        BY <1>8, <1>9
    <2> QED
        BY <1>2, <1>10, <2>1, MakesQuiet
<1>17. Watches'
    <2>1. \A p \in Promises : Watching(p)' <=> Watching(p) /\ p # m
        BY <1>9 DEF Watching
    <2>2. ASSUME NEW q \in Watched' PROVE Watching(awaiter[q])' /\ q \in Children(awaiter[q])'
        <3>1. q \in Promises /\ awaiter'[q] \in Promises
            BY <2>2 DEF Watched
        <3>2. PICK p \in Promises : p = awaiter'[q] /\ p = awaiter[q] /\ p # m /\ q \in Watched
            BY <1>11, <2>2, <3>1
        <3>3. Watching(p)' /\ q \in Children(p)'
            BY <1>2, <1>10, <2>1, <3>2 DEF Watches
        <3> QED
            BY <3>2, <3>3 DEF Watching, Children
    <2>3. ASSUME NEW p \in Promises, Watching(p)', NEW q \in Children(p)'
          PROVE  /\ state'[q] = "pending" => awaiter'[q] = p
                 /\ q \in Watched' => awaiter'[q] = p
        <3>1. Watching(p) /\ p # m /\ q \in Children(p) /\ q \in Promises
            BY <1>2, <1>10, <2>1, <2>3, ChildrenIn
        <3>2. /\ state[q] = "pending" => awaiter[q] = p /\ q \in Watched
              /\ q \in Watched => awaiter[q] = p
            BY <1>2, <3>1 DEF Watches, Watched
        <3> QED
            BY <1>2, <1>11, <3>1, <3>2
    <2> QED
        BY <2>2, <2>3 DEF Watches
<1>18. \A q : Tells(work', q) <=> Tells(work, q)
    <2>1. items \in Seq(WorkItems) /\ rest \in Seq(WorkItems)
        <3>1. \A i \in DOMAIN items : items[i] \in SettlingItems'
            BY <1>7
        <3>2. \A i \in DOMAIN items : items[i] \in WorkItems
            BY <3>1 DEF SettlingItems
        <3>3. \A i \in DOMAIN rest : rest[i] \in WorkItems
            BY <1>14 DEF SettlingItems
        <3> QED
            BY <1>7, <1>14, <3>2, <3>3, SequenceOf
    <2>2. \A q : ~Tells(items, q)
        BY <1>7 DEF Tells
    <2>3. \A q : Tells(items \o rest, q) <=> Tells(items, q) \/ Tells(rest, q)
        BY <2>1, TellsFront
    <2> QED
        BY <1>6, <1>14, <2>2, <2>3
<1>19. Tallies'
    <2> SUFFICES ASSUME NEW p \in Promises, combo'[p].status = "waiting", state'[p] = "pending" PROVE Tally(p)'
        BY DEF Tallies
    <2>1. p # m
        BY <1>9
    <2>2. combo'[p] = combo[p]
        BY <1>9, <2>1
    <2>3. combo[p].mode # "none" /\ Made(p) /\ Tally(p)
        BY <1>2, <2>2 DEF Makes, Tallies
    <2>4. ASSUME NEW q \in Children(p) PROVE Counted(p, q)' <=> Counted(p, q)
        <3>1. q \in Promises
            BY <1>2, ChildrenIn
        <3>2. awaiter'[q] = p <=> awaiter[q] = p
            BY <1>11, <2>1, <3>1 DEF Watched
        <3> QED
            BY <1>2, <1>18, <3>2, CountedStays
    <2> QED
        BY <1>2, <2>2, <2>3, <2>4, TallyStays
<1>20. Decided'
    <2>1. \A p \in Promises : state'[p] = state[p]
        BY <1>2
    <2> QED
        BY <1>2, <1>10, <2>1, DecidedStays
<1> QED
    BY <1>15, <1>16, <1>17, <1>19, <1>20 DEF Combining

\* What a combinator m decides when its child q, the other being o, has told it.
LEMMA DecisionOfTwo ==
    ASSUME NEW m \in Promises, combo[m].mode \in Modes, Len(combo[m].children) = 2,
           NEW q, NEW o, Children(m) = {q, o}, state[q] \in Settled,
           NEW counted \in BOOLEAN, combo[m].count = IF counted THEN 1 ELSE 0,
           counted => state[o] \in Settled /\ Leaves_open(m, o),
           NEW how, how = Decision(m, state[q])
    PROVE  /\ how = "pending" => ~counted /\ Leaves_open(m, q)
           /\ how # "pending" => how \in Settled /\ Agrees(m, how)
<1>1. combo[m].count + 1 < Len(combo[m].children) <=> ~counted
    OBVIOUS
<1>2. CASE combo[m].mode = "race"
    <2>1. how = state[q]
        BY <1>2 DEF Decision
    <2> QED
        BY <1>2, <2>1 DEF Agrees, Settled
<1>3. CASE combo[m].mode = "all"
    <2>1. how = IF state[q] = "rejected" THEN "rejected" ELSE IF counted THEN "fulfilled" ELSE "pending"
        BY <1>1, <1>3 DEF Decision
    <2> QED
        BY <1>3, <2>1 DEF Agrees, Leaves_open, Settled
<1>4. CASE combo[m].mode = "any"
    <2>1. how = IF state[q] = "fulfilled" THEN "fulfilled" ELSE IF counted THEN "rejected" ELSE "pending"
        BY <1>1, <1>4 DEF Decision
    <2> QED
        BY <1>4, <2>1 DEF Agrees, Leaves_open, Settled
<1>5. CASE combo[m].mode = "allSettled"
    <2>1. how = IF counted THEN "fulfilled" ELSE "pending"
        BY <1>1, <1>5 DEF Decision
    <2> QED
        BY <1>5, <2>1 DEF Agrees, Leaves_open, Settled
<1> QED
    BY <1>2, <1>3, <1>4, <1>5 DEF Modes

\* A combinator looks at a child that has been settled.
LEMMA ComposeSettledCombining ==
    ASSUME Inv, Combining, Grown, compose_on_settled
    PROVE  Combining'
<1>1. PICK x \in SoundItems :
        /\ x = Now /\ x \in WorkItems /\ Sound(x) /\ x.do = "notify"
        /\ Tail(work) \in Seq(SoundItems)
    BY Top DEF compose_on_settled
<1>2. /\ UNCHANGED <<state, awaiter, co>> /\ op' = op /\ work # <<>>
      /\ Typed /\ Settling /\ Makes /\ Watches /\ Tallies /\ Decided
    BY DEF compose_on_settled, owners, Inv, Combining, Doing
<1>3. PICK q \in Promises : q = x.p /\ state[q] \in Settled
    BY <1>1, ItemFields DEF Sound
<1>4. PICK m \in Promises : m = awaiter[q]
    BY <1>1, <1>3 DEF compose_on_settled
<1>5. q \in Watched /\ Watching(m) /\ q \in Children(m)
    BY <1>2, <1>4 DEF Watches, Watched
<1>6. combo[m].mode # "none" /\ Made(m)
    BY <1>2, <1>5 DEF Makes, Watching
<1>7. PICK rest, verdict : rest = Tail(work) /\ verdict = Decision(m, state[q])
    OBVIOUS
<1>8. PICK o \in Promises : /\ o # q /\ Children(m) = {q, o} /\ q \in Promises
                            /\ \/ combo[m].children[1] = q /\ combo[m].children[2] = o
                               \/ combo[m].children[1] = o /\ combo[m].children[2] = q
    <2>1. PICK s \in Seq(Promises) : s = combo[m].children /\ Len(s) = 2 /\ s[1] # s[2]
        BY <1>2, <1>6 DEF Typed, Combos, Made
    <2>2. DOMAIN s = {1, 2} /\ s[1] \in Promises /\ s[2] \in Promises
        BY <2>1
    <2>3. Children(m) = {s[1], s[2]}
        BY <2>1, <2>2 DEF Children, ToSet
    <2> QED
        BY <1>5, <2>1, <2>2, <2>3
<1>9. PICK watched : watched = Watched
    OBVIOUS
<1>10. /\ rest \in Seq(SettlingItems) /\ rest \in Seq(SoundItems) /\ Once(rest, watched)
       /\ \A j \in DOMAIN rest : ~Twice(x, rest[j], watched)
       /\ \A p : Tells(work, p) <=> p = q \/ Tells(rest, p)
    BY <1>1, <1>2, <1>3, <1>7, <1>9, HeadSettles
<1>11. ~Tells(rest, q)
    BY <1>1, <1>3, <1>5, <1>9, <1>10 DEF Twice, Tells
<1>12. ~Counted(m, q)
    BY <1>4, <1>10 DEF Counted
<1>13. PICK open : open = (combo[m].status = "waiting" /\ state[m] = "pending")
    OBVIOUS
<1>14. open => /\ combo[m].count = IF Counted(m, o) THEN 1 ELSE 0
               /\ Counted(m, o) => Leaves_open(m, o)
    <2>1. open => Tally(m)
        BY <1>2, <1>13 DEF Tallies
    <2> QED
        BY <1>8, <1>12, <2>1 DEF Tally
<1>15. open => /\ verdict = "pending" => ~Counted(m, o) /\ Leaves_open(m, q)
               /\ verdict # "pending" => verdict \in Settled /\ Agrees(m, verdict)
    <2> SUFFICES ASSUME open PROVE /\ verdict = "pending" => ~Counted(m, o) /\ Leaves_open(m, q)
                                   /\ verdict # "pending" => verdict \in Settled /\ Agrees(m, verdict)
        OBVIOUS
    <2>1. PICK counted \in BOOLEAN : counted <=> Counted(m, o)
        OBVIOUS
    <2>2. combo[m].mode \in Modes /\ Len(combo[m].children) = 2
        BY <1>2, <1>6 DEF Typed, Combos, Made
    <2>3. /\ combo[m].count = IF counted THEN 1 ELSE 0
          /\ counted => state[o] \in Settled /\ Leaves_open(m, o)
        BY <1>14, <2>1 DEF Counted
    <2>4. /\ verdict = "pending" => ~counted /\ Leaves_open(m, q)
          /\ verdict # "pending" => verdict \in Settled /\ Agrees(m, verdict)
        BY <1>3, <1>7, <1>8, <2>2, <2>3, DecisionOfTwo
    <2> QED
        BY <2>1, <2>4
<1>16. PICK items :
        /\ work' = items \o rest
        /\ \/ ~open /\ items = <<>> /\ combo' = [combo EXCEPT ![m].status = "decided"]
           \/ open /\ verdict = "pending" /\ items = <<>> /\ combo' = [combo EXCEPT ![m].count = @ + 1]
           \/ /\ open /\ verdict # "pending" /\ items = <<Settle(m, verdict), Combined(m)>>
              /\ combo' = [combo EXCEPT ![m].status = "decided"]
    BY <1>1, <1>3, <1>4, <1>7, <1>13 DEF compose_on_settled, Next_do
<1>17. /\ combo'[m].mode = combo[m].mode /\ combo'[m].children = combo[m].children
       /\ combo'[m].status \in {combo[m].status, "decided"}
       /\ \A p \in Promises : p # m => combo'[p] = combo[p]
    BY <1>2, <1>16 DEF Typed, Combos
<1>18. ~(open /\ verdict = "pending") => combo'[m].status = "decided"
    BY <1>2, <1>16 DEF Typed, Combos
<1>19. open /\ verdict = "pending" => combo'[m].status = "waiting" /\ combo'[m].count = combo[m].count + 1
    BY <1>2, <1>13, <1>16 DEF Typed, Combos
<1>20. /\ Kept_combos /\ (\A p \in Promises : Children(p)' = Children(p)) /\ Watched' = watched
       /\ \A p \in Promises : Watching(p)' <=> Watching(p)
    <2>1. Watching(m)'
        BY <1>5, <1>17 DEF Watching
    <2>2. \A p \in Promises : Watching(p)' <=> Watching(p)
        BY <1>5, <1>17, <2>1 DEF Watching
    <2> QED
        BY <1>2, <1>9, <1>17, <2>2 DEF Kept_combos, Children, Watched
<1>21. items \in Seq(SettlingItems') /\ Once(items, watched)
       /\ \A i \in DOMAIN items : items[i].do = "settle" \/ (open /\ items[i].do = "combined" /\ items[i].p = m)
    <2>1. CASE items = <<>>
        BY <2>1 DEF Once
    <2>2. CASE items # <<>>
        <3>1. open /\ verdict \in Settled /\ Agrees(m, verdict) /\ items = <<Settle(m, verdict), Combined(m)>>
            BY <1>15, <1>16, <2>2
        <3>2. Settle(m, verdict) \in SettlingItems' /\ Settle(m, verdict).do = "settle"
            <4>1. May_agree(m, verdict) /\ state[m] # "unborn"
                BY <1>6, <3>1 DEF May_agree, Made, Root
            <4>2. May_agree(m, verdict)'
                BY <1>2, <1>20, <3>1, <4>1, AgreesStays
            <4> QED
                BY <3>1, <4>2, SettlingSettle DEF Settle
        <3>3. Combined(m) \in SettlingItems' /\ Combined(m).do = "combined" /\ Combined(m).p = m
            <4>1. Combined(m) \in WorkItems
                BY ItemKinds
            <4>2. combo'[m].status = "decided"
                BY <1>18, <2>2, <1>16
            <4> QED
                BY <4>1, <4>2 DEF SettlingItems, Settles, Combined
        <3> QED
            BY <3>1, <3>2, <3>3 DEF Once, Twice
    <2> QED
        BY <2>1, <2>2
<1>22. Settling'
    <2>1. ASSUME NEW i \in DOMAIN rest
          PROVE  /\ rest[i].do = "combined" => combo'[rest[i].p].status = "decided"
                 /\ rest[i].do \in {"run", "finish"} /\ rest[i].p # NoPromise => rest[i].p \notin Watched'
                 /\ rest[i].do = "combined" => combo[rest[i].p].status = "decided"
        <3>1. rest[i] \in SettlingItems
            BY <1>10
        <3>2. rest[i] \in WorkItems /\ Settles(rest[i])
            BY <3>1 DEF SettlingItems
        <3>3. ASSUME rest[i].do = "combined" PROVE combo'[rest[i].p].status = "decided"
            BY <1>17, <3>2, <3>3, ItemFields DEF Settles
        <3> QED
            BY <1>9, <1>20, <3>2, <3>3 DEF Settles
    <2>2. rest \in Seq(SettlingItems')
        BY <1>2, <1>10, <1>20, <2>1, SettlingRest
    <2>3. \A i \in DOMAIN items, j \in DOMAIN rest : ~Twice(items[i], rest[j], watched)
        BY <1>13, <1>21, <2>1 DEF Twice
    <2> QED
        BY <1>10, <1>16, <1>20, <1>21, <2>2, <2>3, SettlingStep
<1>23. Makes'
    <2>1. /\ \A p \in Promises : combo'[p].mode = combo[p].mode
          /\ \A p \in Promises : combo[p].status = "none" => combo'[p].status = "none"
        BY <1>5, <1>17 DEF Watching
    <2> QED
        BY <1>2, <1>20, <2>1, MakesQuiet
<1>24. Watches'
    <2>1. ASSUME NEW p \in Watched PROVE Watching(awaiter[p])' /\ p \in Children(awaiter[p])'
        <3>1. PICK n \in Promises : n = awaiter[p] /\ Watching(n) /\ p \in Children(n)
            BY <1>2 DEF Watches, Watched
        <3>2. Watching(n)' /\ p \in Children(n)'
            BY <1>20, <3>1
        <3> QED
            BY <1>2, <3>1, <3>2 DEF Watching, Children
    <2>2. ASSUME NEW n \in Promises, Watching(n)', NEW p \in Children(n)'
          PROVE  /\ state'[p] = "pending" => awaiter'[p] = n
                 /\ p \in Watched => awaiter'[p] = n
        BY <1>2, <1>20, <2>2 DEF Watches
    <2> QED
        BY <1>2, <1>9, <1>20, <2>1, <2>2 DEF Watches
<1>25. \A p : Tells(work', p) <=> Tells(rest, p)
    <2>1. items \in Seq(WorkItems) /\ rest \in Seq(WorkItems)
        <3>1. \A i \in DOMAIN items : items[i] \in SettlingItems'
            BY <1>21
        <3>2. \A i \in DOMAIN items : items[i] \in WorkItems
            BY <3>1 DEF SettlingItems
        <3>3. \A i \in DOMAIN rest : rest[i] \in WorkItems
            BY <1>10 DEF SettlingItems
        <3> QED
            BY <1>10, <1>21, <3>2, <3>3, SequenceOf
    <2>2. \A p : ~Tells(items, p)
        BY <1>21 DEF Tells
    <2>3. \A p : Tells(items \o rest, p) <=> Tells(items, p) \/ Tells(rest, p)
        BY <2>1, TellsFront
    <2> QED
        BY <1>16, <2>2, <2>3
<1>26. \A p : p # q => (Tells(work', p) <=> Tells(work, p))
    BY <1>10, <1>25
<1>27. ASSUME NEW n \in Promises, combo'[n].status = "waiting", state'[n] = "pending" PROVE Tally(n)'
    <2>1. CASE n # m
        <3>1. combo'[n] = combo[n]
            BY <1>17, <2>1
        <3>2. combo[n].mode # "none" /\ Made(n) /\ Tally(n)
            BY <1>2, <1>27, <3>1 DEF Makes, Tallies
        <3>3. ASSUME NEW p \in Children(n) PROVE Counted(n, p)' <=> Counted(n, p)
            BY <1>2, <1>4, <1>26, <2>1, CountedStays
        <3> QED
            BY <1>2, <3>1, <3>2, <3>3, TallyStays
    <2>2. CASE n = m
        <3>1. open /\ verdict = "pending"
            BY <1>18, <1>27, <2>2
        <3>2. combo[m].count = 0 /\ ~Counted(m, o) /\ Leaves_open(m, q)
            BY <1>14, <1>15, <3>1
        <3>3. combo'[m].count = 1
            BY <1>19, <3>1, <3>2
        <3>4. Counted(m, q)'
            BY <1>2, <1>3, <1>11, <1>25 DEF Counted, Tells
        <3>5. ~Counted(m, o)'
            BY <1>2, <1>8, <1>26, <3>2, CountedStays
        <3>6. Leaves_open(m, q)'
            BY <1>2, <1>17, <3>2 DEF Leaves_open
        <3>7. \/ combo'[m].children[1] = q /\ combo'[m].children[2] = o
              \/ combo'[m].children[1] = o /\ combo'[m].children[2] = q
            BY <1>8, <1>17
        <3>8. Tally(m)'
            <4>1. CASE combo'[m].children[1] = q /\ combo'[m].children[2] = o
                BY <3>3, <3>4, <3>5, <3>6, <4>1 DEF Tally, Counted, Leaves_open
            <4>2. CASE combo'[m].children[1] = o /\ combo'[m].children[2] = q
                BY <3>3, <3>4, <3>5, <3>6, <4>2 DEF Tally, Counted, Leaves_open
            <4> QED
                BY <3>7, <4>1, <4>2
        <3> QED
            BY <2>2, <3>8
    <2> QED
        BY <2>1, <2>2
<1>28. Decided'
    <2>1. \A p \in Promises : state'[p] = state[p]
        BY <1>2
    <2> QED
        BY <1>2, <1>20, <2>1, DecidedStays
<1>29. Tallies'
    BY <1>27 DEF Tallies
<1> QED
    BY <1>22, <1>23, <1>24, <1>28, <1>29 DEF Combining

----------------------------------------------------------------------------
(***************************************************************************)
(* New combinators.                                                        *)
(***************************************************************************)
\* What one of two promises decides at once.
LEMMA VerdictOfTwo ==
    ASSUME NEW mode \in Modes, NEW found \in [1 .. 2 -> Found], NEW how, how = Verdict(mode, found)
    PROVE  /\ mode = "race" => how = IF found[1] # "pending" THEN found[1] ELSE found[2]
           /\ mode = "all" =>
                how = IF found[1] = "rejected" \/ found[2] = "rejected" THEN "rejected"
                      ELSE IF found[1] = "pending" \/ found[2] = "pending" THEN "pending" ELSE "fulfilled"
           /\ mode = "any" =>
                how = IF found[1] = "fulfilled" \/ found[2] = "fulfilled" THEN "fulfilled"
                      ELSE IF found[1] = "pending" \/ found[2] = "pending" THEN "pending" ELSE "rejected"
           /\ mode = "allSettled" =>
                how = IF found[1] = "pending" \/ found[2] = "pending" THEN "pending" ELSE "fulfilled"
<1> DEFINE some(what) == \E i \in DOMAIN found : found[i] = what
           early(i) == found[i] # "pending" /\ \A j \in 1 .. i - 1 : found[j] = "pending"
<1>1. DOMAIN found = {1, 2} /\ found[1] \in Found /\ found[2] \in Found
    OBVIOUS
<1>2. \A what : some(what) <=> found[1] = what \/ found[2] = what
    BY <1>1
<1>3. CASE mode = "race"
    <2>1. CASE some("fulfilled") \/ some("rejected")
        <3>1. PICK i : i = (CHOOSE j \in DOMAIN found : early(j))
            OBVIOUS
        <3>2. how = found[i]
            BY <1>3, <2>1, <3>1 DEF Verdict
        <3>3. CASE found[1] # "pending"
            <4>1. early(1)
                BY <3>3
            <4>2. i \in DOMAIN found /\ early(i)
                BY <1>1, <3>1, <4>1
            <4>3. ~early(2)
                BY <3>3
            <4> QED
                BY <1>1, <1>3, <3>2, <3>3, <4>2, <4>3
        <3>4. CASE found[1] = "pending"
            <4>1. found[2] # "pending"
                BY <1>2, <2>1, <3>4
            <4>2. \A j \in 1 .. 2 - 1 : found[j] = "pending"
                BY <3>4
            <4>3. early(2)
                BY <4>1, <4>2
            <4>4. i \in DOMAIN found /\ early(i)
                BY <1>1, <3>1, <4>3
            <4> QED
                BY <1>1, <1>3, <3>2, <3>4, <4>4
        <3> QED
            BY <3>3, <3>4
    <2>2. CASE ~(some("fulfilled") \/ some("rejected"))
        <3>1. found[1] = "pending" /\ found[2] = "pending"
            BY <1>1, <1>2, <2>2 DEF Found, Settled
        <3>2. how = "pending"
            BY <1>3, <2>2 DEF Verdict
        <3> QED
            BY <1>3, <3>1, <3>2
    <2> QED
        BY <2>1, <2>2
<1>4. CASE mode = "all"
    <2>1. how = IF some("rejected") THEN "rejected" ELSE IF some("pending") THEN "pending" ELSE "fulfilled"
        BY <1>4 DEF Verdict
    <2>2. (some("rejected") <=> found[1] = "rejected" \/ found[2] = "rejected")
          /\ (some("pending") <=> found[1] = "pending" \/ found[2] = "pending")
        BY <1>1
    <2> QED
        BY <1>4, <2>1, <2>2
<1>5. CASE mode = "any"
    <2>1. how = IF some("fulfilled") THEN "fulfilled" ELSE IF some("pending") THEN "pending" ELSE "rejected"
        BY <1>5 DEF Verdict
    <2>2. (some("fulfilled") <=> found[1] = "fulfilled" \/ found[2] = "fulfilled")
          /\ (some("pending") <=> found[1] = "pending" \/ found[2] = "pending")
        BY <1>1
    <2> QED
        BY <1>5, <2>1, <2>2
<1>6. CASE mode = "allSettled"
    <2>1. how = IF some("pending") THEN "pending" ELSE "fulfilled"
        BY <1>6 DEF Verdict
    <2>2. some("pending") <=> found[1] = "pending" \/ found[2] = "pending"
        BY <1>1
    <2> QED
        BY <1>6, <2>1, <2>2
<1> QED
    BY <1>3, <1>4, <1>5, <1>6 DEF Modes

LEMMA CountOfTwo ==
    ASSUME NEW found \in [1 .. 2 -> Found], found[1] = "pending" \/ found[2] = "pending"
    PROVE  Count_settled(found) = IF found[1] # "pending" \/ found[2] # "pending" THEN 1 ELSE 0
<1>1. DOMAIN found = {1, 2}
    OBVIOUS
<1>2. PICK counted : counted = (DOMAIN found) \ Pending(found)
    OBVIOUS
<1>3. counted = {i \in {1, 2} : found[i] # "pending"}
    BY <1>1, <1>2 DEF Pending
<1>4. CASE found[1] = "pending" /\ found[2] = "pending"
    <2>1. counted = {}
        BY <1>3, <1>4
    <2> QED
        BY <1>2, <1>4, <2>1, FS_EmptySet DEF Count_settled
<1>5. CASE found[1] # "pending" /\ found[2] = "pending"
    <2>1. counted = {1}
        BY <1>3, <1>5
    <2> QED
        BY <1>2, <1>5, <2>1, FS_Singleton DEF Count_settled
<1>6. CASE found[1] = "pending" /\ found[2] # "pending"
    <2>1. counted = {2}
        BY <1>3, <1>6
    <2> QED
        BY <1>2, <1>6, <2>1, FS_Singleton DEF Count_settled
<1> QED
    BY <1>4, <1>5, <1>6

\* A combinator of a and b, which nobody waits for, is made: m is its promise, and
\* st what the states are but for m.
LEMMA ComposeCombining ==
    ASSUME Inv, Combining, Grown, Inv',
           NEW mode \in Modes, NEW a \in Promises, NEW b \in Promises, NEW m \in Promises,
           a # b, a # m, b # m, a \notin Watched, b \notin Watched,
           NEW st \in [Promises -> States], st[m] = "unborn", st[a] # "unborn", st[b] # "unborn",
           \A p \in Promises : st[p] = state[p] \/ (state[p] = "unborn" /\ st[p] = "pending"),
           NEW refs, Compose(mode, <<a, b>>, m, st, refs),
           \A p \in Promises : op'[p] = op[p] \/ (p # m /\ state[p] = "unborn"),
           UNCHANGED <<co, origin>>, work' = work
    PROVE  Combining'
<1>1. /\ Typed /\ Births /\ Waits /\ Settling /\ Makes /\ Watches /\ Tallies /\ Decided
      /\ work \in Seq(SoundItems)
    BY DEF Inv, Stack, Combining
<1>2. PICK children : children = <<a, b>>
    OBVIOUS
<1>3. children \in Seq(Promises) /\ DOMAIN children = 1 .. 2 /\ Len(children) = 2 /\ children[1] = a /\ children[2] = b
    BY <1>2
<1>4. PICK found : found = [i \in DOMAIN children |-> st[children[i]]]
    OBVIOUS
<1>5. found \in [1 .. 2 -> Found] /\ found[1] = st[a] /\ found[2] = st[b] /\ st[a] \in Found /\ st[b] \in Found
    <2>1. st[a] \in Found /\ st[b] \in Found
        BY DEF States, Found
    <2> QED
        BY <1>3, <1>4, <2>1
<1>6. PICK verdict \in Found : verdict = Verdict(mode, found)
    BY <1>5, VerdictKind
<1>7. PICK new : new = [mode |-> mode, children |-> children, count |-> Count_settled(found),
                        status |-> IF verdict = "pending" THEN "waiting" ELSE "freed"]
    OBVIOUS
<1>8. state' = [st EXCEPT ![m] = verdict] /\ combo' = [combo EXCEPT ![m] = new]
    BY <1>2, <1>4, <1>6, <1>7 DEF Compose
<1>9. \A q \in Promises :
        /\ q \notin {a, b} => awaiter'[q] = awaiter[q]
        /\ verdict = "pending" => awaiter'[q] = IF q \in {a, b} /\ st[q] = "pending" THEN m ELSE awaiter[q]
        /\ awaiter'[q] \in {m, NoWaiter, awaiter[q]}
        /\ verdict # "pending" => awaiter'[q] # m \/ awaiter[q] = m
    <2> DEFINE at(q) == {i \in DOMAIN children : children[i] = q}
               unwatched == {i \in Pending(found) : \E j \in DOMAIN found : i < j /\ found[j] = "rejected"}
    <2>1. awaiter' = [q \in Promises |->
            CASE verdict = "pending" /\ at(q) \cap Pending(found) # {} -> m
              [] (verdict = "rejected" /\ mode = "all") /\ at(q) \cap unwatched # {} -> NoWaiter
              [] OTHER -> awaiter[q]]
        BY <1>2, <1>4, <1>6 DEF Compose
    <2>2. \A q \in Promises : at(q) \cap Pending(found) # {} <=> q \in {a, b} /\ st[q] = "pending"
        <3>1. Pending(found) = {i \in {1, 2} : found[i] = "pending"}
            BY <1>5 DEF Pending
        <3>2. \A q : at(q) = {i \in {1, 2} : children[i] = q}
            BY <1>3
        <3> QED
            BY <1>3, <1>5, <3>1, <3>2
    <2>3. \A q \in Promises : q \notin {a, b} => at(q) = {}
        BY <1>3
    <2> SUFFICES ASSUME NEW q \in Promises
                 PROVE  /\ q \notin {a, b} => awaiter'[q] = awaiter[q]
                        /\ verdict = "pending" =>
                            awaiter'[q] = IF q \in {a, b} /\ st[q] = "pending" THEN m ELSE awaiter[q]
                        /\ awaiter'[q] \in {m, NoWaiter, awaiter[q]}
                        /\ verdict # "pending" => awaiter'[q] # m \/ awaiter[q] = m
        OBVIOUS
    <2>4. PICK A, B : A = (at(q) \cap Pending(found) # {}) /\ B = (at(q) \cap unwatched # {})
        OBVIOUS
    <2>5. awaiter'[q] = CASE verdict = "pending" /\ A -> m
                          [] (verdict = "rejected" /\ mode = "all") /\ B -> NoWaiter
                          [] OTHER -> awaiter[q]
        BY <2>1, <2>4
    <2>6. A <=> q \in {a, b} /\ st[q] = "pending"
        BY <2>2, <2>4
    <2>7. q \notin {a, b} => ~B
        BY <2>3, <2>4
    <2>8. m # NoWaiter
        BY PromiseAssumption
    <2> QED
        BY <2>5, <2>6, <2>7, <2>8
<1>10. /\ combo'[m] = new /\ \A p \in Promises : p # m => combo'[p] = combo[p]
       /\ new.mode = mode /\ new.children = children /\ new.count = Count_settled(found)
       /\ new.status = IF verdict = "pending" THEN "waiting" ELSE "freed"
    BY <1>1, <1>7, <1>8 DEF Typed
<1>11. /\ state[m] = "unborn" /\ state'[m] = verdict /\ verdict # "unborn"
       /\ \A p \in Promises : p # m => state'[p] = st[p]
    BY <1>6, <1>8 DEF Found, Settled
<1>12. combo[m].mode = "none" /\ combo[m].status = "none"
    BY <1>1, <1>11 DEF Makes, Made, Root
<1>13. Kept_combos /\ \A p \in Promises : p # m => Children(p)' = Children(p)
    BY <1>10, <1>11 DEF Kept_combos, Children
<1>14. Children(m)' = {a, b}
    <2>1. DOMAIN children = {1, 2}
        BY <1>3
    <2>2. Children(m)' = {children[i] : i \in DOMAIN children}
        BY <1>10 DEF Children, ToSet
    <2> QED
        BY <1>3, <2>1, <2>2
<1>15. Root(m)'
    <2>1. origin[m].parent = NoPromise
        BY <1>1, <1>11 DEF Births, NoOrigin
    <2> QED
        BY <1>11, <2>1 DEF Root
<1>16. \A p \in Promises : Watching(p) => p # m /\ combo[p].mode # "none" /\ Made(p)
    BY <1>1, <1>12 DEF Makes, Watching
<1>17. \A q \in Watched : q \notin {a, b} /\ awaiter[q] # m /\ awaiter'[q] = awaiter[q] /\ q \in Watched'
    <2> SUFFICES ASSUME NEW q \in Watched PROVE q \notin {a, b} /\ awaiter[q] # m /\ awaiter'[q] = awaiter[q]
        BY DEF Watched
    <2>1. q \in Promises /\ awaiter[q] \in Promises
        BY DEF Watched
    <2>2. Watching(awaiter[q])
        BY <1>1 DEF Watches
    <2> QED
        BY <1>9, <1>16, <2>1, <2>2
<1>18. ASSUME NEW q \in Watched', q \notin Watched
       PROVE  verdict = "pending" /\ q \in {a, b} /\ st[q] = "pending" /\ awaiter'[q] = m
    <2>1. q \in Promises /\ awaiter'[q] \in Promises /\ awaiter[q] \notin Promises
        BY <1>18 DEF Watched
    <2>2. awaiter'[q] = m /\ awaiter[q] # m
        BY <1>9, <2>1, PromiseAssumption
    <2> QED
        BY <1>9, <2>1, <2>2
<1>19. verdict = "pending" => /\ st[a] = "pending" \/ st[b] = "pending"
                              /\ mode = "all" => st[a] # "rejected" /\ st[b] # "rejected"
                              /\ mode = "any" => st[a] # "fulfilled" /\ st[b] # "fulfilled"
                              /\ mode = "race" => st[a] = "pending" /\ st[b] = "pending"
    <2>1. PICK x, y : x = st[a] /\ y = st[b] /\ x = found[1] /\ y = found[2]
        BY <1>5
    <2>2. CASE mode = "race"
        <3>1. verdict = IF x # "pending" THEN x ELSE y
            BY <1>5, <1>6, <2>1, <2>2, VerdictOfTwo
        <3> QED
            BY <2>1, <2>2, <3>1
    <2>3. CASE mode = "all"
        <3>1. verdict = IF x = "rejected" \/ y = "rejected" THEN "rejected"
                        ELSE IF x = "pending" \/ y = "pending" THEN "pending" ELSE "fulfilled"
            BY <1>5, <1>6, <2>1, <2>3, VerdictOfTwo
        <3> QED
            BY <2>1, <2>3, <3>1
    <2>4. CASE mode = "any"
        <3>1. verdict = IF x = "fulfilled" \/ y = "fulfilled" THEN "fulfilled"
                        ELSE IF x = "pending" \/ y = "pending" THEN "pending" ELSE "rejected"
            BY <1>5, <1>6, <2>1, <2>4, VerdictOfTwo
        <3> QED
            BY <2>1, <2>4, <3>1
    <2>5. CASE mode = "allSettled"
        <3>1. verdict = IF x = "pending" \/ y = "pending" THEN "pending" ELSE "fulfilled"
            BY <1>5, <1>6, <2>1, <2>5, VerdictOfTwo
        <3> QED
            BY <2>1, <2>5, <3>1
    <2> QED
        BY <2>2, <2>3, <2>4, <2>5 DEF Modes
<1>20. verdict # "pending" => /\ verdict \in Settled
                              /\ mode = "race" => verdict \in {st[a], st[b]}
                              /\ mode = "all" => IF verdict = "fulfilled"
                                                 THEN st[a] = "fulfilled" /\ st[b] = "fulfilled"
                                                 ELSE st[a] = "rejected" \/ st[b] = "rejected"
                              /\ mode = "any" => IF verdict = "rejected"
                                                 THEN st[a] = "rejected" /\ st[b] = "rejected"
                                                 ELSE st[a] = "fulfilled" \/ st[b] = "fulfilled"
                              /\ mode = "allSettled" =>
                                    verdict = "fulfilled" /\ st[a] \in Settled /\ st[b] \in Settled
    BY <1>5, <1>6, VerdictOfTwo DEF Found, Settled
<1>21. Settling'
    <2>1. PICK watched, after : watched = Watched /\ after = Watched'
        OBVIOUS
    <2>2. \A i \in DOMAIN work : work[i] \in SettlingItems /\ work[i] \in SoundItems
        BY <1>1 DEF Settling
    <2>3. ASSUME NEW i \in DOMAIN work
          PROVE  /\ work[i].do = "combined" => combo'[work[i].p].status = "decided"
                 /\ work[i].do \in {"run", "finish"} /\ work[i].p # NoPromise => work[i].p \notin Watched'
        <3>1. work[i] \in WorkItems /\ Settles(work[i])
            BY <2>2 DEF SettlingItems
        <3>2. ASSUME work[i].do = "combined" PROVE combo'[work[i].p].status = "decided"
            <4>1. work[i].p \in Promises /\ combo[work[i].p].status = "decided"
                BY <3>1, <3>2, ItemFields DEF Settles
            <4> QED
                BY <1>10, <1>12, <4>1
        <3>3. ASSUME work[i].do \in {"run", "finish"}, work[i].p # NoPromise PROVE work[i].p \notin Watched'
            <4>1. work[i].p \in Promises /\ state[work[i].p] \in Settled /\ work[i].p \notin Watched
                BY <3>1, <3>3, ItemFields DEF Settles, SomePromise
            <4>2. st[work[i].p] # "pending"
                BY <4>1 DEF Settled
            <4> QED
                BY <1>18, <4>1, <4>2
        <3> QED
            BY <3>2, <3>3
    <2>4. PICK rest : rest = work
        OBVIOUS
    <2>5. rest \in Seq(SettlingItems')
        <3>1. rest \in Seq(SettlingItems) /\ rest \in Seq(SoundItems)
            BY <1>1, <2>4 DEF Settling
        <3> QED
            BY <1>1, <1>13, <2>3, <2>4, <3>1, SettlingRest
    <2>6. ASSUME NEW i \in DOMAIN work, NEW j \in DOMAIN work, i # j PROVE ~Twice(work[i], work[j], after)
        <3>1. ~Twice(work[i], work[j], watched)
            BY <1>1, <2>1, <2>6 DEF Settling, Once
        <3>2. work[i].do = "notify" => state[work[i].p] \in Settled /\ work[i].p \in Promises
            BY <2>2, ItemFields DEF SoundItems, Sound
        <3>3. work[i].do = "notify" /\ work[i].p \in after => work[i].p \in watched
            <4>1. work[i].do = "notify" => st[work[i].p] # "pending"
                BY <3>2 DEF Settled
            <4> QED
                BY <1>18, <2>1, <4>1
        <3> QED
            BY <3>1, <3>3 DEF Twice
    <2>7. Once(work', after)
        BY <2>6 DEF Once
    <2>8. work' \in Seq(SettlingItems')
        BY <2>4, <2>5
    <2> QED
        BY <2>1, <2>7, <2>8 DEF Settling, Once
<1>22. Makes'
    <2>1. Made(m)'
        <3>1. op'[m] = "none"
            BY <1>1, <1>11 DEF Births, Root
        <3>2. \A c \in Coroutines : co[c].status \in {"running", "suspended"} => co[c].result # m
            BY <1>1, <1>11 DEF Waits, Root
        <3>3. \A q \in {a, b} : state'[q] # "unborn"
            BY <1>11
        <3>4. Len(combo'[m].children) = 2 /\ combo'[m].children[1] # combo'[m].children[2]
            BY <1>3, <1>10
        <3> QED
            BY <1>14, <1>15, <3>1, <3>2, <3>3, <3>4 DEF Made
    <2>2. \A p \in Promises : combo[p].mode # "none" => op'[p] = "none"
        BY <1>1 DEF Makes, Made, Root
    <2>3. \A p \in Promises : combo'[p].mode # "none" => combo[p].mode # "none" \/ Made(p)'
        BY <1>10, <2>1
    <2>4. \A p \in Promises : combo'[p].mode = "none" => combo'[p].status = "none"
        BY <1>1, <1>10 DEF Makes, Modes
    <2> QED
        BY <1>1, <1>13, <2>2, <2>3, <2>4, MakesStay
<1>23. \A p \in Promises : p # m => (Watching(p)' <=> Watching(p))
    BY <1>10 DEF Watching
<1>24. Watching(m)' <=> verdict = "pending"
    BY <1>10 DEF Watching
<1>25. \A p \in Promises : Watching(p) \/ combo[p].mode # "none" => \A q \in Children(p) :
        q \in Promises /\ q # m /\ state[q] # "unborn" /\ state'[q] = state[q] /\ st[q] = state[q]
    <2> SUFFICES ASSUME NEW p \in Promises, Watching(p) \/ combo[p].mode # "none", NEW q \in Children(p)
                 PROVE  q \in Promises /\ q # m /\ state[q] # "unborn" /\ state'[q] = state[q] /\ st[q] = state[q]
        OBVIOUS
    <2>1. Made(p)
        BY <1>1, <1>16 DEF Makes
    <2>2. q \in Promises /\ state[q] # "unborn"
        BY <1>1, <2>1, ChildrenIn DEF Made
    <2> QED
        BY <1>11, <2>2
<1>26. Watches'
    <2>1. ASSUME NEW q \in Watched' PROVE Watching(awaiter[q])' /\ q \in Children(awaiter[q])'
        <3>1. CASE q \in Watched
            <4>1. PICK p \in Promises : p = awaiter[q] /\ p = awaiter'[q] /\ p # m /\ Watching(p) /\ q \in Children(p)
                BY <1>1, <1>17, <3>1 DEF Watches, Watched
            <4>2. Watching(p)' /\ q \in Children(p)'
                BY <1>13, <1>23, <4>1
            <4> QED
                BY <4>1, <4>2 DEF Watching, Children
        <3>2. CASE q \notin Watched
            <4>1. awaiter'[q] = m /\ Watching(m)' /\ q \in Children(m)'
                BY <1>14, <1>18, <1>24, <2>1, <3>2
            <4> QED
                BY <4>1 DEF Watching, Children
        <3> QED
            BY <3>1, <3>2
    <2>2. ASSUME NEW p \in Promises, Watching(p)', NEW q \in Children(p)'
          PROVE  /\ state'[q] = "pending" => awaiter'[q] = p
                 /\ q \in Watched' => awaiter'[q] = p
        <3>1. CASE p = m
            <4>1. verdict = "pending" /\ q \in {a, b} /\ state'[q] = st[q]
                BY <1>11, <1>14, <1>24, <2>2, <3>1
            <4>2. q \notin Watched
                BY <4>1
            <4> QED
                BY <1>9, <1>18, <3>1, <4>1, <4>2
        <3>2. CASE p # m
            <4>1. Watching(p) /\ q \in Children(p)
                BY <1>13, <1>23, <2>2, <3>2
            <4>2. q \in Promises /\ state'[q] = state[q] /\ st[q] = state[q]
                BY <1>25, <4>1
            <4>3. /\ state[q] = "pending" => awaiter[q] = p /\ q \in Watched
                  /\ q \in Watched => awaiter[q] = p
                BY <1>1, <4>1, <4>2 DEF Watches, Watched
            <4>4. q \in Watched' => q \in Watched
                BY <1>18, <4>2, <4>3
            <4> QED
                BY <1>17, <4>2, <4>3, <4>4
        <3> QED
            BY <3>1, <3>2
    <2> QED
        BY <2>1, <2>2 DEF Watches
<1>27. ASSUME NEW p \in Promises, combo'[p].status = "waiting", state'[p] = "pending" PROVE Tally(p)'
    <2>1. CASE p # m
        <3>1. combo'[p] = combo[p]
            BY <1>10, <2>1
        <3>2. Watching(p) /\ combo[p].mode # "none" /\ Made(p)
            BY <1>16, <1>27, <3>1 DEF Watching
        <3>3. state[p] = "pending" /\ Tally(p)
            <4>1. state[p] = "pending"
                BY <1>11, <1>27, <2>1, <3>2 DEF Made, Root
            <4> QED
                BY <1>1, <1>27, <3>1, <4>1 DEF Tallies
        <3>4. ASSUME NEW q \in Children(p) PROVE Counted(p, q)' <=> Counted(p, q)
            <4>1. q \in Promises /\ state'[q] = state[q] /\ st[q] = state[q]
                BY <1>25, <3>2
            <4>2. awaiter'[q] = p <=> awaiter[q] = p
                <5>1. awaiter[q] = p => awaiter'[q] = p
                    BY <1>17, <4>1 DEF Watched
                <5>2. awaiter'[q] = p => awaiter[q] = p
                    BY <1>9, <2>1, <4>1, PromiseAssumption
                <5> QED
                    BY <5>1, <5>2
            <4> QED
                BY <4>1, <4>2, CountedStays
        <3> QED
            BY <1>1, <3>1, <3>2, <3>3, <3>4, TallyStays
    <2>2. CASE p = m
        <3>1. verdict = "pending"
            BY <1>11, <1>27, <2>2
        <3>2. \A q \in {a, b} : Counted(m, q)' <=> st[q] # "pending"
            <4> SUFFICES ASSUME NEW q \in {a, b} PROVE Counted(m, q)' <=> st[q] # "pending"
                OBVIOUS
            <4>1. q \in Promises /\ state'[q] = st[q] /\ st[q] \in Found /\ q \notin Watched
                BY <1>5, <1>11
            <4>2. st[q] # "pending" => st[q] \in Settled /\ awaiter'[q] # m
                BY <1>9, <3>1, <4>1 DEF Found, Watched
            <4> QED
                BY <4>1, <4>2 DEF Counted, Settled
        <3>3. combo'[m].count = IF st[a] # "pending" \/ st[b] # "pending" THEN 1 ELSE 0
            BY <1>5, <1>10, <1>19, <3>1, CountOfTwo
        <3>4. \A q \in {a, b} : st[q] # "pending" => Leaves_open(m, q)'
            <4> SUFFICES ASSUME NEW q \in {a, b}, st[q] # "pending" PROVE Leaves_open(m, q)'
                OBVIOUS
            <4>1. state'[q] = st[q] /\ st[q] \in Settled /\ combo'[m].mode = mode
                BY <1>5, <1>10, <1>11 DEF Found
            <4> QED
                BY <1>19, <3>1, <4>1 DEF Leaves_open, Settled
        <3>5. combo'[m].children[1] = a /\ combo'[m].children[2] = b
            BY <1>3, <1>10
        <3>6. /\ combo'[m].count = IF Counted(m, a)' \/ Counted(m, b)' THEN 1 ELSE 0
              /\ ~(Counted(m, a)' /\ Counted(m, b)')
              /\ Counted(m, a)' => Leaves_open(m, a)'
              /\ Counted(m, b)' => Leaves_open(m, b)'
            BY <1>19, <3>1, <3>2, <3>3, <3>4
        <3>7. Tally(m)'
            BY <3>5, <3>6 DEF Tally, Counted, Leaves_open
        <3> QED
            BY <2>2, <3>7
    <2> QED
        BY <2>1, <2>2
<1>28. Decided'
    <2>1. verdict # "pending" => May_agree(m, verdict)'
        <3> SUFFICES ASSUME verdict # "pending" PROVE Agrees(m, verdict)'
            BY DEF May_agree
        <3>1. state'[a] = st[a] /\ state'[b] = st[b] /\ combo'[m].mode = mode
            BY <1>10, <1>11
        <3> QED
            BY <1>14, <1>20, <3>1 DEF Agrees, Settled
    <2>2. \A how : how = state'[m] /\ how \in Settled => May_agree(m, how)'
        BY <1>11, <2>1 DEF Settled
    <2>3. \A p \in Promises : p # m /\ state'[p] \in Settled => state'[p] = state[p]
        BY <1>11 DEF Settled
    <2>4. \A p \in Promises : state'[p] \in Settled /\ state'[p] # state[p] => May_agree(p, state[p])'
        BY <2>2, <2>3
    <2> QED
        BY <1>1, <1>13, <2>4, DecidedStays
<1>29. Tallies'
    BY <1>27 DEF Tallies
<1> QED
    BY <1>21, <1>22, <1>26, <1>28, <1>29 DEF Combining

LEMMA CombineCombining ==
    ASSUME Inv, Combining, Grown, Inv', "share" \notin Allowed, NEW mode \in Modes,
           NEW a \in Promises, NEW b \in Promises, NEW m \in Fresh({}), combine(mode, a, b, m)
    PROVE  Combining'
<1>1. Typed /\ Births
    BY DEF Inv
<1>2. m \in Promises /\ state[m] = "unborn"
    BY <1>1, FreshUnborn
<1>3. state[a] # "unborn" /\ state[b] # "unborn"
    BY <1>1 DEF combine, Births
<1>4. PICK st \in [Promises -> States] : st = state
    BY <1>1 DEF Typed
<1>5. PICK refs : Compose(mode, <<a, b>>, m, st, refs)
    BY <1>4 DEF combine
<1>6. a # b /\ awaiter[a] = NoWaiter /\ awaiter[b] = NoWaiter
    <2>1. PICK children : children = <<a, b>>
        OBVIOUS
    <2>2. DOMAIN children = {1, 2} /\ children[1] = a /\ children[2] = b /\ 1 # 2
        BY <2>1
    <2>3. ~Sharing(children)
        BY <2>1 DEF combine
    <2> QED
        BY <2>2, <2>3 DEF Sharing
<1>7. a \notin Watched /\ b \notin Watched
    BY <1>6, PromiseAssumption DEF Watched
<1>8. UNCHANGED <<co, origin>> /\ op' = op /\ work' = work
    BY DEF combine, Call, history, Inv, Stack
<1>9. /\ st[m] = "unborn" /\ st[a] # "unborn" /\ st[b] # "unborn" /\ a # m /\ b # m
      /\ \A p \in Promises : st[p] = state[p]
    BY <1>2, <1>3, <1>4
<1> QED
    BY <1>2, <1>5, <1>6, <1>7, <1>8, <1>9, ComposeCombining

LEMMA WithTimeoutCombining ==
    ASSUME Inv, Combining, Grown, Inv', "share" \notin Allowed,
           NEW p \in Promises, NEW t \in Fresh({}), NEW m \in Fresh({t}), with_timeout(p, t, m)
    PROVE  Combining'
<1>1. Typed /\ Births /\ Makes /\ Watches
    BY DEF Inv, Combining
<1>2. t \in Promises /\ state[t] = "unborn"
    BY <1>1, FreshUnborn
<1>3. m \in Promises /\ state[m] = "unborn" /\ m # t
    BY <1>1, <1>2, FreshUnborn
<1>4. state[p] # "unborn"
    BY <1>1 DEF with_timeout, Births
<1>5. PICK st : st = [state EXCEPT ![t] = "pending"]
    OBVIOUS
<1>6. st \in [Promises -> States] /\ st[t] = "pending" /\ \A q \in Promises : q # t => st[q] = state[q]
    BY <1>1, <1>2, <1>5 DEF Typed, States
<1>7. PICK refs : Compose("race", <<p, t>>, m, st, refs)
    BY <1>5 DEF with_timeout
<1>8. p \notin Watched
    <2>1. PICK children : children = <<p>>
        OBVIOUS
    <2>2. DOMAIN children = {1} /\ children[1] = p
        BY <2>1
    <2>3. ~Sharing(children)
        BY <2>1 DEF with_timeout
    <2>4. awaiter[p] = NoWaiter
        BY <2>2, <2>3 DEF Sharing
    <2> QED
        BY <2>4, PromiseAssumption DEF Watched
<1>9. t \notin Watched
    <2> SUFFICES ASSUME t \in Watched PROVE FALSE
        OBVIOUS
    <2>1. PICK n \in Promises : n = awaiter[t] /\ Watching(n) /\ t \in Children(n)
        BY <1>1 DEF Watches, Watched
    <2> QED
        BY <1>1, <1>2, <2>1 DEF Makes, Made, Watching
<1>10. UNCHANGED <<co, origin>> /\ work' = work /\ \A q \in Promises : op'[q] = op[q] \/ (q # m /\ state[q] = "unborn")
    BY <1>1, <1>2, <1>3 DEF with_timeout, Call, history, Inv, Stack, Typed
<1>11. st[m] = "unborn" /\ st[p] # "unborn" /\ st[t] # "unborn" /\ "race" \in Modes /\ p # t /\ p # m
    BY <1>2, <1>3, <1>4, <1>6 DEF Modes
<1>12. \A q \in Promises : st[q] = state[q] \/ (state[q] = "unborn" /\ st[q] = "pending")
    BY <1>2, <1>6
<1> QED
    BY <1>2, <1>3, <1>6, <1>7, <1>8, <1>9, <1>10, <1>11, <1>12, ComposeCombining

----------------------------------------------------------------------------
LEMMA CombiningInit ==
    ASSUME Init
    PROVE  Combining
<1>1. /\ \A p \in Promises : /\ state[p] = "unborn" /\ awaiter[p] = NoWaiter
                             /\ combo[p].mode = "none" /\ combo[p].status = "none"
      /\ work = <<>>
    BY DEF Init, NoCombo
<1>2. Watched = {}
    BY <1>1, PromiseAssumption DEF Watched
<1>3. Settling
    BY <1>1 DEF Settling, Once
<1>4. Makes /\ Tallies /\ Decided
    BY <1>1 DEF Makes, Tallies, Decided, Settled
<1>5. Watches
    BY <1>1, <1>2 DEF Watches, Watching
<1> QED
    BY <1>3, <1>4, <1>5 DEF Combining

LEMMA CombiningStutter ==
    ASSUME Combining, UNCHANGED vars
    PROVE  Combining'
<1>1. UNCHANGED <<state, awaiter, co, op, combo, work, origin, cancelled>>
    BY DEF vars, owners, history
<1> QED
    BY <1>1 DEF Combining, Settling, SettlingItems, Settles, May_agree, Agrees, Children, Watched, Once,
        Makes, Made, Root, Watches, Watching, Tallies, Tally, Counted, Tells, Leaves_open, Decided

LEMMA CombiningStep ==
    ASSUME "share" \notin Allowed, Inv, Combining, [Next]_vars
    PROVE  Combining'
<1>1. Inv' /\ Grown
    BY InvStep
<1>2. CASE settle \/ execute_reaction \/ handler_done \/ release
    BY <1>1, <1>2, SettleCombining, ReactionCombining, HandlerDoneCombining, ReleaseCombining
<1>3. CASE laio_promise_settled \/ compose_on_settled \/ compose_free
    BY <1>1, <1>3, PromiseSettledCombining, ComposeSettledCombining, ComposeFreeCombining
<1>4. CASE await \/ wait \/ coroutine_done \/ coroutine_free
    BY <1>1, <1>4, AwaitCombining, WaitCombining, CoroutineDoneCombining, CoroutineFreeCombining
<1>5. CASE return \/ sync_done
    BY <1>1, <1>5, ReturnCombining
<1>6. ASSUME NEW p \in Promises, collect(p) PROVE Combining'
    BY <1>1, <1>6, CollectCombining
<1>7. ASSUME NEW p \in Promises, NEW how \in Settled, complete(p, how) PROVE Combining'
    BY <1>1, <1>7, CompleteCombining
<1>8. ASSUME NEW p \in Fresh({}), spawn(p) PROVE Combining'
    BY <1>1, <1>8, SpawnCombining
<1>9. ASSUME NEW p \in Fresh({}), NEW how \in Settled, settled(p, how) PROVE Combining'
    BY <1>1, <1>9, SettledCombining
<1>10. ASSUME NEW p \in Promises, NEW type \in Types, NEW handler \in BOOLEAN, NEW child \in Fresh({}),
              chain(p, type, handler, child)
       PROVE  Combining'
    BY <1>1, <1>10, ChainCombining
<1>11. ASSUME NEW p \in Promises, cancel(p) PROVE Combining'
    BY <1>1, <1>11, CancelCombining
<1>12. ASSUME NEW c \in Coroutines, NEW p \in Fresh({}), run_async(c, p) PROVE Combining'
    BY <1>1, <1>12, RunAsyncCombining
<1>13. ASSUME NEW p \in Promises, await_sync(p) PROVE Combining'
    BY <1>1, <1>13, AwaitSyncCombining
<1>14. ASSUME NEW mode \in Modes, NEW p \in Promises, NEW q \in Promises, NEW m \in Fresh({}), combine(mode, p, q, m)
       PROVE  Combining'
    BY <1>1, <1>14, CombineCombining
<1>15. ASSUME NEW p \in Promises, NEW t \in Fresh({}), NEW m \in Fresh({t}), with_timeout(p, t, m)
       PROVE  Combining'
    BY <1>1, <1>15, WithTimeoutCombining
<1>16. CASE UNCHANGED vars
    BY <1>16, CombiningStutter
<1> QED
    BY <1>2, <1>3, <1>4, <1>5, <1>6, <1>7, <1>8, <1>9, <1>10, <1>11, <1>12, <1>13, <1>14, <1>15, <1>16 DEF Next

\* What a combinator's promise became agrees with its children, whichever of them
\* are settled first, while it is made or afterwards, and however the steps that
\* tell it so interleave with handlers, cancel, coroutines and the collector
\* (compose_on_settled in lpromise.c): for programs that wait for a promise once
\* at most.
THEOREM PromiseCombinedOutcome ==
    ASSUME "share" \notin Allowed
    PROVE  Spec => []CombinedOutcome
<1>1. Init => Inv /\ Combining
    BY InvInit, CombiningInit
<1>2. Inv /\ Combining /\ [Next]_vars => (Inv /\ Combining)'
    BY InvStep, CombiningStep
<1>3. Inv /\ Combining => CombinedOutcome
    <2> SUFFICES ASSUME Inv, Combining, NEW m \in Promises,
                        combo[m].mode # "none", state[m] \in Settled, m \notin cancelled
                 PROVE  LET found == {state[q] : q \in Children(m)}
                        IN  CASE combo[m].mode = "all" ->
                                    IF state[m] = "fulfilled" THEN found = {"fulfilled"} ELSE "rejected" \in found
                              [] combo[m].mode = "any" ->
                                    IF state[m] = "rejected" THEN found = {"rejected"} ELSE "fulfilled" \in found
                              [] combo[m].mode = "race" -> state[m] \in found
                              [] OTHER -> state[m] = "fulfilled" /\ "pending" \notin found
        BY DEF CombinedOutcome, Children
    <2>1. Agrees(m, state[m]) /\ Made(m) /\ combo[m].mode \in Modes
        BY DEF Combining, Decided, May_agree, Makes, Inv, Typed, Combos
    <2>2. PICK found : found = {state[q] : q \in Children(m)}
        OBVIOUS
    <2>3. PICK one \in Children(m) : TRUE
        <3>1. PICK s \in Seq(Promises) : s = combo[m].children /\ Len(s) = 2
            BY <2>1 DEF Inv, Typed, Combos, Made
        <3>2. 1 \in DOMAIN s
            BY <3>1
        <3> QED
            BY <3>1, <3>2 DEF Children, ToSet
    <2>4. state[one] \in found
        BY <2>2
    <2>5. CASE combo[m].mode = "all"
        <3>1. IF state[m] = "fulfilled" THEN found = {"fulfilled"} ELSE "rejected" \in found
            BY <2>1, <2>2, <2>4, <2>5 DEF Agrees
        <3> QED
            BY <2>2, <2>5, <3>1
    <2>6. CASE combo[m].mode = "any"
        <3>1. IF state[m] = "rejected" THEN found = {"rejected"} ELSE "fulfilled" \in found
            BY <2>1, <2>2, <2>4, <2>6 DEF Agrees
        <3> QED
            BY <2>2, <2>6, <3>1
    <2>7. CASE combo[m].mode = "race"
        BY <2>1, <2>2, <2>7 DEF Agrees
    <2>8. CASE combo[m].mode = "allSettled"
        <3>1. state[m] = "fulfilled" /\ "pending" \notin found
            BY <2>1, <2>2, <2>8 DEF Agrees, Settled
        <3> QED
            BY <2>2, <2>8, <3>1
    <2> QED
        BY <2>1, <2>5, <2>6, <2>7, <2>8 DEF Modes
<1> QED
    BY <1>1, <1>2, <1>3, PTL DEF Spec

----------------------------------------------------------------------------
(***************************************************************************)
(* What promises are kept alive by, when programs do only what the code    *)
(* allows for.                                                             *)
(***************************************************************************)
\* A thing to be done that gives a reference back, or hands it on.
Gives(x, p) ==
    \/ x.do = "release" /\ x.p = p
    \/ x.do = "return" /\ x.new = p
    \/ x.do \in {"react", "handler"} /\ x.r.child = p

\* Who has a reference to p. Places in a stack count from its bottom.
Stacked(s, p) == {d \in 1 .. Len(s) : Gives(s[Len(s) + 1 - d], p)}
Combiners(p) == {m \in Promises : combo[m].status \in {"waiting", "decided"} /\ p \in ToSet(combo[m].children)}
Awaiters(p) == {c \in Coroutines : co[c].waiting = p}
Listed(p) == \E q \in Promises : \E i \in DOMAIN reactions[q] : reactions[q][i].child = p
One(b) == IF b THEN 1 ELSE 0
Owned(p) ==
    Cardinality(Stacked(work, p)) + Cardinality(Combiners(p)) + Cardinality(Awaiters(p))
    + One(Listed(p)) + One(handle[p] # "none") + One(op[p] # "none")
Owning(p) ==
    /\ IsFiniteSet(Awaiters(p))
    /\ ref_count[p] \in Nat /\ Owned(p) <= ref_count[p]
    /\ p \in freed \/ state[p] = "unborn" => ref_count[p] = 0
    /\ p \in freed => state[p] # "unborn"
Owners == freed \subseteq Promises /\ ref_count \in [Promises -> Nat] /\ \A p \in Promises : Owning(p)

\* What has no reference of its own is kept by what a program has still on its
\* C stack, or by its userdata.
Secure(x) ==
    /\ x.do \in {"sync", "combined"} => handle[x.p] = "held"
    /\ x.do = "return" /\ x.p # NoPromise => handle[x.p] = "held"
    /\ x.do \in {"run", "finish"} => x.p = NoPromise \/ co[x.c].waiting = x.p
Returned(s, p) == \E i \in DOMAIN s : s[i].do = "return" /\ s[i].new = p
Secured ==
    /\ \A i \in DOMAIN work : Secure(work[i])
    /\ \A m \in Promises : combo[m].status = "waiting" => handle[m] = "held"
    /\ \A c \in Coroutines : co[c].result = NoPromise \/ handle[co[c].result] = "held" \/ Returned(work, co[c].result)

\* A promise that is being settled is let go of by something deeper in the stack,
\* or, when it was settled before it was awaited, by the coroutine.
Needs(x) == x.do \in {"settle", "react", "handler", "notify"}
Guards(y, p) ==
    \/ y.do = "release" /\ y.p = p
    \/ y.do = "return" /\ (y.p = p \/ y.new = p)
    \/ y.do = "combined" /\ y.p = p
    \/ y.do = "finish" /\ co[y.c].result = p
Guarded(s, i) == \E j \in DOMAIN s : i < j /\ Guards(s[j], s[i].p)
Awaited_at_once(s, i) ==
    /\ s[i].do = "notify" /\ Awaiters(s[i].p) # {}
    /\ \A k \in DOMAIN s : k < i => s[k].do = "release"
Guarding == \A i \in DOMAIN work : Needs(work[i]) => Guarded(work, i) \/ Awaited_at_once(work, i)

Counts == \A m \in Promises : combo[m].count <= Len(combo[m].children)

Keeping == Owners /\ Secured /\ Guarding /\ Counts

----------------------------------------------------------------------------
(***************************************************************************)
(* Counting.                                                               *)
(***************************************************************************)
LEMMA OneIs ==
    /\ \A b : One(b) \in {0, 1}
    /\ \A b : b => One(b) = 1
    /\ \A b : ~b => One(b) = 0
BY DEF One

LEMMA FewerElements ==
    ASSUME NEW S, IsFiniteSet(S), NEW T, T \subseteq S
    PROVE  /\ IsFiniteSet(T) /\ Cardinality(S) \in Nat /\ Cardinality(T) \in Nat
           /\ Cardinality(T) <= Cardinality(S)
BY FS_Subset, FS_CardinalityType

LEMMA OneElementMore ==
    ASSUME NEW S, IsFiniteSet(S), NEW x, NEW T, T \subseteq S \cup {x}
    PROVE  /\ IsFiniteSet(T) /\ Cardinality(S) \in Nat /\ Cardinality(T) \in Nat
           /\ Cardinality(T) <= Cardinality(S) + 1
<1>1. IsFiniteSet(S \cup {x}) /\ Cardinality(S \cup {x}) <= Cardinality(S) + 1
      /\ Cardinality(S) \in Nat /\ Cardinality(S \cup {x}) \in Nat
    BY FS_AddElement, FS_CardinalityType
<1> QED
    BY <1>1, FewerElements

LEMMA OneElementLess ==
    ASSUME NEW S, IsFiniteSet(S), NEW x \in S, NEW T, T \subseteq S \ {x}
    PROVE  /\ IsFiniteSet(T) /\ Cardinality(S) \in Nat /\ Cardinality(T) \in Nat
           /\ Cardinality(T) <= Cardinality(S) - 1
<1>1. IsFiniteSet(S \ {x}) /\ Cardinality(S \ {x}) = Cardinality(S) - 1
      /\ Cardinality(S) \in Nat /\ Cardinality(S \ {x}) \in Nat
    BY FS_RemoveElement, FS_CardinalityType
<1> QED
    BY <1>1, FewerElements

LEMMA SomeElement ==
    ASSUME NEW S, IsFiniteSet(S)
    PROVE  Cardinality(S) \in Nat /\ (S # {} => Cardinality(S) >= 1) /\ (S = {} => Cardinality(S) = 0)
BY FS_EmptySet, FS_CardinalityType

\* A stack has finitely many references; the top one comes in addition to those of
\* the rest, and so does the one that is put on it.
LEMMA StackedFinite ==
    ASSUME NEW S, NEW s \in Seq(S), NEW p
    PROVE  IsFiniteSet(Stacked(s, p)) /\ Cardinality(Stacked(s, p)) \in Nat
<1>1. 1 \in Int /\ Len(s) \in Int
    OBVIOUS
<1>2. IsFiniteSet(1 .. Len(s))
    BY <1>1, FS_Interval
<1> QED
    BY <1>2, FewerElements DEF Stacked

LEMMA StackedTop ==
    ASSUME NEW S, NEW s \in Seq(S), s # <<>>, NEW p
    PROVE  /\ Cardinality(Stacked(Tail(s), p)) \in Nat
           /\ Cardinality(Stacked(Tail(s), p)) <= Cardinality(Stacked(s, p)) - One(Gives(Head(s), p))
<1>1. PICK n : n = Len(s)
    OBVIOUS
<1>2. n \in Nat /\ n >= 1 /\ Tail(s) \in Seq(S) /\ Len(Tail(s)) = n - 1 /\ Head(s) = s[1]
      /\ \A i \in 1 .. n - 1 : Tail(s)[i] = s[i + 1]
    BY <1>1
<1>3. Stacked(Tail(s), p) \subseteq Stacked(s, p) \ {n}
  <2> SUFFICES ASSUME NEW d \in Stacked(Tail(s), p) PROVE d \in Stacked(s, p) /\ d # n
      OBVIOUS
  <2>1. d \in 1 .. n - 1 /\ Gives(Tail(s)[n - 1 + 1 - d], p)
      BY <1>2 DEF Stacked
  <2>2. PICK i \in 1 .. n - 1 : i = n - d
      BY <1>2, <2>1
  <2>3. i = n - 1 + 1 - d /\ i + 1 = n + 1 - d /\ d \in 1 .. n /\ d # n
      BY <1>2, <2>1, <2>2
  <2>4. Gives(s[n + 1 - d], p)
      BY <1>2, <2>1, <2>3
  <2> QED
      BY <1>1, <2>3, <2>4 DEF Stacked
<1>4. IsFiniteSet(Stacked(s, p)) /\ IsFiniteSet(Stacked(Tail(s), p))
    BY <1>2, StackedFinite
<1>5. CASE Gives(Head(s), p)
  <2>1. n \in Stacked(s, p)
    <3>1. n + 1 - n = 1 /\ n \in 1 .. n
        BY <1>2
    <3> QED
        BY <1>1, <1>2, <1>5, <3>1 DEF Stacked
  <2> QED
      BY <1>3, <1>4, <1>5, <2>1, OneElementLess, OneIs
<1>6. CASE ~Gives(Head(s), p)
  <2>1. Stacked(Tail(s), p) \subseteq Stacked(s, p)
      BY <1>3
  <2>2. One(Gives(Head(s), p)) = 0
      BY <1>6, OneIs
  <2> QED
      BY <1>4, <2>1, <2>2, FewerElements
<1> QED
    BY <1>5, <1>6

LEMMA StackedOn ==
    ASSUME NEW S, NEW items \in Seq(S), NEW rest \in Seq(S), NEW p,
           \A i, j \in DOMAIN items : Gives(items[i], p) /\ Gives(items[j], p) => i = j
    PROVE  /\ Cardinality(Stacked(items \o rest, p)) \in Nat
           /\ Cardinality(Stacked(items \o rest, p)) <=
                Cardinality(Stacked(rest, p)) + One(\E i \in DOMAIN items : Gives(items[i], p))
<1>1. PICK n, k : n = Len(items) /\ k = Len(rest)
    OBVIOUS
<1>2. n \in Nat /\ k \in Nat /\ DOMAIN items = 1 .. n /\ Len(items \o rest) = n + k
      /\ \A i \in 1 .. n + k : (items \o rest)[i] = IF i <= n THEN items[i] ELSE rest[i - n]
    BY <1>1
<1>3. ASSUME NEW d \in Stacked(items \o rest, p)
      PROVE  d \in Stacked(rest, p) \/ (d \in 1 .. n + k /\ n + k + 1 - d \in DOMAIN items
                                        /\ Gives(items[n + k + 1 - d], p))
  <2>1. d \in 1 .. n + k /\ Gives((items \o rest)[n + k + 1 - d], p)
      BY <1>2 DEF Stacked
  <2>2. PICK i \in 1 .. n + k : i = n + k + 1 - d
      BY <1>2, <2>1
  <2>3. CASE i <= n
      BY <1>2, <2>1, <2>2, <2>3
  <2>4. CASE ~ (i <= n)
    <3>1. d \in 1 .. k /\ i - n = k + 1 - d /\ Gives(rest[i - n], p)
        BY <1>2, <2>1, <2>2, <2>4
    <3> QED
        BY <1>1, <3>1 DEF Stacked
  <2> QED
      BY <2>3, <2>4
<1>4. IsFiniteSet(Stacked(rest, p))
    BY StackedFinite
<1>5. CASE \E i \in DOMAIN items : Gives(items[i], p)
  <2>1. PICK i \in DOMAIN items : Gives(items[i], p)
      BY <1>5
  <2>2. Stacked(items \o rest, p) \subseteq Stacked(rest, p) \cup {n + k + 1 - i}
    <3> SUFFICES ASSUME NEW d \in Stacked(items \o rest, p), d \notin Stacked(rest, p)
                 PROVE  d = n + k + 1 - i
        OBVIOUS
    <3>1. d \in 1 .. n + k /\ n + k + 1 - d = i
        BY <1>3, <2>1
    <3> QED
        BY <1>2, <3>1
  <2> QED
      BY <1>4, <1>5, <2>2, OneElementMore, OneIs
<1>6. CASE ~ \E i \in DOMAIN items : Gives(items[i], p)
  <2>1. Stacked(items \o rest, p) \subseteq Stacked(rest, p)
      BY <1>3, <1>6
  <2>2. One(\E i \in DOMAIN items : Gives(items[i], p)) = 0
      BY <1>6, OneIs
  <2> QED
    <3>1. /\ Cardinality(Stacked(rest, p)) \in Nat /\ Cardinality(Stacked(items \o rest, p)) \in Nat
          /\ Cardinality(Stacked(items \o rest, p)) <= Cardinality(Stacked(rest, p))
        BY <1>4, <2>1, FewerElements
    <3>2. Cardinality(Stacked(rest, p)) + 0 = Cardinality(Stacked(rest, p))
        BY <3>1
    <3> QED
        BY <2>2, <3>1, <3>2
<1> QED
    BY <1>5, <1>6

\* A stack that gives p, and does so at one place at most.
Some(s, p) == \E i \in DOMAIN s : Gives(s[i], p)
Single(s, p) == \A i, j \in DOMAIN s : Gives(s[i], p) /\ Gives(s[j], p) => i = j

\* How many references to p a step adds, at most: in the stack, by combinators, by
\* coroutines, in lists, by its userdata and its operation.
StackGains(p, n) ==
    /\ Cardinality(Stacked(work', p)) \in Nat
    /\ Cardinality(Stacked(work', p)) <= Cardinality(Stacked(work, p)) + n
CombinersGain(p, n) ==
    Cardinality(Combiners(p)') \in Nat /\ Cardinality(Combiners(p)') <= Cardinality(Combiners(p)) + n
AwaitersGain(p, n) ==
    /\ IsFiniteSet(Awaiters(p)') /\ Cardinality(Awaiters(p)') \in Nat
    /\ Cardinality(Awaiters(p)') <= Cardinality(Awaiters(p)) + n
ListsGain(p, n) == One(Listed(p)') <= One(Listed(p)) + n
HandleGains(p, n) == One(handle'[p] # "none") <= One(handle[p] # "none") + n
OpGains(p, n) == One(op'[p] # "none") <= One(op[p] # "none") + n
Gains(p, s, k, a, l, h, o) ==
    /\ StackGains(p, s) /\ CombinersGain(p, k) /\ AwaitersGain(p, a)
    /\ ListsGain(p, l) /\ HandleGains(p, h) /\ OpGains(p, o)

LEMMA WorkTyped ==
    ASSUME Inv
    PROVE  /\ work \in Seq(WorkItems) /\ \A i \in DOMAIN work : work[i] \in WorkItems
           /\ work # <<>> => /\ Tail(work) \in Seq(WorkItems) /\ Now \in WorkItems /\ Now = Head(work)
                             /\ Now = work[1] /\ 1 \in DOMAIN work
                             /\ Len(work) \in Nat /\ Len(work) > 0 /\ Len(Tail(work)) = Len(work) - 1
                             /\ \A i \in DOMAIN Tail(work) :
                                    i + 1 \in DOMAIN work /\ Tail(work)[i] = work[i + 1]
                             /\ \A i \in DOMAIN work : i # 1 =>
                                    i - 1 \in DOMAIN Tail(work) /\ Tail(work)[i - 1] = work[i]
<1>1. work \in Seq(SoundItems) /\ \A i \in DOMAIN work : work[i] \in WorkItems
    BY DEF Inv, Stack, SoundItems
<1>2. work \in Seq(WorkItems)
    BY <1>1, SequenceOf
<1> QED
    BY <1>1, <1>2 DEF Now

LEMMA OwnedNumbers ==
    ASSUME Inv, NEW p \in Promises, Owning(p)
    PROVE  /\ Cardinality(Stacked(work, p)) \in Nat /\ IsFiniteSet(Stacked(work, p))
           /\ Cardinality(Combiners(p)) \in Nat /\ IsFiniteSet(Combiners(p))
           /\ Cardinality(Awaiters(p)) \in Nat /\ IsFiniteSet(Awaiters(p))
<1>1. IsFiniteSet(Combiners(p))
    BY PromiseAssumption, FewerElements DEF Combiners
<1> QED
    BY <1>1, WorkTyped, StackedFinite, SomeElement DEF Owning

LEMMA OwningStep ==
    ASSUME Inv, NEW p \in Promises, Owning(p),
           NEW s \in Int, NEW k \in Int, NEW a \in Int, NEW l \in Int, NEW h \in Int, NEW o \in Int,
           Gains(p, s, k, a, l, h, o),
           ref_count'[p] \in Nat, ref_count'[p] >= ref_count[p] + s + k + a + l + h + o,
           p \in freed' \/ state'[p] = "unborn" => ref_count'[p] = 0,
           p \in freed' => state'[p] # "unborn"
    PROVE  Owning(p)'
<1>1. /\ Cardinality(Stacked(work, p)) \in Nat /\ Cardinality(Combiners(p)) \in Nat
      /\ Cardinality(Awaiters(p)) \in Nat
    BY OwnedNumbers
<1>2. /\ Cardinality(Stacked(work', p)) \in Nat /\ Cardinality(Combiners(p)') \in Nat
      /\ Cardinality(Awaiters(p)') \in Nat
      /\ Cardinality(Stacked(work', p)) <= Cardinality(Stacked(work, p)) + s
      /\ Cardinality(Combiners(p)') <= Cardinality(Combiners(p)) + k
      /\ Cardinality(Awaiters(p)') <= Cardinality(Awaiters(p)) + a
      /\ IsFiniteSet(Awaiters(p)')
    BY DEF Gains, StackGains, CombinersGain, AwaitersGain
<1>3. /\ One(Listed(p)') <= One(Listed(p)) + l
      /\ One(handle'[p] # "none") <= One(handle[p] # "none") + h
      /\ One(op'[p] # "none") <= One(op[p] # "none") + o
    BY DEF Gains, ListsGain, HandleGains, OpGains
<1>4. /\ One(Listed(p)) \in Int /\ One(handle[p] # "none") \in Int /\ One(op[p] # "none") \in Int
      /\ One(Listed(p)') \in Int /\ One(handle'[p] # "none") \in Int /\ One(op'[p] # "none") \in Int
    BY DEF One
<1>5. ref_count[p] \in Nat
      /\ Cardinality(Stacked(work, p)) + Cardinality(Combiners(p)) + Cardinality(Awaiters(p))
            + One(Listed(p)) + One(handle[p] # "none") + One(op[p] # "none") <= ref_count[p]
    BY DEF Owning, Owned
<1>6. Cardinality(Stacked(work', p)) + Cardinality(Combiners(p)') + Cardinality(Awaiters(p)')
            + One(Listed(p)') + One(handle'[p] # "none") + One(op'[p] # "none") <= ref_count'[p]
    BY <1>1, <1>2, <1>3, <1>4, <1>5
<1>7. Owned(p)' <= ref_count'[p]
    BY <1>6 DEF Owned
<1> QED
    BY <1>2, <1>7 DEF Owning

LEMMA OwnedParts ==
    ASSUME NEW p \in Promises, Owning(p), Inv
    PROVE  /\ ref_count[p] \in Nat
           /\ Stacked(work, p) # {} \/ Combiners(p) # {} \/ Awaiters(p) # {} \/ Listed(p)
                \/ handle[p] # "none" \/ op[p] # "none" => ref_count[p] >= 1
<1>1. /\ Cardinality(Stacked(work, p)) \in Nat /\ Cardinality(Combiners(p)) \in Nat
      /\ Cardinality(Awaiters(p)) \in Nat
      /\ Stacked(work, p) # {} => Cardinality(Stacked(work, p)) >= 1
      /\ Combiners(p) # {} => Cardinality(Combiners(p)) >= 1
      /\ Awaiters(p) # {} => Cardinality(Awaiters(p)) >= 1
    BY OwnedNumbers, SomeElement
<1>2. /\ One(Listed(p)) \in {0, 1} /\ One(handle[p] # "none") \in {0, 1} /\ One(op[p] # "none") \in {0, 1}
      /\ Listed(p) => One(Listed(p)) = 1
      /\ handle[p] # "none" => One(handle[p] # "none") = 1
      /\ op[p] # "none" => One(op[p] # "none") = 1
    BY DEF One
<1>3. ref_count[p] \in Nat
      /\ Cardinality(Stacked(work, p)) + Cardinality(Combiners(p)) + Cardinality(Awaiters(p))
            + One(Listed(p)) + One(handle[p] # "none") + One(op[p] # "none") <= ref_count[p]
    BY DEF Owning, Owned
<1> QED
    BY <1>1, <1>2, <1>3

LEMMA Alive ==
    ASSUME NEW p \in Promises, Owning(p), Inv,
           Stacked(work, p) # {} \/ Combiners(p) # {} \/ Awaiters(p) # {} \/ Listed(p)
                \/ handle[p] # "none" \/ op[p] # "none"
    PROVE  p \notin freed /\ state[p] # "unborn" /\ ref_count[p] \in Nat /\ ref_count[p] >= 1
BY OwnedParts DEF Owning

LEMMA SomeStacked ==
    ASSUME Inv, NEW p \in Promises
    PROVE  Some(work, p) => Stacked(work, p) # {}
<1> SUFFICES ASSUME NEW i \in DOMAIN work, Gives(work[i], p) PROVE Stacked(work, p) # {}
    BY DEF Some
<1>1. PICK n : n = Len(work)
    OBVIOUS
<1>2. n \in Nat /\ i \in 1 .. n
    BY <1>1, WorkTyped
<1>3. PICK d : d = n + 1 - i
    OBVIOUS
<1>4. d \in 1 .. n /\ n + 1 - d = i
    BY <1>2, <1>3
<1>5. d \in Stacked(work, p)
    BY <1>1, <1>4 DEF Stacked
<1> QED
    BY <1>5

LEMMA StackPop ==
    ASSUME Inv, work # <<>>, NEW items \in Seq(WorkItems), work' = items \o Tail(work),
           NEW p \in Promises, Single(items, p)
    PROVE  StackGains(p, One(Some(items, p)) - One(Gives(Now, p)))
<1>1. work \in Seq(WorkItems) /\ Tail(work) \in Seq(WorkItems) /\ Now = Head(work)
    BY WorkTyped
<1>2. /\ Cardinality(Stacked(Tail(work), p)) \in Nat
      /\ Cardinality(Stacked(Tail(work), p)) <= Cardinality(Stacked(work, p)) - One(Gives(Head(work), p))
    BY <1>1, StackedTop
<1>3. /\ Cardinality(Stacked(items \o Tail(work), p)) \in Nat
      /\ Cardinality(Stacked(items \o Tail(work), p)) <=
            Cardinality(Stacked(Tail(work), p)) + One(\E i \in DOMAIN items : Gives(items[i], p))
    BY <1>1, StackedOn DEF Single
<1>4. One(\E i \in DOMAIN items : Gives(items[i], p)) = One(Some(items, p))
    BY DEF Some
<1>5. Cardinality(Stacked(work, p)) \in Nat
    BY <1>1, StackedFinite
<1>6. One(Some(items, p)) \in Int /\ One(Gives(Head(work), p)) \in Int
    BY OneIs
<1>7. PICK x : x = One(Some(items, p))
    OBVIOUS
<1>8. PICK y : y = One(Gives(Head(work), p)) /\ y = One(Gives(Now, p))
    BY <1>1
<1>9. /\ Cardinality(Stacked(items \o Tail(work), p)) \in Nat /\ x \in Int /\ y \in Int
      /\ Cardinality(Stacked(items \o Tail(work), p)) <= Cardinality(Stacked(work, p)) + (x - y)
  <2>1. /\ Cardinality(Stacked(items \o Tail(work), p)) \in Nat
        /\ Cardinality(Stacked(items \o Tail(work), p)) <= Cardinality(Stacked(Tail(work), p)) + x
      BY <1>3, <1>4, <1>7
  <2>2. Cardinality(Stacked(Tail(work), p)) <= Cardinality(Stacked(work, p)) - y
      BY <1>2, <1>8
  <2>3. x \in Int /\ y \in Int
      BY <1>6, <1>7, <1>8
  <2> QED
      BY <1>2, <1>5, <2>1, <2>2, <2>3
<1> QED
    BY <1>7, <1>8, <1>9 DEF StackGains

LEMMA StackPush ==
    ASSUME Inv, NEW items \in Seq(WorkItems), work' = items \o work,
           NEW p \in Promises, Single(items, p)
    PROVE  StackGains(p, One(Some(items, p)))
<1>1. work \in Seq(WorkItems)
    BY WorkTyped
<1>2. /\ Cardinality(Stacked(items \o work, p)) \in Nat
      /\ Cardinality(Stacked(items \o work, p)) <=
            Cardinality(Stacked(work, p)) + One(\E i \in DOMAIN items : Gives(items[i], p))
    BY <1>1, StackedOn DEF Single
<1>3. One(\E i \in DOMAIN items : Gives(items[i], p)) = One(Some(items, p))
    BY DEF Some
<1> QED
    BY <1>2, <1>3 DEF StackGains

----------------------------------------------------------------------------
(***************************************************************************)
(* What most steps leave alone.                                            *)
(***************************************************************************)
QuietCombiners ==
    \A m \in Promises :
        /\ combo'[m].status \in {"waiting", "decided"} =>
            combo[m].status \in {"waiting", "decided"} /\ combo'[m].children = combo[m].children
        /\ combo'[m].status = "waiting" => combo[m].status = "waiting"
QuietAwaiters == \A c \in Coroutines : co'[c].waiting = co[c].waiting
QuietContexts == QuietAwaiters /\ \A c \in Coroutines : co'[c].result = co[c].result

LEMMA CombinersQuiet ==
    ASSUME Inv, NEW p \in Promises, Owning(p), QuietCombiners
    PROVE  CombinersGain(p, 0)
<1>1. Combiners(p)' \subseteq Combiners(p)
    BY DEF Combiners, QuietCombiners
<1>2. IsFiniteSet(Combiners(p))
    BY OwnedNumbers
<1> QED
    BY <1>1, <1>2, FewerElements DEF CombinersGain

LEMMA AwaitersQuiet ==
    ASSUME Inv, NEW p \in Promises, Owning(p), QuietAwaiters
    PROVE  AwaitersGain(p, 0)
<1>1. Awaiters(p)' \subseteq Awaiters(p)
    BY DEF Awaiters, QuietAwaiters
<1>2. IsFiniteSet(Awaiters(p))
    BY OwnedNumbers
<1> QED
    BY <1>1, <1>2, FewerElements DEF AwaitersGain

LEMMA ListsQuietly ==
    ASSUME NEW p \in Promises, UNCHANGED reactions
    PROVE  ListsGain(p, 0)
<1>1. Listed(p)' <=> Listed(p)
    BY DEF Listed
<1>2. One(Listed(p)') = One(Listed(p)) /\ One(Listed(p)) \in Int
    BY <1>1 DEF One
<1> QED
    BY <1>2 DEF ListsGain

LEMMA HandleQuiet ==
    ASSUME NEW p \in Promises, handle'[p] = handle[p]
    PROVE  HandleGains(p, 0)
<1>1. One(handle[p] # "none") \in Int
    BY DEF One
<1> QED
    BY <1>1 DEF HandleGains

LEMMA OpQuiet ==
    ASSUME NEW p \in Promises, op'[p] = op[p]
    PROVE  OpGains(p, 0)
<1>1. One(op[p] # "none") \in Int
    BY DEF One
<1> QED
    BY <1>1 DEF OpGains

\* A step that changes only the stack, of what has references.
LEMMA OwnersStack ==
    ASSUME Inv, Grown, Owners, UNCHANGED <<reactions, handle, op, ref_count, freed>>,
           QuietCombiners, QuietAwaiters,
           \A p \in Promises : StackGains(p, 0)
    PROVE  Owners'
<1>1. ASSUME NEW p \in Promises PROVE Owning(p)'
  <2>1. Owning(p) /\ ref_count[p] \in Nat
      BY DEF Owners, Owning
  <2>2. Gains(p, 0, 0, 0, 0, 0, 0)
      BY <2>1, CombinersQuiet, AwaitersQuiet, ListsQuietly, HandleQuiet, OpQuiet DEF Gains
  <2>3. /\ p \in freed' \/ state'[p] = "unborn" => ref_count'[p] = 0
        /\ p \in freed' => state'[p] # "unborn"
      BY <2>1 DEF Owning, Grown
  <2>4. ref_count'[p] \in Nat /\ ref_count'[p] >= ref_count[p] + 0 + 0 + 0 + 0 + 0 + 0 /\ 0 \in Int
      BY <2>1
  <2> QED
      BY <2>1, <2>2, <2>3, <2>4, OwningStep
<1>2. freed' \subseteq Promises /\ ref_count' \in [Promises -> Nat]
    BY DEF Owners
<1> QED
    BY <1>1, <1>2 DEF Owners

LEMMA StackPops ==
    ASSUME Inv, work # <<>>, NEW items \in Seq(WorkItems), work' = items \o Tail(work),
           NEW p \in Promises, Single(items, p), Some(items, p) => Gives(Now, p)
    PROVE  StackGains(p, 0)
<1>1. PICK n, x, y : x = One(Some(items, p)) /\ y = One(Gives(Now, p)) /\ n = x - y
    OBVIOUS
<1>2. x \in Int /\ y \in Int /\ n <= 0
    BY <1>1 DEF One
<1>3. StackGains(p, n)
    BY <1>1, StackPop
<1>4. Cardinality(Stacked(work, p)) \in Nat
    BY WorkTyped, StackedFinite
<1> QED
    BY <1>1, <1>2, <1>3, <1>4 DEF StackGains

LEMMA StackPushes ==
    ASSUME Inv, NEW items \in Seq(WorkItems), work' = items \o work,
           NEW p \in Promises, ~Some(items, p)
    PROVE  StackGains(p, 0)
<1>1. Single(items, p)
    BY DEF Some, Single
<1>2. One(Some(items, p)) = 0
    BY DEF One
<1> QED
    BY <1>1, <1>2, StackPush

\* The rest of the stack that a step leaves is all of it or all but the top.
Leaves(rest) == rest = work \/ (work # <<>> /\ rest = Tail(work))
ContextsStay(rest) ==
    \A j \in DOMAIN rest : rest[j].do \in {"run", "finish"} =>
        co'[rest[j].c].result = co[rest[j].c].result /\ co'[rest[j].c].waiting = co[rest[j].c].waiting
HeldStay ==
    \A p \in Promises : handle[p] = "held" /\ (Wanted(p) \/ Kept(p)) => handle'[p] = "held"
AllReleases(s) == \A i \in DOMAIN s : s[i].do = "release"

LEMMA LeftItems ==
    ASSUME Inv, NEW rest, Leaves(rest)
    PROVE  /\ rest \in Seq(WorkItems)
           /\ \A j \in DOMAIN rest : /\ rest[j] \in WorkItems
                                     /\ \E i \in DOMAIN work : rest[j] = work[i]
           /\ \A i \in DOMAIN work : (\E j \in DOMAIN rest : rest[j] = work[i]) \/ (rest = Tail(work) /\ i = 1)
<1>1. CASE rest = work
    BY <1>1, WorkTyped
<1>2. CASE work # <<>> /\ rest = Tail(work)
  <2>1. rest \in Seq(WorkItems) /\ \A j \in DOMAIN rest : rest[j] \in WorkItems
      BY <1>2, WorkTyped
  <2>2. \A j \in DOMAIN rest : \E i \in DOMAIN work : rest[j] = work[i]
      BY <1>2, WorkTyped
  <2>3. \A i \in DOMAIN work : i # 1 => \E j \in DOMAIN rest : rest[j] = work[i]
      BY <1>2, WorkTyped
  <2> QED
      BY <1>2, <2>1, <2>2, <2>3
<1> QED
    BY <1>1, <1>2 DEF Leaves

LEMMA SecuredStep ==
    ASSUME Inv, Secured, NEW rest, Leaves(rest), NEW items \in Seq(WorkItems), work' = items \o rest,
           HeldStay, ContextsStay(rest),
           \A i \in DOMAIN items : Secure(items[i])',
           \A m \in Promises : combo'[m].status = "waiting" =>
                combo[m].status = "waiting" \/ handle'[m] = "held",
           \A c \in Coroutines : \/ co'[c].result \in {NoPromise, co[c].result}
                                 \/ handle'[co'[c].result] = "held" \/ Returned(items, co'[c].result),
           rest = work \/ (Now.do = "return" => Now.new = NoPromise \/ handle'[Now.new] = "held")
    PROVE  Secured'
<1>1. /\ rest \in Seq(WorkItems)
      /\ \A j \in DOMAIN rest : rest[j] \in WorkItems /\ \E i \in DOMAIN work : rest[j] = work[i]
      /\ \A i \in DOMAIN work : (\E j \in DOMAIN rest : rest[j] = work[i]) \/ (rest = Tail(work) /\ i = 1)
    BY LeftItems
<1>2. ASSUME NEW j \in DOMAIN rest PROVE Secure(rest[j])'
  <2>1. PICK x \in WorkItems : x = rest[j] /\ Secure(x) /\ x \in Items
      BY <1>1 DEF Secured, Items
  <2>2. x.do \in {"sync", "combined"} => handle'[x.p] = "held"
    <3> SUFFICES ASSUME x.do \in {"sync", "combined"} PROVE handle'[x.p] = "held"
        OBVIOUS
    <3>1. x.p \in Promises /\ Wanted(x.p)
        BY <2>1, ItemFields DEF Wanted
    <3> QED
        BY <2>1, <3>1 DEF Secure, HeldStay
  <2>3. x.do = "return" /\ x.p # NoPromise => handle'[x.p] = "held"
    <3> SUFFICES ASSUME x.do = "return", x.p # NoPromise PROVE handle'[x.p] = "held"
        OBVIOUS
    <3>1. x.p \in Promises /\ Kept(x.p)
        BY <2>1, ItemFields DEF Kept, SomePromise
    <3> QED
        BY <2>1, <3>1 DEF Secure, HeldStay
  <2>4. x.do \in {"run", "finish"} => x.p = NoPromise \/ co'[x.c].waiting = x.p
      BY <2>1 DEF Secure, ContextsStay
  <2> QED
      BY <2>1, <2>2, <2>3, <2>4 DEF Secure
<1>3. \A i \in DOMAIN work' : Secure(work[i])'
  <2> SUFFICES ASSUME NEW i \in DOMAIN work' PROVE Secure(work[i])'
      OBVIOUS
  <2>1. \/ i \in DOMAIN items /\ work'[i] = items[i]
        \/ i - Len(items) \in DOMAIN rest /\ work'[i] = rest[i - Len(items)]
      BY <1>1, ElementsOf
  <2> QED
      BY <1>2, <2>1
<1>4. \A m \in Promises : combo'[m].status = "waiting" => handle'[m] = "held"
    BY DEF Secured, HeldStay, Wanted
<1>5. /\ \A i \in DOMAIN items : \E j \in DOMAIN work' : work'[j] = items[i]
      /\ \A i \in DOMAIN rest : \E j \in DOMAIN work' : work'[j] = rest[i]
  <2>1. \A i \in DOMAIN items : i \in DOMAIN work' /\ work'[i] = items[i]
      BY <1>1
  <2>2. \A i \in DOMAIN rest : i + Len(items) \in DOMAIN work' /\ work'[i + Len(items)] = rest[i]
      BY <1>1
  <2> QED
      BY <2>1, <2>2
<1>6. ASSUME NEW c \in Coroutines
      PROVE  co'[c].result = NoPromise \/ handle'[co'[c].result] = "held" \/ Returned(work', co'[c].result)
  <2>1. CASE Returned(items, co'[c].result)
      BY <1>5, <2>1 DEF Returned
  <2>2. CASE co'[c].result = co[c].result /\ co[c].result # NoPromise
    <3>1. co[c].result \in Promises
        BY <2>2 DEF Inv, Typed, Contexts, SomePromise
    <3>2. CASE handle[co[c].result] = "held"
      <4>1. Wanted(co[c].result)
          BY DEF Wanted
      <4> QED
          BY <2>2, <3>1, <3>2, <4>1 DEF HeldStay
    <3>3. CASE Returned(work, co[c].result)
      <4>1. PICK i \in DOMAIN work : work[i].do = "return" /\ work[i].new = co[c].result
          BY <3>3 DEF Returned
      <4>2. CASE \E j \in DOMAIN rest : rest[j] = work[i]
          BY <1>5, <2>2, <4>1, <4>2 DEF Returned
      <4>3. CASE rest = Tail(work) /\ i = 1
        <5>1. work # <<>> /\ Now = work[1]
            BY <4>1, <4>3, WorkTyped
        <5>2. rest # work
          <6>1. Len(rest) = Len(work) - 1 /\ Len(work) \in Nat
              BY <4>3, <5>1, WorkTyped
          <6> QED
              BY <6>1
        <5> QED
            BY <2>2, <4>1, <4>3, <5>1, <5>2
      <4> QED
          BY <1>1, <4>2, <4>3
    <3> QED
        BY <2>2, <3>2, <3>3 DEF Secured
  <2> QED
      BY <2>1, <2>2
<1> QED
    BY <1>3, <1>4, <1>6 DEF Secured

LEMMA LeftPlaces ==
    ASSUME Inv, NEW rest, Leaves(rest)
    PROVE  \E k \in {0, 1} :
            /\ k = 0 <=> rest = work
            /\ Len(rest) \in Nat /\ Len(work) = Len(rest) + k
            /\ \A j \in 1 .. Len(rest) : j + k \in 1 .. Len(work) /\ rest[j] = work[j + k]
<1>1. CASE rest = work
    BY <1>1, WorkTyped
<1>2. CASE work # <<>> /\ rest = Tail(work)
  <2>1. /\ Len(work) \in Nat /\ Len(work) > 0 /\ Len(rest) = Len(work) - 1
        /\ \A j \in DOMAIN rest : j + 1 \in DOMAIN work /\ rest[j] = work[j + 1]
        /\ rest \in Seq(WorkItems) /\ work \in Seq(WorkItems)
      BY <1>2, WorkTyped
  <2>2. rest # work
      BY <2>1
  <2> QED
      BY <2>1, <2>2
<1> QED
    BY <1>1, <1>2 DEF Leaves

LEMMA GuardsStay ==
    ASSUME NEW rest, ContextsStay(rest), NEW j \in DOMAIN rest, NEW p, Guards(rest[j], p)
    PROVE  Guards(rest[j], p)'
BY DEF Guards, ContextsStay

LEMMA Beyond ==
    ASSUME NEW n \in Nat, NEW m \in Nat, NEW i \in 1 .. n + m, ~ (i <= n)
    PROVE  \E j \in 1 .. m : i = n + j
<1>1. i - n \in 1 .. m /\ i = n + (i - n)
    OBVIOUS
<1> QED
    BY <1>1

LEMMA GuardingStep ==
    ASSUME Inv, Guarding, NEW rest, Leaves(rest), NEW items \in Seq(WorkItems), work' = items \o rest,
           ContextsStay(rest),
           \A i \in DOMAIN items : Needs(items[i]) =>
                \/ \E j \in DOMAIN items : i < j /\ Guards(items[j], items[i].p)'
                \/ \E j \in DOMAIN rest : Guards(rest[j], items[i].p)'
                \/ Awaited_at_once(items, i)',
           \/ AllReleases(items) /\ QuietAwaiters
           \/ work = <<>>
           \/ Now.do # "release" /\ (rest = work => Now.do # "notify")
    PROVE  Guarding'
<1>1. PICK n, m : n = Len(items) /\ m = Len(rest)
    OBVIOUS
<1>2. PICK k \in {0, 1} :
        /\ k = 0 <=> rest = work
        /\ m \in Nat /\ Len(work) = m + k
        /\ \A j \in 1 .. m : j + k \in 1 .. m + k /\ rest[j] = work[j + k]
    BY <1>1, LeftPlaces
<1>3. rest \in Seq(WorkItems) /\ work \in Seq(WorkItems)
    BY LeftItems, WorkTyped
<1>4. /\ n \in Nat /\ DOMAIN items = 1 .. n /\ DOMAIN rest = 1 .. m /\ DOMAIN work = 1 .. m + k
      /\ DOMAIN work' = 1 .. n + m
      /\ \A i \in 1 .. n : work'[i] = items[i]
      /\ \A j \in 1 .. m : n + j \in 1 .. n + m /\ work'[n + j] = rest[j]
    BY <1>1, <1>2, <1>3
<1>5. ASSUME NEW i \in 1 .. n, Needs(items[i])
      PROVE  Guarded(work, i)' \/ Awaited_at_once(work, i)'
  <2>1. work'[i] = items[i]
      BY <1>4
  <2>2. CASE \E j \in DOMAIN items : i < j /\ Guards(items[j], items[i].p)'
    <3>1. PICK j \in 1 .. n : i < j /\ Guards(items[j], items[i].p)'
        BY <1>4, <2>2
    <3>2. j \in DOMAIN work' /\ work'[j] = items[j]
        BY <1>2, <1>4
    <3>3. \E l \in DOMAIN work' : i < l /\ Guards(work[l], work[i].p)'
        BY <2>1, <3>1, <3>2 DEF Guards
    <3> QED
        BY <3>3 DEF Guarded
  <2>3. CASE \E j \in DOMAIN rest : Guards(rest[j], items[i].p)'
    <3>1. PICK j \in 1 .. m : Guards(rest[j], items[i].p)'
        BY <1>4, <2>3
    <3>2. n + j \in DOMAIN work' /\ work'[n + j] = rest[j] /\ i < n + j
        BY <1>2, <1>4
    <3>3. \E l \in DOMAIN work' : i < l /\ Guards(work[l], work[i].p)'
        BY <2>1, <3>1, <3>2 DEF Guards
    <3> QED
        BY <3>3 DEF Guarded
  <2>4. CASE Awaited_at_once(items, i)'
    <3>1. \A l \in DOMAIN work' : l < i => l \in DOMAIN items /\ work'[l] = items[l]
        BY <1>2, <1>4
    <3> QED
        BY <2>1, <2>4, <3>1 DEF Awaited_at_once, Awaiters
  <2> QED
      BY <1>4, <1>5, <2>2, <2>3, <2>4
<1>6. ASSUME NEW i \in 1 .. m, Needs(rest[i])
      PROVE  Guarded(work, n + i)' \/ Awaited_at_once(work, n + i)'
  <2>1. work'[n + i] = rest[i] /\ rest[i] = work[i + k] /\ i + k \in DOMAIN work
      BY <1>2, <1>4
  <2>2. Guarded(work, i + k) \/ Awaited_at_once(work, i + k)
      BY <1>6, <2>1 DEF Guarding
  <2>3. CASE Guarded(work, i + k)
    <3>1. PICK l \in 1 .. m + k : i + k < l /\ Guards(work[l], rest[i].p)
        BY <1>4, <2>1, <2>3 DEF Guarded
    <3>2. PICK j \in 1 .. m : j + k = l /\ i < j
        BY <1>2, <3>1
    <3>3. Guards(rest[j], rest[i].p)'
        BY <1>2, <1>4, <3>1, <3>2, GuardsStay
    <3>4. n + j \in DOMAIN work' /\ work'[n + j] = rest[j] /\ n + i < n + j
        BY <1>2, <1>4, <3>2
    <3>5. \E d \in DOMAIN work' : n + i < d /\ Guards(work[d], work[n + i].p)'
        BY <2>1, <3>3, <3>4 DEF Guards
    <3> QED
        BY <3>5 DEF Guarded
  <2>4. CASE Awaited_at_once(work, i + k)
    <3>1. /\ rest[i].do = "notify" /\ Awaiters(rest[i].p) # {}
          /\ \A l \in 1 .. m + k : l < i + k => work[l].do = "release"
        BY <1>4, <2>1, <2>4 DEF Awaited_at_once
    <3>2. work # <<>> /\ Now = work[1] /\ 1 \in DOMAIN work
        BY <2>1, WorkTyped
    <3>3. AllReleases(items) /\ QuietAwaiters
      <4>1. CASE i + k = 1
          BY <1>2, <1>4, <2>1, <3>1, <3>2, <4>1
      <4>2. CASE i + k # 1
        <5>1. 1 < i + k /\ 1 \in 1 .. m + k
            BY <1>2, <4>2
        <5> QED
            BY <3>1, <3>2, <5>1
      <4> QED
          BY <4>1, <4>2
    <3>4. Awaiters(rest[i].p)' = Awaiters(rest[i].p)
        BY <3>3 DEF Awaiters, QuietAwaiters
    <3>5. ASSUME NEW l \in DOMAIN work', l < n + i PROVE work'[l].do = "release"
      <4>1. CASE l <= n
          BY <1>4, <3>3, <3>5, <4>1 DEF AllReleases
      <4>2. CASE ~ (l <= n)
        <5>0. l \in 1 .. n + m /\ l < n + i
            BY <1>4, <3>5
        <5>1. PICK j \in 1 .. m : l = n + j
          <6>1. n \in Nat /\ m \in Nat
              BY <1>2, <1>4
          <6> QED
              BY <4>2, <5>0, <6>1, Beyond
        <5>2. j + k < i + k /\ j + k \in 1 .. m + k
            BY <1>2, <1>4, <5>0, <5>1
        <5> QED
            BY <1>2, <1>4, <3>1, <5>1, <5>2
      <4> QED
          BY <4>1, <4>2
    <3> QED
        BY <2>1, <3>1, <3>4, <3>5 DEF Awaited_at_once, Awaiters
  <2> QED
      BY <2>2, <2>3, <2>4
<1>7. ASSUME NEW i \in DOMAIN work', Needs(work'[i])
      PROVE  Guarded(work, i)' \/ Awaited_at_once(work, i)'
  <2>1. CASE i <= n
      BY <1>4, <1>5, <1>7, <2>1
  <2>2. CASE ~ (i <= n)
    <3>0. n \in Nat /\ m \in Nat /\ i \in 1 .. n + m
        BY <1>2, <1>4, <1>7
    <3>1. PICK j \in 1 .. m : i = n + j
        BY <2>2, <3>0, Beyond
    <3> QED
        BY <1>4, <1>6, <1>7, <3>1
  <2> QED
      BY <2>1, <2>2
<1> QED
    BY <1>7 DEF Guarding, Needs

----------------------------------------------------------------------------
(***************************************************************************)
(* Things to be done: who gives what, who guards whom.                     *)
(***************************************************************************)
LEMMA GivenBy ==
    ASSUME NEW p
    PROVE  /\ \A q : Gives(Release(q), p) <=> q = p
           /\ \A q, new : Gives(Return(q, new), p) <=> new = p
           /\ \A q, r : (Gives(React(q, r), p) <=> r.child = p) /\ (Gives(Handler(q, r), p) <=> r.child = p)
           /\ \A q, how : ~Gives(Settle(q, how), p)
           /\ \A q : ~Gives(Notify(q), p) /\ ~Gives(Combined(q), p) /\ ~Gives(Sync(q), p)
           /\ \A c, q : ~Gives(Run(c, q), p)
           /\ \A c, q, how : ~Gives(Finish(c, q, how), p)
<1>1. /\ \A q : Gives(Release(q), p) <=> q = p
      /\ \A q : ~Gives(Notify(q), p) /\ ~Gives(Combined(q), p) /\ ~Gives(Sync(q), p)
    BY DEF Gives, Release, Notify, Combined, Sync
<1>2. \A q, new : Gives(Return(q, new), p) <=> new = p
    BY DEF Gives, Return
<1>3. \A q, r : (Gives(React(q, r), p) <=> r.child = p) /\ (Gives(Handler(q, r), p) <=> r.child = p)
    BY DEF Gives, React, Handler
<1>4. \A q, how : ~Gives(Settle(q, how), p)
    BY DEF Gives, Settle
<1>5. (\A c, q : ~Gives(Run(c, q), p)) /\ \A c, q, how : ~Gives(Finish(c, q, how), p)
    BY DEF Gives, Run, Finish
<1> QED
    BY <1>1, <1>2, <1>3, <1>4, <1>5

LEMMA NoItems ==
    ASSUME NEW p
    PROVE  /\ <<>> \in Seq(WorkItems) /\ ~Some(<<>>, p) /\ Single(<<>>, p)
           /\ DOMAIN <<>> = {} /\ AllReleases(<<>>)
BY DEF Some, Single, AllReleases

LEMMA OneItem ==
    ASSUME NEW x \in WorkItems, NEW p
    PROVE  /\ <<x>> \in Seq(WorkItems) /\ (Some(<<x>>, p) <=> Gives(x, p)) /\ Single(<<x>>, p)
           /\ DOMAIN <<x>> = {1} /\ <<x>>[1] = x
<1>1. <<x>> \in Seq(WorkItems) /\ DOMAIN <<x>> = {1} /\ <<x>>[1] = x
    OBVIOUS
<1> QED
    BY <1>1 DEF Some, Single

LEMMA TwoItems ==
    ASSUME NEW x \in WorkItems, NEW y \in WorkItems, NEW p, ~Gives(x, p) \/ ~Gives(y, p)
    PROVE  /\ <<x, y>> \in Seq(WorkItems) /\ (Some(<<x, y>>, p) <=> Gives(x, p) \/ Gives(y, p))
           /\ Single(<<x, y>>, p)
           /\ DOMAIN <<x, y>> = {1, 2} /\ <<x, y>>[1] = x /\ <<x, y>>[2] = y
<1>1. /\ <<x, y>> \in Seq(WorkItems) /\ DOMAIN <<x, y>> = {1, 2}
      /\ <<x, y>>[1] = x /\ <<x, y>>[2] = y
    OBVIOUS
<1> QED
    BY <1>1 DEF Some, Single

\* What is on top of the stack is guarded by something deeper.
LEMMA TopGuarded ==
    ASSUME Inv, Guarding, work # <<>>, Needs(Now), Now.do # "notify"
    PROVE  \E j \in DOMAIN Tail(work) : Guards(Tail(work)[j], Now.p)
<1>1. Now = work[1] /\ 1 \in DOMAIN work
      /\ \A i \in DOMAIN work : i # 1 => i - 1 \in DOMAIN Tail(work) /\ Tail(work)[i - 1] = work[i]
    BY WorkTyped
<1>2. Guarded(work, 1)
    BY <1>1 DEF Guarding, Awaited_at_once
<1>3. PICK j \in DOMAIN work : 1 < j /\ Guards(work[j], Now.p)
    BY <1>1, <1>2 DEF Guarded
<1>4. j # 1
    BY <1>3
<1> QED
    BY <1>1, <1>3, <1>4

LEMMA QuietStay ==
    ASSUME Inv, QuietContexts
    PROVE  /\ QuietAwaiters /\ ContextsStay(work) /\ (work # <<>> => ContextsStay(Tail(work)))
           /\ \A y \in WorkItems : \A p : Guards(y, p) => Guards(y, p)'
<1>1. \A y \in WorkItems : y.do \in {"run", "finish"} => y.c \in Coroutines
    BY ItemFields
<1>2. \A j \in DOMAIN work : work[j] \in WorkItems
    BY WorkTyped
<1>3. work # <<>> => \A j \in DOMAIN Tail(work) : Tail(work)[j] \in WorkItems
    BY WorkTyped
<1>4. ContextsStay(work)
    BY <1>1, <1>2 DEF ContextsStay, QuietContexts, QuietAwaiters
<1>5. work # <<>> => ContextsStay(Tail(work))
    BY <1>1, <1>3 DEF ContextsStay, QuietContexts, QuietAwaiters
<1>6. \A y \in WorkItems : \A p : Guards(y, p) => Guards(y, p)'
    BY <1>1 DEF Guards, QuietContexts
<1> QED
    BY <1>4, <1>5, <1>6 DEF QuietContexts

\* What is put on the stack and needs a guard has one.
Relays(items, rest) ==
    \A i \in DOMAIN items : Needs(items[i]) =>
        \/ \E j \in DOMAIN items : i < j /\ Guards(items[j], items[i].p)'
        \/ \E j \in DOMAIN rest : Guards(rest[j], items[i].p)'

\* A step that replaces the top of the stack and hands its references on.
LEMMA TopKeeping ==
    ASSUME Inv, Grown, Keeping, work # <<>>, UNCHANGED <<reactions, handle, op, ref_count, freed>>,
           QuietCombiners, QuietContexts, Counts', Now.do # "release",
           Now.do = "return" => Now.new = NoPromise,
           NEW items \in Seq(WorkItems), NEW rest, rest = Tail(work), work' = items \o rest,
           \A p \in Promises : Single(items, p) /\ (Some(items, p) => Gives(Now, p)),
           \A i \in DOMAIN items : Secure(items[i])',
           Relays(items, rest)
    PROVE  Keeping'
<1>1. Owners /\ Secured /\ Guarding
    BY DEF Keeping
<1>2. QuietAwaiters /\ ContextsStay(Tail(work)) /\ Leaves(Tail(work)) /\ Tail(work) # work
  <2>1. PICK n \in Nat : n = Len(work) /\ Len(Tail(work)) = n - 1
      BY WorkTyped
  <2>2. n - 1 # n
      OBVIOUS
  <2> QED
      BY <2>1, <2>2, QuietStay DEF Leaves
<1>3. \A p \in Promises : StackGains(p, 0)
    BY StackPops
<1>4. Owners'
    BY <1>1, <1>2, <1>3, OwnersStack
<1>5. Secured'
  <2>1. HeldStay
      BY DEF HeldStay
  <2>2. \A m \in Promises : combo'[m].status = "waiting" => combo[m].status = "waiting"
      BY DEF QuietCombiners
  <2>3. \A c \in Coroutines : co'[c].result \in {NoPromise, co[c].result}
      BY DEF QuietContexts
  <2> QED
      BY <1>1, <1>2, <2>1, <2>2, <2>3, SecuredStep
<1>6. Guarding'
  <2>1. Now.do # "release" /\ (rest = work => Now.do # "notify")
      BY <1>2
  <2>2. \A i \in DOMAIN items : Needs(items[i]) =>
            \/ \E j \in DOMAIN items : i < j /\ Guards(items[j], items[i].p)'
            \/ \E j \in DOMAIN rest : Guards(rest[j], items[i].p)'
      BY DEF Relays
  <2> QED
      BY <1>1, <1>2, <2>1, <2>2, GuardingStep
<1> QED
    BY <1>4, <1>5, <1>6 DEF Keeping

\* A step that puts something on the stack that has no reference.
LEMMA PushKeeping ==
    ASSUME Inv, Grown, Keeping, UNCHANGED <<reactions, handle, op, ref_count, freed>>,
           QuietCombiners, QuietContexts, Counts',
           work = <<>> \/ Now.do \notin {"release", "notify"},
           NEW items \in Seq(WorkItems), work' = items \o work,
           \A p \in Promises : ~Some(items, p),
           \A i \in DOMAIN items : Secure(items[i])',
           \A i \in DOMAIN items : Needs(items[i]) =>
                \E j \in DOMAIN items : i < j /\ Guards(items[j], items[i].p)'
    PROVE  Keeping'
<1>1. Owners /\ Secured /\ Guarding
    BY DEF Keeping
<1>2. QuietAwaiters /\ ContextsStay(work) /\ Leaves(work)
    BY QuietStay DEF Leaves
<1>3. \A p \in Promises : StackGains(p, 0)
    BY StackPushes
<1>4. Owners'
    BY <1>1, <1>2, <1>3, OwnersStack
<1>5. Secured'
  <2>1. HeldStay
      BY DEF HeldStay
  <2>2. \A m \in Promises : combo'[m].status = "waiting" => combo[m].status = "waiting"
      BY DEF QuietCombiners
  <2>3. \A c \in Coroutines : co'[c].result \in {NoPromise, co[c].result}
      BY DEF QuietContexts
  <2> QED
      BY <1>1, <1>2, <2>1, <2>2, <2>3, SecuredStep
<1>6. Guarding'
    BY <1>1, <1>2, GuardingStep
<1> QED
    BY <1>4, <1>5, <1>6 DEF Keeping

----------------------------------------------------------------------------
(***************************************************************************)
(* The actions of the stack.                                               *)
(***************************************************************************)
LEMMA AllQuiet ==
    ASSUME Keeping, UNCHANGED <<co, combo>>
    PROVE  QuietContexts /\ QuietCombiners /\ Counts'
BY DEF Keeping, Counts, QuietContexts, QuietAwaiters, QuietCombiners

\* The top of the stack, as what it is.
LEMMA TopIs ==
    ASSUME Inv, NEW what, Doing(what)
    PROVE  work # <<>> /\ Now \in WorkItems /\ Now.do = what
BY WorkTyped DEF Doing, Now

LEMMA HandlerDoneKeeping ==
    ASSUME Inv, Grown, Keeping, handler_done
    PROVE  Keeping'
<1>1. work # <<>> /\ Now \in WorkItems /\ Now.do = "handler"
    BY TopIs DEF handler_done
<1>2. PICK how \in Settled :
        work' = <<Settle(Now.r.child, Outcome(Now.r, Now.p, how)), Release(Now.r.child)>> \o Tail(work)
    BY DEF handler_done, Next_do
<1>3. PICK q, out : q = Now.r.child /\ out = Outcome(Now.r, Now.p, how)
    OBVIOUS
<1>4. q \in Promises /\ out \in Settled
  <2>1. Now.p \in Promises /\ Now.r \in Reactions
      BY <1>1, ItemFields
  <2>2. state[Now.p] \in Settled
      BY <1>1, Top DEF Sound, Doing, Now
  <2> QED
      BY <1>3, <2>1, <2>2 DEF Outcome, Reactions
<1>5. Settle(q, out) \in WorkItems /\ Release(q) \in WorkItems
    BY <1>4, ItemKinds
<1>6. PICK items : items = <<Settle(q, out), Release(q)>>
    OBVIOUS
<1>7. /\ items \in Seq(WorkItems) /\ DOMAIN items = {1, 2}
      /\ items[1] = Settle(q, out) /\ items[2] = Release(q)
    BY <1>5, <1>6
<1>8. \A p \in Promises : Single(items, p) /\ (Some(items, p) => Gives(Now, p))
  <2> SUFFICES ASSUME NEW p \in Promises PROVE Single(items, p) /\ (Some(items, p) => Gives(Now, p))
      OBVIOUS
  <2>1. ~Gives(Settle(q, out), p) /\ (Gives(Release(q), p) => q = p)
      BY GivenBy
  <2>2. Single(items, p) /\ (Some(items, p) => q = p)
      BY <1>5, <1>6, <2>1, TwoItems
  <2> QED
      BY <1>1, <1>3, <2>2 DEF Gives
<1>9. \A i \in DOMAIN items : Secure(items[i])'
    BY <1>7 DEF Secure, Settle, Release
<1>10. PICK rest : rest = Tail(work)
    OBVIOUS
<1>11. Relays(items, rest)
    BY <1>7 DEF Relays, Needs, Guards, Settle, Release
<1>12. UNCHANGED <<reactions, handle, op, ref_count, freed, co, combo>>
    BY DEF handler_done, owners, memory
<1>13. QuietContexts /\ QuietCombiners /\ Counts'
    BY <1>12, AllQuiet
<1> QED
    BY <1>1, <1>2, <1>3, <1>6, <1>7, <1>8, <1>9, <1>10, <1>11, <1>12, <1>13, TopKeeping

LEMMA ReactionKeeping ==
    ASSUME Inv, Grown, Keeping, execute_reaction
    PROVE  Keeping'
<1>1. work # <<>> /\ Now \in WorkItems /\ Now.do = "react"
    BY TopIs DEF execute_reaction
<1>2. PICK p, r, q : p = Now.p /\ r = Now.r /\ q = r.child
    OBVIOUS
<1>3. p \in Promises /\ r \in Reactions /\ q \in Promises /\ state[p] \in Settled
  <2>1. Now.p \in Promises /\ Now.r \in Reactions
      BY <1>1, ItemFields
  <2>2. state[Now.p] \in Settled
      BY <1>1, Top DEF Sound, Doing, Now
  <2> QED
      BY <1>2, <2>1, <2>2 DEF Reactions
<1>4. /\ UNCHANGED <<reactions, handle, op, ref_count, freed, co, combo>>
      /\ \/ work' = <<Handler(p, r)>> \o Tail(work)
         \/ work' = <<Settle(q, state[p]), Release(q)>> \o Tail(work)
         \/ work' = <<Release(q)>> \o Tail(work)
    BY <1>2 DEF execute_reaction, Next_do, owners, memory
<1>5. QuietContexts /\ QuietCombiners /\ Counts'
    BY <1>4, AllQuiet
<1>6. \A y : q = y => Gives(Now, y)
    BY <1>1, <1>2 DEF Gives
<1>7. PICK rest : rest = Tail(work)
    OBVIOUS
<1>8. /\ Handler(p, r) \in WorkItems /\ Settle(q, state[p]) \in WorkItems /\ Release(q) \in WorkItems
    BY <1>3, ItemKinds
<1>9. CASE work' = <<Handler(p, r)>> \o Tail(work)
  <2>1. PICK items : items = <<Handler(p, r)>>
      OBVIOUS
  <2>2. items \in Seq(WorkItems) /\ DOMAIN items = {1} /\ items[1] = Handler(p, r)
      BY <1>8, <2>1
  <2>3. ASSUME NEW y \in Promises PROVE Single(items, y) /\ (Some(items, y) => Gives(Now, y))
    <3>1. Gives(Handler(p, r), y) => q = y
        BY <1>2, GivenBy
    <3> QED
        BY <1>6, <1>8, <2>1, <3>1, OneItem
  <2>4. \A i \in DOMAIN items : Secure(items[i])'
      BY <2>2 DEF Secure, Handler
  <2>5. Relays(items, rest)
    <3>1. PICK j \in DOMAIN Tail(work) : Guards(Tail(work)[j], p)
        BY <1>1, <1>2, TopGuarded DEF Keeping, Needs
    <3>2. PICK z : z = Tail(work)[j] /\ z \in WorkItems
        BY <1>1, WorkTyped
    <3>3. Guards(z, p)'
        BY <1>5, <3>1, <3>2, QuietStay
    <3>4. j \in DOMAIN rest /\ rest[j] = z /\ items[1].p = p
        BY <1>7, <2>2, <3>2 DEF Handler
    <3> QED
        BY <2>2, <3>3, <3>4 DEF Relays
  <2> QED
      BY <1>1, <1>4, <1>5, <1>7, <1>9, <2>1, <2>2, <2>3, <2>4, <2>5, TopKeeping
<1>10. CASE work' = <<Settle(q, state[p]), Release(q)>> \o Tail(work)
  <2>1. PICK items, how : how = state[p] /\ items = <<Settle(q, how), Release(q)>>
      OBVIOUS
  <2>2. /\ items \in Seq(WorkItems) /\ DOMAIN items = {1, 2}
        /\ items[1] = Settle(q, how) /\ items[2] = Release(q)
      BY <1>8, <2>1
  <2>3. ASSUME NEW y \in Promises PROVE Single(items, y) /\ (Some(items, y) => Gives(Now, y))
    <3>1. ~Gives(Settle(q, how), y) /\ (Gives(Release(q), y) => q = y)
        BY GivenBy
    <3> QED
        BY <1>6, <1>8, <2>1, <3>1, TwoItems
  <2>4. \A i \in DOMAIN items : Secure(items[i])'
      BY <2>2 DEF Secure, Settle, Release
  <2>5. Relays(items, rest)
      BY <2>2 DEF Relays, Needs, Guards, Settle, Release
  <2> QED
      BY <1>1, <1>4, <1>5, <1>7, <1>10, <2>1, <2>2, <2>3, <2>4, <2>5, TopKeeping
<1>11. CASE work' = <<Release(q)>> \o Tail(work)
  <2>1. PICK items : items = <<Release(q)>>
      OBVIOUS
  <2>2. items \in Seq(WorkItems) /\ DOMAIN items = {1} /\ items[1] = Release(q)
      BY <1>8, <2>1
  <2>3. ASSUME NEW y \in Promises PROVE Single(items, y) /\ (Some(items, y) => Gives(Now, y))
    <3>1. Gives(Release(q), y) => q = y
        BY GivenBy
    <3> QED
        BY <1>6, <1>8, <2>1, <3>1, OneItem
  <2>4. \A i \in DOMAIN items : Secure(items[i])'
      BY <2>2 DEF Secure, Release
  <2>5. Relays(items, rest)
      BY <2>2 DEF Relays, Needs, Release
  <2> QED
      BY <1>1, <1>4, <1>5, <1>7, <1>11, <2>1, <2>2, <2>3, <2>4, <2>5, TopKeeping
<1> QED
    BY <1>4, <1>9, <1>10, <1>11

\* A step that only takes the top of the stack away.
LEMMA TopGone ==
    ASSUME Inv, Grown, Keeping, work # <<>>, UNCHANGED <<reactions, handle, op, ref_count, freed>>,
           QuietCombiners, QuietContexts, Counts', Now.do # "release",
           Now.do = "return" => Now.new = NoPromise,
           work' = <<>> \o Tail(work)
    PROVE  Keeping'
<1>1. PICK items, rest : items = <<>> /\ rest = Tail(work)
    OBVIOUS
<1>2. items \in Seq(WorkItems) /\ DOMAIN items = {} /\ \A p : ~Some(items, p) /\ Single(items, p)
    BY <1>1, NoItems
<1>3. Relays(items, rest)
    BY <1>2 DEF Relays
<1> QED
    BY <1>1, <1>2, <1>3, TopKeeping

LEMMA SyncDoneKeeping ==
    ASSUME Inv, Grown, Keeping, sync_done
    PROVE  Keeping'
<1>1. work # <<>> /\ Now \in WorkItems /\ Now.do = "sync"
    BY TopIs DEF sync_done
<1>2. UNCHANGED <<reactions, handle, op, ref_count, freed, co, combo>> /\ work' = <<>> \o Tail(work)
    BY DEF sync_done, owners, memory, Next_do
<1> QED
    BY <1>1, <1>2, AllQuiet, TopGone

LEMMA PromiseSettledKeeping ==
    ASSUME Inv, Grown, Keeping, laio_promise_settled
    PROVE  Keeping'
<1>1. work # <<>> /\ Now \in WorkItems /\ Now.do = "notify"
    BY TopIs DEF laio_promise_settled
<1>2. PICK p, c : p = Now.p /\ c = awaiter[p]
    OBVIOUS
<1>3. p \in Promises
    BY <1>1, <1>2, ItemFields
<1>4. /\ UNCHANGED <<reactions, handle, op, ref_count, freed, combo>>
      /\ \/ UNCHANGED co /\ work' = <<>> \o Tail(work)
         \/ /\ c \in Coroutines
            /\ co' = [co EXCEPT ![c].status = "running"]
            /\ work' = <<Run(c, p)>> \o Tail(work)
    BY <1>2 DEF laio_promise_settled, owners, memory, Next_do
<1>5. CASE UNCHANGED co /\ work' = <<>> \o Tail(work)
    BY <1>1, <1>4, <1>5, AllQuiet, TopGone
<1>6. CASE /\ c \in Coroutines
           /\ co' = [co EXCEPT ![c].status = "running"]
           /\ work' = <<Run(c, p)>> \o Tail(work)
  <2>1. co \in [Coroutines -> Contexts] /\ co[c].waiting = p
      BY <1>2, <1>3, <1>6 DEF Inv, Typed, Waits
  <2>2. QuietContexts /\ QuietCombiners /\ Counts'
      BY <1>4, <1>6, <2>1 DEF Keeping, Counts, QuietContexts, QuietAwaiters, QuietCombiners, Contexts
  <2>3. co'[c].waiting = p
      BY <1>6, <2>1, <2>2 DEF QuietContexts, QuietAwaiters
  <2>4. PICK items, rest : items = <<Run(c, p)>> /\ rest = Tail(work)
      OBVIOUS
  <2>5. Run(c, p) \in WorkItems
      BY <1>3, <1>6, ItemKinds DEF SomePromise
  <2>6. items \in Seq(WorkItems) /\ DOMAIN items = {1} /\ items[1] = Run(c, p)
      BY <2>4, <2>5
  <2>7. ASSUME NEW y \in Promises PROVE Single(items, y) /\ ~Some(items, y)
    <3>1. ~Gives(Run(c, p), y)
        BY GivenBy
    <3> QED
        BY <2>4, <2>5, <3>1, OneItem
  <2>8. \A i \in DOMAIN items : Secure(items[i])'
      BY <2>3, <2>6 DEF Secure, Run
  <2>9. Relays(items, rest)
      BY <2>6 DEF Relays, Needs, Run
  <2> QED
      BY <1>1, <1>4, <1>6, <2>2, <2>4, <2>6, <2>7, <2>8, <2>9, TopKeeping
<1> QED
    BY <1>4, <1>5, <1>6

LEMMA ComposeSettledKeeping ==
    ASSUME Inv, Watches, Grown, Keeping, compose_on_settled
    PROVE  Keeping'
<1>1. work # <<>> /\ Now \in WorkItems /\ Now.do = "notify"
    BY TopIs DEF compose_on_settled
<1>2. PICK m, how, verdict : m = awaiter[Now.p] /\ how = state[Now.p] /\ verdict = Decision(m, how)
    OBVIOUS
<1>3. /\ m \in Promises /\ Now.p \in Promises /\ how \in Settled
      /\ combo \in [Promises -> Combos]
  <2>1. state[Now.p] \in Settled
      BY <1>1, Top DEF Sound, Doing, Now
  <2> QED
      BY <1>1, <1>2, <2>1, ItemFields DEF compose_on_settled, Inv, Typed
<1>4. combo[m].status \in {"waiting", "decided"}
    BY <1>2, <1>3 DEF Watches, Watching, Watched
<1>5. UNCHANGED <<reactions, handle, op, ref_count, freed, co>>
    BY DEF compose_on_settled, owners, memory
<1>6. QuietContexts
    BY <1>5 DEF QuietContexts, QuietAwaiters
<1>7. \/ combo' = [combo EXCEPT ![m].status = "decided"] /\ work' = <<>> \o Tail(work)
      \/ /\ verdict = "pending"
         /\ combo' = [combo EXCEPT ![m].count = @ + 1] /\ work' = <<>> \o Tail(work)
      \/ /\ combo[m].status = "waiting" /\ verdict # "pending"
         /\ combo' = [combo EXCEPT ![m].status = "decided"]
         /\ work' = <<Settle(m, verdict), Combined(m)>> \o Tail(work)
    BY <1>2 DEF compose_on_settled, Next_do
<1>8. combo' = [combo EXCEPT ![m].status = "decided"] => QuietCombiners /\ Counts'
  <2> SUFFICES ASSUME combo' = [combo EXCEPT ![m].status = "decided"] PROVE QuietCombiners /\ Counts'
      OBVIOUS
  <2>1. \A q \in Promises : /\ combo'[q].children = combo[q].children /\ combo'[q].count = combo[q].count
                            /\ q # m => combo'[q].status = combo[q].status
      BY <1>3 DEF Combos
  <2>2. combo'[m].status = "decided"
      BY <1>3 DEF Combos
  <2> QED
      BY <1>4, <2>1, <2>2 DEF QuietCombiners, Keeping, Counts
<1>9. CASE combo' = [combo EXCEPT ![m].status = "decided"] /\ work' = <<>> \o Tail(work)
    BY <1>1, <1>5, <1>6, <1>8, <1>9, TopGone
<1>10. CASE /\ verdict = "pending"
            /\ combo' = [combo EXCEPT ![m].count = @ + 1] /\ work' = <<>> \o Tail(work)
  <2>1. \A q \in Promises : /\ combo'[q].children = combo[q].children /\ combo'[q].status = combo[q].status
                            /\ q # m => combo'[q].count = combo[q].count
      BY <1>3, <1>10 DEF Combos
  <2>2. combo'[m].count = combo[m].count + 1
      BY <1>3, <1>10 DEF Combos
  <2>3. combo[m].count + 1 < Len(combo[m].children)
      BY <1>2, <1>3, <1>10 DEF Decision, Settled
  <2>4. combo[m].count \in Nat /\ Len(combo[m].children) \in Nat
      BY <1>3 DEF Combos
  <2>5. QuietCombiners /\ Counts'
      BY <2>1, <2>2, <2>3, <2>4 DEF QuietCombiners, Keeping, Counts
  <2> QED
      BY <1>1, <1>5, <1>6, <1>10, <2>5, TopGone
<1>11. CASE /\ combo[m].status = "waiting" /\ verdict # "pending"
            /\ combo' = [combo EXCEPT ![m].status = "decided"]
            /\ work' = <<Settle(m, verdict), Combined(m)>> \o Tail(work)
  <2>1. PICK items, rest : items = <<Settle(m, verdict), Combined(m)>> /\ rest = Tail(work)
      OBVIOUS
  <2>2. verdict \in Settled
      BY <1>2, <1>3, <1>11 DEF Decision, Settled
  <2>3. Settle(m, verdict) \in WorkItems /\ Combined(m) \in WorkItems
      BY <1>3, <2>2, ItemKinds
  <2>4. /\ items \in Seq(WorkItems) /\ DOMAIN items = {1, 2}
        /\ items[1] = Settle(m, verdict) /\ items[2] = Combined(m)
      BY <2>1, <2>3
  <2>5. ASSUME NEW y \in Promises PROVE Single(items, y) /\ ~Some(items, y)
    <3>1. ~Gives(Settle(m, verdict), y) /\ ~Gives(Combined(m), y)
        BY GivenBy
    <3> QED
        BY <2>1, <2>3, <3>1, TwoItems
  <2>6. handle'[m] = "held"
      BY <1>3, <1>5, <1>11 DEF Keeping, Secured
  <2>7. \A i \in DOMAIN items : Secure(items[i])'
      BY <2>4, <2>6 DEF Secure, Settle, Combined
  <2>8. Relays(items, rest)
      BY <2>4 DEF Relays, Needs, Guards, Settle, Combined
  <2> QED
      BY <1>1, <1>5, <1>6, <1>8, <1>11, <2>1, <2>4, <2>5, <2>7, <2>8, TopKeeping
<1> QED
    BY <1>7, <1>9, <1>10, <1>11

LEMMA CoroutineDoneKeeping ==
    ASSUME Inv, Grown, Keeping, coroutine_done
    PROVE  Keeping'
<1>1. work # <<>> /\ Now \in WorkItems /\ Now.do = "run"
    BY TopIs DEF coroutine_done
<1>2. PICK c, p, q : c = Now.c /\ p = Now.p /\ q = co[c].result
    OBVIOUS
<1>3. c \in Coroutines /\ p \in SomePromise /\ q \in Promises
  <2>1. c \in Coroutines /\ p \in SomePromise
      BY <1>1, <1>2, ItemFields
  <2>2. co[c].status = "running"
      BY <1>1, <1>2, Top DEF Sound, Doing, Now
  <2> QED
      BY <1>2, <2>1, <2>2 DEF Inv, Waits, Root
<1>4. PICK how \in Settled : work' = <<Settle(q, how), Finish(c, p, how)>> \o Tail(work)
    BY <1>2 DEF coroutine_done, Next_do
<1>5. UNCHANGED <<reactions, handle, op, ref_count, freed, co, combo>>
    BY DEF coroutine_done, owners, memory
<1>6. QuietContexts /\ QuietCombiners /\ Counts'
    BY <1>5, AllQuiet
<1>7. p = NoPromise \/ co[c].waiting = p
    BY <1>1, <1>2, WorkTyped DEF Keeping, Secured, Secure
<1>8. PICK items, rest : items = <<Settle(q, how), Finish(c, p, how)>> /\ rest = Tail(work)
    OBVIOUS
<1>9. Settle(q, how) \in WorkItems /\ Finish(c, p, how) \in WorkItems
    BY <1>3, ItemKinds
<1>10. /\ items \in Seq(WorkItems) /\ DOMAIN items = {1, 2}
       /\ items[1] = Settle(q, how) /\ items[2] = Finish(c, p, how)
    BY <1>8, <1>9
<1>11. ASSUME NEW y \in Promises PROVE Single(items, y) /\ ~Some(items, y)
  <2>1. ~Gives(Settle(q, how), y) /\ ~Gives(Finish(c, p, how), y)
      BY GivenBy
  <2> QED
      BY <1>8, <1>9, <2>1, TwoItems
<1>12. \A i \in DOMAIN items : Secure(items[i])'
    BY <1>5, <1>7, <1>10 DEF Secure, Settle, Finish
<1>13. Relays(items, rest)
    BY <1>2, <1>5, <1>10 DEF Relays, Needs, Guards, Settle, Finish
<1> QED
    BY <1>1, <1>4, <1>5, <1>6, <1>8, <1>10, <1>11, <1>12, <1>13, TopKeeping

\* Lua code runs where the stack has neither a release nor a notification on top.
LEMMA LuaRuns ==
    ASSUME InLua
    PROVE  work = <<>> \/ (work # <<>> /\ Now.do \in {"handler", "run", "sync"})
BY DEF InLua, Doing, Now

LEMMA CancelKeeping ==
    ASSUME Inv, Grown, Keeping, InLua, NEW p \in Promises, cancel(p)
    PROVE  Keeping'
<1>1. /\ handle[p] = "held" /\ UNCHANGED <<reactions, handle, op, ref_count, freed, co, combo>>
      /\ work' = <<Settle(p, "rejected"), Return(p, NoPromise)>> \o work
    BY DEF cancel, owners, memory, Call
<1>2. QuietContexts /\ QuietCombiners /\ Counts'
    BY <1>1, AllQuiet
<1>3. PICK items : items = <<Settle(p, "rejected"), Return(p, NoPromise)>>
    OBVIOUS
<1>4. Settle(p, "rejected") \in WorkItems /\ Return(p, NoPromise) \in WorkItems
    BY ItemKinds DEF Settled, SomePromise
<1>5. /\ items \in Seq(WorkItems) /\ DOMAIN items = {1, 2}
      /\ items[1] = Settle(p, "rejected") /\ items[2] = Return(p, NoPromise)
    BY <1>3, <1>4
<1>6. ASSUME NEW y \in Promises PROVE ~Some(items, y)
  <2>1. ~Gives(Settle(p, "rejected"), y) /\ ~Gives(Return(p, NoPromise), y)
      BY PromiseAssumption, GivenBy
  <2> QED
      BY <1>3, <1>4, <2>1, TwoItems
<1>7. \A i \in DOMAIN items : Secure(items[i])'
    BY <1>1, <1>5 DEF Secure, Settle, Return
<1>8. \A i \in DOMAIN items : Needs(items[i]) => \E j \in DOMAIN items : i < j /\ Guards(items[j], items[i].p)'
    BY <1>5 DEF Needs, Guards, Settle, Return
<1>9. work = <<>> \/ Now.do \notin {"release", "notify"}
    BY LuaRuns
<1> QED
    BY <1>1, <1>2, <1>3, <1>5, <1>6, <1>7, <1>8, <1>9, PushKeeping

LEMMA AwaitSyncKeeping ==
    ASSUME Inv, Grown, Keeping, InLua, NEW p \in Promises, await_sync(p)
    PROVE  Keeping'
<1>1. /\ handle[p] = "held" /\ UNCHANGED <<reactions, handle, op, ref_count, freed, co, combo>>
      /\ work' = <<Sync(p)>> \o work
    BY DEF await_sync, owners, memory, Call
<1>2. QuietContexts /\ QuietCombiners /\ Counts'
    BY <1>1, AllQuiet
<1>3. PICK items : items = <<Sync(p)>>
    OBVIOUS
<1>4. Sync(p) \in WorkItems
    BY ItemKinds
<1>5. items \in Seq(WorkItems) /\ DOMAIN items = {1} /\ items[1] = Sync(p)
    BY <1>3, <1>4
<1>6. ASSUME NEW y \in Promises PROVE ~Some(items, y)
  <2>1. ~Gives(Sync(p), y)
      BY GivenBy
  <2> QED
      BY <1>3, <1>4, <2>1, OneItem
<1>7. \A i \in DOMAIN items : Secure(items[i])'
    BY <1>1, <1>5 DEF Secure, Sync
<1>8. \A i \in DOMAIN items : ~Needs(items[i])
    BY <1>5 DEF Needs, Sync
<1>9. work = <<>> \/ Now.do \notin {"release", "notify"}
    BY LuaRuns
<1> QED
    BY <1>1, <1>2, <1>3, <1>5, <1>6, <1>7, <1>8, <1>9, PushKeeping

LEMMA ReturnKeeping ==
    ASSUME Inv, Grown, Keeping, return
    PROVE  Keeping'
<1>1. work # <<>> /\ Now \in WorkItems /\ Now.do = "return"
    BY TopIs DEF return
<1>2. PICK new \in SomePromise : new = Now.new
    BY <1>1, ItemFields
<1>3. /\ UNCHANGED <<reactions, op, ref_count, freed, co, combo>> /\ work' = <<>> \o Tail(work)
      /\ handle' = IF new = NoPromise THEN handle ELSE [handle EXCEPT ![new] = "held"]
    BY <1>2 DEF return, memory, Next_do
<1>4. CASE new = NoPromise
    BY <1>1, <1>2, <1>3, <1>4, AllQuiet, TopGone
<1>5. CASE new # NoPromise
  <2>1. /\ new \in Promises /\ handle \in [Promises -> {"none", "held", "lost"}]
        /\ handle' = [handle EXCEPT ![new] = "held"]
      BY <1>2, <1>3, <1>5 DEF SomePromise, Inv, Typed
  <2>2. PICK items, rest : items = <<>> /\ rest = Tail(work)
      OBVIOUS
  <2>3. items \in Seq(WorkItems) /\ DOMAIN items = {} /\ \A p : ~Some(items, p) /\ Single(items, p)
      BY <2>2, NoItems
  <2>4. Owners /\ Secured /\ Guarding /\ QuietContexts /\ QuietCombiners /\ Counts'
      BY <1>3, AllQuiet DEF Keeping
  <2>5. ContextsStay(rest) /\ Leaves(rest)
      BY <1>1, <2>2, <2>4, QuietStay DEF Leaves
  <2>6. ASSUME NEW p \in Promises PROVE Owning(p)'
    <3>1. Owning(p) /\ ref_count[p] \in Nat /\ ref_count'[p] = ref_count[p]
        BY <1>3, <2>4 DEF Owners, Owning
    <3>2. CombinersGain(p, 0) /\ AwaitersGain(p, 0) /\ ListsGain(p, 0) /\ OpGains(p, 0)
        BY <1>3, <2>4, <3>1, CombinersQuiet, AwaitersQuiet, ListsQuietly, OpQuiet DEF QuietContexts
    <3>3. /\ p \in freed' \/ state'[p] = "unborn" => ref_count'[p] = 0
          /\ p \in freed' => state'[p] # "unborn"
        BY <1>3, <3>1 DEF Owning, Grown
    <3>4. CASE p = new
      <4>1. One(Some(items, p)) = 0 /\ One(Gives(Now, p)) = 1
          BY <1>1, <1>2, <2>3, <3>4 DEF One, Gives
      <4>2. StackGains(p, 0 - 1)
          BY <1>1, <1>3, <2>2, <2>3, <4>1, StackPop
      <4>3. HandleGains(p, 1)
          BY OneIs DEF HandleGains, One
      <4>4. Gains(p, 0 - 1, 0, 0, 0, 1, 0)
          BY <3>2, <4>2, <4>3 DEF Gains
      <4>5. ref_count'[p] >= ref_count[p] + (0 - 1) + 0 + 0 + 0 + 1 + 0 /\ 0 - 1 \in Int /\ 1 \in Int /\ 0 \in Int
          BY <3>1
      <4> QED
          BY <3>1, <3>3, <4>4, <4>5, OwningStep
    <3>5. CASE p # new
      <4>1. StackGains(p, 0)
          BY <1>1, <1>3, <2>2, <2>3, StackPops
      <4>2. HandleGains(p, 0)
          BY <2>1, <3>5, HandleQuiet
      <4>3. Gains(p, 0, 0, 0, 0, 0, 0)
          BY <3>2, <4>1, <4>2 DEF Gains
      <4>4. ref_count'[p] >= ref_count[p] + 0 + 0 + 0 + 0 + 0 + 0 /\ 0 \in Int
          BY <3>1
      <4> QED
          BY <3>1, <3>3, <4>3, <4>4, OwningStep
    <3> QED
        BY <3>4, <3>5
  <2>7. Owners'
      BY <1>3, <2>4, <2>6 DEF Owners
  <2>8. Secured'
    <3>1. HeldStay /\ handle'[new] = "held"
        BY <2>1 DEF HeldStay
    <3>2. \A c \in Coroutines : co'[c].result \in {NoPromise, co[c].result}
        BY <1>3
    <3>3. \A m \in Promises : combo'[m].status = "waiting" => combo[m].status = "waiting"
        BY <1>3
    <3> QED
        BY <1>2, <1>3, <2>2, <2>3, <2>4, <2>5, <3>1, <3>2, <3>3, SecuredStep
  <2>9. Guarding'
    <3>1. AllReleases(items) /\ QuietAwaiters
        BY <2>3, <2>4 DEF AllReleases, QuietContexts
    <3> QED
        BY <1>3, <2>2, <2>3, <2>4, <2>5, <3>1, GuardingStep
  <2> QED
      BY <2>4, <2>7, <2>8, <2>9 DEF Keeping
<1> QED
    BY <1>4, <1>5

\* A promise to which a step adds no more references than it counts.
Balanced(p) ==
    \E s, k, a, l, h, o \in Int :
        Gains(p, s, k, a, l, h, o) /\ ref_count'[p] >= ref_count[p] + s + k + a + l + h + o

LEMMA BalancedBy ==
    ASSUME NEW p, NEW s \in Int, NEW k \in Int, NEW a \in Int, NEW l \in Int, NEW h \in Int, NEW o \in Int,
           Gains(p, s, k, a, l, h, o), ref_count'[p] >= ref_count[p] + s + k + a + l + h + o
    PROVE  Balanced(p)
BY DEF Balanced

LEMMA OwnersStep ==
    ASSUME Inv, Grown, Owners, UNCHANGED freed, ref_count' \in [Promises -> Nat],
           \A p \in Promises :
                /\ Balanced(p)
                /\ ref_count'[p] # ref_count[p] => p \notin freed /\ state'[p] # "unborn"
    PROVE  Owners'
<1>1. ASSUME NEW p \in Promises PROVE Owning(p)'
  <2>1. Owning(p) /\ Balanced(p)
      BY DEF Owners
  <2>2. PICK s \in Int, k \in Int, a \in Int, l \in Int, h \in Int, o \in Int :
            Gains(p, s, k, a, l, h, o) /\ ref_count'[p] >= ref_count[p] + s + k + a + l + h + o
      BY <2>1 DEF Balanced
  <2>3. /\ p \in freed' \/ state'[p] = "unborn" => ref_count'[p] = 0
        /\ p \in freed' => state'[p] # "unborn"
      BY <2>1 DEF Owning, Grown
  <2> QED
      BY <2>1, <2>2, <2>3, OwningStep
<1> QED
    BY <1>1 DEF Owners

\* What is left alone, for one promise.
LEMMA QuietGains ==
    ASSUME Inv, Owners, NEW p \in Promises
    PROVE  /\ QuietCombiners => CombinersGain(p, 0)
           /\ QuietAwaiters => AwaitersGain(p, 0)
           /\ UNCHANGED reactions => ListsGain(p, 0)
           /\ handle'[p] = handle[p] => HandleGains(p, 0)
           /\ op'[p] = op[p] => OpGains(p, 0)
           /\ ref_count[p] \in Nat
<1>1. Owning(p)
    BY DEF Owners
<1> QED
    BY <1>1, CombinersQuiet, AwaitersQuiet, ListsQuietly, HandleQuiet, OpQuiet DEF Owning

LEMMA Numbers == 0 \in Int /\ 1 \in Int /\ 2 \in Int /\ 0 - 1 \in Int
OBVIOUS

LEMMA CollectKeeping ==
    ASSUME Inv, Grown, Keeping, "drop" \notin Allowed, NEW p \in Promises, collect(p)
    PROVE  Keeping'
<1>1. /\ handle[p] # "none" /\ ~Kept(p) /\ UNCHANGED <<reactions, op, ref_count, freed, co, combo>>
      /\ handle' = [handle EXCEPT ![p] = "none"] /\ work' = <<Release(p)>> \o work
    BY DEF collect, memory
<1>2. QuietContexts /\ QuietCombiners /\ Counts' /\ Owners /\ Secured /\ Guarding
    BY <1>1, AllQuiet DEF Keeping
<1>3. PICK items, rest : items = <<Release(p)>> /\ rest = work
    OBVIOUS
<1>4. Release(p) \in WorkItems
    BY ItemKinds
<1>5. items \in Seq(WorkItems) /\ DOMAIN items = {1} /\ items[1] = Release(p)
    BY <1>3, <1>4
<1>6. handle'[p] = "none" /\ \A q \in Promises : q # p => handle'[q] = handle[q]
    BY <1>1 DEF Inv, Typed
<1>7. ASSUME NEW q \in Promises PROVE Balanced(q) /\ ref_count'[q] = ref_count[q]
  <2>1. /\ CombinersGain(q, 0) /\ AwaitersGain(q, 0) /\ ListsGain(q, 0) /\ OpGains(q, 0)
        /\ ref_count[q] \in Nat /\ ref_count'[q] = ref_count[q]
      BY <1>1, <1>2, QuietGains DEF QuietContexts
  <2>2. Single(items, q) /\ (Some(items, q) <=> q = p)
      BY <1>3, <1>4, OneItem, GivenBy
  <2>3. CASE q = p
    <3>1. One(Some(items, q)) = 1
        BY <2>2, <2>3, OneIs
    <3>2. StackGains(q, 1)
        BY <1>1, <1>3, <1>5, <2>2, <3>1, StackPush
    <3>3. HandleGains(q, 0 - 1)
        BY <1>1, <1>6, <2>3 DEF HandleGains, One
    <3>4. Gains(q, 1, 0, 0, 0, 0 - 1, 0)
        BY <2>1, <3>2, <3>3 DEF Gains
    <3>5. ref_count'[q] >= ref_count[q] + 1 + 0 + 0 + 0 + (0 - 1) + 0
        BY <2>1
    <3> QED
        BY <2>1, <3>4, <3>5, BalancedBy, Numbers
  <2>4. CASE q # p
    <3>1. StackGains(q, 0)
        BY <1>1, <1>3, <1>5, <2>2, <2>4, StackPushes
    <3>2. HandleGains(q, 0)
        BY <1>6, <2>4, QuietGains, <1>2
    <3>3. Gains(q, 0, 0, 0, 0, 0, 0)
        BY <2>1, <3>1, <3>2 DEF Gains
    <3>4. ref_count'[q] >= ref_count[q] + 0 + 0 + 0 + 0 + 0 + 0
        BY <2>1
    <3> QED
        BY <2>1, <3>3, <3>4, BalancedBy, Numbers
  <2> QED
      BY <2>1, <2>3, <2>4
<1>8. Owners'
    BY <1>1, <1>2, <1>7, OwnersStep DEF Owners
<1>9. Leaves(rest) /\ ContextsStay(rest)
    BY <1>2, <1>3, QuietStay DEF Leaves
<1>10. Secured'
  <2>1. HeldStay
      BY <1>1, <1>6 DEF HeldStay, Kept
  <2>2. \A i \in DOMAIN items : Secure(items[i])'
      BY <1>5 DEF Secure, Release
  <2>3. /\ \A m \in Promises : combo'[m].status = "waiting" => combo[m].status = "waiting"
        /\ \A c \in Coroutines : co'[c].result \in {NoPromise, co[c].result}
      BY <1>1
  <2> QED
      BY <1>1, <1>2, <1>3, <1>5, <1>9, <2>1, <2>2, <2>3, SecuredStep
<1>11. Guarding'
  <2>1. AllReleases(items) /\ QuietAwaiters
      BY <1>2, <1>5 DEF AllReleases, QuietContexts, Release
  <2>2. \A i \in DOMAIN items : ~Needs(items[i])
      BY <1>5 DEF Needs, Release
  <2> QED
      BY <1>1, <1>2, <1>3, <1>5, <1>9, <2>1, <2>2, GuardingStep
<1> QED
    BY <1>2, <1>8, <1>10, <1>11 DEF Keeping

LEMMA CompleteKeeping ==
    ASSUME Inv, Grown, Keeping, NEW p \in Promises, NEW how \in Settled, complete(p, how)
    PROVE  Keeping'
<1>1. /\ op[p] # "none" /\ UNCHANGED <<reactions, handle, ref_count, freed, co, combo>>
      /\ op' = [op EXCEPT ![p] = "none"] /\ work' = <<Settle(p, how), Release(p)>> \o work
      /\ work = <<>> \/ Now.do = "sync"
    BY DEF complete, memory, Doing, Now
<1>2. QuietContexts /\ QuietCombiners /\ Counts' /\ Owners /\ Secured /\ Guarding
    BY <1>1, AllQuiet DEF Keeping
<1>3. PICK items, rest : items = <<Settle(p, how), Release(p)>> /\ rest = work
    OBVIOUS
<1>4. Settle(p, how) \in WorkItems /\ Release(p) \in WorkItems
    BY ItemKinds
<1>5. items \in Seq(WorkItems) /\ DOMAIN items = {1, 2} /\ items[1] = Settle(p, how) /\ items[2] = Release(p)
    BY <1>3, <1>4
<1>6. op'[p] = "none" /\ \A q \in Promises : q # p => op'[q] = op[q]
    BY <1>1 DEF Inv, Typed
<1>7. ASSUME NEW q \in Promises PROVE Balanced(q) /\ ref_count'[q] = ref_count[q]
  <2>1. /\ CombinersGain(q, 0) /\ AwaitersGain(q, 0) /\ ListsGain(q, 0) /\ HandleGains(q, 0)
        /\ ref_count[q] \in Nat /\ ref_count'[q] = ref_count[q]
      BY <1>1, <1>2, QuietGains DEF QuietContexts
  <2>2. Single(items, q) /\ (Some(items, q) <=> q = p)
    <3>1. ~Gives(Settle(p, how), q) /\ (Gives(Release(p), q) <=> q = p)
        BY GivenBy
    <3> QED
        BY <1>3, <1>4, <3>1, TwoItems
  <2>3. CASE q = p
    <3>1. One(Some(items, q)) = 1
        BY <2>2, <2>3, OneIs
    <3>2. StackGains(q, 1)
        BY <1>1, <1>3, <1>5, <2>2, <3>1, StackPush
    <3>3. OpGains(q, 0 - 1)
        BY <1>1, <1>6, <2>3 DEF OpGains, One
    <3>4. Gains(q, 1, 0, 0, 0, 0, 0 - 1)
        BY <2>1, <3>2, <3>3 DEF Gains
    <3>5. ref_count'[q] >= ref_count[q] + 1 + 0 + 0 + 0 + 0 + (0 - 1)
        BY <2>1
    <3> QED
        BY <2>1, <3>4, <3>5, BalancedBy, Numbers
  <2>4. CASE q # p
    <3>1. StackGains(q, 0)
        BY <1>1, <1>3, <1>5, <2>2, <2>4, StackPushes
    <3>2. OpGains(q, 0)
        BY <1>6, <2>4, QuietGains, <1>2
    <3>3. Gains(q, 0, 0, 0, 0, 0, 0)
        BY <2>1, <3>1, <3>2 DEF Gains
    <3>4. ref_count'[q] >= ref_count[q] + 0 + 0 + 0 + 0 + 0 + 0
        BY <2>1
    <3> QED
        BY <2>1, <3>3, <3>4, BalancedBy, Numbers
  <2> QED
      BY <2>1, <2>3, <2>4
<1>8. Owners'
    BY <1>1, <1>2, <1>7, OwnersStep DEF Owners
<1>9. Leaves(rest) /\ ContextsStay(rest)
    BY <1>2, <1>3, QuietStay DEF Leaves
<1>10. Secured'
  <2>1. HeldStay
      BY <1>1 DEF HeldStay
  <2>2. \A i \in DOMAIN items : Secure(items[i])'
      BY <1>5 DEF Secure, Settle, Release
  <2>3. /\ \A m \in Promises : combo'[m].status = "waiting" => combo[m].status = "waiting"
        /\ \A c \in Coroutines : co'[c].result \in {NoPromise, co[c].result}
      BY <1>1
  <2> QED
      BY <1>1, <1>2, <1>3, <1>5, <1>9, <2>1, <2>2, <2>3, SecuredStep
<1>11. Guarding'
  <2>1. \A i \in DOMAIN items : Needs(items[i]) =>
            \E j \in DOMAIN items : i < j /\ Guards(items[j], items[i].p)'
      BY <1>5 DEF Needs, Guards, Settle, Release
  <2>2. work = <<>> \/ (Now.do # "release" /\ (rest = work => Now.do # "notify"))
      BY <1>1
  <2> QED
      BY <1>1, <1>2, <1>3, <1>5, <1>9, <2>1, <2>2, GuardingStep
<1> QED
    BY <1>2, <1>8, <1>10, <1>11 DEF Keeping

----------------------------------------------------------------------------
(***************************************************************************)
(* The reactions of a promise.                                             *)
(***************************************************************************)
ListedBy(p, q) == \E i \in DOMAIN reactions[p] : reactions[p][i].child = q

\* A child is in the list of its parent only, and there once.
LEMMA ListsEmptied ==
    ASSUME Inv, NEW p \in Promises, reactions' = [reactions EXCEPT ![p] = <<>>], NEW q \in Promises
    PROVE  ListsGain(q, 0 - One(ListedBy(p, q)))
<1>1. reactions'[p] = <<>> /\ \A x \in Promises : x # p => reactions'[x] = reactions[x]
    BY DEF Inv, Typed
<1>2. Listed(q)' => Listed(q)
    BY <1>1 DEF Listed
<1>3. ListedBy(p, q) => Listed(q)
    BY DEF ListedBy, Listed
<1>4. ListedBy(p, q) => ~Listed(q)'
  <2> SUFFICES ASSUME ListedBy(p, q), Listed(q)' PROVE FALSE
      OBVIOUS
  <2>1. origin[q].parent = p
      BY DEF ListedBy, Inv, Lists, ListOK, Registered
  <2>2. PICK x \in Promises : \E i \in DOMAIN reactions'[x] : reactions'[x][i].child = q
      BY DEF Listed
  <2>3. x # p
      BY <1>1, <2>2
  <2>4. \E i \in DOMAIN reactions[x] : reactions[x][i].child = q
      BY <1>1, <2>2, <2>3
  <2>5. origin[q].parent = x
      BY <2>4 DEF Inv, Lists, ListOK, Registered
  <2> QED
      BY <2>1, <2>3, <2>5
<1>5. PICK x, y, z : x = One(ListedBy(p, q)) /\ y = One(Listed(q)) /\ z = One(Listed(q)')
    OBVIOUS
<1>6. y \in {0, 1} /\ z <= y - x /\ x \in {0, 1} /\ z \in {0, 1}
    BY <1>2, <1>3, <1>4, <1>5 DEF One
<1>7. z <= y + (0 - x)
    BY <1>6
<1> QED
    BY <1>5, <1>7 DEF ListsGain

LEMMA ListedItems ==
    ASSUME Inv, NEW p \in Promises, NEW items, NEW q,
           \A i \in DOMAIN reactions[p] :
                i \in DOMAIN items /\ (Gives(items[i], q) <=> reactions[p][i].child = q),
           \A i \in DOMAIN items : i \in DOMAIN reactions[p] \/ ~Gives(items[i], q)
    PROVE  Single(items, q) /\ (Some(items, q) <=> ListedBy(p, q))
<1>1. Some(items, q) <=> ListedBy(p, q)
    BY DEF Some, ListedBy
<1>2. \A i, j \in DOMAIN reactions[p] : i # j => reactions[p][i].child # reactions[p][j].child
    BY DEF Inv, Lists, ListOK
<1>3. Single(items, q)
    BY <1>2 DEF Single
<1> QED
    BY <1>1, <1>3

LEMMA ReleaseKeeping ==
    ASSUME Inv, Grown, Keeping, release
    PROVE  Keeping'
<1>1. work # <<>> /\ Now \in WorkItems /\ Now.do = "release"
    BY TopIs DEF release
<1>2. PICK p : p = Now.p
    OBVIOUS
<1>3. p \in Promises
    BY <1>1, <1>2, ItemFields
<1>4. Owners /\ Secured /\ Guarding /\ \A q : Gives(Now, q) <=> q = p
    BY <1>1, <1>2 DEF Keeping, Gives
<1>5. p \notin freed /\ state[p] # "unborn" /\ ref_count[p] \in Nat /\ ref_count[p] >= 1
  <2>1. Some(work, p)
      BY <1>1, <1>4, WorkTyped DEF Some
  <2>2. Stacked(work, p) # {}
      BY <1>3, <2>1, SomeStacked
  <2> QED
      BY <1>3, <1>4, <2>2, Alive DEF Owners
<1>6. /\ UNCHANGED <<handle, op, co, combo>>
      /\ ref_count' = [ref_count EXCEPT ![p] = @ - 1]
      /\ \/ /\ ref_count[p] # 1 /\ UNCHANGED <<freed, reactions>> /\ work' = <<>> \o Tail(work)
         \/ /\ ref_count[p] = 1
            /\ freed' = freed \cup {p} /\ reactions' = [reactions EXCEPT ![p] = <<>>]
            /\ work' = [i \in DOMAIN reactions[p] |-> Release(reactions[p][i].child)] \o Tail(work)
    BY <1>2 DEF release, owners, Next_do
<1>7. QuietContexts /\ QuietCombiners /\ Counts'
    BY <1>6, AllQuiet
<1>8. /\ \A q \in Promises : q # p => ref_count'[q] = ref_count[q]
      /\ ref_count[p] = 1 => ref_count'[p] = 0
      /\ ref_count'[p] = ref_count[p] - 1 /\ ref_count'[p] \in Nat
  <2>1. ref_count \in [Promises -> Nat]
      BY <1>4 DEF Owners
  <2> QED
      BY <1>3, <1>5, <1>6, <2>1
<1>9. HeldStay /\ Leaves(Tail(work)) /\ ContextsStay(Tail(work)) /\ QuietAwaiters
    BY <1>1, <1>6, <1>7, QuietStay DEF HeldStay, Leaves
<1>10. ref_count' \in [Promises -> Nat]
    BY <1>3, <1>4, <1>6, <1>8 DEF Owners
<1>11. /\ \A m \in Promises : combo'[m].status = "waiting" => combo[m].status = "waiting"
       /\ \A c \in Coroutines : co'[c].result \in {NoPromise, co[c].result}
    BY <1>6
<1>12. ASSUME NEW items \in Seq(WorkItems), AllReleases(items), work' = items \o Tail(work)
       PROVE  Secured' /\ Guarding'
  <2>1. PICK rest : rest = Tail(work)
      OBVIOUS
  <2>2. \A i \in DOMAIN items : ~Needs(items[i])
      BY <1>12 DEF AllReleases, Needs
  <2>3. Guarding'
      BY <1>4, <1>9, <1>12, <2>1, <2>2, GuardingStep
  <2>4. \A i \in DOMAIN items : Secure(items[i])'
      BY <1>12 DEF AllReleases, Secure
  <2>5. Secured'
      BY <1>1, <1>4, <1>9, <1>11, <1>12, <2>1, <2>4, SecuredStep
  <2> QED
      BY <2>3, <2>5
<1>13. ASSUME NEW q \in Promises
       PROVE  /\ CombinersGain(q, 0) /\ AwaitersGain(q, 0) /\ HandleGains(q, 0) /\ OpGains(q, 0)
              /\ ref_count[q] \in Nat /\ ref_count'[q] = ref_count[q] - One(q = p)
  <2>1. /\ CombinersGain(q, 0) /\ AwaitersGain(q, 0) /\ HandleGains(q, 0) /\ OpGains(q, 0)
        /\ ref_count[q] \in Nat
      BY <1>4, <1>6, <1>7, <1>9, QuietGains
  <2>2. ref_count'[q] = ref_count[q] - One(q = p)
    <3>1. CASE q = p
      <4>1. One(q = p) = 1
          BY <3>1, OneIs
      <4> QED
          BY <1>8, <3>1, <4>1
    <3>2. CASE q # p
      <4>1. One(q = p) = 0
          BY <3>2, OneIs
      <4> QED
          BY <1>8, <2>1, <3>2, <4>1
    <3> QED
        BY <3>1, <3>2
  <2> QED
      BY <2>1, <2>2
<1>14. CASE ref_count[p] # 1
  <2>1. PICK items : items = <<>>
      OBVIOUS
  <2>2. items \in Seq(WorkItems) /\ AllReleases(items) /\ \A q : ~Some(items, q) /\ Single(items, q)
      BY <2>1, NoItems
  <2>3. UNCHANGED <<freed, reactions>> /\ work' = items \o Tail(work)
      BY <1>6, <1>14, <2>1
  <2>4. ASSUME NEW q \in Promises PROVE Balanced(q)
    <3>1. PICK y : y = One(q = p)
        OBVIOUS
    <3>2. y \in {0, 1} /\ One(Gives(Now, q)) = y /\ One(Some(items, q)) = 0
      <4>1. One(Gives(Now, q)) = One(q = p)
        <5>1. CASE q = p
            BY <1>4, <5>1, OneIs
        <5>2. CASE q # p
            BY <1>4, <5>2, OneIs
        <5> QED
            BY <5>1, <5>2
      <4> QED
          BY <2>2, <3>1, <4>1, OneIs
    <3>3. StackGains(q, 0 - y)
        BY <1>1, <2>2, <2>3, <3>2, StackPop
    <3>4. Gains(q, 0 - y, 0, 0, 0, 0, 0)
        BY <1>4, <1>13, <2>3, <3>3, QuietGains DEF Gains
    <3>5. ref_count'[q] >= ref_count[q] + (0 - y) + 0 + 0 + 0 + 0 + 0 /\ 0 - y \in Int
        BY <1>13, <3>1, <3>2
    <3> QED
        BY <3>4, <3>5, BalancedBy, Numbers
  <2>5. \A q \in Promises : ref_count'[q] # ref_count[q] => q \notin freed /\ state'[q] # "unborn"
      BY <1>3, <1>5, <1>8 DEF Grown
  <2>6. Owners'
      BY <1>4, <1>10, <2>3, <2>4, <2>5, OwnersStep
  <2> QED
      BY <1>7, <1>12, <2>2, <2>3, <2>6 DEF Keeping
<1>15. CASE ref_count[p] = 1
  <2>1. PICK items : items = [i \in DOMAIN reactions[p] |-> Release(reactions[p][i].child)]
      OBVIOUS
  <2>2. /\ freed' = freed \cup {p} /\ reactions' = [reactions EXCEPT ![p] = <<>>]
        /\ work' = items \o Tail(work)
      BY <1>6, <1>15, <2>1
  <2>3. PICK rs \in Seq(Reactions) : rs = reactions[p]
      BY <1>3 DEF Inv, Typed
  <2>4. /\ Len(rs) \in Nat /\ DOMAIN rs = 1 .. Len(rs)
        /\ \A i \in DOMAIN rs : rs[i] \in Reactions /\ rs[i].child \in Promises
    <3>1. Len(rs) \in Nat /\ DOMAIN rs = 1 .. Len(rs) /\ \A i \in DOMAIN rs : rs[i] \in Reactions
        OBVIOUS
    <3>2. \A r \in Reactions : r.child \in Promises
        BY DEF Reactions
    <3> QED
        BY <3>1, <3>2
  <2>5. DOMAIN items = DOMAIN rs /\ \A i \in DOMAIN rs : items[i] = Release(rs[i].child) /\ items[i] \in WorkItems
      BY <2>1, <2>3, <2>4, ItemKinds
  <2>6. items \in Seq(WorkItems)
    <3>1. items \in [1 .. Len(rs) -> WorkItems]
        BY <2>1, <2>3, <2>4, <2>5
    <3> QED
        BY <2>4, <3>1
  <2>7. AllReleases(items)
      BY <2>5 DEF AllReleases, Release
  <2>8. ASSUME NEW q \in Promises PROVE Owning(q)'
    <3>1. Single(items, q) /\ (Some(items, q) <=> ListedBy(p, q))
      <4>1. \A i \in DOMAIN reactions[p] :
                i \in DOMAIN items /\ (Gives(items[i], q) <=> reactions[p][i].child = q)
          BY <2>3, <2>5, GivenBy
      <4>2. \A i \in DOMAIN items : i \in DOMAIN reactions[p] \/ ~Gives(items[i], q)
          BY <2>3, <2>5
      <4> QED
          BY <1>3, <4>1, <4>2, ListedItems
    <3>2. PICK x, y : x = One(Some(items, q)) /\ y = One(q = p)
        OBVIOUS
    <3>3. /\ y \in {0, 1} /\ One(Gives(Now, q)) = y /\ x \in {0, 1} /\ One(ListedBy(p, q)) = x
      <4>1. One(Gives(Now, q)) = One(q = p)
        <5>1. CASE q = p
            BY <1>4, <5>1, OneIs
        <5>2. CASE q # p
            BY <1>4, <5>2, OneIs
        <5> QED
            BY <5>1, <5>2
      <4>2. One(ListedBy(p, q)) = One(Some(items, q))
        <5>1. CASE ListedBy(p, q)
            BY <3>1, <5>1, OneIs
        <5>2. CASE ~ListedBy(p, q)
            BY <3>1, <5>2, OneIs
        <5> QED
            BY <5>1, <5>2
      <4> QED
          BY <3>2, <4>1, <4>2, OneIs
    <3>4. StackGains(q, x - y)
        BY <1>1, <2>2, <2>6, <3>1, <3>2, <3>3, StackPop
    <3>5. ListsGain(q, 0 - x)
        BY <1>3, <2>2, <3>3, ListsEmptied
    <3>6. Gains(q, x - y, 0, 0, 0 - x, 0, 0)
        BY <1>13, <3>4, <3>5 DEF Gains
    <3>7. ref_count'[q] >= ref_count[q] + (x - y) + 0 + 0 + (0 - x) + 0 + 0 /\ x - y \in Int /\ 0 - x \in Int
        BY <1>13, <3>2, <3>3
    <3>8. /\ q \in freed' \/ state'[q] = "unborn" => ref_count'[q] = 0
          /\ q \in freed' => state'[q] # "unborn"
      <4>1. CASE q = p
          BY <1>3, <1>5, <1>8, <1>15, <4>1 DEF Grown
      <4>2. CASE q # p
          BY <1>4, <1>8, <2>2, <4>2 DEF Owners, Owning, Grown
      <4> QED
          BY <4>1, <4>2
    <3> QED
        BY <1>4, <1>10, <3>6, <3>7, <3>8, OwningStep, Numbers DEF Owners
  <2>9. Owners'
      BY <1>3, <1>4, <1>10, <2>2, <2>8 DEF Owners
  <2> QED
      BY <1>7, <1>12, <2>2, <2>6, <2>7, <2>9 DEF Keeping
<1> QED
    BY <1>14, <1>15

LEMMA SettleKeeping ==
    ASSUME Inv, Grown, Keeping, settle
    PROVE  Keeping'
<1>1. work # <<>> /\ Now \in WorkItems /\ Now.do = "settle"
    BY TopIs DEF settle
<1>2. PICK p : p = Now.p
    OBVIOUS
<1>3. p \in Promises
    BY <1>1, <1>2, ItemFields
<1>4. Owners /\ Secured /\ Guarding /\ \A q : ~Gives(Now, q)
    BY <1>1 DEF Keeping, Gives
<1>5. /\ UNCHANGED <<handle, op, co, combo, freed, ref_count>>
      /\ \/ UNCHANGED reactions /\ work' = <<>> \o Tail(work)
         \/ /\ reactions' = [reactions EXCEPT ![p] = <<>>]
            /\ work' = (Reactions_of(p) \o <<Notify(p)>>) \o Tail(work)
    BY <1>2 DEF settle, owners, memory, Next_do, No_reactions
<1>6. QuietContexts /\ QuietCombiners /\ Counts'
    BY <1>5, AllQuiet
<1>7. CASE UNCHANGED reactions /\ work' = <<>> \o Tail(work)
    BY <1>1, <1>5, <1>6, <1>7, TopGone
<1>8. CASE /\ reactions' = [reactions EXCEPT ![p] = <<>>]
           /\ work' = (Reactions_of(p) \o <<Notify(p)>>) \o Tail(work)
  <2>1. PICK items, rest : items = Reactions_of(p) \o <<Notify(p)>> /\ rest = Tail(work)
      OBVIOUS
  <2>2. PICK rs \in Seq(Reactions) : rs = reactions[p]
      BY <1>3 DEF Inv, Typed
  <2>3. PICK n \in Nat : n = Len(rs) /\ DOMAIN rs = 1 .. n /\ \A i \in 1 .. n : rs[i] \in Reactions
      OBVIOUS
  <2>4. PICK rx : rx = Reactions_of(p)
      OBVIOUS
  <2>5. rx \in Seq(WorkItems) /\ Len(rx) = n /\ \A i \in 1 .. n : rx[i] = React(p, rs[i])
    <3>1. rx = [i \in 1 .. n |-> React(p, rs[i])]
        BY <2>2, <2>3, <2>4 DEF Reactions_of
    <3>2. \A i \in 1 .. n : React(p, rs[i]) \in WorkItems
        BY <1>3, <2>3, ItemKinds
    <3> QED
        BY <3>1, <3>2
  <2>6. Notify(p) \in WorkItems
      BY <1>3, ItemKinds
  <2>7. /\ items \in Seq(WorkItems) /\ DOMAIN items = 1 .. n + 1
        /\ \A i \in 1 .. n : items[i] = React(p, rs[i])
        /\ items[n + 1] = Notify(p)
    <3>1. PICK y \in WorkItems : y = Notify(p)
        BY <2>6
    <3>2. items = Append(rx, y)
        BY <2>1, <2>4, <2>5, <3>1
    <3> QED
        BY <2>3, <2>5, <3>1, <3>2
  <2>8. \A i \in DOMAIN items : i \in 1 .. n \/ i = n + 1
      BY <2>7
  <2>9. \A i \in DOMAIN items : items[i].p = p /\ items[i].do \in {"react", "notify"}
    <3>1. ASSUME NEW i \in 1 .. n PROVE items[i].p = p /\ items[i].do = "react"
      <4>1. PICK r, x : r = rs[i] /\ x = items[i]
          OBVIOUS
      <4>2. x = React(p, r)
          BY <2>7, <4>1
      <4>3. x.p = p /\ x.do = "react"
          BY <4>2 DEF React
      <4> QED
          BY <4>1, <4>3
    <3>2. items[n + 1].p = p /\ items[n + 1].do = "notify"
        BY <2>7 DEF Notify
    <3> QED
        BY <2>8, <3>1, <3>2
  <2>10. ASSUME NEW q \in Promises PROVE Balanced(q)
    <3>1. Single(items, q) /\ (Some(items, q) <=> ListedBy(p, q))
      <4>1. \A i \in DOMAIN reactions[p] :
                i \in DOMAIN items /\ (Gives(items[i], q) <=> reactions[p][i].child = q)
          BY <2>2, <2>3, <2>7, GivenBy
      <4>2. \A i \in DOMAIN items : i \in DOMAIN reactions[p] \/ ~Gives(items[i], q)
          BY <2>2, <2>3, <2>7, <2>8, GivenBy
      <4> QED
          BY <1>3, <4>1, <4>2, ListedItems
    <3>2. PICK x : x = One(Some(items, q))
        OBVIOUS
    <3>3. x \in {0, 1} /\ One(ListedBy(p, q)) = x
      <4>1. CASE ListedBy(p, q)
          BY <3>1, <3>2, <4>1, OneIs
      <4>2. CASE ~ListedBy(p, q)
          BY <3>1, <3>2, <4>2, OneIs
      <4> QED
          BY <4>1, <4>2
    <3>4. One(Gives(Now, q)) = 0
        BY <1>4, OneIs
    <3>5. StackGains(q, x - 0)
        BY <1>1, <1>8, <2>1, <2>7, <3>1, <3>2, <3>4, StackPop
    <3>6. ListsGain(q, 0 - x)
        BY <1>3, <1>8, <3>3, ListsEmptied
    <3>7. Gains(q, x - 0, 0, 0, 0 - x, 0, 0) /\ ref_count[q] \in Nat
        BY <1>4, <1>5, <1>6, <3>5, <3>6, QuietGains DEF Gains, QuietContexts
    <3>8. ref_count'[q] >= ref_count[q] + (x - 0) + 0 + 0 + (0 - x) + 0 + 0 /\ x - 0 \in Int /\ 0 - x \in Int
        BY <1>5, <3>3, <3>7
    <3> QED
        BY <3>7, <3>8, BalancedBy, Numbers
  <2>11. Owners'
    <3>1. ref_count' \in [Promises -> Nat]
        BY <1>4, <1>5 DEF Owners
    <3> QED
        BY <1>4, <1>5, <2>10, <3>1, OwnersStep
  <2>12. Leaves(rest) /\ ContextsStay(rest) /\ HeldStay
      BY <1>1, <1>5, <1>6, <2>1, QuietStay DEF Leaves, HeldStay
  <2>13. Secured'
    <3>1. \A i \in DOMAIN items : Secure(items[i])'
        BY <2>9 DEF Secure
    <3>2. /\ \A m \in Promises : combo'[m].status = "waiting" => combo[m].status = "waiting"
          /\ \A c \in Coroutines : co'[c].result \in {NoPromise, co[c].result}
        BY <1>5
    <3> QED
        BY <1>1, <1>4, <1>8, <2>1, <2>7, <2>12, <3>1, <3>2, SecuredStep
  <2>14. Guarding'
    <3>1. PICK j \in DOMAIN Tail(work) : Guards(Tail(work)[j], p)
        BY <1>1, <1>2, <1>4, TopGuarded DEF Needs
    <3>2. PICK z : z = Tail(work)[j] /\ z \in WorkItems
        BY <1>1, WorkTyped
    <3>3. Guards(z, p)'
        BY <1>6, <3>1, <3>2, QuietStay
    <3>4. \A i \in DOMAIN items : \E k \in DOMAIN rest : Guards(rest[k], items[i].p)'
        BY <2>1, <2>9, <3>2, <3>3
    <3>5. rest # work
      <4>1. PICK k \in Nat : k = Len(work) /\ Len(Tail(work)) = k - 1
          BY <1>1, WorkTyped
      <4> QED
          BY <2>1, <4>1
    <3>6. Now.do # "release" /\ (rest = work => Now.do # "notify")
        BY <1>1, <3>5
    <3> QED
        BY <1>4, <1>8, <2>1, <2>7, <2>12, <3>4, <3>6, GuardingStep
  <2> QED
      BY <1>6, <2>11, <2>13, <2>14 DEF Keeping
<1> QED
    BY <1>5, <1>7, <1>8

----------------------------------------------------------------------------
(***************************************************************************)
(* Combinators.                                                            *)
(***************************************************************************)
LEMMA ComposeFreeKeeping ==
    ASSUME Inv, Combining, Grown, Keeping, compose_free
    PROVE  Keeping'
<1>1. work # <<>> /\ Now \in WorkItems /\ Now.do = "combined"
    BY TopIs DEF compose_free
<1>2. PICK m, children : m = Now.p /\ children = combo[m].children
    OBVIOUS
<1>3. m \in Promises /\ combo[m].status = "decided"
  <2>1. Now \in SettlingItems
      BY <1>1, HeadSettles DEF Combining
  <2> QED
      BY <1>1, <1>2, <2>1, ItemFields DEF SettlingItems, Settles
<1>4. children \in Seq(Promises) /\ DOMAIN children = {1, 2} /\ children[1] # children[2]
  <2>1. combo[m].mode # "none"
      BY <1>3 DEF Combining, Makes
  <2>2. Len(children) = 2 /\ children[1] # children[2]
      BY <1>2, <1>3, <2>1 DEF Combining, Makes, Made
  <2>3. children \in Seq(Promises)
      BY <1>2, <1>3 DEF Inv, Typed, Combos
  <2> QED
      BY <2>2, <2>3
<1>5. /\ UNCHANGED <<handle, op, co, freed, ref_count, reactions>>
      /\ work' = [i \in DOMAIN children |-> Release(children[i])] \o Tail(work)
      /\ combo' = [combo EXCEPT ![m].status = "freed"]
    BY <1>2 DEF compose_free, owners, memory, Next_do
<1>6. /\ combo'[m].status = "freed"
      /\ \A q \in Promises : /\ combo'[q].children = combo[q].children /\ combo'[q].count = combo[q].count
                             /\ q # m => combo'[q].status = combo[q].status
    BY <1>3, <1>5 DEF Inv, Typed, Combos
<1>7. QuietContexts /\ Counts' /\ Owners /\ Secured /\ Guarding
    BY <1>5, <1>6 DEF Keeping, Counts, QuietContexts, QuietAwaiters
<1>8. PICK items, rest : items = [i \in DOMAIN children |-> Release(children[i])] /\ rest = Tail(work)
    OBVIOUS
<1>9. /\ items \in Seq(WorkItems) /\ DOMAIN items = {1, 2}
      /\ \A i \in {1, 2} : items[i] = Release(children[i])
  <2>1. children[1] \in Promises /\ children[2] \in Promises
      BY <1>4
  <2>2. Release(children[1]) \in WorkItems /\ Release(children[2]) \in WorkItems
      BY <2>1, ItemKinds
  <2>3. DOMAIN items = {1, 2} /\ \A i \in {1, 2} : items[i] = Release(children[i])
      BY <1>4, <1>8
  <2>4. items = [i \in 1 .. 2 |-> Release(children[i])] /\ 1 .. 2 = {1, 2}
      BY <1>4, <1>8
  <2> QED
      BY <2>2, <2>3, <2>4
<1>10. AllReleases(items)
    BY <1>9 DEF AllReleases, Release
<1>11. ASSUME NEW q \in Promises PROVE Balanced(q)
  <2>1. ASSUME NEW i \in {1, 2} PROVE Gives(items[i], q) <=> children[i] = q
    <3>1. PICK x, y : x = items[i] /\ y = children[i] /\ x = Release(y)
        BY <1>9
    <3>2. Gives(Release(y), q) <=> y = q
        BY GivenBy
    <3> QED
        BY <3>1, <3>2
  <2>2. Single(items, q) /\ (Some(items, q) <=> q \in ToSet(children))
      BY <1>4, <1>9, <2>1 DEF Single, Some, ToSet
  <2>3. PICK x : x = One(Some(items, q))
      OBVIOUS
  <2>4. x \in {0, 1} /\ One(Gives(Now, q)) = 0
      BY <1>1, <2>3, OneIs DEF Gives
  <2>5. StackGains(q, x - 0)
      BY <1>1, <1>5, <1>8, <1>9, <2>2, <2>3, <2>4, StackPop
  <2>6. CombinersGain(q, 0 - x)
    <3>1. IsFiniteSet(Combiners(q))
        BY <1>7, OwnedNumbers DEF Owners
    <3>2. Combiners(q)' \subseteq Combiners(q) \ {m}
        BY <1>6 DEF Combiners
    <3>3. CASE q \in ToSet(children)
      <4>1. x = 1 /\ m \in Combiners(q)
          BY <1>2, <1>3, <2>2, <2>3, <3>3, OneIs DEF Combiners
      <4>2. /\ Cardinality(Combiners(q)) \in Nat /\ Cardinality(Combiners(q)') \in Nat
            /\ Cardinality(Combiners(q)') <= Cardinality(Combiners(q)) - 1
          BY <3>1, <3>2, <4>1, OneElementLess
      <4> QED
          BY <4>1, <4>2 DEF CombinersGain
    <3>4. CASE q \notin ToSet(children)
      <4>1. x = 0 /\ Combiners(q)' \subseteq Combiners(q)
          BY <2>2, <2>3, <3>2, <3>4, OneIs
      <4>2. /\ Cardinality(Combiners(q)) \in Nat /\ Cardinality(Combiners(q)') \in Nat
            /\ Cardinality(Combiners(q)') <= Cardinality(Combiners(q))
          BY <3>1, <4>1, FewerElements
      <4> QED
          BY <4>1, <4>2 DEF CombinersGain
    <3> QED
        BY <3>3, <3>4
  <2>7. Gains(q, x - 0, 0 - x, 0, 0, 0, 0) /\ ref_count[q] \in Nat
      BY <1>5, <1>7, <2>5, <2>6, QuietGains DEF Gains, QuietContexts
  <2>8. ref_count'[q] >= ref_count[q] + (x - 0) + (0 - x) + 0 + 0 + 0 + 0 /\ x - 0 \in Int /\ 0 - x \in Int
      BY <1>5, <2>4, <2>7
  <2> QED
      BY <2>7, <2>8, BalancedBy, Numbers
<1>12. Owners'
  <2>1. ref_count' \in [Promises -> Nat]
      BY <1>5, <1>7 DEF Owners
  <2> QED
      BY <1>5, <1>7, <1>11, <2>1, OwnersStep
<1>13. Leaves(rest) /\ ContextsStay(rest) /\ HeldStay /\ QuietAwaiters
    BY <1>1, <1>5, <1>7, <1>8, QuietStay DEF Leaves, HeldStay
<1>14. Secured'
  <2>1. \A i \in DOMAIN items : Secure(items[i])'
      BY <1>10 DEF AllReleases, Secure
  <2>2. /\ \A x \in Promises : combo'[x].status = "waiting" => combo[x].status = "waiting"
        /\ \A c \in Coroutines : co'[c].result \in {NoPromise, co[c].result}
      BY <1>5, <1>6
  <2> QED
      BY <1>1, <1>5, <1>7, <1>8, <1>9, <1>13, <2>1, <2>2, SecuredStep
<1>15. Guarding'
  <2>1. \A i \in DOMAIN items : ~Needs(items[i])
      BY <1>10 DEF AllReleases, Needs
  <2> QED
      BY <1>5, <1>7, <1>8, <1>9, <1>10, <1>13, <2>1, GuardingStep
<1> QED
    BY <1>7, <1>12, <1>14, <1>15 DEF Keeping

\* What Compose does to the combinators and the references.
Composed(mode, a, b, m, st, refs) ==
    \E verdict \in Found : \E new :
        /\ state' = [st EXCEPT ![m] = verdict] /\ combo' = [combo EXCEPT ![m] = new]
        /\ new.children = <<a, b>> /\ new.count \in 0 .. 2
        /\ new.status = IF verdict = "pending" THEN "waiting" ELSE "freed"
        /\ mode = "race" /\ st[a] = "pending" /\ st[b] = "pending" => verdict = "pending"
        /\ ref_count' \in [Promises -> Nat] /\ ref_count'[m] = 1
        /\ \A q \in Promises : q \notin {a, b, m} => ref_count'[q] = refs[q]
        /\ \A q \in {a, b} :
            /\ ref_count'[q] >= refs[q]
            /\ verdict = "pending" => ref_count'[q] >= refs[q] + 1
            /\ verdict = "pending" /\ st[q] = "pending" => ref_count'[q] >= refs[q] + 2

LEMMA ComposeCounts ==
    ASSUME NEW mode \in Modes, NEW a \in Promises, NEW b \in Promises, NEW m \in Promises,
           a # b, a # m, b # m, NEW st \in [Promises -> States], st[a] # "unborn", st[b] # "unborn",
           NEW refs \in [Promises -> Nat], Compose(mode, <<a, b>>, m, st, refs)
    PROVE  Composed(mode, a, b, m, st, refs)
<1>1. PICK children : children = <<a, b>>
    OBVIOUS
<1>2. DOMAIN children = {1, 2} /\ children[1] = a /\ children[2] = b
    BY <1>1
<1>3. PICK found : found = [i \in DOMAIN children |-> st[children[i]]]
    OBVIOUS
<1>4. found \in [1 .. 2 -> Found] /\ found[1] = st[a] /\ found[2] = st[b]
  <2>1. st[a] \in Found /\ st[b] \in Found
      BY DEF States, Found
  <2>2. 1 .. 2 = {1, 2}
      OBVIOUS
  <2> QED
      BY <1>2, <1>3, <2>1, <2>2
<1>5. PICK verdict \in Found : verdict = Verdict(mode, found)
    BY <1>4, VerdictKind
<1>6. mode = "race" /\ st[a] = "pending" /\ st[b] = "pending" => verdict = "pending"
    BY <1>4, <1>5, VerdictOfTwo
<1>7. PICK new : new = [mode |-> mode, children |-> children, count |-> Count_settled(found),
                        status |-> IF verdict = "pending" THEN "waiting" ELSE "freed"]
    OBVIOUS
<1>8. state' = [st EXCEPT ![m] = verdict] /\ combo' = [combo EXCEPT ![m] = new]
    BY <1>1, <1>3, <1>5, <1>7 DEF Compose
<1>9. Count_settled(found) \in 0 .. 2
  <2>1. IsFiniteSet({1, 2}) /\ Cardinality({1, 2}) = 2
    <3>1. 1 \in Int /\ 2 \in Int /\ 1 .. 2 = {1, 2} /\ 2 - 1 + 1 = 2 /\ ~ (1 > 2)
        OBVIOUS
    <3>2. IsFiniteSet(1 .. 2) /\ Cardinality(1 .. 2) = 2
        BY <3>1, FS_Interval
    <3> QED
        BY <3>1, <3>2
  <2>2. (DOMAIN found) \ Pending(found) \subseteq {1, 2}
      BY <1>4
  <2>3. PICK n : n = Cardinality((DOMAIN found) \ Pending(found))
      OBVIOUS
  <2>4. n \in Nat /\ n <= 2
      BY <2>1, <2>2, <2>3, FewerElements
  <2> QED
      BY <2>3, <2>4 DEF Count_settled
<1>10. PICK at : at = [q \in Promises |-> {i \in DOMAIN children : children[i] = q}]
    OBVIOUS
<1>11. at[a] = {1} /\ at[b] = {2} /\ \A q \in Promises : q \notin {a, b} => at[q] = {}
    BY <1>2, <1>10
<1>12. PICK size, pend : /\ size = [q \in Promises |-> Cardinality(at[q])]
                         /\ pend = [q \in Promises |-> Cardinality(at[q] \cap Pending(found))]
    OBVIOUS
<1>13. ref_count' = [q \in Promises |->
            IF q = m THEN 1
            ELSE CASE verdict = "pending" -> refs[q] + size[q] + pend[q]
                   [] verdict = "fulfilled" /\ mode \in {"all", "allSettled"} -> refs[q] + size[q]
                   [] OTHER -> refs[q]]
    BY <1>1, <1>3, <1>5, <1>10, <1>12 DEF Compose
<1>14. /\ size \in [Promises -> Nat] /\ pend \in [Promises -> Nat]
       /\ size[a] = 1 /\ size[b] = 1
       /\ st[a] = "pending" => pend[a] = 1
       /\ st[b] = "pending" => pend[b] = 1
       /\ \A q \in Promises : q \notin {a, b} => size[q] = 0 /\ pend[q] = 0
  <2>1. Cardinality({}) = 0 /\ \A x : Cardinality({x}) = 1
      BY FS_EmptySet, FS_Singleton
  <2>2. \A i \in {1, 2} : found[i] = "pending" => {i} \cap Pending(found) = {i}
      BY <1>4 DEF Pending
  <2>3. \A i \in {1, 2} : {i} \cap Pending(found) \in {{}, {i}}
      OBVIOUS
  <2>4. size[a] = 1 /\ size[b] = 1 /\ \A q \in Promises : q \notin {a, b} => size[q] = 0 /\ pend[q] = 0
    <3>1. \A q \in Promises : q \notin {a, b} => at[q] \cap Pending(found) = {}
        BY <1>11
    <3> QED
        BY <1>11, <1>12, <2>1, <3>1
  <2>0. pend[a] = Cardinality({1} \cap Pending(found)) /\ pend[b] = Cardinality({2} \cap Pending(found))
      BY <1>11, <1>12
  <2>5. (st[a] = "pending" => pend[a] = 1) /\ (st[b] = "pending" => pend[b] = 1)
    <3>1. ASSUME st[a] = "pending" PROVE pend[a] = 1
      <4>1. {1} \cap Pending(found) = {1}
          BY <1>4, <2>2, <3>1
      <4>2. pend[a] = Cardinality({1})
          BY <2>0, <4>1
      <4> QED
          BY <2>1, <4>2
    <3>2. ASSUME st[b] = "pending" PROVE pend[b] = 1
      <4>1. {2} \cap Pending(found) = {2}
          BY <1>4, <2>2, <3>2
      <4>2. pend[b] = Cardinality({2})
          BY <2>0, <4>1
      <4> QED
          BY <2>1, <4>2
    <3> QED
        BY <3>1, <3>2
  <2>6. pend[a] \in {0, 1} /\ pend[b] \in {0, 1}
    <3>1. PICK u, v : u = {1} \cap Pending(found) /\ v = {2} \cap Pending(found)
        OBVIOUS
    <3>2. u \in {{}, {1}} /\ v \in {{}, {2}}
        BY <3>1
    <3>3. Cardinality(u) \in {0, 1} /\ Cardinality(v) \in {0, 1}
        BY <2>1, <3>2
    <3> QED
        BY <2>0, <3>1, <3>3
  <2>7. \A q \in Promises : size[q] \in Nat /\ pend[q] \in Nat
      BY <2>4, <2>6
  <2> QED
      BY <1>12, <2>4, <2>5, <2>7
<1>15. /\ ref_count' \in [Promises -> Nat] /\ ref_count'[m] = 1
       /\ \A q \in Promises : q \notin {a, b, m} => ref_count'[q] = refs[q]
       /\ \A q \in {a, b} :
            /\ ref_count'[q] >= refs[q]
            /\ verdict = "pending" => ref_count'[q] >= refs[q] + 1
            /\ verdict = "pending" /\ st[q] = "pending" => ref_count'[q] >= refs[q] + 2
  <2>1. ASSUME NEW q \in Promises, q # m
        PROVE  /\ ref_count'[q] \in Nat
               /\ ref_count'[q] \in {refs[q] + size[q] + pend[q], refs[q] + size[q], refs[q]}
               /\ verdict = "pending" => ref_count'[q] = refs[q] + size[q] + pend[q]
    <3>1. refs[q] \in Nat /\ size[q] \in Nat /\ pend[q] \in Nat
        BY <1>14
    <3>2. ref_count'[q] = CASE verdict = "pending" -> refs[q] + size[q] + pend[q]
                            [] verdict = "fulfilled" /\ mode \in {"all", "allSettled"} -> refs[q] + size[q]
                            [] OTHER -> refs[q]
        BY <1>13, <2>1
    <3>3. CASE verdict = "pending"
        BY <3>1, <3>2, <3>3
    <3>4. CASE verdict # "pending" /\ verdict = "fulfilled" /\ mode \in {"all", "allSettled"}
        BY <3>1, <3>2, <3>4
    <3>5. CASE verdict # "pending" /\ ~(verdict = "fulfilled" /\ mode \in {"all", "allSettled"})
        BY <3>1, <3>2, <3>5
    <3> QED
        BY <3>3, <3>4, <3>5
  <2>2. ref_count'[m] = 1
      BY <1>13
  <2>3. ref_count' \in [Promises -> Nat]
      BY <1>13, <2>1, <2>2
  <2>4. \A q \in Promises : q \notin {a, b, m} => ref_count'[q] = refs[q]
      BY <1>14, <2>1
  <2>5. ASSUME NEW q \in {a, b}
        PROVE  /\ ref_count'[q] >= refs[q]
               /\ verdict = "pending" => ref_count'[q] >= refs[q] + 1
               /\ verdict = "pending" /\ st[q] = "pending" => ref_count'[q] >= refs[q] + 2
    <3>1. refs[q] \in Nat /\ size[q] = 1 /\ pend[q] \in Nat /\ (st[q] = "pending" => pend[q] = 1)
        BY <1>14
    <3> QED
        BY <2>1, <3>1
  <2> QED
      BY <2>2, <2>3, <2>4, <2>5
<1>16. /\ new.children = <<a, b>> /\ new.count \in 0 .. 2
       /\ new.status = IF verdict = "pending" THEN "waiting" ELSE "freed"
    BY <1>1, <1>7, <1>9
<1> QED
    BY <1>6, <1>8, <1>15, <1>16 DEF Composed

\* One if a combinator that is made holds q.
Joined(new, a, b, q) == One(new.status = "waiting" /\ q \in {a, b})

Rest_kept(new, a, b) ==
    /\ Secured' /\ Guarding' /\ Counts'
    /\ \A q \in Promises :
        /\ StackGains(q, 0) /\ AwaitersGain(q, 0) /\ ListsGain(q, 0)
        /\ \E k : k = Joined(new, a, b, q) /\ CombinersGain(q, k)

LEMMA ComposeRest ==
    ASSUME Inv, Combining, Keeping, NEW a \in Promises, NEW b \in Promises, NEW m \in Promises,
           state[m] = "unborn", NEW new, combo' = [combo EXCEPT ![m] = new],
           new.children = <<a, b>>, new.count \in 0 .. 2, new.status \in {"waiting", "freed"},
           UNCHANGED <<co, reactions>>, work' = <<>> \o work, HeldStay, handle'[m] = "held"
    PROVE  Rest_kept(new, a, b)
<1>1. Owners /\ Secured /\ Guarding /\ Counts
    BY DEF Keeping
<1>2. combo[m].status = "none"
    BY DEF Combining, Makes, Made, Root
<1>3. combo'[m] = new /\ \A q \in Promises : q # m => combo'[q] = combo[q]
    BY DEF Inv, Typed
<1>4. Counts'
  <2>1. combo'[m].count <= Len(combo'[m].children)
    <3>1. Len(<<a, b>>) = 2 /\ \A n \in 0 .. 2 : n <= 2
        OBVIOUS
    <3> QED
        BY <1>3, <3>1
  <2> QED
      BY <1>1, <1>3, <2>1 DEF Counts
<1>5. PICK items, rest : items = <<>> /\ rest = work
    OBVIOUS
<1>6. /\ items \in Seq(WorkItems) /\ DOMAIN items = {} /\ AllReleases(items)
      /\ \A q : ~Some(items, q) /\ Single(items, q)
    BY <1>5, NoItems
<1>7. QuietContexts /\ Leaves(rest)
    BY <1>5 DEF QuietContexts, QuietAwaiters, Leaves
<1>8. QuietAwaiters /\ ContextsStay(rest)
    BY <1>5, <1>7, QuietStay
<1>9. Guarding'
    BY <1>1, <1>5, <1>6, <1>7, <1>8, GuardingStep
<1>10. Secured'
  <2>1. \A q \in Promises : combo'[q].status = "waiting" => combo[q].status = "waiting" \/ handle'[q] = "held"
      BY <1>3
  <2>2. \A c \in Coroutines : co'[c].result \in {NoPromise, co[c].result}
      OBVIOUS
  <2> QED
      BY <1>1, <1>5, <1>6, <1>7, <1>8, <2>1, <2>2, SecuredStep
<1>11. ASSUME NEW q \in Promises
       PROVE  /\ StackGains(q, 0) /\ AwaitersGain(q, 0) /\ ListsGain(q, 0)
              /\ \E k : k = Joined(new, a, b, q) /\ CombinersGain(q, k)
  <2>1. StackGains(q, 0)
      BY <1>5, <1>6, StackPushes
  <2>2. AwaitersGain(q, 0) /\ ListsGain(q, 0)
      BY <1>1, <1>8, QuietGains
  <2>3. IsFiniteSet(Combiners(q))
      BY <1>1, OwnedNumbers DEF Owners
  <2>4. Combiners(q)' \subseteq Combiners(q) \cup {m}
      BY <1>3 DEF Combiners
  <2>5. CASE new.status = "waiting" /\ q \in {a, b}
    <3>1. PICK z : z = Joined(new, a, b, q) /\ z = 1
        BY <2>5, OneIs DEF Joined
    <3>2. /\ Cardinality(Combiners(q)) \in Nat /\ Cardinality(Combiners(q)') \in Nat
          /\ Cardinality(Combiners(q)') <= Cardinality(Combiners(q)) + 1
        BY <2>3, <2>4, OneElementMore
    <3>3. CombinersGain(q, z)
        BY <3>1, <3>2 DEF CombinersGain
    <3> QED
        BY <2>1, <2>2, <3>1, <3>3
  <2>6. CASE ~(new.status = "waiting" /\ q \in {a, b})
    <3>1. PICK z : z = Joined(new, a, b, q) /\ z = 0
        BY <2>6, OneIs DEF Joined
    <3>2. ToSet(<<a, b>>) = {a, b}
      <4>1. DOMAIN <<a, b>> = {1, 2} /\ <<a, b>>[1] = a /\ <<a, b>>[2] = b
          OBVIOUS
      <4> QED
          BY <4>1 DEF ToSet
    <3>3. m \notin Combiners(q)'
        BY <1>3, <2>6, <3>2 DEF Combiners
    <3>4. Combiners(q)' \subseteq Combiners(q)
        BY <2>4, <3>3
    <3>5. /\ Cardinality(Combiners(q)) \in Nat /\ Cardinality(Combiners(q)') \in Nat
          /\ Cardinality(Combiners(q)') <= Cardinality(Combiners(q))
        BY <2>3, <3>4, FewerElements
    <3>6. CombinersGain(q, z)
        BY <3>1, <3>5 DEF CombinersGain
    <3> QED
        BY <2>1, <2>2, <3>1, <3>6
  <2> QED
      BY <2>1, <2>2, <2>5, <2>6
<1> QED
    BY <1>4, <1>9, <1>10, <1>11 DEF Rest_kept

\* A promise that has not come to be has no references.
LEMMA NewPromise ==
    ASSUME Inv, Owners, NEW p \in Promises, state[p] = "unborn"
    PROVE  p \notin freed /\ ref_count[p] = 0 /\ handle[p] = "none" /\ op[p] = "none"
<1>1. handle[p] = "none"
    BY DEF Inv, Births
<1>2. op[p] = "none"
    BY DEF Inv, Births, Root
<1> QED
    BY <1>1, <1>2 DEF Owners, Owning

LEMMA CombineKeeping ==
    ASSUME Inv, Combining, Grown, Keeping, "share" \notin Allowed, NEW mode \in Modes,
           NEW a \in Promises, NEW b \in Promises, NEW m \in Fresh({}), combine(mode, a, b, m)
    PROVE  Keeping'
<1>1. Typed /\ Births /\ Owners
    BY DEF Inv, Keeping
<1>2. m \in Promises /\ state[m] = "unborn"
    BY <1>1, FreshUnborn
<1>3. state[a] # "unborn" /\ state[b] # "unborn" /\ handle[a] = "held" /\ handle[b] = "held"
    BY <1>1 DEF combine, Births
<1>4. a # m /\ b # m
    BY <1>2, <1>3
<1>5. a # b
  <2>1. PICK children : children = <<a, b>>
      OBVIOUS
  <2>2. DOMAIN children = {1, 2} /\ children[1] = a /\ children[2] = b /\ 1 # 2
      BY <2>1
  <2>3. ~Sharing(children)
      BY <2>1 DEF combine
  <2> QED
      BY <2>2, <2>3 DEF Sharing
<1>6. PICK st \in [Promises -> States] : st = state
    BY <1>1 DEF Typed
<1>7. PICK refs \in [Promises -> Nat] : refs = ref_count
    BY <1>1 DEF Owners
<1>8. Compose(mode, <<a, b>>, m, st, refs) /\ st[a] # "unborn" /\ st[b] # "unborn"
    BY <1>3, <1>6, <1>7 DEF combine
<1>19. Composed(mode, a, b, m, st, refs)
    BY <1>2, <1>4, <1>5, <1>6, <1>7, <1>8, ComposeCounts
<1>9. PICK verdict, new :
        /\ verdict \in Found
        /\ state' = [st EXCEPT ![m] = verdict] /\ combo' = [combo EXCEPT ![m] = new]
        /\ new.children = <<a, b>> /\ new.count \in 0 .. 2
        /\ new.status = IF verdict = "pending" THEN "waiting" ELSE "freed"
        /\ mode = "race" /\ st[a] = "pending" /\ st[b] = "pending" => verdict = "pending"
        /\ ref_count' \in [Promises -> Nat] /\ ref_count'[m] = 1
        /\ \A q \in Promises : q \notin {a, b, m} => ref_count'[q] = refs[q]
        /\ \A q \in {a, b} :
            /\ ref_count'[q] >= refs[q]
            /\ verdict = "pending" => ref_count'[q] >= refs[q] + 1
            /\ verdict = "pending" /\ st[q] = "pending" => ref_count'[q] >= refs[q] + 2
    BY <1>19 DEF Composed
<1>10. /\ UNCHANGED <<freed, reactions, op, co>> /\ work' = <<>> \o work
       /\ handle' = [handle EXCEPT ![m] = "held"]
    BY DEF combine, Call
<1>11. handle'[m] = "held" /\ \A q \in Promises : q # m => handle'[q] = handle[q]
    BY <1>1, <1>2, <1>10 DEF Typed
<1>12. HeldStay
    BY <1>11 DEF HeldStay
<1>13. new.status \in {"waiting", "freed"} /\ (new.status = "waiting" => verdict = "pending")
    BY <1>9
<1>20. Rest_kept(new, a, b)
    BY <1>2, <1>9, <1>10, <1>11, <1>12, <1>13, ComposeRest
<1>14. /\ Secured' /\ Guarding' /\ Counts'
       /\ \A q \in Promises :
            /\ StackGains(q, 0) /\ AwaitersGain(q, 0) /\ ListsGain(q, 0)
            /\ \E k : k = Joined(new, a, b, q) /\ CombinersGain(q, k)
    BY <1>20 DEF Rest_kept
<1>15. ASSUME NEW q \in Promises
       PROVE  Balanced(q) /\ (ref_count'[q] # ref_count[q] => q \notin freed /\ state'[q] # "unborn")
  <2>1. PICK k : k = Joined(new, a, b, q) /\ CombinersGain(q, k)
      BY <1>14
  <2>2. k \in {0, 1} /\ OpGains(q, 0) /\ ref_count[q] \in Nat
      BY <1>1, <1>10, <2>1, OneIs, QuietGains DEF Joined
  <2>3. CASE q = m
    <3>1. k = 0 /\ ref_count[q] = 0 /\ q \notin freed /\ handle[q] = "none"
        BY <1>1, <1>2, <1>4, <2>1, <2>3, NewPromise, OneIs DEF Joined
    <3>2. HandleGains(q, 1)
        BY <1>11, <2>3, <3>1 DEF HandleGains, One
    <3>3. Gains(q, 0, 0, 0, 0, 1, 0)
        BY <1>14, <2>1, <2>2, <3>1, <3>2 DEF Gains
    <3>4. ref_count'[q] >= ref_count[q] + 0 + 0 + 0 + 0 + 1 + 0
        BY <1>9, <2>3, <3>1
    <3>5. state'[q] # "unborn"
        BY <1>2, <1>9, <2>3 DEF Found, Settled
    <3> QED
        BY <3>1, <3>3, <3>4, <3>5, BalancedBy, Numbers
  <2>4. CASE q # m
    <3>1. HandleGains(q, 0)
        BY <1>1, <1>11, <2>4, QuietGains
    <3>2. Gains(q, 0, k, 0, 0, 0, 0)
        BY <1>14, <2>1, <2>2, <3>1 DEF Gains
    <3>3. ref_count'[q] >= ref_count[q] + k
      <4>1. CASE q \in {a, b} /\ new.status = "waiting"
          BY <1>7, <1>9, <1>13, <2>2, <4>1
      <4>2. CASE ~(q \in {a, b} /\ new.status = "waiting")
        <5>1. k = 0
            BY <2>1, <4>2, OneIs DEF Joined
        <5>2. ref_count'[q] >= ref_count[q]
          <6>1. ref_count'[q] \in Nat
              BY <1>9
          <6> QED
              BY <1>7, <1>9, <2>2, <2>4, <6>1
        <5> QED
            BY <2>2, <5>1, <5>2
      <4> QED
          BY <4>1, <4>2
    <3>4. ref_count'[q] >= ref_count[q] + 0 + k + 0 + 0 + 0 + 0 /\ k \in Int
        BY <2>2, <3>3
    <3>5. ref_count'[q] # ref_count[q] => q \in {a, b}
        BY <1>7, <1>9, <2>4
    <3>6. q \in {a, b} => q \notin freed /\ state'[q] # "unborn"
        BY <1>1, <1>3, Alive DEF Owners, Grown
    <3> QED
        BY <3>2, <3>4, <3>5, <3>6, BalancedBy, Numbers
  <2> QED
      BY <2>3, <2>4
<1>16. Owners'
    BY <1>1, <1>9, <1>10, <1>15, OwnersStep
<1> QED
    BY <1>14, <1>16 DEF Keeping

LEMMA WithTimeoutKeeping ==
    ASSUME Inv, Combining, Grown, Keeping, "share" \notin Allowed, "late" \notin Allowed,
           NEW p \in Promises, NEW t \in Fresh({}), NEW m \in Fresh({t}), with_timeout(p, t, m)
    PROVE  Keeping'
<1>1. Typed /\ Births /\ Owners
    BY DEF Inv, Keeping
<1>2. t \in Promises /\ state[t] = "unborn"
    BY <1>1, FreshUnborn
<1>3. m \in Promises /\ state[m] = "unborn" /\ m # t
    BY <1>1, <1>2, FreshUnborn
<1>4. state[p] = "pending" /\ handle[p] = "held" /\ p # t /\ p # m
    BY <1>2, <1>3 DEF with_timeout
<1>5. PICK st : st = [state EXCEPT ![t] = "pending"]
    OBVIOUS
<1>6. st \in [Promises -> States] /\ st[t] = "pending" /\ st[p] = "pending"
      /\ \A q \in Promises : q # t => st[q] = state[q]
    BY <1>1, <1>2, <1>4, <1>5 DEF Typed, States
<1>7. PICK refs : refs = [ref_count EXCEPT ![t] = 1]
    OBVIOUS
<1>8. refs \in [Promises -> Nat] /\ refs[t] = 1 /\ \A q \in Promises : q # t => refs[q] = ref_count[q]
    BY <1>1, <1>2, <1>7 DEF Owners
<1>9. Compose("race", <<p, t>>, m, st, refs) /\ "race" \in Modes
    BY <1>5, <1>7 DEF with_timeout, Modes
<1>10. Composed("race", p, t, m, st, refs)
    BY <1>2, <1>3, <1>4, <1>6, <1>8, <1>9, ComposeCounts
<1>11. PICK verdict, new :
        /\ verdict \in Found
        /\ state' = [st EXCEPT ![m] = verdict] /\ combo' = [combo EXCEPT ![m] = new]
        /\ new.children = <<p, t>> /\ new.count \in 0 .. 2 /\ new.status = "waiting"
        /\ ref_count' \in [Promises -> Nat] /\ ref_count'[m] = 1
        /\ \A q \in Promises : q \notin {p, t, m} => ref_count'[q] = refs[q]
        /\ ref_count'[p] >= refs[p] + 2 /\ ref_count'[t] >= refs[t] + 2
    BY <1>6, <1>10 DEF Composed
<1>12. /\ UNCHANGED <<freed, reactions, co>> /\ work' = <<>> \o work
       /\ handle' = [handle EXCEPT ![m] = "held", ![t] = "lost"]
       /\ op' = [op EXCEPT ![t] = "timeout"]
    BY DEF with_timeout, Call
<1>13. /\ handle'[m] = "held" /\ op'[t] = "timeout" /\ handle[t] = "none"
       /\ \A q \in Promises : (q \notin {m, t} => handle'[q] = handle[q]) /\ (q # t => op'[q] = op[q])
    BY <1>1, <1>2, <1>3, <1>12, NewPromise DEF Typed
<1>14. HeldStay
    BY <1>13 DEF HeldStay
<1>15. Rest_kept(new, p, t)
    BY <1>2, <1>3, <1>11, <1>12, <1>13, <1>14, ComposeRest
<1>16. /\ Secured' /\ Guarding' /\ Counts'
       /\ \A q \in Promises :
            /\ StackGains(q, 0) /\ AwaitersGain(q, 0) /\ ListsGain(q, 0)
            /\ \E k : k = Joined(new, p, t, q) /\ CombinersGain(q, k)
    BY <1>15 DEF Rest_kept
<1>17. ASSUME NEW q \in Promises
       PROVE  Balanced(q) /\ (ref_count'[q] # ref_count[q] => q \notin freed /\ state'[q] # "unborn")
  <2>1. PICK k : k = Joined(new, p, t, q) /\ CombinersGain(q, k)
      BY <1>16
  <2>2. k \in {0, 1} /\ ref_count[q] \in Nat
      BY <1>1, <2>1, OneIs, QuietGains DEF Joined
  <2>3. CASE q = m
    <3>1. k = 0 /\ ref_count[q] = 0 /\ q \notin freed /\ handle[q] = "none" /\ OpGains(q, 0)
        BY <1>1, <1>3, <1>4, <1>13, <2>1, <2>3, NewPromise, QuietGains, OneIs DEF Joined
    <3>2. HandleGains(q, 1)
        BY <1>13, <2>3, <3>1 DEF HandleGains, One
    <3>3. Gains(q, 0, 0, 0, 0, 1, 0)
        BY <1>16, <2>1, <3>1, <3>2 DEF Gains
    <3>4. ref_count'[q] >= ref_count[q] + 0 + 0 + 0 + 0 + 1 + 0
        BY <1>11, <2>3, <3>1
    <3>5. state'[q] # "unborn"
        BY <1>3, <1>6, <1>11, <2>3 DEF Found, Settled
    <3> QED
        BY <3>1, <3>3, <3>4, <3>5, BalancedBy, Numbers
  <2>4. CASE q = t
    <3>1. ref_count[q] = 0 /\ q \notin freed /\ handle[q] = "none" /\ op[q] = "none"
        BY <1>1, <1>2, <2>4, NewPromise
    <3>2. HandleGains(q, 1) /\ OpGains(q, 1)
      <4>1. One(handle[q] # "none") = 0 /\ One(op[q] # "none") = 0
          BY <3>1, OneIs
      <4>2. One(handle'[q] # "none") \in {0, 1} /\ One(op'[q] # "none") \in {0, 1}
          BY OneIs
      <4> QED
          BY <4>1, <4>2 DEF HandleGains, OpGains
    <3>3. Gains(q, 0, k, 0, 0, 1, 1)
        BY <1>16, <2>1, <3>2 DEF Gains
    <3>4. ref_count'[q] >= ref_count[q] + 0 + k + 0 + 0 + 1 + 1 /\ k \in Int
        BY <1>8, <1>11, <2>2, <2>4, <3>1
    <3>5. state'[q] # "unborn"
        BY <1>2, <1>3, <1>6, <1>11, <2>4
    <3> QED
        BY <3>1, <3>3, <3>4, <3>5, BalancedBy, Numbers
  <2>5. CASE q \notin {m, t}
    <3>1. HandleGains(q, 0) /\ OpGains(q, 0)
        BY <1>1, <1>13, <2>5, QuietGains
    <3>2. Gains(q, 0, k, 0, 0, 0, 0)
        BY <1>16, <2>1, <3>1 DEF Gains
    <3>3. ref_count'[q] >= ref_count[q] + k /\ (ref_count'[q] # ref_count[q] => q = p)
      <4>1. CASE q = p
          BY <1>8, <1>11, <2>2, <2>5, <4>1
      <4>2. CASE q # p
        <5>1. k = 0
            BY <2>1, <2>5, <4>2, OneIs DEF Joined
        <5> QED
            BY <1>8, <1>11, <2>2, <2>5, <4>2, <5>1
      <4> QED
          BY <4>1, <4>2
    <3>4. ref_count'[q] >= ref_count[q] + 0 + k + 0 + 0 + 0 + 0 /\ k \in Int
        BY <2>2, <3>3
    <3>5. q = p => q \notin freed /\ state'[q] # "unborn"
        BY <1>1, <1>4, Alive DEF Owners, Grown
    <3> QED
        BY <3>2, <3>3, <3>4, <3>5, BalancedBy, Numbers
  <2> QED
      BY <2>3, <2>4, <2>5
<1>18. Owners'
    BY <1>1, <1>11, <1>12, <1>17, OwnersStep
<1> QED
    BY <1>16, <1>18 DEF Keeping

----------------------------------------------------------------------------
(***************************************************************************)
(* Coroutines.                                                             *)
(***************************************************************************)
LEMMA OthersStay ==
    ASSUME Inv, NEW what \in {"run", "finish"}, Doing(what), NEW rest, rest = Tail(work),
           \A d \in Coroutines : d # Now.c => co'[d] = co[d]
    PROVE  Leaves(rest) /\ ContextsStay(rest) /\ rest # work
<1>1. PICK x \in SoundItems :
        /\ x = Now
        /\ \A j \in DOMAIN Tail(work) : Tail(work)[j].do \in {"run", "finish"} => Tail(work)[j].c # x.c
    BY Runner
<1>2. work # <<>>
    BY TopIs
<1>3. \A j \in DOMAIN rest : rest[j] \in WorkItems
    BY <1>2, WorkTyped
<1>4. \A j \in DOMAIN rest : rest[j].do \in {"run", "finish"} => rest[j].c \in Coroutines
    BY <1>3, ItemFields
<1>5. ContextsStay(rest)
    BY <1>1, <1>4 DEF ContextsStay
<1>6. rest # work
  <2>1. PICK k \in Nat : k = Len(work) /\ Len(Tail(work)) = k - 1
      BY <1>2, WorkTyped
  <2> QED
      BY <2>1
<1> QED
    BY <1>2, <1>5, <1>6 DEF Leaves

\* The coroutine that runs lets go of what it waited for, or a release does.
LEMMA AwaitersMove ==
    ASSUME Inv, Owners, NEW c \in Coroutines, NEW y \in Promises, NEW q,
           \A d \in Coroutines : d # c => co'[d] = co[d],
           co'[c].waiting = q, NEW given, given => co[c].waiting = y
    PROVE  \E x, z : x = One(given) /\ z = One(y = q) /\ AwaitersGain(y, z - x)
<1>1. PICK x, z : x = One(given) /\ z = One(y = q)
    OBVIOUS
<1>2. IsFiniteSet(Awaiters(y))
    BY OwnedNumbers DEF Owners
<1>3. \A d \in Coroutines : d # c => (d \in Awaiters(y)' <=> d \in Awaiters(y))
    BY DEF Awaiters
<1>4. c \in Awaiters(y)' <=> y = q
    BY DEF Awaiters
<1>5. Awaiters(y)' \subseteq Coroutines
    BY DEF Awaiters
<1>6. CASE given /\ y = q
  <2>1. Awaiters(y)' \subseteq Awaiters(y) /\ x = 1 /\ z = 1
      BY <1>1, <1>3, <1>5, <1>6, OneIs DEF Awaiters
  <2>2. /\ IsFiniteSet(Awaiters(y)') /\ Cardinality(Awaiters(y)) \in Nat /\ Cardinality(Awaiters(y)') \in Nat
        /\ Cardinality(Awaiters(y)') <= Cardinality(Awaiters(y))
      BY <1>2, <2>1, FewerElements
  <2>3. AwaitersGain(y, z - x)
      BY <2>1, <2>2 DEF AwaitersGain
  <2> QED
      BY <1>1, <2>3
<1>7. CASE given /\ y # q
  <2>1. Awaiters(y)' \subseteq Awaiters(y) \ {c} /\ c \in Awaiters(y) /\ x = 1 /\ z = 0
      BY <1>1, <1>3, <1>4, <1>5, <1>7, OneIs DEF Awaiters
  <2>2. /\ IsFiniteSet(Awaiters(y)') /\ Cardinality(Awaiters(y)) \in Nat /\ Cardinality(Awaiters(y)') \in Nat
        /\ Cardinality(Awaiters(y)') <= Cardinality(Awaiters(y)) - 1
      BY <1>2, <2>1, OneElementLess
  <2>3. AwaitersGain(y, z - x)
      BY <2>1, <2>2 DEF AwaitersGain
  <2> QED
      BY <1>1, <2>3
<1>8. CASE ~given /\ y = q
  <2>1. Awaiters(y)' \subseteq Awaiters(y) \cup {c} /\ x = 0 /\ z = 1
      BY <1>1, <1>3, <1>5, <1>8, OneIs
  <2>2. /\ IsFiniteSet(Awaiters(y)') /\ Cardinality(Awaiters(y)) \in Nat /\ Cardinality(Awaiters(y)') \in Nat
        /\ Cardinality(Awaiters(y)') <= Cardinality(Awaiters(y)) + 1
      BY <1>2, <2>1, OneElementMore
  <2>3. AwaitersGain(y, z - x)
      BY <2>1, <2>2 DEF AwaitersGain
  <2> QED
      BY <1>1, <2>3
<1>9. CASE ~given /\ y # q
  <2>1. Awaiters(y)' \subseteq Awaiters(y) /\ x = 0 /\ z = 0
      BY <1>1, <1>3, <1>4, <1>5, <1>9, OneIs
  <2>2. /\ IsFiniteSet(Awaiters(y)') /\ Cardinality(Awaiters(y)) \in Nat /\ Cardinality(Awaiters(y)') \in Nat
        /\ Cardinality(Awaiters(y)') <= Cardinality(Awaiters(y))
      BY <1>2, <2>1, FewerElements
  <2>3. AwaitersGain(y, z - x)
      BY <2>1, <2>2 DEF AwaitersGain
  <2> QED
      BY <1>1, <2>3
<1> QED
    BY <1>6, <1>7, <1>8, <1>9

\* The coroutine that runs waits for q from now on, or is over.
LEMMA ContextKeeping ==
    ASSUME Inv, Grown, Keeping, NEW what \in {"run", "finish"}, Doing(what),
           UNCHANGED <<freed, reactions, handle, op, combo>>,
           NEW q \in SomePromise, NEW n \in Nat, q # NoPromise => n >= 1 /\ handle[q] = "held",
           ref_count' \in [Promises -> Nat],
           \A y \in Promises : ref_count'[y] = IF y = q THEN ref_count[y] + n ELSE ref_count[y],
           \A d \in Coroutines : d # Now.c => co'[d] = co[d],
           co'[Now.c].waiting = q, co'[Now.c].result \in {NoPromise, co[Now.c].result},
           NEW items \in Seq(WorkItems), NEW rest, rest = Tail(work), work' = items \o rest,
           \A y \in Promises : Single(items, y) /\ (Some(items, y) => co[Now.c].waiting = y),
           \A i \in DOMAIN items : Secure(items[i])' /\ (Needs(items[i]) => Awaited_at_once(items, i)')
    PROVE  Keeping'
<1>1. Owners /\ Secured /\ Guarding /\ Counts
    BY DEF Keeping
<1>2. work # <<>> /\ Now \in WorkItems /\ Now.do = what
    BY TopIs
<1>3. PICK c \in Coroutines : c = Now.c
    BY <1>2, ItemFields
<1>4. QuietCombiners /\ Counts'
    BY <1>1 DEF QuietCombiners, Counts
<1>5. Leaves(rest) /\ ContextsStay(rest) /\ rest # work
    BY OthersStay
<1>6. ASSUME NEW y \in Promises
      PROVE  Balanced(y) /\ (ref_count'[y] # ref_count[y] => y \notin freed /\ state'[y] # "unborn")
  <2>1. PICK given : given = Some(items, y)
      OBVIOUS
  <2>2. PICK x, z : x = One(given) /\ z = One(y = q) /\ AwaitersGain(y, z - x)
      BY <1>1, <1>3, <2>1, AwaitersMove
  <2>3. x \in {0, 1} /\ z \in {0, 1} /\ ref_count[y] \in Nat
      BY <1>1, <2>2, OneIs, QuietGains
  <2>4. x = One(Some(items, y)) /\ One(Gives(Now, y)) = 0
      BY <1>2, <2>1, <2>2, OneIs DEF Gives
  <2>5. StackGains(y, x - 0)
      BY <1>2, <2>4, StackPop
  <2>6. Gains(y, x - 0, 0, z - x, 0, 0, 0)
      BY <1>1, <1>4, <2>2, <2>5, QuietGains DEF Gains
  <2>7. ref_count'[y] >= ref_count[y] + z
    <3>1. CASE y = q
      <4>1. z = 1 /\ n >= 1
          BY <2>2, <3>1, PromiseAssumption, OneIs
      <4> QED
          BY <2>3, <3>1, <4>1
    <3>2. CASE y # q
      <4>1. z = 0
          BY <2>2, <3>2, OneIs
      <4> QED
          BY <2>3, <3>2, <4>1
    <3> QED
        BY <3>1, <3>2
  <2>8. ref_count'[y] >= ref_count[y] + (x - 0) + 0 + (z - x) + 0 + 0 + 0 /\ x - 0 \in Int /\ z - x \in Int
      BY <2>3, <2>7
  <2>9. y = q => y \notin freed /\ state'[y] # "unborn"
    <3> SUFFICES ASSUME y = q PROVE y \notin freed /\ state'[y] # "unborn"
        OBVIOUS
    <3>1. handle[y] = "held"
        BY PromiseAssumption
    <3> QED
        BY <1>1, <3>1, Alive DEF Owners, Grown
  <2> QED
      BY <2>6, <2>8, <2>9, BalancedBy, Numbers
<1>7. Owners'
    BY <1>1, <1>6, OwnersStep
<1>8. Secured'
  <2>1. HeldStay
      BY DEF HeldStay
  <2>2. /\ \A m \in Promises : combo'[m].status = "waiting" => combo[m].status = "waiting"
        /\ \A d \in Coroutines : co'[d].result \in {NoPromise, co[d].result}
      BY <1>3
  <2> QED
      BY <1>1, <1>2, <1>5, <2>1, <2>2, SecuredStep
<1>9. Guarding'
  <2>1. Now.do # "release" /\ (rest = work => Now.do # "notify")
      BY <1>2
  <2> QED
      BY <1>1, <1>5, <2>1, GuardingStep
<1> QED
    BY <1>4, <1>7, <1>8, <1>9 DEF Keeping

LEMMA CoroutineFreeKeeping ==
    ASSUME Inv, Grown, Keeping, coroutine_free
    PROVE  Keeping'
<1>1. Doing("finish")
    BY DEF coroutine_free
<1>2. work # <<>> /\ Now \in WorkItems /\ Now.do = "finish"
    BY <1>1, TopIs
<1>3. PICK c, q, rest : c = Now.c /\ q = co[c].waiting /\ rest = Tail(work)
    OBVIOUS
<1>4. c \in Coroutines /\ q \in SomePromise /\ co \in [Coroutines -> Contexts]
  <2>1. c \in Coroutines
      BY <1>2, <1>3, ItemFields
  <2> QED
      BY <1>3, <2>1 DEF Inv, Typed, Contexts
<1>5. /\ UNCHANGED <<freed, ref_count, reactions, handle, op, combo>>
      /\ co' = [co EXCEPT ![c] = [NoContext EXCEPT !.status = "done"]]
      /\ \/ work' = <<>> \o Tail(work)
         \/ q # NoPromise /\ work' = <<Release(q)>> \o Tail(work)
    BY <1>3 DEF coroutine_free, owners, memory, Next_do
<1>6. co'[c].waiting = NoPromise /\ co'[c].result = NoPromise /\ \A d \in Coroutines : d # c => co'[d] = co[d]
    BY <1>4, <1>5 DEF NoContext
<1>7. /\ ref_count' \in [Promises -> Nat]
      /\ \A y \in Promises : ref_count'[y] = IF y = NoPromise THEN ref_count[y] + 0 ELSE ref_count[y]
  <2>1. \A y \in Promises : y # NoPromise
      BY PromiseAssumption
  <2> QED
      BY <1>5, <2>1 DEF Keeping, Owners
<1>8. PICK items \in Seq(WorkItems) :
        /\ work' = items \o rest
        /\ \A y \in Promises : Single(items, y) /\ (Some(items, y) => co[Now.c].waiting = y)
        /\ \A i \in DOMAIN items : items[i].do = "release"
  <2>1. CASE work' = <<>> \o Tail(work)
    <3>1. PICK items : items = <<>>
        OBVIOUS
    <3> QED
        BY <1>3, <2>1, <3>1, NoItems
  <2>2. CASE q # NoPromise /\ work' = <<Release(q)>> \o Tail(work)
    <3>1. q \in Promises /\ Release(q) \in WorkItems
        BY <1>4, <2>2, ItemKinds DEF SomePromise
    <3>2. PICK items : items = <<Release(q)>>
        OBVIOUS
    <3>3. items \in Seq(WorkItems) /\ DOMAIN items = {1} /\ items[1] = Release(q)
        BY <3>1, <3>2
    <3>4. ASSUME NEW y \in Promises PROVE Single(items, y) /\ (Some(items, y) => co[Now.c].waiting = y)
      <4>1. Gives(Release(q), y) => q = y
          BY GivenBy
      <4>2. Single(items, y) /\ (Some(items, y) => q = y)
          BY <3>1, <3>2, <4>1, OneItem
      <4> QED
          BY <1>3, <4>2
    <3>5. \A i \in DOMAIN items : items[i].do = "release"
        BY <3>3 DEF Release
    <3> QED
        BY <1>3, <2>2, <3>2, <3>3, <3>4, <3>5
  <2> QED
      BY <1>5, <2>1, <2>2
<1>9. \A i \in DOMAIN items : Secure(items[i])' /\ (Needs(items[i]) => Awaited_at_once(items, i)')
    BY <1>8 DEF Secure, Needs
<1>10. NoPromise \in SomePromise /\ 0 \in Nat
    BY DEF SomePromise
<1>11. /\ \A d \in Coroutines : d # Now.c => co'[d] = co[d]
       /\ co'[Now.c].waiting = NoPromise /\ co'[Now.c].result \in {NoPromise, co[Now.c].result}
    BY <1>3, <1>6
<1> QED
    BY <1>1, <1>3, <1>5, <1>7, <1>8, <1>9, <1>10, <1>11, ContextKeeping

\* Two things to be done, one after the other.
LEMMA PairOf ==
    ASSUME NEW x \in WorkItems, NEW y \in WorkItems
    PROVE  <<x>> \o <<y>> = <<x, y>>
<1>1. /\ <<x>> \in Seq(WorkItems) /\ <<y>> \in Seq(WorkItems) /\ <<x, y>> \in Seq(WorkItems)
      /\ Len(<<x>>) = 1 /\ Len(<<y>>) = 1 /\ Len(<<x, y>>) = 2
      /\ <<x>>[1] = x /\ <<y>>[1] = y /\ <<x, y>>[1] = x /\ <<x, y>>[2] = y
  <2>1. <<x>> \in Seq(WorkItems) /\ Len(<<x>>) = 1 /\ <<x>>[1] = x
      OBVIOUS
  <2>2. <<y>> \in Seq(WorkItems) /\ Len(<<y>>) = 1 /\ <<y>>[1] = y
      OBVIOUS
  <2>3. <<x, y>> \in Seq(WorkItems) /\ Len(<<x, y>>) = 2 /\ <<x, y>>[1] = x /\ <<x, y>>[2] = y
      OBVIOUS
  <2> QED
      BY <2>1, <2>2, <2>3
<1>2. PICK s \in Seq(WorkItems), t \in Seq(WorkItems), u \in Seq(WorkItems) :
        s = <<x>> /\ t = <<y>> /\ u = <<x, y>>
    BY <1>1
<1>3. s \o t \in Seq(WorkItems)
    OBVIOUS
<1>4. PICK v \in Seq(WorkItems) : v = s \o t
    BY <1>3
<1>5. Len(v) = 2 /\ v[1] = x /\ v[2] = y
    BY <1>1, <1>2, <1>4
<1>6. v = u
    BY <1>1, <1>2, <1>5
<1> QED
    BY <1>2, <1>4, <1>6

LEMMA AwaitKeeping ==
    ASSUME Inv, Grown, Keeping, await
    PROVE  Keeping'
<1>1. Doing("run")
    BY DEF await
<1>2. work # <<>> /\ Now \in WorkItems /\ Now.do = "run"
    BY <1>1, TopIs
<1>3. PICK c, old, rest : c = Now.c /\ old = co[c].waiting /\ rest = Tail(work)
    OBVIOUS
<1>4. c \in Coroutines /\ old \in SomePromise /\ co \in [Coroutines -> Contexts]
  <2>1. c \in Coroutines
      BY <1>2, <1>3, ItemFields
  <2> QED
      BY <1>3, <2>1 DEF Inv, Typed, Contexts
<1>5. PICK q \in Promises :
        /\ handle[q] = "held"
        /\ ref_count' = [ref_count EXCEPT ![q] = @ + 1]
        /\ co' = [co EXCEPT ![c].status = "suspended", ![c].waiting = q]
        /\ work' = ((IF old = NoPromise THEN <<>> ELSE <<Release(old)>>)
                    \o (IF state[q] \in Settled THEN <<Notify(q)>> ELSE <<>>)) \o Tail(work)
    BY <1>3 DEF await, Awaited, Await_settled, Next_do
<1>6. UNCHANGED <<freed, reactions, handle, op, combo>>
    BY DEF await, owners
<1>7. co'[c].waiting = q /\ co'[c].result = co[c].result /\ \A d \in Coroutines : d # c => co'[d] = co[d]
    BY <1>4, <1>5 DEF Contexts
<1>8. /\ ref_count' \in [Promises -> Nat]
      /\ \A y \in Promises : ref_count'[y] = IF y = q THEN ref_count[y] + 1 ELSE ref_count[y]
    BY <1>5 DEF Keeping, Owners
<1>9. Release(old).do = "release" /\ (old # NoPromise => Release(old) \in WorkItems /\ old \in Promises)
    BY <1>4, ItemKinds DEF Release, SomePromise
<1>10. Notify(q).do = "notify" /\ Notify(q) \in WorkItems /\ Notify(q).p = q
    BY <1>5, ItemKinds DEF Notify
<1>11. c \in Awaiters(q)'
    BY <1>4, <1>7 DEF Awaiters
<1>12. PICK items \in Seq(WorkItems) :
        /\ work' = items \o rest
        /\ \A y \in Promises : Single(items, y) /\ (Some(items, y) => old = y)
        /\ \A i \in DOMAIN items : \/ items[i].do = "release"
                                   \/ /\ items[i] = Notify(q)
                                      /\ \A j \in DOMAIN items : j < i => items[j].do = "release"
  <2>1. ASSUME NEW y \in Promises
        PROVE  ~Gives(Notify(q), y) /\ (Gives(Release(old), y) <=> old = y)
      BY GivenBy
  <2>2. CASE old = NoPromise /\ state[q] \notin Settled
    <3>1. PICK items : items = <<>>
        OBVIOUS
    <3>2. work' = items \o rest
        BY <1>3, <1>5, <2>2, <3>1
    <3> QED
        BY <3>1, <3>2, NoItems
  <2>3. CASE old = NoPromise /\ state[q] \in Settled
    <3>1. PICK items : items = <<Notify(q)>>
        OBVIOUS
    <3>2. work' = items \o rest
        BY <1>3, <1>5, <1>10, <2>3, <3>1
    <3>3. items \in Seq(WorkItems) /\ DOMAIN items = {1} /\ items[1] = Notify(q)
        BY <1>10, <3>1
    <3>4. \A y \in Promises : Single(items, y) /\ ~Some(items, y)
        BY <1>10, <2>1, <3>1, OneItem
    <3>5. \A i \in DOMAIN items : items[i] = Notify(q) /\ \A j \in DOMAIN items : ~ (j < i)
        BY <3>3
    <3> QED
        BY <3>2, <3>3, <3>4, <3>5
  <2>4. CASE old # NoPromise /\ state[q] \notin Settled
    <3>1. PICK items : items = <<Release(old)>>
        OBVIOUS
    <3>2. work' = items \o rest
        BY <1>3, <1>5, <1>9, <2>4, <3>1
    <3>3. items \in Seq(WorkItems) /\ DOMAIN items = {1} /\ items[1] = Release(old)
        BY <1>9, <2>4, <3>1
    <3>4. \A y \in Promises : Single(items, y) /\ (Some(items, y) => old = y)
        BY <1>9, <2>1, <2>4, <3>1, OneItem
    <3>5. \A i \in DOMAIN items : items[i].do = "release"
        BY <1>9, <3>3
    <3> QED
        BY <3>2, <3>3, <3>4, <3>5
  <2>5. CASE old # NoPromise /\ state[q] \in Settled
    <3>1. PICK items : items = <<Release(old), Notify(q)>>
        OBVIOUS
    <3>2. work' = items \o rest
      <4>1. PICK x \in WorkItems, y \in WorkItems : x = Release(old) /\ y = Notify(q)
          BY <1>9, <1>10, <2>5
      <4>2. <<x>> \o <<y>> = <<x, y>>
          BY PairOf
      <4>3. work' = (<<x>> \o <<y>>) \o Tail(work)
          BY <1>5, <2>5, <4>1
      <4> QED
          BY <1>3, <3>1, <4>1, <4>2, <4>3
    <3>3. items \in Seq(WorkItems) /\ DOMAIN items = {1, 2} /\ items[1] = Release(old) /\ items[2] = Notify(q)
        BY <1>9, <1>10, <2>5, <3>1
    <3>4. ASSUME NEW y \in Promises PROVE Single(items, y) /\ (Some(items, y) => old = y)
        BY <1>9, <1>10, <2>1, <2>5, <3>1, TwoItems
    <3>5. \A i \in DOMAIN items : \/ items[i].do = "release"
                                  \/ /\ items[i] = Notify(q)
                                     /\ \A j \in DOMAIN items : j < i => items[j].do = "release"
        BY <1>9, <3>3
    <3> QED
        BY <3>2, <3>3, <3>4, <3>5
  <2> QED
      BY <2>2, <2>3, <2>4, <2>5
<1>13. \A i \in DOMAIN items : Secure(items[i])' /\ (Needs(items[i]) => Awaited_at_once(items, i)')
  <2> SUFFICES ASSUME NEW i \in DOMAIN items
               PROVE  Secure(items[i])' /\ (Needs(items[i]) => Awaited_at_once(items, i)')
      OBVIOUS
  <2>1. items[i].do \in {"release", "notify"}
      BY <1>10, <1>12
  <2>2. Needs(items[i]) => items[i].do = "notify" /\ items[i].p = q /\ \A j \in DOMAIN items : j < i => items[j].do = "release"
      BY <1>10, <1>12 DEF Needs
  <2>3. Awaiters(q)' # {}
      BY <1>11
  <2>4. Needs(items[i]) => Awaited_at_once(items, i)'
      BY <2>2, <2>3 DEF Awaited_at_once, Awaiters
  <2> QED
      BY <2>1, <2>4 DEF Secure
<1>14. q \in SomePromise /\ 1 \in Nat /\ 1 >= 1
    BY <1>5 DEF SomePromise
<1>15. /\ \A d \in Coroutines : d # Now.c => co'[d] = co[d]
       /\ co'[Now.c].waiting = q /\ co'[Now.c].result \in {NoPromise, co[Now.c].result}
       /\ \A y \in Promises : Single(items, y) /\ (Some(items, y) => co[Now.c].waiting = y)
    BY <1>3, <1>7, <1>12
<1> QED
    BY <1>1, <1>3, <1>5, <1>6, <1>8, <1>12, <1>13, <1>14, <1>15, ContextKeeping

\* A step that changes nothing the counts are of.
LEMMA KeepingStutter ==
    ASSUME Inv, Grown, Keeping, UNCHANGED <<work, reactions, handle, op, ref_count, freed, co, combo>>
    PROVE  Keeping'
<1>1. Owners /\ Secured /\ Guarding /\ QuietContexts /\ QuietCombiners /\ Counts'
    BY AllQuiet DEF Keeping
<1>2. PICK items, rest : items = <<>> /\ rest = work
    OBVIOUS
<1>3. /\ items \in Seq(WorkItems) /\ DOMAIN items = {} /\ AllReleases(items)
      /\ \A q : ~Some(items, q) /\ Single(items, q)
    BY <1>2, NoItems
<1>4. work' = items \o rest
    BY <1>2, WorkTyped
<1>5. QuietAwaiters /\ ContextsStay(rest) /\ Leaves(rest)
    BY <1>1, <1>2, QuietStay DEF Leaves
<1>6. \A p \in Promises : StackGains(p, 0)
    BY <1>2, <1>3, <1>4, StackPushes
<1>7. Owners'
    BY <1>1, <1>5, <1>6, OwnersStack
<1>8. Secured'
  <2>1. HeldStay
      BY DEF HeldStay
  <2>2. /\ \A m \in Promises : combo'[m].status = "waiting" => combo[m].status = "waiting"
        /\ \A c \in Coroutines : co'[c].result \in {NoPromise, co[c].result}
      OBVIOUS
  <2> QED
      BY <1>1, <1>2, <1>3, <1>4, <1>5, <2>1, <2>2, SecuredStep
<1>9. Guarding'
    BY <1>1, <1>3, <1>4, <1>5, GuardingStep
<1> QED
    BY <1>1, <1>7, <1>8, <1>9 DEF Keeping

LEMMA WaitKeeping ==
    ASSUME Inv, Grown, Keeping, wait
    PROVE  Keeping'
<1>1. Doing("run") /\ UNCHANGED <<state, freed, reactions, handle, op, combo>>
    BY DEF wait, owners
<1>2. work # <<>> /\ Now \in WorkItems /\ Now.do = "run"
    BY <1>1, TopIs
<1>3. PICK c, rest, n : c = Now.c /\ rest = Tail(work) /\ n = IF Now.p = NoPromise THEN 2 ELSE 1
    OBVIOUS
<1>4. c \in Coroutines /\ co \in [Coroutines -> Contexts]
  <2>1. c \in Coroutines
      BY <1>2, <1>3, ItemFields
  <2> QED
      BY <2>1 DEF Inv, Typed
<1>5. PICK q \in Promises :
        /\ handle[q] = "held"
        /\ \/ UNCHANGED <<ref_count, co, work>>
           \/ /\ ref_count' = [ref_count EXCEPT ![q] = @ + n]
              /\ co' = [co EXCEPT ![c].status = "suspended", ![c].waiting = q]
              /\ work' = <<>> \o Tail(work)
    BY <1>3 DEF wait, Next_do
<1>6. CASE UNCHANGED <<ref_count, co, work>>
    BY <1>1, <1>6, KeepingStutter
<1>7. CASE /\ ref_count' = [ref_count EXCEPT ![q] = @ + n]
           /\ co' = [co EXCEPT ![c].status = "suspended", ![c].waiting = q]
           /\ work' = <<>> \o Tail(work)
  <2>1. co'[c].waiting = q /\ co'[c].result = co[c].result /\ \A d \in Coroutines : d # c => co'[d] = co[d]
      BY <1>4, <1>7 DEF Contexts
  <2>2. n \in Nat /\ n >= 1
      BY <1>3
  <2>3. /\ ref_count' \in [Promises -> Nat]
        /\ \A y \in Promises : ref_count'[y] = IF y = q THEN ref_count[y] + n ELSE ref_count[y]
      BY <1>5, <1>7, <2>2 DEF Keeping, Owners
  <2>4. PICK items : items = <<>>
      OBVIOUS
  <2>5. /\ items \in Seq(WorkItems) /\ DOMAIN items = {} /\ work' = items \o rest
      BY <1>3, <1>7, <2>4, NoItems
  <2>8. /\ \A y \in Promises : Single(items, y) /\ (Some(items, y) => co[Now.c].waiting = y)
        /\ \A i \in DOMAIN items : Secure(items[i])' /\ (Needs(items[i]) => Awaited_at_once(items, i)')
      BY <2>4, <2>5, NoItems
  <2>6. q \in SomePromise /\ (q # NoPromise => n >= 1 /\ handle[q] = "held")
      BY <1>5, <2>2 DEF SomePromise
  <2>7. /\ \A d \in Coroutines : d # Now.c => co'[d] = co[d]
        /\ co'[Now.c].waiting = q /\ co'[Now.c].result \in {NoPromise, co[Now.c].result}
      BY <1>3, <2>1
  <2> QED
      BY <1>1, <1>3, <2>2, <2>3, <2>5, <2>6, <2>7, <2>8, ContextKeeping
<1> QED
    BY <1>5, <1>6, <1>7

----------------------------------------------------------------------------
(***************************************************************************)
(* New promises.                                                           *)
(***************************************************************************)
LEMMA BirthKeeping ==
    ASSUME Inv, Grown, Keeping, InLua, NEW p \in Promises, state[p] = "unborn", state'[p] # "unborn",
           UNCHANGED <<freed, combo>>, NEW n \in Nat, ref_count' = [ref_count EXCEPT ![p] = n],
           \A q \in Promises : q # p => handle'[q] = handle[q] /\ op'[q] = op[q] /\ ListsGain(q, 0),
           \A c \in Coroutines : co'[c].waiting \in {NoPromise, co[c].waiting}, ContextsStay(work),
           NEW items \in Seq(WorkItems), work' = items \o work,
           \A q \in Promises : q # p => ~Some(items, q),
           NEW s \in Int, NEW l \in Int, NEW h \in Int, NEW o \in Int,
           StackGains(p, s), ListsGain(p, l), HandleGains(p, h), OpGains(p, o), s + l + h + o <= n,
           \A i \in DOMAIN items : Secure(items[i])',
           \A c \in Coroutines : \/ co'[c].result \in {NoPromise, co[c].result}
                                 \/ Returned(items, co'[c].result),
           \A i \in DOMAIN items : Needs(items[i]) =>
                \E j \in DOMAIN items : i < j /\ Guards(items[j], items[i].p)'
    PROVE  Keeping'
<1>1. Owners /\ Secured /\ Guarding /\ Counts
    BY DEF Keeping
<1>2. QuietCombiners /\ Counts'
    BY <1>1 DEF QuietCombiners, Counts
<1>3. p \notin freed /\ ref_count[p] = 0 /\ handle[p] = "none"
    BY <1>1, NewPromise
<1>4. /\ ref_count' \in [Promises -> Nat] /\ ref_count'[p] = n
      /\ \A q \in Promises : q # p => ref_count'[q] = ref_count[q]
    BY <1>1 DEF Owners
<1>5. ASSUME NEW q \in Promises
      PROVE  Balanced(q) /\ (ref_count'[q] # ref_count[q] => q \notin freed /\ state'[q] # "unborn")
  <2>1. AwaitersGain(q, 0)
    <3>1. Awaiters(q)' \subseteq Awaiters(q)
        BY PromiseAssumption DEF Awaiters
    <3>2. IsFiniteSet(Awaiters(q))
        BY <1>1, OwnedNumbers DEF Owners
    <3>3. /\ IsFiniteSet(Awaiters(q)') /\ Cardinality(Awaiters(q)) \in Nat /\ Cardinality(Awaiters(q)') \in Nat
          /\ Cardinality(Awaiters(q)') <= Cardinality(Awaiters(q))
        BY <3>1, <3>2, FewerElements
    <3> QED
        BY <3>3 DEF AwaitersGain
  <2>2. CombinersGain(q, 0) /\ ref_count[q] \in Nat
      BY <1>1, <1>2, QuietGains
  <2>3. CASE q = p
    <3>1. Gains(q, s, 0, 0, l, h, o)
        BY <2>1, <2>2, <2>3 DEF Gains
    <3>2. ref_count'[q] >= ref_count[q] + s + 0 + 0 + l + h + o
        BY <1>3, <1>4, <2>3
    <3> QED
        BY <1>3, <2>3, <3>1, <3>2, BalancedBy, Numbers
  <2>4. CASE q # p
    <3>1. StackGains(q, 0)
        BY <2>4, StackPushes
    <3>2. HandleGains(q, 0) /\ OpGains(q, 0)
        BY <1>1, <2>4, QuietGains
    <3>3. Gains(q, 0, 0, 0, 0, 0, 0)
        BY <2>1, <2>2, <2>4, <3>1, <3>2 DEF Gains
    <3>4. ref_count'[q] >= ref_count[q] + 0 + 0 + 0 + 0 + 0 + 0
        BY <1>4, <2>2, <2>4
    <3> QED
        BY <1>4, <2>4, <3>3, <3>4, BalancedBy, Numbers
  <2> QED
      BY <2>3, <2>4
<1>6. Owners'
    BY <1>1, <1>4, <1>5, OwnersStep
<1>7. Leaves(work)
    BY DEF Leaves
<1>8. Secured'
  <2>1. HeldStay
      BY <1>3 DEF HeldStay
  <2>2. \A m \in Promises : combo'[m].status = "waiting" => combo[m].status = "waiting"
      OBVIOUS
  <2> QED
      BY <1>1, <1>7, <2>1, <2>2, SecuredStep
<1>9. Guarding'
  <2>1. work = <<>> \/ (Now.do # "release" /\ Now.do # "notify")
      BY LuaRuns
  <2> QED
      BY <1>1, <1>7, <2>1, GuardingStep
<1> QED
    BY <1>2, <1>6, <1>8, <1>9 DEF Keeping

LEMMA SpawnKeeping ==
    ASSUME Inv, Grown, Keeping, InLua, NEW p \in Fresh({}), spawn(p)
    PROVE  Keeping'
<1>1. Typed /\ Births /\ Owners
    BY DEF Inv, Keeping
<1>2. p \in Promises /\ state[p] = "unborn"
    BY <1>1, FreshUnborn
<1>3. /\ UNCHANGED <<freed, reactions, combo, co>> /\ state' = [state EXCEPT ![p] = "pending"]
      /\ ref_count' = [ref_count EXCEPT ![p] = 2]
      /\ handle' = [handle EXCEPT ![p] = "held"] /\ op' = [op EXCEPT ![p] = "operation"]
      /\ work' = <<>> \o work
    BY DEF spawn, Born, Call
<1>4. /\ state'[p] # "unborn"
      /\ \A q \in Promises : q # p => handle'[q] = handle[q] /\ op'[q] = op[q] /\ ListsGain(q, 0)
  <2>1. state'[p] # "unborn" /\ \A q \in Promises : q # p => handle'[q] = handle[q] /\ op'[q] = op[q]
      BY <1>1, <1>2, <1>3 DEF Typed
  <2>2. \A q \in Promises : ListsGain(q, 0)
      BY <1>1, <1>3, QuietGains
  <2> QED
      BY <2>1, <2>2
<1>5. PICK items : items = <<>>
    OBVIOUS
<1>6. /\ items \in Seq(WorkItems) /\ DOMAIN items = {} /\ work' = items \o work
      /\ \A q : ~Some(items, q)
    BY <1>3, <1>5, NoItems
<1>7. /\ \A c \in Coroutines : co'[c].waiting \in {NoPromise, co[c].waiting}
      /\ \A c \in Coroutines : co'[c].result \in {NoPromise, co[c].result} \/ Returned(items, co'[c].result)
      /\ ContextsStay(work)
    BY <1>3 DEF ContextsStay
<1>8. StackGains(p, 0) /\ ListsGain(p, 0)
    BY <1>1, <1>2, <1>3, <1>6, StackPushes, QuietGains
<1>9. HandleGains(p, 1) /\ OpGains(p, 1)
  <2>1. handle[p] = "none" /\ op[p] = "none"
      BY <1>1, <1>2, NewPromise
  <2>2. One(handle[p] # "none") = 0 /\ One(op[p] # "none") = 0
      BY <2>1, OneIs
  <2>3. One(handle'[p] # "none") \in {0, 1} /\ One(op'[p] # "none") \in {0, 1}
      BY OneIs
  <2> QED
      BY <2>2, <2>3 DEF HandleGains, OpGains
<1>10. /\ \A i \in DOMAIN items : Secure(items[i])'
       /\ \A i \in DOMAIN items : Needs(items[i]) => \E j \in DOMAIN items : i < j /\ Guards(items[j], items[i].p)'
    BY <1>6
<1>11. 2 \in Nat /\ 0 + 0 + 1 + 1 <= 2
    OBVIOUS
<1> QED
    BY <1>2, <1>3, <1>4, <1>6, <1>7, <1>8, <1>9, <1>10, <1>11, Numbers, BirthKeeping

\* A promise whose userdata is made when the call returns.
LEMMA ReturnedKeeping ==
    ASSUME Inv, Grown, Keeping, InLua, NEW p \in Fresh({}), Born(p),
           UNCHANGED <<freed, reactions, handle, op, combo>>, ref_count' = [ref_count EXCEPT ![p] = 1],
           \A c \in Coroutines : co'[c].waiting \in {NoPromise, co[c].waiting}, ContextsStay(work),
           NEW x \in WorkItems, \A q : ~Gives(x, q), Needs(x) => x.p = p, Secure(x)',
           NEW items, items = <<x, Return(NoPromise, p)>>, work' = items \o work,
           \A c \in Coroutines : co'[c].result \in {NoPromise, co[c].result, p}
    PROVE  Keeping'
<1>1. Typed /\ Births /\ Owners
    BY DEF Inv, Keeping
<1>2. p \in Promises /\ state[p] = "unborn"
    BY <1>1, FreshUnborn
<1>3. state'[p] # "unborn"
    BY <1>1, <1>2 DEF Typed, Born
<1>4. Return(NoPromise, p) \in WorkItems
    BY <1>2, ItemKinds DEF SomePromise
<1>5. items \in Seq(WorkItems) /\ DOMAIN items = {1, 2} /\ items[1] = x /\ items[2] = Return(NoPromise, p)
    BY <1>4
<1>6. \A q : Single(items, q) /\ (Some(items, q) <=> q = p)
  <2> SUFFICES ASSUME NEW q PROVE Single(items, q) /\ (Some(items, q) <=> q = p)
      OBVIOUS
  <2>1. ~Gives(x, q) /\ (Gives(Return(NoPromise, p), q) <=> q = p)
      BY GivenBy
  <2> QED
      BY <1>4, <2>1, TwoItems
<1>7. StackGains(p, 1)
  <2>1. One(Some(items, p)) = 1
      BY <1>6, OneIs
  <2> QED
      BY <1>2, <1>5, <1>6, <2>1, StackPush
<1>8. /\ \A q \in Promises : ListsGain(q, 0)
      /\ HandleGains(p, 0) /\ OpGains(p, 0)
    BY <1>1, <1>2, QuietGains
<1>9. /\ items[2].do = "return" /\ items[2].p = NoPromise /\ items[2].new = p
    BY <1>5 DEF Return
<1>10. \A i \in DOMAIN items : Secure(items[i])'
    BY <1>5, <1>9 DEF Secure
<1>11. \A i \in DOMAIN items : Needs(items[i]) => \E j \in DOMAIN items : i < j /\ Guards(items[j], items[i].p)'
    BY <1>5, <1>9 DEF Needs, Guards
<1>12. Returned(items, p)
    BY <1>5, <1>9 DEF Returned
<1>13. \A c \in Coroutines : co'[c].result \in {NoPromise, co[c].result} \/ Returned(items, co'[c].result)
    BY <1>12
<1>14. 1 \in Nat /\ 1 + 0 + 0 + 0 <= 1
    OBVIOUS
<1>15. \A q \in Promises : q # p => ~Some(items, q) /\ handle'[q] = handle[q] /\ op'[q] = op[q]
    BY <1>6
<1> QED
    BY <1>2, <1>3, <1>5, <1>7, <1>8, <1>10, <1>11, <1>13, <1>14, <1>15, Numbers, BirthKeeping

LEMMA SettledKeeping ==
    ASSUME Inv, Grown, Keeping, InLua, NEW p \in Fresh({}), NEW how \in Settled, settled(p, how)
    PROVE  Keeping'
<1>1. /\ UNCHANGED <<freed, reactions, handle, op, combo, co>> /\ Born(p)
      /\ ref_count' = [ref_count EXCEPT ![p] = 1]
      /\ work' = <<Settle(p, how), Return(NoPromise, p)>> \o work
    BY DEF settled, Call, owners
<1>2. p \in Promises
    BY FreshUnborn DEF Inv
<1>3. PICK x \in WorkItems : x = Settle(p, how)
    BY <1>2, ItemKinds
<1>4. (\A q : ~Gives(x, q)) /\ x.p = p /\ Secure(x)'
    BY <1>3, GivenBy DEF Settle, Secure
<1>5. PICK items : items = <<x, Return(NoPromise, p)>>
    OBVIOUS
<1>6. /\ \A c \in Coroutines : co'[c].waiting \in {NoPromise, co[c].waiting}
      /\ \A c \in Coroutines : co'[c].result \in {NoPromise, co[c].result, p}
      /\ ContextsStay(work)
    BY <1>1 DEF ContextsStay
<1> QED
    BY <1>1, <1>3, <1>4, <1>5, <1>6, ReturnedKeeping

LEMMA RunAsyncKeeping ==
    ASSUME Inv, Grown, Keeping, InLua, NEW c \in Coroutines, NEW p \in Fresh({}), run_async(c, p)
    PROVE  Keeping'
<1>1. /\ UNCHANGED <<freed, reactions, handle, op, combo>> /\ Born(p)
      /\ ref_count' = [ref_count EXCEPT ![p] = 1] /\ co[c].status = "unused"
      /\ co' = [co EXCEPT ![c] = [status |-> "running", result |-> p, waiting |-> NoPromise]]
      /\ work' = <<Run(c, NoPromise), Return(NoPromise, p)>> \o work
    BY DEF run_async, Call, owners
<1>2. /\ co'[c].result = p /\ co'[c].waiting = NoPromise
      /\ \A d \in Coroutines : d # c => co'[d] = co[d]
    BY <1>1 DEF Inv, Typed
<1>3. PICK x \in WorkItems : x = Run(c, NoPromise)
    BY ItemKinds DEF SomePromise
<1>4. (\A q : ~Gives(x, q)) /\ ~Needs(x) /\ Secure(x)'
    BY <1>3, GivenBy DEF Run, Secure, Needs
<1>5. PICK items : items = <<x, Return(NoPromise, p)>>
    OBVIOUS
<1>6. ContextsStay(work)
  <2>1. \A j \in DOMAIN work : work[j] \in WorkItems /\ Sound(work[j])
      BY DEF Inv, Stack, SoundItems
  <2>2. ASSUME NEW j \in DOMAIN work, work[j].do \in {"run", "finish"}
        PROVE  work[j].c \in Coroutines /\ work[j].c # c
      BY <1>1, <2>1, <2>2, ItemFields DEF Sound
  <2> QED
      BY <1>2, <2>2 DEF ContextsStay
<1>7. /\ \A d \in Coroutines : co'[d].waiting \in {NoPromise, co[d].waiting}
      /\ \A d \in Coroutines : co'[d].result \in {NoPromise, co[d].result, p}
    BY <1>2
<1> QED
    BY <1>1, <1>3, <1>4, <1>5, <1>6, <1>7, ReturnedKeeping

\* The reaction has a reference to the child, in the list or on the stack, and
\* so has the call that will make its userdata.
LEMMA ChainKeeping ==
    ASSUME Inv, Grown, Keeping, InLua, NEW p \in Promises, NEW type \in Types, NEW handler \in BOOLEAN,
           NEW child \in Fresh({}), chain(p, type, handler, child)
    PROVE  Keeping'
<1>1. Typed /\ Births /\ Owners /\ Lists
    BY DEF Inv, Keeping
<1>2. child \in Promises /\ state[child] = "unborn"
    BY <1>1, FreshUnborn
<1>3. /\ UNCHANGED <<freed, handle, op, combo, co>> /\ handle[p] = "held"
      /\ ref_count' = [ref_count EXCEPT ![child] = 2] /\ state'[child] # "unborn"
    BY <1>1, <1>2 DEF chain, owners, Born, Typed
<1>4. PICK r \in Reactions : r = [type |-> type, handler |-> handler, child |-> child] /\ r.child = child
  <2>1. [type |-> type, handler |-> handler, child |-> child] \in Reactions
      BY <1>2 DEF Reactions
  <2> QED
      BY <2>1
<1>5. PICK rs, all : rs \in Seq(Reactions) /\ rs = reactions[p] /\ all = <<r>> \o rs
    BY <1>1 DEF Typed
<1>6. Return(p, child) \in WorkItems /\ React(p, r) \in WorkItems
    BY <1>2, ItemKinds DEF SomePromise
<1>7. \A q : (Gives(Return(p, child), q) <=> q = child) /\ (Gives(React(p, r), q) <=> q = child)
    BY <1>4, GivenBy
<1>8. /\ Return(p, child).do = "return" /\ Return(p, child).p = p
      /\ React(p, r).do = "react" /\ React(p, r).p = p
    BY DEF Return, React
<1>9. HandleGains(child, 0) /\ OpGains(child, 0)
    BY <1>1, <1>2, <1>3, QuietGains
<1>10. /\ \A c \in Coroutines : co'[c].waiting \in {NoPromise, co[c].waiting}
       /\ ContextsStay(work)
    BY <1>3 DEF ContextsStay
<1>11. CASE state[p] = "pending"
  <2>1. reactions' = [reactions EXCEPT ![p] = all] /\ work' = <<Return(p, child)>> \o work
      BY <1>4, <1>5, <1>11 DEF chain, Call, Settled
  <2>2. reactions'[p] = all /\ \A q \in Promises : q # p => reactions'[q] = reactions[q]
      BY <1>1, <2>1 DEF Typed
  <2>3. \A i \in DOMAIN all : all[i] = r \/ \E j \in DOMAIN rs : all[i] = rs[j]
    <3>1. PICK one \in Seq(Reactions) : one = <<r>> /\ Len(one) = 1 /\ one[1] = r
      <4>1. <<r>> \in Seq(Reactions) /\ Len(<<r>>) = 1 /\ <<r>>[1] = r
          OBVIOUS
      <4> QED
          BY <4>1
    <3>2. all = one \o rs
        BY <1>5, <3>1
    <3>3. \A i \in DOMAIN all : \/ i \in DOMAIN one /\ all[i] = one[i]
                                \/ i - Len(one) \in DOMAIN rs /\ all[i] = rs[i - Len(one)]
        BY <3>2, ElementsOf
    <3>4. DOMAIN one = {1}
        BY <3>1
    <3> QED
        BY <3>1, <3>3, <3>4
  <2>4. ASSUME NEW q \in Promises PROVE (q # child => ListsGain(q, 0)) /\ ListsGain(q, 1)
    <3>1. q # child => (Listed(q)' => Listed(q))
      <4> SUFFICES ASSUME q # child, NEW x \in Promises, NEW i \in DOMAIN reactions'[x],
                          reactions'[x][i].child = q
                   PROVE  Listed(q)
          BY DEF Listed
      <4>1. CASE x = p
          BY <1>4, <1>5, <2>2, <2>3, <4>1 DEF Listed
      <4>2. CASE x # p
          BY <2>2, <4>2 DEF Listed
      <4> QED
          BY <4>1, <4>2
    <3>2. PICK x, y : x = One(Listed(q)) /\ y = One(Listed(q)')
        OBVIOUS
    <3>3. x \in {0, 1} /\ y \in {0, 1} /\ y <= x + 1 /\ (q # child => y <= x + 0)
        BY <3>1, <3>2 DEF One
    <3> QED
        BY <3>2, <3>3 DEF ListsGain
  <2>5. PICK items : items = <<Return(p, child)>>
      OBVIOUS
  <2>6. items \in Seq(WorkItems) /\ DOMAIN items = {1} /\ items[1] = Return(p, child) /\ work' = items \o work
      BY <1>6, <2>1, <2>5
  <2>7. \A q : Single(items, q) /\ (Some(items, q) <=> q = child)
      BY <1>6, <1>7, <2>5, OneItem
  <2>8. StackGains(child, 1)
    <3>1. One(Some(items, child)) = 1
        BY <2>7, OneIs
    <3> QED
        BY <1>2, <2>6, <2>7, <3>1, StackPush
  <2>9. \A i \in DOMAIN items : Secure(items[i])' /\ ~Needs(items[i])
      BY <1>3, <1>8, <2>6 DEF Secure, Needs
  <2>10. 2 \in Nat /\ 1 + 1 + 0 + 0 <= 2
      OBVIOUS
  <2>11. \A q \in Promises : q # child =>
            ~Some(items, q) /\ handle'[q] = handle[q] /\ op'[q] = op[q] /\ ListsGain(q, 0)
      BY <1>3, <2>4, <2>7
  <2>12. ListsGain(child, 1) /\ \A c \in Coroutines : co'[c].result \in {NoPromise, co[c].result}
      BY <1>2, <1>3, <2>4
  <2> QED
      BY <1>2, <1>3, <1>9, <1>10, <2>6, <2>8, <2>9, <2>10, <2>11, <2>12, Numbers, BirthKeeping
<1>12. CASE state[p] \in Settled
  <2>1. rs = <<>>
      BY <1>1, <1>5, <1>12 DEF Lists, ListOK, Settled
  <2>2. DOMAIN all = {1} /\ all[1] = r
      BY <1>5, <2>1
  <2>3. /\ reactions' = [reactions EXCEPT ![p] = <<>>]
        /\ work' = ([i \in DOMAIN all |-> React(p, all[i])] \o <<Return(p, child)>>) \o work
      BY <1>4, <1>5, <1>12 DEF chain, Call, Settled
  <2>4. PICK x \in WorkItems, y \in WorkItems : x = React(p, r) /\ y = Return(p, child)
      BY <1>6
  <2>5. [i \in DOMAIN all |-> React(p, all[i])] = <<x>>
      BY <2>2, <2>4
  <2>6. PICK items : items = <<x, y>>
      OBVIOUS
  <2>7. /\ items \in Seq(WorkItems) /\ DOMAIN items = {1, 2} /\ items[1] = x /\ items[2] = y
        /\ work' = items \o work
    <3>1. <<x>> \o <<y>> = <<x, y>>
        BY PairOf
    <3> QED
        BY <2>3, <2>4, <2>5, <2>6, <3>1
  <2>8. UNCHANGED reactions
      BY <1>1, <1>5, <2>1, <2>3 DEF Typed
  <2>9. \A q \in Promises : ListsGain(q, 0)
      BY <1>1, <2>8, QuietGains
  <2>10. \A q : Some(items, q) => q = child
      BY <1>7, <2>4, <2>7 DEF Some
  <2>11. StackGains(child, 2)
    <3>1. PICK top, rest, under : top = <<x>> /\ under = <<y>> /\ rest = under \o work
        OBVIOUS
    <3>2. top \in Seq(WorkItems) /\ under \in Seq(WorkItems) /\ work \in Seq(WorkItems)
        BY <3>1, OneItem, WorkTyped
    <3>3. work' = top \o rest /\ rest \in Seq(WorkItems)
      <4>1. work' = (top \o under) \o work
          BY <2>3, <2>4, <2>5, <3>1
      <4>2. (top \o under) \o work = top \o (under \o work) /\ under \o work \in Seq(WorkItems)
          BY <3>2
      <4> QED
          BY <3>1, <4>1, <4>2
    <3>4. /\ Single(top, child) /\ Single(under, child)
          /\ One(Some(top, child)) = 1 /\ One(Some(under, child)) = 1
        BY <1>7, <2>4, <3>1, OneItem, OneIs
    <3>5. /\ \A i, j \in DOMAIN top : Gives(top[i], child) /\ Gives(top[j], child) => i = j
          /\ \A i, j \in DOMAIN under : Gives(under[i], child) /\ Gives(under[j], child) => i = j
          /\ One(\E i \in DOMAIN top : Gives(top[i], child)) = 1
          /\ One(\E i \in DOMAIN under : Gives(under[i], child)) = 1
        BY <3>4 DEF Single, Some
    <3>6. /\ Cardinality(Stacked(rest, child)) \in Nat
          /\ Cardinality(Stacked(rest, child)) <= Cardinality(Stacked(work, child)) + 1
      <4>1. /\ Cardinality(Stacked(under \o work, child)) \in Nat
            /\ Cardinality(Stacked(under \o work, child)) <= Cardinality(Stacked(work, child)) + 1
          BY <3>2, <3>5, StackedOn
      <4> QED
          BY <3>1, <4>1
    <3>7. /\ Cardinality(Stacked(top \o rest, child)) \in Nat
          /\ Cardinality(Stacked(top \o rest, child)) <= Cardinality(Stacked(rest, child)) + 1
        BY <3>2, <3>3, <3>5, StackedOn
    <3>8. Cardinality(Stacked(work, child)) \in Nat
        BY <3>2, StackedFinite
    <3>9. Cardinality(Stacked(top \o rest, child)) <= Cardinality(Stacked(work, child)) + 2
        BY <3>6, <3>7, <3>8
    <3> QED
        BY <3>3, <3>7, <3>9 DEF StackGains
  <2>12. \A i \in DOMAIN items : Secure(items[i])'
      BY <1>3, <1>8, <2>4, <2>7 DEF Secure
  <2>13. \A i \in DOMAIN items : Needs(items[i]) => \E j \in DOMAIN items : i < j /\ Guards(items[j], items[i].p)'
      BY <1>8, <2>4, <2>7 DEF Needs, Guards
  <2>14. 2 \in Nat /\ 2 + 0 + 0 + 0 <= 2
      OBVIOUS
  <2>15. \A q \in Promises : q # child =>
            ~Some(items, q) /\ handle'[q] = handle[q] /\ op'[q] = op[q] /\ ListsGain(q, 0)
      BY <1>3, <2>9, <2>10
  <2>16. ListsGain(child, 0) /\ \A c \in Coroutines : co'[c].result \in {NoPromise, co[c].result}
      BY <1>2, <1>3, <2>9
  <2> QED
      BY <1>2, <1>3, <1>9, <1>10, <2>7, <2>11, <2>12, <2>13, <2>14, <2>15, <2>16, Numbers, BirthKeeping
<1> QED
    BY <1>11, <1>12 DEF chain

----------------------------------------------------------------------------
LEMMA KeepingInit ==
    ASSUME Init
    PROVE  Keeping
<1>1. /\ freed = {} /\ work = <<>> /\ ref_count \in [Promises -> Nat]
      /\ \A c \in Coroutines : co[c].waiting = NoPromise /\ co[c].result = NoPromise
      /\ \A p \in Promises : /\ state[p] = "unborn" /\ ref_count[p] = 0 /\ reactions[p] = <<>>
                             /\ handle[p] = "none" /\ op[p] = "none"
                             /\ combo[p].status = "none" /\ combo[p].count = 0 /\ combo[p].children = <<>>
    BY DEF Init, NoCombo, NoContext
<1>2. ASSUME NEW p \in Promises PROVE Owning(p)
  <2>1. Stacked(work, p) = {}
      BY <1>1 DEF Stacked
  <2>2. Combiners(p) = {} /\ Awaiters(p) = {}
      BY <1>1, PromiseAssumption DEF Combiners, Awaiters
  <2>3. IsFiniteSet({}) /\ Cardinality({}) = 0
      BY FS_EmptySet
  <2>4. ~Listed(p)
      BY <1>1 DEF Listed
  <2>5. One(Listed(p)) = 0 /\ One(handle[p] # "none") = 0 /\ One(op[p] # "none") = 0
      BY <1>1, <2>4, OneIs
  <2>6. Owned(p) = 0
      BY <2>1, <2>2, <2>3, <2>5 DEF Owned
  <2> QED
      BY <1>1, <2>2, <2>3, <2>6 DEF Owning
<1>3. Secured /\ Guarding
    BY <1>1 DEF Secured, Guarding
<1>4. Counts
    BY <1>1 DEF Counts
<1> QED
    BY <1>1, <1>2, <1>3, <1>4 DEF Keeping, Owners

LEMMA KeepingStep ==
    ASSUME Allowed = {}, Inv, Combining, Keeping, [Next]_vars
    PROVE  Keeping'
<1>1. Inv' /\ Grown
    BY InvStep
<1>2. Watches /\ "share" \notin Allowed /\ "drop" \notin Allowed /\ "late" \notin Allowed
    BY DEF Combining
<1>3. CASE settle \/ execute_reaction \/ handler_done \/ release
    BY <1>1, <1>2, <1>3, SettleKeeping, ReactionKeeping, HandlerDoneKeeping, ReleaseKeeping
<1>4. CASE laio_promise_settled \/ compose_on_settled \/ compose_free
    BY <1>1, <1>2, <1>4, PromiseSettledKeeping, ComposeSettledKeeping, ComposeFreeKeeping
<1>5. CASE await \/ wait \/ coroutine_done \/ coroutine_free
    BY <1>1, <1>2, <1>5, AwaitKeeping, WaitKeeping, CoroutineDoneKeeping, CoroutineFreeKeeping
<1>6. CASE return \/ sync_done
    BY <1>1, <1>6, ReturnKeeping, SyncDoneKeeping
<1>7. ASSUME NEW p \in Promises, collect(p) PROVE Keeping'
    BY <1>1, <1>2, <1>7, CollectKeeping
<1>8. ASSUME NEW p \in Promises, NEW how \in Settled, complete(p, how) PROVE Keeping'
    BY <1>1, <1>8, CompleteKeeping
<1>9. ASSUME May_call("spawn"), NEW p \in Fresh({}), spawn(p) PROVE Keeping'
    BY <1>1, <1>9, SpawnKeeping DEF May_call
<1>10. ASSUME May_call("settled"), NEW p \in Fresh({}), NEW how \in Settled, settled(p, how) PROVE Keeping'
    BY <1>1, <1>10, SettledKeeping DEF May_call
<1>11. ASSUME NEW type \in Types, May_call(type), NEW p \in Promises, NEW handler \in BOOLEAN,
              NEW child \in Fresh({}), chain(p, type, handler, child)
       PROVE  Keeping'
    BY <1>1, <1>11, ChainKeeping DEF May_call
<1>12. ASSUME May_call("cancel"), NEW p \in Promises, cancel(p) PROVE Keeping'
    BY <1>1, <1>12, CancelKeeping DEF May_call
<1>13. ASSUME May_call("run_async"), NEW c \in Coroutines, NEW p \in Fresh({}), run_async(c, p) PROVE Keeping'
    BY <1>1, <1>13, RunAsyncKeeping DEF May_call
<1>14. ASSUME May_call("await_sync"), NEW p \in Promises, await_sync(p) PROVE Keeping'
    BY <1>1, <1>14, AwaitSyncKeeping DEF May_call
<1>15. ASSUME NEW mode \in Modes, NEW p \in Promises, NEW q \in Promises, NEW m \in Fresh({}), combine(mode, p, q, m)
       PROVE  Keeping'
    BY <1>1, <1>2, <1>15, CombineKeeping
<1>16. ASSUME NEW p \in Promises, NEW t \in Fresh({}), NEW m \in Fresh({t}), with_timeout(p, t, m)
       PROVE  Keeping'
    BY <1>1, <1>2, <1>16, WithTimeoutKeeping
<1>17. CASE UNCHANGED vars
  <2>1. UNCHANGED <<work, reactions, handle, op, ref_count, freed, co, combo>>
      BY <1>17 DEF vars, memory, owners
  <2> QED
      BY <1>1, <2>1, KeepingStutter
<1> QED
    BY <1>3, <1>4, <1>5, <1>6, <1>7, <1>8, <1>9, <1>10, <1>11, <1>12, <1>13, <1>14, <1>15, <1>16, <1>17 DEF Next

----------------------------------------------------------------------------
(***************************************************************************)
(* What follows from it.                                                   *)
(***************************************************************************)
LEMMA HeldAlive ==
    ASSUME Inv, Keeping, NEW p \in Promises,
           handle[p] # "none" \/ op[p] # "none" \/ Some(work, p) \/ Combiners(p) # {} \/ Awaiters(p) # {} \/ Listed(p)
    PROVE  p \notin freed
<1>1. Owning(p)
    BY DEF Keeping, Owners
<1>2. Some(work, p) => Stacked(work, p) # {}
    BY SomeStacked
<1> QED
    BY <1>1, <1>2, Alive

\* The promises of a coroutine.
LEMMA ContextAlive ==
    ASSUME Inv, Keeping, NEW c \in Coroutines
    PROVE  co[c].result \notin freed /\ co[c].waiting \notin freed
<1>1. PICK result \in SomePromise, waiting \in SomePromise : result = co[c].result /\ waiting = co[c].waiting
    BY DEF Inv, Typed, Contexts
<1>2. NoPromise \notin freed
    BY PromiseAssumption DEF Keeping, Owners
<1>3. result \in Promises => result \notin freed
  <2> SUFFICES ASSUME result \in Promises PROVE result \notin freed
      OBVIOUS
  <2>1. result # NoPromise
      BY PromiseAssumption
  <2>2. handle[result] = "held" \/ Returned(work, result)
      BY <1>1, <2>1 DEF Keeping, Secured
  <2>3. Returned(work, result) => Some(work, result)
      BY DEF Returned, Some, Gives
  <2> QED
      BY <2>2, <2>3, HeldAlive
<1>4. waiting \in Promises => waiting \notin freed
  <2>1. waiting \in Promises => Awaiters(waiting) # {}
      BY <1>1 DEF Awaiters
  <2> QED
      BY <2>1, HeldAlive
<1> QED
    BY <1>1, <1>2, <1>3, <1>4 DEF SomePromise

\* What a thing to be done guards.
LEMMA GuardAlive ==
    ASSUME Inv, Keeping, NEW i \in DOMAIN work, NEW p \in Promises, Guards(work[i], p)
    PROVE  p \notin freed
<1>1. Secure(work[i]) /\ work[i] \in WorkItems
    BY WorkTyped DEF Keeping, Secured
<1>2. PICK y \in WorkItems : y = work[i] /\ Secure(y) /\ Guards(y, p)
    BY <1>1
<1>3. CASE Gives(y, p)
    BY <1>2, <1>3, HeldAlive DEF Some
<1>4. CASE y.do = "return" /\ y.p = p
  <2>1. p # NoPromise
      BY PromiseAssumption
  <2> QED
      BY <1>2, <1>4, <2>1, HeldAlive DEF Secure
<1>5. CASE y.do = "combined" /\ y.p = p
    BY <1>2, <1>5, HeldAlive DEF Secure
<1>6. CASE y.do = "finish" /\ co[y.c].result = p
  <2>1. y.c \in Coroutines
      BY <1>6, ItemFields
  <2> QED
      BY <1>6, <2>1, ContextAlive
<1> QED
    BY <1>2, <1>3, <1>4, <1>5, <1>6 DEF Guards, Gives

LEMMA ItemAlive ==
    ASSUME Inv, Keeping, NEW i \in DOMAIN work
    PROVE  Refers(work[i]) \cap freed = {}
<1>1. PICK x \in WorkItems : x = work[i] /\ Secure(x)
    BY WorkTyped DEF Keeping, Secured
<1>2. NoPromise \notin freed /\ freed \subseteq Promises
    BY PromiseAssumption DEF Keeping, Owners
<1>3. ASSUME NEW p \in Promises, Gives(x, p) PROVE p \notin freed
    BY <1>1, <1>3, HeldAlive DEF Some
<1>4. ASSUME Needs(x), x.p \in Promises PROVE x.p \notin freed
  <2>1. Guarded(work, i) \/ Awaited_at_once(work, i)
      BY <1>1, <1>4 DEF Keeping, Guarding
  <2>2. CASE Guarded(work, i)
    <3>1. PICK j \in DOMAIN work : Guards(work[j], x.p)
        BY <1>1, <2>2 DEF Guarded
    <3> QED
        BY <1>4, <3>1, GuardAlive
  <2>3. CASE Awaited_at_once(work, i)
      BY <1>1, <1>4, <2>3, HeldAlive DEF Awaited_at_once
  <2> QED
      BY <2>1, <2>2, <2>3
<1>5. CASE x.do \in {"settle", "notify"}
  <2>1. x.p \in Promises /\ Needs(x)
      BY <1>5, ItemFields DEF Needs
  <2>2. Refers(x) = {x.p}
      BY <1>5 DEF Refers
  <2> QED
      BY <1>1, <1>4, <2>1, <2>2
<1>6. CASE x.do \in {"react", "handler"}
  <2>1. x.p \in Promises /\ x.r.child \in Promises /\ Needs(x)
      BY <1>6, ItemFields DEF Needs, Reactions
  <2>2. Gives(x, x.r.child)
      BY <1>6 DEF Gives
  <2>3. Refers(x) = {x.p, x.r.child}
      BY <1>6 DEF Refers
  <2> QED
      BY <1>1, <1>3, <1>4, <2>1, <2>2, <2>3
<1>7. CASE x.do = "release"
  <2>1. x.p \in Promises /\ Gives(x, x.p) /\ Refers(x) = {x.p}
      BY <1>7, ItemFields DEF Gives, Refers
  <2> QED
      BY <1>1, <1>3, <2>1
<1>8. CASE x.do \in {"sync", "combined"}
  <2>1. x.p \in Promises /\ handle[x.p] = "held" /\ Refers(x) = {x.p}
      BY <1>1, <1>8, ItemFields DEF Secure, Refers
  <2> QED
      BY <1>1, <2>1, HeldAlive
<1>9. CASE x.do = "return"
  <2>1. x.p \in SomePromise /\ x.new \in SomePromise
      BY <1>9, ItemFields
  <2>2. x.p \notin freed
      BY <1>1, <1>2, <1>9, <2>1, HeldAlive DEF Secure, SomePromise
  <2>3. x.new \notin freed
    <3>1. x.new \in Promises => Gives(x, x.new)
        BY <1>9 DEF Gives
    <3> QED
        BY <1>2, <1>3, <2>1, <3>1 DEF SomePromise
  <2>4. Refers(x) = {x.p, x.new}
      BY <1>9 DEF Refers
  <2> QED
      BY <1>1, <2>2, <2>3, <2>4
<1>10. CASE x.do \in {"run", "finish"}
  <2>1. x.c \in Coroutines
      BY <1>10, ItemFields
  <2>2. co[x.c].result \notin freed /\ co[x.c].waiting \notin freed
      BY <2>1, ContextAlive
  <2>3. x.p \notin freed
      BY <1>1, <1>2, <1>10, <2>2 DEF Secure
  <2>4. Refers(x) = {x.p, co[x.c].result}
      BY <1>10 DEF Refers
  <2> QED
      BY <1>1, <2>2, <2>3, <2>4
<1> QED
    BY <1>5, <1>6, <1>7, <1>8, <1>9, <1>10 DEF WorkItems, SettleItems, ReactionItems, PromiseItems,
        RunItems, FinishItems, ReturnItems

LEMMA AllAlive ==
    ASSUME Inv, Watches, Keeping
    PROVE  PromisesAlive
<1>1. \A item \in Items : Refers(item) \cap freed = {}
    BY ItemAlive DEF Items
<1>2. freed \subseteq Promises
    BY DEF Keeping, Owners
<1>3. \A p \in freed : handle[p] = "none" /\ op[p] = "none"
    BY <1>2, HeldAlive
<1>4. ASSUME NEW m \in Promises, combo[m].status \in {"waiting", "decided"}, NEW q \in ToSet(combo[m].children), q \in freed
      PROVE  FALSE
  <2>1. q \in Promises /\ m \in Combiners(q)
      BY <1>2, <1>4 DEF Combiners
  <2> QED
      BY <1>4, <2>1, HeldAlive
<1>5. \A m \in Promises : combo[m].status = "waiting" => m \notin freed
  <2>1. \A m \in Promises : combo[m].status = "waiting" => handle[m] = "held"
      BY DEF Keeping, Secured
  <2> QED
      BY <2>1, HeldAlive
<1>6. \A p \in Promises : awaiter[p] \in Promises => combo[awaiter[p]].status # "freed"
    BY DEF Watches, Watching, Watched
<1>7. ASSUME NEW p \in Promises, NEW i \in DOMAIN reactions[p]
      PROVE  reactions[p][i].child \notin freed
  <2>1. PICK q : q = reactions[p][i].child
      OBVIOUS
  <2>2. q \in Promises => Listed(q)
      BY <2>1 DEF Listed
  <2> QED
      BY <1>2, <2>1, <2>2, HeldAlive
<1>8. \A c \in Coroutines : {co[c].result, co[c].waiting} \cap freed = {}
    BY ContextAlive
<1>9. \A m \in Promises : combo[m].status \in {"waiting", "decided"} => ToSet(combo[m].children) \cap freed = {}
    BY <1>4
<1> QED
    BY <1>1, <1>3, <1>5, <1>6, <1>7, <1>8, <1>9 DEF PromisesAlive

\* The calls a program makes are bounded, and it cancels promises.
Within == cancelled \subseteq Promises /\ ops \in 0 .. program.ops

LEMMA WithinStep ==
    ASSUME Inv, Within, [Next]_vars
    PROVE  Within'
<1>1. program \in Programs /\ program.ops \in Nat
    BY PromiseAssumption DEF Inv, Typed
<1>2. ASSUME UNCHANGED <<cancelled, program, ops>> PROVE Within'
    BY <1>2 DEF Within
<1>3. ASSUME ops < program.ops, ops' = ops + 1, UNCHANGED program, cancelled' \subseteq Promises PROVE Within'
    BY <1>1, <1>3 DEF Within
<1>4. CASE settle \/ execute_reaction \/ handler_done \/ release
    BY <1>2, <1>4 DEF settle, execute_reaction, handler_done, release, history, bounds
<1>5. CASE laio_promise_settled \/ compose_on_settled \/ compose_free
    BY <1>2, <1>5 DEF laio_promise_settled, compose_on_settled, compose_free, history, bounds
<1>6. CASE coroutine_done \/ coroutine_free \/ return \/ sync_done
    BY <1>2, <1>6 DEF coroutine_done, coroutine_free, return, sync_done, history, bounds
<1>7. CASE \E p \in Promises : collect(p) \/ \E how \in Settled : complete(p, how)
    BY <1>2, <1>7 DEF collect, complete, history, bounds
<1>8. CASE await \/ wait
    BY <1>3, <1>8 DEF await, wait, May_call, history, Within
<1>9. ASSUME May_call("spawn"), NEW p \in Fresh({}), spawn(p) PROVE Within'
    BY <1>3, <1>9 DEF spawn, May_call, Call, history, Within
<1>10. ASSUME May_call("settled"), NEW p \in Fresh({}), NEW how \in Settled, settled(p, how) PROVE Within'
    BY <1>3, <1>10 DEF settled, May_call, Call, history, Within
<1>11. ASSUME NEW type \in Types, May_call(type), NEW p \in Promises, NEW handler \in BOOLEAN,
              NEW child \in Fresh({}), chain(p, type, handler, child)
       PROVE  Within'
    BY <1>3, <1>11 DEF chain, May_call, Call, Within
<1>12. ASSUME May_call("cancel"), NEW p \in Promises, cancel(p) PROVE Within'
    BY <1>3, <1>12 DEF cancel, May_call, Call, Within
<1>13. ASSUME May_call("run_async"), NEW c \in Coroutines, NEW p \in Fresh({}), run_async(c, p) PROVE Within'
    BY <1>3, <1>13 DEF run_async, May_call, Call, history, Within
<1>14. ASSUME May_call("await_sync"), NEW p \in Promises, await_sync(p) PROVE Within'
    BY <1>3, <1>14 DEF await_sync, May_call, Call, history, Within
<1>15. ASSUME NEW mode \in Modes, May_call(mode), NEW p \in Promises, NEW q \in Promises, NEW m \in Fresh({}),
              combine(mode, p, q, m)
       PROVE  Within'
    BY <1>3, <1>15 DEF combine, May_call, Call, history, Within
<1>16. ASSUME May_call("with_timeout"), NEW p \in Promises, NEW t \in Fresh({}), NEW m \in Fresh({t}),
              with_timeout(p, t, m)
       PROVE  Within'
    BY <1>3, <1>16 DEF with_timeout, May_call, Call, history, Within
<1>17. CASE UNCHANGED vars
    BY <1>2, <1>17 DEF vars, history, bounds
<1> QED
    BY <1>4, <1>5, <1>6, <1>7, <1>8, <1>9, <1>10, <1>11, <1>12, <1>13, <1>14, <1>15, <1>16, <1>17 DEF Next

LEMMA TypesFollow ==
    ASSUME Inv, Makes, Keeping, Within
    PROVE  TypeOK
<1>1. Typed /\ Owners /\ Counts
    BY DEF Inv, Keeping
<1>2. ASSUME NEW p \in Promises, NEW i \in DOMAIN reactions[p] PROVE reactions[p][i].child \in Promises
  <2>1. PICK rs \in Seq(Reactions) : rs = reactions[p]
      BY <1>1 DEF Typed
  <2>2. rs[i] \in Reactions
      BY <2>1
  <2> QED
      BY <2>1, <2>2 DEF Reactions
<1>3. ASSUME NEW p \in Promises, combo[p].status # "none"
      PROVE  combo[p].mode \in Modes /\ combo[p].count \in 0 .. Len(combo[p].children)
  <2>1. PICK new \in Combos : new = combo[p]
      BY <1>1 DEF Typed
  <2>2. new.mode \in Modes
      BY <1>3, <2>1 DEF Makes, Combos
  <2>3. new.count \in Nat /\ new.children \in Seq(Promises)
      BY DEF Combos
  <2>4. Len(new.children) \in Nat /\ new.count <= Len(new.children)
      BY <1>1, <2>1, <2>3 DEF Counts
  <2> QED
      BY <2>1, <2>2, <2>3, <2>4
<1>4. \A c \in Coroutines : co[c] \in
        [status : {"unused", "running", "suspended", "done"},
         result : Promises \cup {NoPromise}, waiting : Promises \cup {NoPromise}]
    BY <1>1 DEF Typed, Contexts, SomePromise
<1>5. /\ state \in [Promises -> {"unborn", "pending"} \cup Settled] /\ freed \subseteq Promises
      /\ ref_count \in [Promises -> Nat] /\ handle \in [Promises -> {"none", "held", "lost"}]
      /\ op \in [Promises -> {"none", "operation", "timeout"}]
      /\ awaiter \in [Promises -> Coroutines \cup Promises \cup {NoWaiter}]
      /\ cancelled \subseteq Promises /\ program \in Programs /\ ops \in 0 .. program.ops
    BY <1>1 DEF Typed, States, Owners, Within
<1> QED
    BY <1>2, <1>3, <1>4, <1>5 DEF TypeOK

\* The invariant, of programs that do nothing the code does not allow for.
Kept_alive == Inv /\ Combining /\ Keeping /\ Within

LEMMA KeptAlive ==
    ASSUME Allowed = {}
    PROVE  Spec => []Kept_alive
<1>1. Init => Kept_alive
  <2> SUFFICES ASSUME Init PROVE Kept_alive
      OBVIOUS
  <2>1. \A prog \in Programs : prog.ops \in Nat
      BY PromiseAssumption
  <2>2. program \in Programs /\ program.ops \in Nat
      BY <2>1 DEF Init
  <2>3. Within
      BY <2>2 DEF Init, Within
  <2> QED
      BY <2>3, InvInit, CombiningInit, KeepingInit DEF Kept_alive
<1>2. Kept_alive /\ [Next]_vars => Kept_alive'
  <2> SUFFICES ASSUME Kept_alive, [Next]_vars PROVE Kept_alive'
      OBVIOUS
  <2>1. Inv /\ Combining /\ Keeping /\ Within /\ "share" \notin Allowed
      BY DEF Kept_alive
  <2> QED
      BY <2>1, InvStep, CombiningStep, KeepingStep, WithinStep DEF Kept_alive
<1> QED
    BY <1>1, <1>2, PTL DEF Spec

\* Nothing that is still referred to has been freed, in whichever order handlers,
\* coroutines, combinators, the loop and the collector give their references back
\* (promise_retain and promise_release in lpromise.c, and their uses in laio.c),
\* and no pending promise points to a combinator that is gone: for programs that
\* keep what they wait for, wait for a promise once at most and give a time only
\* to pending ones.
THEOREM PromisePromisesAlive ==
    ASSUME Allowed = {}
    PROVE  Spec => []PromisesAlive
<1>1. Kept_alive => PromisesAlive
    BY AllAlive DEF Kept_alive, Combining
<1> QED
    BY <1>1, KeptAlive, PTL

\* Promises, their counts, reactions, combinators and coroutines are what the code
\* takes them for: no count of references goes below zero, and a combinator counts
\* no more children than it has.
THEOREM PromiseTypeOK ==
    ASSUME Allowed = {}
    PROVE  Spec => []TypeOK
<1>1. Kept_alive => TypeOK
    BY TypesFollow DEF Kept_alive, Combining
<1> QED
    BY <1>1, KeptAlive, PTL
=============================================================================
