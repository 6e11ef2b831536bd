------------------------- MODULE PromiseHeardProofs -------------------------
(***************************************************************************)
(* Who has still to be told, when programs do only what the code allows    *)
(* for: theorems about Promise that go on from the invariant of            *)
(* PromiseProofs.                                                          *)
(***************************************************************************)
EXTENDS PromiseProofs

Busy(s, c) == \E i \in DOMAIN s : s[i].do \in {"run", "finish"} /\ s[i].c = c
Settles_now(s, p) == \E i \in DOMAIN s : s[i].do = "settle" /\ s[i].p = p
Reacting(s, p) == \E i \in DOMAIN s : s[i].do \in {"react", "handler"} /\ s[i].r.child = p
Told_next(s, q) ==
    \E i \in DOMAIN s : /\ s[i].do = "notify" /\ s[i].p = q
                        /\ \A k \in DOMAIN s : k < i => s[k].do = "release"

\* A coroutine that is suspended has the slot of what it waits for, one that runs
\* is on the C stack, and a settled promise with a coroutine in its slot will tell it.
Resumed ==
    /\ \A q \in Promises : awaiter[q] \in Coroutines =>
        state[q] # "unborn" /\ (state[q] \in Settled => Tells(work, q))
    /\ \A c \in Coroutines : co[c].status = "suspended" =>
        co[c].waiting \in Promises /\ awaiter[co[c].waiting] = c
    /\ \A c \in Coroutines : co[c].status = "running" => Busy(work, c)

\* It tells it before anything else is done, but for releases, if clearing the slot
\* is still to come of another coroutine or a combinator.
Prompt ==
    /\ \A i \in DOMAIN work : work[i].do \in {"run", "finish"} /\ work[i].p \in Promises
        /\ awaiter[work[i].p] \in Coroutines => Told_next(work, work[i].p)
    /\ \A m \in Promises : Watching(m) => \A q \in Children(m) :
        awaiter[q] \in Coroutines => Told_next(work, q)

\* A promise that p was chained to has p in its list while it is pending, and
\* afterwards what concerns p is done or on the C stack.
Known(p, q) ==
    /\ state[q] # "unborn"
    /\ state[q] = "pending" /\ q \notin freed => ListedBy(q, p)
    /\ state[q] \in Settled /\ Concerns(origin[p], q) =>
        state[p] \in Settled \/ Reacting(work, p) \/ Settles_now(work, p)
Knowing == \A p \in Promises : origin[p].parent # NoPromise => Known(p, origin[p].parent)

\* The promise of a combinator is pending while that waits, or it is about to be
\* settled; so it is when a combinator comes to its end.
Deciding ==
    /\ \A m \in Promises : combo[m].mode # "none" /\ state[m] = "pending" =>
        combo[m].status = "waiting" \/ (combo[m].status = "decided" /\ Settles_now(work, m))
    /\ \A i \in DOMAIN work : work[i].do = "combined" =>
        \/ state[work[i].p] \in Settled
        \/ \E j \in DOMAIN work : j < i /\ work[j].do = "settle" /\ work[j].p = work[i].p

Heard == Resumed /\ Prompt /\ Knowing /\ Deciding

----------------------------------------------------------------------------
(***************************************************************************)
(* What a step leaves of the stack.                                        *)
(***************************************************************************)
LEMMA KeptItems ==
    ASSUME Inv, NEW rest, Leaves(rest), NEW items \in Seq(WorkItems), work' = items \o rest
    PROVE  /\ \A i \in DOMAIN items : \E j \in DOMAIN work' : work'[j] = items[i]
           /\ \A i \in DOMAIN work : \/ \E j \in DOMAIN work' : work'[j] = work[i]
                                     \/ rest # work /\ work # <<>> /\ work[i] = Now
           /\ \A j \in DOMAIN work' : \/ \E i \in DOMAIN items : work'[j] = items[i]
                                      \/ \E i \in DOMAIN work : work'[j] = work[i]
<1>1. /\ rest \in Seq(WorkItems)
      /\ \A j \in DOMAIN rest : \E i \in DOMAIN work : rest[j] = work[i]
      /\ \A i \in DOMAIN work : (\E j \in DOMAIN rest : rest[j] = work[i]) \/ (rest = Tail(work) /\ i = 1)
    BY LeftItems
<1>2. /\ \A i \in DOMAIN items : i \in DOMAIN work' /\ work'[i] = items[i]
      /\ \A i \in DOMAIN rest : i + Len(items) \in DOMAIN work' /\ work'[i + Len(items)] = rest[i]
    BY <1>1
<1>3. \A j \in DOMAIN work' : \/ j \in DOMAIN items /\ work'[j] = items[j]
                              \/ j - Len(items) \in DOMAIN rest /\ work'[j] = rest[j - Len(items)]
    BY <1>1, ElementsOf
<1>4. ASSUME NEW i \in DOMAIN work
      PROVE  \/ \E j \in DOMAIN work' : work'[j] = work[i]
             \/ rest # work /\ work # <<>> /\ work[i] = Now
  <2>1. CASE \E j \in DOMAIN rest : rest[j] = work[i]
      BY <1>2, <2>1
  <2>2. CASE rest = Tail(work) /\ i = 1
    <3>1. work # <<>> /\ Now = work[1]
        BY <2>2, WorkTyped
    <3>2. rest # work
      <4>1. Len(rest) = Len(work) - 1 /\ Len(work) \in Nat
          BY <2>2, <3>1, WorkTyped
      <4> QED
          BY <4>1
    <3> QED
        BY <2>2, <3>1, <3>2
  <2> QED
      BY <1>1, <2>1, <2>2
<1>5. \A i \in DOMAIN items : \E j \in DOMAIN work' : work'[j] = items[i]
    BY <1>2
<1>6. ASSUME NEW j \in DOMAIN work'
      PROVE  \/ \E i \in DOMAIN items : work'[j] = items[i]
             \/ \E i \in DOMAIN work : work'[j] = work[i]
    BY <1>1, <1>3
<1> QED
    BY <1>4, <1>5, <1>6

LEMMA ToldNextTop ==
    ASSUME Inv, NEW q, Told_next(work, q)
    PROVE  work # <<>> /\ (Now.do = "release" \/ (Now.do = "notify" /\ Now.p = q))
<1>1. PICK i \in DOMAIN work : /\ work[i].do = "notify" /\ work[i].p = q
                               /\ \A k \in DOMAIN work : k < i => work[k].do = "release"
    BY DEF Told_next
<1>2. work # <<>> /\ Now = work[1] /\ 1 \in DOMAIN work /\ DOMAIN work = 1 .. Len(work)
    BY <1>1, WorkTyped
<1>3. i = 1 \/ 1 < i
    BY <1>2
<1> QED
    BY <1>1, <1>2, <1>3

LEMMA ToldNextStays ==
    ASSUME Inv, NEW rest, Leaves(rest), NEW items \in Seq(WorkItems), work' = items \o rest, AllReleases(items),
           rest = work \/ Now.do = "release", NEW q, Told_next(work, q)
    PROVE  Told_next(work', q)
<1>1. PICK i \in DOMAIN work : /\ work[i].do = "notify" /\ work[i].p = q
                               /\ \A k \in DOMAIN work : k < i => work[k].do = "release"
    BY DEF Told_next
<1>2. PICK n, m : n = Len(items) /\ m = Len(rest)
    OBVIOUS
<1>3. PICK k \in {0, 1} :
        /\ k = 0 <=> rest = work
        /\ m \in Nat /\ Len(work) = m + k
        /\ \A j \in 1 .. m : j + k \in 1 .. m + k /\ rest[j] = work[j + k]
    BY <1>2, LeftPlaces
<1>4. rest \in Seq(WorkItems) /\ work \in Seq(WorkItems)
    BY LeftItems, WorkTyped
<1>5. /\ n \in Nat /\ DOMAIN items = 1 .. n /\ DOMAIN work = 1 .. m + k /\ DOMAIN work' = 1 .. n + m
      /\ \A j \in 1 .. n : work'[j] = items[j]
      /\ \A j \in 1 .. m : n + j \in 1 .. n + m /\ work'[n + j] = rest[j]
    BY <1>2, <1>3, <1>4
<1>6. k = 1 => i # 1
  <2>1. work # <<>> => Now = work[1]
      BY WorkTyped
  <2>2. "release" # "notify"
      OBVIOUS
  <2> QED
      BY <1>1, <1>3, <1>4, <2>1, <2>2
<1>7. PICK l \in 1 .. m : i = l + k
  <2>1. i \in 1 .. m + k /\ m \in Nat
      BY <1>3, <1>5
  <2>2. CASE k = 0
      BY <2>1, <2>2
  <2>3. CASE k = 1
    <3>1. i # 1 /\ i - 1 \in 1 .. m /\ i = (i - 1) + 1
        BY <1>6, <2>1, <2>3
    <3> QED
        BY <2>3, <3>1
  <2> QED
      BY <2>2, <2>3
<1>8. n + l \in DOMAIN work' /\ work'[n + l] = work[i]
    BY <1>3, <1>5, <1>7
<1>9. ASSUME NEW j \in DOMAIN work', j < n + l PROVE work'[j].do = "release"
  <2>1. CASE j <= n
    <3>1. j \in DOMAIN items /\ work'[j] = items[j]
        BY <1>5, <2>1
    <3> QED
        BY <3>1 DEF AllReleases
  <2>2. CASE ~ (j <= n)
    <3>1. PICK h \in 1 .. m : j = n + h
      <4>1. n \in Nat /\ m \in Nat /\ j \in 1 .. n + m
          BY <1>3, <1>5
      <4> QED
          BY <2>2, <4>1, Beyond
    <3>2. h + k \in DOMAIN work /\ h + k < i
        BY <1>3, <1>5, <1>7, <1>9, <3>1
    <3>3. work'[j] = work[h + k]
        BY <1>3, <1>5, <3>1
    <3> QED
        BY <1>1, <3>2, <3>3
  <2> QED
      BY <2>1, <2>2
<1> QED
    BY <1>1, <1>8, <1>9 DEF Told_next

LEMMA ToldNextFirst ==
    ASSUME NEW rest \in Seq(WorkItems), NEW items \in Seq(WorkItems), NEW q, Told_next(items, q)
    PROVE  Told_next(items \o rest, q)
<1>1. PICK i \in DOMAIN items : /\ items[i].do = "notify" /\ items[i].p = q
                                /\ \A k \in DOMAIN items : k < i => items[k].do = "release"
    BY DEF Told_next
<1>0. items \o rest \in Seq(WorkItems)
    OBVIOUS
<1>2. PICK s \in Seq(WorkItems) : s = items \o rest
    BY <1>0
<1>3. /\ \A j \in DOMAIN items : j \in DOMAIN s /\ s[j] = items[j]
      /\ \A j \in DOMAIN s : j < i => j \in DOMAIN items
    BY <1>2
<1>4. Told_next(s, q)
    BY <1>1, <1>3 DEF Told_next
<1> QED
    BY <1>2, <1>4

\* What a step takes off the stack.
Popped(rest, what) == rest # work /\ Doing(what)

LEMMA KindsStay ==
    ASSUME Inv, NEW rest, Leaves(rest), NEW items \in Seq(WorkItems), work' = items \o rest, NEW p
    PROVE  /\ Tells(items, p) => Tells(work', p)
           /\ Busy(items, p) => Busy(work', p)
           /\ Reacting(items, p) => Reacting(work', p)
           /\ Settles_now(items, p) => Settles_now(work', p)
           /\ Tells(work, p) => Tells(work', p) \/ (Popped(rest, "notify") /\ Now.p = p)
           /\ Busy(work, p) => Busy(work', p) \/ ((Popped(rest, "run") \/ Popped(rest, "finish")) /\ Now.c = p)
           /\ Reacting(work, p) =>
                Reacting(work', p) \/ ((Popped(rest, "react") \/ Popped(rest, "handler")) /\ Now.r.child = p)
           /\ Settles_now(work, p) => Settles_now(work', p) \/ (Popped(rest, "settle") /\ Now.p = p)
<1>1. /\ \A i \in DOMAIN items : \E j \in DOMAIN work' : work'[j] = items[i]
      /\ \A i \in DOMAIN work : \/ \E j \in DOMAIN work' : work'[j] = work[i]
                                \/ rest # work /\ work # <<>> /\ work[i] = Now
    BY KeptItems
<1>2. /\ Tells(items, p) => Tells(work', p)
      /\ Busy(items, p) => Busy(work', p)
    BY <1>1 DEF Tells, Busy
<1>3. /\ Reacting(items, p) => Reacting(work', p)
      /\ Settles_now(items, p) => Settles_now(work', p)
    BY <1>1 DEF Reacting, Settles_now
<1>4. Tells(work, p) => Tells(work', p) \/ (Popped(rest, "notify") /\ Now.p = p)
    BY <1>1 DEF Tells, Popped, Doing, Now
<1>5. Busy(work, p) => Busy(work', p) \/ ((Popped(rest, "run") \/ Popped(rest, "finish")) /\ Now.c = p)
    BY <1>1 DEF Busy, Popped, Doing, Now
<1>6. Reacting(work, p) =>
        Reacting(work', p) \/ ((Popped(rest, "react") \/ Popped(rest, "handler")) /\ Now.r.child = p)
    BY <1>1 DEF Reacting, Popped, Doing, Now
<1>7. Settles_now(work, p) => Settles_now(work', p) \/ (Popped(rest, "settle") /\ Now.p = p)
    BY <1>1 DEF Settles_now, Popped, Doing, Now
<1> QED
    BY <1>2, <1>3, <1>4, <1>5, <1>6, <1>7

----------------------------------------------------------------------------
(***************************************************************************)
(* What a step that puts items on the stack does to the slots of promises, *)
(* to chained promises and to combinators.                                 *)
(***************************************************************************)
\* Resuming: whoever has a slot still has it, runs, or is on the stack to be told,
\* and what is told next is not put off.
Slots(items, rest) ==
    \A q \in Promises : awaiter'[q] \in Coroutines =>
        \/ state'[q] = "pending"
        \/ state'[q] \in Settled /\ Told_next(items, q)
        \/ /\ awaiter'[q] = awaiter[q]
           /\ ~(Popped(rest, "notify") /\ Now.p = q)
           /\ state'[q] \in Settled => state[q] \in Settled \/ Tells(items, q)
Suspended_wait ==
    \A c \in Coroutines : co'[c].status = "suspended" =>
        co'[c].waiting \in Promises /\ awaiter'[co'[c].waiting] = c
Runners(items, rest) ==
    \A c \in Coroutines : co'[c].status = "running" =>
        \/ Busy(items, c)
        \/ /\ co[c].status = "running"
           /\ ~((Popped(rest, "run") \/ Popped(rest, "finish")) /\ Now.c = c)
Run_first(items) ==
    \A i \in DOMAIN items : items[i].do \in {"run", "finish"} /\ items[i].p \in Promises =>
        awaiter'[items[i].p] \notin Coroutines
Shares_nothing ==
    \A m \in Promises : Watching(m)' => \A q \in Children(m)' :
        awaiter'[q] \in Coroutines => Watching(m) /\ q \in Children(m)
Next_stays(items, rest) ==
    \A q \in Promises : Told_next(work, q) /\ awaiter'[q] \in Coroutines =>
        AllReleases(items) /\ (rest = work \/ Now.do = "release")
Resuming(items, rest) ==
    /\ Slots(items, rest) /\ Suspended_wait /\ Runners(items, rest)
    /\ Run_first(items) /\ Shares_nothing /\ Next_stays(items, rest)

LEMMA ToldStays ==
    ASSUME Inv, NEW rest, Leaves(rest), NEW items \in Seq(WorkItems), work' = items \o rest,
           Next_stays(items, rest), NEW q \in Promises, Told_next(work, q), awaiter'[q] \in Coroutines
    PROVE  Told_next(work', q)
<1>1. AllReleases(items) /\ (rest = work \/ Now.do = "release")
    BY DEF Next_stays
<1> QED
    BY <1>1, ToldNextStays

LEMMA ResumedStep ==
    ASSUME Inv, Inv', Grown, Settling', Watches', Resumed, Prompt,
           NEW rest, Leaves(rest), NEW items \in Seq(WorkItems), work' = items \o rest,
           Resuming(items, rest)
    PROVE  Resumed' /\ Prompt'
<1>1. /\ Slots(items, rest) /\ Suspended_wait /\ Runners(items, rest)
      /\ Run_first(items) /\ Shares_nothing /\ Next_stays(items, rest)
    BY DEF Resuming
<1>2. rest \in Seq(WorkItems)
    BY LeftItems
<1>3. ASSUME NEW q \in Promises, awaiter'[q] \in Coroutines
      PROVE  state'[q] # "unborn" /\ (state'[q] \in Settled => Tells(work', q))
  <2>1. CASE state'[q] = "pending"
      BY <2>1 DEF Settled
  <2>2. CASE state'[q] \in Settled /\ Told_next(items, q)
    <3>1. Tells(items, q)
        BY <2>2 DEF Told_next, Tells
    <3> QED
        BY <2>2, <3>1, KindsStay DEF Settled
  <2>3. CASE /\ awaiter'[q] = awaiter[q]
             /\ ~(Popped(rest, "notify") /\ Now.p = q)
             /\ state'[q] \in Settled => state[q] \in Settled \/ Tells(items, q)
    <3>1. state[q] # "unborn" /\ (state[q] \in Settled => Tells(work, q))
        BY <1>3, <2>3 DEF Resumed
    <3>2. state'[q] # "unborn"
        BY <3>1 DEF Grown
    <3>3. state[q] \in Settled => Tells(work', q)
        BY <2>3, <3>1, KindsStay
    <3>4. Tells(items, q) => Tells(work', q)
        BY KindsStay
    <3> QED
        BY <2>3, <3>2, <3>3, <3>4
  <2> QED
      BY <1>1, <1>3, <2>1, <2>2, <2>3 DEF Slots
<1>4. ASSUME NEW c \in Coroutines, co'[c].status = "running" PROVE Busy(work', c)
  <2>1. CASE Busy(items, c)
      BY <2>1, KindsStay
  <2>2. CASE /\ co[c].status = "running"
             /\ ~((Popped(rest, "run") \/ Popped(rest, "finish")) /\ Now.c = c)
    <3>1. Busy(work, c)
        BY <2>2 DEF Resumed
    <3> QED
        BY <2>2, <3>1, KindsStay
  <2> QED
      BY <1>1, <1>4, <2>1, <2>2 DEF Runners
<1>5. Resumed'
  <2>1. \A q \in Promises : awaiter'[q] \in Coroutines =>
            state'[q] # "unborn" /\ (state'[q] \in Settled => Tells(work', q))
      BY <1>3
  <2>2. \A c \in Coroutines : co'[c].status = "running" => Busy(work', c)
      BY <1>4
  <2> QED
      BY <1>1, <2>1, <2>2 DEF Resumed, Suspended_wait, Tells, Busy
<1>6. ASSUME NEW q \in Promises, awaiter'[q] \in Coroutines, state'[q] # "pending",
             awaiter[q] \in Coroutines => Told_next(work, q)
      PROVE  Told_next(work', q)
  <2>1. CASE Told_next(items, q)
      BY <1>2, <2>1, ToldNextFirst
  <2>2. CASE awaiter'[q] = awaiter[q]
      BY <1>1, <1>6, <2>2, ToldStays
  <2> QED
      BY <1>1, <1>6, <2>1, <2>2 DEF Slots
<1>7. ASSUME NEW j \in DOMAIN work', work'[j].do \in {"run", "finish"}, work'[j].p \in Promises,
             awaiter'[work'[j].p] \in Coroutines
      PROVE  Told_next(work', work'[j].p)
  <2>1. PICK x \in SettlingItems' : x = work'[j]
    <3>1. work' \in Seq(SettlingItems')
        BY DEF Settling
    <3>2. work'[j] \in SettlingItems'
        BY <3>1
    <3> QED
        BY <3>2
  <2>2. PICK q \in Promises : q = x.p
      BY <1>7, <2>1
  <2>3. state'[q] \in Settled
    <3>1. q # NoPromise
        BY PromiseAssumption
    <3> QED
        BY <1>7, <2>1, <2>2, <3>1 DEF SettlingItems, Settles
  <2>4. \/ \E i \in DOMAIN items : x = items[i]
        \/ \E i \in DOMAIN work : x = work[i]
      BY <2>1, KeptItems
  <2>5. CASE \E i \in DOMAIN items : x = items[i]
      BY <1>1, <1>7, <2>1, <2>2, <2>5 DEF Run_first
  <2>6. CASE \E i \in DOMAIN work : x = work[i]
    <3>1. awaiter[q] \in Coroutines => Told_next(work, q)
        BY <1>7, <2>1, <2>2, <2>6 DEF Prompt
    <3>2. awaiter'[q] \in Coroutines
        BY <1>7, <2>1, <2>2
    <3>3. Told_next(work', q)
        BY <1>6, <2>3, <3>1, <3>2 DEF Settled
    <3> QED
        BY <2>1, <2>2, <3>3
  <2> QED
      BY <2>4, <2>5, <2>6
<1>8. ASSUME NEW m \in Promises, Watching(m)', NEW q \in Children(m)', awaiter'[q] \in Coroutines
      PROVE  Told_next(work', q)
  <2>1. Watching(m) /\ q \in Children(m)
      BY <1>1, <1>8 DEF Shares_nothing
  <2>2. q \in Promises
      BY <2>1, ChildrenIn DEF Inv
  <2>3. awaiter[q] \in Coroutines => Told_next(work, q)
      BY <2>1 DEF Prompt
  <2>4. state'[q] # "pending"
    <3>1. m \notin Coroutines
        BY PromiseAssumption
    <3> QED
        BY <1>8, <3>1 DEF Watches
  <2> QED
      BY <1>6, <1>8, <2>2, <2>3, <2>4
<1>9. Prompt'
  <2>1. \A j \in DOMAIN work' : work'[j].do \in {"run", "finish"} /\ work'[j].p \in Promises
            /\ awaiter'[work'[j].p] \in Coroutines => Told_next(work', work'[j].p)
      BY <1>7
  <2>2. \A m \in Promises : Watching(m)' => \A q \in Children(m)' :
            awaiter'[q] \in Coroutines => Told_next(work', q)
      BY <1>8
  <2> QED
      BY <2>1, <2>2 DEF Prompt, Told_next, Watching, Children
<1> QED
    BY <1>5, <1>9

\* Knows: no list loses a child, those of a promise that is settled are called, and
\* what is done of a reaction is the next thing to be done for its child.
Same_parent(p) == origin'[p].parent = origin[p].parent /\ origin'[p].type = origin[p].type
Lists_known ==
    \A p, q \in Promises : Same_parent(p) /\ origin[p].parent = q /\ state'[q] = "pending" /\ q \notin freed' =>
        state[q] # "pending" \/ (q \notin freed /\ (ListedBy(q, p) => ListedBy(q, p)'))
Told_children(items) ==
    \A p, q \in Promises : state[q] \notin Settled /\ state'[q] \in Settled =>
        state[q] = "unborn" \/ (q \notin freed /\ (ListedBy(q, p) => Reacting(items, p)))
Passed_on(items, rest) ==
    /\ Popped(rest, "settle") => state'[Now.p] \in Settled
    /\ Popped(rest, "react") \/ Popped(rest, "handler") =>
        \/ Reacting(items, Now.r.child) \/ Settles_now(items, Now.r.child)
        \/ ~Concerns(Now.r, Now.p)
Knows(items, rest) ==
    /\ \A p \in Promises : Same_parent(p) \/ (origin'[p].parent # NoPromise => Known(p, origin[p].parent)')
    /\ Lists_known /\ Told_children(items) /\ Passed_on(items, rest)

LEMMA ParentIn ==
    ASSUME Inv, NEW p \in Promises, origin[p].parent # NoPromise
    PROVE  origin[p].parent \in Promises
<1>1. PICK o \in Origins : o = origin[p]
    BY DEF Inv, Typed
<1> QED
    BY <1>1 DEF Origins, SomePromise

LEMMA KnowingStep ==
    ASSUME Inv, Inv', Grown, Knowing,
           NEW rest, Leaves(rest), NEW items \in Seq(WorkItems), work' = items \o rest,
           Knows(items, rest)
    PROVE  Knowing'
<1>1. Lists_known /\ Told_children(items) /\ Passed_on(items, rest)
    BY DEF Knows
<1> SUFFICES ASSUME NEW p \in Promises, origin'[p].parent # NoPromise, Same_parent(p) PROVE Known(p, origin[p].parent)'
    BY DEF Knowing, Knows
<1>2. PICK q \in Promises : q = origin[p].parent /\ q = origin'[p].parent
    BY ParentIn DEF Same_parent
<1>3. Known(p, q)
    BY <1>2, PromiseAssumption DEF Knowing
<1>4. state[q] # "unborn" /\ state'[q] # "unborn"
    BY <1>3 DEF Known, Grown
<1>5. ASSUME state'[q] = "pending", q \notin freed' PROVE ListedBy(q, p)'
  <2>1. state[q] = "pending"
    <3>1. state[q] \in States
        BY DEF Inv, Typed
    <3>2. state[q] \notin Settled
        BY <1>5 DEF Grown, Settled
    <3> QED
        BY <1>4, <3>1, <3>2 DEF States
  <2>2. q \notin freed /\ (ListedBy(q, p) => ListedBy(q, p)')
      BY <1>1, <1>2, <1>5, <2>1 DEF Lists_known
  <2> QED
      BY <1>3, <2>1, <2>2 DEF Known
<1>6. ASSUME state'[q] \in Settled, Concerns(origin[p], q)'
      PROVE  state'[p] \in Settled \/ Reacting(work', p) \/ Settles_now(work', p)
  <2>1. CASE state[q] \notin Settled
    <3>1. q \notin freed /\ (ListedBy(q, p) => Reacting(items, p))
        BY <1>1, <1>4, <1>6, <2>1 DEF Told_children
    <3>2. state[q] = "pending"
      <4>1. state[q] \in States
          BY DEF Inv, Typed
      <4> QED
          BY <1>4, <2>1, <4>1 DEF States
    <3>3. ListedBy(q, p)
        BY <1>3, <3>1, <3>2 DEF Known
    <3> QED
        BY <3>1, <3>3, KindsStay
  <2>2. CASE state[q] \in Settled
    <3>1. state'[q] = state[q]
        BY <2>2 DEF Grown
    <3>2. Concerns(origin[p], q)
        BY <1>6, <3>1 DEF Concerns, Same_parent
    <3>3. state[p] \in Settled \/ Reacting(work, p) \/ Settles_now(work, p)
        BY <1>3, <2>2, <3>2 DEF Known
    <3>4. CASE state[p] \in Settled
        BY <3>4 DEF Grown
    <3>5. CASE Settles_now(work, p)
      <4>1. Settles_now(work', p) \/ (Popped(rest, "settle") /\ Now.p = p)
          BY <3>5, KindsStay
      <4> QED
          BY <1>1, <4>1 DEF Passed_on
    <3>6. CASE Reacting(work, p)
      <4>1. Reacting(work', p) \/ ((Popped(rest, "react") \/ Popped(rest, "handler")) /\ Now.r.child = p)
          BY <3>6, KindsStay
      <4>2. CASE (Popped(rest, "react") \/ Popped(rest, "handler")) /\ Now.r.child = p
        <5>1. Registered(Now.r, Now.p)
          <6>1. work # <<>> /\ Now \in SoundItems /\ Now.do \in {"react", "handler"}
              BY <4>2, Top DEF Popped, Doing, Now, Inv
          <6> QED
              BY <6>1 DEF SoundItems, Sound
        <5>2. Now.p = q /\ Now.r.type = origin[p].type
            BY <1>2, <4>2, <5>1 DEF Registered
        <5>3. Concerns(Now.r, Now.p)
            BY <3>2, <5>2 DEF Concerns
        <5>4. Reacting(items, p) \/ Settles_now(items, p)
            BY <1>1, <4>2, <5>3 DEF Passed_on
        <5> QED
            BY <5>4, KindsStay
      <4> QED
          BY <4>1, <4>2
    <3> QED
        BY <3>3, <3>4, <3>5, <3>6
  <2> QED
      BY <2>1, <2>2
<1>7. Known(p, q)'
    BY <1>4, <1>5, <1>6 DEF Known, Reacting, Settles_now
<1> QED
    BY <1>2, <1>7

----------------------------------------------------------------------------
\* Decides: a combinator that no longer waits is about to settle its promise.
Decides(items, rest) ==
    /\ \A m \in Promises : combo'[m].mode # "none" /\ state'[m] = "pending" =>
        \/ combo'[m].status = "waiting"
        \/ combo'[m].status = "decided" /\ Settles_now(items, m)
        \/ combo'[m].mode = combo[m].mode /\ combo'[m].status = combo[m].status
    /\ \A i \in DOMAIN items : items[i].do = "combined" =>
        \E j \in DOMAIN items : j < i /\ items[j].do = "settle" /\ items[j].p = items[i].p
    /\ Popped(rest, "settle") => state'[Now.p] \in Settled

LEMMA DecidingStep ==
    ASSUME Inv, Inv', Grown, Makes, Deciding,
           NEW rest, Leaves(rest), NEW items \in Seq(WorkItems), work' = items \o rest,
           Decides(items, rest)
    PROVE  Deciding'
<1>1. ASSUME NEW m \in Promises, combo'[m].mode # "none", state'[m] = "pending",
             combo'[m].mode = combo[m].mode, combo'[m].status = combo[m].status
      PROVE  combo'[m].status = "waiting" \/ (combo'[m].status = "decided" /\ Settles_now(work', m))
  <2>1. state[m] = "pending"
    <3>1. state[m] \in States /\ state[m] # "unborn"
        BY <1>1 DEF Inv, Typed, Makes, Made, Root
    <3>2. state[m] \notin Settled
        BY <1>1 DEF Grown, Settled
    <3> QED
        BY <3>1, <3>2 DEF States
  <2>2. combo[m].status = "waiting" \/ (combo[m].status = "decided" /\ Settles_now(work, m))
      BY <1>1, <2>1 DEF Deciding
  <2>3. Settles_now(work, m) => Settles_now(work', m) \/ (Popped(rest, "settle") /\ Now.p = m)
      BY KindsStay
  <2>4. ~ (Popped(rest, "settle") /\ Now.p = m)
      BY <1>1 DEF Decides, Settled
  <2> QED
      BY <1>1, <2>2, <2>3, <2>4
<1>2. ASSUME NEW m \in Promises, combo'[m].mode # "none", state'[m] = "pending"
      PROVE  combo'[m].status = "waiting" \/ (combo'[m].status = "decided" /\ Settles_now(work', m))
  <2>1. Settles_now(items, m) => Settles_now(work', m)
      BY KindsStay
  <2> QED
      BY <1>1, <1>2, <2>1 DEF Decides
<1>3. PICK n, l : n = Len(items) /\ l = Len(rest)
    OBVIOUS
<1>4. PICK k \in {0, 1} :
        /\ k = 0 <=> rest = work
        /\ l \in Nat /\ Len(work) = l + k
        /\ \A j \in 1 .. l : j + k \in 1 .. l + k /\ rest[j] = work[j + k]
    BY <1>3, LeftPlaces
<1>5. rest \in Seq(WorkItems) /\ work \in Seq(WorkItems)
    BY LeftItems, WorkTyped
<1>6. /\ n \in Nat /\ DOMAIN items = 1 .. n /\ DOMAIN work = 1 .. l + k /\ DOMAIN work' = 1 .. n + l
      /\ \A j \in 1 .. n : j \in 1 .. n + l /\ work'[j] = items[j]
      /\ \A j \in 1 .. l : n + j \in 1 .. n + l /\ work'[n + j] = rest[j]
    BY <1>3, <1>4, <1>5
<1>7. ASSUME NEW i \in 1 .. n, items[i].do = "combined"
      PROVE  \E j \in DOMAIN work' : j < i /\ work'[j].do = "settle" /\ work'[j].p = items[i].p
  <2>1. PICK j \in 1 .. n : j < i /\ items[j].do = "settle" /\ items[j].p = items[i].p
      BY <1>6, <1>7 DEF Decides
  <2> QED
      BY <1>6, <2>1
<1>8. ASSUME NEW i \in 1 .. l, rest[i].do = "combined"
      PROVE  \/ state'[rest[i].p] \in Settled
             \/ \E j \in DOMAIN work' : j < n + i /\ work'[j].do = "settle" /\ work'[j].p = rest[i].p
  <2>1. i + k \in DOMAIN work /\ work[i + k] = rest[i]
      BY <1>4, <1>6
  <2>2. PICK m \in Promises : m = rest[i].p
    <3>1. work[i + k] \in WorkItems
        BY <1>5, <2>1
    <3> QED
        BY <1>8, <2>1, <3>1, ItemFields
  <2>3. \/ state[m] \in Settled
        \/ \E j \in DOMAIN work : j < i + k /\ work[j].do = "settle" /\ work[j].p = m
      BY <1>8, <2>1, <2>2 DEF Deciding
  <2>4. CASE state[m] \in Settled
      BY <2>2, <2>4 DEF Grown
  <2>5. ASSUME NEW j \in DOMAIN work, j < i + k, work[j].do = "settle", work[j].p = m
        PROVE  \/ state'[m] \in Settled
               \/ \E h \in DOMAIN work' : h < n + i /\ work'[h].do = "settle" /\ work'[h].p = m
    <3>1. CASE k = 1 /\ j = 1
      <4>1. work # <<>> /\ Now = work[1] /\ rest # work
          BY <1>4, <2>5, <3>1, WorkTyped
      <4>2. Popped(rest, "settle") /\ Now.p = m
          BY <2>5, <3>1, <4>1 DEF Popped, Doing, Now
      <4> QED
          BY <4>2 DEF Decides
    <3>2. CASE ~ (k = 1 /\ j = 1)
      <4>1. PICK h \in 1 .. l : j = h + k /\ h < i
        <5>1. CASE k = 0
            BY <1>4, <1>6, <2>5, <5>1
        <5>2. CASE k = 1
          <6>1. j - 1 \in 1 .. l /\ j = (j - 1) + 1 /\ j - 1 < i
              BY <1>4, <1>6, <2>5, <3>2, <5>2
          <6> QED
              BY <5>2, <6>1
        <5> QED
            BY <5>1, <5>2
      <4>2. n + h \in DOMAIN work' /\ work'[n + h] = work[j] /\ n + h < n + i
          BY <1>4, <1>6, <4>1
      <4> QED
          BY <2>5, <4>2
    <3> QED
        BY <3>1, <3>2
  <2> QED
      BY <2>2, <2>3, <2>4, <2>5
<1>9. ASSUME NEW i \in DOMAIN work', work'[i].do = "combined"
      PROVE  \/ state'[work'[i].p] \in Settled
             \/ \E j \in DOMAIN work' : j < i /\ work'[j].do = "settle" /\ work'[j].p = work'[i].p
  <2>1. CASE i <= n
    <3>1. i \in 1 .. n /\ work'[i] = items[i]
        BY <1>6, <1>9, <2>1
    <3> QED
        BY <1>7, <1>9, <3>1
  <2>2. CASE ~ (i <= n)
    <3>0. n \in Nat /\ l \in Nat /\ i \in 1 .. n + l
        BY <1>4, <1>6, <1>9
    <3>1. PICK j \in 1 .. l : i = n + j
        BY <2>2, <3>0, Beyond
    <3>2. work'[i] = rest[j]
        BY <1>6, <3>1
    <3> QED
        BY <1>8, <1>9, <3>1, <3>2
  <2> QED
      BY <2>1, <2>2
<1> QED
    BY <1>2, <1>9 DEF Deciding, Settles_now

LEMMA HeardBy ==
    ASSUME Inv, Inv', Grown, Combining, Combining', Heard,
           NEW rest, Leaves(rest), NEW items \in Seq(WorkItems), work' = items \o rest,
           Resuming(items, rest), Knows(items, rest), Decides(items, rest)
    PROVE  Heard'
<1>1. Resumed /\ Prompt /\ Knowing /\ Deciding /\ Makes /\ Settling' /\ Watches'
    BY DEF Heard, Combining
<1>2. Resumed' /\ Prompt'
    BY <1>1, ResumedStep
<1>3. Knowing'
    BY <1>1, KnowingStep
<1>4. Deciding'
    BY <1>1, DecidingStep
<1> QED
    BY <1>2, <1>3, <1>4 DEF Heard

\* What is told next stays told next.
Undelayed(items, rest) ==
    \/ AllReleases(items) /\ (rest = work \/ Now.do = "release")
    \/ work = <<>>
    \/ Now.do \notin {"release", "notify"}
    \/ Now.do = "notify" /\ awaiter'[Now.p] \notin Coroutines

LEMMA NextStays ==
    ASSUME Inv, NEW items, NEW rest, Undelayed(items, rest)
    PROVE  Next_stays(items, rest)
<1>1. ASSUME NEW q \in Promises, Told_next(work, q), awaiter'[q] \in Coroutines
      PROVE  AllReleases(items) /\ (rest = work \/ Now.do = "release")
  <2>1. work # <<>> /\ (Now.do = "release" \/ (Now.do = "notify" /\ Now.p = q))
      BY <1>1, ToldNextTop
  <2> QED
      BY <1>1, <2>1 DEF Undelayed
<1> QED
    BY <1>1 DEF Next_stays

\* Steps that leave the slots as they are.
LEMMA ResumesQuiet ==
    ASSUME Inv, Heard, NEW rest, NEW items, UNCHANGED <<awaiter, co>>,
           \A m \in Promises : Watching(m)' => Watching(m) /\ combo'[m].children = combo[m].children,
           \A q \in Promises : awaiter[q] \in Coroutines /\ state'[q] \in Settled =>
                state[q] \in Settled \/ Tells(items, q),
           \A i \in DOMAIN items : items[i].do \notin {"run", "finish"},
           ~Popped(rest, "run"), ~Popped(rest, "finish"),
           Popped(rest, "notify") => awaiter[Now.p] \notin Coroutines,
           Undelayed(items, rest)
    PROVE  Resuming(items, rest)
<1>1. Slots(items, rest)
    BY DEF Slots
<1>2. Suspended_wait
    BY DEF Suspended_wait, Heard, Resumed
<1>3. Runners(items, rest)
    BY DEF Runners
<1>4. Run_first(items)
    BY DEF Run_first
<1>5. Shares_nothing
    BY DEF Shares_nothing, Children
<1>6. Next_stays(items, rest)
    BY NextStays
<1> QED
    BY <1>1, <1>2, <1>3, <1>4, <1>5, <1>6 DEF Resuming

\* Steps that leave chained promises as they are.
Newly == \A p \in Promises : state'[p] = state[p] \/ state[p] = "unborn"
Lists_stay == \A q \in Promises : q \notin freed' => q \notin freed /\ reactions'[q] = reactions[q]

LEMMA KnowsQuiet ==
    ASSUME NEW rest, NEW items, \A p \in Promises : Same_parent(p), Newly, Lists_stay,
           ~Popped(rest, "react"), ~Popped(rest, "handler"),
           Popped(rest, "settle") => state'[Now.p] \in Settled
    PROVE  Knows(items, rest)
<1>1. Lists_known
    BY DEF Lists_known, Lists_stay, ListedBy
<1>2. Told_children(items)
    BY DEF Told_children, Newly
<1>3. Passed_on(items, rest)
    BY DEF Passed_on
<1> QED
    BY <1>1, <1>2, <1>3 DEF Knows

LEMMA DecidesQuiet ==
    ASSUME NEW rest, NEW items,
           \A m \in Promises : combo'[m].mode = combo[m].mode /\ combo'[m].status = combo[m].status,
           \A i \in DOMAIN items : items[i].do # "combined",
           Popped(rest, "settle") => state'[Now.p] \in Settled
    PROVE  Decides(items, rest)
BY DEF Decides

LEMMA HeardQuietly ==
    ASSUME Inv, Inv', Grown, Combining, Combining', Heard,
           NEW rest, Leaves(rest), NEW items \in Seq(WorkItems), work' = items \o rest,
           UNCHANGED <<awaiter, co, combo>>, Newly, Lists_stay, \A p \in Promises : Same_parent(p),
           \A i \in DOMAIN items : items[i].do \notin {"run", "finish", "combined"},
           rest = work \/ Now.do \in {"release", "return", "sync"},
           Undelayed(items, rest)
    PROVE  Heard'
<1>1. \A what \in {"run", "finish", "notify", "react", "handler", "settle"} : ~Popped(rest, what)
    BY DEF Popped, Doing, Now
<1>2. \A q \in Promises : awaiter[q] \in Coroutines /\ state'[q] \in Settled => state[q] \in Settled
    BY DEF Heard, Resumed, Newly
<1>3. Resuming(items, rest)
    BY <1>1, <1>2, ResumesQuiet DEF Watching
<1>4. Knows(items, rest)
    BY <1>1, KnowsQuiet
<1>5. Decides(items, rest)
    BY <1>1, DecidesQuiet
<1> QED
    BY <1>3, <1>4, <1>5, HeardBy

\* Lua code makes its calls where nobody is about to be told.
LEMMA LuaUndelayed ==
    ASSUME InLua, NEW items, NEW rest
    PROVE  Undelayed(items, rest)
BY LuaRuns DEF Undelayed

LEMMA TopLeaves ==
    ASSUME NEW rest, work # <<>>, rest = Tail(work)
    PROVE  Leaves(rest)
BY DEF Leaves

----------------------------------------------------------------------------
(***************************************************************************)
(* That the steps of each action leave it so.                              *)
(***************************************************************************)
LEMMA SyncDoneHeard ==
    ASSUME Inv, Inv', Grown, Combining, Combining', Heard, sync_done
    PROVE  Heard'
<1>1. work # <<>> /\ Now.do = "sync"
    BY TopIs DEF sync_done
<1>2. PICK items, rest : items = <<>> /\ rest = Tail(work)
    OBVIOUS
<1>3. items \in Seq(WorkItems) /\ DOMAIN items = {}
    BY <1>2, NoItems
<1>4. /\ work' = items \o rest
      /\ UNCHANGED <<awaiter, co, combo, state, freed, reactions, origin>>
    BY <1>2 DEF sync_done, Next_do, memory, history
<1>5. Newly /\ Lists_stay /\ \A p \in Promises : Same_parent(p)
    BY <1>4 DEF Newly, Lists_stay, Same_parent
<1>6. Undelayed(items, rest)
    BY <1>1 DEF Undelayed
<1> QED
    BY <1>1, <1>2, <1>3, <1>4, <1>5, <1>6, TopLeaves, HeardQuietly

LEMMA ReturnHeard ==
    ASSUME Inv, Inv', Grown, Combining, Combining', Heard, return
    PROVE  Heard'
<1>1. work # <<>> /\ Now.do = "return"
    BY TopIs DEF return
<1>2. PICK items, rest : items = <<>> /\ rest = Tail(work)
    OBVIOUS
<1>3. items \in Seq(WorkItems) /\ DOMAIN items = {}
    BY <1>2, NoItems
<1>4. /\ work' = items \o rest
      /\ UNCHANGED <<awaiter, co, combo, state, freed, reactions, origin>>
    BY <1>2 DEF return, Next_do, memory, history
<1>5. Newly /\ Lists_stay /\ \A p \in Promises : Same_parent(p)
    BY <1>4 DEF Newly, Lists_stay, Same_parent
<1>6. Undelayed(items, rest)
    BY <1>1 DEF Undelayed
<1> QED
    BY <1>1, <1>2, <1>3, <1>4, <1>5, <1>6, TopLeaves, HeardQuietly

\* A promise that is freed loses its reactions; the others keep theirs.
LEMMA ReleaseHeard ==
    ASSUME Inv, Inv', Grown, Combining, Combining', Heard, release
    PROVE  Heard'
<1>1. work # <<>> /\ Now \in WorkItems /\ Now.do = "release"
    BY TopIs DEF release
<1>2. PICK p \in Promises : p = Now.p
    BY <1>1, ItemFields
<1>3. /\ UNCHANGED <<awaiter, co, combo, state, origin>>
      /\ \/ /\ UNCHANGED <<freed, reactions>> /\ work' = <<>> \o Tail(work)
         \/ /\ freed' = freed \cup {p} /\ reactions' = [reactions EXCEPT ![p] = <<>>]
            /\ work' = [i \in DOMAIN reactions[p] |-> Release(reactions[p][i].child)] \o Tail(work)
    BY <1>2 DEF release, Next_do, history
<1>4. Newly /\ \A q \in Promises : Same_parent(q)
    BY <1>3 DEF Newly, Same_parent
<1>5. Lists_stay
    BY <1>3 DEF Lists_stay, Inv, Typed
<1>6. PICK rest : rest = Tail(work)
    OBVIOUS
<1>7. ASSUME NEW items \in Seq(WorkItems), AllReleases(items), work' = items \o rest PROVE Heard'
  <2>1. Undelayed(items, rest)
      BY <1>1, <1>7 DEF Undelayed
  <2>2. \A i \in DOMAIN items : items[i].do \notin {"run", "finish", "combined"}
      BY <1>7 DEF AllReleases
  <2> QED
      BY <1>1, <1>3, <1>4, <1>5, <1>6, <1>7, <2>1, <2>2, TopLeaves, HeardQuietly
<1>8. CASE work' = <<>> \o Tail(work)
    BY <1>6, <1>7, <1>8, NoItems
<1>9. CASE work' = [i \in DOMAIN reactions[p] |-> Release(reactions[p][i].child)] \o Tail(work)
  <2>1. PICK items : items = [i \in DOMAIN reactions[p] |-> Release(reactions[p][i].child)]
      OBVIOUS
  <2>2. PICK rs \in Seq(Reactions) : rs = reactions[p]
      BY <1>2 DEF Inv, Typed
  <2>3. PICK n \in Nat : n = Len(rs) /\ DOMAIN rs = 1 .. n /\ \A i \in 1 .. n : rs[i] \in Reactions
      OBVIOUS
  <2>4. items = [i \in 1 .. n |-> Release(rs[i].child)]
      BY <2>1, <2>2, <2>3
  <2>5. \A i \in 1 .. n : Release(rs[i].child) \in WorkItems
      BY <2>3, ItemKinds DEF Reactions
  <2>6. items \in Seq(WorkItems) /\ DOMAIN items = 1 .. n
      BY <2>4, <2>5
  <2>7. AllReleases(items)
      BY <2>4, <2>6 DEF AllReleases, Release
  <2> QED
      BY <1>6, <1>7, <1>9, <2>1, <2>6, <2>7
<1> QED
    BY <1>3, <1>8, <1>9

LEMMA CollectHeard ==
    ASSUME Inv, Inv', Grown, Combining, Combining', Heard, NEW p \in Promises, collect(p)
    PROVE  Heard'
<1>1. /\ UNCHANGED <<awaiter, co, combo, state, freed, reactions, origin>>
      /\ work' = <<Release(p)>> \o work
    BY DEF collect, memory, history
<1>2. Newly /\ Lists_stay /\ \A q \in Promises : Same_parent(q)
    BY <1>1 DEF Newly, Lists_stay, Same_parent
<1>3. PICK items, rest : items = <<Release(p)>> /\ rest = work
    OBVIOUS
<1>4. items \in Seq(WorkItems) /\ DOMAIN items = {1} /\ items[1].do = "release"
  <2>1. Release(p) \in WorkItems /\ Release(p).do = "release"
      BY ItemKinds DEF Release
  <2> QED
      BY <1>3, <2>1
<1>5. Undelayed(items, rest)
    BY <1>3, <1>4 DEF Undelayed, AllReleases
<1> QED
    BY <1>1, <1>2, <1>3, <1>4, <1>5, HeardQuietly DEF Leaves

LEMMA CompleteHeard ==
    ASSUME Inv, Inv', Grown, Combining, Combining', Heard,
           NEW p \in Promises, NEW how \in Settled, complete(p, how)
    PROVE  Heard'
<1>1. /\ UNCHANGED <<awaiter, co, combo, state, freed, reactions, origin>>
      /\ work' = <<Settle(p, how), Release(p)>> \o work /\ InLua
    BY DEF complete, memory, history, InLua
<1>2. Newly /\ Lists_stay /\ \A q \in Promises : Same_parent(q)
    BY <1>1 DEF Newly, Lists_stay, Same_parent
<1>3. PICK items, rest : items = <<Settle(p, how), Release(p)>> /\ rest = work
    OBVIOUS
<1>4. /\ items \in Seq(WorkItems) /\ DOMAIN items = {1, 2}
      /\ items[1].do = "settle" /\ items[2].do = "release"
  <2>1. /\ Settle(p, how) \in WorkItems /\ Settle(p, how).do = "settle"
        /\ Release(p) \in WorkItems /\ Release(p).do = "release"
      BY ItemKinds DEF Settle, Release
  <2> QED
      BY <1>3, <2>1
<1>5. Undelayed(items, rest)
    BY <1>1, LuaUndelayed
<1> QED
    BY <1>1, <1>2, <1>3, <1>4, <1>5, HeardQuietly DEF Leaves

LEMMA SpawnHeard ==
    ASSUME Inv, Inv', Grown, Combining, Combining', Heard, InLua, NEW p \in Promises, state[p] = "unborn", spawn(p)
    PROVE  Heard'
<1>1. /\ UNCHANGED <<awaiter, co, combo, freed, reactions, origin>>
      /\ state' = [state EXCEPT ![p] = "pending"]
      /\ work' = <<>> \o work
    BY DEF spawn, Call, Born, history
<1>2. Newly /\ Lists_stay /\ \A q \in Promises : Same_parent(q)
    BY <1>1 DEF Newly, Lists_stay, Same_parent, Inv, Typed
<1>3. PICK items, rest : items = <<>> /\ rest = work
    OBVIOUS
<1>4. items \in Seq(WorkItems) /\ DOMAIN items = {}
    BY <1>3, NoItems
<1>5. Undelayed(items, rest)
    BY LuaUndelayed
<1> QED
    BY <1>1, <1>2, <1>3, <1>4, <1>5, HeardQuietly DEF Leaves

LEMMA SettledHeard ==
    ASSUME Inv, Inv', Grown, Combining, Combining', Heard, InLua,
           NEW p \in Promises, state[p] = "unborn", NEW how \in Settled, settled(p, how)
    PROVE  Heard'
<1>1. /\ UNCHANGED <<awaiter, co, combo, freed, reactions, origin>>
      /\ state' = [state EXCEPT ![p] = "pending"]
      /\ work' = <<Settle(p, how), Return(NoPromise, p)>> \o work
    BY DEF settled, Call, Born, history
<1>2. Newly /\ Lists_stay /\ \A q \in Promises : Same_parent(q)
    BY <1>1 DEF Newly, Lists_stay, Same_parent, Inv, Typed
<1>3. PICK items, rest : items = <<Settle(p, how), Return(NoPromise, p)>> /\ rest = work
    OBVIOUS
<1>4. /\ items \in Seq(WorkItems) /\ DOMAIN items = {1, 2}
      /\ items[1].do = "settle" /\ items[2].do = "return"
  <2>1. /\ Settle(p, how) \in WorkItems /\ Settle(p, how).do = "settle"
        /\ Return(NoPromise, p) \in WorkItems /\ Return(NoPromise, p).do = "return"
      BY ItemKinds DEF Settle, Return, SomePromise
  <2> QED
      BY <1>3, <2>1
<1>5. Undelayed(items, rest)
    BY LuaUndelayed
<1> QED
    BY <1>1, <1>2, <1>3, <1>4, <1>5, HeardQuietly DEF Leaves

LEMMA CancelHeard ==
    ASSUME Inv, Inv', Grown, Combining, Combining', Heard, InLua, NEW p \in Promises, cancel(p)
    PROVE  Heard'
<1>1. /\ UNCHANGED <<awaiter, co, combo, state, freed, reactions, origin>>
      /\ work' = <<Settle(p, "rejected"), Return(p, NoPromise)>> \o work
    BY DEF cancel, Call, memory
<1>2. Newly /\ Lists_stay /\ \A q \in Promises : Same_parent(q)
    BY <1>1 DEF Newly, Lists_stay, Same_parent
<1>3. PICK items, rest : items = <<Settle(p, "rejected"), Return(p, NoPromise)>> /\ rest = work
    OBVIOUS
<1>4. /\ items \in Seq(WorkItems) /\ DOMAIN items = {1, 2}
      /\ items[1].do = "settle" /\ items[2].do = "return"
  <2>1. /\ Settle(p, "rejected") \in WorkItems /\ Settle(p, "rejected").do = "settle"
        /\ Return(p, NoPromise) \in WorkItems /\ Return(p, NoPromise).do = "return"
      BY ItemKinds DEF Settle, Return, SomePromise, Settled
  <2> QED
      BY <1>3, <2>1
<1>5. Undelayed(items, rest)
    BY LuaUndelayed
<1> QED
    BY <1>1, <1>2, <1>3, <1>4, <1>5, HeardQuietly DEF Leaves

LEMMA AwaitSyncHeard ==
    ASSUME Inv, Inv', Grown, Combining, Combining', Heard, InLua, NEW p \in Promises, await_sync(p)
    PROVE  Heard'
<1>1. /\ UNCHANGED <<awaiter, co, combo, state, freed, reactions, origin>>
      /\ work' = <<Sync(p)>> \o work
    BY DEF await_sync, Call, memory, history
<1>2. Newly /\ Lists_stay /\ \A q \in Promises : Same_parent(q)
    BY <1>1 DEF Newly, Lists_stay, Same_parent
<1>3. PICK items, rest : items = <<Sync(p)>> /\ rest = work
    OBVIOUS
<1>4. items \in Seq(WorkItems) /\ DOMAIN items = {1} /\ items[1].do = "sync"
  <2>1. Sync(p) \in WorkItems /\ Sync(p).do = "sync"
      BY ItemKinds DEF Sync
  <2> QED
      BY <1>3, <2>1
<1>5. Undelayed(items, rest)
    BY LuaUndelayed
<1> QED
    BY <1>1, <1>2, <1>3, <1>4, <1>5, HeardQuietly DEF Leaves

LEMMA HandlerDoneHeard ==
    ASSUME Inv, Inv', Grown, Combining, Combining', Heard, handler_done
    PROVE  Heard'
<1>1. work # <<>> /\ Now \in WorkItems /\ Now.do = "handler"
    BY TopIs DEF handler_done
<1>2. PICK how \in Settled :
        work' = <<Settle(Now.r.child, Outcome(Now.r, Now.p, how)), Release(Now.r.child)>> \o Tail(work)
    BY DEF handler_done, Next_do
<1>3. PICK q, out : q = Now.r.child /\ out = Outcome(Now.r, Now.p, how)
    OBVIOUS
<1>4. q \in Promises /\ out \in Settled
  <2>1. Now.p \in Promises /\ Now.r \in Reactions
      BY <1>1, ItemFields
  <2>2. state[Now.p] \in Settled
      BY <1>1, Top DEF Sound, Doing, Now
  <2> QED
      BY <1>3, <2>1, <2>2 DEF Outcome, Reactions
<1>5. Settle(q, out) \in WorkItems /\ Release(q) \in WorkItems
    BY <1>4, ItemKinds
<1>6. PICK items, rest : items = <<Settle(q, out), Release(q)>> /\ rest = Tail(work)
    OBVIOUS
<1>7. /\ items \in Seq(WorkItems) /\ DOMAIN items = {1, 2}
      /\ items[1] = Settle(q, out) /\ items[2] = Release(q)
    BY <1>5, <1>6
<1>8. UNCHANGED <<awaiter, co, combo, state, freed, reactions, origin>> /\ work' = items \o rest
    BY <1>2, <1>3, <1>6 DEF handler_done, memory, history
<1>9. \A i \in DOMAIN items : items[i].do \notin {"run", "finish", "combined"}
    BY <1>7 DEF Settle, Release
<1>10. \A what \in {"run", "finish", "notify", "react", "settle"} : ~Popped(rest, what)
    BY <1>1 DEF Popped, Doing, Now
<1>11. Resuming(items, rest)
  <2>1. Undelayed(items, rest)
      BY <1>1 DEF Undelayed
  <2> QED
      BY <1>8, <1>9, <1>10, <2>1, ResumesQuiet DEF Watching
<1>12. Knows(items, rest)
  <2>1. Lists_known /\ Told_children(items) /\ \A p \in Promises : Same_parent(p)
      BY <1>8 DEF Lists_known, Told_children, Same_parent, ListedBy
  <2>2. Settles_now(items, Now.r.child)
      BY <1>3, <1>7 DEF Settles_now, Settle
  <2> QED
      BY <1>10, <2>1, <2>2 DEF Knows, Passed_on
<1>13. Decides(items, rest)
    BY <1>8, <1>9, <1>10, DecidesQuiet
<1> QED
    BY <1>1, <1>6, <1>7, <1>8, <1>11, <1>12, <1>13, TopLeaves, HeardBy

LEMMA ReactionHeard ==
    ASSUME Inv, Inv', Grown, Combining, Combining', Heard, execute_reaction
    PROVE  Heard'
<1>1. work # <<>> /\ Now \in WorkItems /\ Now.do = "react"
    BY TopIs DEF execute_reaction
<1>2. PICK p, r, q, rest : p = Now.p /\ r = Now.r /\ q = r.child /\ rest = Tail(work)
    OBVIOUS
<1>3. p \in Promises /\ r \in Reactions /\ q \in Promises /\ state[p] \in Settled
  <2>1. Now.p \in Promises /\ Now.r \in Reactions
      BY <1>1, ItemFields
  <2>2. state[Now.p] \in Settled
      BY <1>1, Top DEF Sound, Doing, Now
  <2> QED
      BY <1>2, <2>1, <2>2 DEF Reactions
<1>4. /\ UNCHANGED <<awaiter, co, combo, state, freed, reactions>>
      /\ \/ work' = <<Handler(p, r)>> \o rest
         \/ work' = <<Settle(q, state[p]), Release(q)>> \o rest
         \/ ~Concerns(r, p) /\ work' = <<Release(q)>> \o rest
    BY <1>2 DEF execute_reaction, Next_do, memory
<1>5. \A y \in Promises : Same_parent(y)
  <2>1. origin' = origin \/ origin' = [origin EXCEPT ![q].calls = @ + 1]
      BY <1>2 DEF execute_reaction
  <2>2. origin \in [Promises -> Origins]
      BY DEF Inv, Typed
  <2>3. \A y \in Promises : origin'[y].parent = origin[y].parent /\ origin'[y].type = origin[y].type
      BY <2>1, <2>2 DEF Origins
  <2> QED
      BY <2>3 DEF Same_parent
<1>6. \A what \in {"run", "finish", "notify", "handler", "settle"} : ~Popped(rest, what)
    BY <1>1 DEF Popped, Doing, Now
<1>7. ASSUME NEW items \in Seq(WorkItems), work' = items \o rest,
             \A i \in DOMAIN items : items[i].do \notin {"run", "finish", "combined"},
             Reacting(items, q) \/ Settles_now(items, q) \/ ~Concerns(r, p)
      PROVE  Heard'
  <2>1. Undelayed(items, rest)
      BY <1>1 DEF Undelayed
  <2>2. Resuming(items, rest)
      BY <1>4, <1>6, <1>7, <2>1, ResumesQuiet DEF Watching
  <2>3. Lists_known /\ Told_children(items)
      BY <1>4 DEF Lists_known, Told_children, ListedBy
  <2>4. Knows(items, rest)
      BY <1>2, <1>5, <1>6, <1>7, <2>3 DEF Knows, Passed_on
  <2>5. Decides(items, rest)
      BY <1>4, <1>6, <1>7, DecidesQuiet
  <2> QED
      BY <1>1, <1>2, <1>7, <2>2, <2>4, <2>5, TopLeaves, HeardBy
<1>8. Handler(p, r) \in WorkItems /\ Settle(q, state[p]) \in WorkItems /\ Release(q) \in WorkItems
    BY <1>3, ItemKinds
<1>9. CASE work' = <<Handler(p, r)>> \o rest
  <2>1. PICK items : items = <<Handler(p, r)>>
      OBVIOUS
  <2>2. items \in Seq(WorkItems) /\ DOMAIN items = {1} /\ items[1] = Handler(p, r)
      BY <1>8, <2>1
  <2>3. Reacting(items, q) /\ items[1].do = "handler"
      BY <1>2, <2>2 DEF Reacting, Handler
  <2> QED
      BY <1>7, <1>9, <2>1, <2>2, <2>3
<1>10. CASE work' = <<Settle(q, state[p]), Release(q)>> \o rest
  <2>1. PICK items : items = <<Settle(q, state[p]), Release(q)>>
      OBVIOUS
  <2>2. /\ items \in Seq(WorkItems) /\ DOMAIN items = {1, 2}
        /\ items[1] = Settle(q, state[p]) /\ items[2] = Release(q)
      BY <1>8, <2>1
  <2>3. Settles_now(items, q) /\ items[1].do = "settle" /\ items[2].do = "release"
      BY <2>2 DEF Settles_now, Settle, Release
  <2> QED
      BY <1>7, <1>10, <2>1, <2>2, <2>3
<1>11. CASE ~Concerns(r, p) /\ work' = <<Release(q)>> \o rest
  <2>1. PICK items : items = <<Release(q)>>
      OBVIOUS
  <2>2. items \in Seq(WorkItems) /\ DOMAIN items = {1} /\ items[1].do = "release"
      BY <1>8, <2>1 DEF Release
  <2> QED
      BY <1>7, <1>11, <2>1, <2>2
<1> QED
    BY <1>4, <1>9, <1>10, <1>11

\* What a promise that is settled has the stack do next.
LEMMA SettleItemsAre ==
    ASSUME Inv, NEW p \in Promises
    PROVE  \E items \in Seq(WorkItems) :
            /\ items = Reactions_of(p) \o <<Notify(p)>>
            /\ \A i \in DOMAIN items : items[i].p = p /\ items[i].do \in {"react", "notify"}
            /\ Tells(items, p)
            /\ \A q : ListedBy(p, q) => Reacting(items, q)
<1>1. PICK items : items = Reactions_of(p) \o <<Notify(p)>>
    OBVIOUS
<1>2. PICK rs \in Seq(Reactions) : rs = reactions[p]
    BY DEF Inv, Typed
<1>3. PICK n \in Nat : n = Len(rs) /\ DOMAIN rs = 1 .. n /\ \A i \in 1 .. n : rs[i] \in Reactions
    OBVIOUS
<1>4. PICK rx : rx = Reactions_of(p)
    OBVIOUS
<1>5. rx \in Seq(WorkItems) /\ Len(rx) = n /\ \A i \in 1 .. n : rx[i] = React(p, rs[i])
  <2>1. rx = [i \in 1 .. n |-> React(p, rs[i])]
      BY <1>2, <1>3, <1>4 DEF Reactions_of
  <2>2. \A i \in 1 .. n : React(p, rs[i]) \in WorkItems
      BY <1>3, ItemKinds
  <2> QED
      BY <2>1, <2>2
<1>6. Notify(p) \in WorkItems
    BY ItemKinds
<1>7. /\ items \in Seq(WorkItems) /\ DOMAIN items = 1 .. n + 1
      /\ \A i \in 1 .. n : items[i] = React(p, rs[i])
      /\ items[n + 1] = Notify(p)
  <2>1. PICK y \in WorkItems : y = Notify(p)
      BY <1>6
  <2>2. items = Append(rx, y)
      BY <1>1, <1>4, <1>5, <2>1
  <2> QED
      BY <1>3, <1>5, <2>1, <2>2
<1>8. \A i \in DOMAIN items : i \in 1 .. n \/ i = n + 1
    BY <1>7
<1>9. ASSUME NEW i \in 1 .. n
      PROVE  i \in DOMAIN items /\ items[i].p = p /\ items[i].do = "react" /\ items[i].r = rs[i]
  <2>1. PICK r, x : r = rs[i] /\ x = items[i]
      OBVIOUS
  <2>2. x = React(p, r)
      BY <1>7, <2>1
  <2>3. x.p = p /\ x.do = "react" /\ x.r = r
      BY <2>2 DEF React
  <2> QED
      BY <1>7, <2>1, <2>3
<1>10. n + 1 \in DOMAIN items /\ items[n + 1].p = p /\ items[n + 1].do = "notify"
    BY <1>7 DEF Notify
<1>11. ASSUME NEW q, ListedBy(p, q) PROVE Reacting(items, q)
  <2>1. PICK i \in 1 .. n : rs[i].child = q
      BY <1>2, <1>3, <1>11 DEF ListedBy
  <2> QED
      BY <1>9, <2>1 DEF Reacting
<1> QED
    BY <1>1, <1>7, <1>8, <1>9, <1>10, <1>11 DEF Tells

LEMMA SettleHeard ==
    ASSUME Inv, Inv', Grown, Combining, Combining', Keeping, Heard, settle
    PROVE  Heard'
<1>1. work # <<>> /\ Now \in WorkItems /\ Now.do = "settle"
    BY TopIs DEF settle
<1>2. PICK p, rest : p \in Promises /\ p = Now.p /\ rest = Tail(work)
    BY <1>1, ItemFields
<1>3. /\ UNCHANGED <<awaiter, co, combo, freed, origin>>
      /\ \/ state[p] # "pending" /\ UNCHANGED <<state, reactions>> /\ work' = <<>> \o rest
         \/ /\ state[p] = "pending"
            /\ state' = [state EXCEPT ![p] = Now.how]
            /\ reactions' = [reactions EXCEPT ![p] = <<>>]
            /\ work' = (Reactions_of(p) \o <<Notify(p)>>) \o rest
    BY <1>2 DEF settle, memory, history, Next_do, No_reactions, May_settle
<1>4. state[p] # "unborn" /\ Now.how \in Settled /\ state \in [Promises -> States]
    BY <1>1, <1>2, ItemFields, Top DEF Sound, Doing, Now, Inv, Typed
<1>5. state'[p] \in Settled /\ \A q \in Promises : q # p => state'[q] = state[q]
    BY <1>2, <1>3, <1>4 DEF States
<1>6. \A what \in {"run", "finish", "notify", "react", "handler"} : ~Popped(rest, what)
    BY <1>1 DEF Popped, Doing, Now
<1>7. p \notin freed
  <2>1. 1 \in DOMAIN work /\ Now = work[1]
      BY <1>1, WorkTyped
  <2>2. p \in Refers(work[1])
      BY <1>2, <2>1 DEF Refers
  <2> QED
      BY <2>1, <2>2, ItemAlive
<1>8. \A y \in Promises : Same_parent(y)
    BY <1>3 DEF Same_parent
<1>9. ASSUME NEW items \in Seq(WorkItems), work' = items \o rest,
             \A i \in DOMAIN items : items[i].do \in {"react", "notify"},
             state[p] \in Settled \/ (Tells(items, p) /\ \A q : ListedBy(p, q) => Reacting(items, q)),
             \A q \in Promises : q # p => reactions'[q] = reactions[q]
      PROVE  Heard'
  <2>1. Undelayed(items, rest)
      BY <1>1 DEF Undelayed
  <2>2. \A i \in DOMAIN items : items[i].do \notin {"run", "finish", "combined"}
      BY <1>9
  <2>3. \A q \in Promises : awaiter[q] \in Coroutines /\ state'[q] \in Settled =>
            state[q] \in Settled \/ Tells(items, q)
      BY <1>5, <1>9
  <2>4. Resuming(items, rest)
      BY <1>3, <1>6, <2>1, <2>2, <2>3, ResumesQuiet DEF Watching
  <2>5. Lists_known
      BY <1>3, <1>5, <1>9 DEF Lists_known, ListedBy, Settled
  <2>6. Told_children(items)
      BY <1>5, <1>7, <1>9 DEF Told_children
  <2>7. Knows(items, rest)
      BY <1>2, <1>5, <1>6, <1>8, <2>5, <2>6 DEF Knows, Passed_on
  <2>8. Decides(items, rest)
      BY <1>2, <1>3, <1>5, <2>2, DecidesQuiet
  <2> QED
      BY <1>1, <1>2, <1>9, <2>4, <2>7, <2>8, TopLeaves, HeardBy
<1>10. CASE state[p] # "pending" /\ UNCHANGED <<state, reactions>> /\ work' = <<>> \o rest
  <2>1. PICK items : items = <<>>
      OBVIOUS
  <2>2. items \in Seq(WorkItems) /\ DOMAIN items = {}
      BY <2>1, NoItems
  <2>3. state[p] \in Settled
      BY <1>2, <1>4, <1>10 DEF States
  <2> QED
      BY <1>9, <1>10, <2>1, <2>2, <2>3
<1>11. CASE /\ state[p] = "pending"
            /\ state' = [state EXCEPT ![p] = Now.how]
            /\ reactions' = [reactions EXCEPT ![p] = <<>>]
            /\ work' = (Reactions_of(p) \o <<Notify(p)>>) \o rest
  <2>1. PICK items \in Seq(WorkItems) :
            /\ items = Reactions_of(p) \o <<Notify(p)>>
            /\ \A i \in DOMAIN items : items[i].p = p /\ items[i].do \in {"react", "notify"}
            /\ Tells(items, p)
            /\ \A q : ListedBy(p, q) => Reacting(items, q)
      BY <1>2, SettleItemsAre
  <2>2. \A q \in Promises : q # p => reactions'[q] = reactions[q]
      BY <1>11 DEF Inv, Typed
  <2> QED
      BY <1>9, <1>11, <2>1, <2>2
<1> QED
    BY <1>3, <1>10, <1>11

\* What a coroutine that runs was told by has nobody else in its slot, and what a
\* combinator watches neither, unless it is about to be told.
LEMMA RunnersSlot ==
    ASSUME Inv, Heard, work # <<>>, Now.do \in {"run", "finish"}, Now.p \in Promises
    PROVE  awaiter[Now.p] \notin Coroutines
<1> SUFFICES ASSUME awaiter[Now.p] \in Coroutines PROVE FALSE
    OBVIOUS
<1>1. 1 \in DOMAIN work /\ Now = work[1]
    BY WorkTyped
<1>2. Told_next(work, Now.p)
    BY <1>1 DEF Heard, Prompt
<1>3. Now.do = "release" \/ Now.do = "notify"
    BY <1>2, ToldNextTop
<1> QED
    BY <1>3

LEMMA ChildrensSlot ==
    ASSUME Inv, Heard, work = <<>> \/ Now.do \notin {"release", "notify"},
           NEW m \in Promises, Watching(m), NEW q \in Children(m)
    PROVE  awaiter[q] \notin Coroutines
<1> SUFFICES ASSUME awaiter[q] \in Coroutines PROVE FALSE
    OBVIOUS
<1>1. Told_next(work, q)
    BY DEF Heard, Prompt
<1> QED
    BY <1>1, ToldNextTop

\* A step that empties slots no coroutine has, or fills them for combinators, and
\* lets coroutines end.
LEMMA SlotsKept ==
    ASSUME Heard, NEW items, NEW rest, ~Popped(rest, "notify"), Newly,
           \A q \in Promises : awaiter'[q] = awaiter[q]
                                \/ (awaiter[q] \notin Coroutines /\ awaiter'[q] \notin Coroutines),
           \A c \in Coroutines : co'[c].status = "suspended" =>
                co[c].status = "suspended" /\ co'[c].waiting = co[c].waiting
    PROVE  Slots(items, rest) /\ Suspended_wait
<1>1. ASSUME NEW q \in Promises, awaiter'[q] \in Coroutines
      PROVE  awaiter'[q] = awaiter[q] /\ state'[q] = state[q]
  <2>1. awaiter'[q] = awaiter[q]
      BY <1>1
  <2>2. state[q] # "unborn"
      BY <1>1, <2>1 DEF Heard, Resumed
  <2> QED
      BY <2>1, <2>2 DEF Newly
<1>2. Slots(items, rest)
    BY <1>1 DEF Slots
<1>3. ASSUME NEW c \in Coroutines, co'[c].status = "suspended"
      PROVE  co'[c].waiting \in Promises /\ awaiter'[co'[c].waiting] = c
  <2>1. PICK w \in Promises : w = co[c].waiting /\ w = co'[c].waiting /\ awaiter[w] = c
      BY <1>3 DEF Heard, Resumed
  <2>2. awaiter'[w] = awaiter[w]
      BY <2>1
  <2> QED
      BY <2>1, <2>2
<1> QED
    BY <1>2, <1>3 DEF Suspended_wait

LEMMA CombosStay ==
    ASSUME combo' = combo
    PROVE  Shares_nothing
BY DEF Shares_nothing, Watching, Children

----------------------------------------------------------------------------
LEMMA PromiseSettledHeard ==
    ASSUME Inv, Inv', Grown, Combining, Combining', Heard, laio_promise_settled
    PROVE  Heard'
<1>1. work # <<>> /\ Now \in WorkItems /\ Now.do = "notify"
    BY TopIs DEF laio_promise_settled
<1>2. PICK p, c, rest : p = Now.p /\ c = awaiter[p] /\ rest = Tail(work)
    OBVIOUS
<1>3. p \in Promises
    BY <1>1, <1>2, ItemFields
<1>4. /\ UNCHANGED <<state, combo, freed, reactions, origin>>
      /\ \/ c = NoWaiter /\ UNCHANGED <<awaiter, co>> /\ work' = <<>> \o rest
         \/ /\ c \in Coroutines
            /\ awaiter' = [awaiter EXCEPT ![p] = NoWaiter]
            /\ co' = [co EXCEPT ![c].status = "running"]
            /\ work' = <<Run(c, p)>> \o rest
    BY <1>2 DEF laio_promise_settled, memory, history, Next_do
<1>5. Newly /\ Lists_stay /\ \A q \in Promises : Same_parent(q)
    BY <1>4 DEF Newly, Lists_stay, Same_parent
<1>6. \A what \in {"run", "finish", "react", "handler", "settle"} : ~Popped(rest, what)
    BY <1>1 DEF Popped, Doing, Now
<1>7. CASE c = NoWaiter /\ UNCHANGED <<awaiter, co>> /\ work' = <<>> \o rest
  <2>1. PICK items : items = <<>>
      OBVIOUS
  <2>2. items \in Seq(WorkItems) /\ DOMAIN items = {}
      BY <2>1, NoItems
  <2>3. awaiter[Now.p] \notin Coroutines /\ awaiter'[Now.p] \notin Coroutines
      BY <1>2, <1>7, PromiseAssumption
  <2>4. Undelayed(items, rest)
      BY <1>1, <2>3 DEF Undelayed
  <2>5. Resuming(items, rest)
      BY <1>4, <1>6, <1>7, <2>2, <2>3, <2>4, ResumesQuiet DEF Watching
  <2>6. Knows(items, rest) /\ Decides(items, rest)
      BY <1>4, <1>5, <1>6, <2>2, KnowsQuiet, DecidesQuiet
  <2> QED
      BY <1>1, <1>2, <1>7, <2>1, <2>2, <2>5, <2>6, TopLeaves, HeardBy
<1>8. CASE /\ c \in Coroutines
           /\ awaiter' = [awaiter EXCEPT ![p] = NoWaiter]
           /\ co' = [co EXCEPT ![c].status = "running"]
           /\ work' = <<Run(c, p)>> \o rest
  <2>1. PICK items : items = <<Run(c, p)>>
      OBVIOUS
  <2>2. Run(c, p) \in WorkItems
      BY <1>3, <1>8, ItemKinds DEF SomePromise
  <2>3. /\ items \in Seq(WorkItems) /\ DOMAIN items = {1}
        /\ items[1].do = "run" /\ items[1].c = c /\ items[1].p = p
      BY <2>1, <2>2 DEF Run
  <2>4. awaiter'[p] \notin Coroutines /\ \A q \in Promises : q # p => awaiter'[q] = awaiter[q]
      BY <1>3, <1>8, PromiseAssumption DEF Inv, Typed
  <2>5. co'[c].status = "running" /\ \A d \in Coroutines : d # c => co'[d] = co[d]
      BY <1>8 DEF Inv, Typed, Contexts
  <2>6. Undelayed(items, rest)
      BY <1>1, <1>2, <2>4 DEF Undelayed
  <2>7. Slots(items, rest)
      BY <1>2, <1>4, <2>4 DEF Slots
  <2>8. Suspended_wait
    <3>1. ASSUME NEW d \in Coroutines, co'[d].status = "suspended"
          PROVE  co'[d].waiting \in Promises /\ awaiter'[co'[d].waiting] = d
      <4>1. d # c /\ co'[d] = co[d]
          BY <2>5, <3>1
      <4>2. PICK w \in Promises : w = co[d].waiting /\ awaiter[w] = d
          BY <3>1, <4>1 DEF Heard, Resumed
      <4>3. w # p
          BY <1>2, <4>1, <4>2
      <4> QED
          BY <2>4, <4>1, <4>2, <4>3
    <3> QED
        BY <3>1 DEF Suspended_wait
  <2>9. Runners(items, rest)
    <3>1. Busy(items, c)
        BY <2>3 DEF Busy
    <3> QED
        BY <1>6, <2>5, <3>1 DEF Runners
  <2>10. Run_first(items) /\ Shares_nothing /\ Next_stays(items, rest)
      BY <1>4, <2>3, <2>4, <2>6, NextStays DEF Run_first, Shares_nothing, Watching, Children
  <2>11. Knows(items, rest)
      BY <1>5, <1>6, KnowsQuiet
  <2>12. Decides(items, rest)
      BY <1>4, <1>6, <2>3, DecidesQuiet
  <2>13. Resuming(items, rest)
      BY <2>7, <2>8, <2>9, <2>10 DEF Resuming
  <2> QED
      BY <1>1, <1>2, <1>8, <2>1, <2>3, <2>11, <2>12, <2>13, TopLeaves, HeardBy
<1> QED
    BY <1>4, <1>7, <1>8

LEMMA CoroutineDoneHeard ==
    ASSUME Inv, Inv', Grown, Combining, Combining', Heard, coroutine_done
    PROVE  Heard'
<1>1. work # <<>> /\ Now \in WorkItems /\ Now.do = "run"
    BY TopIs DEF coroutine_done
<1>2. PICK c, p, q, rest : c = Now.c /\ p = Now.p /\ q = co[c].result /\ rest = Tail(work)
    OBVIOUS
<1>3. c \in Coroutines /\ p \in SomePromise /\ q \in Promises
  <2>1. c \in Coroutines /\ p \in SomePromise
      BY <1>1, <1>2, ItemFields
  <2>2. co[c].status = "running"
      BY <1>1, <1>2, Top DEF Sound, Doing, Now
  <2> QED
      BY <1>2, <2>1, <2>2 DEF Inv, Waits, Root
<1>4. PICK how \in Settled :
        /\ work' = <<Settle(q, how), Finish(c, p, how)>> \o rest
        /\ awaiter' = IF how = "rejected" THEN Cleared(p) ELSE awaiter
    BY <1>2 DEF coroutine_done, Next_do
<1>5. UNCHANGED <<state, combo, co, freed, reactions, origin>>
    BY DEF coroutine_done, memory, history
<1>6. Newly /\ Lists_stay /\ \A y \in Promises : Same_parent(y)
    BY <1>5 DEF Newly, Lists_stay, Same_parent
<1>7. \A what \in {"finish", "notify", "react", "handler", "settle"} : ~Popped(rest, what)
    BY <1>1 DEF Popped, Doing, Now
<1>8. p \in Promises => awaiter[p] \notin Coroutines
    BY <1>1, <1>2, RunnersSlot
<1>9. /\ \A y \in Promises : awaiter'[y] = awaiter[y]
                             \/ (awaiter[y] \notin Coroutines /\ awaiter'[y] \notin Coroutines)
      /\ p \in Promises => awaiter'[p] \notin Coroutines
  <2>1. NoWaiter \notin Coroutines
      BY PromiseAssumption
  <2>2. CASE how = "rejected"
      BY <1>4, <1>8, <2>1, <2>2 DEF Cleared
  <2>3. CASE how # "rejected"
      BY <1>4, <1>8, <2>3
  <2> QED
      BY <2>2, <2>3
<1>10. PICK items : items = <<Settle(q, how), Finish(c, p, how)>>
    OBVIOUS
<1>11. Settle(q, how) \in WorkItems /\ Finish(c, p, how) \in WorkItems
    BY <1>3, ItemKinds
<1>12. /\ items \in Seq(WorkItems) /\ DOMAIN items = {1, 2} /\ items[1].do = "settle"
       /\ items[2].do = "finish" /\ items[2].c = c /\ items[2].p = p
    BY <1>10, <1>11 DEF Settle, Finish
<1>13. Slots(items, rest) /\ Suspended_wait
    BY <1>5, <1>6, <1>7, <1>9, SlotsKept
<1>14. Runners(items, rest)
  <2>1. Busy(items, c)
      BY <1>12 DEF Busy
  <2> QED
      BY <1>2, <1>5, <1>7, <2>1 DEF Runners
<1>15. Run_first(items)
    BY <1>9, <1>12 DEF Run_first
<1>16. Shares_nothing
    BY <1>5, CombosStay
<1>17. Next_stays(items, rest)
  <2>1. Undelayed(items, rest)
      BY <1>1 DEF Undelayed
  <2> QED
      BY <2>1, NextStays
<1>18. Resuming(items, rest)
    BY <1>13, <1>14, <1>15, <1>16, <1>17 DEF Resuming
<1>19. Knows(items, rest)
    BY <1>6, <1>7, KnowsQuiet
<1>20. Decides(items, rest)
    BY <1>5, <1>7, <1>12, DecidesQuiet
<1> QED
    BY <1>1, <1>2, <1>4, <1>10, <1>12, <1>18, <1>19, <1>20, TopLeaves, HeardBy

LEMMA CoroutineFreeHeard ==
    ASSUME Inv, Inv', Grown, Combining, Combining', Heard, coroutine_free
    PROVE  Heard'
<1>1. work # <<>> /\ Now \in WorkItems /\ Now.do = "finish"
    BY TopIs DEF coroutine_free
<1>2. PICK c, p, q, rest : c = Now.c /\ p = Now.p /\ q = co[c].waiting /\ rest = Tail(work)
    OBVIOUS
<1>3. c \in Coroutines /\ p \in SomePromise /\ q \in SomePromise /\ co \in [Coroutines -> Contexts]
  <2>1. c \in Coroutines /\ p \in SomePromise
      BY <1>1, <1>2, ItemFields
  <2> QED
      BY <1>2, <2>1 DEF Inv, Typed, Contexts
<1>4. /\ UNCHANGED <<state, combo, freed, reactions, origin>>
      /\ co' = [co EXCEPT ![c] = [NoContext EXCEPT !.status = "done"]]
      /\ awaiter' = IF Now.how = "fulfilled" THEN Cleared(p) ELSE awaiter
      /\ \/ work' = <<>> \o rest
         \/ q # NoPromise /\ work' = <<Release(q)>> \o rest
    BY <1>2 DEF coroutine_free, memory, history, Next_do
<1>5. co'[c].status = "done" /\ \A d \in Coroutines : d # c => co'[d] = co[d]
    BY <1>3, <1>4 DEF NoContext
<1>6. Newly /\ Lists_stay /\ \A y \in Promises : Same_parent(y)
    BY <1>4 DEF Newly, Lists_stay, Same_parent
<1>7. \A what \in {"run", "notify", "react", "handler", "settle"} : ~Popped(rest, what)
    BY <1>1 DEF Popped, Doing, Now
<1>8. p \in Promises => awaiter[p] \notin Coroutines
    BY <1>1, <1>2, RunnersSlot
<1>9. \A y \in Promises : awaiter'[y] = awaiter[y]
                             \/ (awaiter[y] \notin Coroutines /\ awaiter'[y] \notin Coroutines)
  <2>1. NoWaiter \notin Coroutines
      BY PromiseAssumption
  <2>2. CASE Now.how = "fulfilled"
      BY <1>4, <1>8, <2>1, <2>2 DEF Cleared
  <2>3. CASE Now.how # "fulfilled"
      BY <1>4, <2>3
  <2> QED
      BY <2>2, <2>3
<1>10. ASSUME NEW items \in Seq(WorkItems), work' = items \o rest, AllReleases(items) PROVE Heard'
  <2>1. Slots(items, rest) /\ Suspended_wait
      BY <1>5, <1>6, <1>7, <1>9, SlotsKept
  <2>2. Runners(items, rest)
      BY <1>2, <1>5, <1>7 DEF Runners
  <2>3. Run_first(items)
      BY <1>10 DEF Run_first, AllReleases
  <2>4. Shares_nothing
      BY <1>4, CombosStay
  <2>5. Next_stays(items, rest)
    <3>1. Undelayed(items, rest)
        BY <1>1 DEF Undelayed
    <3> QED
        BY <3>1, NextStays
  <2>6. Resuming(items, rest)
      BY <2>1, <2>2, <2>3, <2>4, <2>5 DEF Resuming
  <2>7. Knows(items, rest)
      BY <1>6, <1>7, KnowsQuiet
  <2>8. Decides(items, rest)
      BY <1>4, <1>7, <1>10, DecidesQuiet DEF AllReleases
  <2> QED
      BY <1>1, <1>2, <1>10, <2>6, <2>7, <2>8, TopLeaves, HeardBy
<1>11. CASE work' = <<>> \o rest
    BY <1>10, <1>11, NoItems
<1>12. CASE q # NoPromise /\ work' = <<Release(q)>> \o rest
  <2>1. PICK items : items = <<Release(q)>>
      OBVIOUS
  <2>2. Release(q) \in WorkItems /\ Release(q).do = "release"
      BY <1>3, <1>12, ItemKinds DEF SomePromise, Release
  <2>3. items \in Seq(WorkItems) /\ AllReleases(items)
      BY <2>1, <2>2 DEF AllReleases
  <2> QED
      BY <1>10, <1>12, <2>1, <2>3
<1> QED
    BY <1>4, <1>11, <1>12

\* The coroutine that runs is suspended and takes the slot of a promise nobody
\* waits for; one that is settled already tells it next.
LEMMA SuspendHeard ==
    ASSUME Inv, Inv', Grown, Combining, Combining', Heard, Doing("run"),
           UNCHANGED <<state, freed, reactions, origin, combo>>,
           NEW q \in Promises, awaiter[q] = NoWaiter, handle[q] = "held",
           awaiter' = [awaiter EXCEPT ![q] = Now.c],
           co' = [co EXCEPT ![Now.c].status = "suspended", ![Now.c].waiting = q],
           NEW items \in Seq(WorkItems), work' = items \o Tail(work),
           \A i \in DOMAIN items : items[i].do \in {"release", "notify"},
           state[q] \in Settled => Told_next(items, q)
    PROVE  Heard'
<1>1. work # <<>> /\ Now \in WorkItems /\ Now.do = "run"
    BY TopIs
<1>2. PICK c, rest : c = Now.c /\ rest = Tail(work)
    OBVIOUS
<1>3. c \in Coroutines /\ NoWaiter \notin Coroutines
    BY <1>1, <1>2, ItemFields, PromiseAssumption
<1>4. /\ co'[c].status = "suspended" /\ co'[c].waiting = q
      /\ \A d \in Coroutines : d # c => co'[d] = co[d]
    BY <1>2, <1>3 DEF Inv, Typed, Contexts
<1>5. awaiter'[q] = c /\ \A y \in Promises : y # q => awaiter'[y] = awaiter[y]
    BY <1>2 DEF Inv, Typed
<1>6. Newly /\ Lists_stay /\ \A y \in Promises : Same_parent(y)
    BY DEF Newly, Lists_stay, Same_parent
<1>7. \A what \in {"finish", "notify", "react", "handler", "settle"} : ~Popped(rest, what)
    BY <1>1 DEF Popped, Doing, Now
<1>8. Slots(items, rest)
  <2>1. state[q] = "pending" \/ state[q] \in Settled
    <3>1. state[q] # "unborn" /\ state[q] \in States
        BY DEF Inv, Typed, Births
    <3> QED
        BY <3>1 DEF States
  <2>2. \A y \in Promises : y # q => awaiter'[y] = awaiter[y] /\ ~(Popped(rest, "notify") /\ Now.p = y)
      BY <1>5, <1>7
  <2>3. \A y \in Promises : state'[y] = state[y]
      OBVIOUS
  <2> QED
      BY <2>1, <2>2, <2>3 DEF Slots
<1>9. Suspended_wait
  <2>1. ASSUME NEW d \in Coroutines, co'[d].status = "suspended"
        PROVE  co'[d].waiting \in Promises /\ awaiter'[co'[d].waiting] = d
    <3>1. CASE d = c
        BY <1>4, <1>5, <3>1
    <3>2. CASE d # c
      <4>1. PICK w \in Promises : w = co[d].waiting /\ awaiter[w] = d /\ co'[d] = co[d]
          BY <1>4, <2>1, <3>2 DEF Heard, Resumed
      <4>2. w # q
          BY <1>3, <4>1
      <4> QED
          BY <1>5, <4>1, <4>2
    <3> QED
        BY <3>1, <3>2
  <2> QED
      BY <2>1 DEF Suspended_wait
<1>10. Runners(items, rest)
    BY <1>2, <1>4, <1>7 DEF Runners
<1>11. Run_first(items) /\ Shares_nothing
    BY CombosStay DEF Run_first
<1>12. Next_stays(items, rest)
  <2>1. Undelayed(items, rest)
      BY <1>1 DEF Undelayed
  <2> QED
      BY <2>1, NextStays
<1>13. Resuming(items, rest)
    BY <1>8, <1>9, <1>10, <1>11, <1>12 DEF Resuming
<1>14. Knows(items, rest)
    BY <1>6, <1>7, KnowsQuiet
<1>15. Decides(items, rest)
    BY <1>7, DecidesQuiet
<1> QED
    BY <1>1, <1>2, <1>13, <1>14, <1>15, TopLeaves, HeardBy

LEMMA WaitHeard ==
    ASSUME Inv, Inv', Grown, Combining, Combining', Heard, "share" \notin Allowed, wait
    PROVE  Heard'
<1>1. Doing("run") /\ UNCHANGED <<state, freed, reactions, origin, combo>>
    BY DEF wait, history
<1>2. PICK q \in Promises :
        /\ handle[q] = "held" /\ awaiter[q] = NoWaiter
        /\ \/ UNCHANGED <<awaiter, co, work>>
           \/ /\ state[q] = "pending"
              /\ awaiter' = [awaiter EXCEPT ![q] = Now.c]
              /\ co' = [co EXCEPT ![Now.c].status = "suspended", ![Now.c].waiting = q]
              /\ work' = <<>> \o Tail(work)
    BY DEF wait, Next_do
<1>3. PICK items : items = <<>>
    OBVIOUS
<1>4. items \in Seq(WorkItems) /\ DOMAIN items = {}
    BY <1>3, NoItems
<1>5. CASE UNCHANGED <<awaiter, co, work>>
  <2>1. Newly /\ Lists_stay /\ \A y \in Promises : Same_parent(y)
      BY <1>1 DEF Newly, Lists_stay, Same_parent
  <2>2. PICK rest : rest = work
      OBVIOUS
  <2>3. work' = items \o rest
      BY <1>3, <1>5, <2>2, WorkTyped
  <2>4. Undelayed(items, rest)
      BY <1>1, LuaUndelayed DEF InLua
  <2> QED
      BY <1>1, <1>4, <1>5, <2>1, <2>2, <2>3, <2>4, HeardQuietly DEF Leaves
<1>6. CASE /\ state[q] = "pending"
           /\ awaiter' = [awaiter EXCEPT ![q] = Now.c]
           /\ co' = [co EXCEPT ![Now.c].status = "suspended", ![Now.c].waiting = q]
           /\ work' = <<>> \o Tail(work)
    BY <1>1, <1>2, <1>3, <1>4, <1>6, SuspendHeard DEF Settled
<1> QED
    BY <1>2, <1>5, <1>6

LEMMA AwaitHeard ==
    ASSUME Inv, Inv', Grown, Combining, Combining', Heard, "share" \notin Allowed, await
    PROVE  Heard'
<1>1. Doing("run") /\ UNCHANGED <<state, freed, reactions, origin, combo>>
    BY DEF await, history
<1>2. PICK old, rest : old = co[Now.c].waiting /\ rest = Tail(work)
    OBVIOUS
<1>3. PICK q \in Promises :
        /\ handle[q] = "held" /\ awaiter[q] = NoWaiter
        /\ awaiter' = [awaiter EXCEPT ![q] = Now.c]
        /\ co' = [co EXCEPT ![Now.c].status = "suspended", ![Now.c].waiting = q]
        /\ work' = ((IF old = NoPromise THEN <<>> ELSE <<Release(old)>>)
                    \o (IF state[q] \in Settled THEN <<Notify(q)>> ELSE <<>>)) \o rest
    BY <1>2 DEF await, Await_settled, Next_do
<1>4. Release(old).do = "release" /\ (old # NoPromise => Release(old) \in WorkItems)
  <2>1. Now.c \in Coroutines
      BY <1>1, TopIs, ItemFields
  <2>2. old \in SomePromise
      BY <1>2, <2>1 DEF Inv, Typed, Contexts
  <2> QED
      BY <2>2, ItemKinds DEF Release, SomePromise
<1>5. Notify(q).do = "notify" /\ Notify(q) \in WorkItems /\ Notify(q).p = q
    BY <1>3, ItemKinds DEF Notify
<1>6. ASSUME NEW items \in Seq(WorkItems), work' = items \o rest,
             \A i \in DOMAIN items : items[i].do \in {"release", "notify"},
             state[q] \in Settled => Told_next(items, q)
      PROVE  Heard'
    BY <1>1, <1>2, <1>3, <1>6, SuspendHeard
<1>7. CASE old = NoPromise /\ state[q] \notin Settled
  <2>1. PICK items : items = <<>>
      OBVIOUS
  <2>2. items \in Seq(WorkItems) /\ DOMAIN items = {}
      BY <2>1, NoItems
  <2>3. work' = items \o rest
      BY <1>3, <1>7, <2>1
  <2> QED
      BY <1>6, <1>7, <2>2, <2>3
<1>8. CASE old = NoPromise /\ state[q] \in Settled
  <2>1. PICK items : items = <<Notify(q)>>
      OBVIOUS
  <2>2. items \in Seq(WorkItems) /\ DOMAIN items = {1} /\ items[1] = Notify(q)
      BY <1>5, <2>1
  <2>3. Told_next(items, q) /\ \A i \in DOMAIN items : items[i].do \in {"release", "notify"}
      BY <1>5, <2>2 DEF Told_next
  <2>4. work' = items \o rest
      BY <1>3, <1>5, <1>8, <2>1
  <2> QED
      BY <1>6, <1>8, <2>2, <2>3, <2>4
<1>9. CASE old # NoPromise /\ state[q] \notin Settled
  <2>1. PICK items : items = <<Release(old)>>
      OBVIOUS
  <2>2. items \in Seq(WorkItems) /\ DOMAIN items = {1} /\ items[1] = Release(old)
      BY <1>4, <1>9, <2>1
  <2>3. work' = items \o rest
      BY <1>3, <1>9, <2>1, <2>2
  <2> QED
      BY <1>4, <1>6, <1>9, <2>2, <2>3
<1>10. CASE old # NoPromise /\ state[q] \in Settled
  <2>1. PICK x \in WorkItems, y \in WorkItems : x = Release(old) /\ y = Notify(q)
      BY <1>4, <1>5, <1>10
  <2>2. PICK items : items = <<x, y>>
      OBVIOUS
  <2>3. <<x>> \o <<y>> = items
      BY <2>2, PairOf
  <2>4. work' = (<<x>> \o <<y>>) \o rest
      BY <1>3, <1>10, <2>1
  <2>5. items \in Seq(WorkItems) /\ DOMAIN items = {1, 2} /\ items[1] = x /\ items[2] = y
      BY <2>2
  <2>6. Told_next(items, q)
    <3>1. 2 \in DOMAIN items /\ items[2].do = "notify" /\ items[2].p = q
        BY <1>5, <2>1, <2>5
    <3>2. \A k \in DOMAIN items : k < 2 => items[k].do = "release"
        BY <1>4, <2>1, <2>5
    <3> QED
        BY <3>1, <3>2 DEF Told_next
  <2>7. \A i \in DOMAIN items : items[i].do \in {"release", "notify"}
      BY <1>4, <1>5, <2>1, <2>5
  <2> QED
      BY <1>6, <2>3, <2>4, <2>5, <2>6, <2>7
<1> QED
    BY <1>7, <1>8, <1>9, <1>10

LEMMA RunAsyncHeard ==
    ASSUME Inv, Inv', Grown, Combining, Combining', Heard, InLua,
           NEW c \in Coroutines, NEW p \in Promises, state[p] = "unborn", run_async(c, p)
    PROVE  Heard'
<1>1. /\ UNCHANGED <<awaiter, combo, freed, reactions, origin>>
      /\ state' = [state EXCEPT ![p] = "pending"]
      /\ co[c].status = "unused"
      /\ co' = [co EXCEPT ![c] = [status |-> "running", result |-> p, waiting |-> NoPromise]]
      /\ work' = <<Run(c, NoPromise), Return(NoPromise, p)>> \o work
    BY DEF run_async, Call, Born, history
<1>2. Newly /\ Lists_stay /\ \A q \in Promises : Same_parent(q)
    BY <1>1 DEF Newly, Lists_stay, Same_parent, Inv, Typed
<1>3. PICK items, rest : items = <<Run(c, NoPromise), Return(NoPromise, p)>> /\ rest = work
    OBVIOUS
<1>4. /\ items \in Seq(WorkItems) /\ DOMAIN items = {1, 2} /\ items[2].do = "return"
      /\ items[1].do = "run" /\ items[1].c = c /\ items[1].p = NoPromise
  <2>1. /\ Run(c, NoPromise) \in WorkItems /\ Return(NoPromise, p) \in WorkItems
        /\ Run(c, NoPromise).do = "run" /\ Run(c, NoPromise).c = c /\ Run(c, NoPromise).p = NoPromise
        /\ Return(NoPromise, p).do = "return"
      BY ItemKinds DEF Run, Return, SomePromise
  <2> QED
      BY <1>3, <2>1
<1>5. \A what : ~Popped(rest, what)
    BY <1>3 DEF Popped
<1>6. co'[c].status = "running" /\ \A d \in Coroutines : d # c => co'[d] = co[d]
    BY <1>1 DEF Inv, Typed
<1>7. Slots(items, rest) /\ Suspended_wait
  <2>1. \A q \in Promises : awaiter'[q] = awaiter[q]
      BY <1>1
  <2>2. \A d \in Coroutines : co'[d].status = "suspended" =>
            co[d].status = "suspended" /\ co'[d].waiting = co[d].waiting
      BY <1>6
  <2> QED
      BY <1>2, <1>5, <2>1, <2>2, SlotsKept
<1>8. Runners(items, rest)
  <2>1. Busy(items, c)
      BY <1>4 DEF Busy
  <2> QED
      BY <1>5, <1>6, <2>1 DEF Runners
<1>9. Run_first(items) /\ Shares_nothing
    BY <1>1, <1>4, CombosStay, PromiseAssumption DEF Run_first
<1>10. Next_stays(items, rest)
    BY LuaUndelayed, NextStays
<1>11. Resuming(items, rest)
    BY <1>7, <1>8, <1>9, <1>10 DEF Resuming
<1>12. Knows(items, rest)
    BY <1>2, <1>5, KnowsQuiet
<1>13. Decides(items, rest)
    BY <1>1, <1>4, <1>5, DecidesQuiet
<1> QED
    BY <1>1, <1>3, <1>4, <1>11, <1>12, <1>13, HeardBy DEF Leaves

LEMMA ChainHeard ==
    ASSUME Inv, Inv', Grown, Combining, Combining', Heard, InLua,
           NEW p \in Promises, NEW type \in Types, NEW handler \in BOOLEAN,
           NEW child \in Promises, state[child] = "unborn", chain(p, type, handler, child)
    PROVE  Heard'
<1>1. Typed /\ Births /\ Lists
    BY DEF Inv
<1>2. /\ UNCHANGED <<awaiter, co, combo, freed>> /\ handle[p] = "held"
      /\ state' = [state EXCEPT ![child] = "pending"]
      /\ origin' = [origin EXCEPT ![child] = [parent |-> p, type |-> type, handler |-> handler, calls |-> 0]]
    BY DEF chain, Born, owners
<1>3. /\ p # child /\ state'[p] = state[p] /\ state[p] # "unborn"
      /\ \A q \in Promises : q # child => state'[q] = state[q] /\ Same_parent(q)
      /\ state'[child] = "pending" /\ origin'[child].parent = p
    BY <1>1, <1>2 DEF Typed, Births, Same_parent
<1>4. PICK r \in Reactions : r = [type |-> type, handler |-> handler, child |-> child] /\ r.child = child
  <2>1. [type |-> type, handler |-> handler, child |-> child] \in Reactions
      BY DEF Reactions
  <2> QED
      BY <2>1
<1>5. PICK rs, all : rs \in Seq(Reactions) /\ rs = reactions[p] /\ all = <<r>> \o rs
    BY <1>1 DEF Typed
<1>6. /\ Return(p, child) \in WorkItems /\ Return(p, child).do = "return"
      /\ React(p, r) \in WorkItems /\ React(p, r).do = "react" /\ React(p, r).r = r
    BY ItemKinds DEF SomePromise, Return, React
<1>7. PICK rest : rest = work
    OBVIOUS
<1>8. \A what : ~Popped(rest, what)
    BY <1>7 DEF Popped
<1>9. ASSUME NEW items \in Seq(WorkItems), work' = items \o rest,
             \A i \in DOMAIN items : items[i].do \in {"react", "return"},
             \/ state[p] = "pending" /\ ListedBy(p, child)'
             \/ state[p] \in Settled /\ Reacting(items, child),
             \A q \in Promises : state[q] = "pending" => \A y : ListedBy(q, y) => ListedBy(q, y)'
      PROVE  Heard'
  <2>1. \A q \in Promises : awaiter[q] \in Coroutines /\ state'[q] \in Settled => state[q] \in Settled
      BY <1>3 DEF Settled
  <2>2. Resuming(items, rest)
      BY <1>2, <1>8, <1>9, <2>1, LuaUndelayed, ResumesQuiet DEF Watching
  <2>3. Lists_known
    <3>1. ASSUME NEW q \in Promises, NEW y, state'[q] = "pending", q \notin freed'
          PROVE  state[q] # "pending" \/ (q \notin freed /\ (ListedBy(q, y) => ListedBy(q, y)'))
        BY <1>2, <1>9, <3>1
    <3> QED
        BY <3>1 DEF Lists_known
  <2>4. Told_children(items)
      BY <1>3 DEF Told_children, Settled
  <2>5. Known(child, p)'
    <3>1. Reacting(items, child) => Reacting(work', child)
        BY <1>7, <1>9, KindsStay DEF Leaves
    <3>2. state[p] = "pending" => state[p] \notin Settled
        BY DEF Settled
    <3> QED
        BY <1>3, <1>9, <3>1, <3>2 DEF Known, Reacting, Settled
  <2>6. Knows(items, rest)
    <3>1. Passed_on(items, rest)
        BY <1>8 DEF Passed_on
    <3>2. \A q \in Promises : Same_parent(q) \/ (origin'[q].parent # NoPromise => Known(q, origin[q].parent)')
        BY <1>3, <2>5
    <3> QED
        BY <2>3, <2>4, <3>1, <3>2 DEF Knows
  <2>7. Decides(items, rest)
      BY <1>2, <1>8, <1>9, DecidesQuiet
  <2> QED
      BY <1>7, <1>9, <2>2, <2>6, <2>7, HeardBy DEF Leaves
<1>10. CASE state[p] = "pending"
  <2>1. reactions' = [reactions EXCEPT ![p] = all] /\ work' = <<Return(p, child)>> \o work
      BY <1>4, <1>5, <1>10 DEF chain, Call, Settled
  <2>2. reactions'[p] = all /\ \A q \in Promises : q # p => reactions'[q] = reactions[q]
      BY <1>1, <2>1 DEF Typed
  <2>3. /\ 1 \in DOMAIN all /\ all[1] = r
        /\ \A i \in DOMAIN rs : i + 1 \in DOMAIN all /\ all[i + 1] = rs[i]
    <3>1. PICK one \in Seq(Reactions) : one = <<r>> /\ Len(one) = 1 /\ one[1] = r
      <4>1. <<r>> \in Seq(Reactions) /\ Len(<<r>>) = 1 /\ <<r>>[1] = r
          OBVIOUS
      <4> QED
          BY <4>1
    <3>2. all = one \o rs
        BY <1>5, <3>1
    <3> QED
        BY <1>5, <3>1, <3>2
  <2>4. ListedBy(p, child)'
      BY <1>4, <2>2, <2>3 DEF ListedBy
  <2>5. ASSUME NEW q \in Promises, NEW y, ListedBy(q, y) PROVE ListedBy(q, y)'
    <3>1. CASE q = p
      <4>1. PICK i \in DOMAIN rs : rs[i].child = y
          BY <1>5, <2>5, <3>1 DEF ListedBy
      <4> QED
          BY <2>2, <2>3, <3>1, <4>1 DEF ListedBy
    <3>2. CASE q # p
        BY <2>2, <2>5, <3>2 DEF ListedBy
    <3> QED
        BY <3>1, <3>2
  <2>6. PICK items : items = <<Return(p, child)>>
      OBVIOUS
  <2>7. items \in Seq(WorkItems) /\ DOMAIN items = {1} /\ items[1].do = "return" /\ work' = items \o rest
      BY <1>6, <1>7, <2>1, <2>6
  <2> QED
      BY <1>9, <1>10, <2>4, <2>5, <2>7
<1>11. CASE state[p] \in Settled
  <2>1. rs = <<>>
      BY <1>1, <1>5, <1>11 DEF Lists, ListOK, Settled
  <2>2. DOMAIN all = {1} /\ all[1] = r
      BY <1>5, <2>1
  <2>3. /\ reactions' = [reactions EXCEPT ![p] = <<>>]
        /\ work' = ([i \in DOMAIN all |-> React(p, all[i])] \o <<Return(p, child)>>) \o work
      BY <1>4, <1>5, <1>11 DEF chain, Call, Settled
  <2>4. PICK x \in WorkItems, y \in WorkItems : x = React(p, r) /\ y = Return(p, child)
      BY <1>6
  <2>5. [i \in DOMAIN all |-> React(p, all[i])] = <<x>>
      BY <2>2, <2>4
  <2>6. PICK items : items = <<x, y>>
      OBVIOUS
  <2>7. /\ items \in Seq(WorkItems) /\ DOMAIN items = {1, 2} /\ items[1] = x /\ items[2] = y
        /\ work' = items \o rest
    <3>1. <<x>> \o <<y>> = <<x, y>>
        BY PairOf
    <3> QED
        BY <1>7, <2>3, <2>4, <2>5, <2>6, <3>1
  <2>8. \A q \in Promises : reactions'[q] = reactions[q]
      BY <1>1, <1>5, <2>1, <2>3 DEF Typed
  <2>9. \A q \in Promises : \A z : ListedBy(q, z) => ListedBy(q, z)'
      BY <2>8 DEF ListedBy
  <2>10. Reacting(items, child)
      BY <1>4, <1>6, <2>4, <2>7 DEF Reacting
  <2>11. \A i \in DOMAIN items : items[i].do \in {"react", "return"}
      BY <1>6, <2>4, <2>7
  <2> QED
      BY <1>9, <1>11, <2>7, <2>9, <2>10, <2>11
<1> QED
    BY <1>10, <1>11 DEF chain

LEMMA ComposeSettledHeard ==
    ASSUME Inv, Inv', Grown, Combining, Combining', Heard, compose_on_settled
    PROVE  Heard'
<1>1. work # <<>> /\ Now \in WorkItems /\ Now.do = "notify"
    BY TopIs DEF compose_on_settled
<1>2. PICK m, how, verdict, rest :
        m = awaiter[Now.p] /\ how = state[Now.p] /\ verdict = Decision(m, how) /\ rest = Tail(work)
    OBVIOUS
<1>3. /\ m \in Promises /\ Now.p \in Promises /\ how \in Settled
      /\ combo \in [Promises -> Combos]
  <2>1. state[Now.p] \in Settled
      BY <1>1, Top DEF Sound, Doing, Now
  <2> QED
      BY <1>1, <1>2, <2>1, ItemFields DEF compose_on_settled, Inv, Typed
<1>4. combo[m].status \in {"waiting", "decided"}
    BY <1>2, <1>3 DEF Combining, Watches, Watching, Watched
<1>5. /\ UNCHANGED <<state, awaiter, co, freed, reactions, origin>>
      /\ awaiter[Now.p] \notin Coroutines
    BY <1>2, <1>3, PromiseAssumption DEF compose_on_settled, memory, history
<1>6. PICK items :
        /\ work' = items \o rest
        /\ \/ /\ items = <<>> /\ combo' = [combo EXCEPT ![m].status = "decided"]
              /\ combo[m].status # "waiting" \/ state[m] # "pending"
           \/ items = <<>> /\ combo' = [combo EXCEPT ![m].count = @ + 1]
           \/ /\ items = <<Settle(m, verdict), Combined(m)>> /\ verdict # "pending"
              /\ combo' = [combo EXCEPT ![m].status = "decided"]
    BY <1>2 DEF compose_on_settled, Next_do
<1>7. /\ combo'[m].mode = combo[m].mode /\ combo'[m].children = combo[m].children
      /\ combo'[m].status \in {combo[m].status, "decided"}
      /\ \A q \in Promises : q # m => combo'[q] = combo[q]
    BY <1>3, <1>6 DEF Combos
<1>8. \A q \in Promises : Watching(q)' => Watching(q) /\ combo'[q].children = combo[q].children
    BY <1>4, <1>7 DEF Watching
<1>9. Newly /\ Lists_stay /\ \A q \in Promises : Same_parent(q)
    BY <1>5 DEF Newly, Lists_stay, Same_parent
<1>10. \A what \in {"run", "finish", "react", "handler", "settle"} : ~Popped(rest, what)
    BY <1>1 DEF Popped, Doing, Now
<1>11. Undelayed(items, rest)
    BY <1>1, <1>5 DEF Undelayed
<1>12. Knows(items, rest)
    BY <1>9, <1>10, KnowsQuiet
<1>13. ASSUME items \in Seq(WorkItems), \A i \in DOMAIN items : items[i].do \notin {"run", "finish"},
              Decides(items, rest)
       PROVE  Heard'
  <2>1. Resuming(items, rest)
      BY <1>5, <1>8, <1>10, <1>11, <1>13, ResumesQuiet
  <2> QED
      BY <1>1, <1>2, <1>6, <1>12, <1>13, <2>1, TopLeaves, HeardBy
<1>14. CASE items = <<>>
  <2>1. items \in Seq(WorkItems) /\ DOMAIN items = {}
      BY <1>14, NoItems
  <2>2. items # <<Settle(m, verdict), Combined(m)>>
      BY <1>14
  <2>3. combo'[m].status = combo[m].status \/ (combo'[m].status = "decided" /\ state[m] # "pending")
      BY <1>3, <1>4, <1>6, <2>2 DEF Combos
  <2>4. Decides(items, rest)
      BY <1>5, <1>7, <1>10, <2>1, <2>3 DEF Decides
  <2> QED
      BY <1>13, <2>1, <2>4
<1>15. CASE /\ items = <<Settle(m, verdict), Combined(m)>> /\ verdict # "pending"
            /\ combo' = [combo EXCEPT ![m].status = "decided"]
  <2>1. verdict \in Settled
      BY <1>2, <1>3, <1>15 DEF Decision, Settled
  <2>2. /\ Settle(m, verdict) \in WorkItems /\ Combined(m) \in WorkItems
        /\ Settle(m, verdict).do = "settle" /\ Settle(m, verdict).p = m
        /\ Combined(m).do = "combined" /\ Combined(m).p = m
      BY <1>3, <2>1, ItemKinds DEF Settle, Combined
  <2>3. /\ items \in Seq(WorkItems) /\ DOMAIN items = {1, 2}
        /\ items[1].do = "settle" /\ items[1].p = m /\ items[2].do = "combined" /\ items[2].p = m
      BY <1>15, <2>2
  <2>4. combo'[m].status = "decided"
      BY <1>3, <1>15 DEF Combos
  <2>5. Settles_now(items, m)
      BY <2>3 DEF Settles_now
  <2>6. Decides(items, rest)
    <3>1. \A i \in DOMAIN items : items[i].do = "combined" =>
            \E j \in DOMAIN items : j < i /\ items[j].do = "settle" /\ items[j].p = items[i].p
        BY <2>3
    <3> QED
        BY <1>7, <1>10, <2>4, <2>5, <3>1 DEF Decides
  <2> QED
      BY <1>13, <2>3, <2>6
<1> QED
    BY <1>6, <1>14, <1>15

LEMMA ComposeFreeHeard ==
    ASSUME Inv, Inv', Grown, Combining, Combining', Heard, compose_free
    PROVE  Heard'
<1>1. work # <<>> /\ Now \in WorkItems /\ Now.do = "combined"
    BY TopIs DEF compose_free
<1>2. PICK m, children, rest : m = Now.p /\ children = combo[m].children /\ rest = Tail(work)
    OBVIOUS
<1>3. m \in Promises /\ combo[m].status = "decided" /\ Watching(m)
  <2>1. Now \in SettlingItems
      BY <1>1, HeadSettles DEF Combining
  <2> QED
      BY <1>1, <1>2, <2>1, ItemFields DEF SettlingItems, Settles, Watching
<1>4. children \in Seq(Promises) /\ DOMAIN children = {1, 2}
  <2>1. combo[m].mode # "none"
      BY <1>3 DEF Combining, Makes
  <2>2. Len(children) = 2
      BY <1>2, <1>3, <2>1 DEF Combining, Makes, Made
  <2>3. children \in Seq(Promises)
      BY <1>2, <1>3 DEF Inv, Typed, Combos
  <2> QED
      BY <2>2, <2>3
<1>5. /\ UNCHANGED <<state, co, freed, reactions, origin>>
      /\ work' = [i \in DOMAIN children |-> Release(children[i])] \o rest
      /\ awaiter' = Let_go(m)
      /\ combo' = [combo EXCEPT ![m].status = "freed"]
    BY <1>2 DEF compose_free, memory, history, Next_do
<1>6. /\ combo'[m].status = "freed" /\ combo'[m].mode = combo[m].mode
      /\ \A q \in Promises : q # m => combo'[q] = combo[q]
    BY <1>3, <1>5 DEF Inv, Typed, Combos
<1>7. PICK items : items = [i \in DOMAIN children |-> Release(children[i])]
    OBVIOUS
<1>8. /\ items \in Seq(WorkItems) /\ DOMAIN items = {1, 2}
      /\ \A i \in {1, 2} : items[i] = Release(children[i])
  <2>1. children[1] \in Promises /\ children[2] \in Promises
      BY <1>4
  <2>2. Release(children[1]) \in WorkItems /\ Release(children[2]) \in WorkItems
      BY <2>1, ItemKinds
  <2>3. DOMAIN items = {1, 2} /\ \A i \in {1, 2} : items[i] = Release(children[i])
      BY <1>4, <1>7
  <2>4. items = [i \in 1 .. 2 |-> Release(children[i])] /\ 1 .. 2 = {1, 2}
      BY <1>4, <1>7
  <2> QED
      BY <2>2, <2>3, <2>4
<1>9. AllReleases(items)
    BY <1>8 DEF AllReleases, Release
<1>10. \A q \in Promises : awaiter'[q] = awaiter[q]
                           \/ (awaiter[q] \notin Coroutines /\ awaiter'[q] \notin Coroutines)
  <2>1. NoWaiter \notin Coroutines
      BY PromiseAssumption
  <2>2. \A q \in Children(m) : awaiter[q] \notin Coroutines
      BY <1>1, <1>3, ChildrensSlot
  <2> QED
      BY <1>5, <2>1, <2>2 DEF Let_go, Children
<1>11. Newly /\ Lists_stay /\ \A y \in Promises : Same_parent(y)
    BY <1>5 DEF Newly, Lists_stay, Same_parent
<1>12. \A what \in {"run", "finish", "notify", "react", "handler", "settle"} : ~Popped(rest, what)
    BY <1>1 DEF Popped, Doing, Now
<1>13. Slots(items, rest) /\ Suspended_wait
    BY <1>5, <1>10, <1>11, <1>12, SlotsKept
<1>14. Runners(items, rest) /\ Run_first(items)
    BY <1>5, <1>9, <1>12 DEF Runners, Run_first, AllReleases
<1>15. Shares_nothing
    BY <1>6 DEF Shares_nothing, Watching, Children
<1>16. Next_stays(items, rest)
  <2>1. Undelayed(items, rest)
      BY <1>1 DEF Undelayed
  <2> QED
      BY <2>1, NextStays
<1>17. Resuming(items, rest)
    BY <1>13, <1>14, <1>15, <1>16 DEF Resuming
<1>18. Knows(items, rest)
    BY <1>11, <1>12, KnowsQuiet
<1>19. state[m] \in Settled
  <2>1. 1 \in DOMAIN work /\ Now = work[1] /\ \A j \in DOMAIN work : ~(j < 1)
      BY <1>1, WorkTyped
  <2> QED
      BY <1>1, <1>2, <2>1 DEF Heard, Deciding
<1>20. Decides(items, rest)
    BY <1>5, <1>6, <1>9, <1>12, <1>19 DEF Decides, AllReleases, Settled
<1> QED
    BY <1>1, <1>2, <1>5, <1>7, <1>8, <1>17, <1>18, <1>20, TopLeaves, HeardBy

\* A combinator of promises no coroutine has the slot of is made.
LEMMA ComposeHeard ==
    ASSUME Inv, Inv', Grown, Combining, Combining', Heard, InLua,
           NEW mode \in Modes, NEW a \in Promises, NEW b \in Promises, NEW m \in Promises, NEW st, NEW refs,
           a # b, a # m, b # m, state[m] = "unborn", st \in [Promises -> States], st[a] # "unborn", st[b] # "unborn",
           refs \in [Promises -> Nat], Compose(mode, <<a, b>>, m, st, refs),
           \A q \in Promises : st[q] = state[q] \/ state[q] = "unborn",
           awaiter[a] \notin Coroutines, awaiter[b] \notin Coroutines,
           work' = <<>> \o work, UNCHANGED <<co, freed, reactions, origin>>
    PROVE  Heard'
<1>1. Composed(mode, a, b, m, st, refs)
    BY ComposeCounts
<1>2. PICK verdict, new :
        /\ verdict \in Found
        /\ state' = [st EXCEPT ![m] = verdict] /\ combo' = [combo EXCEPT ![m] = new]
        /\ new.children = <<a, b>>
        /\ new.status = IF verdict = "pending" THEN "waiting" ELSE "freed"
    BY <1>1 DEF Composed
<1>3. /\ state'[m] = verdict /\ combo'[m] = new
      /\ \A q \in Promises : q # m => combo'[q] = combo[q] /\ state'[q] = st[q]
    BY <1>2 DEF Inv, Typed
<1>4. PICK children : children = <<a, b>> /\ DOMAIN children = {1, 2} /\ children[1] = a /\ children[2] = b
    OBVIOUS
<1>5. \A q \in Promises : \/ awaiter'[q] = awaiter[q]
                          \/ (\E i \in DOMAIN children : children[i] = q) /\ awaiter'[q] \in {m, NoWaiter}
  <2>1. PICK found : found = [i \in DOMAIN children |-> st[children[i]]]
      OBVIOUS
  <2>2. awaiter' = [q \in Promises |->
            CASE Verdict(mode, found) = "pending"
                    /\ {i \in DOMAIN children : children[i] = q} \cap Pending(found) # {} -> m
              [] (Verdict(mode, found) = "rejected" /\ mode = "all")
                    /\ {i \in DOMAIN children : children[i] = q}
                         \cap {i \in Pending(found) : \E j \in DOMAIN found : i < j /\ found[j] = "rejected"} # {}
                    -> NoWaiter
              [] OTHER -> awaiter[q]]
      BY <1>4, <2>1 DEF Compose
  <2>3. ASSUME NEW q \in Promises, awaiter'[q] # awaiter[q]
        PROVE  (\E i \in DOMAIN children : children[i] = q) /\ awaiter'[q] \in {m, NoWaiter}
    <3>1. PICK at : at = {i \in DOMAIN children : children[i] = q}
        OBVIOUS
    <3>2. awaiter'[q] =
            CASE Verdict(mode, found) = "pending" /\ at \cap Pending(found) # {} -> m
              [] (Verdict(mode, found) = "rejected" /\ mode = "all")
                    /\ at \cap {i \in Pending(found) : \E j \in DOMAIN found : i < j /\ found[j] = "rejected"} # {}
                    -> NoWaiter
              [] OTHER -> awaiter[q]
        BY <2>2, <3>1
    <3>3. at # {} /\ awaiter'[q] \in {m, NoWaiter}
        BY <2>3, <3>2
    <3> QED
        BY <3>1, <3>3
  <2> QED
      BY <2>3
<1>6. \A q \in Promises : awaiter'[q] = awaiter[q]
                          \/ (awaiter[q] \notin Coroutines /\ awaiter'[q] \notin Coroutines)
  <2>1. NoWaiter \notin Coroutines /\ m \notin Coroutines
      BY PromiseAssumption
  <2> QED
      BY <1>4, <1>5, <2>1
<1>7. Newly /\ Lists_stay /\ \A q \in Promises : Same_parent(q)
    BY <1>3 DEF Newly, Lists_stay, Same_parent
<1>8. PICK items, rest : items = <<>> /\ rest = work
    OBVIOUS
<1>9. items \in Seq(WorkItems) /\ DOMAIN items = {} /\ work' = items \o rest
    BY <1>8, NoItems
<1>10. \A what : ~Popped(rest, what)
    BY <1>8 DEF Popped
<1>11. Slots(items, rest) /\ Suspended_wait
    BY <1>6, <1>7, <1>10, SlotsKept
<1>12. Runners(items, rest) /\ Run_first(items)
    BY <1>9, <1>10 DEF Runners, Run_first
<1>13. Shares_nothing
  <2>1. ASSUME NEW x \in Promises, Watching(x)', NEW q \in Children(x)', awaiter'[q] \in Coroutines
        PROVE  Watching(x) /\ q \in Children(x)
    <3>1. CASE x = m
      <4>1. combo'[x].children = children
          BY <1>2, <1>3, <1>4, <3>1
      <4>2. q \in ToSet(children)
          BY <2>1, <4>1 DEF Children
      <4>3. q \in {a, b}
          BY <1>4, <4>2 DEF ToSet
      <4> QED
          BY <1>6, <2>1, <4>3
    <3>2. CASE x # m
        BY <1>3, <2>1, <3>2 DEF Watching, Children
    <3> QED
        BY <3>1, <3>2
  <2> QED
      BY <2>1 DEF Shares_nothing
<1>14. Next_stays(items, rest)
    BY LuaUndelayed, NextStays
<1>15. Resuming(items, rest)
    BY <1>11, <1>12, <1>13, <1>14 DEF Resuming
<1>16. Knows(items, rest)
    BY <1>7, <1>10, KnowsQuiet
<1>17. Decides(items, rest)
    BY <1>2, <1>3, <1>9, <1>10 DEF Decides
<1> QED
    BY <1>8, <1>9, <1>15, <1>16, <1>17, HeardBy DEF Leaves

LEMMA CombineHeard ==
    ASSUME Inv, Inv', Grown, Combining, Combining', Keeping, Heard, InLua, "share" \notin Allowed, NEW mode \in Modes,
           NEW a \in Promises, NEW b \in Promises, NEW m \in Promises, state[m] = "unborn", combine(mode, a, b, m)
    PROVE  Heard'
<1>1. state[a] # "unborn" /\ state[b] # "unborn"
    BY DEF combine, Inv, Births
<1>2. PICK children : children = <<a, b>>
    OBVIOUS
<1>3. DOMAIN children = {1, 2} /\ children[1] = a /\ children[2] = b /\ 1 # 2
    BY <1>2
<1>4. ~Sharing(children)
    BY <1>2 DEF combine
<1>5. a # b /\ awaiter[a] \notin Coroutines /\ awaiter[b] \notin Coroutines
    BY <1>3, <1>4, PromiseAssumption DEF Sharing
<1>6. PICK st, refs : st = state /\ refs = ref_count
    OBVIOUS
<1>7. refs \in [Promises -> Nat] /\ st \in [Promises -> States] /\ a # m /\ b # m
    BY <1>1, <1>6 DEF Keeping, Owners, Inv, Typed
<1>8. Compose(mode, <<a, b>>, m, st, refs) /\ work' = <<>> \o work /\ UNCHANGED <<co, freed, reactions, origin>>
    BY <1>6 DEF combine, Call, history
<1>9. \A q \in Promises : st[q] = state[q]
    BY <1>6
<1> QED
    BY <1>1, <1>5, <1>6, <1>7, <1>8, <1>9, ComposeHeard

LEMMA WithTimeoutHeard ==
    ASSUME Inv, Inv', Grown, Combining, Combining', Keeping, Heard, InLua, "share" \notin Allowed,
           NEW p \in Promises, NEW t \in Promises, state[t] = "unborn",
           NEW m \in Promises, state[m] = "unborn", m # t, with_timeout(p, t, m)
    PROVE  Heard'
<1>1. state[p] # "unborn" /\ p # t /\ p # m
    BY DEF with_timeout, Inv, Births
<1>2. PICK children : children = <<p>>
    OBVIOUS
<1>3. DOMAIN children = {1} /\ children[1] = p
    BY <1>2
<1>4. ~Sharing(children)
    BY <1>2 DEF with_timeout
<1>5. awaiter[p] \notin Coroutines /\ awaiter[t] \notin Coroutines
    BY <1>3, <1>4, PromiseAssumption DEF Sharing, Heard, Resumed
<1>6. PICK st, refs : st = [state EXCEPT ![t] = "pending"] /\ refs = [ref_count EXCEPT ![t] = 1]
    OBVIOUS
<1>7. /\ refs \in [Promises -> Nat] /\ st \in [Promises -> States] /\ st[t] = "pending"
      /\ \A q \in Promises : q # t => st[q] = state[q]
    BY <1>6 DEF Keeping, Owners, Inv, Typed, States
<1>8. /\ Compose("race", <<p, t>>, m, st, refs) /\ work' = <<>> \o work /\ "race" \in Modes
      /\ UNCHANGED <<co, freed, reactions, origin>>
    BY <1>6 DEF with_timeout, Call, history, Modes
<1>9. st[p] # "unborn" /\ st[t] # "unborn" /\ \A q \in Promises : st[q] = state[q] \/ state[q] = "unborn"
    BY <1>1, <1>7
<1> QED
    BY <1>1, <1>5, <1>7, <1>8, <1>9, ComposeHeard

----------------------------------------------------------------------------
(***************************************************************************)
(* That nobody has been forgotten.                                         *)
(***************************************************************************)
LEMMA HeardInit ==
    ASSUME Init
    PROVE  Heard
<1>1. /\ \A p \in Promises : /\ state[p] = "unborn" /\ awaiter[p] = NoWaiter
                             /\ combo[p].mode = "none" /\ combo[p].status = "none"
                             /\ origin[p].parent = NoPromise
      /\ \A c \in Coroutines : co[c].status = "unused"
      /\ work = <<>>
    BY DEF Init, NoCombo, NoOrigin, NoContext
<1>2. NoWaiter \notin Coroutines
    BY PromiseAssumption
<1>3. Resumed
    BY <1>1, <1>2 DEF Resumed
<1>4. Prompt
    BY <1>1 DEF Prompt, Watching
<1>5. Knowing
    BY <1>1 DEF Knowing
<1>6. Deciding
    BY <1>1 DEF Deciding
<1> QED
    BY <1>3, <1>4, <1>5, <1>6 DEF Heard

LEMMA HeardStutter ==
    ASSUME Inv, Inv', Grown, Combining, Combining', Heard, UNCHANGED vars
    PROVE  Heard'
<1>1. UNCHANGED <<awaiter, co, combo, state, freed, reactions, origin, work>>
    BY DEF vars, memory, history
<1>2. Newly /\ Lists_stay /\ \A q \in Promises : Same_parent(q)
    BY <1>1 DEF Newly, Lists_stay, Same_parent
<1>3. PICK items, rest : items = <<>> /\ rest = work
    OBVIOUS
<1>4. items \in Seq(WorkItems) /\ DOMAIN items = {}
    BY <1>3, NoItems
<1>5. Undelayed(items, rest)
    BY <1>3, <1>4 DEF Undelayed, AllReleases
<1>6. work' = items \o rest
    BY <1>1, <1>3 DEF Inv, Stack
<1> QED
    BY <1>1, <1>2, <1>3, <1>4, <1>5, <1>6, HeardQuietly DEF Leaves

LEMMA HeardStep ==
    ASSUME Allowed = {}, Inv, Combining, Keeping, Heard, [Next]_vars
    PROVE  Heard'
<1>1. Inv' /\ Grown /\ Combining' /\ Typed
    BY InvStep, CombiningStep DEF Inv
<1>2. "share" \notin Allowed /\ "late" \notin Allowed
    OBVIOUS
<1>3. \A what : May_call(what) => InLua
    BY DEF May_call
<1>4. CASE settle \/ execute_reaction \/ handler_done \/ release
    BY <1>1, <1>4, SettleHeard, ReactionHeard, HandlerDoneHeard, ReleaseHeard
<1>5. CASE laio_promise_settled \/ compose_on_settled \/ compose_free
    BY <1>1, <1>5, PromiseSettledHeard, ComposeSettledHeard, ComposeFreeHeard
<1>6. CASE await \/ wait \/ coroutine_done \/ coroutine_free
    BY <1>1, <1>2, <1>6, AwaitHeard, WaitHeard, CoroutineDoneHeard, CoroutineFreeHeard
<1>7. CASE return \/ sync_done
    BY <1>1, <1>7, ReturnHeard, SyncDoneHeard
<1>8. ASSUME NEW p \in Promises, collect(p) PROVE Heard'
    BY <1>1, <1>8, CollectHeard
<1>9. ASSUME NEW p \in Promises, NEW how \in Settled, complete(p, how) PROVE Heard'
    BY <1>1, <1>9, CompleteHeard
<1>10. ASSUME May_call("spawn"), NEW p \in Fresh({}), spawn(p) PROVE Heard'
    BY <1>1, <1>3, <1>10, FreshUnborn, SpawnHeard
<1>11. ASSUME May_call("settled"), NEW p \in Fresh({}), NEW how \in Settled, settled(p, how) PROVE Heard'
    BY <1>1, <1>3, <1>11, FreshUnborn, SettledHeard
<1>12. ASSUME NEW type \in Types, May_call(type), NEW p \in Promises, NEW handler \in BOOLEAN,
              NEW child \in Fresh({}), chain(p, type, handler, child)
       PROVE  Heard'
    BY <1>1, <1>3, <1>12, FreshUnborn, ChainHeard
<1>13. ASSUME May_call("cancel"), NEW p \in Promises, cancel(p) PROVE Heard'
    BY <1>1, <1>3, <1>13, CancelHeard
<1>14. ASSUME May_call("run_async"), NEW c \in Coroutines, NEW p \in Fresh({}), run_async(c, p) PROVE Heard'
    BY <1>1, <1>3, <1>14, FreshUnborn, RunAsyncHeard
<1>15. ASSUME May_call("await_sync"), NEW p \in Promises, await_sync(p) PROVE Heard'
    BY <1>1, <1>3, <1>15, AwaitSyncHeard
<1>16. ASSUME NEW mode \in Modes, May_call(mode), NEW p \in Promises, NEW q \in Promises, NEW m \in Fresh({}),
              combine(mode, p, q, m)
       PROVE  Heard'
    BY <1>1, <1>2, <1>3, <1>16, FreshUnborn, CombineHeard
<1>17. ASSUME May_call("with_timeout"), NEW p \in Promises, NEW t \in Fresh({}), NEW m \in Fresh({t}),
              with_timeout(p, t, m)
       PROVE  Heard'
  <2>1. t \in Promises /\ state[t] = "unborn"
      BY <1>1, FreshUnborn
  <2>2. m \in Promises /\ state[m] = "unborn" /\ m # t
      BY <1>1, <2>1, FreshUnborn
  <2> QED
      BY <1>1, <1>2, <1>3, <1>17, <2>1, <2>2, WithTimeoutHeard
<1>18. CASE UNCHANGED vars
    BY <1>1, <1>18, HeardStutter
<1> QED
    BY <1>4, <1>5, <1>6, <1>7, <1>8, <1>9, <1>10, <1>11, <1>12, <1>13, <1>14, <1>15, <1>16, <1>17, <1>18 DEF Next

LEMMA NobodyIsForgotten ==
    ASSUME Inv, Combining, Heard
    PROVE  NobodyForgotten
<1> SUFFICES ASSUME work = <<>> PROVE NobodyForgotten
    BY DEF NobodyForgotten
<1>1. DOMAIN work = {} /\ Typed /\ Resumed /\ Knowing /\ Deciding
    BY DEF Inv, Heard
<1>2. \A p \in Promises : state[p] \in Settled => reactions[p] = <<>> /\ awaiter[p] \notin Coroutines
  <2>1. \A p : ~Tells(work, p)
      BY <1>1 DEF Tells
  <2> QED
      BY <1>1, <2>1 DEF Resumed, Inv, Lists, ListOK, Settled
<1>3. ASSUME NEW p \in Promises, origin[p].parent # NoPromise, state[origin[p].parent] \in Settled,
             Concerns(origin[p], origin[p].parent)
      PROVE  state[p] \in Settled
  <2>1. ~Reacting(work, p) /\ ~Settles_now(work, p)
      BY <1>1 DEF Reacting, Settles_now
  <2> QED
      BY <1>1, <1>3, <2>1 DEF Knowing, Known
<1>4. \A c \in Coroutines : co[c].status # "running"
    BY <1>1 DEF Resumed, Busy
<1>5. ASSUME NEW c \in Coroutines, co[c].status = "suspended"
      PROVE  state[co[c].waiting] = "pending" /\ awaiter[co[c].waiting] = c
  <2>1. PICK q \in Promises : q = co[c].waiting /\ awaiter[q] = c
      BY <1>1, <1>5 DEF Resumed
  <2>2. state[q] # "unborn" /\ state[q] \notin Settled /\ state[q] \in States
      BY <1>1, <1>2, <2>1 DEF Resumed, Typed
  <2> QED
      BY <2>1, <2>2 DEF States
<1>6. ASSUME NEW m \in Promises, combo[m].mode # "none", state[m] = "pending", NEW found,
             found = [i \in DOMAIN combo[m].children |-> state[combo[m].children[i]]]
      PROVE  /\ Verdict(combo[m].mode, found) = "pending"
             /\ \A i \in Pending(found) : awaiter[combo[m].children[i]] = m
  <2>1. combo[m].status = "waiting"
      BY <1>1, <1>6 DEF Deciding, Settles_now
  <2>2. Watching(m) /\ Tally(m) /\ Made(m) /\ combo[m].mode \in Modes
      BY <1>1, <1>6, <2>1 DEF Combining, Watching, Tallies, Makes, Typed, Combos
  <2>3. PICK s \in Seq(Promises) : s = combo[m].children /\ Len(s) = 2
      BY <1>1, <2>2 DEF Made, Typed, Combos
  <2>4. PICK a \in Promises, b \in Promises : /\ a = s[1] /\ b = s[2] /\ DOMAIN s = {1, 2}
                                              /\ Children(m) = {a, b}
      BY <2>3 DEF Children, ToSet
  <2>5. state[a] \in Found /\ state[b] \in Found
      BY <1>1, <2>2, <2>4 DEF Made, Typed, States, Found
  <2>6. found \in [1 .. 2 -> Found] /\ found[1] = state[a] /\ found[2] = state[b]
    <3>1. 1 .. 2 = {1, 2} /\ found = [i \in {1, 2} |-> state[s[i]]]
        BY <1>6, <2>3, <2>4
    <3> QED
        BY <2>4, <2>5, <3>1
  <2>7. (Counted(m, a) <=> state[a] \in Settled) /\ (Counted(m, b) <=> state[b] \in Settled)
      BY <1>1 DEF Counted, Tells
  <2>8. /\ ~(state[a] \in Settled /\ state[b] \in Settled)
        /\ state[a] \in Settled => Leaves_open(m, a)
        /\ state[b] \in Settled => Leaves_open(m, b)
      BY <2>2, <2>3, <2>4, <2>7 DEF Tally
  <2>9. PICK how : how = Verdict(combo[m].mode, found)
      OBVIOUS
  <2>10. how = "pending"
    <3>1. state[a] = "pending" \/ state[b] = "pending"
        BY <2>5, <2>8 DEF Found
    <3>2. /\ state[a] # "pending" => Leaves_open(m, a)
          /\ state[b] # "pending" => Leaves_open(m, b)
        BY <2>5, <2>8 DEF Found
    <3>3. CASE combo[m].mode = "race"
        BY <2>2, <2>6, <2>9, <3>1, <3>2, <3>3, VerdictOfTwo DEF Leaves_open
    <3>4. CASE combo[m].mode = "all"
        BY <2>2, <2>6, <2>9, <3>1, <3>2, <3>4, VerdictOfTwo DEF Leaves_open
    <3>5. CASE combo[m].mode = "any"
        BY <2>2, <2>6, <2>9, <3>1, <3>2, <3>5, VerdictOfTwo DEF Leaves_open
    <3>6. CASE combo[m].mode = "allSettled"
        BY <2>2, <2>6, <2>9, <3>1, <3>6, VerdictOfTwo
    <3> QED
        BY <2>2, <3>3, <3>4, <3>5, <3>6 DEF Modes
  <2>11. ASSUME NEW i \in Pending(found) PROVE awaiter[combo[m].children[i]] = m
    <3>1. i \in {1, 2} /\ found[i] = "pending"
        BY <2>6 DEF Pending
    <3>2. s[i] \in Children(m) /\ state[s[i]] = "pending"
        BY <2>4, <2>6, <3>1
    <3> QED
        BY <2>2, <2>3, <3>2 DEF Combining, Watches
  <2> QED
      BY <2>9, <2>10, <2>11
<1> QED
    BY <1>2, <1>3, <1>4, <1>5, <1>6 DEF NobodyForgotten

\* When the loop is about to wait again nobody has been forgotten, whatever
\* settled in whichever order: each settled promise has called its reactions and
\* settled the children they concern (trigger_reactions and execute_reaction in
\* lpromise.c), no coroutine waits for a promise that is settled
\* (laio_promise_settled in laio.c), and the promise of a combinator is pending
\* only while its children leave the outcome open (compose_on_settled): for
\* programs that keep what they wait for, wait for a promise once at most and
\* give a time only to pending ones.
THEOREM PromiseNobodyForgotten ==
    ASSUME Allowed = {}
    PROVE  Spec => []NobodyForgotten
<1>1. Init => Heard
    BY HeardInit
<1>2. Kept_alive /\ Heard /\ [Next]_vars => Heard'
    BY HeardStep DEF Kept_alive
<1>3. Kept_alive /\ Heard => NobodyForgotten
    BY NobodyIsForgotten DEF Kept_alive
<1> QED
    BY <1>1, <1>2, <1>3, KeptAlive, PTL DEF Spec
=============================================================================
