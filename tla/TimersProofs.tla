---------------------------- MODULE TimersProofs ----------------------------
(***************************************************************************)
(* Theorems about Heap, for arrays of any length: an operation keeps the   *)
(* timers it does not name, and keeps the array ordered; about TimerHeap,  *)
(* which does what TimersAbs promises; and about Timers, for any timers,   *)
(* delays, capacity and nesting.                                           *)
(***************************************************************************)
EXTENDS Timers, FiniteSetTheorems, TLAPS

----------------------------------------------------------------------------
(***************************************************************************)
(* Least and greatest numbers, from the library's fact that the finite     *)
(* subsets of a set are well-founded: in place of induction.               *)
(***************************************************************************)
LEMMA LeastNumber ==
    ASSUME NEW T, T \subseteq Nat, T # {}
    PROVE  \E x \in T : \A y \in T : x <= y
<1> DEFINE below(x) == 0 .. (x - 1)
           U == {below(x) : x \in T}
           R == StrictSubsetOrdering(Nat)
<1>1. U \subseteq FiniteSubsetsOf(Nat)
  <2> SUFFICES ASSUME NEW x \in T PROVE below(x) \in FiniteSubsetsOf(Nat)
      OBVIOUS
  <2>1. x \in Int /\ 0 \in Int /\ x - 1 \in Int
      OBVIOUS
  <2>2. IsFiniteSet(below(x))
      BY <2>1, FS_Interval
  <2>3. below(x) \subseteq Nat
      OBVIOUS
  <2> QED
      BY <2>2, <2>3 DEF FiniteSubsetsOf
<1>2. U # {}
    OBVIOUS
<1>3. PICK m \in U : \A n \in U : ~ (<<n, m>> \in R)
    <2> HIDE DEF U
    <2> QED BY <1>1, <1>2, FS_StrictSubsetOrderingWellFounded, WFMin
<1>4. PICK x \in T : m = below(x)
    OBVIOUS
<1>5. ASSUME NEW y \in T, y < x PROVE FALSE
  <2>1. below(y) \subseteq below(x) /\ below(y) # below(x)
    <3>1. y \in below(x) /\ y \notin below(y)
        BY <1>5
    <3> QED
        BY <1>5, <3>1
  <2>2. <<below(y), below(x)>> \in R
    <3>1. below(y) \in SUBSET Nat /\ below(x) \in SUBSET Nat
        OBVIOUS
    <3> HIDE DEF below
    <3> QED
        BY <2>1, <3>1 DEF StrictSubsetOrdering
  <2> QED
      BY <1>3, <1>4, <2>2
<1> QED
    BY <1>5

LEMMA GreatestNumber ==
    ASSUME NEW n \in Nat, NEW T, T \subseteq 1 .. n, T # {}
    PROVE  \E x \in T : \A y \in T : y <= x
<1> DEFINE U == {n - x : x \in T}
<1>1. \A x \in T : x \in 1 .. n /\ n - x \in Nat
    OBVIOUS
<1>2. U \subseteq Nat /\ U # {}
    BY <1>1
<1>3. PICK u \in U : \A v \in U : u <= v
    <2> HIDE DEF U
    <2> QED BY <1>2, LeastNumber
<1>4. PICK x \in T : u = n - x
    OBVIOUS
<1>5. ASSUME NEW y \in T PROVE y <= x
  <2>1. n - y \in U
      OBVIOUS
  <2> HIDE DEF U
  <2> QED
      BY <1>1, <1>3, <1>4, <2>1
<1> QED
    BY <1>5

----------------------------------------------------------------------------
(***************************************************************************)
(* Trails. A step goes down, or it goes up, as long as it goes anywhere.   *)
(***************************************************************************)
Steps(next, n) == next \in [1 .. n -> 1 .. n]
Descends(next) == \A k \in DOMAIN next : next[k] <= k
Ascends(next) == \A k \in DOMAIN next : next[k] >= k

\* The least set that has i and goes on with each of its positions.
Closed(next, S) == \A k \in S : next[k] \in S
Reach(next, i) ==
    {j \in DOMAIN next : \A S \in SUBSET DOMAIN next : i \in S /\ Closed(next, S) => j \in S}

LEMMA ReachStarts ==
    ASSUME NEW n \in Nat, NEW next, Steps(next, n), NEW i \in 1 .. n
    PROVE  /\ i \in Reach(next, i) /\ Reach(next, i) \subseteq 1 .. n
           /\ Closed(next, Reach(next, i))
           /\ \A S \in SUBSET (1 .. n) : i \in S /\ Closed(next, S) => Reach(next, i) \subseteq S
BY DEF Steps, Reach, Closed

LEMMA ReachGoesOn ==
    ASSUME NEW n \in Nat, NEW next, Steps(next, n), NEW i \in 1 .. n
    PROVE  Reach(next, i) = {i} \cup Reach(next, next[i])
<1>1. next[i] \in 1 .. n
    BY DEF Steps
<1>2. {i} \cup Reach(next, next[i]) \subseteq Reach(next, i)
    BY <1>1, ReachStarts DEF Closed
<1>3. Closed(next, {i} \cup Reach(next, next[i])) /\ {i} \cup Reach(next, next[i]) \subseteq 1 .. n
    BY <1>1, ReachStarts DEF Closed
<1> QED
    BY <1>2, <1>3, ReachStarts

\* The recursive definition has a solution, and every solution is Reach.
LEMMA TrailIsReach ==
    ASSUME NEW n \in Nat, NEW next, Steps(next, n), Descends(next) \/ Ascends(next),
           NEW i \in 1 .. n
    PROVE  Trail(next, i) = Reach(next, i)
<1> DEFINE Solves(f) ==
            f = [k \in DOMAIN next |-> IF next[k] = k THEN {k} ELSE {k} \cup f[next[k]]]
           g == [k \in DOMAIN next |-> Reach(next, k)]
           from == CHOOSE f : Solves(f)
<1>0. DOMAIN next = 1 .. n
    BY DEF Steps
<1>1. Solves(g)
  <2> SUFFICES ASSUME NEW k \in 1 .. n
               PROVE  Reach(next, k) = IF next[k] = k THEN {k} ELSE {k} \cup g[next[k]]
      BY <1>0
  <2>1. next[k] \in 1 .. n
      BY DEF Steps
  <2>2. CASE next[k] = k
    <3>1. Closed(next, {k}) /\ {k} \subseteq 1 .. n
        BY <2>2 DEF Closed
    <3> QED
        BY <2>2, <3>1, ReachStarts
  <2>3. CASE next[k] # k
      BY <1>0, <2>1, <2>3, ReachGoesOn
  <2> QED
      BY <2>2, <2>3
<1>2. Solves(from)
    <2> HIDE DEF Solves, g
    <2> QED BY <1>1
<1>3. \A k \in 1 .. n : from[k] = IF next[k] = k THEN {k} ELSE {k} \cup from[next[k]]
    <2> HIDE DEF from
    <2> QED BY <1>0, <1>2
<1>4. ASSUME NEW k \in 1 .. n, from[k] # Reach(next, k),
             next[k] # k => from[next[k]] = Reach(next, next[k])
      PROVE  FALSE
  <2> HIDE DEF from
  <2>1. g[k] = Reach(next, k) /\ (next[k] # k => g[next[k]] = Reach(next, next[k]))
      BY <1>0 DEF Steps
  <2>2. g[k] = IF next[k] = k THEN {k} ELSE {k} \cup g[next[k]]
      BY <1>0, <1>1
  <2> HIDE DEF g
  <2> QED
    <3>1. CASE next[k] = k
        BY <1>3, <1>4, <2>1, <2>2, <3>1
    <3>2. CASE next[k] # k
      <4>1. from[k] = {k} \cup from[next[k]]
          BY <1>3, <3>2
      <4>2. g[k] = {k} \cup g[next[k]]
          BY <2>2, <3>2
      <4> QED
          BY <1>4, <2>1, <3>2, <4>1, <4>2
    <3> QED
        BY <3>1, <3>2
<1> DEFINE Wrong == {k \in 1 .. n : from[k] # Reach(next, k)}
<1>5. Wrong = {}
  <2> SUFFICES ASSUME Wrong # {} PROVE FALSE
      OBVIOUS
  <2> HIDE DEF from
  <2>1. CASE Descends(next)
    <3>1. PICK k \in Wrong : \A j \in Wrong : k <= j
      <4>1. Wrong \subseteq Nat
          OBVIOUS
      <4> HIDE DEF Wrong
      <4> QED
          BY <4>1, LeastNumber
    <3>2. next[k] # k => next[k] \notin Wrong
        BY <1>0, <2>1, <3>1 DEF Descends, Steps
    <3> QED
        BY <1>4, <3>2 DEF Steps
  <2>2. CASE Ascends(next)
    <3>1. PICK k \in Wrong : \A j \in Wrong : j <= k
        BY GreatestNumber
    <3>2. next[k] # k => next[k] \notin Wrong
        BY <1>0, <2>2, <3>1 DEF Ascends, Steps
    <3> QED
        BY <1>4, <3>2 DEF Steps
  <2> QED
      BY <2>1, <2>2
<1>6. Trail(next, i) = from[i]
    BY DEF Trail
<1> QED
    BY <1>5, <1>6

\* A trail goes one way, is a line, and has one end.
LEMMA TrailOneWay ==
    ASSUME NEW n \in Nat, NEW next, Steps(next, n), NEW i \in 1 .. n
    PROVE  /\ Descends(next) => \A j \in Reach(next, i) : j <= i
           /\ Ascends(next) => \A j \in Reach(next, i) : j >= i
<1>1. ASSUME Descends(next) PROVE \A j \in Reach(next, i) : j <= i
  <2> DEFINE S == {j \in 1 .. n : j <= i}
  <2>1. i \in S /\ Closed(next, S)
      BY <1>1 DEF Closed, Descends, Steps
  <2> QED
      BY <2>1, ReachStarts
<1>2. ASSUME Ascends(next) PROVE \A j \in Reach(next, i) : j >= i
  <2> DEFINE S == {j \in 1 .. n : j >= i}
  <2>1. i \in S /\ Closed(next, S)
      BY <1>2 DEF Closed, Ascends, Steps
  <2> QED
      BY <2>1, ReachStarts
<1> QED
    BY <1>1, <1>2

LEMMA TrailIsALine ==
    ASSUME NEW n \in Nat, NEW next, Steps(next, n), NEW i \in 1 .. n,
           NEW a \in Reach(next, i), NEW b \in Reach(next, i)
    PROVE  b \in Reach(next, a) \/ a \in Reach(next, b)
<1> DEFINE T == Reach(next, i)
           Comparable(j) == \A k \in T : k \in Reach(next, j) \/ j \in Reach(next, k)
           S == {j \in T : Comparable(j)}
<1>1. T \subseteq 1 .. n /\ i \in T /\ Closed(next, T)
    BY ReachStarts
<1>2. ASSUME NEW j \in S PROVE next[j] \in S
  <2> SUFFICES ASSUME NEW k \in T
               PROVE  k \in Reach(next, next[j]) \/ next[j] \in Reach(next, k)
      BY <1>1 DEF Closed
  <2>1. j \in 1 .. n /\ k \in 1 .. n
      BY <1>1
  <2>2. CASE j \in Reach(next, k)
      BY <2>1, <2>2, ReachStarts DEF Closed
  <2>3. CASE k \in Reach(next, j)
    <3>1. k = j \/ k \in Reach(next, next[j])
        BY <2>1, <2>3, ReachGoesOn
    <3>2. next[j] \in Reach(next, j)
        BY <2>1, ReachStarts DEF Closed
    <3> QED
        BY <3>1, <3>2
  <2> QED
      BY <2>2, <2>3
<1>3. i \in S /\ S \in SUBSET (1 .. n)
    BY <1>1
<1>4. Closed(next, S)
    <2> HIDE DEF S
    <2> QED BY <1>2 DEF Closed
<1>5. T \subseteq S
    <2> HIDE DEF S
    <2> QED BY <1>3, <1>4, ReachStarts
<1> QED
    BY <1>5

\* Where a trail stays, it reaches nothing else; so it has one end.
LEMMA OneEnd ==
    ASSUME NEW n \in Nat, NEW next, Steps(next, n), NEW i \in 1 .. n,
           NEW a \in Reach(next, i), NEW b \in Reach(next, i), next[a] = a, next[b] = b
    PROVE  a = b
<1>1. a \in 1 .. n /\ b \in 1 .. n
    BY ReachStarts
<1>2. \A c \in 1 .. n : next[c] = c => Reach(next, c) \subseteq {c}
  <2> SUFFICES ASSUME NEW c \in 1 .. n, next[c] = c PROVE Reach(next, c) \subseteq {c}
      OBVIOUS
  <2>1. {c} \in SUBSET (1 .. n) /\ Closed(next, {c})
      BY DEF Closed
  <2> QED
      BY <2>1, ReachStarts
<1> QED
    BY <1>1, <1>2, TrailIsALine

\* Positions of a trail that go on to the same one are the same.
LEMMA TrailInjective ==
    ASSUME NEW n \in Nat, NEW next, Steps(next, n), Descends(next) \/ Ascends(next),
           NEW i \in 1 .. n, NEW a \in Reach(next, i), NEW b \in Reach(next, i),
           next[a] = next[b], next[a] # a, next[b] # b
    PROVE  a = b
<1>1. a \in 1 .. n /\ b \in 1 .. n
    BY ReachStarts
<1>2. ASSUME NEW c \in 1 .. n, NEW d \in 1 .. n, d \in Reach(next, c), next[c] = next[d],
             next[c] # c, next[d] # d
      PROVE  c = d
  <2> SUFFICES ASSUME c # d PROVE FALSE
      OBVIOUS
  <2>1. next[c] \in 1 .. n
      BY DEF Steps
  <2>2. d \in Reach(next, next[c])
      BY <1>2, ReachGoesOn
  <2>3. CASE Descends(next)
    <3>1. d <= next[c] /\ next[d] <= d
        BY <2>1, <2>2, <2>3, TrailOneWay DEF Descends, Steps
    <3> QED
        BY <1>2, <2>1, <3>1
  <2>4. CASE Ascends(next)
    <3>1. d >= next[c] /\ next[d] >= d
        BY <2>1, <2>2, <2>4, TrailOneWay DEF Ascends, Steps
    <3> QED
        BY <1>2, <2>1, <3>1
  <2> QED
      BY <2>3, <2>4
<1>3. b \in Reach(next, a) \/ a \in Reach(next, b)
    BY TrailIsALine
<1> QED
    BY <1>1, <1>2, <1>3

----------------------------------------------------------------------------
(***************************************************************************)
(* g has the elements of h in another order: f[k] is where g[k] was.       *)
(***************************************************************************)
Reorders(f, n) ==
    /\ f \in [1 .. n -> 1 .. n]
    /\ \A j, k \in 1 .. n : f[j] = f[k] => j = k
    /\ \A j \in 1 .. n : \E k \in 1 .. n : f[k] = j
Rearranged(g, h) ==
    /\ Len(g) = Len(h)
    /\ \E f : Reorders(f, Len(h)) /\ \A k \in 1 .. Len(h) : g[k] = h[f[k]]

LEMMA InjectiveReorders ==
    ASSUME NEW n \in Nat, NEW f \in [1 .. n -> 1 .. n],
           \A j, k \in 1 .. n : f[j] = f[k] => j = k
    PROVE  Reorders(f, n)
<1>1. IsFiniteSet(1 .. n)
    BY FS_Interval
<1>2. f \in Injection(1 .. n, 1 .. n)
    BY DEF Injection, IsInjective
<1>3. f \in Surjection(1 .. n, 1 .. n)
    BY <1>1, <1>2, FS_Injection
<1> QED
    BY <1>3 DEF Reorders, Surjection

LEMMA RearrangedSelf ==
    ASSUME NEW S, NEW h \in Seq(S) PROVE Rearranged(h, h)
<1> DEFINE f == [k \in 1 .. Len(h) |-> k]
<1>1. Reorders(f, Len(h)) /\ \A k \in 1 .. Len(h) : h[k] = h[f[k]]
    BY DEF Reorders
<1> QED
    BY <1>1 DEF Rearranged

LEMMA RearrangedTwice ==
    ASSUME NEW S, NEW h \in Seq(S), NEW g, NEW e, Rearranged(g, h), Rearranged(e, g)
    PROVE  Rearranged(e, h)
<1>1. PICK f : Reorders(f, Len(h)) /\ \A k \in 1 .. Len(h) : g[k] = h[f[k]]
    BY DEF Rearranged
<1>2. PICK d : Reorders(d, Len(h)) /\ \A k \in 1 .. Len(h) : e[k] = g[d[k]]
    BY DEF Rearranged
<1> DEFINE fd == [k \in 1 .. Len(h) |-> f[d[k]]]
<1>3. Reorders(fd, Len(h))
  <2>1. fd \in [1 .. Len(h) -> 1 .. Len(h)]
      BY <1>1, <1>2 DEF Reorders
  <2>2. ASSUME NEW j \in 1 .. Len(h), NEW k \in 1 .. Len(h), fd[j] = fd[k] PROVE j = k
    <3>1. d[j] \in 1 .. Len(h) /\ d[k] \in 1 .. Len(h) /\ f[d[j]] = f[d[k]]
        BY <1>2, <2>2 DEF Reorders
    <3> QED
        BY <1>1, <1>2, <3>1 DEF Reorders
  <2> HIDE DEF fd
  <2> QED
      BY <2>1, <2>2, InjectiveReorders
<1>4. \A k \in 1 .. Len(h) : e[k] = h[fd[k]]
    BY <1>1, <1>2 DEF Reorders
<1> HIDE DEF fd
<1> QED
    BY <1>3, <1>4 DEF Rearranged

\* What is rearranged: a sequence over the same set, with the same elements, and
\* each once if each was there once.
LEMMA RearrangedElements ==
    ASSUME NEW S, NEW h \in Seq(S), NEW g \in Seq(S), Rearranged(g, h)
    PROVE  /\ \A k \in DOMAIN g : \E j \in DOMAIN h : g[k] = h[j]
           /\ \A j \in DOMAIN h : \E k \in DOMAIN g : g[k] = h[j]
           /\ ToSet(g) = ToSet(h)
<1>1. PICK f : Reorders(f, Len(h)) /\ \A k \in 1 .. Len(h) : g[k] = h[f[k]]
    BY DEF Rearranged
<1>2. DOMAIN g = 1 .. Len(h) /\ DOMAIN h = 1 .. Len(h)
    BY DEF Rearranged
<1>3. \A k \in DOMAIN g : \E j \in DOMAIN h : g[k] = h[j]
    BY <1>1, <1>2 DEF Reorders
<1>4. ASSUME NEW j \in DOMAIN h PROVE \E k \in DOMAIN g : g[k] = h[j]
  <2>1. PICK k \in 1 .. Len(h) : f[k] = j
      BY <1>1, <1>2 DEF Reorders
  <2> QED
      BY <1>1, <1>2, <2>1
<1> QED
    BY <1>3, <1>4 DEF ToSet

----------------------------------------------------------------------------
(***************************************************************************)
(* Moves only rearrange.                                                   *)
(***************************************************************************)
LEMMA MoveRearranges ==
    ASSUME NEW S, NEW h \in Seq(S), NEW next, Steps(next, Len(h)),
           Descends(next) \/ Ascends(next), NEW i \in DOMAIN h
    PROVE  Move(h, i, next) \in Seq(S) /\ Rearranged(Move(h, i, next), h)
<1> DEFINE n == Len(h)
           T == Reach(next, i)
           f == [k \in 1 .. n |-> IF k \notin T THEN k ELSE IF next[k] = k THEN i ELSE next[k]]
<1>1. n \in Nat /\ DOMAIN h = 1 .. n /\ i \in 1 .. n
    OBVIOUS
<1>2. Trail(next, i) = T /\ T \subseteq 1 .. n /\ i \in T /\ Closed(next, T)
    BY <1>1, TrailIsReach, ReachStarts
<1>3. Move(h, i, next) = [k \in 1 .. n |-> h[f[k]]]
    BY <1>1, <1>2 DEF Move
<1>4. f \in [1 .. n -> 1 .. n] /\ \A k \in T : f[k] \in T
    BY <1>1, <1>2 DEF Steps, Closed
<1>5. \A k \in T : next[k] = i => k = i
  <2> SUFFICES ASSUME NEW k \in T, next[k] = i PROVE k = i
      OBVIOUS
  <2>1. CASE Descends(next)
      BY <1>1, <1>2, <2>1, TrailOneWay DEF Descends, Steps
  <2>2. CASE Ascends(next)
      BY <1>1, <1>2, <2>2, TrailOneWay DEF Ascends, Steps
  <2> QED
      BY <2>1, <2>2
<1>6. ASSUME NEW j \in 1 .. n, NEW k \in 1 .. n, f[j] = f[k] PROVE j = k
  <2>1. CASE j \notin T \/ k \notin T
      BY <1>4, <1>6, <2>1
  <2>2. CASE j \in T /\ k \in T
    <3>1. next[j] = j <=> next[k] = k
        BY <1>5, <1>6, <2>2
    <3>2. next[j] = j => j = k
        BY <1>1, <2>2, <3>1, OneEnd
    <3>3. next[j] # j => next[j] = next[k]
        BY <1>6, <2>2, <3>1
    <3> QED
        BY <1>1, <2>2, <3>1, <3>2, <3>3, TrailInjective
  <2> QED
      BY <2>1, <2>2
<1>7. Reorders(f, n)
    <2> HIDE DEF f
    <2> QED BY <1>1, <1>4, <1>6, InjectiveReorders
<1>8. Move(h, i, next) \in Seq(S) /\ Len(Move(h, i, next)) = n
    <2> HIDE DEF f
    <2> QED BY <1>1, <1>3, <1>4
<1> QED
    <2> HIDE DEF f
    <2> QED BY <1>1, <1>3, <1>7, <1>8 DEF Rearranged

----------------------------------------------------------------------------
(***************************************************************************)
(* The two moves.                                                          *)
(***************************************************************************)
LEMMA Halves ==
    /\ \A k \in Nat : k > 1 => k \div 2 \in Nat /\ k \div 2 >= 1 /\ k \div 2 < k
    /\ \A k \in Nat, c \in Nat : c \in {2 * k, 2 * k + 1} <=> c \div 2 = k
OBVIOUS

Timed(S) == \A timer \in S : timer.timeout \in Int

LEMMA RisesSteps ==
    ASSUME NEW S, NEW h \in Seq(S), NEW i \in DOMAIN h
    PROVE  Steps(Rises(h, i), Len(h)) /\ Descends(Rises(h, i))
<1>1. DOMAIN h = 1 .. Len(h) /\ Len(h) \in Nat
    OBVIOUS
<1>2. \A k \in 1 .. Len(h) : k > 1 => k \div 2 \in 1 .. Len(h) /\ k \div 2 <= k
    BY <1>1, Halves
<1> QED
    BY <1>1, <1>2 DEF Rises, Steps, Descends

\* Least picks one that comes before all others, the first of them.
LEMMA LeastIsLeast ==
    ASSUME NEW S, Timed(S), NEW h \in Seq(S), NEW i \in DOMAIN h, NEW k \in DOMAIN h,
           Smaller(h, i, k) # {}
    PROVE  /\ Least(h, Smaller(h, i, k)) \in Smaller(h, i, k)
           /\ \A d \in Smaller(h, i, k) : h[Least(h, Smaller(h, i, k))].timeout <= h[d].timeout
<1> DEFINE C == Smaller(h, i, k)
           First(c) == \A d \in C :
                h[c].timeout < h[d].timeout \/ (h[c].timeout = h[d].timeout /\ c <= d)
<1>1. PICK l \in Nat, r \in Nat : l = 2 * k /\ r = 2 * k + 1 /\ l < r
    OBVIOUS
<1>2. \A c \in C : (c = l \/ c = r) /\ c \in DOMAIN h /\ h[c].timeout \in Int
    BY <1>1 DEF Smaller, Timed
<1> HIDE DEF C
<1>3. \E c \in C : First(c)
  <2>1. CASE l \in C /\ r \in C
    <3>1. PICK x \in Int, y \in Int : x = h[l].timeout /\ y = h[r].timeout
        BY <1>2, <2>1
    <3>2. x <= y => First(l)
      <4> SUFFICES ASSUME x <= y, NEW d \in C
                   PROVE  h[l].timeout < h[d].timeout \/ (h[l].timeout = h[d].timeout /\ l <= d)
          OBVIOUS
      <4>1. CASE d = l
          BY <1>1, <4>1
      <4>2. CASE d = r
        <5>1. x < y \/ x = y
            BY <3>1
        <5>2. l <= r
            BY <1>1
        <5> QED
            BY <3>1, <4>2, <5>1, <5>2
      <4> QED
          BY <1>2, <4>1, <4>2
    <3>3. x > y => First(r)
      <4> SUFFICES ASSUME x > y, NEW d \in C
                   PROVE  h[r].timeout < h[d].timeout \/ (h[r].timeout = h[d].timeout /\ r <= d)
          OBVIOUS
      <4>1. CASE d = l
          BY <3>1, <4>1
      <4>2. CASE d = r
          BY <1>1, <4>2
      <4> QED
          BY <1>2, <4>1, <4>2
    <3>4. x <= y \/ x > y
        BY <3>1
    <3> QED
        BY <2>1, <3>2, <3>3, <3>4
  <2>2. CASE ~ (l \in C /\ r \in C)
    <3>1. PICK c \in C : TRUE
        BY DEF C
    <3>2. \A d \in C : d = c
        BY <1>2, <2>2, <3>1
    <3>3. First(c)
        BY <1>1, <1>2, <3>1, <3>2
    <3> QED
        BY <3>1, <3>3
  <2> QED
      BY <2>1, <2>2
<1>4. Least(h, C) \in C /\ First(Least(h, C))
    BY <1>3 DEF Least
<1>5. \A d \in C : h[Least(h, C)].timeout <= h[d].timeout
  <2> SUFFICES ASSUME NEW d \in C PROVE h[Least(h, C)].timeout <= h[d].timeout
      OBVIOUS
  <2>1. PICK c \in C : c = Least(h, C)
      BY <1>4
  <2>2. h[c].timeout \in Int /\ h[d].timeout \in Int
      BY <1>2
  <2> QED
      BY <1>4, <2>1, <2>2
<1> QED
    BY <1>4, <1>5 DEF C

LEMMA SinksSteps ==
    ASSUME NEW S, Timed(S), NEW h \in Seq(S), NEW i \in DOMAIN h
    PROVE  Steps(Sinks(h, i), Len(h)) /\ Ascends(Sinks(h, i))
<1>1. DOMAIN h = 1 .. Len(h) /\ Len(h) \in Nat
    OBVIOUS
<1>2. \A k \in 1 .. Len(h) : Smaller(h, i, k) # {} =>
        Least(h, Smaller(h, i, k)) \in 1 .. Len(h) /\ Least(h, Smaller(h, i, k)) >= k
  <2> SUFFICES ASSUME NEW k \in 1 .. Len(h), Smaller(h, i, k) # {}
               PROVE  Least(h, Smaller(h, i, k)) \in 1 .. Len(h) /\ Least(h, Smaller(h, i, k)) >= k
      OBVIOUS
  <2>1. Least(h, Smaller(h, i, k)) \in Smaller(h, i, k)
      BY <1>1, LeastIsLeast
  <2>2. \A c \in Smaller(h, i, k) : c \in 1 .. Len(h) /\ c >= k
      BY <1>1 DEF Smaller
  <2> QED
      BY <2>1, <2>2
<1> QED
    BY <1>1, <1>2 DEF Sinks, Steps, Ascends

LEMMA UpRearranges ==
    ASSUME NEW S, NEW h \in Seq(S), NEW i \in DOMAIN h
    PROVE  Up(h, i) \in Seq(S) /\ Rearranged(Up(h, i), h)
BY RisesSteps, MoveRearranges DEF Up

LEMMA DownRearranges ==
    ASSUME NEW S, Timed(S), NEW h \in Seq(S), NEW i \in DOMAIN h
    PROVE  Down(h, i) \in Seq(S) /\ Rearranged(Down(h, i), h)
BY SinksSteps, MoveRearranges DEF Down

----------------------------------------------------------------------------
(***************************************************************************)
(* Moves restore the order. What is left of it while the timer at i is out *)
(* of place: its parent comes before its children.                         *)
(***************************************************************************)
Spans(h, i) ==
    \A c \in 2 .. Len(h) : i > 1 /\ c \div 2 = i => h[i \div 2].timeout <= h[c].timeout
OrderedBelow(h, i) ==   \* only i may come before its parent
    /\ \A k \in 2 .. Len(h) : k # i => h[k \div 2].timeout <= h[k].timeout
    /\ Spans(h, i)
OrderedAround(h, i) ==  \* and only i may come after its children
    /\ \A k \in 2 .. Len(h) : k # i /\ k \div 2 # i => h[k \div 2].timeout <= h[k].timeout
    /\ Spans(h, i)

LEMMA Timeouts ==
    ASSUME NEW S, Timed(S), NEW h \in Seq(S)
    PROVE  \A k \in 1 .. Len(h) : h[k].timeout \in Int
BY DEF Timed

LEMMA RisesOn ==
    ASSUME NEW S, Timed(S), NEW h \in Seq(S), NEW i \in DOMAIN h, NEW T, NEW next,
           next = Rises(h, i), T = Reach(next, i)
    PROVE  /\ T \subseteq 1 .. Len(h) /\ i \in T
           /\ \A k \in T : k <= i /\ (k # i => h[i].timeout < h[k].timeout)
           /\ \A k \in T : next[k] # k =>
                k > 1 /\ next[k] = k \div 2 /\ k \div 2 \in T /\ h[i].timeout < h[k \div 2].timeout
           /\ \A k \in T : next[k] = k /\ k > 1 =>
                h[k \div 2].timeout <= h[i].timeout /\ k \div 2 \notin T
<1>1. DOMAIN h = 1 .. Len(h) /\ Len(h) \in Nat /\ i \in 1 .. Len(h)
    OBVIOUS
<1>2. Steps(next, Len(h)) /\ Descends(next)
    BY RisesSteps
<1>3. T \subseteq 1 .. Len(h) /\ i \in T /\ Closed(next, T)
    BY <1>1, <1>2, ReachStarts
<1>4. \A k \in T : k <= i
    BY <1>1, <1>2, TrailOneWay
<1>5. \A k \in 1 .. Len(h) : k > 1 => k \div 2 \in 1 .. Len(h) /\ k \div 2 < k
    BY <1>1, Halves
<1>6. \A k \in T : next[k] # k =>
        k > 1 /\ next[k] = k \div 2 /\ k \div 2 \in T /\ h[i].timeout < h[k \div 2].timeout
    BY <1>1, <1>3 DEF Rises, Closed
<1>7. \A k \in T : k # i => h[i].timeout < h[k].timeout
  <2> DEFINE U == {k \in 1 .. Len(h) : k \in T /\ (k # i => h[i].timeout < h[k].timeout)}
  <2>1. i \in U /\ Closed(next, U)
      BY <1>1, <1>3, <1>6 DEF Closed
  <2>2. T \subseteq U
      <3> HIDE DEF U
      <3>1. U \in SUBSET (1 .. Len(h))
          BY DEF U
      <3> QED BY <1>1, <1>2, <2>1, <3>1, ReachStarts
  <2> QED
      BY <2>2
<1>8. ASSUME NEW k \in T, next[k] = k, k > 1
      PROVE  h[k \div 2].timeout <= h[i].timeout /\ k \div 2 \notin T
  <2>1. k \in 1 .. Len(h) /\ k \div 2 \in 1 .. Len(h) /\ k \div 2 < k
      BY <1>3, <1>5, <1>8
  <2>2. ~ (h[i].timeout < h[k \div 2].timeout)
      BY <1>1, <1>8, <2>1 DEF Rises
  <2>3. h[i].timeout \in Int /\ h[k \div 2].timeout \in Int
      BY <1>1, <2>1, Timeouts
  <2>4. k \div 2 \in T => k \div 2 = i
      BY <1>7, <2>2
  <2> QED
      BY <1>1, <1>4, <2>1, <2>2, <2>3, <2>4
<1> QED
    BY <1>3, <1>4, <1>6, <1>7, <1>8

LEMMA UpOrders ==
    ASSUME NEW S, Timed(S), NEW h \in Seq(S), NEW i \in DOMAIN h, OrderedBelow(h, i)
    PROVE  Ordered(Up(h, i))
<1>1. PICK next, T, g : next = Rises(h, i) /\ T = Reach(next, i) /\ g = Up(h, i)
    OBVIOUS
<1>2. DOMAIN h = 1 .. Len(h) /\ Len(h) \in Nat /\ i \in 1 .. Len(h)
    OBVIOUS
<1>3. /\ T \subseteq 1 .. Len(h) /\ i \in T
      /\ \A k \in T : k <= i /\ (k # i => h[i].timeout < h[k].timeout)
      /\ \A k \in T : next[k] # k =>
            k > 1 /\ next[k] = k \div 2 /\ k \div 2 \in T /\ h[i].timeout < h[k \div 2].timeout
      /\ \A k \in T : next[k] = k /\ k > 1 =>
            h[k \div 2].timeout <= h[i].timeout /\ k \div 2 \notin T
    BY <1>1, RisesOn
<1>4. Trail(next, i) = T
    BY <1>1, <1>2, RisesSteps, TrailIsReach
<1>5. Len(g) = Len(h) /\ \A k \in 1 .. Len(h) :
        g[k] = IF k \notin T THEN h[k] ELSE IF next[k] = k THEN h[i] ELSE h[next[k]]
  <2>1. g = Move(h, i, next)
      BY <1>1 DEF Up
  <2>2. g = [k \in 1 .. Len(h) |->
                IF k \notin T THEN h[k] ELSE IF next[k] = k THEN h[i] ELSE h[next[k]]]
      BY <1>2, <1>4, <2>1 DEF Move
  <2>3. Len(g) = Len(h)
      BY <1>1, UpRearranges DEF Rearranged
  <2> QED
      BY <2>2, <2>3
<1>6. \A k \in 1 .. Len(h) : h[k].timeout \in Int
    BY Timeouts
<1>7. ASSUME NEW k \in 2 .. Len(h), NEW q \in Nat, q = k \div 2
      PROVE  g[q].timeout <= g[k].timeout
  <2>1. q \in 1 .. Len(h) /\ k \in 1 .. Len(h) /\ k > 1 /\ q < k
      BY <1>2, <1>7, Halves
  <2>2. k # i => h[q].timeout <= h[k].timeout
      BY <1>7 DEF OrderedBelow
  <2>3. q > 1 => q \div 2 \in 1 .. Len(h) /\ q \in 2 .. Len(h)
      BY <2>1, Halves
  <2>4. q > 1 /\ q # i => h[q \div 2].timeout <= h[q].timeout
      BY <2>3 DEF OrderedBelow
  <2>5. q > 1 /\ q = i => h[q \div 2].timeout <= h[k].timeout
      BY <1>7 DEF OrderedBelow, Spans
  <2>6. CASE k \notin T
    <3>1. k # i /\ g[k] = h[k]
        BY <1>3, <1>5, <2>1, <2>6
    <3>2. CASE q \notin T
        BY <1>5, <2>1, <2>2, <3>1, <3>2
    <3>3. CASE q \in T /\ next[q] = q
      <4>1. g[q] = h[i]
          BY <1>5, <2>1, <3>3
      <4>2. h[i].timeout <= h[q].timeout
          BY <1>2, <1>3, <1>6, <2>1, <3>3
      <4> QED
          BY <1>2, <1>6, <2>1, <2>2, <3>1, <4>1, <4>2
    <3>4. CASE q \in T /\ next[q] # q
      <4>1. g[q] = h[q \div 2] /\ q > 1
          BY <1>3, <1>5, <2>1, <3>4
      <4> QED
          BY <1>6, <2>1, <2>2, <2>3, <2>4, <2>5, <3>1, <4>1
    <3> QED
        BY <3>2, <3>3, <3>4
  <2>7. CASE k \in T /\ next[k] # k
    <3>1. g[k] = h[q] /\ q \in T /\ h[i].timeout < h[q].timeout /\ q # i
        BY <1>3, <1>5, <1>7, <2>1, <2>7
    <3>2. CASE next[q] = q
        BY <1>2, <1>5, <1>6, <2>1, <3>1, <3>2
    <3>3. CASE next[q] # q
      <4>1. g[q] = h[q \div 2] /\ q > 1
          BY <1>3, <1>5, <2>1, <3>1, <3>3
      <4> QED
          BY <2>4, <3>1, <4>1
    <3> QED
        BY <3>2, <3>3
  <2>8. CASE k \in T /\ next[k] = k
      BY <1>3, <1>5, <1>7, <2>1, <2>8
  <2> QED
      BY <2>6, <2>7, <2>8
<1>8. \A k \in 2 .. Len(h) : k \div 2 \in Nat
    BY Halves
<1> QED
    BY <1>1, <1>5, <1>7, <1>8 DEF Ordered

LEMMA SinksOn ==
    ASSUME NEW S, Timed(S), NEW h \in Seq(S), NEW i \in DOMAIN h, NEW T, NEW next,
           next = Sinks(h, i), T = Reach(next, i)
    PROVE  /\ T \subseteq 1 .. Len(h) /\ i \in T
           /\ \A k \in T : k >= i /\ (k # i => k \div 2 \in T /\ next[k \div 2] = k)
           /\ \A k \in T : next[k] # k =>
                /\ next[k] \in T /\ next[k] \div 2 = k /\ next[k] > k
                /\ h[next[k]].timeout < h[i].timeout
                /\ \A c \in 2 .. Len(h) : c \div 2 = k => h[next[k]].timeout <= h[c].timeout
           /\ \A k \in T : next[k] = k =>
                \A c \in 2 .. Len(h) : c \div 2 = k => h[i].timeout <= h[c].timeout
<1>1. DOMAIN h = 1 .. Len(h) /\ Len(h) \in Nat /\ i \in 1 .. Len(h)
    OBVIOUS
<1>2. Steps(next, Len(h)) /\ Ascends(next)
    BY SinksSteps
<1>3. T \subseteq 1 .. Len(h) /\ i \in T /\ Closed(next, T)
    BY <1>1, <1>2, ReachStarts
<1>4. \A k \in T : k >= i
    BY <1>1, <1>2, TrailOneWay
<1>5. \A k \in 1 .. Len(h) : h[k].timeout \in Int
    BY Timeouts
<1>6. \A k \in 1 .. Len(h), c \in 2 .. Len(h) : c \div 2 = k =>
        c \in {2 * k, 2 * k + 1} /\ c \in 1 .. Len(h)
    BY <1>1, Halves
<1>7. \A k \in 1 .. Len(h) : \A c \in Smaller(h, i, k) :
        c \div 2 = k /\ c > k /\ h[c].timeout < h[i].timeout
    BY <1>1, Halves DEF Smaller
<1>8. ASSUME NEW k \in T, next[k] # k
      PROVE  /\ next[k] \in T /\ next[k] \div 2 = k /\ next[k] > k
             /\ h[next[k]].timeout < h[i].timeout
             /\ \A c \in 2 .. Len(h) : c \div 2 = k => h[next[k]].timeout <= h[c].timeout
  <2>1. k \in 1 .. Len(h) /\ next[k] \in T /\ next[k] \in 1 .. Len(h)
      BY <1>3 DEF Closed
  <2>2. Smaller(h, i, k) # {} /\ next[k] = Least(h, Smaller(h, i, k))
      BY <1>1, <1>8, <2>1 DEF Sinks
  <2>3. /\ next[k] \in Smaller(h, i, k)
        /\ \A d \in Smaller(h, i, k) : h[next[k]].timeout <= h[d].timeout
      BY <1>1, <2>1, <2>2, LeastIsLeast
  <2>4. next[k] \div 2 = k /\ next[k] > k /\ h[next[k]].timeout < h[i].timeout
      BY <1>7, <2>1, <2>3
  <2>5. ASSUME NEW c \in 2 .. Len(h), c \div 2 = k PROVE h[next[k]].timeout <= h[c].timeout
    <3>1. c \in {2 * k, 2 * k + 1} /\ c \in 1 .. Len(h)
        BY <1>6, <2>1, <2>5
    <3>2. CASE h[c].timeout < h[i].timeout
      <4>1. c \in Smaller(h, i, k)
          BY <1>1, <3>1, <3>2 DEF Smaller
      <4> QED
          BY <2>3, <4>1
    <3>3. CASE ~ (h[c].timeout < h[i].timeout)
        BY <1>1, <1>5, <2>1, <2>4, <3>1, <3>3
    <3> QED
        BY <3>2, <3>3
  <2> QED
      BY <2>1, <2>4, <2>5
<1>9. ASSUME NEW k \in T, next[k] = k, NEW c \in 2 .. Len(h), c \div 2 = k
      PROVE  h[i].timeout <= h[c].timeout
  <2>1. k \in 1 .. Len(h)
      BY <1>3
  <2>2. c \in {2 * k, 2 * k + 1} /\ c \in 1 .. Len(h)
      BY <1>6, <1>9, <2>1
  <2>3. Smaller(h, i, k) = {}
    <3> SUFFICES ASSUME Smaller(h, i, k) # {} PROVE FALSE
        OBVIOUS
    <3>1. next[k] \in Smaller(h, i, k)
        BY <1>1, <2>1, LeastIsLeast DEF Sinks
    <3> QED
        BY <1>1, <1>7, <1>9, <2>1, <3>1
  <2>4. ~ (h[c].timeout < h[i].timeout)
      BY <1>1, <2>2, <2>3 DEF Smaller
  <2> QED
      BY <1>1, <1>5, <2>2, <2>4
<1>10. \A k \in T : k # i => k \div 2 \in T /\ next[k \div 2] = k
  <2> DEFINE U == {k \in 1 .. Len(h) : k \in T /\ (k # i => k \div 2 \in T /\ next[k \div 2] = k)}
  <2>1. i \in U
      BY <1>1, <1>3
  <2>2. ASSUME NEW k \in U PROVE next[k] \in U
    <3>1. CASE next[k] = k
        BY <3>1
    <3>2. CASE next[k] # k
        BY <1>3, <1>8, <3>2
    <3> QED
        BY <3>1, <3>2
  <2>3. U \in SUBSET (1 .. Len(h)) /\ Closed(next, U)
      BY <2>2 DEF Closed
  <2>4. T \subseteq U
      <3> HIDE DEF U
      <3> QED BY <1>1, <1>2, <2>1, <2>3, ReachStarts
  <2> QED
      BY <2>4
<1> QED
    BY <1>3, <1>4, <1>8, <1>9, <1>10

LEMMA DownOrders ==
    ASSUME NEW S, Timed(S), NEW h \in Seq(S), NEW i \in DOMAIN h, OrderedAround(h, i)
    PROVE  /\ OrderedBelow(Down(h, i), i)
           /\ (i > 1 => h[i \div 2].timeout <= h[i].timeout) => Ordered(Down(h, i))
<1>1. PICK next, T, g : next = Sinks(h, i) /\ T = Reach(next, i) /\ g = Down(h, i)
    OBVIOUS
<1>2. DOMAIN h = 1 .. Len(h) /\ Len(h) \in Nat /\ i \in 1 .. Len(h)
    OBVIOUS
<1>3. /\ T \subseteq 1 .. Len(h) /\ i \in T
      /\ \A k \in T : k >= i /\ (k # i => k \div 2 \in T /\ next[k \div 2] = k)
      /\ \A k \in T : next[k] # k =>
            /\ next[k] \in T /\ next[k] \div 2 = k /\ next[k] > k
            /\ h[next[k]].timeout < h[i].timeout
            /\ \A c \in 2 .. Len(h) : c \div 2 = k => h[next[k]].timeout <= h[c].timeout
      /\ \A k \in T : next[k] = k =>
            \A c \in 2 .. Len(h) : c \div 2 = k => h[i].timeout <= h[c].timeout
    BY <1>1, SinksOn
<1>4. Trail(next, i) = T
    BY <1>1, <1>2, SinksSteps, TrailIsReach
<1>5. Len(g) = Len(h) /\ \A k \in 1 .. Len(h) :
        g[k] = IF k \notin T THEN h[k] ELSE IF next[k] = k THEN h[i] ELSE h[next[k]]
  <2>1. g = Move(h, i, next)
      BY <1>1 DEF Down
  <2>2. g = [k \in 1 .. Len(h) |->
                IF k \notin T THEN h[k] ELSE IF next[k] = k THEN h[i] ELSE h[next[k]]]
      BY <1>2, <1>4, <2>1 DEF Move
  <2>3. Len(g) = Len(h)
      BY <1>1, DownRearranges DEF Rearranged
  <2> QED
      BY <2>2, <2>3
<1>6. \A k \in 1 .. Len(h) : h[k].timeout \in Int
    BY Timeouts
<1>7. ASSUME NEW k \in 2 .. Len(h), NEW q \in Nat, q = k \div 2, k # i
      PROVE  g[q].timeout <= g[k].timeout
  <2>1. q \in 1 .. Len(h) /\ k \in 1 .. Len(h) /\ k > 1 /\ q < k
      BY <1>2, <1>7, Halves
  <2>2. q # i => h[q].timeout <= h[k].timeout
      BY <1>7 DEF OrderedAround
  <2>3. CASE q \notin T
    <3>1. k \notin T
        BY <1>3, <1>7, <2>3
    <3> QED
        BY <1>3, <1>5, <2>1, <2>2, <2>3, <3>1
  <2>4. CASE q \in T /\ next[q] = q
    <3>1. k \notin T
        BY <1>3, <1>7, <2>1, <2>4
    <3> QED
        BY <1>3, <1>5, <1>7, <2>1, <2>4, <3>1
  <2>5. CASE q \in T /\ next[q] # q
    <3>1. g[q] = h[next[q]] /\ h[next[q]].timeout <= h[k].timeout
        BY <1>3, <1>5, <1>7, <2>1, <2>5
    <3>2. CASE k \notin T
        BY <1>5, <2>1, <3>1, <3>2
    <3>3. CASE k \in T
      <4>1. next[q] = k /\ h[k].timeout < h[i].timeout
          BY <1>3, <1>7, <2>5, <3>3
      <4>2. CASE next[k] = k
          BY <1>2, <1>5, <1>6, <2>1, <3>1, <3>3, <4>1, <4>2
      <4>3. CASE next[k] # k
        <5>1. PICK c \in 2 .. Len(h) : c = next[k] /\ c \div 2 = k /\ c > k
            BY <1>2, <1>3, <2>1, <3>3, <4>3
        <5>2. c # i
          <6>1. k >= i
              BY <1>3, <3>3
          <6> QED
              BY <1>2, <2>1, <5>1, <6>1
        <5>3. h[k].timeout <= h[c].timeout
            BY <1>7, <5>1, <5>2 DEF OrderedAround
        <5> QED
            BY <1>5, <2>1, <3>1, <3>3, <4>1, <4>3, <5>1, <5>3
      <4> QED
          BY <4>2, <4>3
    <3> QED
        BY <3>2, <3>3
  <2> QED
      BY <2>3, <2>4, <2>5
<1>8. \A k \in 2 .. Len(h) : k \div 2 \in Nat
    BY Halves
<1>9. ASSUME i > 1, NEW q \in Nat, q = i \div 2
      PROVE  /\ q \in 1 .. Len(h) /\ g[q] = h[q]
             /\ \A c \in 2 .. Len(h) : c \div 2 = i => h[q].timeout <= g[c].timeout
             /\ h[q].timeout <= h[i].timeout => h[q].timeout <= g[i].timeout
  <2>1. q \in 1 .. Len(h) /\ q < i
      BY <1>2, <1>9, Halves
  <2>2. q \notin T
      BY <1>2, <1>3, <2>1
  <2>3. \A c \in 2 .. Len(h) : c \div 2 = i => h[q].timeout <= h[c].timeout
      BY <1>9 DEF OrderedAround, Spans
  <2>4. ASSUME NEW c \in 2 .. Len(h), c \div 2 = i PROVE h[q].timeout <= g[c].timeout
    <3>1. c \in 1 .. Len(h) /\ c > i
        BY <1>2, <2>4, Halves
    <3>2. CASE c \notin T
        BY <1>5, <2>3, <2>4, <3>1, <3>2
    <3>3. CASE c \in T /\ next[c] = c
      <4>1. next[i] = c /\ h[c].timeout < h[i].timeout /\ g[c] = h[i]
          BY <1>2, <1>3, <1>5, <2>4, <3>1, <3>3
      <4> QED
          BY <1>2, <1>6, <2>1, <2>3, <2>4, <3>1, <4>1
    <3>4. CASE c \in T /\ next[c] # c
      <4>1. PICK d \in 2 .. Len(h) : d = next[c] /\ d \div 2 = c /\ d > c /\ g[c] = h[d]
        <5>1. next[c] \in T /\ next[c] \div 2 = c /\ next[c] > c
            BY <1>3, <3>4
        <5>2. next[c] \in 1 .. Len(h)
            BY <1>3, <5>1
        <5>3. g[c] = h[next[c]]
            BY <1>5, <3>1, <3>4
        <5> QED
            BY <1>2, <3>1, <5>1, <5>2, <5>3
      <4>2. h[c].timeout <= h[d].timeout
          BY <1>2, <3>1, <4>1 DEF OrderedAround
      <4> QED
          BY <1>2, <1>6, <2>1, <2>3, <2>4, <3>1, <4>1, <4>2
    <3> QED
        BY <3>2, <3>3, <3>4
  <2>5. h[q].timeout <= h[i].timeout => h[q].timeout <= g[i].timeout
    <3>1. CASE next[i] = i
        BY <1>2, <1>3, <1>5, <3>1
    <3>2. CASE next[i] # i
      <4>1. PICK d \in 2 .. Len(h) : d = next[i] /\ d \div 2 = i /\ g[i] = h[d]
          BY <1>2, <1>3, <1>5, <3>2
      <4> QED
          BY <2>3, <4>1
    <3> QED
        BY <3>1, <3>2
  <2> QED
      BY <1>5, <2>1, <2>2, <2>4, <2>5
<1>10. OrderedBelow(g, i)
    BY <1>2, <1>5, <1>7, <1>8, <1>9, Halves DEF OrderedBelow, Spans
<1>11. ASSUME i > 1 => h[i \div 2].timeout <= h[i].timeout PROVE Ordered(g)
  <2>1. i > 1 => g[i \div 2].timeout <= g[i].timeout
      BY <1>2, <1>9, <1>11, Halves
  <2>2. ASSUME NEW k \in 2 .. Len(g) PROVE g[k \div 2].timeout <= g[k].timeout
    <3>1. CASE k = i
        BY <2>1, <3>1
    <3>2. CASE k # i
        BY <1>10, <3>2 DEF OrderedBelow
    <3> QED
        BY <3>1, <3>2
  <2> QED
      BY <2>2 DEF Ordered
<1> QED
    BY <1>1, <1>10, <1>11

----------------------------------------------------------------------------
(***************************************************************************)
(* The operations: which timers the array holds after them, and that it is *)
(* ordered again.                                                          *)
(***************************************************************************)
\* The array before the last timer, at i, is moved to its place.
Without(h, i) == Front([h EXCEPT ![i] = Last(h)])
Retimed(h, i, timeout) == [h EXCEPT ![i].timeout = timeout]

LEMMA Appended ==
    ASSUME NEW S, NEW h \in Seq(S), NEW timer \in S
    PROVE  /\ Append(h, timer) \in Seq(S) /\ Len(Append(h, timer)) = Len(h) + 1
           /\ Len(h) + 1 \in DOMAIN Append(h, timer)
           /\ \A k \in 1 .. Len(h) : Append(h, timer)[k] = h[k]
           /\ Append(h, timer)[Len(h) + 1] = timer
OBVIOUS

LEMMA WithoutOne ==
    ASSUME NEW S, NEW h \in Seq(S), NEW i \in DOMAIN h
    PROVE  /\ Without(h, i) \in Seq(S) /\ Len(Without(h, i)) = Len(h) - 1
           /\ \A k \in 1 .. Len(h) - 1 :
                Without(h, i)[k] = IF k = i THEN h[Len(h)] ELSE h[k]
<1> DEFINE g == [h EXCEPT ![i] = h[Len(h)]]
<1>1. Len(h) \in Nat /\ Len(h) >= 1 /\ i \in 1 .. Len(h) /\ DOMAIN h = 1 .. Len(h)
    OBVIOUS
<1>2. g \in Seq(S) /\ Len(g) = Len(h) /\ \A k \in 1 .. Len(h) : g[k] = IF k = i THEN h[Len(h)] ELSE h[k]
    BY <1>1
<1>3. Without(h, i) = SubSeq(g, 1, Len(h) - 1)
    BY <1>2 DEF Without, Front, Last
<1> HIDE DEF g
<1>4. /\ SubSeq(g, 1, Len(h) - 1) \in Seq(S) /\ Len(SubSeq(g, 1, Len(h) - 1)) = Len(h) - 1
      /\ \A k \in 1 .. Len(h) - 1 : SubSeq(g, 1, Len(h) - 1)[k] = g[k]
    BY <1>1, <1>2
<1> QED
    BY <1>1, <1>2, <1>3, <1>4

LEMMA RetimedOne ==
    ASSUME NEW S, NEW h \in Seq(S), NEW i \in DOMAIN h, NEW timeout,
           [h[i] EXCEPT !.timeout = timeout] \in S
    PROVE  /\ Retimed(h, i, timeout) \in Seq(S) /\ Len(Retimed(h, i, timeout)) = Len(h)
           /\ \A k \in 1 .. Len(h) : Retimed(h, i, timeout)[k] =
                IF k = i THEN [h[i] EXCEPT !.timeout = timeout] ELSE h[k]
BY DEF Retimed

\* Two steps up in an ordered heap.
LEMMA OrderedSpans ==
    ASSUME NEW S, Timed(S), NEW h \in Seq(S), Ordered(h), NEW i \in 1 .. Len(h)
    PROVE  Spans(h, i)
<1> SUFFICES ASSUME NEW c \in 2 .. Len(h), i > 1, c \div 2 = i
             PROVE  h[i \div 2].timeout <= h[c].timeout
    BY DEF Spans
<1>1. i \in 2 .. Len(h) /\ i \div 2 \in 1 .. Len(h) /\ c \in 1 .. Len(h)
    BY Halves
<1>2. h[i \div 2].timeout <= h[i].timeout /\ h[i].timeout <= h[c].timeout
    BY <1>1 DEF Ordered
<1> QED
    BY <1>1, <1>2, Timeouts

\* Starting a timer adds it.
THEOREM InsertAdds ==
    ASSUME NEW S, Timed(S), NEW h \in Seq(S), NEW timer \in S
    PROVE  /\ Insert(h, timer) \in Seq(S)
           /\ Rearranged(Insert(h, timer), Append(h, timer))
           /\ Ordered(h) => Ordered(Insert(h, timer))
<1>1. PICK g, i : g = Append(h, timer) /\ i = Len(h) + 1
    OBVIOUS
<1>2. g \in Seq(S) /\ i \in DOMAIN g /\ Insert(h, timer) = Up(g, i)
    BY <1>1, Appended DEF Insert
<1>3. ASSUME Ordered(h) PROVE OrderedBelow(g, i)
  <2>1. Len(g) = i /\ Len(h) \in Nat /\ \A k \in 1 .. Len(h) : g[k] = h[k]
      BY <1>1, Appended
  <2>2. ASSUME NEW k \in 2 .. Len(g), k # i PROVE g[k \div 2].timeout <= g[k].timeout
    <3>1. k \in 2 .. Len(h) /\ k \in 1 .. Len(h) /\ k \div 2 \in 1 .. Len(h)
        BY <1>1, <2>1, <2>2, Halves
    <3> QED
        BY <1>3, <2>1, <3>1 DEF Ordered
  <2>3. Spans(g, i)
      BY <1>1, <2>1, Halves DEF Spans
  <2> QED
      BY <2>2, <2>3 DEF OrderedBelow
<1> QED
    BY <1>1, <1>2, <1>3, UpRearranges, UpOrders

\* Stopping one removes it.
THEOREM DeleteRemoves ==
    ASSUME NEW S, Timed(S), NEW h \in Seq(S), NEW i \in DOMAIN h
    PROVE  /\ Delete(h, i) \in Seq(S)
           /\ Rearranged(Delete(h, i), Without(h, i))
           /\ Ordered(h) => Ordered(Delete(h, i))
<1>1. PICK g : g = Without(h, i)
    OBVIOUS
<1>2. g \in Seq(S) /\ Len(g) = Len(h) - 1 /\ Len(h) \in Nat /\ i \in 1 .. Len(h)
      /\ \A k \in 1 .. Len(h) - 1 : g[k] = IF k = i THEN h[Len(h)] ELSE h[k]
    BY <1>1, WithoutOne
<1>3. Delete(h, i) = IF i < Len(h) THEN Up(Down(g, i), i) ELSE g
    BY <1>1 DEF Delete, Without
<1>4. ASSUME Ordered(h), i < Len(h) PROVE OrderedAround(g, i)
  <2>1. ASSUME NEW k \in 2 .. Len(g), k # i, k \div 2 # i PROVE g[k \div 2].timeout <= g[k].timeout
    <3>1. k \in 2 .. Len(h) /\ k \in 1 .. Len(h) - 1 /\ k \div 2 \in 1 .. Len(h) - 1
        BY <1>2, <2>1, Halves
    <3> QED
        BY <1>2, <1>4, <2>1, <3>1 DEF Ordered
  <2>2. ASSUME NEW c \in 2 .. Len(g), i > 1, c \div 2 = i PROVE g[i \div 2].timeout <= g[c].timeout
    <3>1. c \in 2 .. Len(h) /\ c \in 1 .. Len(h) - 1 /\ c # i
        BY <1>2, <2>2, Halves
    <3>2. i \div 2 \in 1 .. Len(h) - 1 /\ i \div 2 # i
        BY <1>2, <2>2, Halves
    <3>3. h[i \div 2].timeout <= h[c].timeout
        BY <1>2, <1>4, <2>2, <3>1, OrderedSpans DEF Spans
    <3> QED
        BY <1>2, <3>1, <3>2, <3>3
  <2> QED
      BY <2>1, <2>2 DEF OrderedAround, Spans
<1>5. CASE i < Len(h)
  <2>1. i \in DOMAIN g
      BY <1>2, <1>5
  <2>2. Down(g, i) \in Seq(S) /\ Rearranged(Down(g, i), g)
      BY <1>2, <2>1, DownRearranges
  <2>3. i \in DOMAIN Down(g, i)
      BY <1>2, <2>1, <2>2 DEF Rearranged
  <2>4. Up(Down(g, i), i) \in Seq(S) /\ Rearranged(Up(Down(g, i), i), Down(g, i))
      BY <2>2, <2>3, UpRearranges
  <2>5. Rearranged(Up(Down(g, i), i), g)
      BY <1>2, <2>2, <2>4, RearrangedTwice
  <2>6. Ordered(h) => OrderedBelow(Down(g, i), i)
      BY <1>2, <1>4, <1>5, <2>1, DownOrders
  <2>7. Ordered(h) => Ordered(Up(Down(g, i), i))
      BY <2>2, <2>3, <2>6, UpOrders
  <2> QED
      BY <1>1, <1>3, <1>5, <2>4, <2>5, <2>7
<1>6. CASE ~ (i < Len(h))
  <2>1. i = Len(h) /\ Delete(h, i) = g
      BY <1>2, <1>3, <1>6
  <2>2. ASSUME Ordered(h), NEW k \in 2 .. Len(g) PROVE g[k \div 2].timeout <= g[k].timeout
    <3>1. k \in 2 .. Len(h) /\ k \in 1 .. Len(h) - 1 /\ k \div 2 \in 1 .. Len(h) - 1
        BY <1>2, <2>2, Halves
    <3> QED
        BY <1>2, <2>1, <2>2, <3>1 DEF Ordered
  <2> QED
      BY <1>1, <1>2, <2>1, <2>2, RearrangedSelf DEF Ordered
<1> QED
    BY <1>5, <1>6

\* Taking the first removes it, and it was the earliest.
THEOREM PopRemoves ==
    ASSUME NEW S, Timed(S), NEW h \in Seq(S), h # <<>>
    PROVE  /\ Pop(h) \in Seq(S)
           /\ Rearranged(Pop(h), Without(h, 1))
           /\ Ordered(h) => Ordered(Pop(h))
<1>1. PICK g : g = Without(h, 1)
    OBVIOUS
<1>2. g \in Seq(S) /\ Len(g) = Len(h) - 1 /\ Len(h) \in Nat /\ Len(h) >= 1 /\ 1 \in DOMAIN h
      /\ \A k \in 1 .. Len(h) - 1 : g[k] = IF k = 1 THEN h[Len(h)] ELSE h[k]
    BY <1>1, WithoutOne
<1>3. Pop(h) = IF g = <<>> THEN g ELSE Down(g, 1)
    BY <1>1 DEF Pop, Without
<1>4. CASE g = <<>>
    BY <1>1, <1>2, <1>3, <1>4, RearrangedSelf DEF Ordered
<1>5. CASE g # <<>>
  <2>1. 1 \in DOMAIN g
      BY <1>2, <1>5
  <2>2. ASSUME Ordered(h) PROVE OrderedAround(g, 1)
    <3>1. ASSUME NEW k \in 2 .. Len(g), k # 1, k \div 2 # 1 PROVE g[k \div 2].timeout <= g[k].timeout
      <4>1. k \in 2 .. Len(h) /\ k \in 1 .. Len(h) - 1 /\ k \div 2 \in 1 .. Len(h) - 1
          BY <1>2, <3>1, Halves
      <4> QED
          BY <1>2, <2>2, <3>1, <4>1 DEF Ordered
    <3> QED
        BY <3>1 DEF OrderedAround, Spans
  <2>3. Down(g, 1) \in Seq(S) /\ Rearranged(Down(g, 1), g)
      BY <1>2, <2>1, DownRearranges
  <2>4. Ordered(h) => Ordered(Down(g, 1))
      BY <1>2, <2>1, <2>2, DownOrders
  <2> QED
      BY <1>1, <1>3, <1>5, <2>3, <2>4
<1> QED
    BY <1>4, <1>5

\* A timer that is not due before its parent does not rise.
LEMMA UpStays ==
    ASSUME NEW S, NEW h \in Seq(S), NEW i \in DOMAIN h,
           ~ (i > 1 /\ h[i].timeout < h[i \div 2].timeout)
    PROVE  Up(h, i) = h
<1>1. PICK next : next = Rises(h, i)
    OBVIOUS
<1>2. Len(h) \in Nat /\ i \in 1 .. Len(h) /\ DOMAIN h = 1 .. Len(h)
    OBVIOUS
<1>3. next[i] = i
    BY <1>1, <1>2 DEF Rises
<1>4. Steps(next, Len(h)) /\ Trail(next, i) = Reach(next, i)
    BY <1>1, <1>2, RisesSteps, TrailIsReach
<1>5. {i} \in SUBSET (1 .. Len(h)) /\ Closed(next, {i})
    BY <1>2, <1>3 DEF Closed
<1>6. Trail(next, i) = {i}
    BY <1>2, <1>4, <1>5, ReachStarts
<1>7. Move(h, i, next) = [k \in 1 .. Len(h) |-> h[k]]
    BY <1>2, <1>3, <1>6 DEF Move
<1>8. [k \in 1 .. Len(h) |-> h[k]] = h
    BY <1>2
<1> QED
    BY <1>1, <1>7, <1>8 DEF Up

\* A new timeout changes that timer alone.
THEOREM RetimeMoves ==
    ASSUME NEW S, Timed(S), NEW h \in Seq(S), NEW i \in DOMAIN h, NEW timeout,
           [h[i] EXCEPT !.timeout = timeout] \in S
    PROVE  /\ Retime(h, i, timeout) \in Seq(S)
           /\ Rearranged(Retime(h, i, timeout), Retimed(h, i, timeout))
           /\ Ordered(h) => Ordered(Retime(h, i, timeout))
<1>1. PICK g : g = Retimed(h, i, timeout)
    OBVIOUS
<1>2. g \in Seq(S) /\ Len(g) = Len(h) /\ Len(h) \in Nat /\ i \in 1 .. Len(h) /\ i \in DOMAIN g
      /\ \A k \in 1 .. Len(h) : k # i => g[k] = h[k]
    BY <1>1, RetimedOne
<1>3. PICK u : u = Up(g, i)
    OBVIOUS
<1>4. Retime(h, i, timeout) = Down(u, i)
    BY <1>1, <1>3 DEF Retime, Retimed
<1>5. u \in Seq(S) /\ Rearranged(u, g) /\ i \in DOMAIN u
    BY <1>2, <1>3, UpRearranges DEF Rearranged
<1>6. Down(u, i) \in Seq(S) /\ Rearranged(Down(u, i), u)
    BY <1>5, DownRearranges
<1>7. Rearranged(Down(u, i), g)
    BY <1>2, <1>5, <1>6, RearrangedTwice
<1>8. ASSUME Ordered(h) PROVE Ordered(Down(u, i))
  <2>1. OrderedAround(g, i)
    <3>1. ASSUME NEW k \in 2 .. Len(g), k # i, k \div 2 # i PROVE g[k \div 2].timeout <= g[k].timeout
      <4>1. k \in 2 .. Len(h) /\ k \in 1 .. Len(h) /\ k \div 2 \in 1 .. Len(h)
          BY <1>2, <3>1, Halves
      <4> QED
          BY <1>2, <1>8, <3>1, <4>1 DEF Ordered
    <3>2. ASSUME NEW c \in 2 .. Len(g), i > 1, c \div 2 = i PROVE g[i \div 2].timeout <= g[c].timeout
      <4>1. c \in 2 .. Len(h) /\ c \in 1 .. Len(h) /\ c # i
          BY <1>2, <3>2, Halves
      <4>2. i \div 2 \in 1 .. Len(h) /\ i \div 2 # i
          BY <1>2, <3>2, Halves
      <4>3. h[i \div 2].timeout <= h[c].timeout
          BY <1>2, <1>8, <3>2, <4>1, OrderedSpans DEF Spans
      <4> QED
          BY <1>2, <4>1, <4>2, <4>3
    <3> QED
        BY <3>1, <3>2 DEF OrderedAround, Spans
  <2>2. CASE i > 1 /\ g[i].timeout < g[i \div 2].timeout
    <3>1. i \div 2 \in 1 .. Len(g)
        BY <1>2, <2>2, Halves
    <3>2. ASSUME NEW k \in 2 .. Len(g), k # i PROVE g[k \div 2].timeout <= g[k].timeout
      <4>1. CASE k \div 2 = i
        <5>1. g[i \div 2].timeout <= g[k].timeout
            BY <2>1, <2>2, <4>1 DEF OrderedAround, Spans
        <5>2. k \in 1 .. Len(g)
            BY <1>2
        <5> QED
            BY <1>2, <2>2, <3>1, <4>1, <5>1, <5>2, Timeouts
      <4>2. CASE k \div 2 # i
          BY <2>1, <3>2, <4>2 DEF OrderedAround
      <4> QED
          BY <4>1, <4>2
    <3>3. Ordered(u)
        BY <1>2, <1>3, <2>1, <3>2, UpOrders DEF OrderedAround, OrderedBelow
    <3>4. OrderedAround(u, i) /\ (i > 1 => u[i \div 2].timeout <= u[i].timeout)
      <4>1. i \in 1 .. Len(u) /\ Spans(u, i)
          BY <1>5, <3>3, OrderedSpans
      <4>2. \A k \in 2 .. Len(u) : u[k \div 2].timeout <= u[k].timeout
          BY <3>3 DEF Ordered
      <4>3. i > 1 => i \in 2 .. Len(u)
          BY <1>2, <1>5 DEF Rearranged
      <4> QED
          BY <4>1, <4>2, <4>3 DEF OrderedAround
    <3> QED
        BY <1>5, <3>4, DownOrders
  <2>3. CASE ~ (i > 1 /\ g[i].timeout < g[i \div 2].timeout)
    <3>1. u = g
        BY <1>2, <1>3, <2>3, UpStays
    <3>2. i > 1 => g[i \div 2].timeout <= g[i].timeout
      <4>1. i > 1 => i \div 2 \in 1 .. Len(g)
          BY <1>2, Halves
      <4> QED
          BY <1>2, <2>3, <4>1, Timeouts
    <3> QED
        BY <1>2, <2>1, <3>1, <3>2, DownOrders
  <2> QED
      BY <2>2, <2>3
<1> QED
    BY <1>1, <1>4, <1>6, <1>7, <1>8

\* In an ordered array none is due before the first.
THEOREM FirstIsEarliest ==
    ASSUME NEW S, Timed(S), NEW h \in Seq(S), Ordered(h), NEW k \in DOMAIN h
    PROVE  h[1].timeout <= h[k].timeout
<1> DEFINE Earlier == {j \in 1 .. Len(h) : h[j].timeout < h[1].timeout}
<1>1. Len(h) \in Nat /\ k \in 1 .. Len(h) /\ 1 \in 1 .. Len(h)
    OBVIOUS
<1>2. \A j \in 1 .. Len(h) : h[j].timeout \in Int
    BY Timeouts
<1>3. Earlier = {}
  <2> SUFFICES ASSUME Earlier # {} PROVE FALSE
      OBVIOUS
  <2>1. Earlier \subseteq Nat
      OBVIOUS
  <2>2. PICK j \in Earlier : \A l \in Earlier : j <= l
      <3> HIDE DEF Earlier
      <3> QED BY <2>1, LeastNumber
  <2>3. j \in 2 .. Len(h) /\ j \div 2 \in 1 .. Len(h) /\ j \div 2 < j
      BY <1>1, <1>2, Halves
  <2>4. h[j \div 2].timeout <= h[j].timeout
      BY <2>3 DEF Ordered
  <2>5. j \div 2 \in Earlier
      BY <1>1, <1>2, <2>3, <2>4
  <2> QED
      BY <2>2, <2>3, <2>5
<1> QED
    BY <1>1, <1>2, <1>3

----------------------------------------------------------------------------
(***************************************************************************)
(* The array under the calls that change it (TimerHeap), for any timeouts  *)
(* and any capacity, is a set of timers whose earliest is taken first.     *)
(***************************************************************************)
CONSTANTS HeapTimeouts, HeapCapacity
VARIABLES array, taken
Calls == INSTANCE TimerHeap WITH
    Timeouts <- HeapTimeouts, Capacity <- HeapCapacity, heap <- array, fired <- taken

\* No two have the same id.
Unique(h) == \A j, k \in DOMAIN h : h[j].id = h[k].id => j = k
Held == [id : 1 .. HeapCapacity, timeout : HeapTimeouts]
CallsInv == array \in Seq(Held) /\ Ordered(array) /\ Unique(array)

LEMMA CallsOperators ==
    /\ \A h, timer : Calls!Insert(h, timer) = Insert(h, timer)
    /\ \A h, i : Calls!Delete(h, i) = Delete(h, i)
    /\ \A h, i, timeout : Calls!Retime(h, i, timeout) = Retime(h, i, timeout)
    /\ \A h : Calls!Pop(h) = Pop(h)
    /\ \A h, i : Calls!Find(h, i) = Find(h, i)
    /\ \A h : Calls!ToSet(h) = ToSet(h)
<1>1. \A next, i : Calls!Trail(next, i) = Trail(next, i)
    BY DEF Calls!Trail, Trail
<1>2. \A h, i, next : Calls!Move(h, i, next) = Move(h, i, next)
    BY <1>1 DEF Calls!Move, Move
<1>3. \A h, i : Calls!Up(h, i) = Up(h, i)
    BY <1>2 DEF Calls!Up, Up, Calls!Rises, Rises
<1>4. \A h, i, k : Calls!Smaller(h, i, k) = Smaller(h, i, k)
    BY DEF Calls!Smaller, Smaller
<1>5. \A h, C : Calls!Least(h, C) = Least(h, C)
    BY DEF Calls!Least, Least
<1>6. \A h, i : Calls!Sinks(h, i) = Sinks(h, i)
    BY <1>4, <1>5 DEF Calls!Sinks, Sinks
<1>7. \A h, i : Calls!Down(h, i) = Down(h, i)
    BY <1>2, <1>6 DEF Calls!Down, Down
<1>8. \A h : Calls!Front(h) = Front(h) /\ Calls!Last(h) = Last(h)
    BY DEF Calls!Front, Front, Calls!Last, Last
<1>9. \A h, timer : Calls!Insert(h, timer) = Insert(h, timer)
    BY <1>3 DEF Calls!Insert, Insert
<1>10. \A h, i : Calls!Delete(h, i) = Delete(h, i)
    BY <1>3, <1>7, <1>8 DEF Calls!Delete, Delete
<1>11. \A h, i, timeout : Calls!Retime(h, i, timeout) = Retime(h, i, timeout)
    BY <1>3, <1>7 DEF Calls!Retime, Retime
<1>12. \A h : Calls!Pop(h) = Pop(h)
    BY <1>7, <1>8 DEF Calls!Pop, Pop
<1>13. \A h, i : Calls!Find(h, i) = Find(h, i)
    BY DEF Calls!Find, Find
<1>14. \A h : Calls!ToSet(h) = ToSet(h)
    BY DEF Calls!ToSet, ToSet
<1> QED
    BY <1>9, <1>10, <1>11, <1>12, <1>13, <1>14

LEMMA HeldTyped ==
    ASSUME HeapTimeouts \subseteq Nat, HeapCapacity \in Nat
    PROVE  /\ Timed(Held)
           /\ \A timer \in Held :
                /\ timer.id \in 1 .. HeapCapacity /\ timer.timeout \in HeapTimeouts
                /\ timer = [id |-> timer.id, timeout |-> timer.timeout]
                /\ \A timeout \in HeapTimeouts :
                    /\ [timer EXCEPT !.timeout = timeout] \in Held
                    /\ [timer EXCEPT !.timeout = timeout].id = timer.id
BY DEF Timed, Held

LEMMA RearrangedUnique ==
    ASSUME NEW S, NEW h \in Seq(S), NEW g \in Seq(S), Rearranged(g, h), Unique(h)
    PROVE  Unique(g)
<1>1. PICK f : Reorders(f, Len(h)) /\ \A k \in 1 .. Len(h) : g[k] = h[f[k]]
    BY DEF Rearranged
<1>2. DOMAIN g = 1 .. Len(h) /\ DOMAIN h = 1 .. Len(h)
    BY DEF Rearranged
<1>3. \A k \in 1 .. Len(h) : f[k] \in 1 .. Len(h)
    BY <1>1 DEF Reorders
<1>4. SUFFICES ASSUME NEW j \in 1 .. Len(h), NEW k \in 1 .. Len(h), g[j].id = g[k].id
             PROVE  j = k
    BY <1>2 DEF Unique
<1>5. g[j] = h[f[j]] /\ g[k] = h[f[k]]
    BY <1>1
<1>6. f[j] = f[k]
    BY <1>2, <1>3, <1>4, <1>5 DEF Unique
<1> QED
    BY <1>1, <1>6 DEF Reorders

\* The position with an id, if there is one.
LEMMA FindFinds ==
    ASSUME NEW S, NEW h \in Seq(S), NEW i
    PROVE  /\ Find(h, i) = 0 => \A k \in DOMAIN h : h[k].id # i
           /\ Find(h, i) # 0 => Find(h, i) \in DOMAIN h /\ h[Find(h, i)].id = i
<1> DEFINE T == {k \in DOMAIN h : h[k].id = i}
<1>1. CASE T = {}
    BY <1>1 DEF Find
<1>2. CASE T # {}
  <2>1. T \subseteq Nat /\ DOMAIN h = 1 .. Len(h) /\ Len(h) \in Nat
      OBVIOUS
  <2>2. PICK k \in T : \A l \in T : k <= l
      <3> HIDE DEF T
      <3> QED BY <1>2, <2>1, LeastNumber
  <2>3. k \in DOMAIN h /\ h[k].id = i /\ \A j \in 1 .. k - 1 : h[j].id # i
      BY <2>1, <2>2
  <2>4. Find(h, i) \in DOMAIN h /\ h[Find(h, i)].id = i
      BY <2>3 DEF Find
  <2> QED
      BY <2>1, <2>4
<1> QED
    BY <1>1, <1>2

\* As long as the array is not full one of the ids is unused.
LEMMA UnusedId ==
    ASSUME HeapCapacity \in Nat, NEW h \in Seq(Held), Len(h) < HeapCapacity
    PROVE  \E i \in 1 .. HeapCapacity :
            Find(h, i) = 0 /\ \A j \in 1 .. i - 1 : Find(h, j) # 0
<1> DEFINE T == {i \in 1 .. HeapCapacity : Find(h, i) = 0}
<1>1. T # {}
  <2> SUFFICES ASSUME T = {} PROVE FALSE
      OBVIOUS
  <2> DEFINE f == [i \in 1 .. HeapCapacity |-> Find(h, i)]
  <2>1. \A i \in 1 .. HeapCapacity : f[i] \in 1 .. Len(h) /\ h[f[i]].id = i
    <3> SUFFICES ASSUME NEW i \in 1 .. HeapCapacity
                 PROVE  Find(h, i) \in 1 .. Len(h) /\ h[Find(h, i)].id = i
        OBVIOUS
    <3>1. Find(h, i) # 0
        OBVIOUS
    <3>2. Find(h, i) \in DOMAIN h /\ h[Find(h, i)].id = i
        BY <3>1, FindFinds
    <3> QED
        BY <3>2
  <2>2. f \in [1 .. HeapCapacity -> 1 .. Len(h)]
      BY <2>1
  <2>3. /\ IsFiniteSet(1 .. HeapCapacity) /\ IsFiniteSet(1 .. Len(h))
        /\ Cardinality(1 .. Len(h)) < Cardinality(1 .. HeapCapacity)
    <3>1. 1 \in Int /\ HeapCapacity \in Int /\ Len(h) \in Int /\ Len(h) >= 0
        OBVIOUS
    <3>2. IsFiniteSet(1 .. HeapCapacity) /\ IsFiniteSet(1 .. Len(h))
        BY <3>1, FS_Interval
    <3>3. Cardinality(1 .. HeapCapacity) = IF 1 > HeapCapacity THEN 0 ELSE HeapCapacity - 1 + 1
        BY <3>1, FS_Interval
    <3>4. Cardinality(1 .. Len(h)) = IF 1 > Len(h) THEN 0 ELSE Len(h) - 1 + 1
        BY <3>1, FS_Interval
    <3> QED
        BY <3>1, <3>2, <3>3, <3>4
  <2> HIDE DEF f, T
  <2>4. \E i, j \in 1 .. HeapCapacity : i # j /\ f[i] = f[j]
      BY <2>2, <2>3, FS_PigeonHole
  <2> QED
      BY <2>1, <2>4
<1>2. T \subseteq Nat
    OBVIOUS
<1>3. PICK i \in T : \A j \in T : i <= j
    <2> HIDE DEF T
    <2> QED BY <1>1, <1>2, LeastNumber
<1>4. i \in 1 .. HeapCapacity /\ Find(h, i) = 0 /\ \A j \in 1 .. i - 1 : Find(h, j) # 0
    BY <1>3
<1> QED
    BY <1>4

LEMMA CallsStart ==
    ASSUME HeapTimeouts \subseteq Nat, HeapCapacity \in Nat, CallsInv,
           NEW timeout \in HeapTimeouts, Calls!ev_timer_start(timeout)
    PROVE  CallsInv' /\ Calls!Abs!Next
<1> DEFINE i == CHOOSE i \in 1 .. HeapCapacity :
                    Find(array, i) = 0 /\ \A j \in 1 .. i - 1 : Find(array, j) # 0
           timer == [id |-> i, timeout |-> timeout]
           g == Append(array, timer)
<1>1. array' = Insert(array, timer) /\ taken' = Calls!NoneFired /\ Len(array) < HeapCapacity
    BY CallsOperators DEF Calls!ev_timer_start
<1>2. i \in 1 .. HeapCapacity /\ Find(array, i) = 0
    BY <1>1, UnusedId DEF CallsInv
<1> HIDE DEF i
<1>3. timer \in Held /\ timer.id = i
    BY <1>2 DEF Held
<1>4. \A k \in DOMAIN array : array[k].id # i
    BY <1>2, FindFinds DEF CallsInv
<1> HIDE DEF timer
<1>5. array' \in Seq(Held) /\ Rearranged(array', g) /\ Ordered(array')
    BY <1>1, <1>3, InsertAdds, HeldTyped DEF CallsInv
<1>6. /\ g \in Seq(Held) /\ Len(g) = Len(array) + 1 /\ DOMAIN g = 1 .. Len(array) + 1
      /\ \A k \in 1 .. Len(array) : g[k] = array[k]
      /\ g[Len(array) + 1] = timer
  <2>1. array \in Seq(Held)
      BY DEF CallsInv
  <2> QED
      BY <1>3, <2>1, Appended
<1>7. array \in Seq(Held) /\ DOMAIN array = 1 .. Len(array) /\ Len(array) \in Nat
    BY DEF CallsInv
<1> HIDE DEF g
<1>8. Unique(g)
    BY <1>3, <1>4, <1>6, <1>7 DEF Unique, CallsInv
<1>9. CallsInv'
    BY <1>5, <1>6, <1>8, RearrangedUnique DEF CallsInv
<1>10. ToSet(array') = ToSet(array) \cup {timer}
  <2>1. ToSet(array') = ToSet(g)
      BY <1>5, <1>6, RearrangedElements
  <2>2. ToSet(g) = ToSet(array) \cup {timer}
      BY <1>6, <1>7 DEF ToSet
  <2> QED
      BY <2>1, <2>2
<1>11. \A other \in ToSet(array) : other.id # timer.id
    BY <1>3, <1>4 DEF ToSet
<1>12. Calls!Abs!start(timer)
  <2>1. Calls!NoneFired = Calls!Abs!NoneFired
      BY DEF Calls!NoneFired, Calls!Abs!NoneFired
  <2> QED
      BY <1>1, <1>10, <1>11, <2>1, CallsOperators DEF Calls!Abs!start
<1>13. \E j \in 1 .. HeapCapacity, t \in HeapTimeouts : Calls!Abs!start([id |-> j, timeout |-> t])
    BY <1>2, <1>12 DEF timer
<1> QED
    BY <1>9, <1>13 DEF Calls!Abs!Next

\* Without the timer at i the others are still there.
LEMMA CallsRemoved ==
    ASSUME CallsInv, NEW i \in DOMAIN array, NEW e, e \in Seq(Held),
           Rearranged(e, Without(array, i)), Ordered(e)
    PROVE  Unique(e) /\ ToSet(e) = ToSet(array) \ {array[i]}
<1>0. PICK g : g = Without(array, i)
    OBVIOUS
<1>1. array \in Seq(Held) /\ DOMAIN array = 1 .. Len(array) /\ Len(array) \in Nat /\ Unique(array)
      /\ i \in 1 .. Len(array)
    BY DEF CallsInv
<1>2. /\ g \in Seq(Held) /\ Len(g) = Len(array) - 1 /\ DOMAIN g = 1 .. Len(array) - 1
      /\ \A k \in 1 .. Len(array) - 1 : g[k] = IF k = i THEN array[Len(array)] ELSE array[k]
  <2>1. /\ g \in Seq(Held) /\ Len(g) = Len(array) - 1
        /\ \A k \in 1 .. Len(array) - 1 : g[k] = IF k = i THEN array[Len(array)] ELSE array[k]
      BY <1>0, <1>1, WithoutOne
  <2> QED
      BY <1>1, <2>1
<1>3. Unique(g)
  <2> SUFFICES ASSUME NEW j \in DOMAIN g, NEW k \in DOMAIN g, g[j].id = g[k].id
               PROVE  j = k
      BY DEF Unique
  <2>1. PICK jj \in DOMAIN array, kk \in DOMAIN array :
            /\ jj = (IF j = i THEN Len(array) ELSE j) /\ g[j] = array[jj]
            /\ kk = (IF k = i THEN Len(array) ELSE k) /\ g[k] = array[kk]
      BY <1>1, <1>2
  <2>2. jj = kk
      BY <1>1, <2>1 DEF Unique
  <2> QED
      BY <1>1, <1>2, <2>1, <2>2
<1>4. ToSet(g) = ToSet(array) \ {array[i]}
  <2>1. ASSUME NEW k \in DOMAIN g PROVE g[k] \in ToSet(array) /\ g[k] # array[i]
    <3>1. PICK kk \in DOMAIN array : kk # i /\ g[k] = array[kk]
      <4>1. CASE k = i
          BY <1>1, <1>2, <4>1
      <4>2. CASE k # i
          BY <1>1, <1>2, <4>2
      <4> QED
          BY <4>1, <4>2
    <3> QED
        BY <1>1, <3>1 DEF Unique, ToSet
  <2>2. ASSUME NEW k \in DOMAIN array, array[k] # array[i] PROVE array[k] \in ToSet(g)
    <3>1. CASE k = Len(array)
      <4>1. i \in DOMAIN g /\ g[i] = array[k]
          BY <1>1, <1>2, <2>2, <3>1
      <4> QED
          BY <4>1 DEF ToSet
    <3>2. CASE k # Len(array)
      <4>1. k \in DOMAIN g /\ g[k] = array[k]
          BY <1>1, <1>2, <2>2, <3>2
      <4> QED
          BY <4>1 DEF ToSet
    <3> QED
        BY <3>1, <3>2
  <2> QED
      BY <2>1, <2>2 DEF ToSet
<1>5. ToSet(e) = ToSet(g) /\ Unique(e)
    BY <1>0, <1>2, <1>3, RearrangedElements, RearrangedUnique
<1> QED
    BY <1>4, <1>5

LEMMA CallsStop ==
    ASSUME HeapTimeouts \subseteq Nat, HeapCapacity \in Nat, CallsInv,
           NEW i \in 1 .. HeapCapacity, Calls!ev_timer_stop_by_id(i)
    PROVE  CallsInv' /\ Calls!Abs!Next
<1>1. PICK k : k = Find(array, i)
    OBVIOUS
<1>2. k # 0 /\ array' = Delete(array, k) /\ taken' = Calls!NoneFired
    BY <1>1, CallsOperators DEF Calls!ev_timer_stop_by_id
<1>3. array \in Seq(Held) /\ k \in DOMAIN array /\ array[k] \in Held
    BY <1>1, <1>2, FindFinds DEF CallsInv
<1>4. array' \in Seq(Held) /\ Rearranged(array', Without(array, k)) /\ Ordered(array')
    BY <1>2, <1>3, DeleteRemoves, HeldTyped DEF CallsInv
<1>5. Unique(array') /\ ToSet(array') = ToSet(array) \ {array[k]}
    BY <1>3, <1>4, CallsRemoved
<1>6. CallsInv'
    BY <1>4, <1>5 DEF CallsInv
<1>7. Calls!Abs!stop(array[k]) /\ array[k] \in ToSet(array)
  <2>1. Calls!NoneFired = Calls!Abs!NoneFired
      BY DEF Calls!NoneFired, Calls!Abs!NoneFired
  <2> QED
      BY <1>2, <1>3, <1>5, <2>1, CallsOperators DEF Calls!Abs!stop, ToSet
<1> QED
    BY <1>6, <1>7, CallsOperators DEF Calls!Abs!Next

LEMMA CallsTake ==
    ASSUME HeapTimeouts \subseteq Nat, HeapCapacity \in Nat, CallsInv, Calls!take_first
    PROVE  CallsInv' /\ Calls!Abs!Next
<1>1. array # <<>> /\ array' = Pop(array) /\ taken' = array[1]
    BY CallsOperators DEF Calls!take_first
<1>2. array \in Seq(Held) /\ 1 \in DOMAIN array
    BY <1>1 DEF CallsInv
<1>3. array' \in Seq(Held) /\ Rearranged(array', Without(array, 1)) /\ Ordered(array')
    BY <1>1, <1>2, PopRemoves, HeldTyped DEF CallsInv
<1>4. Unique(array') /\ ToSet(array') = ToSet(array) \ {array[1]}
    BY <1>2, <1>3, CallsRemoved
<1>5. CallsInv'
    BY <1>3, <1>4 DEF CallsInv
<1>6. \A other \in ToSet(array) : array[1].timeout <= other.timeout
    BY <1>2, FirstIsEarliest, HeldTyped DEF CallsInv, ToSet
<1>7. Calls!Abs!take(array[1]) /\ array[1] \in ToSet(array)
    BY <1>1, <1>2, <1>4, <1>6, CallsOperators DEF Calls!Abs!take, ToSet
<1> QED
    BY <1>5, <1>7, CallsOperators DEF Calls!Abs!Next

LEMMA CallsAgain ==
    ASSUME HeapTimeouts \subseteq Nat, HeapCapacity \in Nat, CallsInv,
           NEW i \in 1 .. HeapCapacity, NEW timeout \in HeapTimeouts,
           Calls!ev_timer_again(i, timeout)
    PROVE  CallsInv' /\ Calls!Abs!Next
<1>1. PICK k : k = Find(array, i)
    OBVIOUS
<1>2. k # 0 /\ array' = Retime(array, k, timeout) /\ taken' = Calls!NoneFired
    BY <1>1, CallsOperators DEF Calls!ev_timer_again
<1>3. /\ array \in Seq(Held) /\ k \in DOMAIN array /\ array[k] \in Held
      /\ DOMAIN array = 1 .. Len(array) /\ Len(array) \in Nat /\ Unique(array)
      /\ \A j \in DOMAIN array : array[j] \in Held
    BY <1>1, <1>2, FindFinds DEF CallsInv
<1>4. PICK timer \in Held : timer = [array[k] EXCEPT !.timeout = timeout] /\ timer.id = array[k].id
    BY <1>3, HeldTyped
<1>5. PICK g : g = Retimed(array, k, timeout)
    OBVIOUS
<1>6. array' \in Seq(Held) /\ Rearranged(array', g) /\ Ordered(array')
    BY <1>2, <1>3, <1>4, <1>5, RetimeMoves, HeldTyped DEF CallsInv
<1>7. /\ g \in Seq(Held) /\ Len(g) = Len(array) /\ DOMAIN g = 1 .. Len(array)
      /\ \A j \in 1 .. Len(array) : g[j] = IF j = k THEN timer ELSE array[j]
    BY <1>3, <1>4, <1>5, RetimedOne
<1>8. Unique(g)
    BY <1>3, <1>4, <1>7 DEF Unique
<1>9. CallsInv'
    BY <1>6, <1>7, <1>8, RearrangedUnique DEF CallsInv
<1>10. ToSet(array') = (ToSet(array) \ {array[k]}) \cup {timer}
  <2>1. ToSet(array') = ToSet(g)
      BY <1>6, <1>7, RearrangedElements
  <2>2. \A j \in DOMAIN array : j # k => array[j] # array[k]
      BY <1>3 DEF Unique
  <2>3. ToSet(g) = (ToSet(array) \ {array[k]}) \cup {timer}
      BY <1>3, <1>7, <2>2 DEF ToSet
  <2> QED
      BY <2>1, <2>3
<1>11. Calls!Abs!again(array[k], timeout) /\ array[k] \in ToSet(array)
  <2>1. Calls!NoneFired = Calls!Abs!NoneFired
      BY DEF Calls!NoneFired, Calls!Abs!NoneFired
  <2> QED
      BY <1>2, <1>3, <1>4, <1>10, <2>1, CallsOperators DEF Calls!Abs!again, ToSet
<1> QED
    BY <1>9, <1>11, CallsOperators DEF Calls!Abs!Next

LEMMA CallsNext ==
    ASSUME HeapTimeouts \subseteq Nat, HeapCapacity \in Nat, CallsInv, Calls!Next
    PROVE  CallsInv' /\ Calls!Abs!Next
BY CallsStart, CallsStop, CallsTake, CallsAgain DEF Calls!Next

\* The array is a set of timers: starting adds one, stopping removes the one that
\* has the id, a new timeout leaves the others alone, and the one taken is the
\* earliest; whatever the timeouts and however many timers there are.
THEOREM TimerHeapRefines ==
    ASSUME HeapTimeouts \subseteq Nat, HeapCapacity \in Nat
    PROVE  Calls!Spec => Calls!RefinesTimersAbs
<1>1. Calls!Init => CallsInv /\ Calls!Abs!Init
    BY CallsOperators DEF Calls!Init, CallsInv, Ordered, Unique, ToSet, Calls!Abs!Init,
                          Calls!NoneFired, Calls!Abs!NoneFired
<1>2. CallsInv /\ [Calls!Next]_(Calls!vars) => CallsInv'
    BY CallsNext DEF Calls!vars, CallsInv
<1>3. CallsInv /\ [Calls!Next]_(Calls!vars) => [Calls!Abs!Next]_(Calls!Abs!vars)
    BY CallsNext, CallsOperators DEF Calls!vars, Calls!Abs!vars
<1> QED
    BY <1>1, <1>2, <1>3, PTL DEF Calls!Spec, Calls!Abs!Spec, Calls!RefinesTimersAbs

----------------------------------------------------------------------------
(***************************************************************************)
(* The timers of a loop, for any timers, delays, capacity and nesting.     *)
(***************************************************************************)
FrameType ==
    [pc : {"tasks", "timers", "callback", "poll"}, for : {"run", "await"},
     now : Nat, origin : Nat, cur : TimerType, wake : Nat]
ContextType ==
    [kind : {"none", "sleep", "interval", "c"}, repeat : Nat, times : Nat, freed : BOOLEAN]

\* The types, without what follows from where timers are.
Types ==
    /\ clock \in 1 .. MaxClock /\ busy \in 0 .. MaxBusy /\ start_time \in 0 .. clock
    /\ state \in {"running", "stopped"}
    /\ timer_heap \in Seq(TimerType) /\ Len(timer_heap) <= Capacity
    /\ next_timer_id \in Nat \ {0}
    /\ frames \in Seq(FrameType)
    /\ id \in [Names -> Int]
    /\ context \in [Names -> ContextType]
    /\ due \in [Names -> Nat]
    /\ cleared \subseteq Names
    /\ ops \in 0 .. MaxOps

\* A timer's id: none, the 0 of laio.c, or one of its own.
Numbered ==
    \A n \in Names :
        /\ context[n].kind \in {"sleep", "interval"} => id[n] = 0
        /\ context[n].kind = "c" => id[n] = EV_TIMER_INVALID \/ id[n] \in 1 .. next_timer_id - 1
        /\ context[n].kind = "c" /\ id[n] # EV_TIMER_INVALID =>
            \A m \in Names : context[m].kind = "c" /\ id[m] = id[n] => m = n

\* What the loop holds is a timer as its creator made it.
Known(timer) ==
    /\ timer.name \in Names
    /\ context[timer.name].kind # "none"
    /\ timer.id = id[timer.name] /\ timer.id # EV_TIMER_INVALID
    /\ timer.repeat = context[timer.name].repeat
AllKnown ==
    /\ \A i \in DOMAIN timer_heap : Known(timer_heap[i])
    /\ \A i \in DOMAIN frames : frames[i].pc = "callback" => Known(frames[i].cur)

\* It holds each once: in the heap, or in one of the callbacks that have started.
Distinct(h) == \A j, k \in DOMAIN h : h[j].name = h[k].name => j = k
Apart ==
    /\ Distinct(timer_heap)
    /\ \A i \in DOMAIN frames : frames[i].pc = "callback" =>
        /\ \A j \in DOMAIN timer_heap : timer_heap[j].name # frames[i].cur.name
        /\ \A k \in DOMAIN frames :
            frames[k].pc = "callback" /\ frames[k].cur.name = frames[i].cur.name => k = i

\* No timer's moment comes before it is due, though moments are counted from the
\* start of the loop; no iteration is ahead of the clock, and one that goes by the
\* last start of the loop runs no timer too early.
InStep(f) == f.now + f.origin <= clock /\ f.origin <= start_time
InTime ==
    /\ \A i \in DOMAIN timer_heap :
        due[timer_heap[i].name] <= timer_heap[i].timeout + start_time
    /\ \A i \in DOMAIN frames :
        /\ InStep(frames[i])
        /\ frames[i].pc = "callback" /\ frames[i].origin = start_time =>
            due[frames[i].cur.name] <= clock

TimersInv == Types /\ HeapOrdered /\ Numbered /\ AllKnown /\ Apart /\ InTime

----------------------------------------------------------------------------
(***************************************************************************)
(* What the operations of the heap do to an array of distinct timers.      *)
(***************************************************************************)
LEMMA TimerTyped ==
    /\ Timed(TimerType)
    /\ \A timer \in TimerType :
        /\ timer.timeout \in Nat /\ timer.id \in Int /\ timer.name \in Names \cup {NoName}
        /\ timer.repeat \in Nat
        /\ timer = Timer(timer.name, timer.id, timer.timeout, timer.repeat)
        /\ \A i \in Int : [timer EXCEPT !.id = i] \in TimerType
        /\ \A t \in Nat : [timer EXCEPT !.timeout = t] \in TimerType
BY TimersAssumption DEF Timed, TimerType, Timer

LEMMA RearrangedDistinct ==
    ASSUME NEW h \in Seq(TimerType), NEW g \in Seq(TimerType), Rearranged(g, h), Distinct(h)
    PROVE  Distinct(g)
<1>1. PICK f : Reorders(f, Len(h)) /\ \A k \in 1 .. Len(h) : g[k] = h[f[k]]
    BY DEF Rearranged
<1>2. DOMAIN g = 1 .. Len(h) /\ DOMAIN h = 1 .. Len(h)
    BY DEF Rearranged
<1>3. \A k \in 1 .. Len(h) : f[k] \in 1 .. Len(h)
    BY <1>1 DEF Reorders
<1>4. SUFFICES ASSUME NEW j \in 1 .. Len(h), NEW k \in 1 .. Len(h), g[j].name = g[k].name
             PROVE  j = k
    BY <1>2 DEF Distinct
<1>5. g[j] = h[f[j]] /\ g[k] = h[f[k]]
    BY <1>1
<1>6. f[j] = f[k]
    BY <1>2, <1>3, <1>4, <1>5 DEF Distinct
<1> QED
    BY <1>1, <1>6 DEF Reorders

LEMMA InsertTimer ==
    ASSUME NEW h \in Seq(TimerType), Distinct(h), NEW timer \in TimerType,
           \A j \in DOMAIN h : h[j].name # timer.name
    PROVE  /\ Insert(h, timer) \in Seq(TimerType) /\ Len(Insert(h, timer)) = Len(h) + 1
           /\ Distinct(Insert(h, timer))
           /\ Ordered(h) => Ordered(Insert(h, timer))
           /\ \A k \in DOMAIN Insert(h, timer) :
                Insert(h, timer)[k] = timer \/ \E j \in DOMAIN h : Insert(h, timer)[k] = h[j]
           /\ \E k \in DOMAIN Insert(h, timer) : Insert(h, timer)[k] = timer
           /\ \A j \in DOMAIN h : \E k \in DOMAIN Insert(h, timer) : Insert(h, timer)[k] = h[j]
<1>1. PICK g, e : g = Append(h, timer) /\ e = Insert(h, timer)
    OBVIOUS
<1>2. /\ g \in Seq(TimerType) /\ Len(g) = Len(h) + 1 /\ Len(h) + 1 \in DOMAIN g
      /\ \A k \in 1 .. Len(h) : g[k] = h[k]
      /\ g[Len(h) + 1] = timer
    BY <1>1, Appended
<1>3. e \in Seq(TimerType) /\ Rearranged(e, g) /\ (Ordered(h) => Ordered(e))
    BY <1>1, TimerTyped, InsertAdds
<1>4. DOMAIN h = 1 .. Len(h) /\ Len(h) \in Nat /\ DOMAIN g = 1 .. Len(h) + 1
    BY <1>2
<1>5. Distinct(g)
    BY <1>2, <1>4 DEF Distinct
<1>6. \A k \in DOMAIN g : g[k] = timer \/ \E j \in DOMAIN h : g[k] = h[j]
    BY <1>2, <1>4
<1>7. \A j \in DOMAIN h : \E k \in DOMAIN g : g[k] = h[j]
    BY <1>2, <1>4
<1>8. /\ \A k \in DOMAIN e : \E j \in DOMAIN g : e[k] = g[j]
      /\ \A j \in DOMAIN g : \E k \in DOMAIN e : e[k] = g[j]
  <2>1. g \in Seq(TimerType) /\ e \in Seq(TimerType) /\ Rearranged(e, g)
      BY <1>2, <1>3
  <2> QED
      BY <2>1, RearrangedElements
<1>9. Distinct(e) /\ Len(e) = Len(h) + 1
    BY <1>2, <1>3, <1>5, RearrangedDistinct DEF Rearranged
<1>10. \A k \in DOMAIN e : e[k] = timer \/ \E j \in DOMAIN h : e[k] = h[j]
    BY <1>6, <1>8
<1>11. \A j \in DOMAIN h : \E k \in DOMAIN e : e[k] = h[j]
    BY <1>7, <1>8
<1>12. \E k \in DOMAIN e : e[k] = timer
    BY <1>2, <1>8
<1> QED
    BY <1>1, <1>3, <1>9, <1>10, <1>11, <1>12

\* g has the timers of h but the one at i.
Lacks(g, h, i) ==
    /\ g \in Seq(TimerType) /\ Len(g) = Len(h) - 1
    /\ Distinct(g)
    /\ Ordered(h) => Ordered(g)
    /\ \A k \in DOMAIN g : \E j \in DOMAIN h : j # i /\ g[k] = h[j]
    /\ \A j \in DOMAIN h : j # i => \E k \in DOMAIN g : g[k] = h[j]

LEMMA RearrangedLacks ==
    ASSUME NEW h \in Seq(TimerType), Distinct(h), NEW i \in DOMAIN h, NEW e \in Seq(TimerType),
           Rearranged(e, Without(h, i)), Ordered(h) => Ordered(e)
    PROVE  Lacks(e, h, i)
<1>1. PICK g : g = Without(h, i)
    OBVIOUS
<1>2. /\ g \in Seq(TimerType) /\ Len(g) = Len(h) - 1
      /\ \A k \in 1 .. Len(h) - 1 : g[k] = IF k = i THEN h[Len(h)] ELSE h[k]
    BY <1>1, WithoutOne
<1>3. DOMAIN h = 1 .. Len(h) /\ Len(h) \in Nat /\ DOMAIN g = 1 .. Len(h) - 1 /\ i \in 1 .. Len(h)
    BY <1>2
<1>4. Distinct(g)
  <2> SUFFICES ASSUME NEW j \in DOMAIN g, NEW k \in DOMAIN g, g[j].name = g[k].name
               PROVE  j = k
      BY DEF Distinct
  <2>1. PICK jj \in DOMAIN h, kk \in DOMAIN h :
            /\ jj = (IF j = i THEN Len(h) ELSE j) /\ g[j] = h[jj]
            /\ kk = (IF k = i THEN Len(h) ELSE k) /\ g[k] = h[kk]
      BY <1>2, <1>3
  <2>2. jj = kk
      BY <2>1 DEF Distinct
  <2> QED
      BY <1>3, <2>1, <2>2
<1>5. \A k \in DOMAIN g : \E j \in DOMAIN h : j # i /\ g[k] = h[j]
  <2> SUFFICES ASSUME NEW k \in DOMAIN g PROVE \E j \in DOMAIN h : j # i /\ g[k] = h[j]
      OBVIOUS
  <2>1. CASE k = i
      BY <1>2, <1>3, <2>1
  <2>2. CASE k # i
      BY <1>2, <1>3, <2>2
  <2> QED
      BY <2>1, <2>2
<1>6. \A j \in DOMAIN h : j # i => \E k \in DOMAIN g : g[k] = h[j]
  <2> SUFFICES ASSUME NEW j \in DOMAIN h, j # i PROVE \E k \in DOMAIN g : g[k] = h[j]
      OBVIOUS
  <2>1. CASE j = Len(h)
    <3>1. i \in DOMAIN g /\ g[i] = h[j]
        BY <1>2, <1>3, <2>1
    <3> QED
        BY <3>1
  <2>2. CASE j # Len(h)
    <3>1. j \in DOMAIN g /\ g[j] = h[j]
        BY <1>2, <1>3, <2>2
    <3> QED
        BY <3>1
  <2> QED
      BY <2>1, <2>2
<1>7. /\ \A k \in DOMAIN e : \E j \in DOMAIN g : e[k] = g[j]
      /\ \A j \in DOMAIN g : \E k \in DOMAIN e : e[k] = g[j]
    BY <1>1, <1>2, RearrangedElements
<1>8. Distinct(e) /\ Len(e) = Len(h) - 1
    BY <1>1, <1>2, <1>4, RearrangedDistinct DEF Rearranged
<1>9. \A k \in DOMAIN e : \E j \in DOMAIN h : j # i /\ e[k] = h[j]
    BY <1>5, <1>7
<1>10. \A j \in DOMAIN h : j # i => \E k \in DOMAIN e : e[k] = h[j]
    BY <1>6, <1>7
<1> QED
    BY <1>8, <1>9, <1>10 DEF Lacks

LEMMA DeleteTimer ==
    ASSUME NEW h \in Seq(TimerType), Distinct(h), NEW i \in DOMAIN h
    PROVE  Lacks(Delete(h, i), h, i)
BY TimerTyped, DeleteRemoves, RearrangedLacks

LEMMA PopTimer ==
    ASSUME NEW h \in Seq(TimerType), Distinct(h), h # <<>>
    PROVE  1 \in DOMAIN h /\ Lacks(Pop(h), h, 1)
<1>1. 1 \in DOMAIN h
    OBVIOUS
<1> QED
    BY <1>1, TimerTyped, PopRemoves, RearrangedLacks

NamesStay(h, e) == \A j \in DOMAIN h : \E k \in DOMAIN e : e[k].name = h[j].name

LEMMA RetimeTimer ==
    ASSUME NEW h \in Seq(TimerType), Distinct(h), NEW i \in DOMAIN h, NEW t \in Nat, NEW e,
           e = Retime(h, i, t), NEW new, new = [h[i] EXCEPT !.timeout = t]
    PROVE  /\ e \in Seq(TimerType) /\ Len(e) = Len(h) /\ Distinct(e)
           /\ Ordered(h) => Ordered(e)
           /\ \A k \in DOMAIN e :
                \/ e[k] = new
                \/ \E j \in DOMAIN h : j # i /\ e[k] = h[j]
           /\ NamesStay(h, e)
<1>1. PICK g : g = Retimed(h, i, t)
    OBVIOUS
<1>2. h[i] \in TimerType /\ new \in TimerType /\ new.name = h[i].name
  <2>1. h[i] \in TimerType
      OBVIOUS
  <2>2. new \in TimerType
      BY <2>1, TimerTyped
  <2>3. new.name = h[i].name
      BY <2>1 DEF TimerType
  <2> QED
      BY <2>1, <2>2, <2>3
<1>3. /\ g \in Seq(TimerType) /\ Len(g) = Len(h)
      /\ \A k \in 1 .. Len(h) : g[k] = IF k = i THEN new ELSE h[k]
    BY <1>1, <1>2, RetimedOne
<1>4. DOMAIN h = 1 .. Len(h) /\ DOMAIN g = 1 .. Len(h) /\ i \in 1 .. Len(h)
    BY <1>3
<1>5. e \in Seq(TimerType) /\ Rearranged(e, g) /\ (Ordered(h) => Ordered(e))
    BY <1>1, <1>2, TimerTyped, RetimeMoves
<1>6. \A k \in 1 .. Len(h) : g[k].name = h[k].name
    BY <1>2, <1>3
<1>7. Distinct(g)
    BY <1>4, <1>6 DEF Distinct
<1>8. /\ \A k \in DOMAIN e : \E j \in DOMAIN g : e[k] = g[j]
      /\ \A j \in DOMAIN g : \E k \in DOMAIN e : e[k] = g[j]
    BY <1>3, <1>5, RearrangedElements
<1>9. Distinct(e) /\ Len(e) = Len(h)
    BY <1>3, <1>5, <1>7, RearrangedDistinct DEF Rearranged
<1>10. \A k \in DOMAIN e : e[k] = new \/ \E j \in DOMAIN h : j # i /\ e[k] = h[j]
    BY <1>3, <1>4, <1>8
<1>11. \A j \in DOMAIN h : \E k \in DOMAIN e : e[k].name = h[j].name
    BY <1>4, <1>6, <1>8
<1> QED
    BY <1>1, <1>5, <1>9, <1>10, <1>11 DEF NamesStay

----------------------------------------------------------------------------
(***************************************************************************)
(* Frames.                                                                 *)
(***************************************************************************)
LEMMA FrameTyped ==
    ASSUME NEW f \in FrameType
    PROVE  /\ f.pc \in {"tasks", "timers", "callback", "poll"} /\ f.for \in {"run", "await"}
           /\ f.now \in Nat /\ f.origin \in Nat /\ f.cur \in TimerType /\ f.wake \in Nat
           /\ \A pc \in {"tasks", "timers", "callback", "poll"} :
                /\ [f EXCEPT !.pc = pc] \in FrameType
                /\ \A timer \in TimerType : [f EXCEPT !.pc = pc, !.cur = timer] \in FrameType
                /\ \A wake \in Nat : [f EXCEPT !.pc = pc, !.wake = wake] \in FrameType
BY DEF FrameType

LEMMA TopIs ==
    ASSUME Types, frames # <<>>
    PROVE  /\ DOMAIN frames = 1 .. Len(frames) /\ Len(frames) \in 1 .. Len(frames)
           /\ Top = frames[Len(frames)] /\ Top \in FrameType
BY DEF Types, Top, Last

LEMMA TopReplaced ==
    ASSUME Types, frames # <<>>, NEW f \in FrameType,
           frames' = [frames EXCEPT ![Len(frames)] = f]
    PROVE  /\ frames' \in Seq(FrameType) /\ DOMAIN frames' = DOMAIN frames
           /\ frames'[Len(frames)] = f
           /\ \A i \in DOMAIN frames : i # Len(frames) => frames'[i] = frames[i]
BY DEF Types

LEMMA NewFrame ==
    ASSUME Types, NEW for \in {"run", "await"}
    PROVE  /\ Frame(for) \in FrameType /\ Frame(for).pc = "tasks" /\ InStep(Frame(for))
           /\ [Frame(for) EXCEPT !.now = 0, !.origin = clock] \in FrameType
           /\ now \in Nat /\ now + start_time = clock
<1>1. NoTimer \in TimerType
    BY DEF NoTimer, Timer, TimerType, EV_TIMER_INVALID
<1>2. now \in Nat /\ now + start_time = clock
    BY TimersAssumption DEF Types, now
<1>3. clock \in Nat /\ start_time \in Nat /\ start_time <= clock
    BY TimersAssumption DEF Types
<1>4. Frame(for) \in FrameType /\ [Frame(for) EXCEPT !.now = 0, !.origin = clock] \in FrameType
    BY <1>1, <1>2, <1>3 DEF Frame, FrameType
<1>5. Frame(for).pc = "tasks" /\ Frame(for).now = now /\ Frame(for).origin = start_time
    BY DEF Frame
<1> QED
    BY <1>2, <1>3, <1>4, <1>5 DEF InStep

\* Where no callback starts and the heap is left alone, all is as it was: time
\* may pass, and the start of the loop may move up.
LEMMA CallbacksStay ==
    ASSUME TimersInv, Types', UNCHANGED <<timer_heap, next_timer_id, id, context, due>>,
           start_time <= start_time', clock <= clock',
           \A i \in DOMAIN frames' :
                /\ InStep(frames[i])'
                /\ frames'[i].pc = "callback" => i \in DOMAIN frames /\ frames'[i] = frames[i]
    PROVE  TimersInv'
<1>1. HeapOrdered' /\ Numbered'
    BY DEF TimersInv, HeapOrdered, Numbered
<1>2. AllKnown'
    BY DEF TimersInv, AllKnown, Known
<1>3. Apart'
    BY DEF TimersInv, Apart
<1>4. InTime'
  <2>1. ASSUME NEW j \in DOMAIN timer_heap
        PROVE  due[timer_heap[j].name] <= timer_heap[j].timeout + start_time'
    <3>1. timer_heap[j] \in TimerType /\ timer_heap[j].name \in Names
        BY DEF TimersInv, Types, AllKnown, Known
    <3>2. timer_heap[j].timeout \in Nat /\ due[timer_heap[j].name] \in Nat
        BY <3>1, TimerTyped DEF TimersInv, Types
    <3>3. start_time \in Int /\ start_time' \in Int
        BY TimersAssumption DEF TimersInv, Types
    <3>4. due[timer_heap[j].name] <= timer_heap[j].timeout + start_time
        BY DEF TimersInv, InTime
    <3> QED
        BY <3>2, <3>3, <3>4
  <2>2. ASSUME NEW i \in DOMAIN frames', frames'[i].pc = "callback", frames'[i].origin = start_time'
        PROVE  due[frames'[i].cur.name] <= clock'
    <3>1. i \in DOMAIN frames /\ frames'[i] = frames[i] /\ frames[i].origin = start_time'
        BY <2>2
    <3>2. frames[i].origin <= start_time /\ frames[i] \in FrameType
        BY <3>1 DEF TimersInv, Types, InTime, InStep
    <3>3. frames[i].origin = start_time
      <4>1. frames[i].origin \in Nat
          BY <3>2, FrameTyped
      <4>2. start_time \in Nat
          BY TimersAssumption DEF TimersInv, Types
      <4> QED
          BY <3>1, <3>2, <4>1, <4>2
    <3>4. due[frames'[i].cur.name] <= clock /\ frames'[i].cur.name \in Names
        BY <2>2, <3>1, <3>3 DEF TimersInv, InTime, AllKnown, Known
    <3>5. due[frames'[i].cur.name] \in Nat /\ clock \in Nat /\ clock' \in Nat
        BY <3>4, TimersAssumption DEF TimersInv, Types
    <3> QED
        BY <3>4, <3>5
  <2> QED
      BY <2>1, <2>2 DEF InTime
<1> QED
    BY <1>1, <1>2, <1>3, <1>4 DEF TimersInv

LEMMA TickKeeps ==
    ASSUME TimersInv, Tick PROVE TimersInv'
<1>1. Types'
    BY TimersAssumption DEF TimersInv, Types, Tick
<1>2. clock \in Int /\ clock' = clock + 1 /\ start_time \in Int /\ start_time' = start_time
    BY TimersAssumption DEF TimersInv, Types, Tick
<1>3. ASSUME NEW i \in DOMAIN frames PROVE InStep(frames[i])'
  <2>1. frames[i].now \in Nat /\ frames[i].origin \in Nat
    <3>1. frames[i] \in FrameType
        BY DEF TimersInv, Types
    <3> QED
        BY <3>1, FrameTyped
  <2>2. InStep(frames[i]) /\ frames' = frames
      BY DEF TimersInv, InTime, Tick
  <2> QED
      BY <1>2, <2>1, <2>2 DEF InStep
<1> QED
    BY <1>1, <1>2, <1>3, CallbacksStay DEF Tick

LEMMA StopKeeps ==
    ASSUME TimersInv, ev_loop_stop PROVE TimersInv'
<1>1. Types'
    BY TimersAssumption DEF TimersInv, Types, ev_loop_stop, Call
<1>2. clock \in Int /\ start_time \in Int
    BY TimersAssumption DEF TimersInv, Types
<1>3. \A i \in DOMAIN frames : InStep(frames[i])'
    BY DEF ev_loop_stop, TimersInv, InTime, InStep
<1> QED
    BY <1>1, <1>2, <1>3, CallbacksStay DEF ev_loop_stop

LEMMA RunKeeps ==
    ASSUME TimersInv, ev_loop_run PROVE TimersInv'
<1>1. PICK f : f = [Frame("run") EXCEPT !.now = 0, !.origin = clock]
    OBVIOUS
<1>2. f \in FrameType
    BY <1>1, NewFrame DEF TimersInv
<1>3. f.pc = "tasks" /\ f.now = 0 /\ f.origin = clock
    BY <1>1 DEF Frame
<1>4. frames' = Append(frames, f) /\ frames \in Seq(FrameType)
    BY <1>1 DEF ev_loop_run, TimersInv, Types
<1>5. /\ frames' \in Seq(FrameType) /\ DOMAIN frames = 1 .. Len(frames)
      /\ DOMAIN frames' = 1 .. Len(frames) + 1 /\ Len(frames) \in Nat
      /\ frames'[Len(frames) + 1] = f
      /\ \A i \in 1 .. Len(frames) : frames'[i] = frames[i]
    BY <1>2, <1>4
<1>6. clock \in Nat /\ start_time \in Nat /\ start_time <= clock
    BY TimersAssumption DEF TimersInv, Types
<1>7. clock' = clock /\ start_time' = clock
    BY DEF ev_loop_run
<1>8. Types'
    BY <1>5, TimersAssumption DEF TimersInv, Types, ev_loop_run, Call
<1>9. ASSUME NEW i \in DOMAIN frames'
      PROVE  /\ InStep(frames[i])'
             /\ frames'[i].pc = "callback" => i \in DOMAIN frames /\ frames'[i] = frames[i]
  <2>1. CASE i = Len(frames) + 1
      BY <1>3, <1>5, <1>6, <1>7, <2>1 DEF InStep
  <2>2. CASE i \in 1 .. Len(frames)
    <3>1. InStep(frames[i]) /\ frames[i] \in FrameType /\ frames'[i] = frames[i]
        BY <1>5, <2>2 DEF TimersInv, Types, InTime
    <3>2. frames[i].origin \in Nat
        BY <3>1, FrameTyped
    <3>3. InStep(frames[i])'
        BY <1>6, <1>7, <3>1, <3>2 DEF InStep
    <3> QED
        BY <1>5, <2>2, <3>1, <3>3
  <2> QED
      BY <1>5, <2>1, <2>2
<1> QED
    BY <1>6, <1>7, <1>8, <1>9, CallbacksStay DEF ev_loop_run

LEMMA AwaitKeeps ==
    ASSUME TimersInv, await_sync PROVE TimersInv'
<1>1. PICK f : f = Frame("await")
    OBVIOUS
<1>2. f \in FrameType /\ f.pc = "tasks" /\ InStep(f)
    BY <1>1, NewFrame DEF TimersInv
<1>3. frames' = Append(frames, f) /\ frames \in Seq(FrameType)
    BY <1>1 DEF await_sync, TimersInv, Types
<1>4. /\ frames' \in Seq(FrameType) /\ DOMAIN frames = 1 .. Len(frames)
      /\ DOMAIN frames' = 1 .. Len(frames) + 1 /\ Len(frames) \in Nat
      /\ frames'[Len(frames) + 1] = f
      /\ \A i \in 1 .. Len(frames) : frames'[i] = frames[i]
    BY <1>2, <1>3
<1>5. Types'
    BY <1>4, TimersAssumption DEF TimersInv, Types, await_sync, Call
<1>6. clock \in Int /\ start_time \in Int
    BY TimersAssumption DEF TimersInv, Types
<1>7. \A i \in DOMAIN frames : InStep(frames[i])
    BY DEF TimersInv, InTime
<1>8. clock' = clock /\ start_time' = start_time
    BY DEF await_sync
<1>9. ASSUME NEW i \in DOMAIN frames'
      PROVE  /\ InStep(frames[i])'
             /\ frames'[i].pc = "callback" => i \in DOMAIN frames /\ frames'[i] = frames[i]
  <2>1. CASE i = Len(frames) + 1
      BY <1>2, <1>4, <1>8, <2>1 DEF InStep
  <2>2. CASE i \in 1 .. Len(frames)
      BY <1>4, <1>7, <1>8, <2>2 DEF InStep
  <2> QED
      BY <1>4, <2>1, <2>2
<1> QED
    BY <1>5, <1>6, <1>8, <1>9, CallbacksStay DEF await_sync

\* The innermost call goes on, with no callback.
LEMMA TopGoesOn ==
    ASSUME TimersInv, frames # <<>>, NEW f \in FrameType, f.pc # "callback",
           f.now = Top.now, f.origin = Top.origin,
           frames' = [frames EXCEPT ![Len(frames)] = f],
           UNCHANGED <<clock, busy, start_time, state, timer_heap, next_timer_id, id, context,
                       due, cleared, ops>>
    PROVE  TimersInv'
<1>1. /\ frames' \in Seq(FrameType) /\ DOMAIN frames' = DOMAIN frames
      /\ frames'[Len(frames)] = f
      /\ \A i \in DOMAIN frames : i # Len(frames) => frames'[i] = frames[i]
    BY TopReplaced DEF TimersInv
<1>2. Top = frames[Len(frames)] /\ Len(frames) \in DOMAIN frames
    BY TopIs DEF TimersInv
<1>3. Types'
    BY <1>1 DEF TimersInv, Types
<1>4. clock \in Int /\ start_time \in Int
    BY TimersAssumption DEF TimersInv, Types
<1>5. \A i \in DOMAIN frames : InStep(frames[i])
    BY DEF TimersInv, InTime
<1>6. ASSUME NEW i \in DOMAIN frames'
      PROVE  /\ InStep(frames[i])'
             /\ frames'[i].pc = "callback" => i \in DOMAIN frames /\ frames'[i] = frames[i]
  <2>1. CASE i = Len(frames)
      BY <1>1, <1>2, <1>5, <2>1 DEF InStep
  <2>2. CASE i # Len(frames)
      BY <1>1, <1>5, <2>2 DEF InStep
  <2> QED
      BY <2>1, <2>2
<1> QED
    BY <1>3, <1>4, <1>6, CallbacksStay

LEMMA TasksDoneKeeps ==
    ASSUME TimersInv, tasks_done PROVE TimersInv'
<1>1. frames # <<>> /\ frames' = [frames EXCEPT ![Len(frames)].pc = "timers"]
    BY DEF tasks_done, InLoop, Goto
<1>2. /\ DOMAIN frames = 1 .. Len(frames) /\ Len(frames) \in DOMAIN frames
      /\ Top = frames[Len(frames)] /\ Top \in FrameType
    BY <1>1, TopIs DEF TimersInv
<1>3. PICK f : f = [Top EXCEPT !.pc = "timers"]
    OBVIOUS
<1>4. f \in FrameType
    BY <1>2, <1>3, FrameTyped
<1>5. f.pc = "timers" /\ f.now = Top.now /\ f.origin = Top.origin
    BY <1>2, <1>3 DEF FrameType
<1>6. frames' = [frames EXCEPT ![Len(frames)] = f]
    BY <1>1, <1>2, <1>3
<1> QED
    BY <1>1, <1>4, <1>5, <1>6, TopGoesOn DEF tasks_done

LEMMA PollKeeps ==
    ASSUME TimersInv, poll PROVE TimersInv'
<1> DEFINE w == CASE Top.for = "await" -> clock
                  [] Top.for = "run" /\ timer_heap = <<>> -> Never
                  [] OTHER -> clock + (first_timeout - Top.now)
<1>1. frames # <<>> /\ frames' = [frames EXCEPT ![Len(frames)].pc = "poll", ![Len(frames)].wake = w]
    BY DEF poll, InLoop
<1>2. /\ DOMAIN frames = 1 .. Len(frames) /\ Len(frames) \in DOMAIN frames
      /\ Top = frames[Len(frames)] /\ Top \in FrameType
    BY <1>1, TopIs DEF TimersInv
<1>3. clock \in Nat /\ Never \in Nat /\ Top.now \in Nat /\ Top.for \in {"run", "await"}
  <2>1. Top.now \in Nat /\ Top.for \in {"run", "await"}
      BY <1>2, FrameTyped
  <2>2. clock \in Nat /\ Never \in Nat
      BY TimersAssumption DEF TimersInv, Types, Never
  <2> QED
      BY <2>1, <2>2
<1>4. w \in Nat
  <2>1. CASE Top.for = "await"
      BY <1>3, <2>1
  <2>2. CASE Top.for = "run" /\ timer_heap = <<>>
      BY <1>3, <2>2
  <2>3. CASE Top.for = "run" /\ timer_heap # <<>>
    <3>1. timer_heap[1] \in TimerType
        BY <2>3 DEF TimersInv, Types
    <3>2. first_timeout \in Nat /\ first_timeout > Top.now
        BY <1>3, <2>3, <3>1, TimerTyped DEF poll, expired, first_timeout
    <3>3. w = clock + (first_timeout - Top.now)
        BY <2>3
    <3> QED
        BY <1>3, <3>2, <3>3
  <2> QED
      BY <1>3, <2>1, <2>2, <2>3
<1>5. PICK v : v = w
    OBVIOUS
<1>6. v \in Nat /\ frames' = [frames EXCEPT ![Len(frames)].pc = "poll", ![Len(frames)].wake = v]
    BY <1>1, <1>4, <1>5
<1>7. PICK f : f = [Top EXCEPT !.pc = "poll", !.wake = v]
    OBVIOUS
<1> HIDE DEF w
<1>8. f \in FrameType
    BY <1>2, <1>6, <1>7, FrameTyped
<1>9. f.pc = "poll" /\ f.now = Top.now /\ f.origin = Top.origin
    BY <1>2, <1>7 DEF FrameType
<1>10. frames' = [frames EXCEPT ![Len(frames)] = f]
    BY <1>2, <1>6, <1>7
<1> QED
    BY <1>1, <1>8, <1>9, <1>10, TopGoesOn DEF poll

LEMMA PollDoneKeeps ==
    ASSUME TimersInv, poll_done PROVE TimersInv'
<1>1. PICK f, g : f = Frame("run") /\ g = Front(frames)
    OBVIOUS
<1>2. f \in FrameType /\ f.pc = "tasks" /\ InStep(f)
    BY <1>1, NewFrame DEF TimersInv
<1>3. frames # <<>> /\ (frames' = Append(g, f) \/ frames' = g) /\ frames \in Seq(FrameType)
    BY <1>1 DEF poll_done, InLoop, TimersInv, Types
<1>4. Len(frames) \in Nat \ {0} /\ DOMAIN frames = 1 .. Len(frames)
    BY <1>3
<1>5. /\ g \in Seq(FrameType) /\ Len(g) = Len(frames) - 1 /\ DOMAIN g = 1 .. Len(frames) - 1
      /\ \A i \in 1 .. Len(frames) - 1 : g[i] = frames[i]
    BY <1>1, <1>3, <1>4 DEF Front
<1>6. /\ frames' \in Seq(FrameType)
      /\ \A i \in DOMAIN frames' : i \in DOMAIN frames /\ (frames'[i] = f \/ frames'[i] = frames[i])
  <2>1. CASE frames' = g
      BY <1>4, <1>5, <2>1
  <2>2. CASE frames' = Append(g, f)
    <3>1. /\ frames' \in Seq(FrameType) /\ Len(frames') = Len(g) + 1
          /\ \A i \in 1 .. Len(g) : frames'[i] = g[i]
          /\ frames'[Len(g) + 1] = f
        BY <1>2, <1>5, <2>2, Appended
    <3>2. DOMAIN frames' = 1 .. Len(frames) /\ Len(g) + 1 = Len(frames)
        BY <1>4, <1>5, <3>1
    <3>3. ASSUME NEW i \in DOMAIN frames' PROVE frames'[i] = f \/ frames'[i] = frames[i]
      <4>1. CASE i = Len(frames)
          BY <3>1, <3>2, <4>1
      <4>2. CASE i \in 1 .. Len(frames) - 1
          BY <1>5, <3>1, <4>2
      <4> QED
          BY <1>4, <3>2, <4>1, <4>2
    <3> QED
        BY <1>4, <3>1, <3>2, <3>3
  <2> QED
      BY <1>3, <2>1, <2>2
<1>7. Types'
    BY <1>6 DEF TimersInv, Types, poll_done
<1>8. clock \in Int /\ start_time \in Int
    BY TimersAssumption DEF TimersInv, Types
<1>9. clock' = clock /\ start_time' = start_time /\ \A i \in DOMAIN frames : InStep(frames[i])
    BY DEF TimersInv, InTime, poll_done
<1>10. ASSUME NEW i \in DOMAIN frames'
       PROVE  /\ InStep(frames[i])'
              /\ frames'[i].pc = "callback" => i \in DOMAIN frames /\ frames'[i] = frames[i]
  <2>1. CASE frames'[i] = f
      BY <1>2, <1>9, <2>1 DEF InStep
  <2>2. CASE frames'[i] = frames[i]
      BY <1>6, <1>9, <2>2 DEF InStep
  <2> QED
      BY <1>6, <2>1, <2>2
<1> QED
    BY <1>7, <1>8, <1>9, <1>10, CallbacksStay DEF poll_done

----------------------------------------------------------------------------
(***************************************************************************)
(* The heap.                                                               *)
(***************************************************************************)
LEMMA StoppedTimer ==
    ASSUME NEW h \in Seq(TimerType), Distinct(h), NEW i, NEW e, e = Stopped(h, i)
    PROVE  /\ e \in Seq(TimerType) /\ Len(e) <= Len(h) /\ Distinct(e)
           /\ Ordered(h) => Ordered(e)
           /\ \A k \in DOMAIN e : \E j \in DOMAIN h : e[k] = h[j]
           /\ \A j \in DOMAIN h : h[j].id # i => \E k \in DOMAIN e : e[k] = h[j]
<1>1. PICK f : f = Find(h, i)
    OBVIOUS
<1>2. f # 0 => f \in DOMAIN h /\ h[f].id = i
    BY <1>1, FindFinds
<1>3. CASE f = 0
    BY <1>1, <1>3 DEF Stopped
<1>4. CASE f # 0
  <2>1. e = Delete(h, f)
      BY <1>1, <1>4 DEF Stopped
  <2>2. Lacks(e, h, f)
      BY <1>2, <1>4, <2>1, DeleteTimer
  <2>3. Len(h) \in Nat
      OBVIOUS
  <2>4. Len(e) <= Len(h)
      BY <2>2, <2>3 DEF Lacks
  <2> QED
      BY <1>2, <1>4, <2>2, <2>4 DEF Lacks
<1> QED
    BY <1>3, <1>4

\* ev_timer_start adds the timer, with the id i, unless the heap is full.
Started(h, timer, i) ==
    /\ id' = [id EXCEPT ![timer.name] = i]
    /\ \/ i = timer.id /\ next_timer_id' = next_timer_id
       \/ /\ timer.id = EV_TIMER_INVALID /\ i = next_timer_id
          /\ next_timer_id' = next_timer_id + 1
    /\ \A k \in DOMAIN timer_heap' :
        \/ timer_heap'[k] = [timer EXCEPT !.id = i] /\ i # EV_TIMER_INVALID
        \/ \E j \in DOMAIN h : timer_heap'[k] = h[j]
    /\ Len(h) < Capacity =>
        \E k \in DOMAIN timer_heap' : timer_heap'[k].name = timer.name

LEMMA StartTimer ==
    ASSUME Types, NEW h \in Seq(TimerType), Len(h) <= Capacity, Distinct(h), Ordered(h),
           NEW timer \in TimerType, timer.name \in Names,
           \A j \in DOMAIN h : h[j].name # timer.name,
           ev_timer_start(h, timer)
    PROVE  /\ timer_heap' \in Seq(TimerType) /\ Len(timer_heap') <= Capacity
           /\ Ordered(timer_heap') /\ Distinct(timer_heap')
           /\ \A j \in DOMAIN h : \E k \in DOMAIN timer_heap' : timer_heap'[k] = h[j]
           /\ \E i \in Int : Started(h, timer, i)
<1>1. next_timer_id \in Nat \ {0} /\ timer.id \in Int /\ Len(h) \in Nat /\ Capacity \in Nat
    BY TimerTyped, TimersAssumption DEF Types
<1>2. CASE Len(h) >= Capacity
  <2>1. /\ timer_heap' = h /\ id' = [id EXCEPT ![timer.name] = timer.id]
        /\ next_timer_id' = next_timer_id
      BY <1>2 DEF ev_timer_start
  <2>2. ~(Len(h) < Capacity)
      BY <1>1, <1>2
  <2> QED
      BY <1>1, <2>1, <2>2 DEF Started
<1>3. CASE ~(Len(h) >= Capacity)
  <2>1. PICK i : i = IF timer.id = EV_TIMER_INVALID THEN next_timer_id ELSE timer.id
      OBVIOUS
  <2>2. PICK t : t = [timer EXCEPT !.id = i]
      OBVIOUS
  <2>3. /\ timer_heap' = Insert(h, t) /\ id' = [id EXCEPT ![timer.name] = i]
        /\ next_timer_id' = IF timer.id = i THEN next_timer_id ELSE next_timer_id + 1
      BY <1>3, <2>1, <2>2 DEF ev_timer_start
  <2>4. i \in Int /\ i # EV_TIMER_INVALID
      BY <1>1, <2>1 DEF EV_TIMER_INVALID
  <2>5. t \in TimerType
      BY <2>2, <2>4, TimerTyped
  <2>6. t.name = timer.name
      BY <2>2 DEF TimerType
  <2>7. /\ timer_heap' \in Seq(TimerType) /\ Len(timer_heap') = Len(h) + 1
        /\ Distinct(timer_heap') /\ Ordered(timer_heap')
        /\ \A k \in DOMAIN timer_heap' :
            timer_heap'[k] = t \/ \E j \in DOMAIN h : timer_heap'[k] = h[j]
        /\ \E k \in DOMAIN timer_heap' : timer_heap'[k] = t
        /\ \A j \in DOMAIN h : \E k \in DOMAIN timer_heap' : timer_heap'[k] = h[j]
      BY <2>3, <2>5, <2>6, InsertTimer
  <2>8. Len(timer_heap') <= Capacity
      BY <1>1, <1>3, <2>7
  <2>9. \/ i = timer.id /\ next_timer_id' = next_timer_id
        \/ timer.id = EV_TIMER_INVALID /\ i = next_timer_id /\ next_timer_id' = next_timer_id + 1
      BY <2>1, <2>3
  <2>10. /\ \A k \in DOMAIN timer_heap' :
            \/ timer_heap'[k] = [timer EXCEPT !.id = i] /\ i # EV_TIMER_INVALID
            \/ \E j \in DOMAIN h : timer_heap'[k] = h[j]
         /\ \E k \in DOMAIN timer_heap' : timer_heap'[k].name = timer.name
      BY <2>2, <2>4, <2>6, <2>7
  <2> QED
      BY <2>3, <2>4, <2>7, <2>8, <2>9, <2>10 DEF Started
<1> QED
    BY <1>2, <1>3

\* What the invariant says of one timer of the heap, and of one callback.
LEMMA OfTheHeap ==
    ASSUME TimersInv, NEW j \in DOMAIN timer_heap, NEW timer, timer = timer_heap[j]
    PROVE  /\ timer \in TimerType /\ timer.timeout \in Nat /\ timer.name \in Names
           /\ Known(timer)
           /\ due[timer.name] \in Nat /\ due[timer.name] <= timer.timeout + start_time
<1>1. timer \in TimerType
    BY DEF TimersInv, Types
<1>2. Known(timer) /\ timer.name \in Names
    BY DEF TimersInv, AllKnown, Known
<1>3. due[timer.name] \in Nat
    BY <1>2 DEF TimersInv, Types
<1>4. due[timer.name] <= timer.timeout + start_time
    BY DEF TimersInv, InTime
<1> QED
    BY <1>1, <1>2, <1>3, <1>4, TimerTyped

LEMMA OfACallback ==
    ASSUME TimersInv, NEW i \in DOMAIN frames, frames[i].pc = "callback",
           NEW timer, timer = frames[i].cur
    PROVE  /\ timer \in TimerType /\ timer.timeout \in Nat /\ timer.name \in Names
           /\ Known(timer)
           /\ due[timer.name] \in Nat
           /\ frames[i].origin = start_time => due[timer.name] <= clock
           /\ \A j \in DOMAIN timer_heap : timer_heap[j].name # timer.name
<1>1. frames[i] \in FrameType
    BY DEF TimersInv, Types
<1>2. timer \in TimerType
    BY <1>1, FrameTyped
<1>3. Known(timer) /\ timer.name \in Names
    BY DEF TimersInv, AllKnown, Known
<1>4. due[timer.name] \in Nat
    BY <1>3 DEF TimersInv, Types
<1>5. frames[i].origin = start_time => due[timer.name] <= clock
    BY DEF TimersInv, InTime
<1>6. \A j \in DOMAIN timer_heap : timer_heap[j].name # timer.name
    BY DEF TimersInv, Apart
<1> QED
    BY <1>2, <1>3, <1>4, <1>5, <1>6, TimerTyped

----------------------------------------------------------------------------
LEMMA StopByIdKeeps ==
    ASSUME TimersInv, NEW n \in Names, ev_timer_stop_by_id(n) PROVE TimersInv'
<1>1. timer_heap \in Seq(TimerType) /\ Distinct(timer_heap) /\ Ordered(timer_heap)
    BY DEF TimersInv, Types, Apart, HeapOrdered
<1>2. /\ timer_heap' \in Seq(TimerType) /\ Len(timer_heap') <= Len(timer_heap)
      /\ Distinct(timer_heap') /\ Ordered(timer_heap')
      /\ \A k \in DOMAIN timer_heap' : \E j \in DOMAIN timer_heap : timer_heap'[k] = timer_heap[j]
    BY <1>1, StoppedTimer DEF ev_timer_stop_by_id
<1>3. UNCHANGED <<clock, busy, start_time, state, next_timer_id, frames, id, context, due>>
    BY DEF ev_timer_stop_by_id
<1>4. Types'
  <2>1. Len(timer_heap') <= Capacity
    <3>1. Len(timer_heap) <= Capacity /\ Len(timer_heap) \in Nat /\ Len(timer_heap') \in Nat
        BY <1>1, <1>2 DEF TimersInv, Types
    <3> QED
        BY <1>2, <3>1, TimersAssumption
  <2>2. cleared' \subseteq Names /\ ops' \in 0 .. MaxOps
      BY TimersAssumption DEF ev_timer_stop_by_id, Call, TimersInv, Types
  <2> QED
      BY <1>2, <1>3, <2>1, <2>2 DEF TimersInv, Types
<1>5. Numbered'
    BY <1>3 DEF TimersInv, Numbered
<1>6. AllKnown'
    BY <1>2, <1>3 DEF TimersInv, AllKnown, Known
<1>7. Apart'
    BY <1>2, <1>3 DEF TimersInv, Apart
<1>8. InTime'
    BY <1>2, <1>3 DEF TimersInv, InTime, InStep
<1> QED
    BY <1>2, <1>4, <1>5, <1>6, <1>7, <1>8 DEF TimersInv, HeapOrdered

LEMMA AgainKeeps ==
    ASSUME TimersInv, NEW n \in Names, NEW d \in Delays, ev_timer_again(n, d) PROVE TimersInv'
<1>1. timer_heap \in Seq(TimerType) /\ Distinct(timer_heap) /\ Ordered(timer_heap)
    BY DEF TimersInv, Types, Apart, HeapOrdered
<1>2. PICK f : f = Find(timer_heap, id[n])
    OBVIOUS
<1>3. f \in DOMAIN timer_heap /\ timer_heap[f].id = id[n] /\ context[n].kind = "c"
    BY <1>1, <1>2, FindFinds DEF ev_timer_again
<1>4. PICK old : old = timer_heap[f]
    OBVIOUS
<1>5. /\ old \in TimerType /\ Known(old) /\ old.name \in Names
    BY <1>3, <1>4, OfTheHeap
<1>6. old.name = n
  <2>1. id[old.name] = id[n] /\ id[n] # EV_TIMER_INVALID
      BY <1>3, <1>4, <1>5 DEF Known
  <2>2. context[old.name].kind = "c"
    <3>1. context[old.name] \in ContextType
        BY <1>5 DEF TimersInv, Types
    <3>2. context[old.name].kind # "none"
        BY <1>5 DEF Known
    <3>3. id[n] \in 1 .. next_timer_id - 1
        BY <1>3, <2>1 DEF TimersInv, Numbered
    <3>4. id[n] # 0
        BY <3>3
    <3>5. context[old.name].kind \in {"sleep", "interval"} => id[old.name] = 0
        BY <1>5 DEF TimersInv, Numbered
    <3> QED
        BY <2>1, <3>1, <3>2, <3>4, <3>5 DEF ContextType
  <2> QED
      BY <1>3, <1>5, <2>1, <2>2 DEF TimersInv, Numbered
<1>7. now + d \in Nat /\ clock + d \in Nat /\ now + d + start_time = clock + d
  <2>1. d \in Nat /\ now \in Nat /\ now + start_time = clock
      BY NewFrame, TimersAssumption DEF TimersInv
  <2>2. clock \in Nat /\ start_time \in Nat
      BY TimersAssumption DEF TimersInv, Types
  <2> QED
      BY <2>1, <2>2
<1>8. PICK t, new : t = now + d /\ new = [old EXCEPT !.timeout = t]
    OBVIOUS
<1>9. timer_heap' = Retime(timer_heap, f, t)
    BY <1>2, <1>8 DEF ev_timer_again
<1>10. /\ timer_heap' \in Seq(TimerType) /\ Len(timer_heap') = Len(timer_heap)
       /\ Distinct(timer_heap') /\ Ordered(timer_heap')
       /\ \A k \in DOMAIN timer_heap' :
            \/ timer_heap'[k] = new
            \/ \E j \in DOMAIN timer_heap : j # f /\ timer_heap'[k] = timer_heap[j]
  <2>1. t \in Nat /\ new = [timer_heap[f] EXCEPT !.timeout = t]
      BY <1>4, <1>7, <1>8
  <2> QED
      <3>1. PICK h, e : h = timer_heap /\ e = timer_heap'
          OBVIOUS
      <3>2. h \in Seq(TimerType) /\ Distinct(h) /\ Ordered(h) /\ f \in DOMAIN h
          BY <1>1, <1>3, <3>1
      <3>3. t \in Nat /\ e = Retime(h, f, t) /\ new = [h[f] EXCEPT !.timeout = t]
          BY <1>9, <2>1, <3>1
      <3>4. /\ e \in Seq(TimerType) /\ Len(e) = Len(h) /\ Distinct(e) /\ Ordered(e)
            /\ \A k \in DOMAIN e : e[k] = new \/ \E j \in DOMAIN h : j # f /\ e[k] = h[j]
          BY <3>2, <3>3, RetimeTimer
      <3> QED
          BY <3>1, <3>4
<1>11. /\ UNCHANGED <<clock, busy, start_time, state, next_timer_id, frames, id, context, cleared>>
       /\ due' = [due EXCEPT ![n] = clock + d]
    BY DEF ev_timer_again
<1>12. new.name = n /\ new.id = old.id /\ new.repeat = old.repeat /\ new.timeout = t
    BY <1>5, <1>6, <1>8 DEF TimerType
<1>13. due \in [Names -> Nat]
    BY DEF TimersInv, Types
<1>14. Types'
  <2>1. ops' \in 0 .. MaxOps
      BY TimersAssumption DEF ev_timer_again, Call, TimersInv, Types
  <2>2. due' \in [Names -> Nat]
      BY <1>7, <1>11, <1>13
  <2> QED
      BY <1>10, <1>11, <2>1, <2>2 DEF TimersInv, Types
<1>15. Numbered'
    BY <1>11 DEF TimersInv, Numbered
<1>16. \A k \in DOMAIN timer_heap' : \E j \in DOMAIN timer_heap : timer_heap'[k].name = timer_heap[j].name
    BY <1>3, <1>4, <1>6, <1>10, <1>12
<1>17. AllKnown'
  <2>1. Known(new)'
      BY <1>5, <1>6, <1>11, <1>12 DEF Known
  <2> QED
      BY <1>10, <1>11, <2>1 DEF TimersInv, AllKnown, Known
<1>18. Apart'
    BY <1>10, <1>11, <1>16 DEF TimersInv, Apart
<1>19. InTime'
  <2>1. ASSUME NEW k \in DOMAIN timer_heap'
        PROVE  due'[timer_heap'[k].name] <= timer_heap'[k].timeout + start_time
    <3>1. CASE timer_heap'[k] = new
        BY <1>7, <1>8, <1>11, <1>12, <1>13, <3>1
    <3>2. ASSUME NEW j \in DOMAIN timer_heap, j # f, timer_heap'[k] = timer_heap[j]
          PROVE  due'[timer_heap'[k].name] <= timer_heap'[k].timeout + start_time
      <4>1. timer_heap[j].name # n
          BY <1>1, <1>3, <1>4, <1>6, <3>2 DEF Distinct
      <4>2. due[timer_heap[j].name] <= timer_heap[j].timeout + start_time /\ timer_heap[j].name \in Names
          BY OfTheHeap
      <4> QED
          BY <1>11, <1>13, <3>2, <4>1, <4>2
    <3> QED
        BY <1>10, <3>1, <3>2
  <2>2. ASSUME NEW i \in DOMAIN frames, frames[i].pc = "callback", frames[i].origin = start_time
        PROVE  due'[frames[i].cur.name] <= clock
    <3>1. /\ frames[i].cur.name # n /\ frames[i].cur.name \in Names
          /\ due[frames[i].cur.name] <= clock
        BY <1>3, <1>4, <1>6, <2>2, OfACallback
    <3> QED
        BY <1>11, <1>13, <3>1
  <2>3. \A i \in DOMAIN frames : InStep(frames[i])
      BY DEF TimersInv, InTime
  <2> QED
      BY <1>11, <2>1, <2>2, <2>3 DEF InTime, InStep
<1> QED
    BY <1>10, <1>14, <1>15, <1>17, <1>18, <1>19 DEF TimersInv, HeapOrdered

LEMMA MoreNumbers ==
    ASSUME NEW a \in Nat, NEW b \in Nat, b >= a PROVE \A x \in 1 .. a - 1 : x \in 1 .. b - 1
OBVIOUS

LEMMA CreateKeeps ==
    ASSUME TimersInv, NEW n \in Names, NEW d \in Delays, NEW ctx \in ContextType, NEW i,
           ctx.repeat \in Delays \cup {0},
           \/ ctx.kind \in {"sleep", "interval"} /\ i = 0
           \/ ctx.kind = "c" /\ i = EV_TIMER_INVALID,
           create(n, d, ctx, i)
    PROVE  TimersInv'
<1>1. /\ timer_heap \in Seq(TimerType) /\ Len(timer_heap) <= Capacity
      /\ Distinct(timer_heap) /\ Ordered(timer_heap)
    BY DEF TimersInv, Types, Apart, HeapOrdered
<1>2. /\ d \in Nat /\ now \in Nat /\ now + start_time = clock
      /\ clock \in Nat /\ start_time \in Nat
  <2>1. d \in Nat /\ now \in Nat /\ now + start_time = clock
      BY NewFrame, TimersAssumption DEF TimersInv
  <2> QED
      BY <2>1, TimersAssumption DEF TimersInv, Types
<1>3. PICK t, r, timer : t = now + d /\ r = ctx.repeat /\ timer = Timer(n, i, t, r)
    OBVIOUS
<1>4. t \in Nat /\ t + start_time = clock + d /\ clock + d \in Nat /\ r \in Delays \cup {0}
    BY <1>2, <1>3
<1>5. /\ timer \in TimerType
      /\ timer.name = n /\ timer.id = i /\ timer.timeout = t /\ timer.repeat = r
  <2>1. i \in Int
      BY DEF EV_TIMER_INVALID
  <2> QED
      BY <1>3, <1>4, <2>1 DEF Timer, TimerType
<1>6. \A j \in DOMAIN timer_heap : timer_heap[j].name # n
    BY DEF create, TimersInv, AllKnown, Known
<1>7. ev_timer_start(timer_heap, timer)
    BY <1>3 DEF create
<1>8. /\ timer_heap' \in Seq(TimerType) /\ Len(timer_heap') <= Capacity
      /\ Ordered(timer_heap') /\ Distinct(timer_heap')
    BY <1>1, <1>5, <1>6, <1>7, StartTimer DEF TimersInv
<1>9. PICK v \in Int :
        /\ id' = [id EXCEPT ![n] = v]
        /\ \/ v = i /\ next_timer_id' = next_timer_id
           \/ i = EV_TIMER_INVALID /\ v = next_timer_id /\ next_timer_id' = next_timer_id + 1
        /\ \A k \in DOMAIN timer_heap' :
            \/ timer_heap'[k] = [timer EXCEPT !.id = v] /\ v # EV_TIMER_INVALID
            \/ \E j \in DOMAIN timer_heap : timer_heap'[k] = timer_heap[j]
  <2>1. Types /\ timer.name \in Names /\ \A j \in DOMAIN timer_heap : timer_heap[j].name # timer.name
      BY <1>5, <1>6 DEF TimersInv
  <2>2. \E v \in Int : Started(timer_heap, timer, v)
      BY <1>1, <1>5, <1>7, <2>1, StartTimer
  <2> QED
      BY <1>5, <2>2 DEF Started
<1>10. /\ context' = [context EXCEPT ![n] = ctx] /\ due' = [due EXCEPT ![n] = clock + d]
       /\ context[n].kind = "none"
       /\ UNCHANGED <<clock, busy, start_time, state, frames, cleared>>
    BY DEF create
<1>11. id \in [Names -> Int] /\ context \in [Names -> ContextType] /\ due \in [Names -> Nat]
    BY DEF TimersInv, Types
<1>12. next_timer_id \in Nat \ {0} /\ next_timer_id' \in Nat \ {0} /\ next_timer_id' >= next_timer_id
    BY <1>9 DEF TimersInv, Types
<1>13. PICK new : new = [timer EXCEPT !.id = v]
    OBVIOUS
<1>14. new.name = n /\ new.id = v /\ new.timeout = t /\ new.repeat = r
    BY <1>5, <1>9, <1>13 DEF TimerType
<1>15. /\ id'[n] = v /\ context'[n] = ctx /\ due'[n] = clock + d
       /\ \A m \in Names : m # n => id'[m] = id[m] /\ context'[m] = context[m] /\ due'[m] = due[m]
    BY <1>9, <1>10, <1>11
<1>16. Types'
  <2>1. ops' \in 0 .. MaxOps
      BY TimersAssumption DEF create, Call, TimersInv, Types
  <2>2. id' \in [Names -> Int] /\ context' \in [Names -> ContextType] /\ due' \in [Names -> Nat]
      BY <1>4, <1>9, <1>10, <1>11
  <2> QED
      BY <1>8, <1>10, <1>12, <2>1, <2>2 DEF TimersInv, Types
<1>17. Numbered'
  <2>1. ASSUME NEW m \in Names, context'[m].kind \in {"sleep", "interval"} PROVE id'[m] = 0
    <3>1. CASE m = n
        BY <1>9, <1>15, <2>1, <3>1 DEF EV_TIMER_INVALID
    <3>2. CASE m # n
        BY <1>15, <2>1, <3>2 DEF TimersInv, Numbered
    <3> QED
        BY <3>1, <3>2
  <2>2. \A m \in Names : m # n /\ context[m].kind = "c" =>
            id[m] = EV_TIMER_INVALID \/ (id[m] \in 1 .. next_timer_id - 1 /\ id[m] # next_timer_id)
    <3>1. \A m \in Names : context[m].kind = "c" =>
            id[m] = EV_TIMER_INVALID \/ id[m] \in 1 .. next_timer_id - 1
        BY DEF TimersInv, Numbered
    <3>2. \A x \in 1 .. next_timer_id - 1 : x # next_timer_id
        BY <1>12
    <3> QED
        BY <3>1, <3>2
  <2>3. ASSUME NEW m \in Names, context'[m].kind = "c"
        PROVE  id'[m] = EV_TIMER_INVALID \/ id'[m] \in 1 .. next_timer_id' - 1
    <3>1. CASE m = n
        BY <1>9, <1>12, <1>15, <2>3, <3>1
    <3>2. CASE m # n
      <4>1. id'[m] = id[m] /\ context[m].kind = "c"
          BY <1>15, <2>3, <3>2
      <4>2. \A x \in 1 .. next_timer_id - 1 : x \in 1 .. next_timer_id' - 1
          BY <1>12, MoreNumbers
      <4> QED
          BY <2>2, <3>2, <4>1, <4>2
    <3> QED
        BY <3>1, <3>2
  <2>4. ctx.kind = "c" => v = EV_TIMER_INVALID \/ v = next_timer_id
      BY <1>9
  <2>5. ASSUME NEW m \in Names, NEW l \in Names, context'[m].kind = "c", context'[l].kind = "c",
               id'[m] # EV_TIMER_INVALID, id'[l] = id'[m]
        PROVE  l = m
    <3>1. CASE m = n /\ l # n
        BY <1>15, <2>2, <2>4, <2>5, <3>1
    <3>2. CASE m # n /\ l = n
        BY <1>15, <2>2, <2>4, <2>5, <3>2
    <3>3. CASE m # n /\ l # n
        BY <1>15, <2>5, <3>3 DEF TimersInv, Numbered
    <3> QED
        BY <3>1, <3>2, <3>3
  <2> QED
      BY <2>1, <2>3, <2>5 DEF Numbered
<1>18. \A m \in Names : context[m].kind # "none" => m # n
    BY <1>10
<1>19. \A k \in DOMAIN timer_heap : Known(timer_heap[k])
    BY DEF TimersInv, AllKnown
<1>20. AllKnown'
  <2>1. ASSUME NEW k \in DOMAIN timer_heap' PROVE Known(timer_heap[k])'
    <3>1. CASE timer_heap'[k] = new /\ v # EV_TIMER_INVALID
        BY <1>3, <1>10, <1>14, <1>15, <3>1 DEF Known
    <3>2. ASSUME NEW j \in DOMAIN timer_heap, timer_heap'[k] = timer_heap[j]
          PROVE  Known(timer_heap[k])'
        BY <1>15, <1>18, <1>19, <3>2 DEF Known
    <3> QED
        BY <1>9, <1>13, <3>1, <3>2
  <2>2. ASSUME NEW k \in DOMAIN frames', frames'[k].pc = "callback" PROVE Known(frames[k].cur)'
      BY <1>10, <1>15, <1>18, <2>2 DEF Known, TimersInv, AllKnown
  <2> QED
      BY <2>1, <2>2 DEF AllKnown
<1>21. \A k \in DOMAIN frames : frames[k].pc = "callback" => frames[k].cur.name # n
    BY <1>18 DEF Known, TimersInv, AllKnown
<1>22. Apart'
  <2>1. ASSUME NEW k \in DOMAIN frames, frames[k].pc = "callback", NEW j \in DOMAIN timer_heap'
        PROVE  timer_heap'[j].name # frames[k].cur.name
    <3>1. CASE timer_heap'[j] = new
        BY <1>14, <1>21, <2>1, <3>1
    <3>2. CASE \E l \in DOMAIN timer_heap : timer_heap'[j] = timer_heap[l]
        BY <2>1, <3>2 DEF TimersInv, Apart
    <3> QED
        BY <1>9, <1>13, <3>1, <3>2
  <2> QED
      BY <1>8, <1>10, <2>1 DEF TimersInv, Apart
<1>23. InTime'
  <2>1. ASSUME NEW k \in DOMAIN timer_heap'
        PROVE  due'[timer_heap'[k].name] <= timer_heap'[k].timeout + start_time
    <3>1. CASE timer_heap'[k] = new
        BY <1>4, <1>14, <1>15, <3>1
    <3>2. ASSUME NEW j \in DOMAIN timer_heap, timer_heap'[k] = timer_heap[j]
          PROVE  due'[timer_heap'[k].name] <= timer_heap'[k].timeout + start_time
        BY <1>6, <1>15, <3>2, OfTheHeap
    <3> QED
        BY <1>9, <1>13, <3>1, <3>2
  <2>2. ASSUME NEW k \in DOMAIN frames, frames[k].pc = "callback", frames[k].origin = start_time
        PROVE  due'[frames[k].cur.name] <= clock
      BY <1>15, <1>21, <2>2, OfACallback
  <2>3. \A k \in DOMAIN frames : InStep(frames[k])
      BY DEF TimersInv, InTime
  <2> QED
      BY <1>10, <2>1, <2>2, <2>3 DEF InTime, InStep
<1> QED
    BY <1>8, <1>16, <1>17, <1>20, <1>22, <1>23 DEF TimersInv, HeapOrdered

LEMMA FireKeeps ==
    ASSUME TimersInv, fire PROVE TimersInv'
<1>1. PICK first, N : first = timer_heap[1] /\ N = Len(frames)
    OBVIOUS
<1>2. /\ timer_heap # <<>> /\ frames # <<>> /\ timer_heap' = Pop(timer_heap)
      /\ first.timeout <= Top.now
      /\ frames' = [frames EXCEPT ![N].pc = "callback", ![N].cur = first]
      /\ UNCHANGED <<clock, busy, start_time, state, next_timer_id, id, context, due, cleared, ops>>
    BY <1>1 DEF fire, InLoop, expired
<1>3. timer_heap \in Seq(TimerType) /\ Distinct(timer_heap) /\ Ordered(timer_heap)
    BY DEF TimersInv, Types, Apart, HeapOrdered
<1>4. 1 \in DOMAIN timer_heap /\ Lacks(timer_heap', timer_heap, 1)
    BY <1>2, <1>3, PopTimer
<1>5. /\ timer_heap' \in Seq(TimerType) /\ Len(timer_heap') = Len(timer_heap) - 1
      /\ Distinct(timer_heap') /\ Ordered(timer_heap')
      /\ \A k \in DOMAIN timer_heap' : \E j \in DOMAIN timer_heap : j # 1 /\ timer_heap'[k] = timer_heap[j]
    BY <1>3, <1>4 DEF Lacks
<1>6. N \in DOMAIN frames /\ Top = frames[N] /\ Top \in FrameType
    BY <1>1, <1>2, TopIs DEF TimersInv
<1>7. /\ first \in TimerType /\ first.timeout \in Nat /\ first.name \in Names /\ Known(first)
      /\ due[first.name] \in Nat /\ due[first.name] <= first.timeout + start_time
    BY <1>1, <1>4, OfTheHeap
<1>8. PICK f : f = [Top EXCEPT !.pc = "callback", !.cur = first]
    OBVIOUS
<1>9. f \in FrameType
    BY <1>6, <1>7, <1>8, FrameTyped
<1>10. f.pc = "callback" /\ f.cur = first /\ f.now = Top.now /\ f.origin = Top.origin
    BY <1>6, <1>8 DEF FrameType
<1>11. frames' = [frames EXCEPT ![N] = f]
    BY <1>2, <1>6, <1>8
<1>12. /\ frames' \in Seq(FrameType) /\ DOMAIN frames' = DOMAIN frames
       /\ frames'[N] = f
       /\ \A i \in DOMAIN frames : i # N => frames'[i] = frames[i]
    BY <1>1, <1>2, <1>9, <1>11, TopReplaced DEF TimersInv
<1>13. Types'
  <2>1. Len(timer_heap) \in Nat /\ Len(timer_heap) <= Capacity
      BY <1>3 DEF TimersInv, Types
  <2>2. Len(timer_heap') <= Capacity
      BY <1>5, <2>1, TimersAssumption
  <2> QED
      BY <1>2, <1>5, <1>12, <2>2 DEF TimersInv, Types
<1>14. Numbered'
    BY <1>2 DEF TimersInv, Numbered
<1>15. AllKnown'
  <2>1. ASSUME NEW k \in DOMAIN timer_heap' PROVE Known(timer_heap[k])'
      BY <1>2, <1>5 DEF TimersInv, AllKnown, Known
  <2>2. ASSUME NEW i \in DOMAIN frames', frames'[i].pc = "callback" PROVE Known(frames[i].cur)'
    <3>1. CASE i = N
        BY <1>2, <1>7, <1>10, <1>12, <3>1 DEF Known
    <3>2. CASE i # N
        BY <1>2, <1>12, <2>2, <3>2 DEF TimersInv, AllKnown, Known
    <3> QED
        BY <3>1, <3>2
  <2> QED
      BY <2>1, <2>2 DEF AllKnown
<1>16. \A j \in DOMAIN timer_heap : j # 1 => timer_heap[j].name # first.name
    BY <1>1, <1>3, <1>4 DEF Distinct
<1>17. \A i \in DOMAIN frames : frames[i].pc = "callback" => frames[i].cur.name # first.name
    BY <1>1, <1>4, OfACallback
<1>18. Apart'
  <2>1. ASSUME NEW i \in DOMAIN frames, frames'[i].pc = "callback", NEW j \in DOMAIN timer_heap'
        PROVE  timer_heap'[j].name # frames'[i].cur.name
    <3>1. CASE i = N
        BY <1>5, <1>10, <1>12, <1>16, <3>1
    <3>2. CASE i # N
        BY <1>5, <1>12, <2>1, <3>2 DEF TimersInv, Apart
    <3> QED
        BY <3>1, <3>2
  <2>2. ASSUME NEW i \in DOMAIN frames, frames'[i].pc = "callback",
               NEW k \in DOMAIN frames, frames'[k].pc = "callback",
               frames'[k].cur.name = frames'[i].cur.name
        PROVE  k = i
    <3>1. CASE i = N /\ k # N
        BY <1>10, <1>12, <1>17, <2>2, <3>1
    <3>2. CASE i # N /\ k = N
        BY <1>10, <1>12, <1>17, <2>2, <3>2
    <3>3. CASE i # N /\ k # N
        BY <1>12, <2>2, <3>3 DEF TimersInv, Apart
    <3> QED
        BY <3>1, <3>2, <3>3
  <2> QED
      BY <1>5, <1>12, <2>1, <2>2 DEF Apart
<1>19. InTime'
  <2>1. ASSUME NEW k \in DOMAIN timer_heap'
        PROVE  due[timer_heap'[k].name] <= timer_heap'[k].timeout + start_time
      BY <1>5, OfTheHeap
  <2>2. \A i \in DOMAIN frames : InStep(frames[i])
      BY DEF TimersInv, InTime
  <2>3. Top.origin = start_time => due[first.name] <= clock
    <3>1. Top.now \in Nat /\ Top.now + Top.origin <= clock
        BY <1>6, <2>2, FrameTyped DEF InStep
    <3>2. clock \in Nat /\ start_time \in Nat
        BY TimersAssumption DEF TimersInv, Types
    <3> QED
        BY <1>2, <1>7, <3>1, <3>2
  <2>4. ASSUME NEW i \in DOMAIN frames
        PROVE  /\ InStep(frames[i])'
               /\ frames'[i].pc = "callback" /\ frames'[i].origin = start_time =>
                    due[frames'[i].cur.name] <= clock
    <3>1. CASE i = N
        BY <1>2, <1>6, <1>10, <1>12, <2>2, <2>3, <3>1 DEF InStep
    <3>2. CASE i # N
        BY <1>2, <1>12, <2>2, <3>2, OfACallback DEF InStep
    <3> QED
        BY <3>1, <3>2
  <2> QED
      BY <1>2, <1>12, <2>1, <2>4 DEF InTime
<1> QED
    BY <1>5, <1>13, <1>14, <1>15, <1>18, <1>19 DEF TimersInv, HeapOrdered

\* The heap of callback_done before the loop puts the timer back.
Left == IF context[Top.cur.name].kind = "interval" /\ context[Top.cur.name].times = 1
        THEN Stopped(timer_heap, Top.cur.id) ELSE timer_heap

\* What it changes in the frames, in the context of n, and in the heap.
FramesDone ==
    /\ frames' \in Seq(FrameType) /\ DOMAIN frames' = DOMAIN frames
    /\ frames'[Len(frames)].pc = "timers"
    /\ frames'[Len(frames)].now = Top.now /\ frames'[Len(frames)].origin = Top.origin
    /\ \A i \in DOMAIN frames : i # Len(frames) => frames'[i] = frames[i]
ContextDone(n) ==
    \E freed \in BOOLEAN, times \in Nat :
        context' = [context EXCEPT ![n] = [context[n] EXCEPT !.freed = freed, !.times = times]]
HeapDone(timer, n, left) ==
    \/ /\ timer.repeat > 0 /\ due' = [due EXCEPT ![n] = 0]
       /\ ev_timer_start(left, [timer EXCEPT !.timeout = Top.now + timer.repeat])
    \/ timer.repeat = 0 /\ timer_heap' = left /\ UNCHANGED <<next_timer_id, id, due>>
\* What it leaves is part of the heap, without n.
PartOfTheHeap(left, n) ==
    /\ left \in Seq(TimerType) /\ Len(left) <= Capacity /\ Distinct(left) /\ Ordered(left)
    /\ \A k \in DOMAIN left : \E j \in DOMAIN timer_heap : left[k] = timer_heap[j]
    /\ \A k \in DOMAIN left : left[k].name # n

LEMMA CallbackDone ==
    ASSUME TimersInv, callback_done, NEW timer, timer = Top.cur, NEW n, n = timer.name,
           NEW left, left = Left
    PROVE  /\ Len(frames) \in DOMAIN frames /\ Top = frames[Len(frames)] /\ Top.pc = "callback"
           /\ timer \in TimerType /\ timer.timeout \in Nat /\ n \in Names /\ Known(timer)
           /\ FramesDone /\ ContextDone(n) /\ HeapDone(timer, n, left) /\ PartOfTheHeap(left, n)
           /\ UNCHANGED <<clock, busy, start_time, state, cleared, ops>>
<1>1. PICK N : N = Len(frames)
    OBVIOUS
<1>2. frames # <<>> /\ Top.pc = "callback" /\ frames' = [frames EXCEPT ![N].pc = "timers"]
    BY <1>1 DEF callback_done, InLoop, Goto
<1>3. N \in DOMAIN frames /\ Top = frames[N] /\ Top \in FrameType
    BY <1>1, <1>2, TopIs DEF TimersInv
<1>4. PICK f : f = [Top EXCEPT !.pc = "timers"]
    OBVIOUS
<1>5. f \in FrameType
    BY <1>3, <1>4, FrameTyped
<1>6. f.pc = "timers" /\ f.now = Top.now /\ f.origin = Top.origin
    BY <1>3, <1>4 DEF FrameType
<1>7. frames' = [frames EXCEPT ![N] = f]
    BY <1>2, <1>3, <1>4
<1>8. /\ frames' \in Seq(FrameType) /\ DOMAIN frames' = DOMAIN frames
      /\ frames'[N] = f
      /\ \A i \in DOMAIN frames : i # N => frames'[i] = frames[i]
    BY <1>1, <1>2, <1>5, <1>7, TopReplaced DEF TimersInv
<1>9. /\ timer \in TimerType /\ timer.timeout \in Nat /\ n \in Names /\ Known(timer)
      /\ \A j \in DOMAIN timer_heap : timer_heap[j].name # n
    BY <1>2, <1>3, OfACallback
<1>10. /\ timer_heap \in Seq(TimerType) /\ Len(timer_heap) <= Capacity
       /\ Distinct(timer_heap) /\ Ordered(timer_heap)
    BY DEF TimersInv, Types, Apart, HeapOrdered
<1>11. /\ left \in Seq(TimerType) /\ Len(left) <= Capacity /\ Distinct(left) /\ Ordered(left)
       /\ \A k \in DOMAIN left : \E j \in DOMAIN timer_heap : left[k] = timer_heap[j]
  <2>1. CASE left = timer_heap
      BY <1>10, <2>1
  <2>2. CASE left = Stopped(timer_heap, Top.cur.id)
    <3>1. /\ left \in Seq(TimerType) /\ Len(left) <= Len(timer_heap)
          /\ Distinct(left) /\ Ordered(left)
          /\ \A k \in DOMAIN left : \E j \in DOMAIN timer_heap : left[k] = timer_heap[j]
        BY <1>10, <2>2, StoppedTimer
    <3>2. Len(left) \in Nat /\ Len(timer_heap) \in Nat
        BY <1>10, <3>1
    <3> QED
        BY <1>10, <3>1, <3>2, TimersAssumption
  <2> QED
      BY <2>1, <2>2 DEF Left
<1>12. \A k \in DOMAIN left : left[k].name # n
    BY <1>9, <1>11
<1>13. \E freed \in BOOLEAN, times \in Nat :
        context' = [context EXCEPT ![n] = [context[n] EXCEPT !.freed = freed, !.times = times]]
  <2>1. context[n].freed \in BOOLEAN /\ context[n].times \in Nat
      BY <1>9 DEF TimersInv, Types, ContextType
  <2>2. PICK freed : freed = (context[n].freed \/ (context[n].kind = "interval" /\ context[n].times = 1))
      OBVIOUS
  <2>3. PICK times : times = IF context[n].times > 0 THEN context[n].times - 1 ELSE context[n].times
      OBVIOUS
  <2>4. freed \in BOOLEAN /\ times \in Nat
      BY <2>1, <2>2, <2>3
  <2>5. context' = [context EXCEPT ![n] = [context[n] EXCEPT !.freed = freed, !.times = times]]
      BY <2>2, <2>3, <1>9 DEF callback_done, TimersInv, Types, ContextType
  <2> QED
      BY <2>4, <2>5
<1>14. \/ /\ timer.repeat > 0 /\ due' = [due EXCEPT ![n] = 0]
          /\ ev_timer_start(left, [timer EXCEPT !.timeout = Top.now + timer.repeat])
       \/ timer.repeat = 0 /\ timer_heap' = left /\ UNCHANGED <<next_timer_id, id, due>>
    BY DEF callback_done, Left
<1>15. UNCHANGED <<clock, busy, start_time, state, cleared, ops>>
    BY DEF callback_done
<1>16. FramesDone
    BY <1>1, <1>6, <1>8 DEF FramesDone
<1>17. ContextDone(n) /\ HeapDone(timer, n, left) /\ PartOfTheHeap(left, n)
    BY <1>11, <1>12, <1>13, <1>14 DEF ContextDone, HeapDone, PartOfTheHeap
<1> QED
    BY <1>1, <1>2, <1>3, <1>9, <1>15, <1>16, <1>17

\* Where the timer goes back, it is the same one with its next moment.
LEMMA CallbackDoneBack ==
    ASSUME TimersInv, callback_done, NEW timer, timer = Top.cur, timer.repeat > 0,
           NEW n, n = timer.name, NEW left, left = Left
    PROVE  /\ timer_heap' \in Seq(TimerType) /\ Len(timer_heap') <= Capacity
           /\ Ordered(timer_heap') /\ Distinct(timer_heap')
           /\ UNCHANGED <<next_timer_id, id>>
           /\ \A j \in DOMAIN left : \E k \in DOMAIN timer_heap' : timer_heap'[k] = left[j]
           /\ \A k \in DOMAIN timer_heap' :
                \/ /\ timer_heap'[k].name = n /\ timer_heap'[k].id = timer.id
                   /\ timer_heap'[k].repeat = timer.repeat
                   /\ timer_heap'[k].timeout \in Nat
                \/ \E j \in DOMAIN left : timer_heap'[k] = left[j]
           /\ Len(left) < Capacity => \E k \in DOMAIN timer_heap' : timer_heap'[k].name = n
<1>1. /\ Top.pc = "callback" /\ Top \in FrameType
      /\ timer \in TimerType /\ n \in Names /\ Known(timer)
      /\ left \in Seq(TimerType) /\ Len(left) <= Capacity /\ Distinct(left) /\ Ordered(left)
      /\ \A k \in DOMAIN left : left[k].name # n
      /\ ev_timer_start(left, [timer EXCEPT !.timeout = Top.now + timer.repeat])
  <2>1. Top \in FrameType
      BY TopIs DEF callback_done, InLoop, TimersInv
  <2>2. ~(timer.repeat = 0)
      OBVIOUS
  <2>3. /\ Top.pc = "callback" /\ timer \in TimerType /\ n \in Names /\ Known(timer)
        /\ HeapDone(timer, n, left) /\ PartOfTheHeap(left, n)
      BY CallbackDone
  <2> QED
      BY <2>1, <2>2, <2>3 DEF HeapDone, PartOfTheHeap
<1>2. PICK t, new : t = Top.now + timer.repeat /\ new = [timer EXCEPT !.timeout = t]
    OBVIOUS
<1>3. t \in Nat
  <2>1. Top.now \in Nat
      BY <1>1, FrameTyped
  <2>2. timer.repeat \in Nat
      BY <1>1, TimerTyped
  <2> QED
      BY <1>2, <2>1, <2>2
<1>4. new \in TimerType
    BY <1>1, <1>2, <1>3, TimerTyped
<1>5. new.name = n /\ new.id = timer.id /\ new.repeat = timer.repeat /\ new.timeout = t
    BY <1>1, <1>2 DEF TimerType
<1>6. ev_timer_start(left, new) /\ \A k \in DOMAIN left : left[k].name # new.name
    BY <1>1, <1>2, <1>5
<1>7. /\ timer_heap' \in Seq(TimerType) /\ Len(timer_heap') <= Capacity
      /\ Ordered(timer_heap') /\ Distinct(timer_heap')
      /\ \A j \in DOMAIN left : \E k \in DOMAIN timer_heap' : timer_heap'[k] = left[j]
      /\ \E i \in Int : Started(left, new, i)
    BY <1>1, <1>4, <1>5, <1>6, StartTimer DEF TimersInv
<1>8. PICK i \in Int : Started(left, new, i)
    BY <1>7
<1>9. new.id # EV_TIMER_INVALID /\ id[n] = new.id
    BY <1>1, <1>5 DEF Known
<1>10. i = new.id /\ next_timer_id' = next_timer_id
    BY <1>8, <1>9 DEF Started
<1>11. id' = id
    BY <1>1, <1>5, <1>8, <1>9, <1>10 DEF Started, TimersInv, Types
<1>12. [new EXCEPT !.id = i] = new
    BY <1>4, <1>10 DEF TimerType
<1>13. \A k \in DOMAIN timer_heap' :
        timer_heap'[k] = new \/ \E j \in DOMAIN left : timer_heap'[k] = left[j]
    BY <1>8, <1>12 DEF Started
<1>14. Len(left) < Capacity => \E k \in DOMAIN timer_heap' : timer_heap'[k].name = n
    BY <1>5, <1>8 DEF Started
<1> QED
    BY <1>3, <1>5, <1>7, <1>10, <1>11, <1>13, <1>14

LEMMA CallbackDoneKeeps ==
    ASSUME TimersInv, callback_done PROVE TimersInv'
<1>1. PICK timer, n, left, N :
        timer = Top.cur /\ n = timer.name /\ left = Left /\ N = Len(frames)
    OBVIOUS
<1>2. /\ N \in DOMAIN frames /\ Top = frames[N] /\ Top.pc = "callback"
      /\ timer \in TimerType /\ timer.timeout \in Nat /\ n \in Names /\ Known(timer)
      /\ FramesDone /\ ContextDone(n) /\ HeapDone(timer, n, left) /\ PartOfTheHeap(left, n)
      /\ UNCHANGED <<clock, busy, start_time, state, cleared, ops>>
    BY <1>1, CallbackDone
<1>3. PICK freed \in BOOLEAN, times \in Nat :
        context' = [context EXCEPT ![n] = [context[n] EXCEPT !.freed = freed, !.times = times]]
    BY <1>2 DEF ContextDone
<1>4. /\ frames' \in Seq(FrameType) /\ DOMAIN frames' = DOMAIN frames
      /\ frames'[N].pc = "timers"
      /\ frames'[N].now = Top.now /\ frames'[N].origin = Top.origin
      /\ \A i \in DOMAIN frames : i # N => frames'[i] = frames[i]
    BY <1>1, <1>2 DEF FramesDone
<1>5. /\ left \in Seq(TimerType) /\ Len(left) <= Capacity /\ Distinct(left) /\ Ordered(left)
      /\ \A k \in DOMAIN left : \E j \in DOMAIN timer_heap : left[k] = timer_heap[j]
      /\ \A k \in DOMAIN left : left[k].name # n
    BY <1>2 DEF PartOfTheHeap
<1>6. timer.repeat \in Nat
    BY <1>2, <1>4, <1>5, TimerTyped
<1>7. timer.repeat > 0 \/ timer.repeat = 0
    BY <1>6
\* The heap has timers of left, and maybe the one that ran.
<1>8. /\ timer_heap' \in Seq(TimerType) /\ Len(timer_heap') <= Capacity
      /\ Ordered(timer_heap') /\ Distinct(timer_heap')
      /\ UNCHANGED <<next_timer_id, id>>
      /\ \A k \in DOMAIN timer_heap' :
            \/ /\ timer_heap'[k].name = n /\ timer_heap'[k].id = timer.id
               /\ timer_heap'[k].repeat = timer.repeat
               /\ timer_heap'[k].timeout \in Nat
               /\ due'[n] = 0
            \/ \E j \in DOMAIN left : timer_heap'[k] = left[j]
      /\ due' = [due EXCEPT ![n] = 0] \/ due' = due
  <2>1. CASE timer.repeat > 0
    <3>1. due' = [due EXCEPT ![n] = 0]
      <4>1. ~(timer.repeat = 0)
          BY <1>6, <2>1
      <4> QED
          BY <1>2, <1>4, <1>5, <4>1 DEF HeapDone
    <3>2. due'[n] = 0
        BY <1>2, <1>4, <1>5, <3>1 DEF TimersInv, Types
    <3> QED
        BY <1>1, <2>1, <3>1, <3>2, CallbackDoneBack
  <2>2. CASE timer.repeat = 0
    <3>1. ~(timer.repeat > 0)
        BY <2>2
    <3>2. timer_heap' = left /\ UNCHANGED <<next_timer_id, id, due>>
        BY <1>2, <1>4, <1>5, <3>1 DEF HeapDone
    <3> QED
        BY <1>2, <1>4, <1>5, <3>2
  <2> QED
      BY <1>7, <2>1, <2>2
<1>9. /\ \A m \in Names : context'[m].kind = context[m].kind /\ context'[m].repeat = context[m].repeat
      /\ context' \in [Names -> ContextType]
    BY <1>2, <1>4, <1>5, <1>3 DEF TimersInv, Types, ContextType
<1>10. /\ due' \in [Names -> Nat]
       /\ \A m \in Names : m # n => due'[m] = due[m]
  <2>1. due \in [Names -> Nat] /\ n \in Names
      BY <1>2 DEF TimersInv, Types
  <2>2. CASE due' = [due EXCEPT ![n] = 0]
      BY <2>1, <2>2
  <2>3. CASE due' = due
      BY <2>1, <2>3
  <2> QED
      BY <1>8, <2>2, <2>3
<1>11. Types'
    BY <1>2, <1>4, <1>5, <1>8, <1>9, <1>10 DEF TimersInv, Types
<1>12. Numbered'
    BY <1>8, <1>9 DEF TimersInv, Numbered
<1>13. AllKnown'
  <2>1. ASSUME NEW k \in DOMAIN timer_heap' PROVE Known(timer_heap[k])'
    <3>1. CASE timer_heap'[k].name = n /\ timer_heap'[k].id = timer.id
               /\ timer_heap'[k].repeat = timer.repeat
        BY <1>1, <1>2, <1>4, <1>5, <1>8, <1>9, <3>1 DEF Known
    <3>2. CASE \E j \in DOMAIN left : timer_heap'[k] = left[j]
      <4>1. PICK l \in DOMAIN timer_heap : timer_heap'[k] = timer_heap[l]
          BY <1>5, <3>2
      <4>2. Known(timer_heap[l])
          BY DEF TimersInv, AllKnown
      <4> QED
          BY <1>8, <1>9, <4>1, <4>2 DEF Known
    <3> QED
        BY <1>8, <3>1, <3>2
  <2>2. ASSUME NEW i \in DOMAIN frames', frames'[i].pc = "callback" PROVE Known(frames[i].cur)'
    <3>1. i \in DOMAIN frames /\ i # N
        BY <1>4, <2>2
    <3>2. frames'[i] = frames[i] /\ Known(frames[i].cur)
        BY <1>4, <2>2, <3>1 DEF TimersInv, AllKnown
    <3> QED
        BY <1>8, <1>9, <3>2 DEF Known
  <2> QED
      BY <2>1, <2>2 DEF AllKnown
<1>14. \A i \in DOMAIN frames : frames'[i].pc = "callback" =>
            i # N /\ frames'[i] = frames[i] /\ frames[i].cur.name # n
    BY <1>1, <1>2, <1>4, <1>5 DEF TimersInv, Apart
<1>15. Apart'
  <2>1. ASSUME NEW i \in DOMAIN frames, frames'[i].pc = "callback", NEW k \in DOMAIN timer_heap'
        PROVE  timer_heap'[k].name # frames'[i].cur.name
    <3>1. CASE timer_heap'[k].name = n
        BY <1>14, <2>1, <3>1
    <3>2. CASE \E j \in DOMAIN left : timer_heap'[k] = left[j]
        BY <1>2, <1>4, <1>5, <1>14, <2>1, <3>2 DEF TimersInv, Apart
    <3> QED
        BY <1>8, <3>1, <3>2
  <2>2. ASSUME NEW i \in DOMAIN frames, frames'[i].pc = "callback",
               NEW k \in DOMAIN frames, frames'[k].pc = "callback",
               frames'[k].cur.name = frames'[i].cur.name
        PROVE  k = i
      BY <1>14, <2>2 DEF TimersInv, Apart
  <2> QED
      BY <1>2, <1>4, <1>5, <1>8, <2>1, <2>2 DEF Apart
<1>16. InTime'
  <2>1. ASSUME NEW k \in DOMAIN timer_heap'
        PROVE  due'[timer_heap'[k].name] <= timer_heap'[k].timeout + start_time
    <3>1. CASE timer_heap'[k].name = n /\ timer_heap'[k].timeout \in Nat /\ due'[n] = 0
      <4>1. start_time \in Nat
          BY TimersAssumption DEF TimersInv, Types
      <4> QED
          BY <3>1, <4>1
    <3>2. ASSUME NEW j \in DOMAIN left, timer_heap'[k] = left[j]
          PROVE  due'[timer_heap'[k].name] <= timer_heap'[k].timeout + start_time
      <4>1. PICK l \in DOMAIN timer_heap : left[j] = timer_heap[l]
          BY <1>2, <1>4, <1>5
      <4>2. /\ timer_heap[l].name \in Names
            /\ due[timer_heap[l].name] <= timer_heap[l].timeout + start_time
          BY OfTheHeap
      <4> QED
          BY <1>2, <1>4, <1>5, <1>10, <3>2, <4>1, <4>2
    <3> QED
        BY <1>8, <3>1, <3>2
  <2>2. ASSUME NEW i \in DOMAIN frames, frames'[i].pc = "callback", frames'[i].origin = start_time
        PROVE  due'[frames'[i].cur.name] <= clock
      BY <1>10, <1>14, <2>2, OfACallback
  <2>3. ASSUME NEW i \in DOMAIN frames PROVE InStep(frames[i])'
    <3>1. InStep(frames[i])
        BY DEF TimersInv, InTime
    <3>2. frames'[i].now = frames[i].now /\ frames'[i].origin = frames[i].origin
        BY <1>2, <1>4, <1>5
    <3> QED
        BY <1>2, <3>1, <3>2 DEF InStep
  <2> QED
      BY <1>2, <1>4, <1>5, <2>1, <2>2, <2>3 DEF InTime
<1> QED
    BY <1>8, <1>11, <1>12, <1>13, <1>15, <1>16 DEF TimersInv, HeapOrdered

----------------------------------------------------------------------------
LEMMA TimersInit ==
    ASSUME Init PROVE TimersInv
<1>1. Types
    BY TimersAssumption DEF Init, Types, NoContext, ContextType, EV_TIMER_INVALID
<1>2. HeapOrdered
    BY DEF Init, HeapOrdered, Ordered
<1>3. Numbered
    BY DEF Init, Numbered, NoContext
<1>4. AllKnown /\ Apart
    BY DEF Init, AllKnown, Apart, Distinct
<1>5. InTime
    BY DEF Init, InTime
<1> QED
    BY <1>1, <1>2, <1>3, <1>4, <1>5 DEF TimersInv

LEMMA TimersStep ==
    ASSUME TimersInv, [Next]_vars PROVE TimersInv'
<1>1. ASSUME NEW n \in Names, NEW d \in Delays, aio_sleep(n, d) PROVE TimersInv'
  <2>1. Context("sleep", 0, 0) \in ContextType /\ Context("sleep", 0, 0).kind = "sleep"
        /\ Context("sleep", 0, 0).repeat = 0
      BY DEF Context, ContextType
  <2> QED
      BY <1>1, <2>1, CreateKeeps DEF aio_sleep
<1>2. ASSUME NEW n \in Names, NEW d \in Delays, NEW times \in {0, 1}, aio_set_interval(n, d, times)
      PROVE  TimersInv'
  <2>1. Context("interval", d, times) \in ContextType /\ Context("interval", d, times).kind = "interval"
        /\ Context("interval", d, times).repeat = d
      BY TimersAssumption DEF Context, ContextType
  <2> QED
      BY <1>2, <2>1, CreateKeeps DEF aio_set_interval
<1>3. ASSUME NEW n \in Names, NEW d \in Delays, NEW repeat \in {0, d}, c_timer(n, d, repeat)
      PROVE  TimersInv'
  <2>1. Context("c", repeat, 0) \in ContextType /\ Context("c", repeat, 0).kind = "c"
        /\ Context("c", repeat, 0).repeat = repeat
      BY TimersAssumption DEF Context, ContextType
  <2> QED
      BY <1>3, <2>1, CreateKeeps DEF c_timer
<1>4. CASE Program
    BY <1>1, <1>2, <1>3, <1>4, AgainKeeps, StopByIdKeeps, StopKeeps, RunKeeps, AwaitKeeps DEF Program
<1>5. CASE Iterate
    BY <1>5, TasksDoneKeeps, FireKeeps, CallbackDoneKeeps, PollKeeps, PollDoneKeeps DEF Iterate
<1>6. CASE Tick
    BY <1>6, TickKeeps
<1>7. CASE UNCHANGED vars
    BY <1>7 DEF vars, TimersInv, Types, HeapOrdered, Numbered, AllKnown, Known, Apart, InTime, InStep
<1> QED
    BY <1>4, <1>5, <1>6, <1>7 DEF Next

----------------------------------------------------------------------------
(***************************************************************************)
(* Periodic timers go on, if the heap has a place for each timer.          *)
(***************************************************************************)
LEMMA Room ==
    ASSUME IsFiniteSet(Names), Cardinality(Names) <= Capacity,
           NEW h \in Seq(TimerType), Distinct(h), \A j \in DOMAIN h : h[j].name \in Names,
           NEW n \in Names, \A j \in DOMAIN h : h[j].name # n
    PROVE  Len(h) < Capacity
<1>1. PICK L, T, f : L = Len(h) /\ T = Names \ {n} /\ f = [j \in 1 .. L |-> h[j].name]
    OBVIOUS
<1>2. L \in Nat /\ DOMAIN h = 1 .. L
    BY <1>1
<1>3. f \in [1 .. L -> T] /\ \A j, k \in 1 .. L : f[j] = f[k] => j = k
    BY <1>1, <1>2 DEF Distinct
<1>4. f \in Injection(1 .. L, T)
    BY <1>3 DEF Injection, IsInjective
<1>5. IsFiniteSet(T) /\ Cardinality(T) = Cardinality(Names) - 1
    BY <1>1, FS_RemoveElement
<1>6. Cardinality(1 .. L) <= Cardinality(T)
    BY <1>4, <1>5, FS_Injection
<1>7. Cardinality(1 .. L) = L
    BY <1>2, FS_Interval
<1>8. Cardinality(Names) \in Nat /\ Capacity \in Nat
    BY FS_CardinalityType, TimersAssumption
<1> QED
    BY <1>1, <1>2, <1>5, <1>6, <1>7, <1>8

LEMMA CallbacksGoOn ==
    ASSUME PeriodicGoesOn, UNCHANGED <<timer_heap, context, cleared>>,
           \A i \in DOMAIN frames : frames[i].pc = "callback" =>
                /\ i \in DOMAIN frames'
                /\ frames'[i].pc = "callback" /\ frames'[i].cur = frames[i].cur
    PROVE  PeriodicGoesOn'
BY DEF PeriodicGoesOn

LEMMA NoCallbackAtTheTop ==
    ASSUME TimersInv, PeriodicGoesOn, tasks_done \/ poll \/ poll_done PROVE PeriodicGoesOn'
<1>1. PICK N : N = Len(frames)
    OBVIOUS
<1>2. frames # <<>> /\ Top.pc # "callback"
    BY DEF tasks_done, poll, poll_done, InLoop
<1>3. DOMAIN frames = 1 .. N /\ N \in DOMAIN frames /\ Top = frames[N] /\ frames \in Seq(FrameType)
    BY <1>1, <1>2, TopIs DEF TimersInv, Types
<1>4. N \in Nat \ {0}
    BY <1>1, <1>3
<1>5. \A i \in DOMAIN frames : frames[i].pc = "callback" => i \in 1 .. N - 1
  <2>1. \A i \in DOMAIN frames : i = N \/ i \in 1 .. N - 1
      BY <1>3, <1>4
  <2> QED
      BY <1>2, <1>3, <2>1
<1>6. \A i \in 1 .. N - 1 : i \in DOMAIN frames' /\ frames'[i] = frames[i]
  <2>1. CASE tasks_done \/ poll
    <3>1. /\ DOMAIN frames' = DOMAIN frames
          /\ \A i \in DOMAIN frames : i # N => frames'[i] = frames[i]
        BY <1>1, <2>1 DEF tasks_done, Goto, poll
    <3>2. \A i \in 1 .. N - 1 : i \in DOMAIN frames /\ i # N
        BY <1>3, <1>4
    <3> QED
        BY <3>1, <3>2
  <2>2. CASE poll_done
    <3>1. PICK f, g : f = Frame("run") /\ g = Front(frames)
        OBVIOUS
    <3>2. f \in FrameType /\ (frames' = Append(g, f) \/ frames' = g)
        BY <2>2, <3>1, NewFrame DEF poll_done, TimersInv
    <3>3. /\ g \in Seq(FrameType) /\ Len(g) = N - 1 /\ DOMAIN g = 1 .. N - 1
          /\ \A i \in 1 .. N - 1 : g[i] = frames[i]
        BY <1>1, <1>3, <1>4, <3>1 DEF Front
    <3>4. CASE frames' = g
        BY <3>3, <3>4
    <3>5. CASE frames' = Append(g, f)
      <4>1. /\ Len(frames') = Len(g) + 1 /\ frames' \in Seq(FrameType)
            /\ \A i \in 1 .. Len(g) : frames'[i] = g[i]
          BY <3>2, <3>3, <3>5, Appended
      <4>2. DOMAIN frames' = 1 .. N
          BY <1>4, <3>3, <4>1
      <4>3. \A i \in 1 .. N - 1 : i \in 1 .. N
          BY <1>4
      <4> QED
          BY <3>3, <4>1, <4>2, <4>3
    <3> QED
        BY <3>2, <3>4, <3>5
  <2> QED
      BY <2>1, <2>2
<1> QED
    BY <1>5, <1>6, CallbacksGoOn DEF tasks_done, poll, poll_done

LEMMA CreateGoesOn ==
    ASSUME IsFiniteSet(Names), Cardinality(Names) <= Capacity,
           TimersInv, PeriodicGoesOn,
           NEW n \in Names, NEW d \in Delays, NEW ctx \in ContextType, NEW i \in Int,
           ctx.repeat \in Delays \cup {0}, create(n, d, ctx, i)
    PROVE  PeriodicGoesOn'
<1>1. /\ timer_heap \in Seq(TimerType) /\ Len(timer_heap) <= Capacity
      /\ Distinct(timer_heap) /\ Ordered(timer_heap)
    BY DEF TimersInv, Types, Apart, HeapOrdered
<1>2. PICK timer : timer = Timer(n, i, now + d, ctx.repeat)
    OBVIOUS
<1>3. timer \in TimerType /\ timer.name = n
  <2>1. d \in Nat /\ now \in Nat
      BY NewFrame, TimersAssumption DEF TimersInv
  <2>2. now + d \in Nat
      BY <2>1
  <2> QED
      BY <1>2, <2>2 DEF Timer, TimerType
<1>4. \A j \in DOMAIN timer_heap : timer_heap[j].name # n /\ timer_heap[j].name \in Names
    BY DEF create, TimersInv, AllKnown, Known
<1>5. ev_timer_start(timer_heap, timer)
    BY <1>2 DEF create
<1>6. /\ \A j \in DOMAIN timer_heap : \E k \in DOMAIN timer_heap' : timer_heap'[k] = timer_heap[j]
      /\ \E v \in Int : Started(timer_heap, timer, v)
    BY <1>1, <1>3, <1>4, <1>5, StartTimer DEF TimersInv
<1>7. Len(timer_heap) < Capacity
    BY <1>1, <1>4, Room
<1>8. \E k \in DOMAIN timer_heap' : timer_heap'[k].name = n
    BY <1>3, <1>6, <1>7 DEF Started
<1>9. \A m \in Names : m # n => context'[m] = context[m]
    BY DEF create, TimersInv, Types
<1>10. UNCHANGED <<frames, cleared>>
    BY DEF create
<1> QED
    BY <1>6, <1>8, <1>9, <1>10 DEF PeriodicGoesOn

LEMMA StopByIdGoesOn ==
    ASSUME TimersInv, PeriodicGoesOn, NEW n \in Names, ev_timer_stop_by_id(n) PROVE PeriodicGoesOn'
<1>1. timer_heap \in Seq(TimerType) /\ Distinct(timer_heap)
    BY DEF TimersInv, Types, Apart
<1>2. \A j \in DOMAIN timer_heap : timer_heap[j].id # id[n] =>
        \E k \in DOMAIN timer_heap' : timer_heap'[k] = timer_heap[j]
    BY <1>1, StoppedTimer DEF ev_timer_stop_by_id
<1>3. UNCHANGED <<frames, context>> /\ cleared' = cleared \cup {n} /\ context[n].kind \in {"interval", "c"}
    BY DEF ev_timer_stop_by_id
<1>4. ASSUME NEW j \in DOMAIN timer_heap, context[timer_heap[j].name].kind = "c",
             timer_heap[j].name # n
      PROVE  timer_heap[j].id # id[n]
  <2>1. PICK m : m = timer_heap[j].name
      OBVIOUS
  <2>2. m \in Names /\ timer_heap[j].id = id[m] /\ id[m] # EV_TIMER_INVALID
      BY <2>1, OfTheHeap DEF Known
  <2>3. id[m] \in 1 .. next_timer_id - 1
      BY <1>4, <2>1, <2>2 DEF TimersInv, Numbered
  <2>4. id[m] # 0
      BY <2>3
  <2>5. CASE context[n].kind = "interval"
    <3>1. id[n] = 0
        BY <2>5 DEF TimersInv, Numbered
    <3> QED
        BY <2>2, <2>4, <3>1
  <2>6. CASE context[n].kind = "c"
      BY <1>4, <2>1, <2>2, <2>6 DEF TimersInv, Numbered
  <2> QED
      BY <1>3, <2>5, <2>6
<1> QED
    BY <1>2, <1>3, <1>4 DEF PeriodicGoesOn

LEMMA FireGoesOn ==
    ASSUME TimersInv, PeriodicGoesOn, fire PROVE PeriodicGoesOn'
<1>1. PICK first, N : first = timer_heap[1] /\ N = Len(frames)
    OBVIOUS
<1>2. /\ timer_heap # <<>> /\ frames # <<>> /\ timer_heap' = Pop(timer_heap) /\ Top.pc # "callback"
      /\ frames' = [frames EXCEPT ![N].pc = "callback", ![N].cur = first]
      /\ UNCHANGED <<context, cleared>>
    BY <1>1 DEF fire, InLoop
<1>3. timer_heap \in Seq(TimerType) /\ Distinct(timer_heap)
    BY DEF TimersInv, Types, Apart
<1>4. 1 \in DOMAIN timer_heap /\ Lacks(timer_heap', timer_heap, 1)
    BY <1>2, <1>3, PopTimer
<1>5. \A j \in DOMAIN timer_heap : j # 1 => \E k \in DOMAIN timer_heap' : timer_heap'[k] = timer_heap[j]
    BY <1>4 DEF Lacks
<1>6. N \in DOMAIN frames /\ Top = frames[N] /\ frames[N] \in FrameType
    BY <1>1, <1>2, TopIs DEF TimersInv
<1>7. /\ DOMAIN frames' = DOMAIN frames
      /\ frames'[N].pc = "callback" /\ frames'[N].cur = first
      /\ \A i \in DOMAIN frames : i # N => frames'[i] = frames[i]
    BY <1>2, <1>6 DEF FrameType
<1>8. SUFFICES ASSUME NEW n \in Names,
                      \/ \E j \in DOMAIN timer_heap : timer_heap[j].name = n
                      \/ \E i \in DOMAIN frames : frames[i].pc = "callback" /\ frames[i].cur.name = n
               PROVE  \/ \E j \in DOMAIN timer_heap' : timer_heap'[j].name = n
                      \/ \E i \in DOMAIN frames' : frames'[i].pc = "callback" /\ frames'[i].cur.name = n
    BY <1>2 DEF PeriodicGoesOn
<1>9. ASSUME NEW j \in DOMAIN timer_heap, timer_heap[j].name = n
      PROVE  \/ \E k \in DOMAIN timer_heap' : timer_heap'[k].name = n
             \/ \E i \in DOMAIN frames' : frames'[i].pc = "callback" /\ frames'[i].cur.name = n
  <2>1. CASE j = 1
      BY <1>1, <1>6, <1>7, <1>9, <2>1
  <2>2. CASE j # 1
      BY <1>5, <1>9, <2>2
  <2> QED
      BY <2>1, <2>2
<1>10. ASSUME NEW i \in DOMAIN frames, frames[i].pc = "callback", frames[i].cur.name = n
       PROVE  i \in DOMAIN frames' /\ frames'[i].pc = "callback" /\ frames'[i].cur.name = n
    BY <1>2, <1>6, <1>7, <1>10
<1> QED
    BY <1>8, <1>9, <1>10

LEMMA CallbackDoneGoesOn ==
    ASSUME IsFiniteSet(Names), Cardinality(Names) <= Capacity,
           TimersInv, PeriodicGoesOn, callback_done
    PROVE  PeriodicGoesOn'
<1>1. PICK timer, n, left, N :
        timer = Top.cur /\ n = timer.name /\ left = Left /\ N = Len(frames)
    OBVIOUS
<1>2. /\ N \in DOMAIN frames /\ Top = frames[N]
      /\ timer \in TimerType /\ n \in Names /\ Known(timer)
      /\ FramesDone /\ ContextDone(n) /\ HeapDone(timer, n, left) /\ PartOfTheHeap(left, n)
      /\ cleared' = cleared
    BY <1>1, CallbackDone
<1>3. /\ DOMAIN frames' = DOMAIN frames
      /\ \A i \in DOMAIN frames : i # N => frames'[i] = frames[i]
    BY <1>1, <1>2 DEF FramesDone
<1>4. \A m \in Names : context'[m].kind = context[m].kind /\ context'[m].repeat = context[m].repeat
  <2>1. PICK freed \in BOOLEAN, times \in Nat :
            context' = [context EXCEPT ![n] = [context[n] EXCEPT !.freed = freed, !.times = times]]
      BY <1>2 DEF ContextDone
  <2> QED
      BY <1>2, <2>1 DEF TimersInv, Types, ContextType
<1>5. timer.repeat \in Nat /\ timer.repeat = context[n].repeat
    BY <1>1, <1>2, TimerTyped DEF Known
\* What was left of the heap is in it still.
<1>6. \A j \in DOMAIN left : \E k \in DOMAIN timer_heap' : timer_heap'[k] = left[j]
  <2>1. CASE timer.repeat > 0
      BY <1>1, <2>1, CallbackDoneBack
  <2>2. CASE timer.repeat = 0
    <3>1. ~(timer.repeat > 0)
        BY <2>2
    <3> QED
        BY <1>2, <3>1 DEF HeapDone
  <2> QED
      BY <1>5, <2>1, <2>2
\* A last run of an interval stops no timer of the C interface.
<1>7. ASSUME NEW j \in DOMAIN timer_heap, context[timer_heap[j].name].kind = "c"
      PROVE  \E k \in DOMAIN left : left[k] = timer_heap[j]
  <2>1. CASE left = timer_heap
      BY <2>1
  <2>2. CASE context[n].kind = "interval" /\ left = Stopped(timer_heap, timer.id)
    <3>1. timer.id = 0
        BY <1>1, <1>2, <2>2 DEF Known, TimersInv, Numbered
    <3>2. PICK m : m = timer_heap[j].name
        OBVIOUS
    <3>3. m \in Names /\ timer_heap[j].id = id[m] /\ id[m] # EV_TIMER_INVALID
        BY <3>2, OfTheHeap DEF Known
    <3>4. id[m] \in 1 .. next_timer_id - 1
        BY <1>7, <3>2, <3>3 DEF TimersInv, Numbered
    <3>5. timer_heap[j].id # timer.id
        BY <3>1, <3>3, <3>4
    <3>6. timer_heap \in Seq(TimerType) /\ Distinct(timer_heap)
        BY DEF TimersInv, Types, Apart
    <3> QED
        BY <2>2, <3>5, <3>6, StoppedTimer
  <2> QED
      BY <1>1, <2>1, <2>2 DEF Left
\* The timer itself has its place.
<1>8. ASSUME timer.repeat > 0 PROVE \E k \in DOMAIN timer_heap' : timer_heap'[k].name = n
  <2>1. left \in Seq(TimerType) /\ Distinct(left) /\ \A j \in DOMAIN left : left[j].name # n
      BY <1>2 DEF PartOfTheHeap
  <2>2. \A j \in DOMAIN left : left[j].name \in Names
      BY <1>2 DEF PartOfTheHeap, TimersInv, AllKnown, Known
  <2>3. Len(left) < Capacity
      BY <1>2, <2>1, <2>2, Room
  <2> QED
      BY <1>1, <1>8, <2>3, CallbackDoneBack
<1>9. SUFFICES ASSUME NEW m \in Names, context[m].kind = "c", context[m].repeat > 0,
                      \/ \E j \in DOMAIN timer_heap : timer_heap[j].name = m
                      \/ \E i \in DOMAIN frames : frames[i].pc = "callback" /\ frames[i].cur.name = m
               PROVE  \/ \E j \in DOMAIN timer_heap' : timer_heap'[j].name = m
                      \/ \E i \in DOMAIN frames' : frames'[i].pc = "callback" /\ frames'[i].cur.name = m
    BY <1>2, <1>4 DEF PeriodicGoesOn
<1>10. CASE m = n
    BY <1>5, <1>8, <1>9, <1>10
<1>11. ASSUME m # n, NEW i \in DOMAIN frames, frames[i].pc = "callback", frames[i].cur.name = m
       PROVE  i \in DOMAIN frames' /\ frames'[i].pc = "callback" /\ frames'[i].cur.name = m
  <2>1. i # N
      BY <1>1, <1>2, <1>11
  <2> QED
      BY <1>3, <1>11, <2>1
<1>12. ASSUME NEW j \in DOMAIN timer_heap, timer_heap[j].name = m
       PROVE  \E k \in DOMAIN timer_heap' : timer_heap'[k].name = m
    BY <1>6, <1>7, <1>9, <1>12
<1> QED
    BY <1>9, <1>10, <1>11, <1>12

LEMMA PeriodicStep ==
    ASSUME IsFiniteSet(Names), Cardinality(Names) <= Capacity,
           TimersInv, PeriodicGoesOn, [Next]_vars
    PROVE  PeriodicGoesOn'
<1>1. ASSUME NEW n \in Names, NEW d \in Delays, aio_sleep(n, d) PROVE PeriodicGoesOn'
  <2>1. Context("sleep", 0, 0) \in ContextType /\ Context("sleep", 0, 0).repeat = 0
      BY DEF Context, ContextType
  <2> QED
      BY <1>1, <2>1, CreateGoesOn DEF aio_sleep
<1>2. ASSUME NEW n \in Names, NEW d \in Delays, NEW times \in {0, 1}, aio_set_interval(n, d, times)
      PROVE  PeriodicGoesOn'
  <2>1. Context("interval", d, times) \in ContextType /\ Context("interval", d, times).repeat = d
      BY TimersAssumption DEF Context, ContextType
  <2> QED
      BY <1>2, <2>1, CreateGoesOn DEF aio_set_interval
<1>3. ASSUME NEW n \in Names, NEW d \in Delays, NEW repeat \in {0, d}, c_timer(n, d, repeat)
      PROVE  PeriodicGoesOn'
  <2>1. Context("c", repeat, 0) \in ContextType /\ Context("c", repeat, 0).repeat = repeat
      BY TimersAssumption DEF Context, ContextType
  <2>2. EV_TIMER_INVALID \in Int
      BY DEF EV_TIMER_INVALID
  <2> QED
      BY <1>3, <2>1, <2>2, CreateGoesOn DEF c_timer
<1>4. ASSUME NEW n \in Names, NEW d \in Delays, ev_timer_again(n, d) PROVE PeriodicGoesOn'
  <2>1. PICK f : f = Find(timer_heap, id[n]) /\ f \in DOMAIN timer_heap
      BY FindFinds, <1>4 DEF ev_timer_again, TimersInv, Types
  <2>2. PICK t : t = now + d /\ t \in Nat
    <3>1. d \in Nat /\ now \in Nat
        BY NewFrame, TimersAssumption DEF TimersInv
    <3> QED
        BY <3>1
  <2>3. PICK h, e, new : h = timer_heap /\ e = timer_heap' /\ new = [h[f] EXCEPT !.timeout = t]
      OBVIOUS
  <2>4. e = Retime(h, f, t) /\ h \in Seq(TimerType) /\ Distinct(h) /\ f \in DOMAIN h
      BY <1>4, <2>1, <2>2, <2>3 DEF ev_timer_again, TimersInv, Types, Apart
  <2>5. \A j \in DOMAIN h : \E k \in DOMAIN e : e[k].name = h[j].name
    <3>1. t \in Nat /\ new = [h[f] EXCEPT !.timeout = t]
        BY <2>2, <2>3
    <3>2. NamesStay(h, e)
        BY <2>4, <3>1, RetimeTimer
    <3> QED
        BY <3>2 DEF NamesStay
  <2>6. UNCHANGED <<frames, context, cleared>>
      BY <1>4 DEF ev_timer_again
  <2> QED
      BY <2>3, <2>5, <2>6 DEF PeriodicGoesOn
<1>5. CASE ev_loop_stop \/ Tick \/ UNCHANGED vars
  <2>1. UNCHANGED <<timer_heap, context, cleared, frames>>
      BY <1>5 DEF ev_loop_stop, Tick, vars
  <2> QED
      BY <2>1, CallbacksGoOn
<1>6. CASE await_sync \/ ev_loop_run
  <2>1. PICK f, g : f = Frame("await") /\ g = [Frame("run") EXCEPT !.now = 0, !.origin = clock]
      OBVIOUS
  <2>2. /\ frames' = Append(frames, f) \/ frames' = Append(frames, g)
        /\ frames \in Seq(FrameType) /\ f \in FrameType /\ g \in FrameType
      BY <1>6, <2>1, NewFrame DEF await_sync, ev_loop_run, TimersInv, Types
  <2>3. \A i \in DOMAIN frames : i \in DOMAIN frames' /\ frames'[i] = frames[i]
      BY <2>2
  <2> QED
      BY <1>6, <2>3, CallbacksGoOn DEF await_sync, ev_loop_run
<1> QED
    BY <1>1, <1>2, <1>3, <1>4, <1>5, <1>6, StopByIdGoesOn, NoCallbackAtTheTop, FireGoesOn,
       CallbackDoneGoesOn DEF Next, Program, Iterate

----------------------------------------------------------------------------
(***************************************************************************)
(* Theorems.                                                               *)
(***************************************************************************)
\* What the loop holds are timers in the state their creators and the loop gave
\* them, each once; none comes too early in an iteration of the last start (leventloop.c, laio.c).
THEOREM TimersInvariant == Spec => []TimersInv
<1>1. Init => TimersInv
    BY TimersInit
<1>2. TimersInv /\ [Next]_vars => TimersInv'
    BY TimersStep
<1> QED
    BY <1>1, <1>2, PTL DEF Spec

\* The types, and each timer is in the heap at most once.
THEOREM TimersTypeOK == Spec => []TypeOK
<1>1. TimersInv => TypeOK
  <2> SUFFICES ASSUME TimersInv PROVE TypeOK
      OBVIOUS
  <2>1. next_timer_id \in Nat
      BY DEF TimersInv, Types
  <2>2. \A i, j \in DOMAIN timer_heap : timer_heap[i].name = timer_heap[j].name => i = j
      BY DEF TimersInv, Apart, Distinct
  <2> QED
      BY <2>1, <2>2 DEF TimersInv, Types, TypeOK, FrameType, ContextType
<1> QED
    BY <1>1, TimersInvariant, PTL

\* timer_heap[0] is the timer to run next, whatever is done to the timers inside
\* the callback of another one.
THEOREM TimersHeapOrdered == Spec => []HeapOrdered
<1>1. TimersInv => HeapOrdered
    BY DEF TimersInv
<1> QED
    BY <1>1, TimersInvariant, PTL

\* A delay is cut short by another start of the loop only under the iterations
\* that made it (ev_loop_run moves start_time, ev_loop_iterate keeps its now).
THEOREM TimersNeverEarly == Spec => []NeverEarly
<1>1. TimersInv => NeverEarly
  <2> SUFFICES ASSUME TimersInv, NEW i \in DOMAIN frames, Early(frames[i])
               PROVE  frames[i].origin < start_time
      BY DEF NeverEarly
  <2>1. frames[i].pc = "callback" /\ due[frames[i].cur.name] > clock
      BY DEF Early
  <2>2. frames[i].origin <= start_time /\ frames[i].origin \in Nat
    <3>1. frames[i] \in FrameType /\ InStep(frames[i])
        BY DEF TimersInv, Types, InTime
    <3> QED
        BY <3>1, FrameTyped DEF InStep
  <2>3. due[frames[i].cur.name] \in Nat /\ clock \in Nat /\ start_time \in Nat
      BY <2>1, OfACallback, TimersAssumption DEF TimersInv, Types
  <2>4. frames[i].origin # start_time
      BY <2>1, <2>3 DEF TimersInv, InTime
  <2> QED
      BY <2>2, <2>3, <2>4
<1> QED
    BY <1>1, TimersInvariant, PTL

\* A periodic timer nobody stopped goes on, as long as the heap has a place for
\* every timer: ev_timer_start does nothing when it is full.
THEOREM TimersPeriodicGoesOn ==
    ASSUME IsFiniteSet(Names), Cardinality(Names) <= Capacity
    PROVE  Spec => []PeriodicGoesOn
<1>1. Init => PeriodicGoesOn
    BY DEF Init, PeriodicGoesOn, NoContext
<1>2. TimersInv /\ PeriodicGoesOn /\ [Next]_vars => PeriodicGoesOn'
    BY PeriodicStep
<1> QED
    BY <1>1, <1>2, TimersInvariant, PTL DEF Spec
=============================================================================
