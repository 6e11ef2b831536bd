-------------------------- MODULE TableLockProofs --------------------------
(***************************************************************************)
(* Theorems about TableLock, for every set of threads and of values, every *)
(* array and every number of operations, for programs that keep to what a  *)
(* shared table bears (Allowed = {}).                                      *)
(***************************************************************************)
EXTENDS TableLock, SequenceTheorems, TLAPS

----------------------------------------------------------------------------
(***************************************************************************)
(* The inductive invariant. A call of the table library is known by its    *)
(* frame; while it moves elements, the array is what the writer found      *)
(* (before) with some of the elements at their new place.                  *)
(***************************************************************************)
PlacesOutside == {"vm", "out", "want", "access", "adding"}
PlacesInside == {"locktable", "getn", "moves", "moved", "want", "access", "unlocktable"}
Elements == Values \cup {NoValue}
Frames == [fn : {"none", "insert", "remove"}, arg : Nat, pos : Nat, i : Nat, v : Elements]
Requests == [kind : {"none", "get", "set"}, i : Nat, v : Elements]

Types ==
    /\ shared \in BOOLEAN /\ writer \in Threads \cup {NoThread} /\ level \in Nat
    /\ array \in Seq(Values) /\ before \in Seq(Values) /\ fresh \subseteq Values
    /\ pc \in [Threads -> PCs] /\ then \in [Threads -> PCs]
    /\ request \in [Threads -> Requests] /\ frame \in [Threads -> Frames]
    /\ top \in [Threads -> Elements] /\ ops \in [Threads -> Nat]

\* A table that is not shared has one user and no locks.
OneUser ==
    ~shared => /\ writer = NoThread
               /\ \A t, u \in Threads : ops[t] > 0 /\ ops[u] > 0 => t = u

Locks == LockReturned /\ (writer = NoThread => level = 0)

Asking(t) == pc[t] \in {"want", "access"}

\* A thread in no call of the table library, and what it asks for.
Outside(t) ==
    /\ frame[t] = NoFrame
    /\ pc[t] \in PlacesOutside
    /\ pc[t] \in {"want", "access", "adding"} =>
        /\ ops[t] > 0
        /\ then[t] \in {"vm", "out"}
        /\ request[t].kind \in {"get", "set"} /\ request[t].i \in 0 .. MaxLen
        /\ request[t].kind = "set" => request[t].v \in Values
    /\ pc[t] = "adding" => then[t] = "vm" /\ request[t].kind = "set"

Inside(t) ==
    /\ ops[t] > 0
    /\ pc[t] \in PlacesInside
    /\ Asking(t) => then[t] \in {"moves", "moved", "unlocktable"}
    /\ frame[t].arg \in 0 .. MaxLen
    /\ frame[t].fn = "insert" => frame[t].v \in Values
    /\ pc[t] \in {"locktable", "getn"} /\ frame[t].fn = "remove" => frame[t].v = NoValue
    /\ pc[t] = "getn" => array = before

\* The elements above i have moved up by one; the place i + 1 has still to be
\* made if i is the last one.
MovedUp(i) ==
    /\ Len(array) = IF i = Len(before) + 1 THEN Len(before) ELSE Len(before) + 1
    /\ \A k \in 1 .. Len(array) : array[k] = IF k <= i THEN before[k] ELSE before[k - 1]

Inserting(t) ==
    LET f == frame[t]
        r == request[t]
        n == Len(before)
    IN  /\ pc[t] \in {"moves", "moved", "want", "access"} =>
            f.pos \in 1 .. n + 1 /\ f.i \in f.pos .. n + 1
        /\ pc[t] = "moves" => MovedUp(f.i)
        /\ pc[t] = "moved" => f.i > f.pos /\ MovedUp(f.i) /\ top[t] = before[f.i - 1]
        /\ Asking(t) /\ then[t] = "moved" =>
            f.i > f.pos /\ MovedUp(f.i) /\ r.kind = "get" /\ r.i = f.i - 1
        /\ Asking(t) /\ then[t] = "moves" =>
            f.i <= n /\ MovedUp(f.i + 1) /\ r.kind = "set" /\ r.i = f.i + 1 /\ r.v = before[f.i]
        /\ Asking(t) /\ then[t] = "unlocktable" =>
            f.i = f.pos /\ MovedUp(f.i) /\ r.kind = "set" /\ r.i = f.pos /\ r.v = f.v
        /\ pc[t] = "unlocktable" =>
            \/ array = before
            \/ f.pos \in 1 .. n + 1 /\ array = InsertAt(before, f.pos, f.v)

Was(i) == IF i \in DOMAIN before THEN before[i] ELSE NoValue

\* The elements from pos up to i have been overwritten by their neighbours.
MovedDown(pos, i) ==
    /\ Len(array) = Len(before)
    /\ \A k \in 1 .. Len(array) : array[k] = IF pos <= k /\ k < i THEN before[k + 1] ELSE before[k]

Removing(t) ==
    LET f == frame[t]
        r == request[t]
        n == Len(before)
    IN  /\ pc[t] \in {"moves", "moved", "want", "access"} =>
            /\ f.pos = IF f.arg = 0 THEN n ELSE f.arg
            /\ f.pos <= n + 1
            /\ f.i >= f.pos /\ (f.i <= n \/ f.i = f.pos)
        /\ pc[t] = "moves" =>
            /\ MovedDown(f.pos, f.i)
            /\ IF f.v = NoValue THEN top[t] = Was(f.pos) ELSE f.v = Was(f.pos)
        /\ pc[t] = "moved" =>
            f.i < n /\ MovedDown(f.pos, f.i) /\ f.v = Was(f.pos) /\ top[t] = before[f.i + 1]
        /\ Asking(t) /\ then[t] = "moved" =>
            /\ f.i < n /\ MovedDown(f.pos, f.i) /\ f.v = Was(f.pos)
            /\ r.kind = "get" /\ r.i = f.i + 1
        /\ Asking(t) /\ then[t] = "moves" =>
            \/ /\ f.i = f.pos /\ MovedDown(f.pos, f.i) /\ f.v = NoValue
               /\ r.kind = "get" /\ r.i = f.pos
            \/ /\ f.i > f.pos /\ MovedDown(f.pos, f.i - 1) /\ f.v = Was(f.pos)
               /\ r.kind = "set" /\ r.i = f.i - 1 /\ r.v = before[f.i]
        /\ Asking(t) /\ then[t] = "unlocktable" =>
            /\ f.i >= n /\ MovedDown(f.pos, f.i) /\ f.v = Was(f.pos)
            /\ r.kind = "set" /\ r.i = f.i /\ r.v = NoValue
        /\ pc[t] = "unlocktable" => array = before \/ Len(array) < Len(before)

Called(t) ==
    /\ frame[t].fn = "none" => Outside(t)
    /\ frame[t].fn # "none" => Inside(t)
    /\ t \in Moving /\ frame[t].fn = "insert" => Inserting(t)
    /\ t \in Moving /\ frame[t].fn = "remove" => Removing(t)

IInv == Types /\ OneUser /\ Locks /\ \A t \in Threads : Called(t)

----------------------------------------------------------------------------
(***************************************************************************)
(* Lemmas about sequences.                                                 *)
(***************************************************************************)
LEMMA InsertAtElements ==
    ASSUME NEW S, NEW s \in Seq(S), NEW i \in 1 .. Len(s) + 1, NEW e \in S
    PROVE  /\ InsertAt(s, i, e) \in Seq(S)
           /\ Len(InsertAt(s, i, e)) = Len(s) + 1
           /\ \A k \in 1 .. Len(s) + 1 :
                InsertAt(s, i, e)[k] = IF k < i THEN s[k] ELSE IF k = i THEN e ELSE s[k - 1]
<1> DEFINE left == SubSeq(s, 1, i - 1)
           right == SubSeq(s, i, Len(s))
           mid == left \o <<e>>
<1>1. Len(s) \in Nat /\ i \in Int /\ Len(s) \in Int /\ i - 1 \in Int
    OBVIOUS
<1>2. left \in Seq(S) /\ Len(left) = i - 1 /\ \A k \in 1 .. i - 1 : left[k] = s[k]
    <2>1. \A k \in 1 .. i - 1 : s[k] \in S
        BY <1>1
    <2>2. /\ left \in Seq(S)
          /\ Len(left) = IF 1 <= i - 1 THEN (i - 1) - 1 + 1 ELSE 0
          /\ \A k \in 1 .. (i - 1) - 1 + 1 : left[k] = s[1 + k - 1]
        BY <1>1, <2>1, SubSeqProperties
    <2> QED
        BY <1>1, <2>2
<1>3. /\ right \in Seq(S) /\ Len(right) = Len(s) - i + 1
      /\ \A k \in 1 .. Len(s) - i + 1 : right[k] = s[i + k - 1]
    <2>1. \A k \in i .. Len(s) : s[k] \in S
        BY <1>1
    <2>2. /\ right \in Seq(S)
          /\ Len(right) = IF i <= Len(s) THEN Len(s) - i + 1 ELSE 0
          /\ \A k \in 1 .. Len(s) - i + 1 : right[k] = s[i + k - 1]
        BY <1>1, <2>1, SubSeqProperties
    <2> QED
        BY <1>1, <2>2
<1> HIDE DEF left, right
<1>4. <<e>> \in Seq(S) /\ Len(<<e>>) = 1 /\ <<e>>[1] = e
    OBVIOUS
<1>5. /\ mid \in Seq(S) /\ Len(mid) = i
      /\ \A k \in 1 .. i : mid[k] = IF k <= i - 1 THEN left[k] ELSE <<e>>[k - (i - 1)]
    BY <1>1, <1>2, <1>4, ConcatProperties
<1>6. \A k \in 1 .. i : mid[k] = IF k < i THEN s[k] ELSE e
    BY <1>1, <1>2, <1>4, <1>5
<1> HIDE DEF mid
<1>7. /\ mid \o right \in Seq(S) /\ Len(mid \o right) = i + (Len(s) - i + 1)
      /\ \A k \in 1 .. i + (Len(s) - i + 1) :
            (mid \o right)[k] = IF k <= i THEN mid[k] ELSE right[k - i]
    <2>1. /\ mid \o right \in Seq(S) /\ Len(mid \o right) = Len(mid) + Len(right)
          /\ \A k \in 1 .. Len(mid) + Len(right) :
                (mid \o right)[k] = IF k <= Len(mid) THEN mid[k] ELSE right[k - Len(mid)]
        BY <1>3, <1>5, ConcatProperties
    <2>2. Len(mid) = i /\ Len(right) = Len(s) - i + 1
        BY <1>3, <1>5
    <2> QED
        BY <2>1, <2>2
<1>8. InsertAt(s, i, e) = mid \o right
    BY DEF InsertAt, mid, left, right
<1>9. i + (Len(s) - i + 1) = Len(s) + 1
    BY <1>1
<1>10. ASSUME NEW k \in 1 .. Len(s) + 1
       PROVE  (mid \o right)[k] = IF k < i THEN s[k] ELSE IF k = i THEN e ELSE s[k - 1]
    <2>1. CASE k <= i
        BY <1>1, <1>6, <1>7, <2>1
    <2>2. CASE k > i
        <3>1. (mid \o right)[k] = right[k - i]
            BY <1>1, <1>7, <2>2
        <3>2. k - i \in 1 .. Len(s) - i + 1 /\ i + (k - i) - 1 = k - 1
            BY <1>1, <2>2
        <3>3. right[k - i] = s[i + (k - i) - 1]
            BY <1>3, <3>2
        <3>4. (mid \o right)[k] = s[k - 1]
            BY <3>1, <3>2, <3>3
        <3>5. ~(k < i) /\ k # i
            BY <1>1, <2>2
        <3> QED
            BY <3>4, <3>5
    <2>3. k <= i \/ k > i
        BY <1>1
    <2> QED
        BY <2>1, <2>2, <2>3
<1> QED
    BY <1>7, <1>8, <1>9, <1>10

LEMMA InsertAtValues ==
    ASSUME NEW s \in Seq(Values)
    PROVE  \A i \in 1 .. Len(s) + 1 : \A e \in Values :
            /\ InsertAt(s, i, e) \in Seq(Values)
            /\ Len(InsertAt(s, i, e)) = Len(s) + 1
            /\ \A k \in 1 .. Len(s) + 1 : InsertAt(s, i, e)[k] =
                    IF k < i THEN s[k] ELSE IF k = i THEN e ELSE s[k - 1]
BY InsertAtElements

LEMMA RemoveAtElements ==
    ASSUME NEW S, NEW s \in Seq(S), NEW i \in 1 .. Len(s)
    PROVE  /\ RemoveAt(s, i) \in Seq(S)
           /\ Len(RemoveAt(s, i)) = Len(s) - 1
           /\ \A k \in 1 .. Len(s) - 1 : RemoveAt(s, i)[k] = IF k < i THEN s[k] ELSE s[k + 1]
<1> DEFINE left == SubSeq(s, 1, i - 1)
           right == SubSeq(s, i + 1, Len(s))
<1>1. Len(s) \in Nat /\ i \in Int /\ Len(s) \in Int /\ i - 1 \in Int /\ i + 1 \in Int
    OBVIOUS
<1>2. left \in Seq(S) /\ Len(left) = i - 1 /\ \A k \in 1 .. i - 1 : left[k] = s[k]
    <2>1. \A k \in 1 .. i - 1 : s[k] \in S
        BY <1>1
    <2>2. /\ left \in Seq(S)
          /\ Len(left) = IF 1 <= i - 1 THEN (i - 1) - 1 + 1 ELSE 0
          /\ \A k \in 1 .. (i - 1) - 1 + 1 : left[k] = s[1 + k - 1]
        BY <1>1, <2>1, SubSeqProperties
    <2> QED
        BY <1>1, <2>2
<1>3. /\ right \in Seq(S) /\ Len(right) = Len(s) - i
      /\ \A k \in 1 .. Len(s) - i : right[k] = s[i + k]
    <2>1. \A k \in i + 1 .. Len(s) : s[k] \in S
        BY <1>1
    <2>2. /\ right \in Seq(S)
          /\ Len(right) = IF i + 1 <= Len(s) THEN Len(s) - (i + 1) + 1 ELSE 0
          /\ \A k \in 1 .. Len(s) - (i + 1) + 1 : right[k] = s[i + 1 + k - 1]
        BY <1>1, <2>1, SubSeqProperties
    <2> QED
        BY <1>1, <2>2
<1> HIDE DEF left, right
<1>4. /\ left \o right \in Seq(S) /\ Len(left \o right) = (i - 1) + (Len(s) - i)
      /\ \A k \in 1 .. (i - 1) + (Len(s) - i) :
            (left \o right)[k] = IF k <= i - 1 THEN left[k] ELSE right[k - (i - 1)]
    <2>1. /\ left \o right \in Seq(S) /\ Len(left \o right) = Len(left) + Len(right)
          /\ \A k \in 1 .. Len(left) + Len(right) :
                (left \o right)[k] = IF k <= Len(left) THEN left[k] ELSE right[k - Len(left)]
        BY <1>2, <1>3, ConcatProperties
    <2>2. Len(left) = i - 1 /\ Len(right) = Len(s) - i
        BY <1>2, <1>3
    <2> QED
        BY <2>1, <2>2
<1>5. RemoveAt(s, i) = left \o right /\ (i - 1) + (Len(s) - i) = Len(s) - 1
    BY <1>1 DEF RemoveAt, left, right
<1>6. ASSUME NEW k \in 1 .. Len(s) - 1
      PROVE  (left \o right)[k] = IF k < i THEN s[k] ELSE s[k + 1]
    <2>1. CASE k < i
        BY <1>1, <1>2, <1>4, <1>5, <2>1
    <2>2. CASE k >= i
        <3>0. k \in 1 .. (i - 1) + (Len(s) - i) /\ ~(k <= i - 1)
            BY <1>1, <2>2
        <3>1. (left \o right)[k] = right[k - (i - 1)]
            BY <1>4, <3>0
        <3>2. k - (i - 1) \in 1 .. Len(s) - i /\ i + (k - (i - 1)) = k + 1
            BY <1>1, <2>2
        <3>3. right[k - (i - 1)] = s[i + (k - (i - 1))]
            BY <1>3, <3>2
        <3> QED
            BY <1>1, <2>2, <3>1, <3>2, <3>3
    <2>3. k < i \/ k >= i
        BY <1>1
    <2> QED
        BY <2>1, <2>2, <2>3
<1> QED
    BY <1>4, <1>5, <1>6

----------------------------------------------------------------------------
(***************************************************************************)
(* Who moves elements moves them alone.                                    *)
(***************************************************************************)
LEMMA OneMoves ==
    ASSUME IInv, NEW t \in Moving PROVE Moving = {t}
<1> SUFFICES ASSUME NEW u \in Moving PROVE u = t
    OBVIOUS
<1>1. t \in Threads /\ u \in Threads /\ Called(t) /\ Called(u)
      /\ frame[t].fn # "none" /\ frame[u].fn # "none"
    BY DEF Moving, IInv
<1>2. CASE shared
    BY <1>2 DEF IInv, Locks, LockReturned
<1>3. CASE ~shared
    BY <1>1, <1>3 DEF IInv, OneUser, Called, Inside
<1> QED
    BY <1>2, <1>3 DEF IInv, Types

LEMMA NobodyMoves ==
    ASSUME IInv, NEW t \in Threads, t \notin Moving, ops[t] > 0, ~shared \/ Unlocked(t)
    PROVE  Moving = {} /\ writer = NoThread
<1>1. \A u \in Moving : u \in Threads /\ ops[u] > 0
    BY DEF Moving, IInv, Called, Inside
<1>2. CASE ~shared
    BY <1>1, <1>2 DEF IInv, OneUser
<1>3. CASE shared
    <2>1. writer \in {NoThread, t}
        BY <1>3 DEF Unlocked
    <2>2. writer = NoThread
        BY <2>1 DEF IInv, Locks, LockReturned
    <2> QED
        BY <1>1, <1>3, <2>2, TableLockAssumption DEF IInv, Locks, LockReturned
<1> QED
    BY <1>2, <1>3

\* What a step of one thread leaves alone of another.
LEMMA OthersStay ==
    ASSUME NEW u \in Threads, Called(u),
           frame'[u] = frame[u], pc'[u] = pc[u], request'[u] = request[u],
           then'[u] = then[u], top'[u] = top[u], ops'[u] = ops[u],
           u \in Moving => array' = array /\ before' = before
    PROVE  Called(u)'
<1>1. u \in Moving' <=> u \in Moving
    BY DEF Moving
<1>2. Outside(u)' <=> Outside(u)
    BY DEF Outside
<1>3. u \in Moving \/ (frame[u].fn # "none" /\ pc[u] = "locktable") \/ frame[u].fn = "none"
    BY DEF Moving
<1>4. CASE u \notin Moving
    <2>1. frame[u].fn # "none" => pc[u] = "locktable" /\ Inside(u)'
        BY <1>3, <1>4 DEF Called, Inside, Asking
    <2> QED
        BY <1>1, <1>2, <1>4, <2>1 DEF Called
<1>5. CASE u \in Moving
    <2>1. array' = array /\ before' = before
        BY <1>5
    <2>2. Inside(u)' <=> Inside(u)
        BY <2>1 DEF Inside, Asking
    <2>3. Inserting(u)' <=> Inserting(u)
        BY <2>1 DEF Inserting, Asking, MovedUp
    <2>4. Removing(u)' <=> Removing(u)
        BY <2>1 DEF Removing, Asking, MovedDown, Was
    <2> QED
        BY <1>1, <1>2, <2>2, <2>3, <2>4 DEF Called
<1> QED
    BY <1>4, <1>5

Untouched(u) ==
    /\ frame'[u] = frame[u] /\ pc'[u] = pc[u] /\ request'[u] = request[u]
    /\ then'[u] = then[u] /\ top'[u] = top[u] /\ ops'[u] = ops[u]

LEMMA StepKeeps ==
    ASSUME IInv, NEW t \in Threads, Types', OneUser', Locks', Called(t)',
           \A u \in Threads \ {t} : Untouched(u),
           Moving \subseteq {t} \/ (array' = array /\ before' = before)
    PROVE  IInv'
<1> SUFFICES ASSUME NEW u \in Threads, u # t PROVE Called(u)'
    BY DEF IInv
<1>1. Untouched(u) /\ Called(u)
    BY DEF IInv
<1>2. u \in Moving => array' = array /\ before' = before
    OBVIOUS
<1> QED
    BY <1>1, <1>2, OthersStay DEF Untouched

LEMMA LocksStay ==
    ASSUME IInv, NEW t \in Threads, UNCHANGED <<shared, writer, level>>,
           \A u \in Threads \ {t} : Untouched(u),
           t \in Moving' <=> t \in Moving
    PROVE  Locks'
<1>1. Moving' = Moving
    <2>1. \A u \in Threads \ {t} : u \in Moving' <=> u \in Moving
        BY DEF Moving, Untouched
    <2>2. Moving \subseteq Threads /\ Moving' \subseteq Threads
        BY DEF Moving
    <2> QED
        BY <2>1, <2>2
<1> QED
    BY <1>1 DEF IInv, Locks, LockReturned

\* A thread that begins an operation is the only user, or the table is shared.
LEMMA UsersStay ==
    ASSUME IInv, Allowed = {}, NEW t \in Threads, UNCHANGED <<shared, writer>>,
           ops' = ops \/ Begin(t)
    PROVE  OneUser'
<1>1. CASE ops' = ops
    BY <1>1 DEF IInv, OneUser
<1>2. CASE Begin(t) /\ ~shared
    <2>1. \A u \in Threads \ {t} : ops[u] = 0 /\ ops'[u] = ops[u]
        BY <1>2 DEF Begin, Known, May, IInv, Types
    <2> QED
        BY <2>1 DEF IInv, OneUser
<1>3. CASE shared
    BY <1>3 DEF OneUser
<1> QED
    BY <1>1, <1>2, <1>3

----------------------------------------------------------------------------
(***************************************************************************)
(* Steps outside the table library.                                        *)
(***************************************************************************)
LEMMA OutsideHere ==
    ASSUME IInv, NEW t \in Threads, pc[t] \in {"vm", "out", "adding"},
           pc[t] = "out" => frame[t].fn = "none"
    PROVE  frame[t].fn = "none" /\ Outside(t) /\ t \notin Moving
<1>1. frame[t].fn = "none"
    BY DEF IInv, Called, Inside, PlacesInside
<1> QED
    BY <1>1 DEF IInv, Called, Moving

LEMMA CoreKeeps ==
    ASSUME IInv, Allowed = {}, NEW t \in Threads, enter_core(t) \/ leave_core(t)
    PROVE  IInv'
<1>1. frame[t].fn = "none" /\ Outside(t) /\ t \notin Moving
    BY OutsideHere DEF enter_core, leave_core
<1>2. /\ UNCHANGED <<shared, writer, level, array, fresh, request, then, frame, before, top, ops>>
      /\ \E where \in {"vm", "out"} : pc' = [pc EXCEPT ![t] = where]
    BY DEF enter_core, leave_core, Goto
<1>3. Types' /\ pc'[t] \in {"vm", "out"} /\ \A u \in Threads \ {t} : Untouched(u)
    BY <1>2 DEF IInv, Types, PCs, Untouched
<1>4. t \notin Moving' /\ Called(t)'
    BY <1>1, <1>2, <1>3 DEF Called, Outside, Moving, PlacesOutside
<1> QED
    BY <1>1, <1>2, <1>3, <1>4, StepKeeps, LocksStay, UsersStay

LEMMA SharingKeeps ==
    ASSUME IInv, Allowed = {}, NEW t \in Threads, t_share(t)
    PROVE  IInv'
<1>1. /\ UNCHANGED <<writer, level, array, fresh, request, then, frame, before, top, ops, pc>>
      /\ ~shared /\ shared' = TRUE /\ \A u \in Threads \ {t} : ops[u] = 0
    BY DEF t_share, Known, May
<1>2. frame[t].fn = "none"
    BY DEF t_share
<1>3. Moving = {} /\ Moving' = {}
    BY <1>1, <1>2 DEF IInv, Called, Inside, Moving
<1>4. Types' /\ OneUser' /\ Locks'
    BY <1>1, <1>3 DEF IInv, Types, OneUser, Locks, LockReturned
<1>5. Called(t)' /\ \A u \in Threads \ {t} : Untouched(u)
    <2>1. Outside(t)
        BY <1>2 DEF IInv, Called
    <2> QED
        BY <1>1, <1>2, <1>3, <2>1 DEF Called, Outside, Untouched
<1> QED
    BY <1>1, <1>4, <1>5, StepKeeps

LEMMA PlainKeeps ==
    ASSUME IInv, Allowed = {}, NEW t \in Threads, vm_len(t) \/ vm_raise(t)
    PROVE  IInv'
<1>1. frame[t].fn = "none" /\ Outside(t) /\ t \notin Moving
    BY OutsideHere DEF vm_len, vm_raise
<1>2. /\ UNCHANGED <<shared, writer, level, array, fresh, request, then, frame, before, top, pc>>
      /\ Begin(t) /\ ops' = [ops EXCEPT ![t] = @ + 1] /\ pc[t] = "vm"
    BY DEF vm_len, vm_raise, Begin, May, lockVars
<1>3. Types' /\ \A u \in Threads \ {t} : Untouched(u)
    BY <1>2 DEF IInv, Types, Untouched
<1>4. t \notin Moving' /\ Called(t)'
    BY <1>1, <1>2 DEF Called, Outside, Moving
<1> QED
    BY <1>1, <1>2, <1>3, <1>4, StepKeeps, LocksStay, UsersStay

\* An access is asked for.
LEMMA RequestKeeps ==
    ASSUME IInv, Allowed = {}, NEW t \in Threads, NEW i \in 1 .. MaxLen,
           NEW kind \in {"get", "set"}, NEW v \in Elements, kind = "set" => v \in Values,
           vm_access(t, kind, i, v) \/ lua_raw(t, kind, i, v)
    PROVE  IInv'
<1>1. frame[t].fn = "none" /\ Outside(t) /\ t \notin Moving
    BY OutsideHere DEF vm_access, lua_raw
<1>2. PICK where \in {"access", "want"}, k \in {"vm", "out"} :
        /\ UNCHANGED <<shared, writer, level, array, frame, before, top>>
        /\ fresh' \subseteq fresh
        /\ Begin(t) /\ ops' = [ops EXCEPT ![t] = @ + 1]
        /\ pc' = [pc EXCEPT ![t] = where]
        /\ request' = [request EXCEPT ![t] = [kind |-> kind, i |-> i, v |-> v]]
        /\ then' = [then EXCEPT ![t] = k]
    <2>1. CASE vm_access(t, kind, i, v)
        BY <2>1 DEF vm_access, Begin, Goto, lockVars
    <2>2. CASE lua_raw(t, kind, i, v)
        BY <2>2 DEF lua_raw, Begin, Goto, Ask, lockVars
    <2> QED
        BY <2>1, <2>2
<1>3. [kind |-> kind, i |-> i, v |-> v] \in Requests /\ i \in 0 .. MaxLen
    BY TableLockAssumption DEF Requests
<1>4. Types' /\ \A u \in Threads \ {t} : Untouched(u)
    <2>1. /\ request' \in [Threads -> Requests] /\ pc' \in [Threads -> PCs]
          /\ then' \in [Threads -> PCs] /\ ops' \in [Threads -> Nat]
        BY <1>2, <1>3 DEF IInv, Types, PCs
    <2> QED
        BY <1>2, <2>1 DEF IInv, Types, Untouched
<1>5. /\ pc'[t] = where /\ then'[t] = k /\ request'[t] = [kind |-> kind, i |-> i, v |-> v]
      /\ ops'[t] > 0 /\ frame'[t] = frame[t]
    BY <1>2 DEF IInv, Types
<1>6. t \notin Moving' /\ Called(t)'
    <2>1. frame[t] = NoFrame
        BY <1>1 DEF Outside
    <2>2. Outside(t)'
        BY <1>3, <1>5, <2>1 DEF Outside, PlacesOutside
    <2> QED
        BY <1>1, <1>5, <2>2 DEF Called, Moving
<1> QED
    BY <1>1, <1>2, <1>4, <1>6, StepKeeps, LocksStay, UsersStay

LEMMA LockedKeeps ==
    ASSUME IInv, Allowed = {}, NEW t \in Threads, lua_lock(t)
    PROVE  IInv'
<1>1. /\ UNCHANGED <<shared, writer, level, array, fresh, request, then, frame, before, top, ops>>
      /\ pc[t] = "want" /\ pc' = [pc EXCEPT ![t] = "access"]
    BY DEF lua_lock, Goto
<1>2. Types' /\ pc'[t] = "access" /\ \A u \in Threads \ {t} : Untouched(u)
    BY <1>1 DEF IInv, Types, PCs, Untouched
<1>3. (t \in Moving' <=> t \in Moving) /\ Called(t)
    BY <1>1, <1>2 DEF Moving, IInv
<1>4. Called(t)'
    <2>1. Asking(t) /\ Asking(t)'
        BY <1>1, <1>2 DEF Asking
    <2>2. Outside(t) => Outside(t)'
        BY <1>1, <1>2 DEF Outside, PlacesOutside
    <2>3. Inside(t) => Inside(t)'
        BY <1>1, <1>2, <2>1 DEF Inside, PlacesInside
    <2>4. Inserting(t) => Inserting(t)'
        BY <1>1, <1>2, <2>1 DEF Inserting, MovedUp
    <2>5. Removing(t) => Removing(t)'
        BY <1>1, <1>2, <2>1 DEF Removing, MovedDown, Was
    <2> QED
        BY <1>1, <1>3, <2>2, <2>3, <2>4, <2>5 DEF Called
<1> QED
    BY <1>1, <1>2, <1>3, <1>4, StepKeeps, LocksStay, UsersStay

----------------------------------------------------------------------------
(***************************************************************************)
(* Accesses.                                                               *)
(***************************************************************************)
\* A value is written over an element, or behind the last one.
LEMMA WritesElement ==
    ASSUME IInv, NEW t \in Threads, Write(t), request[t].v \in Values
    PROVE  /\ UNCHANGED <<seen, top>>
           /\ array' \in Seq(Values)
           /\ \/ then[t] = "vm" /\ pc' = [pc EXCEPT ![t] = "adding"] /\ UNCHANGED array
              \/ /\ pc' = [pc EXCEPT ![t] = then[t]]
                 /\ Len(array') = IF request[t].i = Len(array) + 1 THEN Len(array) + 1 ELSE Len(array)
                 /\ \A k \in 1 .. Len(array') :
                        array'[k] = IF k = request[t].i THEN request[t].v ELSE array[k]
<1>1. array \in Seq(Values) /\ DOMAIN array = 1 .. Len(array) /\ Len(array) \in Nat
    BY DEF IInv, Types
<1>2. request[t].v # NoValue
    BY TableLockAssumption
<1>3. CASE Overwrite(t)
    <2>1. request[t].i \in 1 .. Len(array) /\ array' = [array EXCEPT ![request[t].i] = request[t].v]
        BY <1>1, <1>3 DEF Overwrite
    <2>2. /\ array' \in Seq(Values) /\ Len(array') = Len(array)
          /\ \A k \in 1 .. Len(array) :
                array'[k] = IF k = request[t].i THEN request[t].v ELSE array[k]
        BY <1>1, <2>1, ExceptSeq
    <2>3. request[t].i # Len(array) + 1
        BY <1>1, <2>1
    <2>4. UNCHANGED <<seen, top>> /\ pc' = [pc EXCEPT ![t] = then[t]]
        BY <1>2, <1>3 DEF Overwrite, Write, Return, Goto
    <2> QED
        BY <2>2, <2>3, <2>4
<1>4. CASE Add(t)
    <2>0. request[t].i \notin 1 .. Len(array) /\ UNCHANGED <<seen, top>>
        BY <1>1, <1>2, <1>4 DEF Add, Write
    <2>1. CASE then[t] = "vm" /\ Goto(t, "adding") /\ UNCHANGED array
        BY <1>1, <2>0, <2>1 DEF Goto
    <2>2. CASE /\ Return(t)
               /\ array' = IF request[t].i = Len(array) + 1 THEN Append(array, request[t].v) ELSE array
        <3>1. pc' = [pc EXCEPT ![t] = then[t]]
            BY <2>2 DEF Return, Goto
        <3>2. CASE request[t].i = Len(array) + 1
            <4>1. array' = Append(array, request[t].v)
                BY <2>2, <3>2
            <4>2. /\ array' \in Seq(Values) /\ Len(array') = Len(array) + 1
                  /\ \A k \in 1 .. Len(array) : array'[k] = array[k]
                  /\ array'[Len(array) + 1] = request[t].v
                BY <1>1, <4>1, AppendProperties
            <4>3. \A k \in 1 .. Len(array') :
                    array'[k] = IF k = request[t].i THEN request[t].v ELSE array[k]
                BY <1>1, <3>2, <4>2
            <4> QED
                BY <2>0, <3>1, <3>2, <4>2, <4>3
        <3>3. CASE request[t].i # Len(array) + 1
            BY <1>1, <2>0, <2>2, <3>1, <3>3
        <3> QED
            BY <3>2, <3>3
    <2> QED
        BY <1>4, <2>1, <2>2 DEF Add
<1> QED
    BY <1>2, <1>3, <1>4 DEF Write

LEMMA ReadsElement ==
    ASSUME IInv, NEW t \in Threads, Read(t)
    PROVE  /\ UNCHANGED array /\ pc' = [pc EXCEPT ![t] = then[t]]
           /\ top' = [top EXCEPT ![t] = At(request[t].i)]
           /\ At(request[t].i) \in Elements
<1>1. At(request[t].i) \in Elements
    BY DEF At, Elements, IInv, Types
<1> QED
    BY <1>1 DEF Read, Return, Goto

\* An access of somebody who is in no call of the table library.
LEMMA AccessOutsideKeeps ==
    ASSUME IInv, Allowed = {}, NEW t \in Threads, access(t), frame[t].fn = "none"
    PROVE  IInv' /\ Moving = {} /\ Moving' = {}
<1>1. /\ Outside(t) /\ t \notin Moving /\ pc[t] \in {"access", "adding"} /\ Unlocked(t)
      /\ UNCHANGED <<shared, writer, level, fresh, request, then, frame, before, ops>>
      /\ ops[t] > 0 /\ then[t] \in {"vm", "out"}
    BY DEF access, IInv, Called, Moving, Outside
<1>2. Moving = {}
    BY <1>1, NobodyMoves
<1>3. \E where \in {"vm", "out", "adding"} :
        /\ pc' = [pc EXCEPT ![t] = where]
        /\ where = "adding" => then[t] = "vm" /\ request[t].kind = "set"
        /\ array' \in Seq(Values)
        /\ top' \in [Threads -> Elements] /\ \A u \in Threads \ {t} : top'[u] = top[u]
    <2>1. CASE Read(t)
        BY <1>1, <2>1, ReadsElement DEF IInv, Types
    <2>2. CASE Write(t)
        <3>1. request[t].kind = "set" /\ request[t].v \in Values
            BY <1>1, <2>2 DEF Outside, Write
        <3> QED
            BY <1>1, <2>2, <3>1, WritesElement DEF IInv, Types
    <2> QED
        BY <2>1, <2>2 DEF access
<1>4. PICK where \in {"vm", "out", "adding"} :
        /\ pc' = [pc EXCEPT ![t] = where]
        /\ where = "adding" => then[t] = "vm" /\ request[t].kind = "set"
        /\ array' \in Seq(Values)
        /\ top' \in [Threads -> Elements] /\ \A u \in Threads \ {t} : top'[u] = top[u]
    BY <1>3
<1>5. Types' /\ pc'[t] = where /\ \A u \in Threads \ {t} : Untouched(u)
    BY <1>1, <1>4 DEF IInv, Types, PCs, Untouched
<1>6. t \notin Moving' /\ Called(t)'
    <2>1. Outside(t)'
        BY <1>1, <1>4, <1>5 DEF Outside, PlacesOutside
    <2> QED
        BY <1>1, <2>1 DEF Called, Moving
<1>7. IInv'
    BY <1>1, <1>2, <1>5, <1>6, StepKeeps, LocksStay, UsersStay
<1>8. Moving' = {}
    BY <1>1, <1>2, <1>5, <1>6 DEF Moving, Untouched
<1> QED
    BY <1>2, <1>7, <1>8

\* An insert moves the element at j up to j + 1.
LEMMA MovesUp ==
    ASSUME before \in Seq(Values), array \in Seq(Values), array' \in Seq(Values),
           before' = before, NEW j \in 1 .. Len(before), MovedUp(j + 1),
           Len(array') = IF j + 1 = Len(array) + 1 THEN Len(array) + 1 ELSE Len(array),
           \A k \in 1 .. Len(array') : array'[k] = IF k = j + 1 THEN before[j] ELSE array[k]
    PROVE  MovedUp(j)'
<1>1. Len(before) \in Nat /\ Len(array) \in Nat /\ j # Len(before) + 1
    OBVIOUS
<1>2. Len(array') = Len(before) + 1
    BY <1>1 DEF MovedUp
<1>3. ASSUME NEW k \in 1 .. Len(before) + 1
      PROVE  array'[k] = IF k <= j THEN before[k] ELSE before[k - 1]
    <2>1. CASE k = j + 1
        BY <1>1, <1>2, <2>1
    <2>2. CASE k # j + 1
        <3>1. k \in 1 .. Len(array)
            BY <1>1, <2>2 DEF MovedUp
        <3>2. array[k] = IF k <= j + 1 THEN before[k] ELSE before[k - 1]
            BY <3>1 DEF MovedUp
        <3> QED
            BY <1>1, <1>2, <2>2, <3>2
    <2> QED
        BY <2>1, <2>2
<1> QED
    BY <1>1, <1>2, <1>3 DEF MovedUp

\* The last write of an insert completes it.
LEMMA InsertCompletes ==
    ASSUME before \in Seq(Values), array \in Seq(Values), array' \in Seq(Values),
           NEW pos \in 1 .. Len(before) + 1, NEW v \in Values, MovedUp(pos),
           Len(array') = IF pos = Len(array) + 1 THEN Len(array) + 1 ELSE Len(array),
           \A k \in 1 .. Len(array') : array'[k] = IF k = pos THEN v ELSE array[k]
    PROVE  array' = InsertAt(before, pos, v)
<1> DEFINE ins == InsertAt(before, pos, v)
<1>1. Len(before) \in Nat /\ Len(array) \in Nat
    OBVIOUS
<1>2. /\ ins \in Seq(Values) /\ Len(ins) = Len(before) + 1
      /\ \A k \in 1 .. Len(before) + 1 :
            ins[k] = IF k < pos THEN before[k] ELSE IF k = pos THEN v ELSE before[k - 1]
    BY InsertAtValues
<1> HIDE DEF ins
<1>3. Len(array') = Len(before) + 1
    BY <1>1 DEF MovedUp
<1>4. ASSUME NEW k \in 1 .. Len(before) + 1 PROVE array'[k] = ins[k]
    <2>1. CASE k = pos
        BY <1>1, <1>2, <1>3, <2>1
    <2>2. CASE k # pos
        <3>1. k \in 1 .. Len(array)
            BY <1>1, <2>2 DEF MovedUp
        <3>2. array[k] = IF k <= pos THEN before[k] ELSE before[k - 1]
            BY <3>1 DEF MovedUp
        <3> QED
            BY <1>1, <1>2, <1>3, <2>2, <3>2
    <2> QED
        BY <2>1, <2>2
<1>5. array' = ins
    BY <1>1, <1>2, <1>3, <1>4, SeqEqual
<1> QED
    BY <1>5 DEF ins

LEMMA AccessHere ==
    ASSUME IInv, NEW t \in Threads, access(t), frame[t].fn # "none"
    PROVE  /\ t \in Moving /\ Inside(t) /\ pc[t] = "access" /\ Asking(t)
           /\ then[t] \in {"moves", "moved", "unlocktable"}
           /\ UNCHANGED <<shared, writer, level, fresh, request, then, frame, before, ops>>
BY DEF access, IInv, Called, Inside, PlacesInside, Moving, Asking

LEMMA AccessInsertKeeps ==
    ASSUME IInv, Allowed = {}, NEW t \in Threads, access(t), frame[t].fn = "insert"
    PROVE  IInv'
<1>1. /\ t \in Moving /\ Inside(t) /\ pc[t] = "access" /\ Asking(t)
      /\ then[t] \in {"moves", "moved", "unlocktable"}
      /\ UNCHANGED <<shared, writer, level, fresh, request, then, frame, before, ops>>
      /\ Inserting(t)
    BY AccessHere DEF IInv, Called
<1>2. Moving = {t}
    BY <1>1, OneMoves
<1>3. /\ array \in Seq(Values) /\ before \in Seq(Values) /\ frame[t] \in Frames
      /\ Len(before) \in Nat /\ pc \in [Threads -> PCs] /\ then \in [Threads -> PCs]
      /\ top \in [Threads -> Elements]
    BY DEF IInv, Types
<1>4. frame[t].pos \in 1 .. Len(before) + 1 /\ frame[t].i \in frame[t].pos .. Len(before) + 1
    BY <1>1 DEF Inserting
<1>5. ASSUME array' \in Seq(Values), top' \in [Threads -> Elements],
             \A u \in Threads \ {t} : top'[u] = top[u],
             pc' = [pc EXCEPT ![t] = then[t]], Inserting(t)'
      PROVE  IInv'
    <2>1. Types' /\ pc'[t] = then[t] /\ \A u \in Threads \ {t} : Untouched(u)
        BY <1>1, <1>3, <1>5 DEF IInv, Types, Untouched
    <2>2. t \in Moving'
        BY <1>1, <2>1 DEF Moving
    <2>3. Inside(t)'
        BY <1>1, <2>1 DEF Inside, PlacesInside, Asking
    <2>4. Called(t)'
        BY <1>1, <1>5, <2>3 DEF Called
    <2> QED
        BY <1>1, <1>2, <2>1, <2>2, <2>4, StepKeeps, LocksStay, UsersStay
<1>6. CASE then[t] = "moved"
    <2>1. /\ frame[t].i > frame[t].pos /\ MovedUp(frame[t].i)
          /\ request[t].kind = "get" /\ request[t].i = frame[t].i - 1
        BY <1>1, <1>6 DEF Inserting
    <2>2. Read(t)
        BY <2>1 DEF access, Write
    <2>3. /\ UNCHANGED array /\ pc' = [pc EXCEPT ![t] = then[t]]
          /\ top' = [top EXCEPT ![t] = At(request[t].i)]
          /\ At(request[t].i) \in Elements
        BY <2>2, ReadsElement
    <2>4. request[t].i \in 1 .. Len(array) /\ request[t].i <= frame[t].i
        BY <1>3, <1>4, <2>1 DEF MovedUp
    <2>5. At(request[t].i) = before[frame[t].i - 1]
        BY <1>3, <2>1, <2>4 DEF At, MovedUp
    <2>6. top'[t] = before[frame[t].i - 1] /\ pc'[t] = "moved"
        BY <1>3, <1>6, <2>3, <2>5
    <2>7. Inserting(t)'
        BY <1>1, <1>4, <2>1, <2>3, <2>6 DEF Inserting, Asking, MovedUp
    <2> QED
        BY <1>3, <1>5, <2>3, <2>7
<1>7. ASSUME request[t].kind = "set", request[t].v \in Values, then[t] # "vm"
      PROVE  /\ array' \in Seq(Values) /\ UNCHANGED <<seen, top>>
             /\ pc' = [pc EXCEPT ![t] = then[t]] /\ pc'[t] = then[t]
             /\ Len(array') = IF request[t].i = Len(array) + 1 THEN Len(array) + 1 ELSE Len(array)
             /\ \A k \in 1 .. Len(array') :
                    array'[k] = IF k = request[t].i THEN request[t].v ELSE array[k]
    <2>1. Write(t)
        BY <1>7 DEF access, Read
    <2> QED
        BY <1>3, <1>7, <2>1, WritesElement
<1>8. CASE then[t] = "moves"
    <2>1. /\ frame[t].i <= Len(before) /\ MovedUp(frame[t].i + 1)
          /\ request[t].kind = "set" /\ request[t].i = frame[t].i + 1
          /\ request[t].v = before[frame[t].i]
        BY <1>1, <1>8 DEF Inserting
    <2>2. frame[t].i \in 1 .. Len(before) /\ request[t].v \in Values
        BY <1>3, <1>4, <2>1
    <2>3. MovedUp(frame[t].i)'
        BY <1>1, <1>3, <1>7, <1>8, <2>1, <2>2, MovesUp
    <2>4. Inserting(t)'
        BY <1>1, <1>4, <1>7, <1>8, <2>1, <2>2, <2>3 DEF Inserting, Asking
    <2> QED
        BY <1>3, <1>5, <1>7, <1>8, <2>1, <2>2, <2>4
<1>9. CASE then[t] = "unlocktable"
    <2>1. /\ frame[t].i = frame[t].pos /\ MovedUp(frame[t].pos)
          /\ request[t].kind = "set" /\ request[t].i = frame[t].pos
          /\ request[t].v = frame[t].v
        BY <1>1, <1>9 DEF Inserting
    <2>2. request[t].v \in Values
        BY <1>1, <2>1 DEF Inside, IInv, Called
    <2>3. array' = InsertAt(before, frame[t].pos, frame[t].v)
        <3>1. /\ array' \in Seq(Values) /\ frame[t].v \in Values
              /\ Len(array') = IF frame[t].pos = Len(array) + 1 THEN Len(array) + 1 ELSE Len(array)
              /\ \A k \in 1 .. Len(array') :
                    array'[k] = IF k = frame[t].pos THEN frame[t].v ELSE array[k]
            BY <1>7, <1>9, <2>1, <2>2
        <3> QED
            BY <1>3, <1>4, <2>1, <3>1, InsertCompletes
    <2>4. Inserting(t)'
        BY <1>1, <1>4, <1>7, <1>9, <2>1, <2>2, <2>3 DEF Inserting, Asking
    <2> QED
        BY <1>3, <1>5, <1>7, <1>9, <2>1, <2>2, <2>4
<1> QED
    BY <1>1, <1>6, <1>8, <1>9

\* A remove moves the element at j down to j - 1.
LEMMA MovesDown ==
    ASSUME before \in Seq(Values), array \in Seq(Values), array' \in Seq(Values),
           before' = before, NEW pos \in Nat, NEW j \in 1 .. Len(before), j > pos, pos > 0,
           MovedDown(pos, j - 1),
           Len(array') = IF j - 1 = Len(array) + 1 THEN Len(array) + 1 ELSE Len(array),
           \A k \in 1 .. Len(array') : array'[k] = IF k = j - 1 THEN before[j] ELSE array[k]
    PROVE  MovedDown(pos, j)'
<1>1. Len(before) \in Nat /\ Len(array) = Len(before) /\ Len(array') = Len(before)
    BY DEF MovedDown
<1>2. ASSUME NEW k \in 1 .. Len(before)
      PROVE  array'[k] = IF pos <= k /\ k < j THEN before[k + 1] ELSE before[k]
    <2>1. array[k] = IF pos <= k /\ k < j - 1 THEN before[k + 1] ELSE before[k]
        BY <1>1 DEF MovedDown
    <2>2. array'[k] = IF k = j - 1 THEN before[j] ELSE array[k]
        BY <1>1
    <2>3. CASE k = j - 1
        BY <1>1, <2>2, <2>3
    <2>4. CASE k # j - 1
        BY <1>1, <2>1, <2>2, <2>4
    <2> QED
        BY <2>3, <2>4
<1> QED
    BY <1>1, <1>2 DEF MovedDown

\* The last write of a remove makes the array shorter, if anything was removed.
LEMMA RemoveCompletes ==
    ASSUME before \in Seq(Values), array \in Seq(Values), Len(before) > 0,
           NEW pos \in 1 .. Len(before), MovedDown(pos, Len(before))
    PROVE  /\ SubSeq(array, 1, Len(before) - 1) = RemoveAt(before, pos)
           /\ SubSeq(array, 1, Len(before) - 1) \in Seq(Values)
           /\ Len(SubSeq(array, 1, Len(before) - 1)) = Len(before) - 1
<1> DEFINE rem == RemoveAt(before, pos)
           cut == SubSeq(array, 1, Len(before) - 1)
<1>1. Len(before) \in Nat \ {0} /\ Len(array) = Len(before) /\ 1 \in Int /\ Len(before) - 1 \in Int
    BY DEF MovedDown
<1>2. /\ rem \in Seq(Values) /\ Len(rem) = Len(before) - 1
      /\ \A k \in 1 .. Len(before) - 1 : rem[k] = IF k < pos THEN before[k] ELSE before[k + 1]
    <2> HIDE DEF rem
    <2>1. \A i \in 1 .. Len(before) :
            /\ RemoveAt(before, i) \in Seq(Values)
            /\ Len(RemoveAt(before, i)) = Len(before) - 1
            /\ \A k \in 1 .. Len(before) - 1 : RemoveAt(before, i)[k] =
                    IF k < i THEN before[k] ELSE before[k + 1]
        BY RemoveAtElements
    <2>2. rem = RemoveAt(before, pos)
        BY DEF rem
    <2> QED
        BY <2>1, <2>2
<1>3. cut \in Seq(Values) /\ Len(cut) = Len(before) - 1 /\ \A k \in 1 .. Len(before) - 1 : cut[k] = array[k]
    <2>1. \A k \in 1 .. Len(before) - 1 : array[k] \in Values
        BY <1>1
    <2>2. /\ cut \in Seq(Values)
          /\ Len(cut) = IF 1 <= Len(before) - 1 THEN (Len(before) - 1) - 1 + 1 ELSE 0
          /\ \A k \in 1 .. (Len(before) - 1) - 1 + 1 : cut[k] = array[1 + k - 1]
        BY <1>1, <2>1, SubSeqProperties
    <2> QED
        BY <1>1, <2>2
<1> HIDE DEF rem, cut
<1>4. ASSUME NEW k \in 1 .. Len(before) - 1 PROVE cut[k] = rem[k]
    <2>1. array[k] = IF pos <= k /\ k < Len(before) THEN before[k + 1] ELSE before[k]
        BY <1>1 DEF MovedDown
    <2> QED
        BY <1>1, <1>2, <1>3, <2>1
<1>5. cut = rem
    BY <1>1, <1>2, <1>3, <1>4, SeqEqual
<1> QED
    BY <1>3, <1>5 DEF rem, cut

LEMMA ErasesElement ==
    ASSUME IInv, NEW t \in Threads, Erase(t)
    PROVE  /\ array' = IF request[t].i \in 1 .. Len(array) THEN SubSeq(array, 1, request[t].i - 1) ELSE array
           /\ pc' = [pc EXCEPT ![t] = then[t]]
           /\ seen' = [seen EXCEPT ![t] = <<frame[t].pos, frame[t].v>>]
<1>1. DOMAIN array = 1 .. Len(array)
    BY DEF IInv, Types
<1> QED
    BY <1>1 DEF Erase, Return, Goto

\* The end of a remove.
LEMMA RemoveErases ==
    ASSUME IInv, NEW t \in Threads, access(t), frame[t].fn = "remove", then[t] = "unlocktable"
    PROVE  /\ Erase(t) /\ UNCHANGED top
           /\ \/ /\ frame[t].pos \in 1 .. Len(before) /\ frame[t].v = before[frame[t].pos]
                 /\ array' = RemoveAt(before, frame[t].pos)
                 /\ array' \in Seq(Values) /\ Len(array') < Len(before)
              \/ /\ frame[t].pos \in 0 .. MaxLen /\ frame[t].pos \notin 1 .. Len(before)
                 /\ frame[t].v = NoValue /\ array = before /\ array' = before
<1>1. /\ t \in Moving /\ Inside(t) /\ pc[t] = "access" /\ Asking(t) /\ Removing(t)
    BY AccessHere DEF IInv, Called
<1>2. /\ array \in Seq(Values) /\ before \in Seq(Values) /\ frame[t] \in Frames
      /\ Len(before) \in Nat
    BY DEF IInv, Types
<1>3. /\ frame[t].pos = IF frame[t].arg = 0 THEN Len(before) ELSE frame[t].arg
      /\ frame[t].pos <= Len(before) + 1 /\ frame[t].arg \in 0 .. MaxLen
      /\ frame[t].i >= frame[t].pos /\ (frame[t].i <= Len(before) \/ frame[t].i = frame[t].pos)
      /\ frame[t].i >= Len(before) /\ MovedDown(frame[t].pos, frame[t].i)
      /\ frame[t].v = Was(frame[t].pos)
      /\ request[t].kind = "set" /\ request[t].i = frame[t].i /\ request[t].v = NoValue
    BY <1>1 DEF Removing, Inside
<1>4. Erase(t) /\ UNCHANGED top
    BY <1>3 DEF access, Read, Write
<1>5. /\ array' = IF frame[t].i \in 1 .. Len(array) THEN SubSeq(array, 1, frame[t].i - 1) ELSE array
    BY <1>3, <1>4, ErasesElement
<1>6. frame[t].i \in Nat /\ frame[t].pos \in Nat /\ Len(array) = Len(before)
    BY <1>2, <1>3 DEF Frames, MovedDown
<1>7. CASE frame[t].pos \in 1 .. Len(before)
    <2>1. frame[t].i = Len(before) /\ Len(before) > 0
        BY <1>2, <1>3, <1>6, <1>7
    <2>2. frame[t].v = before[frame[t].pos]
        BY <1>2, <1>3, <1>7 DEF Was
    <2>3. array' = SubSeq(array, 1, Len(before) - 1) /\ MovedDown(frame[t].pos, Len(before))
        BY <1>2, <1>3, <1>5, <1>6, <2>1
    <2>4. /\ array' = RemoveAt(before, frame[t].pos) /\ array' \in Seq(Values)
          /\ Len(array') = Len(before) - 1
        BY <1>2, <1>7, <2>1, <2>3, RemoveCompletes
    <2> QED
        BY <1>2, <1>4, <1>7, <2>2, <2>4
<1>8. CASE frame[t].pos \notin 1 .. Len(before)
    <2>1. frame[t].i = frame[t].pos /\ frame[t].v = NoValue
        BY <1>2, <1>3, <1>6, <1>8 DEF Was
    <2>2. array' = array
        BY <1>5, <1>6, <1>8, <2>1
    <2>3. array = before
        <3>1. \A k \in 1 .. Len(array) : array[k] = before[k]
            BY <1>2, <1>3, <1>6, <1>8, <2>1 DEF MovedDown
        <3> QED
            BY <1>2, <1>6, <3>1, SeqEqual
    <2>4. frame[t].pos \in 0 .. MaxLen
        BY <1>2, <1>3, <1>6, <1>8, TableLockAssumption
    <2> QED
        BY <1>4, <1>8, <2>1, <2>2, <2>3, <2>4
<1> QED
    BY <1>7, <1>8

LEMMA AccessRemoveKeeps ==
    ASSUME IInv, Allowed = {}, NEW t \in Threads, access(t), frame[t].fn = "remove"
    PROVE  IInv'
<1>1. /\ t \in Moving /\ Inside(t) /\ pc[t] = "access" /\ Asking(t)
      /\ then[t] \in {"moves", "moved", "unlocktable"}
      /\ UNCHANGED <<shared, writer, level, fresh, request, then, frame, before, ops>>
      /\ Removing(t)
    BY AccessHere DEF IInv, Called
<1>2. Moving = {t}
    BY <1>1, OneMoves
<1>3. /\ array \in Seq(Values) /\ before \in Seq(Values) /\ frame[t] \in Frames
      /\ Len(before) \in Nat /\ pc \in [Threads -> PCs] /\ then \in [Threads -> PCs]
      /\ top \in [Threads -> Elements] /\ frame[t].i \in Nat /\ frame[t].pos \in Nat
    BY DEF IInv, Types, Frames
<1>4. /\ frame[t].pos = IF frame[t].arg = 0 THEN Len(before) ELSE frame[t].arg
      /\ frame[t].pos <= Len(before) + 1
      /\ frame[t].i >= frame[t].pos /\ (frame[t].i <= Len(before) \/ frame[t].i = frame[t].pos)
    BY <1>1 DEF Removing
<1>5. ASSUME array' \in Seq(Values), top' \in [Threads -> Elements],
             \A u \in Threads \ {t} : top'[u] = top[u],
             pc' = [pc EXCEPT ![t] = then[t]], Removing(t)'
      PROVE  IInv'
    <2>1. Types' /\ pc'[t] = then[t] /\ \A u \in Threads \ {t} : Untouched(u)
        BY <1>1, <1>3, <1>5 DEF IInv, Types, Untouched
    <2>2. t \in Moving'
        BY <1>1, <2>1 DEF Moving
    <2>3. Inside(t)'
        BY <1>1, <2>1 DEF Inside, PlacesInside, Asking
    <2>4. Called(t)'
        BY <1>1, <1>5, <2>3 DEF Called
    <2> QED
        BY <1>1, <1>2, <2>1, <2>2, <2>4, StepKeeps, LocksStay, UsersStay
<1>6. ASSUME Read(t)
      PROVE  /\ UNCHANGED array /\ pc' = [pc EXCEPT ![t] = then[t]] /\ pc'[t] = then[t]
             /\ top' = [top EXCEPT ![t] = At(request[t].i)] /\ top'[t] = At(request[t].i)
             /\ top' \in [Threads -> Elements]
             /\ DOMAIN array = 1 .. Len(array) /\ DOMAIN before = 1 .. Len(before)
    BY <1>3, <1>6, ReadsElement
<1>7. CASE then[t] = "moved"
    <2>1. /\ frame[t].i < Len(before) /\ MovedDown(frame[t].pos, frame[t].i)
          /\ frame[t].v = Was(frame[t].pos)
          /\ request[t].kind = "get" /\ request[t].i = frame[t].i + 1
        BY <1>1, <1>7 DEF Removing
    <2>2. Read(t)
        BY <2>1 DEF access, Write
    <2>3. request[t].i \in 1 .. Len(array) /\ request[t].i > frame[t].i
        BY <1>3, <2>1 DEF MovedDown
    <2>4. At(request[t].i) = before[frame[t].i + 1]
        BY <1>3, <1>6, <2>1, <2>2, <2>3 DEF At, MovedDown
    <2>5. Removing(t)'
        BY <1>1, <1>4, <1>6, <1>7, <2>1, <2>2, <2>4 DEF Removing, Asking, MovedDown, Was
    <2> QED
        BY <1>3, <1>5, <1>6, <2>2, <2>5
<1>8. CASE then[t] = "moves" /\ request[t].kind = "get"
    <2>1. /\ frame[t].i = frame[t].pos /\ MovedDown(frame[t].pos, frame[t].i)
          /\ frame[t].v = NoValue /\ request[t].i = frame[t].pos
        BY <1>1, <1>8 DEF Removing
    <2>2. Read(t)
        BY <1>8 DEF access, Write
    <2>3. At(frame[t].pos) = Was(frame[t].pos)
        BY <1>3, <1>6, <2>1, <2>2 DEF At, Was, MovedDown
    <2>4. Removing(t)'
        BY <1>1, <1>4, <1>6, <1>8, <2>1, <2>2, <2>3 DEF Removing, Asking, MovedDown, Was
    <2> QED
        BY <1>3, <1>5, <1>6, <2>2, <2>4
<1>9. CASE then[t] = "moves" /\ request[t].kind # "get"
    <2>1. /\ frame[t].i > frame[t].pos /\ MovedDown(frame[t].pos, frame[t].i - 1)
          /\ frame[t].v = Was(frame[t].pos)
          /\ request[t].kind = "set" /\ request[t].i = frame[t].i - 1
          /\ request[t].v = before[frame[t].i]
        BY <1>1, <1>9 DEF Removing
    <2>2. frame[t].i \in 1 .. Len(before) /\ request[t].v \in Values /\ frame[t].pos > 0
        BY <1>1, <1>3, <1>4, <2>1 DEF Inside
    <2>3. Write(t)
        BY <2>1 DEF access, Read
    <2>4. /\ array' \in Seq(Values) /\ UNCHANGED <<seen, top>>
          /\ pc' = [pc EXCEPT ![t] = then[t]] /\ pc'[t] = then[t]
          /\ Len(array') = IF request[t].i = Len(array) + 1 THEN Len(array) + 1 ELSE Len(array)
          /\ \A k \in 1 .. Len(array') :
                array'[k] = IF k = request[t].i THEN request[t].v ELSE array[k]
        BY <1>1, <1>3, <1>9, <2>2, <2>3, WritesElement
    <2>5. MovedDown(frame[t].pos, frame[t].i)'
        <3>1. /\ Len(array') = IF frame[t].i - 1 = Len(array) + 1 THEN Len(array) + 1 ELSE Len(array)
              /\ \A k \in 1 .. Len(array') :
                    array'[k] = IF k = frame[t].i - 1 THEN before[frame[t].i] ELSE array[k]
            BY <2>1, <2>4
        <3>2. before' = before
            BY <1>1
        <3>3. MovedDown(frame[t].pos, frame[t].i - 1) /\ frame[t].i > frame[t].pos
            BY <2>1
        <3>4. \A p \in Nat, j \in 1 .. Len(before) :
                /\ j > p /\ p > 0 /\ MovedDown(p, j - 1)
                /\ Len(array') = IF j - 1 = Len(array) + 1 THEN Len(array) + 1 ELSE Len(array)
                /\ \A k \in 1 .. Len(array') : array'[k] = IF k = j - 1 THEN before[j] ELSE array[k]
                => /\ Len(array') = Len(before')
                   /\ \A k \in 1 .. Len(array') :
                        array'[k] = IF p <= k /\ k < j THEN before'[k + 1] ELSE before'[k]
            BY <1>3, <2>4, <3>2, MovesDown DEF MovedDown
        <3>5. /\ Len(array') = Len(before')
              /\ \A k \in 1 .. Len(array') : array'[k] =
                    IF frame[t].pos <= k /\ k < frame[t].i THEN before'[k + 1] ELSE before'[k]
            BY <1>3, <2>2, <3>1, <3>3, <3>4
        <3> QED
            BY <1>1, <3>5 DEF MovedDown
    <2>6. frame[t].v # NoValue
        <3>1. frame[t].pos \in 1 .. Len(before)
            BY <1>3, <2>1, <2>2
        <3> QED
            BY <1>3, <2>1, <3>1, TableLockAssumption DEF Was
    <2>7. Removing(t)'
        BY <1>1, <1>3, <1>4, <1>9, <2>1, <2>2, <2>4, <2>5, <2>6 DEF Removing, Asking, Was
    <2> QED
        BY <1>3, <1>5, <2>4, <2>7
<1>10. CASE then[t] = "unlocktable"
    <2>1. /\ Erase(t) /\ UNCHANGED top
          /\ array' = before \/ Len(array') < Len(before)
          /\ array' \in Seq(Values)
        BY <1>3, <1>10, RemoveErases
    <2>2. pc' = [pc EXCEPT ![t] = then[t]] /\ pc'[t] = "unlocktable"
        BY <1>3, <1>10, <2>1, ErasesElement
    <2>3. Removing(t)'
        BY <1>1, <2>1, <2>2 DEF Removing, Asking
    <2> QED
        BY <1>3, <1>5, <2>1, <2>2, <2>3
<1> QED
    BY <1>1, <1>7, <1>8, <1>9, <1>10

----------------------------------------------------------------------------
(***************************************************************************)
(* The calls of the table library.                                         *)
(***************************************************************************)
LEMMA CallKeeps ==
    ASSUME IInv, Allowed = {}, NEW t \in Threads, NEW arg \in 0 .. MaxLen,
           tremove(t, arg) \/ \E v \in fresh : tinsert(t, arg, v)
    PROVE  IInv'
<1>1. frame[t].fn = "none" /\ Outside(t) /\ t \notin Moving
    BY OutsideHere DEF tremove, tinsert
<1>2. PICK f \in Frames :
        /\ UNCHANGED <<shared, writer, level, array, request, then, before, top>>
        /\ fresh' \subseteq fresh
        /\ Begin(t) /\ ops' = [ops EXCEPT ![t] = @ + 1]
        /\ pc' = [pc EXCEPT ![t] = "locktable"]
        /\ frame' = [frame EXCEPT ![t] = f]
        /\ f.fn # "none" /\ f.arg \in 0 .. MaxLen
        /\ f.fn = "insert" => f.v \in Values
        /\ f.fn = "remove" => f.v = NoValue
    <2>1. CASE tremove(t, arg)
        <3>1. Len(array) \in Nat /\ arg \in Nat /\ NoFrame \in Frames
            BY TableLockAssumption DEF IInv, Types, NoFrame, Frames, Elements
        <3>2. PICK f \in Frames : f = [NoFrame EXCEPT !.fn = "remove", !.arg = arg,
                                        !.pos = IF arg = 0 THEN Len(array) ELSE arg]
            BY <3>1 DEF Frames
        <3>3. f.fn = "remove" /\ f.arg = arg /\ f.v = NoValue
            BY <3>1, <3>2 DEF NoFrame
        <3>4. frame' = [frame EXCEPT ![t] = f]
            BY <2>1, <3>2 DEF tremove
        <3> QED
            BY <2>1, <3>3, <3>4 DEF tremove, Begin, Goto, lockVars
    <2>2. ASSUME NEW v \in fresh, tinsert(t, arg, v)
          PROVE  \E f \in Frames :
                    /\ UNCHANGED <<shared, writer, level, array, request, then, before, top>>
                    /\ fresh' \subseteq fresh
                    /\ Begin(t) /\ ops' = [ops EXCEPT ![t] = @ + 1]
                    /\ pc' = [pc EXCEPT ![t] = "locktable"]
                    /\ frame' = [frame EXCEPT ![t] = f]
                    /\ f.fn # "none" /\ f.arg \in 0 .. MaxLen
                    /\ f.fn = "insert" => f.v \in Values
                    /\ f.fn = "remove" => f.v = NoValue
        <3>1. v \in Values /\ arg \in Nat /\ NoFrame \in Frames
            BY TableLockAssumption DEF IInv, Types, NoFrame, Frames, Elements
        <3>2. PICK f \in Frames : f = [NoFrame EXCEPT !.fn = "insert", !.arg = arg, !.v = v]
            BY <3>1 DEF Frames, Elements
        <3>3. f.fn = "insert" /\ f.arg = arg /\ f.v = v
            BY <3>1, <3>2 DEF NoFrame
        <3>4. frame' = [frame EXCEPT ![t] = f]
            BY <2>2, <3>2 DEF tinsert
        <3> QED
            BY <2>2, <3>1, <3>3, <3>4 DEF tinsert, Begin, Goto, lockVars
    <2> QED
        BY <2>1, <2>2
<1>3. Types' /\ \A u \in Threads \ {t} : Untouched(u)
    <2>1. /\ frame' \in [Threads -> Frames] /\ pc' \in [Threads -> PCs]
          /\ ops' \in [Threads -> Nat]
        BY <1>2 DEF IInv, Types, PCs
    <2> QED
        BY <1>2, <2>1 DEF IInv, Types, Untouched
<1>4. pc'[t] = "locktable" /\ frame'[t] = f /\ ops'[t] > 0
    BY <1>2 DEF IInv, Types
<1>5. t \notin Moving' /\ Called(t)'
    BY <1>2, <1>4 DEF Called, Moving, Inside, PlacesInside, Asking
<1> QED
    BY <1>1, <1>2, <1>3, <1>5, StepKeeps, LocksStay, UsersStay

LEMMA LockTableKeeps ==
    ASSUME IInv, Allowed = {}, NEW t \in Threads, lua_locktable(t)
    PROVE  IInv' /\ Moving = {} /\ Moving' = {t}
<1>1. /\ UNCHANGED <<shared, array, fresh, request, then, frame, top, ops>>
      /\ pc[t] = "locktable" /\ pc' = [pc EXCEPT ![t] = "getn"] /\ before' = array
    BY DEF lua_locktable, Goto
<1>2. frame[t].fn # "none" /\ Inside(t) /\ t \notin Moving
    BY <1>1 DEF IInv, Called, Outside, PlacesOutside, Moving
<1>3. ~shared \/ Unlocked(t)
    BY DEF lua_locktable
<1>4. Moving = {} /\ writer = NoThread
    BY <1>2, <1>3, NobodyMoves DEF Inside
<1>5. level = 0 /\ writer \in Threads \cup {NoThread}
    BY <1>4 DEF IInv, Locks
<1>6. Types' /\ pc'[t] = "getn" /\ \A u \in Threads \ {t} : Untouched(u)
    BY <1>1, <1>5 DEF IInv, Types, PCs, Untouched, lua_locktable
<1>7. Moving' = {t}
    <2>1. t \in Moving'
        BY <1>1, <1>2, <1>6 DEF Moving
    <2>2. \A u \in Threads \ {t} : u \notin Moving'
        BY <1>4, <1>6 DEF Moving, Untouched
    <2> QED
        BY <2>1, <2>2 DEF Moving
<1>8. Called(t)'
    <2>1. Inside(t)'
        BY <1>1, <1>2, <1>6 DEF Inside, PlacesInside, Asking
    <2>2. Inserting(t)' /\ Removing(t)'
        BY <1>1, <1>6 DEF Inserting, Removing, Asking
    <2> QED
        BY <1>1, <1>2, <2>1, <2>2 DEF Called
<1>9. OneUser'
    <2>1. CASE shared
        BY <1>1, <2>1 DEF OneUser
    <2>2. CASE ~shared
        BY <1>1, <2>2 DEF IInv, OneUser, lua_locktable
    <2> QED
        BY <2>1, <2>2
<1>10. Locks'
    <2>1. CASE shared
        <3>1. writer' = t /\ level' = 1
            BY <1>5, <2>1 DEF lua_locktable
        <3> QED
            BY <1>7, <3>1, TableLockAssumption DEF Locks, LockReturned
    <2>2. CASE ~shared
        BY <1>1, <1>4, <1>5, <2>2 DEF Locks, LockReturned, lua_locktable
    <2> QED
        BY <2>1, <2>2
<1> QED
    BY <1>4, <1>6, <1>7, <1>8, <1>9, <1>10, StepKeeps

\* The steps of a call between its accesses.
LEMMA InsideKeeps ==
    ASSUME IInv, Allowed = {}, NEW t \in Moving,
           UNCHANGED <<shared, writer, level, array, fresh, before, top, ops>>,
           pc' \in [Threads -> PCs], then' \in [Threads -> PCs],
           request' \in [Threads -> Requests], frame' \in [Threads -> Frames],
           \A u \in Threads \ {t} : Untouched(u),
           frame'[t].fn = frame[t].fn, pc'[t] # "locktable", Inside(t)',
           frame[t].fn = "insert" => Inserting(t)',
           frame[t].fn = "remove" => Removing(t)'
    PROVE  IInv' /\ Moving = {t} /\ Moving' = {t}
<1>1. t \in Threads /\ frame[t].fn # "none" /\ Moving = {t}
    BY OneMoves DEF Moving
<1>2. Types'
    BY DEF IInv, Types
<1>3. Called(t)' /\ t \in Moving'
    BY <1>1 DEF Called, Moving
<1>4. Moving' = {t}
    BY <1>1, <1>3 DEF Moving, Untouched
<1> QED
    BY <1>1, <1>2, <1>3, <1>4, StepKeeps, LocksStay, UsersStay

LEMMA InsideHere ==
    ASSUME IInv, NEW t \in Threads, pc[t] \in {"getn", "moves", "moved", "unlocktable"}
    PROVE  /\ t \in Moving /\ Inside(t) /\ Moving = {t}
           /\ frame[t].fn \in {"insert", "remove"}
           /\ frame[t].fn = "insert" => Inserting(t)
           /\ frame[t].fn = "remove" => Removing(t)
           /\ frame[t] \in Frames /\ frame[t].arg \in Nat /\ frame[t].pos \in Nat
           /\ frame[t].i \in Nat /\ frame[t].v \in Elements
<1>1. frame[t] \in Frames
    BY DEF IInv, Types
<1>2. frame[t].fn # "none" /\ Inside(t)
    BY DEF IInv, Called, Outside, PlacesOutside
<1>3. t \in Moving
    BY <1>2 DEF Moving
<1> QED
    BY <1>1, <1>2, <1>3, OneMoves DEF IInv, Called, Frames

LEMMA GetnKeeps ==
    ASSUME IInv, Allowed = {}, NEW t \in Threads, getn(t)
    PROVE  IInv' /\ Moving = {t} /\ Moving' = {t} /\ array = before
<1>0. PICK f \in Frames, n \in Nat : f = frame[t] /\ n = Len(array)
    BY DEF IInv, Types
<1> DEFINE pos == CASE f.fn = "insert" /\ f.arg = 0 -> n + 1
                    [] f.fn = "remove" /\ f.arg = 0 -> n
                    [] OTHER -> f.arg
<1>1. /\ UNCHANGED <<shared, writer, level, array, fresh, before, top, ops>>
      /\ pc[t] = "getn"
    BY DEF getn, lockVars
<1>2. /\ t \in Moving /\ Inside(t) /\ Moving = {t} /\ f.fn \in {"insert", "remove"}
      /\ f.arg \in Nat /\ f.v \in Elements
    BY <1>0, <1>1, InsideHere
<1>3. /\ array = before /\ array \in Seq(Values) /\ n = Len(before) /\ f.arg \in 0 .. MaxLen
      /\ pc \in [Threads -> PCs] /\ then \in [Threads -> PCs]
      /\ request \in [Threads -> Requests] /\ frame \in [Threads -> Frames]
      /\ f.fn = "insert" => f.v \in Values
      /\ f.fn = "remove" => f.v = NoValue
    BY <1>0, <1>1, <1>2 DEF IInv, Types, Inside
<1>4. PICK p \in Nat :
        /\ p = IF f.arg = 0 THEN (IF f.fn = "insert" THEN n + 1 ELSE n) ELSE f.arg
        /\ \/ Goto(t, "unlocktable") /\ UNCHANGED <<request, then, frame>>
           \/ /\ p <= n + 1 /\ f.fn = "insert"
              /\ frame' = [frame EXCEPT ![t].pos = p, ![t].i = n + 1]
              /\ Goto(t, "moves") /\ UNCHANGED <<request, then>>
           \/ /\ p <= n + 1 /\ f.fn = "remove"
              /\ frame' = [frame EXCEPT ![t].pos = p, ![t].i = p]
              /\ Ask(t, "get", p, NoValue, "moves")
    <2>1. pos = IF f.arg = 0 THEN (IF f.fn = "insert" THEN n + 1 ELSE n) ELSE f.arg
        BY <1>2
    <2>2. pos \in Nat
        BY <1>2, <1>3, <2>1
    <2>3. \/ Goto(t, "unlocktable") /\ UNCHANGED <<request, then, frame>>
          \/ /\ pos <= n + 1 /\ f.fn = "insert"
             /\ frame' = [frame EXCEPT ![t].pos = pos, ![t].i = n + 1]
             /\ Goto(t, "moves") /\ UNCHANGED <<request, then>>
          \/ /\ pos <= n + 1 /\ f.fn = "remove"
             /\ frame' = [frame EXCEPT ![t].pos = pos, ![t].i = pos]
             /\ Ask(t, "get", pos, NoValue, "moves")
        BY <1>0 DEF getn
    <2> QED
        BY <2>1, <2>2, <2>3
<1> HIDE DEF pos
<1>5. CASE Goto(t, "unlocktable") /\ UNCHANGED <<request, then, frame>>
    <2>1. /\ pc' \in [Threads -> PCs] /\ pc'[t] = "unlocktable"
          /\ \A u \in Threads \ {t} : Untouched(u)
        BY <1>0, <1>1, <1>3, <1>5 DEF Goto, PCs, Untouched
    <2>2. Inside(t)' /\ Inserting(t)' /\ Removing(t)'
        BY <1>0, <1>1, <1>2, <1>3, <1>5, <2>1 DEF Inside, PlacesInside, Asking, Inserting, Removing
    <2> QED
        BY <1>0, <1>1, <1>2, <1>3, <1>5, <2>1, <2>2, InsideKeeps
<1>6. CASE /\ p <= n + 1 /\ f.fn = "insert"
           /\ frame' = [frame EXCEPT ![t].pos = p, ![t].i = n + 1]
           /\ Goto(t, "moves") /\ UNCHANGED <<request, then>>
    <2>1. /\ pc' \in [Threads -> PCs] /\ pc'[t] = "moves"
        BY <1>3, <1>6 DEF Goto, PCs
    <2>2. /\ frame' = [frame EXCEPT ![t] = [f EXCEPT !.pos = p, !.i = n + 1]]
        BY <1>0, <1>3, <1>6
    <2>3. PICK g \in Frames : g = [f EXCEPT !.pos = p, !.i = n + 1]
        <3>1. PICK e \in Nat : e = n + 1
            OBVIOUS
        <3>2. [f EXCEPT !.pos = p, !.i = e] \in Frames
            BY DEF Frames
        <3> QED
            BY <3>1, <3>2
    <2>4. g.fn = f.fn /\ g.arg = f.arg /\ g.v = f.v /\ g.pos = p /\ g.i = n + 1
        BY <1>2, <2>3 DEF Frames
    <2>5. frame' = [frame EXCEPT ![t] = g] /\ frame' \in [Threads -> Frames] /\ frame'[t] = g
        BY <1>3, <2>2, <2>3
    <2>6. \A u \in Threads \ {t} : Untouched(u)
        BY <1>0, <1>1, <1>3, <1>6, <2>5 DEF Goto, Untouched
    <2>7. Inside(t)'
        BY <1>0, <1>1, <1>2, <1>3, <2>1, <2>4, <2>5 DEF Inside, PlacesInside, Asking
    <2>8. p \in 1 .. n + 1
        BY <1>3, <1>4, <1>6
    <2>9. MovedUp(n + 1)'
        BY <1>0, <1>1, <1>3 DEF MovedUp
    <2>10. Inserting(t)'
        BY <1>0, <1>1, <1>3, <2>1, <2>4, <2>5, <2>8, <2>9 DEF Inserting, Asking
    <2> QED
        BY <1>0, <1>1, <1>2, <1>3, <1>6, <2>1, <2>4, <2>5, <2>6, <2>7, <2>10, InsideKeeps
<1>7. CASE /\ p <= n + 1 /\ f.fn = "remove"
           /\ frame' = [frame EXCEPT ![t].pos = p, ![t].i = p]
           /\ Ask(t, "get", p, NoValue, "moves")
    <2>1. /\ pc' \in [Threads -> PCs] /\ pc'[t] = "want"
          /\ then' \in [Threads -> PCs] /\ then'[t] = "moves"
        BY <1>3, <1>7 DEF Ask, Goto, PCs
    <2>2. /\ frame' = [frame EXCEPT ![t] = [f EXCEPT !.pos = p, !.i = p]]
        BY <1>0, <1>3, <1>7
    <2>3. PICK g \in Frames : g = [f EXCEPT !.pos = p, !.i = p]
        BY <1>2, <1>3, <1>4 DEF Frames
    <2>4. g.fn = f.fn /\ g.arg = f.arg /\ g.v = f.v /\ g.pos = p /\ g.i = p
        BY <1>2, <2>3 DEF Frames
    <2>5. frame' = [frame EXCEPT ![t] = g] /\ frame' \in [Threads -> Frames] /\ frame'[t] = g
        BY <1>3, <2>2, <2>3
    <2>6. PICK r \in Requests : r = [kind |-> "get", i |-> p, v |-> NoValue]
        BY <1>4 DEF Requests, Elements
    <2>7. /\ request' \in [Threads -> Requests] /\ request'[t] = r
          /\ r.kind = "get" /\ r.i = p
        BY <1>3, <1>7, <2>6 DEF Ask
    <2>8. \A u \in Threads \ {t} : Untouched(u)
        BY <1>0, <1>1, <1>3, <1>7, <2>5 DEF Ask, Goto, Untouched
    <2>9. Inside(t)'
        BY <1>0, <1>1, <1>2, <1>3, <1>7, <2>1, <2>4, <2>5 DEF Inside, PlacesInside, Asking
    <2>10. MovedDown(p, p)'
        BY <1>0, <1>1, <1>3, <1>4 DEF MovedDown
    <2>11. Removing(t)'
        BY <1>0, <1>1, <1>3, <1>4, <1>7, <2>1, <2>4, <2>5, <2>7, <2>10 DEF Removing, Asking
    <2> QED
        BY <1>0, <1>1, <1>2, <1>3, <1>7, <2>1, <2>4, <2>5, <2>7, <2>8, <2>9, <2>11, InsideKeeps
<1> QED
    BY <1>4, <1>5, <1>6, <1>7

LEMMA MovedKeeps ==
    ASSUME IInv, Allowed = {}, NEW t \in Threads, moved(t)
    PROVE  /\ IInv' /\ Moving = {t} /\ Moving' = {t}
           /\ frame'[t].fn = frame[t].fn /\ frame'[t].pos = frame[t].pos
           /\ frame'[t].v = frame[t].v
<1>0. PICK f \in Frames : f = frame[t]
    BY DEF IInv, Types
<1>1. /\ UNCHANGED <<shared, writer, level, array, fresh, before, top, ops>>
      /\ pc[t] = "moved" /\ Ask(t, "set", f.i, top[t], "moves")
    BY <1>0 DEF moved, lockVars
<1>2. /\ t \in Moving /\ Inside(t) /\ Moving = {t} /\ f.fn \in {"insert", "remove"}
      /\ f.fn = "insert" => Inserting(t)
      /\ f.fn = "remove" => Removing(t)
      /\ f.arg \in Nat /\ f.pos \in Nat /\ f.i \in Nat /\ f.v \in Elements
    BY <1>0, <1>1, InsideHere
<1>3. /\ array \in Seq(Values) /\ before \in Seq(Values) /\ Len(before) \in Nat
      /\ pc \in [Threads -> PCs] /\ then \in [Threads -> PCs]
      /\ request \in [Threads -> Requests] /\ frame \in [Threads -> Frames]
      /\ top[t] \in Elements
    BY DEF IInv, Types
<1>4. /\ f.fn = "insert" => /\ f.pos \in 1 .. Len(before) + 1
                            /\ f.i \in f.pos .. Len(before) + 1 /\ f.i > f.pos
                            /\ MovedUp(f.i) /\ top[t] = before[f.i - 1]
      /\ f.fn = "remove" => /\ f.pos = IF f.arg = 0 THEN Len(before) ELSE f.arg
                            /\ f.pos <= Len(before) + 1 /\ f.i >= f.pos
                            /\ f.i < Len(before) /\ MovedDown(f.pos, f.i)
                            /\ f.v = Was(f.pos) /\ top[t] = before[f.i + 1]
    BY <1>0, <1>1, <1>2 DEF Inserting, Removing
<1>5. PICK j \in Nat : j = IF f.fn = "insert" THEN f.i - 1 ELSE f.i + 1
    BY <1>2, <1>3, <1>4
<1>6. frame' = [frame EXCEPT ![t] = [f EXCEPT !.i = j]]
    <2>1. frame' = [frame EXCEPT ![t].i = IF f.fn = "insert" THEN @ - 1 ELSE @ + 1]
        BY <1>0 DEF moved
    <2> QED
        BY <1>0, <1>3, <1>5, <2>1
<1>7. PICK g \in Frames : g = [f EXCEPT !.i = j]
    BY <1>2, <1>5 DEF Frames
<1>8. g.fn = f.fn /\ g.arg = f.arg /\ g.v = f.v /\ g.pos = f.pos /\ g.i = j
    BY <1>2, <1>7 DEF Frames
<1>9. frame' = [frame EXCEPT ![t] = g] /\ frame' \in [Threads -> Frames] /\ frame'[t] = g
    BY <1>3, <1>6, <1>7
<1>10. PICK r \in Requests : r = [kind |-> "set", i |-> f.i, v |-> top[t]]
    BY <1>2, <1>3 DEF Requests
<1>11. /\ request' \in [Threads -> Requests] /\ request'[t] = r
       /\ r.kind = "set" /\ r.i = f.i /\ r.v = top[t]
    BY <1>1, <1>3, <1>10 DEF Ask
<1>12. /\ pc' \in [Threads -> PCs] /\ pc'[t] = "want"
       /\ then' \in [Threads -> PCs] /\ then'[t] = "moves"
    BY <1>1, <1>3 DEF Ask, Goto, PCs
<1>13. \A u \in Threads \ {t} : Untouched(u)
    BY <1>1, <1>3, <1>9 DEF Ask, Goto, Untouched
<1>14. Inside(t)'
    BY <1>0, <1>1, <1>2, <1>8, <1>9, <1>12 DEF Inside, PlacesInside, Asking
<1>15. f.fn = "insert" => Inserting(t)'
    <2>1. ASSUME f.fn = "insert"
          PROVE  /\ j = f.i - 1 /\ j + 1 = f.i /\ j \in f.pos .. Len(before)
                 /\ MovedUp(j + 1)
        BY <1>2, <1>3, <1>4, <1>5, <2>1
    <2>2. ASSUME f.fn = "insert" PROVE MovedUp(j + 1)'
        BY <1>1, <2>1, <2>2 DEF MovedUp
    <2> QED
        BY <1>1, <1>4, <1>8, <1>9, <1>11, <1>12, <2>1, <2>2 DEF Inserting, Asking
<1>16. f.fn = "remove" => Removing(t)'
    <2>1. ASSUME f.fn = "remove"
          PROVE  /\ j = f.i + 1 /\ j - 1 = f.i /\ j > f.pos /\ j <= Len(before)
                 /\ MovedDown(f.pos, j - 1)
        <3>1. /\ f.i \in Nat /\ f.pos \in Nat /\ Len(before) \in Nat
              /\ f.i >= f.pos /\ f.i < Len(before) /\ MovedDown(f.pos, f.i)
            BY <1>2, <1>3, <1>4, <2>1
        <3>2. j = f.i + 1 /\ j - 1 = f.i
            BY <1>5, <2>1, <3>1
        <3> QED
            BY <3>1, <3>2
    <2>2. ASSUME f.fn = "remove" PROVE MovedDown(f.pos, j - 1)' /\ Was(f.pos)' = Was(f.pos)
        BY <1>1, <2>1, <2>2 DEF MovedDown, Was
    <2> QED
        BY <1>1, <1>2, <1>4, <1>8, <1>9, <1>11, <1>12, <2>1, <2>2 DEF Removing, Asking, Was
<1> QED
    BY <1>0, <1>1, <1>2, <1>8, <1>9, <1>11, <1>12, <1>13, <1>14, <1>15, <1>16, InsideKeeps

LEMMA MovesKeeps ==
    ASSUME IInv, Allowed = {}, NEW t \in Threads, moves(t)
    PROVE  /\ IInv' /\ Moving = {t} /\ Moving' = {t}
           /\ frame'[t].fn = frame[t].fn /\ frame'[t].pos = frame[t].pos
           /\ frame[t].fn = "insert" => frame'[t].v = frame[t].v
<1>0. PICK f \in Frames, n \in Nat : f = frame[t] /\ n = Len(before)
    BY DEF IInv, Types
<1>1. /\ UNCHANGED <<shared, writer, level, array, fresh, before, top, ops>>
      /\ pc[t] = "moves"
    BY DEF moves, lockVars
<1>2. /\ t \in Moving /\ Inside(t) /\ Moving = {t} /\ f.fn \in {"insert", "remove"}
      /\ f.fn = "insert" => Inserting(t)
      /\ f.fn = "remove" => Removing(t)
      /\ f.arg \in Nat /\ f.pos \in Nat /\ f.i \in Nat /\ f.v \in Elements
    BY <1>0, <1>1, InsideHere
<1>3. /\ array \in Seq(Values) /\ before \in Seq(Values)
      /\ pc \in [Threads -> PCs] /\ then \in [Threads -> PCs]
      /\ request \in [Threads -> Requests] /\ frame \in [Threads -> Frames]
      /\ top[t] \in Elements
    BY DEF IInv, Types
<1>4. /\ f.fn = "insert" => /\ f.pos \in 1 .. n + 1 /\ f.i \in f.pos .. n + 1 /\ MovedUp(f.i)
      /\ f.fn = "remove" => /\ f.pos = IF f.arg = 0 THEN n ELSE f.arg
                            /\ f.pos <= n + 1
                            /\ f.i >= f.pos /\ (f.i <= n \/ f.i = f.pos)
                            /\ MovedDown(f.pos, f.i) /\ Len(array) = n
                            /\ IF f.v = NoValue THEN top[t] = Was(f.pos) ELSE f.v = Was(f.pos)
    BY <1>0, <1>1, <1>2 DEF Inserting, Removing, MovedDown
<1>5. PICK v \in Elements : v = IF f.fn = "remove" /\ f.v = NoValue THEN top[t] ELSE f.v
    BY <1>2, <1>3
<1>6. v = IF f.fn = "remove" THEN Was(f.pos) ELSE f.v
    BY <1>2, <1>4, <1>5
<1>7. frame' = [frame EXCEPT ![t] = [f EXCEPT !.v = v]]
    <2>1. frame' = [frame EXCEPT ![t].v = v]
        BY <1>0, <1>5 DEF moves
    <2> QED
        BY <1>0, <1>3, <2>1
<1>8. PICK g \in Frames : g = [f EXCEPT !.v = v]
    BY <1>5 DEF Frames
<1>9. g.fn = f.fn /\ g.arg = f.arg /\ g.v = v /\ g.pos = f.pos /\ g.i = f.i
    BY <1>8 DEF Frames
<1>10. frame' = [frame EXCEPT ![t] = g] /\ frame' \in [Threads -> Frames] /\ frame'[t] = g
    BY <1>3, <1>7, <1>8
<1>11. PICK r \in Requests, k \in {"moved", "unlocktable"} :
        /\ Ask(t, r.kind, r.i, r.v, k)
        /\ \/ /\ f.fn = "insert" /\ f.i > f.pos /\ k = "moved"
              /\ r.kind = "get" /\ r.i = f.i - 1
           \/ /\ f.fn = "insert" /\ f.i <= f.pos /\ k = "unlocktable"
              /\ r.kind = "set" /\ r.i = f.pos /\ r.v = f.v
           \/ /\ f.fn = "remove" /\ f.i < n /\ k = "moved"
              /\ r.kind = "get" /\ r.i = f.i + 1
           \/ /\ f.fn = "remove" /\ f.i >= n /\ k = "unlocktable"
              /\ r.kind = "set" /\ r.i = f.i /\ r.v = NoValue
    <2>1. CASE /\ f.fn = "insert" /\ f.i > f.pos
               /\ Ask(t, "get", f.i - 1, NoValue, "moved")
        <3>0. f.i - 1 \in Nat
            BY <1>2, <2>1
        <3>1. PICK r \in Requests : r = [kind |-> "get", i |-> f.i - 1, v |-> NoValue]
            BY <3>0 DEF Requests, Elements
        <3>2. r.kind = "get" /\ r.i = f.i - 1 /\ r.v = NoValue
            BY <3>1
        <3> QED
            BY <2>1, <3>2
    <2>2. CASE /\ f.fn = "insert" /\ f.i <= f.pos
               /\ Ask(t, "set", f.pos, f.v, "unlocktable")
        <3>1. PICK r \in Requests : r = [kind |-> "set", i |-> f.pos, v |-> f.v]
            BY <1>2 DEF Requests
        <3>2. r.kind = "set" /\ r.i = f.pos /\ r.v = f.v
            BY <3>1
        <3> QED
            BY <2>2, <3>2
    <2>3. CASE /\ f.fn = "remove" /\ f.i < n
               /\ Ask(t, "get", f.i + 1, NoValue, "moved")
        <3>0. f.i + 1 \in Nat
            BY <1>2
        <3>1. PICK r \in Requests : r = [kind |-> "get", i |-> f.i + 1, v |-> NoValue]
            BY <3>0 DEF Requests, Elements
        <3>2. r.kind = "get" /\ r.i = f.i + 1 /\ r.v = NoValue
            BY <3>1
        <3> QED
            BY <2>3, <3>2
    <2>4. CASE /\ f.fn = "remove" /\ f.i >= n
               /\ Ask(t, "set", f.i, NoValue, "unlocktable")
        <3>1. PICK r \in Requests : r = [kind |-> "set", i |-> f.i, v |-> NoValue]
            BY <1>2 DEF Requests, Elements
        <3>2. r.kind = "set" /\ r.i = f.i /\ r.v = NoValue
            BY <3>1
        <3> QED
            BY <2>4, <3>2
    <2>5. f.fn = "remove" => Len(array) = n
        BY <1>4
    <2> QED
        BY <1>0, <1>2, <2>1, <2>2, <2>3, <2>4, <2>5 DEF moves
<1>12. /\ request' \in [Threads -> Requests] /\ request'[t].kind = r.kind
       /\ request'[t].i = r.i /\ request'[t].v = r.v
    <2>1. [kind |-> r.kind, i |-> r.i, v |-> r.v] \in Requests
        BY DEF Requests
    <2> QED
        BY <1>3, <1>11, <2>1 DEF Ask
<1>13. /\ pc' \in [Threads -> PCs] /\ pc'[t] = "want"
       /\ then' \in [Threads -> PCs] /\ then'[t] = k
    BY <1>3, <1>11 DEF Ask, Goto, PCs
<1>14. \A u \in Threads \ {t} : Untouched(u)
    BY <1>1, <1>3, <1>10, <1>11 DEF Ask, Goto, Untouched
<1>15. Inside(t)'
    <2>1. g.fn = "insert" => g.v \in Values
        BY <1>0, <1>2, <1>6, <1>9 DEF Inside
    <2> QED
        BY <1>0, <1>1, <1>2, <1>9, <1>10, <1>13, <2>1 DEF Inside, PlacesInside, Asking
<1>16. f.fn = "insert" => Inserting(t)'
    <2>1. ASSUME f.fn = "insert" PROVE MovedUp(f.i)'
        BY <1>1, <1>4, <2>1 DEF MovedUp
    <2> QED
        BY <1>0, <1>1, <1>4, <1>6, <1>9, <1>10, <1>11, <1>12, <1>13, <2>1 DEF Inserting, Asking
<1>17. f.fn = "remove" => Removing(t)'
    <2>1. ASSUME f.fn = "remove" PROVE MovedDown(f.pos, f.i)' /\ Was(f.pos)' = Was(f.pos)
        BY <1>1, <1>4, <2>1 DEF MovedDown, Was
    <2> QED
        BY <1>0, <1>1, <1>4, <1>6, <1>9, <1>10, <1>11, <1>12, <1>13, <2>1 DEF Removing, Asking, Was
<1> QED
    BY <1>0, <1>1, <1>2, <1>6, <1>9, <1>10, <1>12, <1>13, <1>14, <1>15, <1>16, <1>17, InsideKeeps

LEMMA UnlockTableKeeps ==
    ASSUME IInv, Allowed = {}, NEW t \in Threads, lua_unlocktable(t)
    PROVE  IInv' /\ Moving = {t} /\ Moving' = {}
<1>1. /\ UNCHANGED <<shared, array, fresh, request, then, before, top, ops>>
      /\ pc[t] = "unlocktable" /\ pc' = [pc EXCEPT ![t] = "out"]
      /\ frame' = [frame EXCEPT ![t] = NoFrame]
    BY DEF lua_unlocktable, Goto
<1>2. t \in Moving /\ Inside(t) /\ Moving = {t}
    BY <1>1, InsideHere
<1>3. shared => writer = t /\ level = 1
    BY <1>2, TableLockAssumption DEF IInv, Locks, LockReturned
<1>4. ~shared => writer = NoThread /\ level = 0
    BY DEF IInv, OneUser, Locks
<1>5. writer' = NoThread /\ level' = 0
    <2>1. CASE shared
        BY <1>3, <2>1 DEF lua_unlocktable
    <2>2. CASE ~shared
        BY <1>4, <2>2 DEF lua_unlocktable
    <2> QED
        BY <2>1, <2>2
<1>6. NoFrame \in Frames /\ NoFrame.fn = "none"
    BY DEF NoFrame, Frames, Elements
<1>7. /\ frame' \in [Threads -> Frames] /\ frame'[t] = NoFrame
      /\ pc' \in [Threads -> PCs] /\ pc'[t] = "out"
      /\ \A u \in Threads \ {t} : Untouched(u)
    BY <1>1, <1>6 DEF IInv, Types, PCs, Untouched
<1>8. Types' /\ OneUser'
    BY <1>1, <1>5, <1>7 DEF IInv, Types, OneUser
<1>9. Moving' = {}
    BY <1>2, <1>6, <1>7 DEF Moving, Untouched
<1>10. Locks'
    BY <1>5, <1>9 DEF Locks, LockReturned
<1>11. Called(t)'
    BY <1>6, <1>7, <1>9 DEF Called, Outside, PlacesOutside
<1> QED
    BY <1>2, <1>7, <1>8, <1>9, <1>10, <1>11, StepKeeps

----------------------------------------------------------------------------
LEMMA InvariantInit ==
    ASSUME Init PROVE IInv /\ Moving = {}
<1>1. NoFrame \in Frames /\ NoFrame.fn = "none" /\ NoRequest \in Requests
    BY DEF NoFrame, NoRequest, Frames, Requests, Elements
<1>2. array \in Seq(Values) /\ fresh \subseteq Values /\ before \in Seq(Values)
    BY TableLockAssumption DEF Init
<1>3. Types
    BY <1>1, <1>2 DEF Init, Types, PCs, Elements
<1>4. Moving = {}
    BY <1>1 DEF Init, Moving
<1>5. OneUser /\ Locks
    BY <1>4 DEF Init, OneUser, Locks, LockReturned
<1>6. \A t \in Threads : Called(t)
    BY <1>1, <1>4 DEF Init, Called, Outside, PlacesOutside
<1> QED
    BY <1>3, <1>4, <1>5, <1>6 DEF IInv

LEMMA InvariantStep ==
    ASSUME IInv, Allowed = {}, [Next]_vars PROVE IInv'
<1>1. CASE UNCHANGED vars
    <2>1. \A t \in Threads : Untouched(t)
        BY <1>1 DEF vars, lockVars, Untouched
    <2>2. ASSUME NEW t \in Threads PROVE Called(t)'
        BY <1>1, <2>1, OthersStay DEF Untouched, IInv, vars, lockVars
    <2>3. Moving' = Moving
        BY <1>1 DEF Moving, vars, lockVars
    <2> QED
        BY <1>1, <2>2, <2>3 DEF IInv, Types, OneUser, Locks, LockReturned, vars, lockVars
<1>2. ASSUME NEW t \in Threads, Call(t) PROVE IInv'
    <2>1. CASE enter_core(t) \/ leave_core(t) \/ vm_len(t) \/ vm_raise(t) \/ t_share(t)
        BY <2>1, CoreKeeps, PlainKeeps, SharingKeeps
    <2>2. ASSUME NEW i \in 1 .. MaxLen, vm_access(t, "get", i, NoValue) \/ lua_raw(t, "get", i, NoValue)
          PROVE  IInv'
        BY <2>2, RequestKeeps DEF Elements
    <2>3. ASSUME NEW i \in 1 .. MaxLen, NEW v \in fresh, vm_access(t, "set", i, v) \/ lua_raw(t, "set", i, v)
          PROVE  IInv'
        <3>1. v \in Values /\ v \in Elements
            BY DEF IInv, Types, Elements
        <3> QED
            BY <2>3, <3>1, RequestKeeps
    <2>4. ASSUME NEW i \in 0 .. MaxLen, tremove(t, i) \/ \E v \in fresh : tinsert(t, i, v)
          PROVE  IInv'
        BY <2>4, CallKeeps
    <2> QED
        BY <1>2, <2>1, <2>2, <2>3, <2>4 DEF Call
<1>3. ASSUME NEW t \in Threads, Step(t) PROVE IInv'
    <2>1. CASE access(t)
        <3>1. frame[t].fn \in {"none", "insert", "remove"}
            BY DEF IInv, Types, Frames
        <3> QED
            BY <2>1, <3>1, AccessOutsideKeeps, AccessInsertKeeps, AccessRemoveKeeps
    <2> QED
        BY <1>3, <2>1, LockedKeeps, LockTableKeeps, GetnKeeps, MovesKeeps, MovedKeeps,
           UnlockTableKeeps DEF Step
<1> QED
    BY <1>1, <1>2, <1>3 DEF Next

THEOREM TableLockInvariant ==
    ASSUME Allowed = {} PROVE Spec => []IInv
<1>1. Init => IInv
    BY InvariantInit
<1>2. IInv /\ [Next]_vars => IInv'
    BY InvariantStep
<1> QED
    BY <1>1, <1>2, PTL DEF Spec

\* Whoever moves elements of a shared table has its lock, once, and nobody has
\* it otherwise: lua_locktable and lua_unlocktable around table.insert and
\* table.remove, the locks of the core, and table.share.
THEOREM TableLockLockReturned ==
    ASSUME Allowed = {} PROVE Spec => []LockReturned
<1>1. IInv => LockReturned
    BY DEF IInv, Locks
<1> QED
    BY <1>1, TableLockInvariant, PTL

----------------------------------------------------------------------------
(***************************************************************************)
(* The refinement: what the steps do to the array as the others may see it.*)
(***************************************************************************)
Now(t) ==
    IF frame[t].fn = "insert" /\ Len(array) > Len(before)
    THEN InsertAt(before, frame[t].pos, frame[t].v)
    ELSE IF frame[t].fn = "remove" /\ Len(array) < Len(before) THEN array ELSE before

LEMMA ArrayNowIs ==
    /\ Moving = {} => ArrayNow = array
    /\ \A t : Moving = {t} => ArrayNow = Now(t)
<1>1. Moving = {} => ArrayNow = array
    BY DEF ArrayNow
<1>2. ASSUME NEW t, Moving = {t} PROVE ArrayNow = Now(t)
    <2>1. (CHOOSE u \in Moving : TRUE) = t /\ Moving # {}
        BY <1>2
    <2>2. ArrayNow =
            CASE frame[t].fn = "insert" /\ Len(array) > Len(before) ->
                    InsertAt(before, frame[t].pos, frame[t].v)
              [] frame[t].fn = "remove" /\ Len(array) < Len(before) -> array
              [] OTHER -> before
        BY <2>1 DEF ArrayNow
    <2> QED
        BY <2>2 DEF Now
<1> QED
    BY <1>1, <1>2

LEMMA ArrayNowIsNext ==
    /\ Moving' = {} => ArrayNow' = array'
    /\ \A t : Moving' = {t} => ArrayNow' = Now(t)'
<1>1. Moving' = {} => ArrayNow' = array'
    BY DEF ArrayNow
<1>2. ASSUME NEW t, Moving' = {t} PROVE ArrayNow' = Now(t)'
    <2>1. (CHOOSE u \in Moving' : TRUE) = t /\ Moving' # {}
        BY <1>2
    <2>2. ArrayNow' =
            CASE frame'[t].fn = "insert" /\ Len(array') > Len(before') ->
                    InsertAt(before', frame'[t].pos, frame'[t].v)
              [] frame'[t].fn = "remove" /\ Len(array') < Len(before') -> array'
              [] OTHER -> before'
        BY <2>1 DEF ArrayNow
    <2> QED
        BY <2>2 DEF Now
<1> QED
    BY <1>1, <1>2

\* The lengths of the array and of what an insert or a remove has made of it.
LEMMA Lengths ==
    ASSUME IInv, NEW t \in Moving
    PROVE  /\ Len(before) \in Nat
           /\ frame[t].fn = "insert" =>
                /\ frame[t].v \in Values
                /\ \/ Len(array) = Len(before)
                   \/ /\ Len(array) = Len(before) + 1 /\ frame[t].pos \in 1 .. Len(before) + 1
                      /\ Len(InsertAt(before, frame[t].pos, frame[t].v)) = Len(before) + 1
           /\ frame[t].fn = "remove" => Len(array) <= Len(before)
<1>1. t \in Threads /\ frame[t].fn \in {"insert", "remove"} /\ Inside(t) /\ pc[t] # "locktable"
    BY DEF Moving, IInv, Called, Types, Frames
<1>2. before \in Seq(Values) /\ Len(before) \in Nat /\ array \in Seq(Values) /\ Len(array) \in Nat
    BY DEF IInv, Types
<1>3. CASE frame[t].fn = "insert"
    <2>1. Inserting(t) /\ frame[t].v \in Values
        BY <1>1, <1>3 DEF IInv, Called, Inside
    <2>2. \A i \in 1 .. Len(before) + 1 : \A e \in Values :
            Len(InsertAt(before, i, e)) = Len(before) + 1
        BY <1>2, InsertAtValues
    <2>3. CASE pc[t] = "getn"
        BY <1>1, <1>2, <1>3, <2>1, <2>3 DEF Inside
    <2>4. CASE pc[t] \in {"moves", "moved", "want", "access"}
        <3>1. frame[t].pos \in 1 .. Len(before) + 1
            BY <2>1, <2>4 DEF Inserting
        <3>2. Len(array) = Len(before) \/ Len(array) = Len(before) + 1
            BY <1>1, <2>1, <2>4 DEF Inserting, MovedUp, Inside, Asking
        <3> QED
            BY <1>2, <1>3, <2>1, <2>2, <3>1, <3>2
    <2>5. CASE pc[t] = "unlocktable"
        BY <1>2, <1>3, <2>1, <2>2, <2>5 DEF Inserting
    <2> QED
        BY <1>1, <2>3, <2>4, <2>5 DEF Inside, PlacesInside
<1>4. CASE frame[t].fn = "remove"
    <2>1. Removing(t)
        BY <1>1, <1>4 DEF IInv, Called
    <2>2. CASE pc[t] = "getn"
        BY <1>1, <1>2, <1>4, <2>2 DEF Inside
    <2>3. CASE pc[t] \in {"moves", "moved", "want", "access"}
        BY <1>1, <1>2, <1>4, <2>1, <2>3 DEF Removing, MovedDown, Inside, Asking
    <2>4. CASE pc[t] = "unlocktable"
        BY <1>2, <1>4, <2>1, <2>4 DEF Removing
    <2> QED
        BY <1>1, <2>2, <2>3, <2>4 DEF Inside, PlacesInside
<1> QED
    BY <1>1, <1>2, <1>3, <1>4

\* #t, read without the table's lock, is the length of what the others may see.
LEMMA ArrayNowLength ==
    ASSUME IInv PROVE Len(ArrayNow) = Len(array)
<1>1. CASE Moving = {}
    BY <1>1, ArrayNowIs
<1>2. CASE Moving # {}
    <2>1. PICK t \in Moving : Moving = {t}
        BY <1>2, OneMoves
    <2>2. ArrayNow = Now(t)
        BY <2>1, ArrayNowIs
    <2>3. frame[t].fn \in {"insert", "remove"} /\ Len(array) \in Nat
        BY DEF Moving, IInv, Types, Frames
    <2> QED
        BY <2>2, <2>3, Lengths DEF Now
<1> QED
    BY <1>1, <1>2

\* A step of a thread that moves nothing and changes nothing.
LEMMA ArrayNowStays ==
    ASSUME NEW t \in Threads, t \notin Moving, t \notin Moving',
           array' = array, before' = before, \A u \in Threads \ {t} : Untouched(u)
    PROVE  ArrayNow' = ArrayNow
<1>1. Moving' = Moving
    BY DEF Moving, Untouched
<1>2. CASE Moving = {}
    BY <1>1, <1>2 DEF ArrayNow
<1>3. CASE Moving # {}
    <2>1. PICK m \in Moving : m = CHOOSE u \in Moving : TRUE
        BY <1>3
    <2>2. frame'[m] = frame[m]
        BY <2>1 DEF Moving, Untouched
    <2> QED
        BY <1>1, <1>3, <2>1, <2>2 DEF ArrayNow
<1> QED
    BY <1>2, <1>3

----------------------------------------------------------------------------
(***************************************************************************)
(* The refinement, step by step.                                           *)
(***************************************************************************)
LEMMA CallRefines ==
    ASSUME IInv, Allowed = {}, NEW t \in Threads, Call(t) PROVE [Abs!Next]_(Abs!vars)
<1>1. CASE vm_len(t)
    <2>1. t \notin Moving /\ t \notin Moving'
        BY <1>1, OutsideHere DEF vm_len, Moving
    <2>2. ArrayNow' = ArrayNow
        BY <1>1, <2>1, ArrayNowStays DEF vm_len, Begin, lockVars, Untouched, IInv, Types
    <2>3. seen' = [seen EXCEPT ![t] = <<0, Len(ArrayNow)>>]
        BY <1>1, ArrayNowLength DEF vm_len
    <2>4. Abs!len(t)
        BY <2>2, <2>3 DEF Abs!len
    <2> QED
        BY <2>4 DEF Abs!Next
<1>2. CASE ~vm_len(t)
    <2>1. /\ t \notin Moving /\ UNCHANGED <<array, before, seen>>
          /\ \A u \in Threads \ {t} : Untouched(u)
          /\ \/ UNCHANGED frame /\ frame[t].fn = "none"
             \/ pc' = [pc EXCEPT ![t] = "locktable"]
        <3>1. CASE enter_core(t) \/ leave_core(t) \/ vm_raise(t) \/ t_share(t)
            BY <3>1, OutsideHere DEF enter_core, leave_core, vm_raise, t_share, Begin, Goto,
               lockVars, Untouched, IInv, Types
        <3>2. ASSUME NEW i, NEW kind, NEW v, vm_access(t, kind, i, v) \/ lua_raw(t, kind, i, v)
              PROVE  /\ t \notin Moving /\ UNCHANGED <<array, before, seen, frame>>
                     /\ frame[t].fn = "none" /\ \A u \in Threads \ {t} : Untouched(u)
            BY <3>2, OutsideHere DEF vm_access, lua_raw, Ask, Begin, Goto, lockVars, Untouched,
               IInv, Types
        <3>3. ASSUME NEW i, tremove(t, i) \/ \E v \in fresh : tinsert(t, i, v)
              PROVE  /\ t \notin Moving /\ UNCHANGED <<array, before, seen>>
                     /\ pc' = [pc EXCEPT ![t] = "locktable"]
                     /\ \A u \in Threads \ {t} : Untouched(u)
            <4>1. /\ pc[t] = "out" /\ frame[t].fn = "none" /\ UNCHANGED <<array, before, seen>>
                  /\ UNCHANGED <<request, then, top>> /\ pc' = [pc EXCEPT ![t] = "locktable"]
                  /\ ops' = [ops EXCEPT ![t] = @ + 1]
                  /\ \E f : frame' = [frame EXCEPT ![t] = f]
                BY <3>3 DEF tremove, tinsert, Begin, Goto, lockVars
            <4> QED
                BY <4>1, OutsideHere DEF Untouched, IInv, Types
        <3> QED
            BY <1>2, <3>1, <3>2, <3>3 DEF Call
    <2>2. t \notin Moving'
        BY <2>1 DEF Moving, IInv, Types
    <2>3. ArrayNow' = ArrayNow
        BY <2>1, <2>2, ArrayNowStays
    <2> QED
        BY <2>1, <2>3 DEF Abs!vars
<1> QED
    BY <1>1, <1>2

\* The steps of table.insert and table.remove that are no access.
LEMMA MovingRefines ==
    ASSUME IInv, Allowed = {}, NEW t \in Threads,
           lua_lock(t) \/ lua_locktable(t) \/ getn(t) \/ moves(t) \/ moved(t) \/ lua_unlocktable(t)
    PROVE  UNCHANGED <<ArrayNow, seen>>
<1>1. UNCHANGED <<array, seen>>
    BY DEF lua_lock, lua_locktable, getn, moves, moved, lua_unlocktable, lockVars
<1>2. CASE lua_lock(t)
    <2>1. UNCHANGED <<before, frame>> /\ pc[t] = "want" /\ pc' = [pc EXCEPT ![t] = "access"]
        BY <1>2 DEF lua_lock, Goto
    <2>2. Moving' = Moving
        BY <2>1 DEF Moving, IInv, Types
    <2> QED
        BY <1>1, <2>1, <2>2 DEF ArrayNow
<1>3. CASE lua_locktable(t)
    <2>1. Moving = {} /\ Moving' = {t} /\ before' = array
        BY <1>3, LockTableKeeps DEF lua_locktable
    <2>2. Len(array) \in Nat /\ Len(array') = Len(before')
        BY <1>1, <2>1 DEF IInv, Types
    <2>3. Now(t)' = before'
        BY <1>1, <2>1, <2>2 DEF Now
    <2> QED
        BY <1>1, <2>1, <2>3, ArrayNowIs, ArrayNowIsNext
<1>4. CASE getn(t)
    <2>1. Moving = {t} /\ Moving' = {t} /\ array = before /\ UNCHANGED before
        BY <1>4, GetnKeeps DEF getn
    <2>2. Len(array) \in Nat /\ Len(array) = Len(before) /\ Len(array') = Len(before')
        BY <1>1, <2>1 DEF IInv, Types
    <2>3. Now(t) = before /\ Now(t)' = before'
        BY <1>1, <2>1, <2>2 DEF Now
    <2> QED
        BY <1>1, <2>1, <2>3, ArrayNowIs, ArrayNowIsNext
<1>5. CASE moves(t) \/ moved(t)
    <2>1. /\ Moving = {t} /\ Moving' = {t} /\ UNCHANGED before
          /\ frame'[t].fn = frame[t].fn /\ frame'[t].pos = frame[t].pos
          /\ frame[t].fn = "insert" => frame'[t].v = frame[t].v
        BY <1>5, MovesKeeps, MovedKeeps DEF moves, moved
    <2>2. Now(t)' = Now(t)
        <3>1. CASE frame[t].fn = "insert"
            BY <1>1, <2>1, <3>1 DEF Now
        <3>2. CASE frame[t].fn # "insert"
            BY <1>1, <2>1, <3>2 DEF Now
        <3> QED
            BY <3>1, <3>2
    <2> QED
        BY <1>1, <2>1, <2>2, ArrayNowIs, ArrayNowIsNext
<1>6. CASE lua_unlocktable(t)
    <2>1. Moving = {t} /\ Moving' = {} /\ pc[t] = "unlocktable"
        BY <1>6, UnlockTableKeeps DEF lua_unlocktable
    <2>2. /\ frame[t].fn \in {"insert", "remove"}
          /\ frame[t].fn = "insert" => Inserting(t)
          /\ frame[t].fn = "remove" => Removing(t)
        BY <2>1, InsideHere
    <2>3. Now(t) = array
        <3>1. Len(before) \in Nat
            BY DEF IInv, Types
        <3>2. CASE frame[t].fn = "insert"
            <4>1. \/ array = before
                  \/ array = InsertAt(before, frame[t].pos, frame[t].v)
                     /\ frame[t].pos \in 1 .. Len(before) + 1
                BY <2>1, <2>2, <3>2 DEF Inserting
            <4>2. frame[t].v \in Values /\ before \in Seq(Values)
                BY <2>1, <3>2, Lengths DEF IInv, Types
            <4>3. \A i \in 1 .. Len(before) + 1 : \A e \in Values :
                    Len(InsertAt(before, i, e)) = Len(before) + 1
                BY <4>2, InsertAtValues
            <4> QED
                BY <3>1, <3>2, <4>1, <4>2, <4>3 DEF Now
        <3>3. CASE frame[t].fn = "remove"
            BY <2>1, <2>2, <3>1, <3>3 DEF Now, Removing
        <3> QED
            BY <2>2, <3>2, <3>3
    <2> QED
        BY <1>1, <2>1, <2>3, ArrayNowIs, ArrayNowIsNext
<1> QED
    BY <1>1, <1>2, <1>3, <1>4, <1>5, <1>6

LEMMA AccessOutsideRefines ==
    ASSUME IInv, Allowed = {}, NEW t \in Threads, access(t), frame[t].fn = "none"
    PROVE  [Abs!Next]_(Abs!vars)
<1>1. ArrayNow = array /\ ArrayNow' = array'
    BY AccessOutsideKeeps, ArrayNowIs, ArrayNowIsNext
<1>2. /\ Outside(t) /\ request[t].i \in 0 .. MaxLen
      /\ request[t].kind = "set" => request[t].v \in Values
    BY DEF access, IInv, Called, Outside
<1>3. array \in Seq(Values) /\ DOMAIN array = 1 .. Len(array) /\ Len(array) \in Nat
    BY DEF IInv, Types
<1>4. CASE Read(t)
    <2>1. /\ UNCHANGED array
          /\ seen' = [seen EXCEPT ![t] = <<request[t].i, At(request[t].i)>>]
        BY <1>4 DEF Read
    <2>2. Abs!read(t, request[t].i)
        BY <1>1, <2>1 DEF Abs!read, Abs!At, At
    <2> QED
        BY <1>2, <2>2 DEF Abs!Next
<1>5. CASE Write(t)
    <2>1. /\ request[t].v \in Values /\ request[t].v # NoValue /\ UNCHANGED seen
          /\ Overwrite(t) \/ Add(t)
        BY <1>2, <1>5, TableLockAssumption DEF Write, Overwrite, Add
    <2>2. CASE UNCHANGED array
        BY <1>1, <2>1, <2>2 DEF Abs!vars
    <2>3. CASE /\ request[t].i \in 1 .. Len(array)
               /\ array' = [array EXCEPT ![request[t].i] = request[t].v]
        <3>1. Abs!set(request[t].i, request[t].v)
            BY <1>1, <1>3, <2>1, <2>3 DEF Abs!set
        <3>2. request[t].i \in 1 .. Len(ArrayNow) + 1
            BY <1>1, <1>3, <2>3
        <3> QED
            BY <2>1, <3>1, <3>2 DEF Abs!Next
    <2>4. CASE request[t].i = Len(array) + 1 /\ array' = Append(array, request[t].v)
        <3>1. Abs!set(request[t].i, request[t].v)
            BY <1>1, <2>1, <2>4 DEF Abs!set
        <3>2. request[t].i \in 1 .. Len(ArrayNow) + 1
            BY <1>1, <1>3, <2>4
        <3> QED
            BY <2>1, <3>1, <3>2 DEF Abs!Next
    <2> QED
        BY <1>3, <2>1, <2>2, <2>3, <2>4 DEF Overwrite, Add
<1> QED
    BY <1>4, <1>5 DEF access

\* An access of an insert changes the array with a write that leaves it longer
\* than the writer found it.
LEMMA InsertAccess ==
    ASSUME IInv, NEW t \in Threads, access(t), frame[t].fn = "insert"
    PROVE  /\ UNCHANGED seen
           /\ UNCHANGED array \/ Len(array') = Len(before) + 1
           /\ Len(array) = Len(before) => frame[t].pos \in 1 .. Len(before) + 1
<1>1. /\ t \in Moving /\ Inside(t) /\ pc[t] = "access" /\ Asking(t) /\ Inserting(t)
      /\ then[t] \in {"moves", "moved", "unlocktable"}
    BY AccessHere DEF IInv, Called
<1>2. /\ array \in Seq(Values) /\ before \in Seq(Values) /\ frame[t] \in Frames
      /\ Len(before) \in Nat /\ Len(array) \in Nat
    BY DEF IInv, Types
<1>3. frame[t].pos \in 1 .. Len(before) + 1 /\ frame[t].i \in frame[t].pos .. Len(before) + 1
    BY <1>1 DEF Inserting
<1>4. CASE Read(t)
    BY <1>3, <1>4 DEF Read
<1>5. CASE Write(t)
    <2>1. then[t] \in {"moves", "unlocktable"}
        BY <1>1, <1>5 DEF Write, Inserting
    <2>2. PICK j \in 1 .. Len(before) + 1 :
            /\ MovedUp(j) /\ request[t].i = j /\ request[t].v \in Values
        <3>1. CASE then[t] = "moves"
            <4>1. /\ frame[t].i <= Len(before) /\ MovedUp(frame[t].i + 1)
                  /\ request[t].i = frame[t].i + 1 /\ request[t].v = before[frame[t].i]
                BY <1>1, <3>1 DEF Inserting
            <4>2. request[t].v \in Values /\ frame[t].i + 1 \in 1 .. Len(before) + 1
                BY <1>2, <1>3, <4>1
            <4> QED
                BY <4>1, <4>2
        <3>2. CASE then[t] = "unlocktable"
            BY <1>1, <1>3, <3>2 DEF Inserting, Inside
        <3> QED
            BY <2>1, <3>1, <3>2
    <2>3. /\ UNCHANGED seen
          /\ Len(array') = IF request[t].i = Len(array) + 1 THEN Len(array) + 1 ELSE Len(array)
        BY <1>5, <2>1, <2>2, WritesElement
    <2> QED
        BY <1>2, <1>3, <2>2, <2>3 DEF MovedUp
<1> QED
    BY <1>4, <1>5 DEF access

LEMMA RemoveAccess ==
    ASSUME IInv, NEW t \in Threads, access(t), frame[t].fn = "remove", then[t] # "unlocktable"
    PROVE  UNCHANGED seen /\ Len(array) = Len(before) /\ Len(array') = Len(before)
<1>1. /\ t \in Moving /\ Inside(t) /\ pc[t] = "access" /\ Asking(t) /\ Removing(t)
      /\ then[t] \in {"moves", "moved"}
    BY AccessHere DEF IInv, Called
<1>2. /\ array \in Seq(Values) /\ before \in Seq(Values) /\ frame[t] \in Frames
      /\ Len(before) \in Nat /\ Len(array) \in Nat /\ frame[t].i \in Nat /\ frame[t].pos \in Nat
    BY DEF IInv, Types, Frames
<1>3. Len(array) = Len(before)
    BY <1>1 DEF Removing, MovedDown
<1>4. CASE Read(t)
    BY <1>1, <1>3, <1>4 DEF Read
<1>5. CASE Write(t)
    <2>1. /\ then[t] = "moves" /\ frame[t].i > frame[t].pos
          /\ request[t].i = frame[t].i - 1 /\ request[t].v = before[frame[t].i]
          /\ frame[t].i <= Len(before)
        <3>1. request[t].kind = "set" /\ request[t].kind # "get" /\ then[t] = "moves"
            BY <1>1, <1>5 DEF Write, Removing
        <3> QED
            BY <1>1, <1>2, <3>1 DEF Removing
    <2>2. request[t].v \in Values /\ request[t].i # Len(array) + 1
        BY <1>2, <1>3, <2>1
    <2>3. /\ UNCHANGED seen
          /\ Len(array') = IF request[t].i = Len(array) + 1 THEN Len(array) + 1 ELSE Len(array)
        BY <1>5, <2>1, <2>2, WritesElement
    <2> QED
        BY <1>3, <2>2, <2>3
<1> QED
    BY <1>4, <1>5 DEF access

LEMMA AccessInsideRefines ==
    ASSUME IInv, Allowed = {}, NEW t \in Threads, access(t), frame[t].fn # "none"
    PROVE  [Abs!Next]_(Abs!vars)
<1>1. /\ t \in Moving /\ pc[t] = "access" /\ then[t] \in {"moves", "moved", "unlocktable"}
      /\ UNCHANGED <<shared, writer, level, fresh, request, then, frame, before, ops>>
    BY AccessHere
<1>2. Moving = {t} /\ frame[t].fn \in {"insert", "remove"}
    BY <1>1, OneMoves DEF IInv, Types, Frames
<1>3. Moving' = {t}
    <2>1. IInv'
        BY <1>2, AccessInsertKeeps, AccessRemoveKeeps
    <2>2. pc' = [pc EXCEPT ![t] = then[t]] \/ then[t] = "vm"
        BY <1>1 DEF access, Read, Write, Overwrite, Add, Erase, Return, Goto
    <2>3. \A u \in Threads : u \in Moving' <=> u \in Moving
        BY <1>1, <2>2 DEF Moving, IInv, Types
    <2> QED
        BY <1>2, <2>3 DEF Moving
<1>4. ArrayNow = Now(t) /\ ArrayNow' = Now(t)'
    BY <1>2, <1>3, ArrayNowIs, ArrayNowIsNext
<1>5. before \in Seq(Values) /\ Len(before) \in Nat /\ DOMAIN before = 1 .. Len(before)
    BY DEF IInv, Types
<1>6. CASE frame[t].fn = "insert"
    <2>1. /\ UNCHANGED seen
          /\ UNCHANGED array \/ Len(array') = Len(before) + 1
          /\ Len(array) = Len(before) => frame[t].pos \in 1 .. Len(before) + 1
          /\ Len(array) = Len(before) \/ Len(array) = Len(before) + 1
          /\ frame[t].v \in Values
        BY <1>1, <1>6, InsertAccess, Lengths
    <2>2. CASE UNCHANGED array
        <3>1. Now(t)' = Now(t)
            BY <1>1, <2>2 DEF Now
        <3> QED
            BY <1>4, <2>1, <3>1 DEF Abs!vars
    <2>3. CASE Len(array') = Len(before) + 1
        <3>1. Now(t)' = InsertAt(before, frame[t].pos, frame[t].v)
            BY <1>1, <1>5, <1>6, <2>3 DEF Now
        <3>2. CASE Len(array) = Len(before) + 1
            <4>1. Now(t) = InsertAt(before, frame[t].pos, frame[t].v)
                BY <1>5, <1>6, <3>2 DEF Now
            <4> QED
                BY <1>4, <2>1, <3>1, <4>1 DEF Abs!vars
        <3>3. CASE Len(array) = Len(before)
            <4>1. Now(t) = before
                BY <1>5, <1>6, <3>3 DEF Now
            <4>2. Abs!insert(frame[t].pos, frame[t].v)
                BY <1>4, <2>1, <3>1, <4>1 DEF Abs!insert, Abs!InsertAt, InsertAt
            <4>3. frame[t].pos \in 1 .. Len(ArrayNow) + 1 /\ frame[t].v \in Values
                BY <1>4, <2>1, <3>3, <4>1
            <4> QED
                BY <4>2, <4>3 DEF Abs!Next
        <3> QED
            BY <2>1, <3>2, <3>3
    <2> QED
        BY <2>1, <2>2, <2>3
<1>7. CASE frame[t].fn = "remove" /\ then[t] # "unlocktable"
    <2>1. UNCHANGED seen /\ Len(array) = Len(before) /\ Len(array') = Len(before')
        BY <1>1, <1>7, RemoveAccess
    <2>2. Now(t) = before /\ Now(t)' = before'
        BY <1>1, <1>5, <1>7, <2>1 DEF Now
    <2> QED
        BY <1>1, <1>4, <2>1, <2>2 DEF Abs!vars
<1>8. CASE frame[t].fn = "remove" /\ then[t] = "unlocktable"
    <2>1. /\ seen' = [seen EXCEPT ![t] = <<frame[t].pos, frame[t].v>>]
          /\ \/ /\ frame[t].pos \in 1 .. Len(before) /\ frame[t].v = before[frame[t].pos]
                /\ array' = RemoveAt(before, frame[t].pos) /\ Len(array') < Len(before)
             \/ /\ frame[t].pos \in 0 .. MaxLen /\ frame[t].pos \notin 1 .. Len(before)
                /\ frame[t].v = NoValue /\ array = before /\ array' = before
        BY <1>8, RemoveErases, ErasesElement
    <2>2. Len(array) <= Len(before)
        BY <1>1, <1>8, Lengths
    <2>3. CASE /\ frame[t].pos \in 1 .. Len(before) /\ frame[t].v = before[frame[t].pos]
               /\ array' = RemoveAt(before, frame[t].pos) /\ Len(array') < Len(before)
        <3>1. Now(t) = before
            <4>1. MovedDown(frame[t].pos, frame[t].i)
                BY <1>1, <1>8 DEF IInv, Called, Removing, Asking
            <4> QED
                BY <1>5, <1>8, <4>1 DEF Now, MovedDown
        <3>2. Now(t)' = RemoveAt(before, frame[t].pos)
            BY <1>1, <1>5, <1>8, <2>3 DEF Now
        <3>3. Abs!remove(t, frame[t].pos)
            BY <1>4, <2>1, <2>3, <3>1, <3>2 DEF Abs!remove, Abs!RemoveAt, RemoveAt
        <3>4. frame[t].pos \in DOMAIN ArrayNow
            BY <1>4, <1>5, <2>3, <3>1
        <3> QED
            BY <3>3, <3>4 DEF Abs!Next
    <2>4. CASE /\ frame[t].pos \in 0 .. MaxLen /\ frame[t].pos \notin 1 .. Len(before)
               /\ frame[t].v = NoValue /\ array = before /\ array' = before
        <3>1. Now(t) = before /\ Now(t)' = before
            BY <1>1, <1>5, <1>8, <2>4 DEF Now
        <3>2. Abs!read(t, frame[t].pos)
            BY <1>4, <1>5, <2>1, <2>4, <3>1 DEF Abs!read, Abs!At
        <3> QED
            BY <2>4, <3>2 DEF Abs!Next
    <2> QED
        BY <2>1, <2>3, <2>4
<1> QED
    BY <1>2, <1>6, <1>7, <1>8

\* Shared tables refine arrays whose accesses, inserts and removes take effect
\* in one step: table.insert and table.remove, which enter the core for every
\* element they move, show as a whole to the machine and to the raw accesses.
THEOREM TableLockRefines ==
    ASSUME Allowed = {} PROVE Spec => RefinesTableAbs
<1>1. Init => Abs!Init
    <2>1. ASSUME Init PROVE Abs!Init
        BY <2>1, InvariantInit, ArrayNowIs DEF Init, Abs!Init
    <2> QED
        BY <2>1
<1>2. IInv /\ [Next]_vars => [Abs!Next]_(Abs!vars)
    <2> SUFFICES ASSUME IInv, [Next]_vars PROVE [Abs!Next]_(Abs!vars)
        OBVIOUS
    <2>1. CASE UNCHANGED vars
        <3>1. Moving' = Moving
            BY <2>1 DEF Moving, vars, lockVars
        <3> QED
            BY <2>1, <3>1 DEF ArrayNow, Abs!vars, vars, lockVars
    <2>2. ASSUME NEW t \in Threads, Step(t) PROVE [Abs!Next]_(Abs!vars)
        BY <2>2, MovingRefines, AccessOutsideRefines, AccessInsideRefines DEF Step, Abs!vars
    <2> QED
        BY <2>1, <2>2, CallRefines DEF Next
<1> QED
    BY <1>1, <1>2, TableLockInvariant, PTL DEF Spec, RefinesTableAbs, Abs!Spec
=============================================================================
