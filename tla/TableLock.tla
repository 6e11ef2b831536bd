----------------------------- MODULE TableLock -----------------------------
(***************************************************************************)
(* A table that gets shared between threads (table.share): the machine     *)
(* (lvm.c), the raw accesses of the API (lapi.c), the collector (lgc.c) and*)
(* table.insert and table.remove (ltablib.c), between the global lock of   *)
(* the Lua core and the table's own lock.                                  *)
(*                                                                         *)
(* The core is entered with the global lock, and the table's lock taken    *)
(* inside it. The table library does the opposite: it takes the table's    *)
(* lock outside the core and enters the core for every element it moves.   *)
(*                                                                         *)
(* Grain: waiting for a lock is a state. What the core does with both      *)
(* locks is one action, the release of both included. Reading needs the    *)
(* table's lock only while it reads, so the lock is modelled by its writer *)
(* (module RwLock has the lock itself).                                    *)
(***************************************************************************)
EXTENDS Naturals, Sequences, SequencesExt

CONSTANTS
    Threads,
    Values,     \* elements, each written once
    Initial,    \* the arrays a table may have when it gets shared
    MaxLen,     \* bound: positions a program names
    MaxOps,     \* bound: operations each thread performs
    Allowed,    \* what programs do although a shared table does not bear it
    NoThread, NoValue

\* "busy": other threads use the table before, or while, it becomes shared.
\* "raise": an access that raises an error under the table's lock.
ASSUME TableLockAssumption ==
    /\ Allowed \subseteq {"busy", "raise"}
    /\ NoThread \notin Threads
    /\ NoValue \notin Values
    /\ Initial \subseteq Seq(Values)
    /\ MaxLen \in Nat /\ MaxOps \in Nat

VARIABLES
    global,     \* the thread that holds G(L)->lock
    shared,     \* t->is_shared
    writer,     \* the thread that holds the table's lock for writing
    level,      \* how many times it has taken it and not given it back
    array,      \* the array part of the table
    fresh,      \* values no thread has written yet
    pc,         \* pc[t]: where t is
    request,    \* request[t]: the access of the core t is in, or on its way to
    then,       \* then[t]: where t goes on after that access
    frame,      \* frame[t]: the locals of t's call of table.insert or remove
    before,     \* the array when the writer took the lock
    seen,       \* seen[t]: what t's program has read last, and at which index
    top,        \* top[t]: the value on top of t's stack
    ops         \* ops[t]: operations t has begun

lockVars == <<global, shared, writer, level>>
vars == <<global, shared, writer, level, array, fresh, pc, request, then, frame, before, seen,
          top, ops>>

\* "vm": in the core, with the global lock; "out": in C code, without it.
\* "want" waits for the global lock and "access" for the table's; "locktable"
\* waits for the table's lock outside the core.
PCs == {"vm", "out", "want", "access", "adding", "locktable", "getn", "moves",
        "moved", "unlocktable"}

NoRequest == [kind |-> "none", i |-> 0, v |-> NoValue]
NoFrame == [fn |-> "none", arg |-> 0, pos |-> 0, i |-> 0, v |-> NoValue]

At(i) == IF i \in DOMAIN array THEN array[i] ELSE NoValue

\* t gets the table's lock, for reading or for writing.
Unlocked(t) == writer \in {NoThread, t}

May(what) == what \in Allowed

\* Only one thread knows a table that is not shared.
Known(t) == shared \/ May("busy") \/ \A u \in Threads \ {t} : ops[u] = 0

Begin(t) ==
    /\ ops[t] < MaxOps /\ Known(t)
    /\ ops' = [ops EXCEPT ![t] = @ + 1]

Goto(t, where) == pc' = [pc EXCEPT ![t] = where]

\* t asks the core for an access, from C code, and goes on at k.
Ask(t, kind, i, v, k) ==
    /\ Goto(t, "want")
    /\ request' = [request EXCEPT ![t] = [kind |-> kind, i |-> i, v |-> v]]
    /\ then' = [then EXCEPT ![t] = k]

Init ==
    /\ global = NoThread
    /\ shared = FALSE
    /\ writer = NoThread /\ level = 0
    /\ array \in Initial
    /\ fresh = {v \in Values : \A i \in DOMAIN array : array[i] # v}
    /\ pc = [t \in Threads |-> "out"]
    /\ request = [t \in Threads |-> NoRequest]
    /\ then = [t \in Threads |-> "out"]
    /\ frame = [t \in Threads |-> NoFrame]
    /\ before = <<>>
    /\ seen = [t \in Threads |-> <<0, NoValue>>]
    /\ top = [t \in Threads |-> NoValue]
    /\ ops = [t \in Threads |-> 0]

----------------------------------------------------------------------------
\* The core: entered from C code, left to call a C function or to let other
\* threads in (luai_threadyield).
enter_core(t) ==
    /\ pc[t] = "out" /\ frame[t].fn = "none"
    /\ global = NoThread
    /\ global' = t
    /\ Goto(t, "vm")
    /\ UNCHANGED <<shared, writer, level, array, fresh, request, then, frame, before, seen, top, ops>>

leave_core(t) ==
    /\ pc[t] = "vm"
    /\ global' = NoThread
    /\ Goto(t, "out")
    /\ UNCHANGED <<shared, writer, level, array, fresh, request, then, frame, before, seen, top, ops>>

\* An instruction that reads or writes t[i], or a step of the collector that
\* traverses the table.
vm_access(t, kind, i, v) ==
    /\ pc[t] = "vm"
    /\ Begin(t)
    /\ Goto(t, "access")
    /\ request' = [request EXCEPT ![t] = [kind |-> kind, i |-> i, v |-> v]]
    /\ then' = [then EXCEPT ![t] = "vm"]
    /\ fresh' = fresh \ {v}
    /\ UNCHANGED <<lockVars, array, frame, before, seen, top>>

\* #t reads the length without the table's lock.
vm_len(t) ==
    /\ pc[t] = "vm"
    /\ Begin(t)
    /\ seen' = [seen EXCEPT ![t] = <<0, Len(array)>>]
    /\ UNCHANGED <<lockVars, array, fresh, pc, request, then, frame, before, top>>

\* t[nil] = v: luaH_finishset raises its error with the lock of a shared table
\* taken, and luaD_throw leaves it taken.
vm_raise(t) ==
    /\ pc[t] = "vm" /\ Unlocked(t)
    /\ shared => May("raise")
    /\ Begin(t)
    /\ writer' = IF shared THEN t ELSE writer
    /\ level' = IF shared THEN level + 1 ELSE level
    /\ UNCHANGED <<global, shared, array, fresh, pc, request, then, frame, before, seen, top>>

\* table.share, called by who made the table, sets the flag with no lock.
t_share(t) ==
    /\ pc[t] = "out" /\ frame[t].fn = "none"
    /\ ~shared /\ Known(t)
    /\ shared' = TRUE
    /\ UNCHANGED <<global, writer, level, array, fresh, pc, request, then, frame, before,
                   seen, top, ops>>

\* lua_rawgeti and lua_rawseti, called by C code other than the table library.
lua_raw(t, kind, i, v) ==
    /\ pc[t] = "out" /\ frame[t].fn = "none"
    /\ Begin(t)
    /\ Ask(t, kind, i, v, "out")
    /\ fresh' = fresh \ {v}
    /\ UNCHANGED <<lockVars, array, frame, before, seen, top>>

\* lua_lock, at the start of an API function.
lua_lock(t) ==
    /\ pc[t] = "want"
    /\ global = NoThread
    /\ global' = t
    /\ Goto(t, "access")
    /\ UNCHANGED <<shared, writer, level, array, fresh, request, then, frame, before, seen, top, ops>>

\* Leave the access: back to the instruction, or out of the core.
Return(t) ==
    /\ Goto(t, then[t])
    /\ global' = IF then[t] = "vm" THEN t ELSE NoThread

\* Under the table's lock: read, overwrite, add at the end, or (remove only) set
\* an element to nil and return what was there. What lands past the end goes to
\* the hash part, which is not modelled. An instruction that finds no element
\* releases the lock and takes it again in luaV_finishset. (Mutant: reads
\* do not take the lock.)
Read(t) ==
    /\ request[t].kind = "get"
    /\ top' = [top EXCEPT ![t] = At(request[t].i)]
    /\ seen' = IF frame[t].fn = "none" THEN [seen EXCEPT ![t] = <<request[t].i, At(request[t].i)>>] ELSE seen
    /\ Return(t)
    /\ UNCHANGED array
Overwrite(t) ==
    /\ request[t].i \in DOMAIN array
    /\ array' = [array EXCEPT ![request[t].i] = request[t].v]
    /\ Return(t)
    /\ UNCHANGED seen
Add(t) ==
    /\ request[t].i \notin DOMAIN array
    /\ \/ /\ then[t] = "vm" /\ pc[t] = "access"
          /\ Goto(t, "adding")
          /\ UNCHANGED <<global, array>>
       \/ /\ then[t] # "vm" \/ pc[t] = "adding"
          /\ array' = IF request[t].i = Len(array) + 1 THEN Append(array, request[t].v) ELSE array
          /\ Return(t)
    /\ UNCHANGED seen
Erase(t) ==
    /\ array' = IF request[t].i \in DOMAIN array THEN SubSeq(array, 1, request[t].i - 1) ELSE array
    /\ seen' = [seen EXCEPT ![t] = <<frame[t].pos, frame[t].v>>]
    /\ Return(t)
Write(t) ==
    /\ request[t].kind = "set"
    /\ \/ request[t].v # NoValue /\ (Overwrite(t) \/ Add(t))
       \/ request[t].v = NoValue /\ Erase(t)
    /\ UNCHANGED top

access_unlocked_read(t) ==
    /\ pc[t] \in {"access", "adding"}
    /\ Read(t) \/ (Unlocked(t) /\ Write(t))
    /\ UNCHANGED <<shared, writer, level, fresh, request, then, frame, before, ops>>
access(t) ==
    /\ pc[t] \in {"access", "adding"}
    /\ Unlocked(t)
    /\ Read(t) \/ Write(t)
    /\ UNCHANGED <<shared, writer, level, fresh, request, then, frame, before, ops>>

----------------------------------------------------------------------------
\* table.insert(t, v), table.insert(t, pos, v), table.remove(t) and
\* table.remove(t, pos). arg is the position given, 0 when none is.
tinsert(t, arg, v) ==
    /\ pc[t] = "out" /\ frame[t].fn = "none"
    /\ Begin(t)
    /\ frame' = [frame EXCEPT ![t] = [NoFrame EXCEPT !.fn = "insert", !.arg = arg, !.v = v]]
    /\ fresh' = fresh \ {v}
    /\ Goto(t, "locktable")
    /\ UNCHANGED <<lockVars, array, request, then, before, seen, top>>

\* remove reads the length once before it takes the lock: the default position.
tremove(t, arg) ==
    /\ pc[t] = "out" /\ frame[t].fn = "none"
    /\ Begin(t)
    /\ global = NoThread
    /\ frame' = [frame EXCEPT ![t] = [NoFrame EXCEPT !.fn = "remove", !.arg = arg,
                                      !.pos = IF arg = 0 THEN Len(array) ELSE arg]]
    /\ Goto(t, "locktable")
    /\ UNCHANGED <<lockVars, array, fresh, request, then, before, seen, top>>

\* The table's lock, taken outside the core. (Mutant: as lua_rawseti takes it,
\* without a look at the flag.)
lua_locktable_always(t) ==
    /\ pc[t] = "locktable" /\ Unlocked(t)
    /\ writer' = t
    /\ level' = level + 1
    /\ before' = array
    /\ Goto(t, "getn")
    /\ UNCHANGED <<global, shared, array, fresh, request, then, frame, seen, top, ops>>
lua_locktable(t) ==
    /\ pc[t] = "locktable"
    /\ \/ /\ shared /\ Unlocked(t)
          /\ writer' = t
          /\ level' = level + 1
       \/ /\ ~shared
          /\ UNCHANGED <<writer, level>>
    /\ before' = array
    /\ Goto(t, "getn")
    /\ UNCHANGED <<global, shared, array, fresh, request, then, frame, seen, top, ops>>

\* aux_getn, in the core, and the check of the position. insert moves the
\* elements from e down to pos, remove the ones from pos up to size.
getn(t) ==
    LET f == frame[t]
        size == Len(array)
        pos == CASE f.fn = "insert" /\ f.arg = 0 -> size + 1
                 [] f.fn = "remove" /\ f.arg = 0 -> size
                 [] OTHER -> f.arg
    IN  /\ pc[t] = "getn"
        /\ global = NoThread
        /\ \/ /\ pos > (IF f.arg = 0 THEN pos ELSE size + 1)
              /\ Goto(t, "unlocktable")
              /\ UNCHANGED <<request, then, frame>>
           \/ /\ pos <= size + 1 /\ f.fn = "insert"
              /\ frame' = [frame EXCEPT ![t].pos = pos, ![t].i = size + 1]
              /\ Goto(t, "moves")
              /\ UNCHANGED <<request, then>>
           \/ /\ pos <= size + 1 /\ f.fn = "remove"
              /\ frame' = [frame EXCEPT ![t].pos = pos, ![t].i = pos]
              /\ Ask(t, "get", pos, NoValue, "moves")
        /\ UNCHANGED <<lockVars, array, fresh, before, seen, top, ops>>

\* The loop: read the neighbour of position i, or finish with the last write.
\* The first value remove has read is its result.
moves(t) ==
    LET f == frame[t]
        size == Len(array)
        result == IF f.fn = "remove" /\ f.v = NoValue THEN top[t] ELSE f.v
    IN  /\ pc[t] = "moves"
        /\ frame' = [frame EXCEPT ![t].v = result]
        /\ \/ /\ f.fn = "insert" /\ f.i > f.pos
              /\ Ask(t, "get", f.i - 1, NoValue, "moved")
           \/ /\ f.fn = "insert" /\ f.i <= f.pos
              /\ Ask(t, "set", f.pos, f.v, "unlocktable")
           \/ /\ f.fn = "remove" /\ f.i < size
              /\ Ask(t, "get", f.i + 1, NoValue, "moved")
           \/ /\ f.fn = "remove" /\ f.i >= size
              /\ Ask(t, "set", f.i, NoValue, "unlocktable")
        /\ UNCHANGED <<lockVars, array, fresh, before, seen, top, ops>>

\* Write the neighbour to position i, and go on to the next one.
moved(t) ==
    /\ pc[t] = "moved"
    /\ Ask(t, "set", frame[t].i, top[t], "moves")
    /\ frame' = [frame EXCEPT ![t].i = IF frame[t].fn = "insert" THEN @ - 1 ELSE @ + 1]
    /\ UNCHANGED <<lockVars, array, fresh, before, seen, top, ops>>

lua_unlocktable(t) ==
    /\ pc[t] = "unlocktable"
    /\ \/ /\ shared
          /\ writer' = IF level > 1 THEN writer ELSE NoThread
          /\ level' = IF level > 1 THEN level - 1 ELSE 0
       \/ /\ ~shared
          /\ UNCHANGED <<writer, level>>
    /\ frame' = [frame EXCEPT ![t] = NoFrame]
    /\ Goto(t, "out")
    /\ UNCHANGED <<global, shared, array, fresh, request, then, before, seen, top, ops>>
----------------------------------------------------------------------------
Call(t) ==
    \/ enter_core(t) \/ leave_core(t) \/ vm_len(t) \/ vm_raise(t) \/ t_share(t)
    \/ \E i \in 1 .. MaxLen :
        /\ i <= Len(array) + 1
        /\ \/ vm_access(t, "get", i, NoValue) \/ lua_raw(t, "get", i, NoValue)
           \/ \E v \in fresh : vm_access(t, "set", i, v) \/ lua_raw(t, "set", i, v)
    \/ \E i \in 0 .. MaxLen : tremove(t, i) \/ \E v \in fresh : tinsert(t, i, v)

Step(t) ==
    \/ lua_lock(t) \/ access(t) \/ lua_locktable(t) \/ getn(t) \/ moves(t)
    \/ moved(t) \/ lua_unlocktable(t)

Next == \E t \in Threads : Call(t) \/ Step(t)

Spec == Init /\ [][Next]_vars

\* Every call makes its next step if it keeps being able to: the locks are
\* granted fairly, and no thread stays in the core for ever (luai_threadyield).
FairSpec ==
    /\ Spec
    /\ \A t \in Threads : SF_vars(Step(t)) /\ SF_vars(leave_core(t))
----------------------------------------------------------------------------
(***************************************************************************)
(* Properties.                                                             *)
(***************************************************************************)
\* Calls of table.insert and table.remove between their lock and their unlock.
Moving == {t \in Threads : frame[t].fn # "none" /\ pc[t] # "locktable"}

\* Whoever moves elements of a shared table has its lock, and nobody has it
\* otherwise, or more than once: the flag is looked at before the lock and again
\* before the unlock, positions may be refused and errors raised in between.
LockReturned ==
    /\ shared => \A t \in Moving : writer = t
    /\ writer # NoThread => writer \in Moving /\ level = 1

\* The table as the other threads may see it: an insert shows as a whole with its
\* first write, the one that makes the table longer, and a remove with its last.
ArrayNow ==
    IF Moving = {} THEN array
    ELSE LET f == frame[CHOOSE t \in Moving : TRUE]
         IN  CASE f.fn = "insert" /\ Len(array) > Len(before) -> InsertAt(before, f.pos, f.v)
               [] f.fn = "remove" /\ Len(array) < Len(before) -> array
               [] OTHER -> before

\* table.insert and table.remove move elements one at a time, leaving the core
\* between any two; the others, and the length that is read without the lock,
\* see all of it or nothing, and no element is lost or doubled.
Abs == INSTANCE TableAbs WITH array <- ArrayNow
RefinesTableAbs == Abs!Spec

\* A call of table.insert comes to its end: the element gets inserted.
InsertReturns == \A t \in Threads : frame[t].fn = "insert" ~> frame[t].fn = "none"
=============================================================================
