----------------------------- MODULE TableAbs -----------------------------
(***************************************************************************)
(* What threads that share a table may rely on: each access to its array   *)
(* part, table.insert and table.remove included, takes effect in one step. *)
(***************************************************************************)
EXTENDS Naturals, Sequences, SequencesExt

CONSTANTS Threads, Values, Initial, MaxLen, NoValue

VARIABLES
    array,  \* the array part: t[1] .. t[#t]
    seen    \* seen[t]: the index t has read last and what was there; the
            \* length is read at index 0

vars == <<array, seen>>

Init == array \in Initial /\ seen = [t \in Threads |-> <<0, NoValue>>]

At(a, i) == IF i \in DOMAIN a THEN a[i] ELSE NoValue

read(t, i) == seen' = [seen EXCEPT ![t] = <<i, At(array, i)>>] /\ UNCHANGED array

len(t) == seen' = [seen EXCEPT ![t] = <<0, Len(array)>>] /\ UNCHANGED array

set(i, v) ==
    /\ \/ i \in DOMAIN array /\ array' = [array EXCEPT ![i] = v]
       \/ i = Len(array) + 1 /\ array' = Append(array, v)
    /\ UNCHANGED seen

insert(i, v) ==
    /\ array' = InsertAt(array, i, v)
    /\ UNCHANGED seen

remove(t, i) ==
    /\ seen' = [seen EXCEPT ![t] = <<i, array[i]>>]
    /\ array' = RemoveAt(array, i)

Next ==
    \/ \E t \in Threads :
        \/ len(t)
        \/ \E i \in 0 .. MaxLen : read(t, i)
        \/ \E i \in DOMAIN array : remove(t, i)
    \/ \E i \in 1 .. Len(array) + 1, v \in Values : set(i, v) \/ insert(i, v)

Spec == Init /\ [][Next]_vars
=============================================================================
