---------------------------- MODULE ChannelRefs ----------------------------
(***************************************************************************)
(* The references behind the elements of a channel. Module Channel takes   *)
(* luaL_ref and luaL_unref for what brings an element in and out; here are *)
(* the numbers they hand out. send, receive and peek of lthreadlib.c call  *)
(* them without the interpreter's lock, which every API call inside them   *)
(* takes for itself, so they go one table access at a time, and ch->lock   *)
(* covers the list of elements only.                                       *)
(*                                                                         *)
(* One channel, whose waiting and closing are in Channel; values that are  *)
(* not nil, which has a reference of its own.                              *)
(***************************************************************************)
EXTENDS Naturals, Sequences, FiniteSets

CONSTANTS
    Threads,    \* threads that send and receive
    Messages,   \* values, each sent once
    Main        \* the main thread, the registry's entry 1 at first

VARIABLES
    queue,      \* elements from ch->head to ch->tail: a reference, and history:
                \* the value it was sent with
    slots,      \* the registry after its predefined values: a value, or a link
    head,       \* registry[1]: the main thread, then the first free reference
    pc,         \* pc[t]: where t is
    elem,       \* elem[t]: the element t is about to append, or has taken
    reg,        \* reg[t]: the local variables of luaL_ref and luaL_unref
    fresh,      \* values nobody has sent yet
    delivered   \* history: values got, beside those their elements were sent with

vars == <<queue, slots, head, pc, elem, reg, fresh, delivered>>

Init ==
    /\ queue = <<>>
    /\ slots = <<>>
    /\ head = Main
    /\ pc = [t \in Threads |-> "lua"]
    /\ elem = [t \in Threads |-> [ref |-> 0, sent |-> Main]]
    /\ reg = [t \in Threads |-> [ref |-> 0, next |-> 0]]
    /\ fresh = Messages
    /\ delivered = {}

Goto(t, where) == pc' = [pc EXCEPT ![t] = where]

----------------------------------------------------------------------------
\* luaL_ref and luaL_unref on the registry.

ref_read(t) ==
    /\ pc[t] = "ref_read"
    /\ \/ head \in Nat /\ reg' = [reg EXCEPT ![t].ref = head]
                       /\ Goto(t, IF head = 0 THEN "ref_len" ELSE "ref_next")
       \/ head \notin Nat /\ Goto(t, "ref_init") /\ UNCHANGED reg
    /\ UNCHANGED <<queue, slots, head, elem, fresh, delivered>>

ref_init(t) ==
    /\ pc[t] = "ref_init"
    /\ head' = 0
    /\ Goto(t, "ref_len")
    /\ UNCHANGED <<queue, slots, elem, reg, fresh, delivered>>

ref_next(t) ==
    /\ pc[t] = "ref_next"
    /\ reg' = [reg EXCEPT ![t].next = slots[reg[t].ref]]
    /\ Goto(t, "ref_head")
    /\ UNCHANGED <<queue, slots, head, elem, fresh, delivered>>

ref_head(t) ==
    /\ pc[t] = "ref_head"
    /\ head' = reg[t].next
    /\ Goto(t, "ref_store")
    /\ UNCHANGED <<queue, slots, elem, reg, fresh, delivered>>

ref_len(t) ==
    /\ pc[t] = "ref_len"
    /\ reg' = [reg EXCEPT ![t].ref = Len(slots) + 1]
    /\ Goto(t, "ref_store")
    /\ UNCHANGED <<queue, slots, head, elem, fresh, delivered>>

\* Registry entry r becomes v.
Stored(r, v) == [i \in 1..(IF r > Len(slots) THEN r ELSE Len(slots)) |->
                    IF i = r THEN v ELSE slots[i]]

ref_store(t) ==
    /\ pc[t] = "ref_store"
    /\ slots' = Stored(reg[t].ref, elem[t].sent)
    /\ elem' = [elem EXCEPT ![t].ref = reg[t].ref]
    /\ Goto(t, "append")
    /\ UNCHANGED <<queue, head, reg, fresh, delivered>>

unref_read(t) ==
    /\ pc[t] = "unref_read"
    /\ reg' = [reg EXCEPT ![t] = [ref |-> elem[t].ref, next |-> head]]
    /\ Goto(t, "unref_link")
    /\ UNCHANGED <<queue, slots, head, elem, fresh, delivered>>

unref_link(t) ==
    /\ pc[t] = "unref_link"
    /\ slots' = Stored(reg[t].ref, reg[t].next)
    /\ Goto(t, "unref_head")
    /\ UNCHANGED <<queue, head, elem, reg, fresh, delivered>>

unref_head(t) ==
    /\ pc[t] = "unref_head"
    /\ head' = reg[t].ref
    /\ Goto(t, "lua")
    /\ UNCHANGED <<queue, slots, elem, reg, fresh, delivered>>

----------------------------------------------------------------------------
\* What becomes of an element.

channel_send(t, m) ==
    /\ pc[t] = "lua"
    /\ fresh' = fresh \ {m}
    /\ m \in fresh
    /\ elem' = [elem EXCEPT ![t] = [ref |-> 0, sent |-> m]]
    /\ Goto(t, "ref_read")
    /\ UNCHANGED <<queue, slots, head, reg, delivered>>

\* With ch->lock held; or the element cannot be allocated, or the channel is closed
\* or, for try_send, in use, and the reference is given back.
append(t) ==
    /\ pc[t] = "append"
    /\ \/ queue' = Append(queue, elem[t]) /\ Goto(t, "lua")
       \/ Goto(t, "unref_read") /\ UNCHANGED queue
    /\ UNCHANGED <<slots, head, elem, reg, fresh, delivered>>

Got(e) == delivered' = delivered \cup {[sent |-> e.sent, got |-> slots[e.ref]]}

\* receive, try_recv and pick unlink the element with ch->lock held.
channel_receive(t) ==
    /\ pc[t] = "lua" /\ queue # <<>>
    /\ elem' = [elem EXCEPT ![t] = Head(queue)]
    /\ queue' = Tail(queue)
    /\ Goto(t, "fetch")
    /\ UNCHANGED <<slots, head, reg, fresh, delivered>>

\* lua_rawgeti, and on to luaL_unref.
fetch(t) ==
    /\ pc[t] = "fetch"
    /\ Got(elem[t])
    /\ Goto(t, "unref_read")
    /\ UNCHANGED <<queue, slots, head, elem, reg, fresh>>

channel_peek(t) ==
    /\ pc[t] = "lua" /\ queue # <<>>
    /\ Got(Head(queue))
    /\ UNCHANGED <<queue, slots, head, pc, elem, reg, fresh>>

----------------------------------------------------------------------------
Call(t) ==
    \/ \E m \in Messages : channel_send(t, m)
    \/ channel_receive(t) \/ channel_peek(t)

Step(t) ==
    \/ ref_read(t) \/ ref_init(t) \/ ref_next(t) \/ ref_head(t) \/ ref_len(t)
    \/ ref_store(t) \/ unref_read(t) \/ unref_link(t) \/ unref_head(t)
    \/ append(t) \/ fetch(t)

Next == \E t \in Threads : Call(t) \/ Step(t)

Spec == Init /\ [][Next]_vars
----------------------------------------------------------------------------
(***************************************************************************)
(* What it should do, and does not.                                        *)
(***************************************************************************)

\* "Mutex for thread safety" (lthreadlib.c:66): whoever receives gets the value that
\* was sent.
MessagesIntact == \A d \in delivered : d.got = d.sent
=============================================================================
