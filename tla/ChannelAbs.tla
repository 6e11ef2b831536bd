---------------------------- MODULE ChannelAbs ----------------------------
(***************************************************************************)
(* What a channel promises: a FIFO queue that can be closed, each call     *)
(* taking effect at one moment, with the result that moment gives it.      *)
(* Channel implements it.                                                  *)
(***************************************************************************)
EXTENDS Naturals, Sequences

CONSTANTS Threads, Channels, Messages

VARIABLES
    queue,      \* queue[c]: the messages in c, oldest first
    closed,     \* closed[c]: c was closed
    collected,  \* channels that no longer exist
    out         \* out[t]: the last result of t

absVars == <<queue, closed, collected, out>>

Init ==
    /\ queue = [c \in Channels |-> <<>>]
    /\ closed = [c \in Channels |-> FALSE]
    /\ collected = {}
    /\ out = [t \in Threads |-> "none"]

Result(t, r) == out' = [out EXCEPT ![t] = r]

\* A message enters an open channel, at its end.
Put(t, c, m) ==
    /\ ~closed[c]
    /\ queue' = [queue EXCEPT ![c] = Append(@, m)]
    /\ \E r \in {"ok", "true"} : Result(t, r)
    /\ UNCHANGED <<closed, collected>>

\* The oldest message leaves the channel, open or closed, for one thread.
Take(t, c) ==
    /\ queue[c] # <<>>
    /\ queue' = [queue EXCEPT ![c] = Tail(@)]
    /\ Result(t, Head(queue[c]))
    /\ UNCHANGED <<closed, collected>>

\* The oldest message is looked at.
Look(t, c) ==
    /\ queue[c] # <<>>
    /\ Result(t, Head(queue[c]))
    /\ UNCHANGED <<queue, closed, collected>>

\* A call that does not wait finds the channel empty.
FindEmpty(t, c) ==
    /\ queue[c] = <<>>
    /\ Result(t, "nil")
    /\ UNCHANGED <<queue, closed, collected>>

\* A call that waits ends without a message only on a closed, drained channel.
EndOfChannel(t, c) ==
    /\ queue[c] = <<>>
    /\ closed[c]
    /\ Result(t, "eof")
    /\ UNCHANGED <<queue, closed, collected>>

Refuse(t, c) ==
    /\ closed[c]
    /\ Result(t, "closed")
    /\ UNCHANGED <<queue, closed, collected>>

\* A call that gives up changes no channel.
GiveUp(t) ==
    /\ \E r \in {"false", "mismatch", "oom", "timeout", "nocase"} : Result(t, r)
    /\ UNCHANGED <<queue, closed, collected>>

Close(t, c) ==
    /\ closed' = [closed EXCEPT ![c] = TRUE]
    /\ Result(t, "ok")
    /\ UNCHANGED <<queue, collected>>

Collect(c) ==
    /\ queue' = [queue EXCEPT ![c] = <<>>]
    /\ collected' = collected \cup {c}
    /\ UNCHANGED <<closed, out>>

Next ==
    \/ \E t \in Threads, c \in Channels \ collected :
        \/ \E m \in Messages : Put(t, c, m)
        \/ Take(t, c) \/ Look(t, c) \/ FindEmpty(t, c)
        \/ EndOfChannel(t, c) \/ Refuse(t, c) \/ Close(t, c)
    \/ \E t \in Threads : GiveUp(t)
    \/ \E c \in Channels \ collected : Collect(c)

Spec == Init /\ [][Next]_absVars
=============================================================================
