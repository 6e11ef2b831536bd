--------------------------- MODULE ChannelProofs ---------------------------
(***************************************************************************)
(* Theorems about Channel, for every set of threads, channels and          *)
(* messages, every list of cases and every number of operations.           *)
(***************************************************************************)
EXTENDS Channel, FiniteSetTheorems, SequenceTheorems, TLAPS

\* A step is one of a thread, the collector's, or changes nothing.
LEMMA NextCases ==
    ASSUME [Next]_vars
    PROVE  \/ \E t \in Threads : Call(t) \/ Step(t) \/ spurious_wakeup(t)
           \/ \E c \in Channels : channel_gc(c)
           \/ UNCHANGED vars
BY DEF Next, Quiescent

LEMMA TypeInit == Init => TypeOK
<1> SUFFICES ASSUME Init PROVE TypeOK
    OBVIOUS
<1> QED
    BY ChannelAssumption DEF Init, TypeOK, PCs, Results

\* The two sequence operations of a queue.
LEMMA AppendTyped ==
    ASSUME NEW S, NEW s \in Seq(S), NEW e \in S PROVE Append(s, e) \in Seq(S)
OBVIOUS

LEMMA HeadTailTyped ==
    ASSUME NEW S, NEW s \in Seq(S), s # <<>>
    PROVE  Head(s) \in S /\ Tail(s) \in Seq(S)
OBVIOUS

\* Taking the head of a channel.
Taken(t) ==
    /\ queue' \in [Channels -> Seq(Messages)]
    /\ msg' \in [Threads -> Messages \cup {NoMsg}]
    /\ out' \in [Threads -> Messages \cup Results]
    /\ msg'[t] \in Messages
    /\ \A u \in Threads : u # t => msg'[u] = msg[u]

LEMMA TakeTyped ==
    ASSUME TypeOK, NEW t \in Threads, NEW c \in Channels, take(t, c)
    PROVE  Taken(t)
<1>1. Head(queue[c]) \in Messages /\ Tail(queue[c]) \in Seq(Messages)
    BY HeadTailTyped DEF take, TypeOK
<1> QED
    BY <1>1 DEF take, TypeOK, Taken

\* A call that begins keeps the types.
LEMMA TypeAnchor ==
    ASSUME TypeOK, NEW t \in Threads, NEW c \in Channels, NEW m \in Messages,
           NEW where \in {"send", "try_send"}, anchor(t, c, m, where)
    PROVE  TypeOK'
<1> USE ChannelAssumption DEF TypeOK, Begin, CanBegin, chanVars, pickVars, PCs, Results
<1>1. CASE Begin(t, <<c>>, where) /\ anchored' = anchored \cup {m}
           /\ msg' = [msg EXCEPT ![t] = m] /\ UNCHANGED out
    BY <1>1 DEF anchor
<1>2. CASE Begin(t, <<c>>, "idle") /\ out' = [out EXCEPT ![t] = "oom"]
           /\ UNCHANGED <<anchored, msg>>
    BY <1>2 DEF anchor
<1> QED
    BY <1>1, <1>2 DEF anchor

LEMMA TypeTryReceive ==
    ASSUME TypeOK, NEW t \in Threads, NEW c \in Channels, channel_try_receive(t, c)
    PROVE  TypeOK'
<1>0. take(t, c) => Taken(t)
    BY TakeTyped
<1> USE DEF TypeOK, Begin, CanBegin, refVars, pickVars, PCs, Results
<1>1. CASE take(t, c) /\ Begin(t, <<c>>, "fetch")
    <2>1. Taken(t) /\ UNCHANGED <<lock, closed, listeners, collected, refVars, pickVars, todo>>
        BY <1>0, <1>1 DEF channel_try_receive
    <2>2. /\ pc' \in [Threads -> PCs] /\ pc'[t] = "fetch"
          /\ cases' \in [Threads -> Seq(Channels)] /\ idx' \in [Threads -> Nat \ {0}]
          /\ ops' \in [Threads -> Nat]
          /\ \A u \in Threads : u # t =>
                pc'[u] = pc[u] /\ cases'[u] = cases[u] /\ idx'[u] = idx[u]
        BY <1>1
    <2> QED
        BY <2>1, <2>2 DEF Taken
<1>2. CASE /\ Begin(t, <<c>>, "idle")
           /\ out' = [out EXCEPT ![t] = "nil"]
           /\ UNCHANGED <<queue, msg>>
    BY <1>2 DEF channel_try_receive
<1> QED
    BY <1>1, <1>2 DEF channel_try_receive

LEMMA TypeCall ==
    ASSUME TypeOK, NEW t \in Threads, Call(t)
    PROVE  TypeOK'
<1> USE ChannelAssumption DEF TypeOK, Begin, CanBegin, chanVars, refVars, pickVars, PCs, Results
<1>1. ASSUME NEW c \in Channels, NEW m \in Messages, send_mismatch(t, c, m)
      PROVE  TypeOK'
    BY <1>1 DEF send_mismatch
<1>2. ASSUME NEW c \in Channels, channel_receive(t, c)
      PROVE  TypeOK'
    BY <1>2 DEF channel_receive
<1>3. ASSUME NEW c \in Channels, channel_peek(t, c)
      PROVE  TypeOK'
  <2>1. queue[c] # <<>> => Head(queue[c]) \in Messages
      BY HeadTailTyped
  <2>2. out' \in [Threads -> Messages \cup Results]
      BY <1>3, <2>1 DEF channel_peek
  <2>3. /\ pc' \in [Threads -> PCs] /\ pc'[t] = "idle"
        /\ cases' \in [Threads -> Seq(Channels)] /\ idx' \in [Threads -> Nat \ {0}]
        /\ ops' \in [Threads -> Nat]
        /\ \A u \in Threads : u # t =>
              pc'[u] = pc[u] /\ cases'[u] = cases[u] /\ idx'[u] = idx[u]
      BY <1>3 DEF channel_peek
  <2>4. UNCHANGED <<chanVars, refVars, pickVars, todo, msg>>
      BY <1>3 DEF channel_peek
  <2> QED
      BY <2>2, <2>3, <2>4
<1>4. ASSUME NEW c \in Channels, channel_close(t, c)
      PROVE  TypeOK'
    BY <1>4 DEF channel_close, wake_receivers, Waiters, Watching, Chan
<1>5. ASSUME NEW cs \in CaseLists, NEW over \in BOOLEAN, thread_pick(t, cs, over)
      PROVE  TypeOK'
    <2>1. cases' \in [Threads -> Seq(Channels)]
        BY <1>5 DEF thread_pick
    <2>2. /\ pc' = [pc EXCEPT ![t] = "scan"]
          /\ idx' = [idx EXCEPT ![t] = 1]
          /\ \A u \in Threads : u # t => cases'[u] = cases[u]
        BY <1>5 DEF thread_pick
    <2>3. \A u \in Threads :
            pc'[u] \in {"send", "try_send", "walk", "receive", "recv_wait", "recv_woken"}
                => idx'[u] \in DOMAIN cases'[u]
        BY <2>2
    <2> QED
        BY <1>5, <2>1, <2>2, <2>3 DEF thread_pick
<1> HIDE DEF TypeOK, Begin, CanBegin
<1> QED
    BY <1>1, <1>2, <1>3, <1>4, <1>5, TypeAnchor, TypeTryReceive
       DEF Call, channel_send, channel_try_send

\* A step inside a call keeps the types.
LEMMA TypeEnqueue ==
    ASSUME TypeOK, NEW t \in Threads, pc[t] \in {"send", "try_send"},
           NEW r \in {"ok", "true"}, enqueue(t, r)
    PROVE  TypeOK'
<1> DEFINE c == Chan(t)
<1>1. c \in Channels
    BY DEF TypeOK, Chan
<1>2. Append(queue[c], msg[t]) \in Seq(Messages)
    BY <1>1, AppendTyped DEF TypeOK
<1> DEFINE Moved ==
    /\ pc' \in [Threads -> PCs] /\ pc'[t] = "walk"
    /\ \A u \in Threads : pc'[u] \in {"walk", "recv_woken", pc[u]}
    /\ \A u \in Threads : pc'[u] # pc[u] => pc[u] \in {"send", "try_send", "recv_wait"}
<1>3. Moved
    <2>1. CASE Goto(t, "walk")
        BY <2>1 DEF TypeOK, Goto, PCs
    <2>2. ASSUME NEW w \in Waiters(c),
                 pc' = [pc EXCEPT ![t] = "walk", ![w] = "recv_woken"]
          PROVE  Moved
        BY <2>2 DEF TypeOK, Waiters, PCs
    <2> QED
        BY <2>1, <2>2 DEF enqueue, signal_receiver
<1> QED
    BY <1>1, <1>2, <1>3, ChannelAssumption
    DEF TypeOK, enqueue, refVars, pickVars, Watching, Results

LEMMA TypeStep ==
    ASSUME TypeOK, NEW t \in Threads, Step(t)
    PROVE  TypeOK'
<1> DEFINE c == Chan(t)
<1>0. ASSUME idx[t] \in DOMAIN cases[t] PROVE c \in Channels
    BY <1>0 DEF TypeOK, Chan
<1>1. ASSUME NEW r \in {"closed", "false"}, pc[t] \in {"send", "try_send"}, refuse(t, r)
      PROVE  TypeOK'
    BY <1>1, ChannelAssumption DEF refuse, TypeOK, chanVars, pickVars, PCs, Results, Return
<1>2. CASE send_locked(t)
    BY <1>1, <1>2, TypeEnqueue DEF send_locked
<1>3. CASE try_send_locked(t)
    BY <1>1, <1>3, TypeEnqueue DEF try_send_locked
<1>4. CASE notify_listener(t)
    BY <1>4 DEF notify_listener, TypeOK, chanVars, refVars, PCs
<1>5. CASE notify_done(t)
    BY <1>5 DEF notify_done, Chan, TypeOK, refVars, pickVars, Goto, PCs
<1>6. CASE receive_locked(t)
    <2>0. c \in Channels
        BY <1>0, <1>6 DEF receive_locked, TypeOK
    <2>1. take(t, c) => Taken(t)
        BY <2>0, TakeTyped
    <2> USE <1>6 DEF TypeOK, refVars, pickVars, PCs, Goto, Return, Results
    <2>4. CASE take(t, c) /\ Goto(t, "fetch")
        BY <2>1, <2>4 DEF receive_locked, Taken
    <2>2. CASE Return(t, "eof") /\ UNCHANGED <<queue, msg>>
        BY <2>2 DEF receive_locked
    <2>3. CASE Goto(t, "recv_wait") /\ UNCHANGED <<queue, msg, out>>
        BY <2>3 DEF receive_locked
    <2> QED
        BY <2>4, <2>2, <2>3 DEF receive_locked
<1>7. CASE fetch(t)
    BY <1>7 DEF fetch, TypeOK, chanVars, pickVars, Goto, PCs
<1>8. CASE scan_case(t)
    <2>0. c \in Channels
        BY <1>0, <1>8 DEF scan_case, TypeOK
    <2>1. take(t, c) => Taken(t)
        BY <2>0, TakeTyped
    <2> USE <1>8 DEF TypeOK, refVars, PCs, Goto, Unregister, Results
    <2>4. CASE take(t, c) /\ Unregister(t, "take") /\ UNCHANGED listeners
        BY <2>1, <2>4 DEF scan_case, Taken
    <2>2. CASE /\ \E r \in {"eof", "oom"} : out' = [out EXCEPT ![t] = r]
               /\ \E then \in {"take", "return"} : Unregister(t, then)
               /\ UNCHANGED <<queue, msg, listeners>>
        BY <2>2 DEF scan_case
    <2>3. CASE /\ listeners' = [listeners EXCEPT ![c][t] = @ + 1]
               /\ idx' = [idx EXCEPT ![t] = @ + 1]
               /\ UNCHANGED <<queue, msg, out, pc, after>>
        <3>1. listeners' \in [Channels -> [Threads -> Nat]]
            BY <2>0, <2>3
        <3>2. idx' \in [Threads -> Nat \ {0}] /\ \A u \in Threads : u # t => idx'[u] = idx[u]
            BY <2>3
        <3> QED
            BY <3>1, <3>2, <2>3 DEF scan_case
    <2> QED
        BY <2>4, <2>2, <2>3 DEF scan_case
<1>9. CASE scan_end(t)
    BY <1>9 DEF scan_end, TypeOK, chanVars, refVars, pickVars, Goto, PCs
<1>10. CASE pick_wait(t)
    <2> USE <1>10 DEF TypeOK, chanVars, refVars, Goto, Unregister, PCs, pick_wait
    <2>1. CASE Unregister(t, "rescan")
        BY <2>1
    <2>2. CASE Goto(t, "sel_wait") /\ UNCHANGED <<idx, after>>
        BY <2>2
    <2> QED
        BY <2>1, <2>2
<1>11. CASE pick_timeout(t)
    BY <1>11 DEF pick_timeout, TypeOK, chanVars, refVars, Unregister, PCs, Results
<1>12. CASE unregister_all(t)
    <2> USE <1>12 DEF TypeOK, refVars, pickVars
    <2>0. c \in Channels
        BY <1>0 DEF unregister_all
    <2>1. listeners' \in [Channels -> [Threads -> Nat]]
        <3>1. CASE listeners[c][t] > 0 /\ listeners' = [listeners EXCEPT ![c][t] = @ - 1]
            BY <2>0, <3>1
        <3>2. CASE UNCHANGED listeners
            BY <3>2
        <3> QED
            BY <3>1, <3>2 DEF unregister_all, unlink
    <2>2. idx' \in [Threads -> Nat \ {0}] /\ \A u \in Threads : u # t => idx'[u] = idx[u]
        BY DEF unregister_all
    <2> QED
        BY <2>1, <2>2 DEF unregister_all
<1>13. CASE unregister_end(t)
    <2> USE <1>13 DEF TypeOK, chanVars, refVars, Goto, PCs, unregister_end
    <2>1. CASE Goto(t, "fetch") /\ msg[t] # NoMsg
        BY <2>1
    <2>2. CASE Goto(t, "rescan")
        BY <2>2
    <2>3. CASE Goto(t, "idle")
        BY <2>3
    <2> QED
        BY <2>1, <2>2, <2>3
<1>14. CASE rescan_case(t)
    <2>0. c \in Channels
        BY <1>0, <1>14 DEF rescan_case, TypeOK
    <2>1. take(t, c) => Taken(t)
        BY <2>0, TakeTyped
    <2> USE <1>14 DEF TypeOK, refVars, pickVars, PCs, Goto, Return, Results
    <2>4. CASE take(t, c) /\ Goto(t, "fetch") /\ UNCHANGED idx
        BY <2>1, <2>4 DEF rescan_case, Taken
    <2>2. CASE Return(t, "eof") /\ UNCHANGED <<queue, msg, idx>>
        BY <2>2 DEF rescan_case
    <2>3. CASE idx' = [idx EXCEPT ![t] = @ + 1] /\ UNCHANGED <<queue, msg, out, pc>>
        <3>1. idx' \in [Threads -> Nat \ {0}] /\ \A u \in Threads : u # t => idx'[u] = idx[u]
            BY <2>3
        <3> QED
            BY <3>1, <2>3 DEF rescan_case
    <2> QED
        BY <2>4, <2>2, <2>3 DEF rescan_case
<1>15. CASE rescan_end(t)
    BY <1>15 DEF rescan_end, TypeOK, chanVars, refVars, pickVars, Return, PCs, Results
<1> QED
    BY <1>2, <1>3, <1>4, <1>5, <1>6, <1>7, <1>8, <1>9, <1>10, <1>11, <1>12, <1>13,
       <1>14, <1>15 DEF Step

LEMMA TypeNext == TypeOK /\ [Next]_vars => TypeOK'
<1> SUFFICES ASSUME TypeOK, [Next]_vars PROVE TypeOK'
    OBVIOUS
<1>1. ASSUME NEW t \in Threads, spurious_wakeup(t) PROVE TypeOK'
    <2> USE <1>1 DEF spurious_wakeup, TypeOK, Goto, PCs, chanVars, refVars, pickVars
    <2>1. CASE pc[t] = "recv_wait" /\ Goto(t, "recv_woken")
        BY <2>1
    <2>2. CASE pc[t] = "sel_wait" /\ Goto(t, "select")
        BY <2>2
    <2> QED
        BY <2>1, <2>2
<1>2. ASSUME NEW c \in Channels, channel_gc(c) PROVE TypeOK'
    BY <1>2 DEF channel_gc, TypeOK, pickVars
<1>3. CASE UNCHANGED vars
    BY <1>3 DEF TypeOK, vars
<1> QED
    BY <1>1, <1>2, <1>3, TypeCall, TypeStep, NextCases

\* Whatever the threads do, every variable of the channels keeps its type and a
\* blocked or sending thread always has a channel it is blocked on.
THEOREM ChannelTypeOK == Spec => []TypeOK
BY TypeInit, TypeNext, PTL DEF Spec

----------------------------------------------------------------------------
(***************************************************************************)
(* No lost wake-up. The invariant is inductive with the types: a step      *)
(* either leaves the receivers of a channel and the length of its queue    *)
(* alone, or is one of the three that the proof counts: an enqueue moves   *)
(* one receiver from Waiters to Woken, a receive takes one element with at *)
(* most one receiver, a close empties Waiters.                             *)
(***************************************************************************)
Blocked == {"recv_wait", "recv_woken"}

\* The receivers blocked on a channel are blocked on it after the step, and only
\* they.
SameReceivers ==
    \A u \in Threads :
        \/ pc[u] \notin Blocked /\ pc'[u] \notin Blocked
        \/ pc'[u] = pc[u] /\ cases'[u] = cases[u] /\ idx'[u] = idx[u]

NoLongerQueue == \A c \in Channels : Len(queue'[c]) <= Len(queue[c])

LEMMA WakeupFrame ==
    ASSUME TypeOK, TypeOK', NoLostWakeup, SameReceivers, NoLongerQueue
    PROVE  NoLostWakeup'
<1> SUFFICES ASSUME NEW c \in Channels, Waiters(c)' # {}
             PROVE  Len(queue'[c]) <= Cardinality(Woken(c)')
    BY DEF NoLostWakeup
<1>1. Waiters(c)' = Waiters(c) /\ Woken(c)' = Woken(c)
    BY DEF SameReceivers, Blocked, Waiters, Woken, Chan
<1>2. Len(queue[c]) <= Cardinality(Woken(c))
    BY <1>1 DEF NoLostWakeup
<1>3. IsFiniteSet(Woken(c))
    BY FS_Subset, ChannelAssumption DEF Woken
<1>4. Cardinality(Woken(c)) \in Nat
    BY <1>3, FS_CardinalityType
<1>5. Len(queue[c]) \in Nat /\ Len(queue'[c]) \in Nat
    BY DEF TypeOK
<1> QED
    BY <1>1, <1>2, <1>4, <1>5 DEF NoLongerQueue

LEMMA SameQueue ==
    ASSUME TypeOK, UNCHANGED queue PROVE NoLongerQueue
BY DEF TypeOK, NoLongerQueue

LEMMA TakeShortens ==
    ASSUME TypeOK, NEW t \in Threads, NEW c \in Channels, take(t, c)
    PROVE  /\ NoLongerQueue
           /\ Len(queue'[c]) = Len(queue[c]) - 1
           /\ \A d \in Channels : d # c => queue'[d] = queue[d]
<1>1. \A d \in Channels : Len(queue[d]) \in Nat
    BY DEF TypeOK
<1>2. queue' = [queue EXCEPT ![c] = Tail(queue[c])] /\ queue[c] # <<>>
    BY DEF take
<1>3. Len(Tail(queue[c])) = Len(queue[c]) - 1
    BY <1>2 DEF TypeOK
<1> QED
    BY <1>1, <1>2, <1>3 DEF TypeOK, NoLongerQueue

\* An enqueue: if a receiver waits on the channel, one is woken for the element.
LEMMA WakeupEnqueue ==
    ASSUME TypeOK, TypeOK', NoLostWakeup, NEW t \in Threads,
           pc[t] \in {"send", "try_send"}, NEW r, enqueue(t, r)
    PROVE  NoLostWakeup'
<1>00. Chan(t) \in Channels
    BY DEF TypeOK, Chan
<1>0. PICK c \in Channels : c = Chan(t) /\ UNCHANGED <<cases, idx>>
    BY <1>00 DEF enqueue
<1>1. \A d \in Channels : d # c => queue'[d] = queue[d]
    BY <1>0 DEF TypeOK, enqueue
<1>2. Len(queue'[c]) = Len(queue[c]) + 1 /\ Len(queue[c]) \in Nat
    BY <1>0 DEF TypeOK, enqueue
<1>3. \A d \in Channels : IsFiniteSet(Woken(d)) /\ Cardinality(Woken(d)) \in Nat
    BY FS_Subset, FS_CardinalityType, ChannelAssumption DEF Woken
<1>4. CASE Waiters(c) = {} /\ Goto(t, "walk")
    <2>1. \A d \in Channels : Waiters(d)' = Waiters(d) /\ Woken(d)' = Woken(d)
        BY <1>0, <1>4 DEF Goto, TypeOK, Waiters, Woken, Chan
    <2> QED
        BY <2>1, <1>4, <1>0, <1>1 DEF NoLostWakeup
<1>5. ASSUME NEW w \in Waiters(c), pc' = [pc EXCEPT ![t] = "walk", ![w] = "recv_woken"]
      PROVE  NoLostWakeup'
    <2>0. /\ Chan(t) = c /\ Chan(w) = c
          /\ \A u \in Threads \ {t, w} : pc'[u] = pc[u]
          /\ \A u \in Threads : Chan(u)' = Chan(u)
        BY <1>0, <1>5 DEF TypeOK, Waiters, Chan
    <2>1. \A d \in Channels : d # c => Waiters(d)' = Waiters(d) /\ Woken(d)' = Woken(d)
        BY <2>0, <1>5 DEF Waiters, Woken
    <2>2. Woken(c)' = Woken(c) \cup {w} /\ w \notin Woken(c)
        <3>1. w \in Threads /\ w # t /\ pc[w] = "recv_wait" /\ Chan(w) = c
            BY <1>5 DEF Waiters
        <3>2. \A u \in Threads : pc'[u] = "recv_woken" <=> u = w \/ pc[u] = "recv_woken"
            BY <1>5, <3>1 DEF TypeOK
        <3>3. \A u \in Threads : Chan(u)' = Chan(u)
            BY <1>0 DEF Chan
        <3> QED
            BY <3>1, <3>2, <3>3 DEF Woken
    <2>3. Cardinality(Woken(c)') = Cardinality(Woken(c)) + 1
        BY <2>2, <1>0, <1>3, FS_AddElement
    <2>4. Len(queue[c]) <= Cardinality(Woken(c))
        BY <1>0, <1>5 DEF NoLostWakeup
    <2>5. Len(queue'[c]) <= Cardinality(Woken(c)')
        BY <2>3, <2>4, <1>0, <1>2, <1>3
    <2> QED
        BY <2>1, <2>5, <1>0, <1>1 DEF NoLostWakeup
<1> QED
    BY <1>0, <1>4, <1>5 DEF enqueue, signal_receiver

\* A receiver takes an element, gives up, or waits because there is none.
LEMMA WakeupReceive ==
    ASSUME TypeOK, TypeOK', NoLostWakeup, NEW t \in Threads, receive_locked(t)
    PROVE  NoLostWakeup'
<1>00. Chan(t) \in Channels
    BY DEF TypeOK, Chan, receive_locked
<1>0. PICK c \in Channels : c = Chan(t) /\ UNCHANGED <<cases, idx>>
                           /\ pc[t] \in {"receive", "recv_woken"}
    BY <1>00 DEF receive_locked
<1>1. \A d \in Channels : IsFiniteSet(Woken(d)) /\ Cardinality(Woken(d)) \in Nat
                         /\ Len(queue[d]) \in Nat
    BY FS_Subset, FS_CardinalityType, ChannelAssumption DEF Woken, TypeOK
<1>2. ASSUME NEW where \in {"fetch", "idle", "recv_wait"}, pc' = [pc EXCEPT ![t] = where]
      PROVE  /\ \A d \in Channels : Woken(d)' = Woken(d) \ {t}
             /\ \A d \in Channels \ {c} : Woken(d)' = Woken(d) /\ Waiters(d)' = Waiters(d)
             /\ where # "recv_wait" => Waiters(c)' = Waiters(c)
    <2>1. /\ pc[t] # "recv_wait" /\ pc'[t] = where /\ Chan(t) = c
          /\ \A u \in Threads \ {t} : pc'[u] = pc[u]
          /\ \A u \in Threads : Chan(u)' = Chan(u)
        BY <1>0, <1>2 DEF TypeOK, Chan
    <2> QED
        BY <2>1 DEF Waiters, Woken
<1>3. CASE queue[c] = <<>> /\ UNCHANGED queue
           /\ \E where \in {"idle", "recv_wait"} : pc' = [pc EXCEPT ![t] = where]
    <2>1. \A d \in Channels \ {c} : Woken(d)' = Woken(d) /\ Waiters(d)' = Waiters(d)
        BY <1>2, <1>3
    <2>2. Len(queue'[c]) = 0
        BY <1>3
    <2>3. IsFiniteSet(Woken(c)') /\ Cardinality(Woken(c)') \in Nat
        BY <1>0, <1>1, <1>2, <1>3, FS_Subset, FS_CardinalityType
    <2> QED
        BY <2>1, <2>2, <2>3, <1>3 DEF NoLostWakeup
<1>4. CASE take(t, c) /\ Goto(t, "fetch")
    <2>1. Woken(c)' = Woken(c) \ {t} /\ Waiters(c)' = Waiters(c)
          /\ \A d \in Channels \ {c} : Woken(d)' = Woken(d) /\ Waiters(d)' = Waiters(d)
        BY <1>0, <1>2, <1>4 DEF Goto
    <2>2. Cardinality(Woken(c)') >= Cardinality(Woken(c)) - 1
          /\ Cardinality(Woken(c)') \in Nat
        <3>1. CASE t \in Woken(c)
            <4>1. IsFiniteSet(Woken(c) \ {t})
                  /\ Cardinality(Woken(c) \ {t}) = Cardinality(Woken(c)) - 1
                BY <3>1, <1>1, FS_RemoveElement
            <4>2. Cardinality(Woken(c) \ {t}) \in Nat
                BY <4>1, FS_CardinalityType
            <4> QED
                BY <4>1, <4>2, <2>1, <1>1
        <3>2. CASE t \notin Woken(c)
            BY <3>2, <2>1, <1>0, <1>1
        <3> QED
            BY <3>1, <3>2
    <2>3. Len(queue'[c]) = Len(queue[c]) - 1
          /\ \A d \in Channels \ {c} : queue'[d] = queue[d]
        BY <1>0, <1>4, TakeShortens
    <2>4. Waiters(c)' # {} => Len(queue'[c]) <= Cardinality(Woken(c)')
        BY <2>1, <2>2, <2>3, <1>0, <1>1 DEF NoLostWakeup
    <2> QED
        BY <2>1, <2>3, <2>4 DEF NoLostWakeup
<1> QED
    BY <1>0, <1>3, <1>4 DEF receive_locked, Goto, Return

\* A close leaves nobody waiting.
LEMMA WakeupClose ==
    ASSUME TypeOK, TypeOK', NoLostWakeup, NEW t \in Threads, NEW c \in Channels,
           channel_close(t, c)
    PROVE  NoLostWakeup'
<1>1. pc[t] = "idle" /\ UNCHANGED queue
    BY DEF channel_close, wake_receivers, CanBegin
<1>2. Waiters(c)' = {}
    BY <1>1 DEF channel_close, wake_receivers, TypeOK, Waiters, Chan
<1>3. ASSUME NEW d \in Channels \ {c}
      PROVE  Waiters(d)' = Waiters(d) /\ Woken(d)' = Woken(d)
    <2>1. \A u \in Threads \ {t} : Chan(u)' = Chan(u)
        BY DEF channel_close, wake_receivers, Chan, TypeOK
    <2>2. pc'[t] = "walk"
        BY <1>1 DEF channel_close, wake_receivers, Waiters
    <2>3. \A u \in Threads \ {t} : pc'[u] = pc[u] \/ Chan(u) = c
        BY DEF channel_close, wake_receivers, Waiters
    <2>4. \A u \in Threads \ {t} : pc'[u] \in Blocked <=> pc[u] \in Blocked
        BY DEF channel_close, wake_receivers, Waiters, Blocked
    <2> QED
        BY <1>1, <2>1, <2>2, <2>3, <2>4 DEF Waiters, Woken
<1> QED
    BY <1>1, <1>2, <1>3 DEF NoLostWakeup

\* A wake-up for nothing only adds to Woken.
LEMMA WakeupSpurious ==
    ASSUME TypeOK, TypeOK', NoLostWakeup, NEW t \in Threads, spurious_wakeup(t)
    PROVE  NoLostWakeup'
<1>0. UNCHANGED <<queue, cases, idx>>
    BY DEF spurious_wakeup, chanVars
<1>1. CASE pc[t] = "recv_wait" /\ Goto(t, "recv_woken")
    <2> SUFFICES ASSUME NEW c \in Channels, Waiters(c)' # {}
                 PROVE  Len(queue'[c]) <= Cardinality(Woken(c)')
        BY DEF NoLostWakeup
    <2>1. Waiters(c)' \subseteq Waiters(c) /\ Woken(c) \subseteq Woken(c)'
        BY <1>0, <1>1 DEF TypeOK, Goto, Waiters, Woken, Chan
    <2>2. Len(queue[c]) <= Cardinality(Woken(c)) /\ Len(queue[c]) \in Nat
        BY <2>1 DEF NoLostWakeup, TypeOK
    <2>3. IsFiniteSet(Woken(c)')
        BY FS_Subset, ChannelAssumption DEF Woken
    <2> QED
        BY <1>0, <2>1, <2>2, <2>3, FS_Subset, FS_CardinalityType
<1>2. CASE pc[t] = "sel_wait" /\ Goto(t, "select")
    <2>1. SameReceivers /\ NoLongerQueue
        BY <1>0, <1>2 DEF TypeOK, Goto, SameReceivers, Blocked, NoLongerQueue
    <2> QED
        BY <2>1, WakeupFrame
<1> QED
    BY <1>1, <1>2 DEF spurious_wakeup

\* The calls that begin: the caller was running its own program, and blocks in
\* none of these steps.
LEMMA WakeupCall ==
    ASSUME TypeOK, TypeOK', NoLostWakeup, NEW t \in Threads, Call(t)
    PROVE  NoLostWakeup'
<1>1. ASSUME NEW c \in Channels, NEW m \in Messages, send_mismatch(t, c, m)
      PROVE  SameReceivers /\ NoLongerQueue
    BY <1>1 DEF send_mismatch, Begin, CanBegin, chanVars, TypeOK, SameReceivers, Blocked,
                NoLongerQueue
<1>2. ASSUME NEW c \in Channels, NEW m \in Messages, NEW where \in {"send", "try_send"},
             anchor(t, c, m, where)
      PROVE  SameReceivers /\ NoLongerQueue
    <2>1. UNCHANGED queue /\ \E x \in {where, "idle"} : Begin(t, <<c>>, x)
        BY <1>2 DEF anchor, chanVars
    <2> QED
        BY <2>1 DEF Begin, CanBegin, TypeOK, SameReceivers, Blocked, NoLongerQueue
<1>3. ASSUME NEW c \in Channels, channel_receive(t, c)
      PROVE  SameReceivers /\ NoLongerQueue
    BY <1>3 DEF channel_receive, Begin, CanBegin, chanVars, TypeOK, SameReceivers, Blocked,
                NoLongerQueue
<1>4. ASSUME NEW c \in Channels, channel_try_receive(t, c)
      PROVE  SameReceivers /\ NoLongerQueue
    <2>1. /\ NoLongerQueue
          /\ \E where \in {"fetch", "idle"} : Begin(t, <<c>>, where)
        BY <1>4, TakeShortens, SameQueue DEF channel_try_receive
    <2> QED
        BY <2>1 DEF Begin, CanBegin, TypeOK, SameReceivers, Blocked
<1>5. ASSUME NEW c \in Channels, channel_peek(t, c)
      PROVE  SameReceivers /\ NoLongerQueue
    BY <1>5 DEF channel_peek, Begin, CanBegin, chanVars, TypeOK, SameReceivers, Blocked,
                NoLongerQueue
<1>6. ASSUME NEW cs \in CaseLists, NEW over \in BOOLEAN, thread_pick(t, cs, over)
      PROVE  SameReceivers /\ NoLongerQueue
    BY <1>6 DEF thread_pick, Begin, CanBegin, chanVars, TypeOK, SameReceivers, Blocked,
                NoLongerQueue
<1> QED
    BY <1>1, <1>2, <1>3, <1>4, <1>5, <1>6, WakeupClose, WakeupFrame
       DEF Call, channel_send, channel_try_send

\* The steps inside a call.
LEMMA WakeupStep ==
    ASSUME TypeOK, TypeOK', NoLostWakeup, NEW t \in Threads, Step(t)
    PROVE  NoLostWakeup'
<1> DEFINE Frame == SameReceivers /\ NoLongerQueue
<1>0. ASSUME idx[t] \in DOMAIN cases[t] PROVE Chan(t) \in Channels
    BY <1>0 DEF TypeOK, Chan
<1>1. ASSUME NEW r, pc[t] \in {"send", "try_send"}, refuse(t, r)
      PROVE  Frame
    BY <1>1 DEF refuse, Return, chanVars, TypeOK, SameReceivers, Blocked, NoLongerQueue
<1>2. CASE send_locked(t)
    BY <1>1, <1>2, WakeupEnqueue, WakeupFrame DEF send_locked
<1>3. CASE try_send_locked(t)
    BY <1>1, <1>3, WakeupEnqueue, WakeupFrame DEF try_send_locked
<1>4. CASE notify_listener(t)
    <2>1. \A u \in Threads : pc'[u] = pc[u] \/ (pc[u] = "sel_wait" /\ pc'[u] = "select")
        BY <1>4 DEF notify_listener, TypeOK
    <2>2. UNCHANGED <<queue, cases, idx>>
        BY <1>4 DEF notify_listener, chanVars
    <2>3. Frame
        BY <2>1, <2>2 DEF TypeOK, SameReceivers, Blocked, NoLongerQueue
    <2> QED
        BY <2>3, WakeupFrame
<1>5. CASE notify_done(t)
    <2>1. Frame
        BY <1>5 DEF notify_done, Goto, TypeOK, SameReceivers, Blocked, NoLongerQueue
    <2> QED
        BY <2>1, WakeupFrame
<1>6. CASE receive_locked(t)
    BY <1>6, WakeupReceive
<1>7. CASE fetch(t)
    <2>1. Frame
        BY <1>7 DEF fetch, Goto, chanVars, TypeOK, SameReceivers, Blocked, NoLongerQueue
    <2> QED
        BY <2>1, WakeupFrame
<1>8. CASE scan_case(t)
    <2>1. NoLongerQueue
        <3>1. Chan(t) \in Channels
            BY <1>8 DEF scan_case, TypeOK, Chan
        <3>2. take(t, Chan(t)) \/ UNCHANGED queue
            BY <1>8 DEF scan_case
        <3> QED
            BY <3>1, <3>2, TakeShortens, SameQueue
    <2>2. pc[t] = "scan" /\ pc'[t] \in {"scan", "unregister"}
          /\ \A u \in Threads \ {t} : pc'[u] = pc[u] /\ cases'[u] = cases[u] /\ idx'[u] = idx[u]
        BY <1>8 DEF scan_case, Unregister, TypeOK
    <2> QED
        BY <2>1, <2>2, WakeupFrame DEF SameReceivers, Blocked
<1>9. CASE scan_end(t)
    <2>1. Frame
        BY <1>9 DEF scan_end, Goto, chanVars, TypeOK, SameReceivers, Blocked, NoLongerQueue
    <2> QED
        BY <2>1, WakeupFrame
<1>10. CASE pick_wait(t)
    <2>1. pc[t] = "select" /\ pc'[t] \in {"sel_wait", "unregister"} /\ UNCHANGED queue
          /\ \A u \in Threads \ {t} : pc'[u] = pc[u] /\ cases'[u] = cases[u] /\ idx'[u] = idx[u]
        BY <1>10 DEF pick_wait, Unregister, Goto, chanVars, TypeOK
    <2>2. Frame
        BY <2>1 DEF SameReceivers, Blocked, NoLongerQueue, TypeOK
    <2> QED
        BY <2>2, WakeupFrame
<1>11. CASE pick_timeout(t)
    <2>1. Frame
        BY <1>11 DEF pick_timeout, Unregister, chanVars, TypeOK, SameReceivers, Blocked,
                     NoLongerQueue
    <2> QED
        BY <2>1, WakeupFrame
<1>12. CASE unregister_all(t)
    <2>1. Frame
        BY <1>12 DEF unregister_all, TypeOK, SameReceivers, Blocked, NoLongerQueue
    <2> QED
        BY <2>1, WakeupFrame
<1>13. CASE unregister_end(t)
    <2>1. pc[t] = "unregister" /\ pc'[t] \in {"rescan", "fetch", "idle"} /\ UNCHANGED queue
          /\ \A u \in Threads \ {t} : pc'[u] = pc[u] /\ cases'[u] = cases[u] /\ idx'[u] = idx[u]
        <3>1. pc \in [Threads -> PCs] /\ idx \in [Threads -> Nat \ {0}]
            BY DEF TypeOK
        <3>2. pc[t] = "unregister" /\ UNCHANGED <<queue, cases>>
              /\ idx' = [idx EXCEPT ![t] = 1]
              /\ (Goto(t, "rescan") \/ Goto(t, "fetch") \/ Goto(t, "idle"))
            BY <1>13 DEF unregister_end, chanVars
        <3> QED
            BY <3>1, <3>2 DEF Goto
    <2>2. Frame
        BY <2>1 DEF SameReceivers, Blocked, NoLongerQueue, TypeOK
    <2> QED
        BY <2>2, WakeupFrame
<1>14. CASE rescan_case(t)
    <2>1. NoLongerQueue
        <3>1. Chan(t) \in Channels
            BY <1>14 DEF rescan_case, TypeOK, Chan
        <3>2. take(t, Chan(t)) \/ UNCHANGED queue
            BY <1>14 DEF rescan_case
        <3> QED
            BY <3>1, <3>2, TakeShortens, SameQueue
    <2>2. pc[t] = "rescan" /\ pc'[t] \in {"rescan", "fetch", "idle"}
          /\ \A u \in Threads \ {t} : pc'[u] = pc[u] /\ cases'[u] = cases[u] /\ idx'[u] = idx[u]
        BY <1>14 DEF rescan_case, Goto, Return, TypeOK
    <2> QED
        BY <2>1, <2>2, WakeupFrame DEF SameReceivers, Blocked
<1>15. CASE rescan_end(t)
    <2>1. Frame
        BY <1>15 DEF rescan_end, Return, chanVars, TypeOK, SameReceivers, Blocked, NoLongerQueue
    <2> QED
        BY <2>1, WakeupFrame
<1> QED
    BY <1>2, <1>3, <1>4, <1>5, <1>6, <1>7, <1>8, <1>9, <1>10, <1>11, <1>12, <1>13,
       <1>14, <1>15 DEF Step

LEMMA WakeupNext == TypeOK /\ TypeOK' /\ NoLostWakeup /\ [Next]_vars => NoLostWakeup'
<1> SUFFICES ASSUME TypeOK, TypeOK', NoLostWakeup, [Next]_vars PROVE NoLostWakeup'
    OBVIOUS
<1>1. ASSUME NEW c \in Channels, channel_gc(c) PROVE NoLostWakeup'
    <2>1. SameReceivers
        BY <1>1 DEF channel_gc, SameReceivers
    <2>2. NoLongerQueue
        BY <1>1 DEF channel_gc, NoLongerQueue, TypeOK
    <2> QED
        BY <2>1, <2>2, WakeupFrame
<1>2. CASE UNCHANGED vars
    <2>1. SameReceivers /\ NoLongerQueue
        BY <1>2 DEF vars, SameReceivers, NoLongerQueue, TypeOK
    <2> QED
        BY <2>1, WakeupFrame
<1> QED
    BY <1>1, <1>2, WakeupCall, WakeupStep, WakeupSpurious, NextCases

\* However many threads send, receive, poll, pick and close: as long as receivers
\* wait on a channel, each element of its queue has a woken receiver of its own
\* on the way to it.
THEOREM ChannelNoLostWakeup == Spec => []NoLostWakeup
<1>1. Init => NoLostWakeup
    BY DEF Init, NoLostWakeup, Waiters
<1> QED
    BY <1>1, TypeInit, TypeNext, WakeupNext, PTL DEF Spec

----------------------------------------------------------------------------
(***************************************************************************)
(* The refinement. Each section under a channel's lock is one step of      *)
(* ChannelAbs, and everything else is a stutter or a call that gives up.   *)
(* The invariant is that a channel somebody is using has not been          *)
(* finalised.                                                              *)
(***************************************************************************)
InUseKept == \A t \in Threads, c \in Channels : Uses(t, c) => c \notin collected

\* The steps inside a call use no channel the call did not.
Continues ==
    /\ UNCHANGED <<cases, collected>>
    /\ \A u \in Threads : pc[u] = "idle" => pc'[u] = "idle"

LEMMA KeptContinues == InUseKept /\ Continues => InUseKept'
BY DEF InUseKept, Continues, Uses

LEMMA StepContinues ==
    ASSUME TypeOK, NEW t \in Threads, Step(t)
    PROVE  Continues
<1> USE DEF TypeOK
<1>1. CASE send_locked(t)
    <2>1. CASE \E r : refuse(t, r)
        BY <1>1, <2>1 DEF send_locked, refuse, Return, chanVars, Continues
    <2>2. CASE \E r : enqueue(t, r)
        BY <1>1, <2>2 DEF send_locked, enqueue, signal_receiver, Goto, Waiters, Continues
    <2> QED
        BY <1>1, <2>1, <2>2 DEF send_locked
<1>2. CASE try_send_locked(t)
    <2>1. CASE \E r : refuse(t, r)
        BY <1>2, <2>1 DEF try_send_locked, refuse, Return, chanVars, Continues
    <2>2. CASE \E r : enqueue(t, r)
        BY <1>2, <2>2 DEF try_send_locked, enqueue, signal_receiver, Goto, Waiters, Continues
    <2> QED
        BY <1>2, <2>1, <2>2 DEF try_send_locked
<1>3. CASE notify_listener(t)
    BY <1>3 DEF notify_listener, chanVars, Continues
<1>4. CASE notify_done(t) \/ fetch(t)
    BY <1>4 DEF notify_done, fetch, Goto, chanVars, Continues
<1>5. CASE receive_locked(t)
    BY <1>5 DEF receive_locked, Goto, Return, Continues
<1>6. CASE scan_case(t)
    BY <1>6 DEF scan_case, Unregister, Continues
<1>7. CASE scan_end(t) \/ pick_timeout(t)
    BY <1>7 DEF scan_end, pick_timeout, Goto, Unregister, chanVars, Continues
<1>8. CASE pick_wait(t)
    BY <1>8 DEF pick_wait, Goto, Unregister, chanVars, Continues
<1>9. CASE unregister_all(t)
    BY <1>9 DEF unregister_all, Continues
<1>10. CASE unregister_end(t)
    BY <1>10 DEF unregister_end, Goto, chanVars, Continues
<1>11. CASE rescan_case(t)
    BY <1>11 DEF rescan_case, Goto, Return, Continues
<1>12. CASE rescan_end(t)
    BY <1>12 DEF rescan_end, Return, chanVars, Continues
<1> QED
    BY <1>1, <1>2, <1>3, <1>4, <1>5, <1>6, <1>7, <1>8, <1>9, <1>10, <1>11, <1>12 DEF Step

\* A call begins with channels that exist.
LEMMA KeptCall ==
    ASSUME TypeOK, InUseKept, NEW t \in Threads, Call(t)
    PROVE  InUseKept' /\ UNCHANGED collected
<1>1. ASSUME NEW cs, CanBegin(t, cs), cases' = [cases EXCEPT ![t] = cs], UNCHANGED collected,
             \A u \in Threads \ {t} : pc[u] = "idle" => pc'[u] = "idle"
      PROVE  InUseKept' /\ UNCHANGED collected
    <2>1. cases'[t] = cs /\ \A u \in Threads \ {t} : cases'[u] = cases[u]
        BY <1>1 DEF TypeOK
    <2>2. \A c \in Channels : Uses(t, c)' => c \notin collected
        BY <1>1, <2>1 DEF Uses, CanBegin
    <2>3. \A u \in Threads \ {t}, c \in Channels : Uses(u, c)' => Uses(u, c)
        BY <1>1, <2>1 DEF Uses
    <2> QED
        BY <1>1, <2>2, <2>3 DEF InUseKept
<1>2. ASSUME NEW cs, NEW where, Begin(t, cs, where), UNCHANGED collected
      PROVE  InUseKept' /\ UNCHANGED collected
    BY <1>1, <1>2 DEF Begin, TypeOK
<1>3. ASSUME NEW c \in Channels, channel_close(t, c)
      PROVE  InUseKept' /\ UNCHANGED collected
    BY <1>1, <1>3 DEF channel_close, wake_receivers, Waiters
<1>4. ASSUME NEW c \in Channels, NEW m \in Messages,
             \/ send_mismatch(t, c, m) \/ channel_send(t, c, m) \/ channel_try_send(t, c, m)
      PROVE  InUseKept' /\ UNCHANGED collected
    BY <1>2, <1>4 DEF send_mismatch, channel_send, channel_try_send, anchor, chanVars
<1>5. ASSUME NEW c \in Channels,
             channel_receive(t, c) \/ channel_try_receive(t, c) \/ channel_peek(t, c)
      PROVE  InUseKept' /\ UNCHANGED collected
    BY <1>2, <1>5 DEF channel_receive, channel_try_receive, channel_peek, chanVars
<1>6. ASSUME NEW cs \in CaseLists, NEW over \in BOOLEAN, thread_pick(t, cs, over)
      PROVE  InUseKept' /\ UNCHANGED collected
    BY <1>2, <1>6 DEF thread_pick, chanVars
<1> QED
    BY <1>3, <1>4, <1>5, <1>6 DEF Call

LEMMA KeptNext == TypeOK /\ InUseKept /\ [Next]_vars => InUseKept'
<1> SUFFICES ASSUME TypeOK, InUseKept, [Next]_vars PROVE InUseKept'
    OBVIOUS
<1>1. ASSUME NEW t \in Threads, spurious_wakeup(t) PROVE Continues
    BY <1>1 DEF spurious_wakeup, Goto, chanVars, TypeOK, Continues
<1>2. ASSUME NEW c \in Channels, channel_gc(c) PROVE InUseKept'
    BY <1>2 DEF channel_gc, InUseKept, Uses
<1>3. CASE UNCHANGED vars
    BY <1>3 DEF vars, InUseKept, Uses
<1> QED
    BY <1>1, <1>2, <1>3, KeptCall, KeptContinues, StepContinues, NextCases

\* The steps of ChannelAbs, each enough for a step of its Next.
AbsStep == Abs!Next \/ UNCHANGED Abs!absVars

LEMMA AbsGiveUp ==
    ASSUME NEW t \in Threads, NEW r \in {"false", "mismatch", "oom", "timeout", "nocase"},
           out' = [out EXCEPT ![t] = r], UNCHANGED <<queue, closed, collected>>
    PROVE  AbsStep
BY DEF AbsStep, Abs!Next, Abs!GiveUp, Abs!Result

LEMMA AbsTake ==
    ASSUME NEW t \in Threads, NEW c \in Channels, c \notin collected,
           take(t, c), UNCHANGED <<closed, collected>>
    PROVE  AbsStep
<1>1. Abs!Take(t, c)
    BY DEF take, Abs!Take, Abs!Result
<1> QED
    BY <1>1 DEF AbsStep, Abs!Next

LEMMA AbsEnd ==
    ASSUME NEW t \in Threads, NEW c \in Channels, c \notin collected, queue[c] = <<>>,
           closed[c], out' = [out EXCEPT ![t] = "eof"], UNCHANGED <<queue, closed, collected>>
    PROVE  AbsStep
<1>1. Abs!EndOfChannel(t, c)
    BY DEF Abs!EndOfChannel, Abs!Result
<1> QED
    BY <1>1 DEF AbsStep, Abs!Next

LEMMA AbsStutter == UNCHANGED <<queue, closed, collected, out>> => AbsStep
BY DEF AbsStep, Abs!absVars

LEMMA CallRefines ==
    ASSUME TypeOK, InUseKept, NEW t \in Threads, Call(t)
    PROVE  AbsStep
<1>1. ASSUME NEW c \in Channels, NEW m \in Messages, send_mismatch(t, c, m)
      PROVE  AbsStep
    BY <1>1, AbsGiveUp DEF send_mismatch, chanVars
<1>2. ASSUME NEW c \in Channels, NEW m \in Messages, NEW where, anchor(t, c, m, where)
      PROVE  AbsStep
    BY <1>2, AbsGiveUp, AbsStutter DEF anchor, chanVars
<1>3. ASSUME NEW c \in Channels, channel_receive(t, c)
      PROVE  AbsStep
    BY <1>3, AbsStutter DEF channel_receive, chanVars
<1>4. ASSUME NEW c \in Channels, NEW where, Begin(t, <<c>>, where)
      PROVE  c \notin collected
    BY <1>4 DEF Begin, CanBegin
<1>5. ASSUME NEW c \in Channels, channel_try_receive(t, c)
      PROVE  AbsStep
    <2>1. c \notin collected
        BY <1>4, <1>5 DEF channel_try_receive
    <2>2. CASE take(t, c)
        BY <1>5, <2>1, <2>2, AbsTake DEF channel_try_receive
    <2>3. CASE queue[c] = <<>> /\ out' = [out EXCEPT ![t] = "nil"] /\ UNCHANGED queue
        <3>1. Abs!FindEmpty(t, c)
            BY <1>5, <2>3 DEF channel_try_receive, Abs!FindEmpty, Abs!Result
        <3> QED
            BY <2>1, <3>1 DEF AbsStep, Abs!Next
    <2> QED
        BY <1>5, <2>2, <2>3 DEF channel_try_receive
<1>6. ASSUME NEW c \in Channels, channel_peek(t, c)
      PROVE  AbsStep
    <2>1. c \notin collected
        BY <1>4, <1>6 DEF channel_peek
    <2>2. Abs!FindEmpty(t, c) \/ Abs!Look(t, c)
        BY <1>6 DEF channel_peek, chanVars, Abs!FindEmpty, Abs!Look, Abs!Result
    <2> QED
        BY <2>1, <2>2 DEF AbsStep, Abs!Next
<1>7. ASSUME NEW c \in Channels, channel_close(t, c)
      PROVE  AbsStep
    <2>1. c \notin collected
        BY <1>7 DEF channel_close, CanBegin
    <2>2. Abs!Close(t, c)
        BY <1>7 DEF channel_close, Abs!Close, Abs!Result
    <2> QED
        BY <2>1, <2>2 DEF AbsStep, Abs!Next
<1>8. ASSUME NEW cs \in CaseLists, NEW over \in BOOLEAN, thread_pick(t, cs, over)
      PROVE  AbsStep
    BY <1>8, AbsStutter DEF thread_pick, chanVars
<1> QED
    BY <1>1, <1>2, <1>3, <1>5, <1>6, <1>7, <1>8 DEF Call, channel_send, channel_try_send

LEMMA StepRefines ==
    ASSUME TypeOK, InUseKept, NEW t \in Threads, Step(t)
    PROVE  AbsStep
<1>1. ASSUME pc[t] # "idle", idx[t] \in DOMAIN cases[t]
      PROVE  Chan(t) \in Channels /\ Chan(t) \notin collected
    BY <1>1 DEF TypeOK, Chan, InUseKept, Uses
<1>2. ASSUME NEW r \in {"ok", "true"}, pc[t] \in {"send", "try_send"}, enqueue(t, r)
      PROVE  AbsStep
    <2>1. Chan(t) \in Channels \ collected /\ msg[t] \in Messages
        BY <1>1, <1>2 DEF TypeOK
    <2>2. Abs!Put(t, Chan(t), msg[t])
        BY <1>2 DEF enqueue, Abs!Put, Abs!Result
    <2> QED
        BY <2>1, <2>2 DEF AbsStep, Abs!Next
<1>3. CASE send_locked(t)
    <2>1. CASE closed[Chan(t)] /\ refuse(t, "closed")
        <3>1. Abs!Refuse(t, Chan(t))
            BY <2>1 DEF refuse, Return, chanVars, Abs!Refuse, Abs!Result
        <3>2. Chan(t) \in Channels \ collected
            BY <1>1, <1>3 DEF send_locked, TypeOK
        <3> QED
            BY <3>1, <3>2 DEF AbsStep, Abs!Next
    <2> QED
        BY <1>2, <1>3, <2>1 DEF send_locked
<1>4. CASE try_send_locked(t)
    <2>1. CASE refuse(t, "false")
        BY <2>1, AbsGiveUp DEF refuse, Return, chanVars
    <2> QED
        BY <1>2, <1>4, <2>1 DEF try_send_locked
<1>5. CASE notify_listener(t) \/ notify_done(t) \/ fetch(t) \/ scan_end(t) \/ pick_wait(t)
           \/ unregister_all(t) \/ unregister_end(t)
    BY <1>5, AbsStutter DEF notify_listener, notify_done, fetch, scan_end, pick_wait,
                            unregister_all, unregister_end, chanVars
<1>6. CASE receive_locked(t)
    <2>1. Chan(t) \in Channels /\ Chan(t) \notin collected
        BY <1>1, <1>6 DEF receive_locked, TypeOK
    <2> QED
        BY <1>6, <2>1, AbsTake, AbsEnd, AbsStutter DEF receive_locked, Return
<1>7. ASSUME pc[t] # "idle", idx[t] <= Len(cases[t])
      PROVE  Chan(t) \in Channels /\ Chan(t) \notin collected
    <2>1. cases[t] \in Seq(Channels) /\ idx[t] \in Nat \ {0}
        BY DEF TypeOK
    <2>2. idx[t] \in DOMAIN cases[t]
        BY <1>7, <2>1
    <2> QED
        BY <1>1, <1>7, <2>2
<1>8. CASE scan_case(t)
    <2>1. Chan(t) \in Channels /\ Chan(t) \notin collected
        BY <1>7, <1>8 DEF scan_case
    <2> QED
        BY <1>8, <2>1, AbsTake, AbsEnd, AbsStutter, AbsGiveUp DEF scan_case
<1>9. CASE pick_timeout(t)
    BY <1>9, AbsGiveUp DEF pick_timeout, chanVars
<1>10. CASE rescan_case(t)
    <2>1. Chan(t) \in Channels /\ Chan(t) \notin collected
        BY <1>7, <1>10 DEF rescan_case
    <2> QED
        BY <1>10, <2>1, AbsTake, AbsEnd, AbsStutter DEF rescan_case, Return
<1>11. CASE rescan_end(t)
    BY <1>11, AbsGiveUp DEF rescan_end, Return, chanVars
<1> QED
    BY <1>3, <1>4, <1>5, <1>6, <1>8, <1>9, <1>10, <1>11 DEF Step

\* Threads that send, receive, poll, pick and close at once see a channel as one
\* FIFO queue, on which each call takes effect at one moment.
THEOREM ChannelRefines == Spec => RefinesChannelAbs
<1>1. Init => Abs!Init /\ InUseKept
    BY DEF Init, Abs!Init, InUseKept, Uses
<1>2. TypeOK /\ InUseKept /\ [Next]_vars => [Abs!Next]_(Abs!absVars)
    <2> SUFFICES ASSUME TypeOK, InUseKept, [Next]_vars PROVE AbsStep
        BY DEF AbsStep
    <2>1. ASSUME NEW t \in Threads, spurious_wakeup(t) PROVE AbsStep
        BY <2>1, AbsStutter DEF spurious_wakeup, chanVars
    <2>2. ASSUME NEW c \in Channels, channel_gc(c) PROVE AbsStep
        <3>1. Abs!Collect(c)
            BY <2>2 DEF channel_gc, Abs!Collect
        <3> QED
            BY <2>2, <3>1 DEF channel_gc, AbsStep, Abs!Next
    <2>3. CASE UNCHANGED vars
        BY <2>3, AbsStutter DEF vars
    <2> QED
        BY <2>1, <2>2, <2>3, CallRefines, StepRefines, NextCases
<1> QED
    BY <1>1, <1>2, TypeInit, TypeNext, KeptNext, PTL DEF Spec, Abs!Spec, RefinesChannelAbs
----------------------------------------------------------------------------
(***************************************************************************)
(* Theorem about the messages of Channel: every one is in exactly one place *)
(* and its luaL_ref unanswered exactly while it is in one, for every set of *)
(* threads, channels and messages.                                         *)
(*                                                                         *)
(* A step leaves queues, messages and anchored alone or is one of six:     *)
(* a message is anchored, given up before it is, released, appended,       *)
(* taken, or finalised with its channel. One lemma shows each to keep the  *)
(* account; the last two need that the thread holds nothing yet, which is  *)
(* what EmptyHanded adds to the invariant.                                 *)
(***************************************************************************)

\* A thread holds a message only on its way into a channel or out of one.
EmptyHanded ==
    \A t \in Threads : msg[t] # NoMsg =>
        \/ pc[t] \in {"send", "try_send", "fetch"}
        \/ pc[t] = "unregister" /\ after[t] = "take"

----------------------------------------------------------------------------
\* What a queue holds after Append and after Tail.
LEMMA AppendElements ==
    ASSUME NEW S, NEW s \in Seq(S), NEW e \in S
    PROVE  /\ \A i \in DOMAIN s : i \in DOMAIN Append(s, e) /\ Append(s, e)[i] = s[i]
           /\ \A i \in DOMAIN Append(s, e) :
                i \in DOMAIN s \/ (i = Len(s) + 1 /\ Append(s, e)[i] = e)
           /\ Len(s) + 1 \in DOMAIN Append(s, e) /\ Append(s, e)[Len(s) + 1] = e
OBVIOUS

LEMMA TailElements ==
    ASSUME NEW S, NEW s \in Seq(S), s # <<>>
    PROVE  /\ 1 \in DOMAIN s /\ Head(s) = s[1]
           /\ \A i \in DOMAIN s : i = 1 \/ (i - 1 \in DOMAIN Tail(s) /\ Tail(s)[i - 1] = s[i])
           /\ \A i \in DOMAIN Tail(s) :
                i + 1 \in DOMAIN s /\ i + 1 # 1 /\ Tail(s)[i] = s[i + 1]
           /\ \A i, j \in DOMAIN Tail(s) : i + 1 = j + 1 => i = j
<1>1. Len(s) \in Nat /\ Len(s) # 0 /\ DOMAIN s = 1..Len(s)
    OBVIOUS
<1>2. /\ Len(Tail(s)) = Len(s) - 1
      /\ \A i \in 1..Len(s) - 1 : Tail(s)[i] = s[i + 1]
      /\ DOMAIN Tail(s) = 1..Len(s) - 1
    OBVIOUS
<1> QED
    BY <1>1, <1>2

\* A message is somewhere: in a queue, or with a thread.
Somewhere(x) ==
    \/ \E c \in Channels : x \in Queued(c)
    \/ x # NoMsg /\ \E t \in Threads : msg[t] = x

\* Anchored while somewhere, before a step and after one.
LEMMA Anchored == MessagesAccounted => \A x : x \in anchored <=> Somewhere(x)
<1> SUFFICES ASSUME MessagesAccounted PROVE \A x : x \in anchored <=> Somewhere(x)
    OBVIOUS
<1> DEFINE Queues == UNION {Queued(c) : c \in Channels}
           Hands == {msg[t] : t \in Threads} \ {NoMsg}
<1>1. \A x : x \in Queues <=> \E c \in Channels : x \in Queued(c)
    OBVIOUS
<1>2. \A x : x \in Hands <=> x # NoMsg /\ \E t \in Threads : msg[t] = x
    OBVIOUS
<1>3. anchored = Queues \cup Hands
    BY Zenon DEF MessagesAccounted
<1> HIDE DEF Queues, Hands
<1> QED
    BY <1>1, <1>2, <1>3 DEF Somewhere

LEMMA AnchoredNext ==
    ASSUME \A x : x \in anchored' <=> Somewhere(x)'
    PROVE  anchored' = (UNION {Queued(c)' : c \in Channels})
                            \cup ({msg'[t] : t \in Threads} \ {NoMsg})
<1> DEFINE Queues == UNION {Queued(c)' : c \in Channels}
           Hands == {msg'[t] : t \in Threads} \ {NoMsg}
<1>1. \A x : x \in Queues <=> \E c \in Channels : x \in Queued(c)'
    OBVIOUS
<1>2. \A x : x \in Hands <=> x # NoMsg /\ \E t \in Threads : msg'[t] = x
    OBVIOUS
<1>3. \A x : x \in anchored' <=> x \in Queues \/ x \in Hands
    BY <1>1, <1>2 DEF Somewhere
<1> HIDE DEF Queues, Hands
<1>4. anchored' = Queues \cup Hands
    BY <1>3
<1> QED
    BY <1>4, Zenon DEF Queues, Hands

----------------------------------------------------------------------------
\* The six kinds of step, and their account.

\* t anchors x.
LEMMA AccountAnchor ==
    ASSUME TypeOK, MessagesAccounted, NEW t \in Threads, msg[t] = NoMsg,
           NEW x \in fresh,
           fresh' = fresh \ {x}, anchored' = anchored \cup {x},
           msg' = [msg EXCEPT ![t] = x], UNCHANGED queue
    PROVE  MessagesAccounted'
<1>1. x \in Messages /\ x # NoMsg /\ x \notin anchored
    BY ChannelAssumption DEF TypeOK, MessagesAccounted
<1>2. msg'[t] = x /\ \A u \in Threads \ {t} : msg'[u] = msg[u]
    BY DEF TypeOK
<1>3. \A c \in Channels : x \notin Queued(c) /\ Queued(c)' = Queued(c)
    <2>1. \A c \in Channels : Queued(c)' = Queued(c)
        BY DEF Queued
    <2> QED
        BY <1>1, <2>1, Anchored DEF Somewhere
<1>4. \A u \in Threads : msg[u] # x
    BY <1>1, Anchored DEF Somewhere
<1>5. \A y : Somewhere(y)' <=> Somewhere(y) \/ y = x
    BY <1>1, <1>2, <1>3, <1>4 DEF Somewhere
<1>6. anchored' = (UNION {Queued(c)' : c \in Channels}) \cup ({msg'[u] : u \in Threads} \ {NoMsg})
    BY <1>5, Anchored, AnchoredNext
<1>7. \A u, v \in Threads : msg'[u] = msg'[v] /\ msg'[u] # NoMsg => u = v
    BY <1>2, <1>4 DEF MessagesAccounted
<1>8. \A u \in Threads, c \in Channels : msg'[u] \notin Queued(c)'
    BY <1>2, <1>3 DEF MessagesAccounted
<1> QED
    BY <1>6, <1>7, <1>8 DEF MessagesAccounted

\* A reference is released before the call gives the message to anybody.
LEMMA AccountGiveUp ==
    ASSUME MessagesAccounted, NEW x \in fresh, fresh' = fresh \ {x},
           UNCHANGED <<anchored, queue, msg>>
    PROVE  MessagesAccounted'
BY DEF MessagesAccounted, Queued

\* t releases what it holds.
LEMMA AccountRelease ==
    ASSUME TypeOK, MessagesAccounted, NEW t \in Threads, msg[t] # NoMsg,
           anchored' = anchored \ {msg[t]}, msg' = [msg EXCEPT ![t] = NoMsg],
           UNCHANGED <<fresh, queue>>
    PROVE  MessagesAccounted'
<1>1. msg'[t] = NoMsg /\ \A u \in Threads \ {t} : msg'[u] = msg[u] /\ msg[u] # msg[t]
    BY DEF TypeOK, MessagesAccounted
<1>2. \A c \in Channels : Queued(c)' = Queued(c) /\ msg[t] \notin Queued(c)
                         /\ NoMsg \notin Queued(c)
    BY ChannelAssumption DEF MessagesAccounted, Queued, TypeOK
<1>3. \A y : Somewhere(y)' <=> Somewhere(y) /\ y # msg[t]
    BY <1>1, <1>2 DEF Somewhere
<1>4. anchored' = (UNION {Queued(c)' : c \in Channels}) \cup ({msg'[u] : u \in Threads} \ {NoMsg})
    BY <1>3, Anchored, AnchoredNext
<1>5. \A u, v \in Threads : msg'[u] = msg'[v] /\ msg'[u] # NoMsg => u = v
    BY <1>1 DEF MessagesAccounted
<1>6. \A u \in Threads, c \in Channels : msg'[u] \notin Queued(c)'
    BY <1>1, <1>2 DEF MessagesAccounted
<1>7. fresh' \cap anchored' = {}
    BY DEF MessagesAccounted
<1> QED
    BY <1>4, <1>5, <1>6, <1>7 DEF MessagesAccounted

\* t appends what it holds to a queue.
LEMMA AccountEnqueue ==
    ASSUME TypeOK, MessagesAccounted, NEW t \in Threads, NEW c \in Channels,
           msg[t] \in Messages,
           queue' = [queue EXCEPT ![c] = Append(@, msg[t])],
           msg' = [msg EXCEPT ![t] = NoMsg], UNCHANGED refVars
    PROVE  MessagesAccounted'
<1>0. msg[t] # NoMsg
    BY ChannelAssumption
<1>1. msg'[t] = NoMsg /\ \A u \in Threads \ {t} : msg'[u] = msg[u] /\ msg[u] # msg[t]
    BY <1>0 DEF TypeOK, MessagesAccounted
<1>2. /\ queue'[c] = Append(queue[c], msg[t]) /\ queue[c] \in Seq(Messages)
      /\ \A d \in Channels \ {c} : queue'[d] = queue[d]
    BY DEF TypeOK
<1>3. /\ \A i \in DOMAIN queue[c] : i \in DOMAIN queue'[c] /\ queue'[c][i] = queue[c][i]
      /\ \A i \in DOMAIN queue'[c] :
            i \in DOMAIN queue[c] \/ (i = Len(queue[c]) + 1 /\ queue'[c][i] = msg[t])
      /\ Len(queue[c]) + 1 \in DOMAIN queue'[c] /\ queue'[c][Len(queue[c]) + 1] = msg[t]
    BY <1>2, AppendElements
<1>4. /\ Queued(c)' = Queued(c) \cup {msg[t]}
      /\ \A d \in Channels \ {c} : Queued(d)' = Queued(d)
      /\ \A d \in Channels : NoMsg \notin Queued(d)' /\ msg[t] \notin Queued(d)
    <2>1. Queued(c)' = Queued(c) \cup {msg[t]}
        BY <1>3 DEF Queued
    <2>2. \A d \in Channels \ {c} : Queued(d)' = Queued(d)
        BY <1>2 DEF Queued
    <2>3. \A d \in Channels : msg[t] \notin Queued(d)
        BY DEF MessagesAccounted
    <2>4. \A d \in Channels : NoMsg \notin Queued(d)
        BY ChannelAssumption DEF Queued, TypeOK
    <2> QED
        BY <1>0, <2>1, <2>2, <2>3, <2>4
<1>5. \A y : Somewhere(y)' <=> Somewhere(y)
    BY <1>0, <1>1, <1>4 DEF Somewhere
<1>7. anchored' = (UNION {Queued(d)' : d \in Channels}) \cup ({msg'[u] : u \in Threads} \ {NoMsg})
    BY <1>5, Anchored, AnchoredNext DEF refVars
<1>8. \A u, v \in Threads : msg'[u] = msg'[v] /\ msg'[u] # NoMsg => u = v
    BY <1>1 DEF MessagesAccounted
<1>9. \A u \in Threads, d \in Channels : msg'[u] \notin Queued(d)'
    BY <1>1, <1>4 DEF MessagesAccounted
<1>10. \A d, e \in Channels : \A i \in DOMAIN queue'[d], j \in DOMAIN queue'[e] :
            queue'[d][i] = queue'[e][j] => d = e /\ i = j
    <2> SUFFICES ASSUME NEW d \in Channels, NEW e \in Channels,
                        NEW i \in DOMAIN queue'[d], NEW j \in DOMAIN queue'[e],
                        queue'[d][i] = queue'[e][j]
                 PROVE  d = e /\ i = j
        OBVIOUS
    <2>1. ASSUME NEW b \in Channels, NEW k \in DOMAIN queue'[b]
          PROVE  \/ k \in DOMAIN queue[b] /\ queue'[b][k] = queue[b][k]
                    /\ queue'[b][k] # msg[t]
                 \/ b = c /\ k = Len(queue[c]) + 1 /\ queue'[b][k] = msg[t]
        BY <2>1, <1>2, <1>3, <1>4 DEF Queued
    <2> QED
        BY <2>1 DEF MessagesAccounted
<1> QED
    BY <1>7, <1>8, <1>9, <1>10 DEF MessagesAccounted, refVars

\* t, which holds nothing, takes the head of a queue.
LEMMA AccountTake ==
    ASSUME TypeOK, MessagesAccounted, NEW t \in Threads, NEW c \in Channels,
           msg[t] = NoMsg, take(t, c), UNCHANGED refVars
    PROVE  MessagesAccounted'
<1> DEFINE x == Head(queue[c])
<1>0. queue[c] # <<>> /\ queue[c] \in Seq(Messages)
    BY DEF take, TypeOK
<1>1. msg'[t] = x /\ \A u \in Threads \ {t} : msg'[u] = msg[u]
    BY DEF take, TypeOK
<1>2. queue'[c] = Tail(queue[c]) /\ \A d \in Channels \ {c} : queue'[d] = queue[d]
    BY DEF take, TypeOK
<1>3. /\ 1 \in DOMAIN queue[c] /\ x = queue[c][1]
      /\ \A i \in DOMAIN queue[c] :
            i = 1 \/ (i - 1 \in DOMAIN queue'[c] /\ queue'[c][i - 1] = queue[c][i])
      /\ \A i \in DOMAIN queue'[c] :
            i + 1 \in DOMAIN queue[c] /\ i + 1 # 1 /\ queue'[c][i] = queue[c][i + 1]
      /\ \A i, j \in DOMAIN queue'[c] : i + 1 = j + 1 => i = j
    BY <1>0, <1>2, TailElements
<1> HIDE DEF x
<1>4. x \in Queued(c) /\ x # NoMsg
    <2>1. x \in Queued(c)
        BY <1>3 DEF Queued
    <2>2. x \in Messages
        BY <1>0, HeadTailTyped DEF x
    <2> QED
        BY <2>1, <2>2, ChannelAssumption
<1>5. Queued(c)' = Queued(c) \ {x}
    <2>1. \A i \in DOMAIN queue[c] : queue[c][i] = x => i = 1
        BY <1>3 DEF MessagesAccounted
    <2> QED
        BY <2>1, <1>3 DEF Queued
<1>6. \A d \in Channels \ {c} : Queued(d)' = Queued(d) /\ x \notin Queued(d)
    BY <1>2, <1>3 DEF Queued, MessagesAccounted
<1>7. \A u \in Threads : msg[u] # x
    BY <1>4 DEF MessagesAccounted
<1>8. \A y : Somewhere(y)' <=> Somewhere(y)
    BY <1>1, <1>4, <1>5, <1>6, <1>7 DEF Somewhere
<1>9. anchored' = (UNION {Queued(d)' : d \in Channels}) \cup ({msg'[u] : u \in Threads} \ {NoMsg})
    BY <1>8, Anchored, AnchoredNext DEF refVars
<1>10. \A u, v \in Threads : msg'[u] = msg'[v] /\ msg'[u] # NoMsg => u = v
    BY <1>1, <1>7 DEF MessagesAccounted
<1>11. \A u \in Threads, d \in Channels : msg'[u] \notin Queued(d)'
    BY <1>1, <1>5, <1>6 DEF MessagesAccounted
<1>12. \A d, e \in Channels : \A i \in DOMAIN queue'[d], j \in DOMAIN queue'[e] :
            queue'[d][i] = queue'[e][j] => d = e /\ i = j
    <2> SUFFICES ASSUME NEW d \in Channels, NEW e \in Channels,
                        NEW i \in DOMAIN queue'[d], NEW j \in DOMAIN queue'[e],
                        queue'[d][i] = queue'[e][j]
                 PROVE  d = e /\ i = j
        OBVIOUS
    <2>1. ASSUME NEW b \in Channels, NEW k \in DOMAIN queue'[b]
          PROVE  \/ b # c /\ k \in DOMAIN queue[b] /\ queue'[b][k] = queue[b][k]
                 \/ b = c /\ k + 1 \in DOMAIN queue[b] /\ queue'[b][k] = queue[b][k + 1]
        BY <2>1, <1>2, <1>3
    <2>2. CASE d # c /\ e # c
        BY <2>1, <2>2 DEF MessagesAccounted
    <2>3. CASE d = c /\ e = c
        BY <2>1, <2>3, <1>3 DEF MessagesAccounted
    <2>4. CASE (d = c) # (e = c)
        BY <2>1, <2>4 DEF MessagesAccounted
    <2> QED
        BY <2>2, <2>3, <2>4
<1> QED
    BY <1>9, <1>10, <1>11, <1>12 DEF MessagesAccounted, refVars

\* The collector releases what a channel still holds.
LEMMA AccountCollect ==
    ASSUME TypeOK, MessagesAccounted, NEW c \in Channels, channel_gc(c)
    PROVE  MessagesAccounted'
<1>1. /\ anchored' = anchored \ Queued(c) /\ UNCHANGED <<fresh, msg>>
      /\ queue'[c] = <<>> /\ \A d \in Channels \ {c} : queue'[d] = queue[d]
    BY DEF channel_gc, Queued, TypeOK
<1>2. DOMAIN queue'[c] = {}
    BY <1>1
<1>3. /\ Queued(c)' = {}
      /\ \A d \in Channels \ {c} : Queued(d)' = Queued(d) /\ Queued(d) \cap Queued(c) = {}
    BY <1>1, <1>2 DEF Queued, MessagesAccounted
<1>4. \A u \in Threads : msg[u] \notin Queued(c)
    BY DEF MessagesAccounted
<1>5. anchored' = (UNION {Queued(d)' : d \in Channels}) \cup ({msg'[u] : u \in Threads} \ {NoMsg})
    <2>1. \A y : Somewhere(y)' <=> Somewhere(y) /\ y \notin Queued(c)
        BY <1>1, <1>3, <1>4 DEF Somewhere
    <2> QED
        BY <2>1, <1>1, Anchored, AnchoredNext
<1>6. \A d, e \in Channels : \A i \in DOMAIN queue'[d], j \in DOMAIN queue'[e] :
            queue'[d][i] = queue'[e][j] => d = e /\ i = j
    BY <1>1, <1>2 DEF MessagesAccounted
<1>7. \A u \in Threads, d \in Channels : msg'[u] \notin Queued(d)'
    BY <1>1, <1>3 DEF MessagesAccounted
<1> QED
    BY <1>1, <1>5, <1>6, <1>7 DEF MessagesAccounted

\* None of the six.
LEMMA AccountFrame ==
    ASSUME MessagesAccounted, UNCHANGED <<queue, msg, anchored, fresh>>
    PROVE  MessagesAccounted'
BY DEF MessagesAccounted, Queued

----------------------------------------------------------------------------
\* Each step of t is one of the kinds, and leaves everybody else's hands alone: a
\* thread it moves was waiting, with empty hands.
Elsewhere(t) ==
    \A u \in Threads \ {t} :
        /\ msg'[u] = msg[u] /\ after'[u] = after[u]
        /\ pc'[u] = pc[u] \/ pc[u] \in {"recv_wait", "sel_wait"}

LEMMA HandsNext ==
    ASSUME EmptyHanded, NEW t \in Threads, Elsewhere(t),
           msg'[t] # NoMsg =>
                \/ pc'[t] \in {"send", "try_send", "fetch"}
                \/ pc'[t] = "unregister" /\ after'[t] = "take"
    PROVE  EmptyHanded'
BY DEF EmptyHanded, Elsewhere

Account == MessagesAccounted /\ EmptyHanded

\* A thread about to take, or that begins a call, holds nothing.
LEMMA FreeHands ==
    ASSUME EmptyHanded, NEW t \in Threads,
           pc[t] \in {"idle", "walk", "receive", "recv_wait", "recv_woken", "scan",
                     "select", "sel_wait", "rescan"}
    PROVE  msg[t] = NoMsg
BY DEF EmptyHanded

LEMMA AccountCall ==
    ASSUME TypeOK, Account, NEW t \in Threads, Call(t)
    PROVE  Account'
<1> USE DEF Account
<1>0. pc[t] = "idle" /\ msg[t] = NoMsg
    <2>1. pc[t] = "idle"
        BY DEF Call, send_mismatch, channel_send, channel_try_send, anchor, channel_receive,
               channel_try_receive, channel_peek, channel_close, thread_pick, Begin, CanBegin
    <2> QED
        BY <2>1, FreeHands
<1>1. ASSUME NEW c \in Channels, NEW m \in Messages, NEW where \in {"send", "try_send"},
             anchor(t, c, m, where)
      PROVE  Account'
    <2>1. CASE Begin(t, <<c>>, where) /\ anchored' = anchored \cup {m}
               /\ msg' = [msg EXCEPT ![t] = m]
        <3>1. MessagesAccounted'
            BY <1>0, <1>1, <2>1, AccountAnchor DEF anchor, chanVars
        <3>2. EmptyHanded'
            BY <1>1, <2>1, HandsNext DEF anchor, Begin, pickVars, TypeOK, Elsewhere
        <3> QED
            BY <3>1, <3>2
    <2>2. CASE Begin(t, <<c>>, "idle") /\ UNCHANGED <<anchored, msg>>
        <3>1. MessagesAccounted'
            BY <1>1, <2>2, AccountGiveUp DEF anchor, chanVars
        <3>2. EmptyHanded'
            BY <1>0, <1>1, <2>2, HandsNext DEF anchor, Begin, pickVars, TypeOK, Elsewhere
        <3> QED
            BY <3>1, <3>2
    <2> QED
        BY <1>1, <2>1, <2>2 DEF anchor
<1>2. ASSUME NEW c \in Channels, channel_try_receive(t, c)
      PROVE  Account'
    <2>1. CASE take(t, c) /\ Begin(t, <<c>>, "fetch")
        <3>1. MessagesAccounted'
            BY <1>0, <1>2, <2>1, AccountTake DEF channel_try_receive
        <3>2. EmptyHanded'
            BY <1>2, <2>1, HandsNext DEF channel_try_receive, take, Begin, pickVars, TypeOK,
                                         Elsewhere
        <3> QED
            BY <3>1, <3>2
    <2>2. CASE Begin(t, <<c>>, "idle") /\ UNCHANGED <<queue, msg>>
        <3>1. MessagesAccounted'
            BY <1>2, <2>2, AccountFrame DEF channel_try_receive, refVars
        <3>2. EmptyHanded'
            BY <1>0, <1>2, <2>2, HandsNext DEF channel_try_receive, Begin, pickVars, TypeOK,
                                               Elsewhere
        <3> QED
            BY <3>1, <3>2
    <2> QED
        BY <1>2, <2>1, <2>2 DEF channel_try_receive
<1>3. ASSUME UNCHANGED <<queue, msg, anchored, fresh, after>>,
             \A u \in Threads \ {t} : pc'[u] = pc[u] \/ pc[u] \in {"recv_wait", "sel_wait"}
      PROVE  Account'
    BY <1>0, <1>3, AccountFrame, HandsNext DEF Elsewhere
<1>4. ASSUME NEW c \in Channels, NEW m \in Messages, send_mismatch(t, c, m)
      PROVE  Account'
    BY <1>3, <1>4 DEF send_mismatch, Begin, chanVars, refVars, pickVars, TypeOK
<1>5. ASSUME NEW c \in Channels, channel_receive(t, c) \/ channel_peek(t, c)
      PROVE  Account'
    BY <1>3, <1>5 DEF channel_receive, channel_peek, Begin, chanVars, refVars, pickVars, TypeOK
<1>6. ASSUME NEW c \in Channels, channel_close(t, c)
      PROVE  Account'
    BY <1>3, <1>6 DEF channel_close, wake_receivers, Waiters, refVars, pickVars, TypeOK
<1>7. ASSUME NEW cs \in CaseLists, NEW over \in BOOLEAN, thread_pick(t, cs, over)
      PROVE  Account'
    BY <1>3, <1>7 DEF thread_pick, Begin, chanVars, refVars, TypeOK
<1> QED
    BY <1>1, <1>2, <1>4, <1>5, <1>6, <1>7 DEF Call, channel_send, channel_try_send

LEMMA AccountStep ==
    ASSUME TypeOK, Account, NEW t \in Threads, Step(t)
    PROVE  Account'
<1> USE DEF Account
<1> DEFINE c == Chan(t)
<1>0. ASSUME idx[t] \in DOMAIN cases[t] PROVE c \in Channels
    BY <1>0 DEF TypeOK, Chan
\* A step that moves no message, and leaves t with what pc' allows.
<1>1. ASSUME UNCHANGED <<queue, msg, anchored, fresh>>, Elsewhere(t),
             msg[t] # NoMsg =>
                \/ pc'[t] \in {"send", "try_send", "fetch"}
                \/ pc'[t] = "unregister" /\ after'[t] = "take"
      PROVE  Account'
    BY <1>1, AccountFrame, HandsNext
\* A step that releases what t holds.
<1>2. ASSUME msg[t] \in Messages, anchored' = anchored \ {msg[t]},
             msg' = [msg EXCEPT ![t] = NoMsg], UNCHANGED <<fresh, queue, after>>,
             \A u \in Threads \ {t} : pc'[u] = pc[u]
      PROVE  Account'
    <2>1. MessagesAccounted'
        BY <1>2, AccountRelease, ChannelAssumption
    <2> QED
        BY <1>2, <2>1, HandsNext DEF Elsewhere, TypeOK
\* A step that takes a message and leaves t with it.
<1>3. ASSUME c \in Channels, take(t, c), msg[t] = NoMsg, UNCHANGED refVars, Elsewhere(t),
             \/ pc'[t] = "fetch"
             \/ pc'[t] = "unregister" /\ after'[t] = "take"
      PROVE  Account'
    BY <1>3, AccountTake, HandsNext
<1>4. ASSUME NEW r, pc[t] \in {"send", "try_send"}, enqueue(t, r)
      PROVE  Account'
    <2>1. c \in Channels /\ msg[t] \in Messages
        BY <1>0, <1>4 DEF TypeOK
    <2>2. MessagesAccounted'
        BY <1>4, <2>1, AccountEnqueue DEF enqueue
    <2>3. \A u \in Threads \ {t} : pc'[u] = pc[u] \/ pc[u] = "recv_wait"
        BY <1>4 DEF enqueue, signal_receiver, Goto, Waiters, TypeOK
    <2>4. EmptyHanded'
        BY <1>4, <2>3, HandsNext DEF enqueue, pickVars, Elsewhere, TypeOK
    <2> QED
        BY <2>2, <2>4
<1>5. ASSUME NEW r, pc[t] \in {"send", "try_send"}, refuse(t, r)
      PROVE  Account'
    BY <1>2, <1>5 DEF refuse, Return, chanVars, pickVars, TypeOK
<1>6. CASE send_locked(t)
    BY <1>4, <1>5, <1>6 DEF send_locked
<1>7. CASE try_send_locked(t)
    BY <1>4, <1>5, <1>7 DEF try_send_locked
<1>8. CASE notify_listener(t)
    <2>1. pc'[t] = "walk" /\ msg[t] = NoMsg
        BY <1>8, FreeHands DEF notify_listener, TypeOK
    <2>2. Elsewhere(t)
        BY <1>8 DEF notify_listener, Elsewhere, TypeOK
    <2> QED
        BY <1>1, <1>8, <2>1, <2>2 DEF notify_listener, chanVars, refVars
<1>9. CASE notify_done(t)
    <2>1. msg[t] = NoMsg
        BY <1>9, FreeHands DEF notify_done
    <2> QED
        BY <1>1, <1>9, <2>1 DEF notify_done, Goto, refVars, pickVars, Elsewhere, TypeOK
<1>10. CASE receive_locked(t)
    <2>1. msg[t] = NoMsg /\ c \in Channels
        BY <1>0, <1>10, FreeHands DEF receive_locked, TypeOK
    <2>2. UNCHANGED <<anchored, fresh, after>>
          /\ \A u \in Threads \ {t} : pc'[u] = pc[u]
        BY <1>10 DEF receive_locked, refVars, pickVars, Goto, Return, TypeOK
    <2>3. CASE take(t, c) /\ Goto(t, "fetch")
        BY <1>3, <2>1, <2>2, <2>3 DEF refVars, take, Goto, Elsewhere, TypeOK
    <2>4. CASE UNCHANGED <<queue, msg>>
        BY <1>1, <2>1, <2>2, <2>4 DEF Elsewhere
    <2> QED
        BY <1>10, <2>3, <2>4 DEF receive_locked
<1>11. CASE fetch(t)
    BY <1>2, <1>11 DEF fetch, Goto, chanVars, pickVars, TypeOK
<1>12. CASE scan_case(t)
    <2>1. msg[t] = NoMsg /\ c \in Channels
        BY <1>0, <1>12, FreeHands DEF scan_case, TypeOK
    <2>2. UNCHANGED <<anchored, fresh>>
          /\ \A u \in Threads \ {t} : pc'[u] = pc[u] /\ after'[u] = after[u]
        BY <1>12 DEF scan_case, refVars, Unregister, TypeOK
    <2>3. CASE take(t, c) /\ Unregister(t, "take")
        BY <1>3, <2>1, <2>2, <2>3 DEF refVars, take, Unregister, Elsewhere, TypeOK
    <2>4. CASE UNCHANGED <<queue, msg>>
        BY <1>1, <2>1, <2>2, <2>4 DEF Elsewhere
    <2> QED
        BY <1>12, <2>3, <2>4 DEF scan_case
<1>13. CASE scan_end(t)
    <2>1. msg[t] = NoMsg
        BY <1>13, FreeHands DEF scan_end
    <2> QED
        BY <1>1, <1>13, <2>1 DEF scan_end, Goto, chanVars, refVars, pickVars, Elsewhere, TypeOK
<1>14. CASE pick_wait(t)
    <2>1. msg[t] = NoMsg
        BY <1>14, FreeHands DEF pick_wait
    <2>2. Elsewhere(t)
        BY <1>14 DEF pick_wait, Goto, Unregister, Elsewhere, TypeOK
    <2> QED
        BY <1>1, <1>14, <2>1, <2>2 DEF pick_wait, chanVars, refVars
<1>15. CASE pick_timeout(t)
    <2>1. msg[t] = NoMsg
        BY <1>15, FreeHands DEF pick_timeout
    <2> QED
        BY <1>1, <1>15, <2>1 DEF pick_timeout, Unregister, chanVars, refVars, Elsewhere, TypeOK
<1>16. CASE unregister_all(t)
    <2>1. UNCHANGED <<queue, msg, anchored, fresh, pc, after>>
        BY <1>16 DEF unregister_all, refVars, pickVars
    <2> QED
        BY <1>1, <1>16, <2>1 DEF unregister_all, EmptyHanded, Elsewhere
<1>17. CASE unregister_end(t)
    <2>1. pc[t] = "unregister" /\ UNCHANGED <<queue, msg, anchored, fresh>>
        BY <1>17 DEF unregister_end, chanVars, refVars
    <2>2. Elsewhere(t)
        BY <1>17 DEF unregister_end, Goto, Elsewhere, TypeOK
    <2>3. msg[t] # NoMsg => pc'[t] = "fetch"
        <3>1. msg[t] # NoMsg => after[t] = "take"
            BY <2>1 DEF EmptyHanded
        <3> QED
            BY <3>1, <1>17 DEF unregister_end, Goto, TypeOK
    <2> QED
        BY <1>1, <2>1, <2>2, <2>3
<1>18. CASE rescan_case(t)
    <2>1. msg[t] = NoMsg /\ c \in Channels
        BY <1>0, <1>18, FreeHands DEF rescan_case, TypeOK
    <2>2. UNCHANGED <<anchored, fresh, after>>
          /\ \A u \in Threads \ {t} : pc'[u] = pc[u]
        BY <1>18 DEF rescan_case, refVars, pickVars, Goto, Return, TypeOK
    <2>3. CASE take(t, c) /\ Goto(t, "fetch")
        BY <1>3, <2>1, <2>2, <2>3 DEF refVars, take, Goto, Elsewhere, TypeOK
    <2>4. CASE UNCHANGED <<queue, msg>>
        BY <1>1, <2>1, <2>2, <2>4 DEF Elsewhere
    <2> QED
        BY <1>18, <2>3, <2>4 DEF rescan_case
<1>19. CASE rescan_end(t)
    <2>1. msg[t] = NoMsg
        BY <1>19, FreeHands DEF rescan_end
    <2> QED
        BY <1>1, <1>19, <2>1 DEF rescan_end, Return, chanVars, refVars, pickVars, Elsewhere, TypeOK
<1> QED
    BY <1>6, <1>7, <1>8, <1>9, <1>10, <1>11, <1>12, <1>13, <1>14, <1>15, <1>16, <1>17,
       <1>18, <1>19 DEF Step

LEMMA AccountNext == TypeOK /\ Account /\ [Next]_vars => Account'
<1> SUFFICES ASSUME TypeOK, Account, [Next]_vars PROVE Account'
    OBVIOUS
<1>1. ASSUME NEW t \in Threads, spurious_wakeup(t) PROVE Account'
    <2>1. UNCHANGED <<queue, msg, anchored, fresh, after>>
        BY <1>1 DEF spurious_wakeup, chanVars, refVars, pickVars
    <2>2. \A u \in Threads : pc'[u] = pc[u] \/ pc[u] \in {"recv_wait", "sel_wait"}
        BY <1>1 DEF spurious_wakeup, Goto, TypeOK
    <2> QED
        BY <2>1, <2>2, AccountFrame DEF Account, EmptyHanded
<1>2. ASSUME NEW c \in Channels, channel_gc(c) PROVE Account'
    BY <1>2, AccountCollect DEF Account, EmptyHanded, channel_gc, pickVars
<1>3. CASE UNCHANGED vars
    BY <1>3, AccountFrame DEF Account, EmptyHanded, vars
<1> QED
    BY <1>1, <1>2, <1>3, AccountCall, AccountStep, NextCases

LEMMA AccountInit == Init => Account
<1> SUFFICES ASSUME Init PROVE Account
    OBVIOUS
<1>1. /\ \A c \in Channels : queue[c] = <<>> /\ DOMAIN queue[c] = {}
      /\ \A t \in Threads : msg[t] = NoMsg
      /\ anchored = {}
    BY DEF Init
<1>2. (UNION {Queued(c) : c \in Channels}) \cup ({msg[t] : t \in Threads} \ {NoMsg}) = {}
    <2>1. \A c \in Channels : Queued(c) = {}
        BY <1>1 DEF Queued
    <2> QED
        BY <1>1, <2>1
<1>3. MessagesAccounted
    BY <1>1, <1>2 DEF MessagesAccounted, Queued
<1> QED
    BY <1>1, <1>3 DEF Account, EmptyHanded

\* Whatever path a call takes (refused, taken, stolen, timed out, finalised), the luaL_ref
\* of its element (lthreadlib.c:525,587) is answered by one luaL_unref: not by two, not
\* while the element is queued, and not by none. It is about which calls are made, in any
\* order, and says nothing of the numbers they hand out.
THEOREM ChannelMessagesAccounted == Spec => []MessagesAccounted
<1>1. Account => MessagesAccounted
    BY DEF Account
<1> QED
    BY <1>1, AccountInit, AccountNext, TypeInit, TypeNext, PTL DEF Spec
----------------------------------------------------------------------------
(***************************************************************************)
(* Theorems about the selectors of pick in Channel: the stack frame of a   *)
(* selector outlives every pointer to it, and no pick sleeps through a     *)
(* message or a close, for every set of threads and channels and every     *)
(* list of cases, one that names a channel twice included.                 *)
(*                                                                         *)
(* The invariant says where every node came from. A picking thread has at  *)
(* most one node in a channel for each case it has registered and not yet  *)
(* unregistered (Linked), so none is left when unregister_all has walked   *)
(* all cases; who walks a list holds the lock of its channel, so what it   *)
(* has still to signal cannot be unlinked (Walks); and a registered case   *)
(* is empty and open, or somebody is about to signal it (Noticed).         *)
(***************************************************************************)

SelectorLives == \A t \in Threads : live[t] <=> pc[t] \in PickPCs

\* The cases of t that may have a node in channel c.
Nodes(t, c) ==
    {i \in DOMAIN cases[t] :
        /\ cases[t][i] = c
        /\ pc[t] \in PickPCs
        /\ pc[t] = "scan" => i < idx[t]
        /\ pc[t] = "unregister" => i >= idx[t]}

Linked ==
    \A c \in Channels, t \in Threads : listeners[c][t] <= Cardinality(Nodes(t, c))

Walks ==
    \A t \in Threads :
        /\ pc[t] = "walk" => lock[Chan(t)] = t
        /\ todo[t] # {} => pc[t] = "walk"
        /\ \A s \in todo[t] : listeners[Chan(t)][s] > 0

\* t has registered case i, and relies on being signalled.
Watches(t, i) ==
    /\ i \in DOMAIN cases[t]
    /\ pc[t] \in {"select", "sel_wait"} \/ (pc[t] = "scan" /\ i < idx[t])

Registered ==
    \A t \in Threads, i \in Nat : Watches(t, i) => listeners[cases[t][i]][t] > 0

\* Channel c has nothing to say, or its notifier has t still ahead.
Told(t, c) ==
    \/ queue[c] = <<>> /\ ~closed[c]
    \/ lock[c] \in Threads /\ t \in todo[lock[c]]

Noticed ==
    \A t \in Threads, i \in Nat :
        ~signaled[t] /\ Watches(t, i) => Told(t, cases[t][i])

Selectors == SelectorLives /\ Linked /\ Walks /\ Registered /\ Noticed

----------------------------------------------------------------------------
LEMMA NodesFinite ==
    ASSUME TypeOK, NEW t \in Threads, NEW c \in Channels
    PROVE  IsFiniteSet(Nodes(t, c)) /\ Cardinality(Nodes(t, c)) \in Nat
<1>1. Len(cases[t]) \in Nat /\ DOMAIN cases[t] = 1..Len(cases[t])
    BY DEF TypeOK
<1>2. IsFiniteSet(DOMAIN cases[t])
    BY <1>1, FS_Interval
<1> QED
    BY <1>2, FS_Subset, FS_CardinalityType DEF Nodes

LEMMA NodesFiniteNext ==
    ASSUME TypeOK', NEW t \in Threads, NEW c \in Channels
    PROVE  IsFiniteSet(Nodes(t, c)') /\ Cardinality(Nodes(t, c)') \in Nat
<1>1. Len(cases'[t]) \in Nat /\ DOMAIN cases'[t] = 1..Len(cases'[t])
    BY DEF TypeOK
<1>2. IsFiniteSet(DOMAIN cases'[t])
    BY <1>1, FS_Interval
<1> QED
    BY <1>2, FS_Subset, FS_CardinalityType DEF Nodes

\* No node of t is left when nothing of it can be.
LEMMA NoNodes ==
    ASSUME TypeOK, Linked, NEW t \in Threads, NEW c \in Channels, Nodes(t, c) = {}
    PROVE  listeners[c][t] = 0
<1>1. listeners[c][t] \in Nat /\ listeners[c][t] <= Cardinality(Nodes(t, c))
    BY DEF TypeOK, Linked
<1>2. Cardinality(Nodes(t, c)) = 0
    BY FS_EmptySet
<1> QED
    BY <1>1, <1>2

\* The channel of a step, and of a case.
LEMMA CaseChannel ==
    ASSUME TypeOK, NEW t \in Threads, NEW i \in DOMAIN cases[t]
    PROVE  cases[t][i] \in Channels
BY DEF TypeOK

LEMMA CaseNumbers ==
    ASSUME TypeOK, NEW t \in Threads
    PROVE  DOMAIN cases[t] \subseteq Nat
<1>1. cases[t] \in Seq(Channels)
    BY DEF TypeOK
<1>2. Len(cases[t]) \in Nat /\ DOMAIN cases[t] = 1..Len(cases[t])
    BY <1>1
<1> QED
    BY <1>2

----------------------------------------------------------------------------
\* A thread that stays where it is, or is woken.
Stays(u) ==
    /\ cases'[u] = cases[u] /\ idx'[u] = idx[u] /\ live'[u] = live[u]
    /\ \/ pc'[u] = pc[u]
       \/ pc[u] = "recv_wait" /\ pc'[u] = "recv_woken"
       \/ pc[u] = "sel_wait" /\ pc'[u] = "select"

LEMMA StaysSame ==
    ASSUME NEW u \in Threads, Stays(u)
    PROVE  /\ \A c \in Channels : Nodes(u, c)' = Nodes(u, c)
           /\ \A i \in Nat : Watches(u, i)' <=> Watches(u, i)
           /\ Chan(u)' = Chan(u)
           /\ pc'[u] = "walk" <=> pc[u] = "walk"
           /\ pc'[u] \in PickPCs <=> pc[u] \in PickPCs
<1>1. \A c \in Channels : Nodes(u, c)' = Nodes(u, c)
    BY DEF Stays, Nodes, PickPCs
<1> QED
    BY <1>1 DEF Stays, Watches, Chan, PickPCs

\* A step that touches neither the lists nor their locks: at most it empties a
\* queue further. Such a step of t may only drop what t relies on.
Calm(t) ==
    /\ UNCHANGED <<lock, listeners, closed, todo>>
    /\ \A c \in Channels : queue[c] = <<>> => queue'[c] = <<>>
    /\ \A u \in Threads \ {t} : Stays(u) /\ signaled'[u] = signaled[u]
    /\ pc[t] # "walk" /\ pc'[t] # "walk"
    /\ live'[t] <=> pc'[t] \in PickPCs
    /\ \A i \in Nat : Watches(t, i)' =>
            Watches(t, i) /\ cases'[t] = cases[t] /\ signaled'[t] = signaled[t]

LEMMA CalmNext ==
    ASSUME TypeOK, TypeOK', Selectors, NEW t \in Threads, Calm(t),
           \A c \in Channels : listeners[c][t] <= Cardinality(Nodes(t, c)')
    PROVE  Selectors'
<1>1. \A u \in Threads \ {t} :
        /\ \A c \in Channels : Nodes(u, c)' = Nodes(u, c)
        /\ \A i \in Nat : Watches(u, i)' <=> Watches(u, i)
        /\ Chan(u)' = Chan(u) /\ live'[u] = live[u]
        /\ cases'[u] = cases[u] /\ signaled'[u] = signaled[u]
        /\ pc'[u] = "walk" <=> pc[u] = "walk"
        /\ pc'[u] \in PickPCs <=> pc[u] \in PickPCs
    BY StaysSame DEF Calm, Stays
<1>2. SelectorLives'
    BY <1>1 DEF Calm, Selectors, SelectorLives
<1>3. Linked'
    BY <1>1 DEF Calm, Selectors, Linked
<1>4. Walks'
    BY <1>1 DEF Calm, Selectors, Walks
<1>5. \A u \in Threads, i \in Nat : Watches(u, i)' =>
            Watches(u, i) /\ cases'[u] = cases[u] /\ signaled'[u] = signaled[u]
    BY <1>1 DEF Calm
<1>6. Registered'
    BY <1>5 DEF Calm, Selectors, Registered
<1>7. Noticed'
    <2> SUFFICES ASSUME NEW u \in Threads, NEW i \in Nat, ~signaled'[u], Watches(u, i)'
                 PROVE  Told(u, cases[u][i])'
        BY Zenon DEF Noticed
    <2>1. Watches(u, i) /\ cases'[u] = cases[u] /\ ~signaled[u]
        BY <1>5
    <2>2. cases[u][i] \in Channels
        BY <2>1, CaseChannel DEF Watches
    <2>3. Told(u, cases[u][i])
        BY <2>1 DEF Selectors, Noticed
    <2>4. PICK c \in Channels : c = cases[u][i] /\ c = cases'[u][i]
        BY <2>1, <2>2
    <2>5. Told(u, c)'
        BY <2>3, <2>4 DEF Told, Calm
    <2> QED
        BY <2>4, <2>5
<1> QED
    BY <1>2, <1>3, <1>4, <1>6, <1>7 DEF Selectors

\* As long as t keeps its nodes, it keeps its account of them.
LEMMA MoreNodes ==
    ASSUME TypeOK, TypeOK', Linked, NEW t \in Threads, NEW c \in Channels,
           Nodes(t, c) \subseteq Nodes(t, c)'
    PROVE  listeners[c][t] <= Cardinality(Nodes(t, c)')
<1>1. Cardinality(Nodes(t, c)) <= Cardinality(Nodes(t, c)')
    BY NodesFiniteNext, FS_Subset
<1>2. listeners[c][t] \in Nat /\ listeners[c][t] <= Cardinality(Nodes(t, c))
    BY DEF TypeOK, Linked
<1> QED
    BY <1>1, <1>2, NodesFinite, NodesFiniteNext

\* send, try_send and close: t locks the channel and starts down its list.
NotifierStarts(t, c) ==
    /\ lock[c] = NoThread
    /\ lock' = [lock EXCEPT ![c] = t]
    /\ todo' = [todo EXCEPT ![t] = Watching(c)]
    /\ pc[t] \notin PickPCs \cup {"walk"} /\ pc'[t] = "walk" /\ Chan(t)' = c
    /\ \A u \in Threads \ {t} : Stays(u)
    /\ UNCHANGED <<listeners, signaled, live>>
    /\ \A d \in Channels \ {c} : queue'[d] = queue[d] /\ closed'[d] = closed[d]

LEMMA StartNext ==
    ASSUME TypeOK, TypeOK', Selectors, NEW t \in Threads, NEW c \in Channels,
           NotifierStarts(t, c)
    PROVE  Selectors'
<1> USE DEF NotifierStarts
<1>1. \A u \in Threads \ {t} :
        /\ \A d \in Channels : Nodes(u, d)' = Nodes(u, d)
        /\ \A i \in Nat : Watches(u, i)' <=> Watches(u, i)
        /\ Chan(u)' = Chan(u) /\ live'[u] = live[u]
        /\ cases'[u] = cases[u]
        /\ pc'[u] = "walk" <=> pc[u] = "walk"
        /\ pc'[u] \in PickPCs <=> pc[u] \in PickPCs
    BY StaysSame DEF Stays
<1>2. t # NoThread /\ lock'[c] = t /\ todo'[t] = Watching(c)
      /\ (\A d \in Channels \ {c} : lock'[d] = lock[d])
      /\ (\A u \in Threads \ {t} : todo'[u] = todo[u])
    BY ChannelAssumption DEF TypeOK
<1>3. \A i \in Nat : ~Watches(t, i)'
    BY DEF Watches
<1>4. SelectorLives'
    BY <1>1 DEF Selectors, SelectorLives, PickPCs
<1>5. Linked'
    <2> SUFFICES ASSUME NEW d \in Channels, NEW u \in Threads
                 PROVE  listeners[d][u] <= Cardinality(Nodes(u, d)')
        BY DEF Linked
    <2>1. CASE u = t
        <3>1. Nodes(t, d) = {}
            BY DEF Nodes
        <3>2. listeners[d][t] = 0
            BY <3>1, NoNodes DEF Selectors
        <3> QED
            BY <2>1, <3>2, NodesFiniteNext
    <2>2. CASE u # t
        BY <2>2, <1>1 DEF Selectors, Linked
    <2> QED
        BY <2>1, <2>2
<1>6. \A u \in Threads \ {t} : pc[u] = "walk" => Chan(u) \in Channels \ {c}
    <2> SUFFICES ASSUME NEW u \in Threads \ {t}, pc[u] = "walk"
                 PROVE  Chan(u) \in Channels \ {c}
        OBVIOUS
    <2>1. Chan(u) \in Channels
        BY CaseChannel DEF TypeOK, Chan
    <2>2. lock[Chan(u)] = u /\ u # NoThread
        BY ChannelAssumption DEF Selectors, Walks
    <2> QED
        BY <2>1, <2>2
<1>7. Walks'
    <2>1. \A s \in todo'[t] : listeners[c][s] > 0
        BY <1>2 DEF Watching
    <2>2. ASSUME NEW u \in Threads \ {t}
          PROVE  /\ pc'[u] = "walk" => lock'[Chan(u)] = u
                 /\ todo'[u] # {} => pc'[u] = "walk"
                 /\ \A s \in todo'[u] : listeners[Chan(u)][s] > 0
        BY <1>1, <1>2, <1>6 DEF Selectors, Walks
    <2> QED
        BY <1>1, <1>2, <2>1, <2>2 DEF Walks
<1>8. Registered'
    BY <1>1, <1>3 DEF Selectors, Registered
<1>9. Noticed'
    <2> SUFFICES ASSUME NEW u \in Threads, NEW i \in Nat, ~signaled'[u], Watches(u, i)'
                 PROVE  Told(u, cases[u][i])'
        BY Zenon DEF Noticed
    <2>1. u # t /\ Watches(u, i) /\ cases'[u] = cases[u] /\ ~signaled[u]
        BY <1>1, <1>3
    <2>2. PICK d \in Channels : d = cases[u][i] /\ d = cases'[u][i]
        BY <2>1, CaseChannel DEF Watches
    <2> SUFFICES Told(u, d)'
        BY <2>2
    <2>3. Told(u, d) /\ listeners[d][u] > 0
        BY <2>1, <2>2 DEF Selectors, Noticed, Registered
    <2>4. CASE d = c
        BY <2>3, <2>4, <1>2 DEF Told, Watching
    <2>5. CASE d # c
        <3>1. lock[d] \in Threads /\ u \in todo[lock[d]] => lock[d] # t
            BY DEF Selectors, Walks
        <3> QED
            BY <2>3, <2>5, <3>1, <1>2 DEF Told
    <2> QED
        BY <2>4, <2>5
<1> QED
    BY <1>4, <1>5, <1>7, <1>8, <1>9 DEF Selectors

\* One selector is signalled.
LEMMA NotifyNext ==
    ASSUME TypeOK, TypeOK', Selectors, NEW t \in Threads, notify_listener(t)
    PROVE  Selectors'
<1> USE DEF notify_listener
<1>0. PICK s \in todo[t] :
        /\ todo' = [todo EXCEPT ![t] = @ \ {s}]
        /\ signaled' = [signaled EXCEPT ![s] = TRUE]
        /\ pc' = IF pc[s] = "sel_wait" THEN [pc EXCEPT ![s] = "select"] ELSE pc
    OBVIOUS
<1>1. UNCHANGED <<lock, queue, closed, listeners, cases, idx, live>>
    BY DEF chanVars
<1>2. \A u \in Threads : Stays(u)
    BY <1>0, <1>1 DEF Stays, TypeOK
<1>3. \A u \in Threads :
        /\ \A c \in Channels : Nodes(u, c)' = Nodes(u, c)
        /\ \A i \in Nat : Watches(u, i)' <=> Watches(u, i)
        /\ Chan(u)' = Chan(u)
        /\ pc'[u] = "walk" <=> pc[u] = "walk"
        /\ pc'[u] \in PickPCs <=> pc[u] \in PickPCs
    BY <1>2, StaysSame
<1>4. /\ todo'[t] = todo[t] \ {s} /\ \A u \in Threads \ {t} : todo'[u] = todo[u]
      /\ signaled'[s] /\ \A u \in Threads \ {s} : signaled'[u] = signaled[u]
    <2>1. s \in Threads /\ todo \in [Threads -> SUBSET Threads]
          /\ signaled \in [Threads -> BOOLEAN]
        BY DEF TypeOK
    <2>2. todo'[t] = todo[t] \ {s} /\ \A u \in Threads \ {t} : todo'[u] = todo[u]
        BY <1>0, <2>1
    <2>3. signaled'[s] /\ \A u \in Threads \ {s} : signaled'[u] = signaled[u]
        BY <1>0, <2>1
    <2> QED
        BY <2>2, <2>3
<1>5. SelectorLives' /\ Linked' /\ Registered'
    BY <1>1, <1>3 DEF Selectors, SelectorLives, Linked, Registered
<1>6. Walks'
    BY <1>1, <1>3, <1>4 DEF Selectors, Walks
<1>7. Noticed'
    <2> SUFFICES ASSUME NEW u \in Threads, NEW i \in Nat, ~signaled'[u], Watches(u, i)'
                 PROVE  Told(u, cases[u][i])'
        BY Zenon DEF Noticed
    <2>1. u # s /\ Watches(u, i) /\ ~signaled[u]
        BY <1>3, <1>4
    <2>2. Told(u, cases[u][i])
        BY <2>1 DEF Selectors, Noticed
    <2> QED
        BY <2>1, <2>2, <1>1, <1>4 DEF Told
<1> QED
    BY <1>5, <1>6, <1>7 DEF Selectors

\* The walk is over: nobody relies on it any more.
LEMMA DoneNext ==
    ASSUME TypeOK, TypeOK', Selectors, NEW t \in Threads, notify_done(t)
    PROVE  Selectors'
<1> USE DEF notify_done
<1>0. PICK c \in Channels : c = Chan(t) /\ lock[c] = t
    BY CaseChannel DEF Selectors, Walks, TypeOK, Chan
<1>1. /\ UNCHANGED <<queue, closed, listeners, cases, idx, live, signaled, todo>>
      /\ pc[t] = "walk" /\ pc'[t] = "idle" /\ \A u \in Threads \ {t} : pc'[u] = pc[u]
      /\ \A d \in Channels \ {c} : lock'[d] = lock[d]
    BY <1>0 DEF Goto, pickVars, TypeOK
<1>2. \A u \in Threads : \A d \in Channels : Nodes(u, d)' = Nodes(u, d)
    BY <1>1 DEF Nodes, PickPCs
<1>3. \A u \in Threads : \A i \in Nat : Watches(u, i)' <=> Watches(u, i)
    BY <1>1 DEF Watches
<1>4. SelectorLives'
    BY <1>1 DEF Selectors, SelectorLives, PickPCs
<1>5. Linked' /\ Registered'
    BY <1>1, <1>2, <1>3 DEF Selectors, Linked, Registered
<1>6. Walks'
    <2>1. ASSUME NEW u \in Threads \ {t}, pc[u] = "walk"
          PROVE  lock'[Chan(u)] = u
        <3>1. Chan(u) \in Channels /\ lock[Chan(u)] = u
            BY <2>1, CaseChannel DEF Selectors, Walks, TypeOK, Chan
        <3> QED
            BY <3>1, <1>0, <1>1
    <2>2. \A u \in Threads : Chan(u)' = Chan(u)
        BY <1>1 DEF Chan
    <2>3. \A u \in Threads : pc'[u] = "walk" => lock'[Chan(u)'] = u
        BY <2>1, <2>2, <1>1
    <2>4. \A u \in Threads : todo'[u] # {} => pc'[u] = "walk"
        BY <1>1 DEF Selectors, Walks
    <2>5. \A u \in Threads : \A s \in todo'[u] : listeners'[Chan(u)'][s] > 0
        BY <2>2, <1>1 DEF Selectors, Walks
    <2> QED
        BY <2>3, <2>4, <2>5 DEF Walks
<1>7. Noticed'
    <2> SUFFICES ASSUME NEW u \in Threads, NEW i \in Nat, ~signaled'[u], Watches(u, i)'
                 PROVE  Told(u, cases[u][i])'
        BY Zenon DEF Noticed
    <2>1. Watches(u, i) /\ ~signaled[u]
        BY <1>1, <1>3
    <2>2. PICK d \in Channels : d = cases[u][i] /\ d = cases'[u][i]
        BY <2>1, <1>1, CaseChannel DEF Watches
    <2>3. Told(u, d)
        BY <2>1, <2>2 DEF Selectors, Noticed
    <2>4. lock[d] \in Threads /\ u \in todo[lock[d]] => d # c
        BY <1>0
    <2>5. Told(u, d)'
        BY <2>3, <2>4, <1>1 DEF Told
    <2> QED
        BY <2>2, <2>5
<1> QED
    BY <1>4, <1>5, <1>6, <1>7 DEF Selectors

----------------------------------------------------------------------------
\* The three steps that change a list.

\* t registers its case: the channel has nothing to say, and its lock is free.
RegistersCase(t, c) ==
    /\ pc[t] = "scan" /\ idx[t] \in DOMAIN cases[t] /\ c = Chan(t)
    /\ queue[c] = <<>> /\ ~closed[c]
    /\ listeners' = [listeners EXCEPT ![c][t] = @ + 1]
    /\ idx' = [idx EXCEPT ![t] = @ + 1]
    /\ UNCHANGED <<lock, queue, closed, pc, cases, live, signaled, todo>>

LEMMA RegisterNext ==
    ASSUME TypeOK, TypeOK', Selectors, NEW t \in Threads, NEW c \in Channels,
           RegistersCase(t, c)
    PROVE  Selectors'
<1> USE DEF RegistersCase
<1>1. \A u \in Threads \ {t} : Stays(u)
    BY DEF Stays, TypeOK
<1>2. \A u \in Threads \ {t} :
        /\ \A d \in Channels : Nodes(u, d)' = Nodes(u, d)
        /\ \A i \in Nat : Watches(u, i)' <=> Watches(u, i)
        /\ Chan(u)' = Chan(u)
    BY <1>1, StaysSame
<1>3. /\ idx'[t] = idx[t] + 1 /\ idx[t] \in Nat
      /\ \A d \in Channels, u \in Threads :
            /\ listeners[d][u] \in Nat
            /\ listeners'[d][u] = IF d = c /\ u = t THEN listeners[d][u] + 1
                                                    ELSE listeners[d][u]
    <2>1. listeners \in [Channels -> [Threads -> Nat]] /\ idx \in [Threads -> Nat \ {0}]
        BY DEF TypeOK
    <2>2. idx'[t] = idx[t] + 1 /\ idx[t] \in Nat
        BY <2>1
    <2>3. listeners'[c][t] = listeners[c][t] + 1
        BY <2>1
    <2>4. \A d \in Channels, u \in Threads : d # c \/ u # t => listeners'[d][u] = listeners[d][u]
        BY <2>1
    <2> QED
        BY <2>1, <2>2, <2>3, <2>4
<1>4. /\ Nodes(t, c)' = Nodes(t, c) \cup {idx[t]} /\ idx[t] \notin Nodes(t, c)
      /\ \A d \in Channels \ {c} : Nodes(t, d)' = Nodes(t, d)
    <2>1. DOMAIN cases[t] \subseteq Nat
        BY CaseNumbers
    <2>2. \A i \in DOMAIN cases[t] : i < idx'[t] <=> i < idx[t] \/ i = idx[t]
        BY <1>3, <2>1
    <2>3. ~(idx[t] < idx[t])
        BY <1>3
    <2> QED
        BY <2>2, <2>3 DEF Nodes, PickPCs, Chan
<1>5. \A i \in Nat : Watches(t, i)' => Watches(t, i) \/ i = idx[t]
    BY <1>3 DEF Watches
<1>6. SelectorLives'
    BY DEF Selectors, SelectorLives
<1>7. Linked'
    <2> SUFFICES ASSUME NEW d \in Channels, NEW u \in Threads
                 PROVE  listeners'[d][u] <= Cardinality(Nodes(u, d)')
        BY DEF Linked
    <2>1. CASE u = t /\ d = c
        <3>1. Cardinality(Nodes(t, c)') = Cardinality(Nodes(t, c)) + 1
            BY <1>4, NodesFinite, FS_AddElement
        <3>2. listeners[c][t] <= Cardinality(Nodes(t, c))
            BY DEF Selectors, Linked
        <3> QED
            BY <2>1, <3>1, <3>2, <1>3, NodesFinite
    <2>2. CASE u # t \/ d # c
        BY <2>2, <1>2, <1>3, <1>4 DEF Selectors, Linked
    <2> QED
        BY <2>1, <2>2
<1>8. Walks'
    <2>1. Chan(t) = c /\ todo[t] = {}
        BY DEF Selectors, Walks
    <2>2. ASSUME NEW u \in Threads \ {t}, NEW s \in todo[u]
          PROVE  listeners'[Chan(u)][s] > 0
        <3>1. Chan(u) \in Channels /\ listeners[Chan(u)][s] > 0 /\ s \in Threads
            BY <2>2, CaseChannel DEF Selectors, Walks, TypeOK, Chan
        <3> QED
            BY <3>1, <1>3
    <2> QED
        BY <2>1, <2>2, <1>2 DEF Selectors, Walks
<1>9. Registered'
    <2> SUFFICES ASSUME NEW u \in Threads, NEW i \in Nat, Watches(u, i)'
                 PROVE  listeners'[cases[u][i]][u] > 0
        BY DEF Registered
    <2>1. cases[u][i] \in Channels
        BY CaseChannel DEF Watches
    <2>2. CASE Watches(u, i)
        BY <2>1, <2>2, <1>3 DEF Selectors, Registered
    <2>3. CASE u = t /\ i = idx[t]
        BY <2>1, <2>3, <1>3 DEF Chan
    <2> QED
        BY <2>2, <2>3, <1>2, <1>5
<1>10. Noticed'
    <2> SUFFICES ASSUME NEW u \in Threads, NEW i \in Nat, ~signaled'[u], Watches(u, i)'
                 PROVE  Told(u, cases[u][i])'
        BY Zenon DEF Noticed
    <2>1. CASE Watches(u, i)
        BY <2>1 DEF Selectors, Noticed, Told
    <2>2. CASE u = t /\ i = idx[t]
        BY <2>2 DEF Told, Chan
    <2> QED
        BY <2>1, <2>2, <1>2, <1>5
<1> QED
    BY <1>6, <1>7, <1>8, <1>9, <1>10 DEF Selectors

\* t unregisters a case: with the lock free, nobody walks the list.
LEMMA UnregisterNext ==
    ASSUME TypeOK, TypeOK', Selectors, NEW t \in Threads, unregister_all(t)
    PROVE  Selectors'
<1> USE DEF unregister_all
<1>0. PICK c \in Channels : c = Chan(t) /\ lock[c] = NoThread
                           /\ idx[t] \in DOMAIN cases[t] /\ idx[t] \in Nat
    <2>1. idx[t] \in Nat \ {0} /\ Len(cases[t]) \in Nat /\ DOMAIN cases[t] = 1..Len(cases[t])
        BY DEF TypeOK
    <2>2. idx[t] \in DOMAIN cases[t]
        BY <2>1
    <2> QED
        BY <2>1, <2>2, CaseChannel DEF unlink, Chan
<1>1. UNCHANGED <<lock, queue, closed, pc, cases, live, signaled, todo>>
    BY DEF pickVars
<1>2. \A u \in Threads \ {t} : Stays(u)
    BY <1>1 DEF Stays, TypeOK
<1>3. \A u \in Threads \ {t} :
        /\ \A d \in Channels : Nodes(u, d)' = Nodes(u, d)
        /\ \A i \in Nat : Watches(u, i)' <=> Watches(u, i)
        /\ Chan(u)' = Chan(u)
    BY <1>2, StaysSame
<1>4. \A d \in Channels, u \in Threads :
        /\ listeners[d][u] \in Nat
        /\ d # c \/ u # t => listeners'[d][u] = listeners[d][u]
    <2>1. listeners \in [Channels -> [Threads -> Nat]]
        BY DEF TypeOK
    <2>2. CASE UNCHANGED listeners
        BY <2>1, <2>2
    <2>3. CASE listeners' = [listeners EXCEPT ![c][t] = @ - 1]
        BY <2>1, <2>3
    <2> QED
        BY <1>0, <2>2, <2>3 DEF unlink
<1>5. listeners'[c][t] = 0 \/ listeners'[c][t] = listeners[c][t] - 1
    <2>1. listeners \in [Channels -> [Threads -> Nat]] /\ listeners[c][t] \in Nat
        BY DEF TypeOK
    <2>2. CASE listeners[c][t] = 0
        BY <1>0, <2>2 DEF unlink
    <2>3. CASE listeners' = [listeners EXCEPT ![c][t] = @ - 1]
        BY <2>1, <2>3
    <2> QED
        BY <1>0, <2>2, <2>3 DEF unlink
<1>6. idx'[t] = idx[t] + 1
    BY DEF TypeOK
<1>7. /\ Nodes(t, c)' = Nodes(t, c) \ {idx[t]} /\ idx[t] \in Nodes(t, c)
      /\ \A d \in Channels \ {c} : Nodes(t, d)' = Nodes(t, d)
    <2>0. DOMAIN cases[t] \subseteq Nat
        BY CaseNumbers
    <2>1. \A i \in DOMAIN cases[t] : i >= idx'[t] <=> i >= idx[t] /\ i # idx[t]
        BY <1>0, <1>6, <2>0
    <2>2. idx[t] >= idx[t] /\ cases[t][idx[t]] = c
        BY <1>0 DEF Chan
    <2> QED
        BY <1>0, <1>1, <2>1, <2>2 DEF Nodes, PickPCs
<1>8. \A i \in Nat : ~Watches(t, i)'
    BY <1>1 DEF Watches
<1>9. SelectorLives'
    BY <1>1 DEF Selectors, SelectorLives
<1>10. Linked'
    <2> SUFFICES ASSUME NEW d \in Channels, NEW u \in Threads
                 PROVE  listeners'[d][u] <= Cardinality(Nodes(u, d)')
        BY DEF Linked
    <2>1. CASE u = t /\ d = c
        <3>1. Cardinality(Nodes(t, c)') = Cardinality(Nodes(t, c)) - 1
            <4>1. Cardinality(Nodes(t, c) \ {idx[t]}) = Cardinality(Nodes(t, c)) - 1
                BY <1>7, NodesFinite, FS_RemoveElement
            <4> QED
                BY <4>1, <1>7
        <3>2. listeners[c][t] <= Cardinality(Nodes(t, c))
            BY DEF Selectors, Linked
        <3>3. listeners[c][t] \in Nat /\ Cardinality(Nodes(t, c)) \in Nat
              /\ Cardinality(Nodes(t, c)') \in Nat
            BY <1>4, NodesFinite, NodesFiniteNext
        <3> QED
            BY <2>1, <3>1, <3>2, <3>3, <1>5
    <2>2. CASE u # t \/ d # c
        BY <2>2, <1>3, <1>4, <1>7 DEF Selectors, Linked
    <2> QED
        BY <2>1, <2>2
<1>11. Walks'
    <2>1. todo[t] = {}
        BY DEF Selectors, Walks
    <2>2. ASSUME NEW u \in Threads \ {t}, NEW s \in todo[u]
          PROVE  listeners'[Chan(u)][s] > 0
        <3>1. pc[u] = "walk" /\ lock[Chan(u)] = u /\ listeners[Chan(u)][s] > 0
            BY <2>2 DEF Selectors, Walks
        <3>2. Chan(u) \in Channels /\ s \in Threads
            BY <2>2, <3>1, CaseChannel DEF TypeOK, Chan
        <3>3. Chan(u) # c
            BY <3>1, <1>0, ChannelAssumption
        <3> QED
            BY <3>1, <3>2, <3>3, <1>4
    <2> QED
        BY <2>1, <2>2, <1>1, <1>3 DEF Selectors, Walks
<1>12. Registered'
    <2> SUFFICES ASSUME NEW u \in Threads, NEW i \in Nat, Watches(u, i)'
                 PROVE  listeners'[cases[u][i]][u] > 0
        BY <1>1 DEF Registered
    <2>1. u # t /\ Watches(u, i) /\ cases[u][i] \in Channels
        BY <1>3, <1>8, CaseChannel DEF Watches
    <2> QED
        BY <2>1, <1>4 DEF Selectors, Registered
<1>13. Noticed'
    BY <1>1, <1>3, <1>8 DEF Selectors, Noticed, Told
<1> QED
    BY <1>9, <1>10, <1>11, <1>12, <1>13 DEF Selectors

\* A channel is finalised: no call is about it.
LEMMA CollectNext ==
    ASSUME TypeOK, TypeOK', Selectors, NEW c \in Channels, channel_gc(c)
    PROVE  Selectors'
<1> USE DEF channel_gc
<1>1. /\ UNCHANGED <<lock, closed, pc, cases, idx, live, signaled, todo>>
      /\ \A u \in Threads : listeners'[c][u] = 0
      /\ \A d \in Channels \ {c} : listeners'[d] = listeners[d] /\ queue'[d] = queue[d]
    BY DEF pickVars, TypeOK
<1>2. \A u \in Threads : Stays(u)
    BY <1>1 DEF Stays
<1>3. \A u \in Threads :
        /\ \A d \in Channels : Nodes(u, d)' = Nodes(u, d)
        /\ \A i \in Nat : Watches(u, i)' <=> Watches(u, i)
        /\ Chan(u)' = Chan(u)
    BY <1>2, StaysSame
<1>4. \A u \in Threads, i \in Nat : Watches(u, i) => cases[u][i] \in Channels \ {c}
    <2>1. \A u \in Threads, i \in Nat : Watches(u, i) => cases[u][i] # c
        BY DEF Watches, Uses
    <2>2. \A u \in Threads, i \in Nat : Watches(u, i) => cases[u][i] \in Channels
        BY CaseChannel DEF Watches
    <2> QED
        BY <2>1, <2>2
<1>5. \A u \in Threads : pc[u] = "walk" => Chan(u) \in Channels \ {c}
    <2> SUFFICES ASSUME NEW u \in Threads, pc[u] = "walk" PROVE Chan(u) \in Channels \ {c}
        OBVIOUS
    <2>1. idx[u] \in DOMAIN cases[u]
        BY DEF TypeOK
    <2> QED
        BY <2>1, CaseChannel DEF Uses, Chan
<1>6. SelectorLives'
    BY <1>1 DEF Selectors, SelectorLives
<1>7. Linked'
    <2> SUFFICES ASSUME NEW d \in Channels, NEW u \in Threads
                 PROVE  listeners'[d][u] <= Cardinality(Nodes(u, d)')
        BY DEF Linked
    <2>1. CASE d = c
        BY <2>1, <1>1, NodesFiniteNext
    <2>2. CASE d # c
        BY <2>2, <1>1, <1>3 DEF Selectors, Linked
    <2> QED
        BY <2>1, <2>2
<1>8. Walks'
    BY <1>1, <1>3, <1>5 DEF Selectors, Walks
<1>9. Registered'
    BY <1>1, <1>3, <1>4 DEF Selectors, Registered
<1>10. Noticed'
    BY <1>1, <1>3, <1>4 DEF Selectors, Noticed, Told
<1> QED
    BY <1>6, <1>7, <1>8, <1>9, <1>10 DEF Selectors

----------------------------------------------------------------------------
\* The steps that change no list.

NeverFills == \A c \in Channels : queue[c] = <<>> => queue'[c] = <<>>

LEMMA TakeNeverFills ==
    ASSUME TypeOK, NEW t \in Threads, NEW c \in Channels, take(t, c)
    PROVE  NeverFills
BY DEF take, TypeOK, NeverFills

\* A step of a thread that is not in pick, before it or after it.
Outside(t) ==
    /\ UNCHANGED <<lock, listeners, closed, todo, live, signaled>>
    /\ NeverFills
    /\ pc[t] \notin PickPCs \cup {"walk"} /\ pc'[t] \notin PickPCs \cup {"walk"}
    /\ \A u \in Threads \ {t} : pc'[u] = pc[u] /\ cases'[u] = cases[u] /\ idx'[u] = idx[u]

LEMMA OutsideNext ==
    ASSUME TypeOK, TypeOK', Selectors, NEW t \in Threads, Outside(t)
    PROVE  Selectors'
<1>1. Calm(t)
    <2>1. \A i \in Nat : ~Watches(t, i)'
        BY DEF Outside, Watches, PickPCs
    <2>2. live'[t] <=> pc'[t] \in PickPCs
        BY DEF Outside, Selectors, SelectorLives
    <2>3. \A u \in Threads \ {t} : Stays(u) /\ signaled'[u] = signaled[u]
        BY DEF Outside, Stays
    <2> QED
        BY <2>1, <2>2, <2>3 DEF Outside, Calm, NeverFills
<1>2. ASSUME NEW c \in Channels PROVE listeners[c][t] <= Cardinality(Nodes(t, c)')
    <2>1. Nodes(t, c) = {}
        BY DEF Outside, Nodes
    <2> QED
        BY <2>1, NoNodes, NodesFiniteNext DEF Selectors
<1> QED
    BY <1>1, <1>2, CalmNext

\* A step of pick that keeps its nodes and registers nothing.
Inside(t) ==
    /\ UNCHANGED <<lock, listeners, closed, todo, live, signaled, cases>>
    /\ NeverFills
    /\ pc[t] \in PickPCs /\ pc'[t] \in PickPCs
    /\ \A u \in Threads \ {t} : pc'[u] = pc[u] /\ idx'[u] = idx[u]
    /\ \A i \in DOMAIN cases[t] :
        /\ pc'[t] = "scan" => i < idx'[t]
        /\ pc'[t] = "unregister" => i >= idx'[t]
    /\ \A i \in DOMAIN cases[t] :
        pc'[t] \in {"scan", "select", "sel_wait"} =>
            pc[t] \in {"select", "sel_wait"} \/ (pc[t] = "scan" /\ i < idx[t])

LEMMA InsideNext ==
    ASSUME TypeOK, TypeOK', Selectors, NEW t \in Threads, Inside(t)
    PROVE  Selectors'
<1>1. Calm(t)
    <2>1. \A i \in Nat : Watches(t, i)' => Watches(t, i)
        BY DEF Inside, Watches
    <2>2. live'[t] <=> pc'[t] \in PickPCs
        BY DEF Inside, Selectors, SelectorLives
    <2>3. \A u \in Threads \ {t} : Stays(u) /\ signaled'[u] = signaled[u]
        BY DEF Inside, Stays
    <2>4. pc[t] # "walk" /\ pc'[t] # "walk"
        BY DEF Inside, PickPCs
    <2> QED
        BY <2>1, <2>2, <2>3, <2>4 DEF Inside, Calm, NeverFills
<1>2. ASSUME NEW c \in Channels PROVE listeners[c][t] <= Cardinality(Nodes(t, c)')
    <2>1. Nodes(t, c) \subseteq Nodes(t, c)'
        BY DEF Inside, Nodes
    <2> QED
        BY <2>1, MoreNodes DEF Selectors
<1> QED
    BY <1>1, <1>2, CalmNext

\* Every case comes at or after the first.
LEMMA InsideUnregister ==
    ASSUME TypeOK, NEW t \in Threads, pc[t] \in PickPCs, NEW then, Unregister(t, then),
           UNCHANGED <<lock, listeners, closed, todo, live, signaled, cases>>, NeverFills
    PROVE  Inside(t)
<1>1. pc'[t] = "unregister" /\ idx'[t] = 1
      /\ \A u \in Threads \ {t} : pc'[u] = pc[u] /\ idx'[u] = idx[u]
    BY DEF Unregister, TypeOK
<1>2. \A i \in DOMAIN cases[t] : i >= 1
    <2>1. cases[t] \in Seq(Channels)
        BY DEF TypeOK
    <2>2. Len(cases[t]) \in Nat /\ DOMAIN cases[t] = 1..Len(cases[t])
        BY <2>1
    <2> QED
        BY <2>2
<1> QED
    BY <1>1, <1>2 DEF Inside, PickPCs

LEMMA SameNeverFills == UNCHANGED queue => NeverFills
BY DEF NeverFills

LEMMA PickBegins ==
    ASSUME TypeOK, TypeOK', Selectors, NEW t \in Threads, NEW cs \in CaseLists,
           NEW over \in BOOLEAN, thread_pick(t, cs, over)
    PROVE  Selectors'
<1>1. /\ UNCHANGED <<lock, listeners, closed, todo, queue>>
      /\ pc[t] = "idle" /\ pc'[t] = "scan" /\ idx'[t] = 1 /\ live'[t]
      /\ \A u \in Threads \ {t} :
            /\ pc'[u] = pc[u] /\ cases'[u] = cases[u] /\ idx'[u] = idx[u]
            /\ live'[u] = live[u] /\ signaled'[u] = signaled[u]
    BY DEF thread_pick, Begin, CanBegin, chanVars, TypeOK
<1>2. \A i \in Nat : ~Watches(t, i)'
    <2>1. DOMAIN cases'[t] = 1..Len(cases'[t]) /\ Len(cases'[t]) \in Nat
        BY DEF TypeOK
    <2> QED
        BY <2>1, <1>1 DEF Watches
<1>3. Calm(t)
    BY <1>1, <1>2 DEF Calm, Stays, PickPCs
<1>4. ASSUME NEW c \in Channels PROVE listeners[c][t] <= Cardinality(Nodes(t, c)')
    <2>1. Nodes(t, c) = {}
        BY <1>1 DEF Nodes, PickPCs
    <2> QED
        BY <2>1, NoNodes, NodesFiniteNext DEF Selectors
<1> QED
    BY <1>3, <1>4, CalmNext

LEMMA PickEnds ==
    ASSUME TypeOK, TypeOK', Selectors, NEW t \in Threads, unregister_end(t)
    PROVE  Selectors'
<1>1. /\ UNCHANGED <<lock, listeners, closed, todo, queue, cases>>
      /\ pc[t] = "unregister" /\ pc'[t] \in {"rescan", "fetch", "idle"} /\ ~live'[t]
      /\ \A u \in Threads \ {t} :
            /\ pc'[u] = pc[u] /\ idx'[u] = idx[u]
            /\ live'[u] = live[u] /\ signaled'[u] = signaled[u]
    BY DEF unregister_end, Goto, chanVars, TypeOK
<1>2. Calm(t)
    <2>1. \A i \in Nat : ~Watches(t, i)'
        BY <1>1 DEF Watches
    <2> QED
        BY <2>1, <1>1 DEF Calm, Stays, PickPCs
<1>3. ASSUME NEW c \in Channels PROVE listeners[c][t] <= Cardinality(Nodes(t, c)')
    <2>1. Nodes(t, c) = {}
        <3>1. cases[t] \in Seq(Channels) /\ idx[t] \in Nat
            BY DEF TypeOK
        <3>2. Len(cases[t]) \in Nat /\ DOMAIN cases[t] = 1..Len(cases[t])
              /\ idx[t] > Len(cases[t])
            BY <3>1 DEF unregister_end
        <3>3. \A i \in DOMAIN cases[t] : ~(i >= idx[t])
            BY <3>1, <3>2
        <3> QED
            BY <3>3, <1>1 DEF Nodes
    <2> QED
        BY <2>1, NoNodes, NodesFiniteNext DEF Selectors
<1> QED
    BY <1>2, <1>3, CalmNext

----------------------------------------------------------------------------
LEMMA SelectorsCall ==
    ASSUME TypeOK, TypeOK', Selectors, NEW t \in Threads, Call(t)
    PROVE  Selectors'
<1>1. ASSUME NEW c \in Channels, NEW where \in {"idle", "send", "try_send", "receive", "fetch"},
             Begin(t, <<c>>, where), NeverFills,
             UNCHANGED <<lock, listeners, closed, todo, live, signaled>>
      PROVE  Selectors'
    <2>1. Outside(t)
        BY <1>1 DEF Outside, Begin, CanBegin, PickPCs, TypeOK
    <2> QED
        BY <2>1, OutsideNext
<1>2. ASSUME NEW c \in Channels, NEW m \in Messages, send_mismatch(t, c, m)
      PROVE  Selectors'
    BY <1>1, <1>2, SameNeverFills DEF send_mismatch, chanVars, pickVars
<1>3. ASSUME NEW c \in Channels, NEW m \in Messages, NEW where \in {"send", "try_send"},
             anchor(t, c, m, where)
      PROVE  Selectors'
    BY <1>1, <1>3, SameNeverFills DEF anchor, chanVars, pickVars
<1>4. ASSUME NEW c \in Channels, channel_receive(t, c) \/ channel_peek(t, c)
      PROVE  Selectors'
    BY <1>1, <1>4, SameNeverFills DEF channel_receive, channel_peek, chanVars, pickVars
<1>5. ASSUME NEW c \in Channels, channel_try_receive(t, c)
      PROVE  Selectors'
    BY <1>1, <1>5, SameNeverFills, TakeNeverFills DEF channel_try_receive, pickVars
<1>6. ASSUME NEW c \in Channels, channel_close(t, c)
      PROVE  Selectors'
    <2>1. pc[t] = "idle" /\ pc'[t] = "walk" /\ Chan(t)' = c
        <3>1. pc[t] = "idle"
            BY <1>6 DEF channel_close, CanBegin
        <3>2. pc'[t] = "walk"
            BY <1>6, <3>1 DEF channel_close, wake_receivers, Waiters
        <3>3. cases'[t] = <<c>> /\ idx'[t] = 1
            BY <1>6 DEF channel_close, TypeOK
        <3> QED
            BY <3>1, <3>2, <3>3 DEF Chan
    <2>2. \A u \in Threads \ {t} : Stays(u)
        BY <1>6 DEF channel_close, wake_receivers, Waiters, pickVars, Stays, TypeOK
    <2>3. NotifierStarts(t, c)
        BY <1>6, <2>1, <2>2 DEF channel_close, NotifierStarts, pickVars, PickPCs, TypeOK
    <2> QED
        BY <2>3, StartNext
<1> QED
    BY <1>2, <1>3, <1>4, <1>5, <1>6, PickBegins DEF Call, channel_send, channel_try_send

LEMMA SelectorsStep ==
    ASSUME TypeOK, TypeOK', Selectors, NEW t \in Threads, Step(t)
    PROVE  Selectors'
<1> DEFINE c == Chan(t)
<1>0. ASSUME idx[t] \in DOMAIN cases[t] PROVE c \in Channels
    BY <1>0 DEF TypeOK, Chan
<1>1. ASSUME NEW r, pc[t] \in {"send", "try_send"}, enqueue(t, r)
      PROVE  Selectors'
    <2>1. c \in Channels
        BY <1>0, <1>1 DEF TypeOK
    <2>2. /\ pc'[t] = "walk"
          /\ \A u \in Threads \ {t} :
                pc'[u] = pc[u] \/ (pc[u] = "recv_wait" /\ pc'[u] = "recv_woken")
        <3>0. pc \in [Threads -> PCs]
            BY DEF TypeOK
        <3>1. CASE Goto(t, "walk")
            BY <3>0, <3>1 DEF Goto
        <3>2. CASE \E w \in Waiters(c) : pc' = [pc EXCEPT ![t] = "walk", ![w] = "recv_woken"]
            BY <1>1, <3>0, <3>2 DEF Waiters
        <3> QED
            BY <1>1, <3>1, <3>2 DEF enqueue, signal_receiver
    <2>3. \A u \in Threads \ {t} : Stays(u)
        BY <1>1, <2>2 DEF enqueue, pickVars, Stays
    <2>4. NotifierStarts(t, c)
        BY <1>1, <2>1, <2>2, <2>3
           DEF enqueue, NotifierStarts, Chan, pickVars, PickPCs, TypeOK
    <2> QED
        BY <2>1, <2>4, StartNext
<1>2. ASSUME pc[t] \notin PickPCs \cup {"walk"}, NEW where \in PCs \ (PickPCs \cup {"walk"}),
             pc' = [pc EXCEPT ![t] = where], NeverFills,
             UNCHANGED <<lock, listeners, closed, todo, live, signaled, cases>>,
             \A u \in Threads \ {t} : idx'[u] = idx[u]
      PROVE  Selectors'
    BY <1>2, OutsideNext DEF Outside, TypeOK
<1>3. ASSUME NEW r, pc[t] \in {"send", "try_send"}, refuse(t, r)
      PROVE  Selectors'
    BY <1>2, <1>3, SameNeverFills DEF refuse, Return, chanVars, pickVars, PickPCs, PCs
<1>4. CASE send_locked(t)
    BY <1>1, <1>3, <1>4 DEF send_locked
<1>5. CASE try_send_locked(t)
    BY <1>1, <1>3, <1>5 DEF try_send_locked
<1>6. CASE receive_locked(t)
    <2>1. c \in Channels
        BY <1>0, <1>6 DEF receive_locked, TypeOK
    <2>2. NeverFills
        BY <1>6, <2>1, TakeNeverFills, SameNeverFills DEF receive_locked
    <2>3. \E where \in {"fetch", "idle", "recv_wait"} : pc' = [pc EXCEPT ![t] = where]
        BY <1>6 DEF receive_locked, Goto, Return
    <2> QED
        BY <1>2, <1>6, <2>2, <2>3 DEF receive_locked, pickVars, PickPCs, PCs
<1>7. CASE fetch(t)
    BY <1>2, <1>7, SameNeverFills DEF fetch, Goto, chanVars, pickVars, PickPCs, PCs
<1>8. CASE scan_case(t)
    <2>1. c \in Channels /\ idx[t] \in DOMAIN cases[t]
        <3>1. cases[t] \in Seq(Channels) /\ idx[t] \in Nat \ {0} /\ idx[t] <= Len(cases[t])
            BY <1>8 DEF scan_case, TypeOK
        <3>2. idx[t] \in DOMAIN cases[t]
            BY <3>1
        <3> QED
            BY <3>2, <1>0
    <2>2. CASE /\ listeners' = [listeners EXCEPT ![c][t] = @ + 1]
               /\ idx' = [idx EXCEPT ![t] = @ + 1]
               /\ queue[c] = <<>> /\ ~closed[c] /\ UNCHANGED <<queue, pc>>
        <3>1. pc[t] = "scan" /\ UNCHANGED <<lock, closed, cases, live, signaled, todo>>
            BY <1>8 DEF scan_case
        <3>2. RegistersCase(t, c)
            BY <2>1, <2>2, <3>1 DEF RegistersCase
        <3> QED
            BY <2>1, <3>2, RegisterNext
    <2>3. ASSUME NEW then, Unregister(t, then), UNCHANGED listeners,
                 take(t, c) \/ UNCHANGED queue
          PROVE  Selectors'
        <3>1. NeverFills
            BY <2>1, <2>3, TakeNeverFills, SameNeverFills
        <3>2. Inside(t)
            BY <1>8, <2>3, <3>1, InsideUnregister DEF scan_case, PickPCs
        <3> QED
            BY <3>2, InsideNext
    <2> QED
        BY <1>8, <2>2, <2>3 DEF scan_case
<1>9. CASE scan_end(t)
    <2>1. \A i \in DOMAIN cases[t] : i < idx[t]
        <3>1. cases[t] \in Seq(Channels) /\ idx[t] \in Nat /\ idx[t] > Len(cases[t])
            BY <1>9 DEF scan_end, TypeOK
        <3>2. Len(cases[t]) \in Nat /\ DOMAIN cases[t] = 1..Len(cases[t])
            BY <3>1
        <3> QED
            BY <3>1, <3>2
    <2>2. Inside(t)
        BY <1>9, <2>1, SameNeverFills
           DEF scan_end, Goto, Inside, chanVars, pickVars, PickPCs, TypeOK
    <2> QED
        BY <2>2, InsideNext
<1>10. CASE pick_wait(t)
    <2>1. ASSUME Unregister(t, "rescan") PROVE Inside(t)
        BY <1>10, <2>1, InsideUnregister, SameNeverFills DEF pick_wait, chanVars, PickPCs
    <2>2. ASSUME Goto(t, "sel_wait"), UNCHANGED idx PROVE Inside(t)
        BY <1>10, <2>2, SameNeverFills
           DEF pick_wait, Goto, Inside, chanVars, PickPCs, TypeOK
    <2> QED
        BY <1>10, <2>1, <2>2, InsideNext DEF pick_wait
<1>11. CASE pick_timeout(t)
    <2>1. Inside(t)
        BY <1>11, InsideUnregister, SameNeverFills DEF pick_timeout, chanVars, PickPCs
    <2> QED
        BY <2>1, InsideNext
<1>12. CASE rescan_case(t)
    <2>1. c \in Channels
        BY <1>0, <1>12 DEF rescan_case, TypeOK
    <2>2. NeverFills
        BY <1>12, <2>1, TakeNeverFills, SameNeverFills DEF rescan_case
    <2>3. pc[t] = "rescan" /\ pc'[t] \in {"rescan", "fetch", "idle"}
          /\ \A u \in Threads \ {t} : pc'[u] = pc[u] /\ cases'[u] = cases[u] /\ idx'[u] = idx[u]
        BY <1>12 DEF rescan_case, Goto, Return, TypeOK
    <2>4. Outside(t)
        BY <1>12, <2>2, <2>3 DEF Outside, rescan_case, pickVars, PickPCs
    <2> QED
        BY <2>4, OutsideNext
<1>13. CASE rescan_end(t)
    BY <1>2, <1>13, SameNeverFills DEF rescan_end, Return, chanVars, pickVars, PickPCs, PCs
<1> QED
    BY <1>4, <1>5, <1>6, <1>7, <1>8, <1>9, <1>10, <1>11, <1>12, <1>13,
       NotifyNext, DoneNext, UnregisterNext, PickEnds DEF Step

LEMMA SelectorsNext == TypeOK /\ TypeOK' /\ Selectors /\ [Next]_vars => Selectors'
<1> SUFFICES ASSUME TypeOK, TypeOK', Selectors, [Next]_vars PROVE Selectors'
    OBVIOUS
<1>1. ASSUME NEW t \in Threads, spurious_wakeup(t) PROVE Selectors'
    <2>1. UNCHANGED <<lock, listeners, closed, todo, live, signaled, cases, idx, queue>>
        BY <1>1 DEF spurious_wakeup, chanVars, pickVars
    <2>2. CASE pc[t] = "recv_wait" /\ Goto(t, "recv_woken")
        BY <2>1, <2>2, OutsideNext, SameNeverFills DEF Outside, Goto, PickPCs, TypeOK
    <2>3. CASE pc[t] = "sel_wait" /\ Goto(t, "select")
        BY <2>1, <2>3, InsideNext, SameNeverFills DEF Inside, Goto, PickPCs, TypeOK
    <2> QED
        BY <1>1, <2>2, <2>3 DEF spurious_wakeup
<1>2. CASE UNCHANGED vars
    BY <1>2 DEF vars, Selectors, SelectorLives, Linked, Walks, Registered, Noticed,
                Nodes, Watches, Told, Chan
<1> QED
    BY <1>1, <1>2, SelectorsCall, SelectorsStep, CollectNext, NextCases

LEMMA SelectorsInit == Init => Selectors
<1> SUFFICES ASSUME Init PROVE Selectors
    OBVIOUS
<1>1. \A t \in Threads : pc[t] = "idle" /\ ~live[t] /\ todo[t] = {}
    BY DEF Init
<1>2. SelectorLives /\ Walks /\ Registered /\ Noticed
    BY <1>1 DEF SelectorLives, Walks, Registered, Noticed, Watches, PickPCs
<1>3. Linked
    <2> SUFFICES ASSUME NEW c \in Channels, NEW t \in Threads
                 PROVE  listeners[c][t] <= Cardinality(Nodes(t, c))
        BY DEF Linked
    <2>1. listeners[c][t] = 0
        BY DEF Init
    <2> QED
        BY <2>1, TypeInit, NodesFinite
<1> QED
    BY <1>2, <1>3 DEF Selectors

\* The types and the selectors hold together, whatever the threads do.
LEMMA SelectorsAlways == Spec => [](TypeOK /\ Selectors)
BY TypeInit, TypeNext, SelectorsInit, SelectorsNext, PTL DEF Spec

\* A selector lives on the stack of thread_pick: whichever way pick leaves, by a
\* message, a close, a timeout or a failed allocation, no channel and no notifier
\* keeps a pointer to it.
THEOREM ChannelSelectorsAlive == Spec => []SelectorsAlive
<1>1. TypeOK /\ Selectors => SelectorsAlive
    <2> SUFFICES ASSUME TypeOK, Selectors PROVE SelectorsAlive
        OBVIOUS
    <2>1. ASSUME NEW c \in Channels, NEW t \in Threads, listeners[c][t] > 0
          PROVE  live[t]
        <3>1. Nodes(t, c) # {}
            BY <2>1, NoNodes DEF Selectors
        <3> QED
            BY <3>1 DEF Nodes, Selectors, SelectorLives
    <2>2. ASSUME NEW t \in Threads, NEW s \in todo[t]
          PROVE  live[s] /\ lock[Chan(t)] = t /\ listeners[Chan(t)][s] > 0
        <3>1. pc[t] = "walk" /\ lock[Chan(t)] = t /\ listeners[Chan(t)][s] > 0
            BY <2>2 DEF Selectors, Walks
        <3>2. Chan(t) \in Channels /\ s \in Threads
            BY <2>2, <3>1, CaseChannel DEF TypeOK, Chan
        <3> QED
            BY <2>1, <3>1, <3>2
    <2> QED
        BY <2>1, <2>2 DEF SelectorsAlive
<1> QED
    BY <1>1, SelectorsAlways, PTL

\* pick does not sleep through a send or a close on any of its channels, however
\* its registrations interleave with the walks of the notifiers.
THEOREM ChannelPickNotified == Spec => []PickNotified
<1>1. TypeOK /\ Selectors => PickNotified
    <2> SUFFICES ASSUME TypeOK, Selectors, NEW t \in Threads,
                        pc[t] \in {"select", "sel_wait"}, ~signaled[t],
                        NEW i \in DOMAIN cases[t]
                 PROVE  Told(t, cases[t][i])
        BY DEF PickNotified, Told
    <2>1. i \in Nat /\ Watches(t, i)
        BY CaseNumbers DEF Watches
    <2> QED
        BY <2>1 DEF Selectors, Noticed
<1> QED
    BY <1>1, SelectorsAlways, PTL
=============================================================================
