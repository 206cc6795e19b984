----------------------------- MODULE CreditFlow -----------------------------
(***************************************************************************)
(* Flow control of one direction of a chmux connection: the senders of     *)
(* several ports obtain port and global credits, hand chunks to the        *)
(* multiplexer and may be cancelled; the receiving multiplexer accounts    *)
(* the credits, the receivers return them, the buffer sizer changes the    *)
(* number of global credits, and a port with too much unreceived data is   *)
(* throttled (chmux/credit.rs, sender.rs, mux.rs).                         *)
(*                                                                         *)
(* A Sender is used through &mut self, so a port has at most one sending   *)
(* operation.  Every await point of that operation is a value of pc.  The  *)
(* receiving multiplexer and the receivers run in parallel and share       *)
(* atomics: for throttling every access that decides is a step.            *)
(***************************************************************************)
EXTENDS Integers, Sequences, FiniteSets, FiniteSetsExt, SequencesExt

CONSTANTS
    Ports,
    Limits,        \* values of port_receive_buffer of the receiving endpoint
    Sizes,         \* sizes the buffer sizer can ask for
    InitialSize,   \* BufferSizer::initial
    QueueCap,      \* messages that fit between the senders and the remote mux
    Setups         \* what the applications do

\* limit, chunk: port_receive_buffer and chunk_size of the receiving endpoint; ports: the
\* ports that are used; sizes: what the sizer asks for; sends: sizes of the messages (an
\* empty one costs one credit); connects: numbers of ports per Sender::connect; throttle:
\* port_receive_throttle; sets: calls of set_global_credits_allowed; ops: what else happens
\* (try_send, cancelled operations, dropped receivers, an event channel that other ports
\* have filled).
ASSUME CreditFlowAssumption ==
    /\ IsFiniteSet(Ports)
    /\ Limits \subseteq Nat \ {0}
    /\ Sizes \subseteq Nat \ {0} /\ InitialSize \in Sizes
    /\ QueueCap \in Nat \ {0}
    /\ \A s \in Setups :
        \* Cfg::check wants 4 bytes each; without connects a credit may stand for several.
        /\ s.connects # {} => s.limit >= 4 /\ s.chunk >= 4
        /\ s.limit \in Limits /\ s.chunk \in Nat \ {0}
        /\ s.ports \subseteq Ports /\ s.sizes \subseteq Sizes
        /\ s.throttle \in Nat /\ s.sets \in Nat
        /\ s.ops \subseteq {"try_send", "cancel", "drop", "full"}
        /\ s.sends \subseteq Nat \ {0} /\ s.connects \subseteq Nat \ {0}

VARIABLES
    setup,
    \* sending endpoint
    store,      \* port credits in the SendableCreditStore of each port
    gstore,     \* global credits in the SendableCreditStore
    useGlobal,  \* use_global_credits of each port
    closed,     \* the sender of the port has learned that the receiver is gone
    pc,         \* await point of the port's sending operation
    kind,       \* "send" or "connect"
    left,       \* bytes that the operation still has to send
    held,       \* MixedAssignedCredits of the operation
    msg,        \* credits taken for the message waiting for queue space
    \* between the endpoints
    wire,       \* data messages of each port, oldest first
    ret,        \* port credits underway back to the sender
    gret,       \* global credits underway back to the sender
    \* receiving endpoint
    rxq,        \* messages of each port not yet received by the application
    used,       \* port_used of each port
    toReturn,   \* to_return of each port's PortCreditReturner
    rdropped,   \* the receiver has been dropped
    gused,      \* GlobalCreditMonitor.used
    greleasing, \* credits between the two atomic updates of return_credits
    gtoReturn,  \* GlobalCreditMonitor.to_return
    gtotal,     \* GlobalCreditMonitor.total
    error,      \* the receiving multiplexer failed with a protocol error
    \* receiving endpoint: throttling
    usage,      \* global_credit_usage of each port
    allowed,    \* global_allowed
    sets,       \* calls of set_global_credits_allowed so far
    swapping,   \* the receiver has decided to activate the port
    tasks,      \* PortCreditReturner.tasks: changes that found the event channel full
    events,     \* changes in the event channel of the multiplexer
    hand,       \* the data message that the multiplexer is handling
    inhibit,    \* outstanding_inhibit_global_credit_usage_ports
    ctl,        \* changes underway to the sender
    \* history
    lost, glost \* credits of data messages that were dropped before being sent

svars == <<setup, store, gstore, useGlobal, closed, pc, kind, left, held, msg>>
tvars == <<usage, allowed, sets, swapping, tasks, events, hand, inhibit, ctl>>
rvars == <<rxq, used, toReturn, rdropped, gused, greleasing, gtoReturn, gtotal, error, tvars>>
vars  == <<svars, wire, ret, gret, rvars, lost, glost>>

PortLimit == setup.limit
ChunkSize == setup.chunk

Credits == [port : Nat, global : Nat]
None    == [port |-> 0, global |-> 0]
Amount(c)   == c.port + c.global
Minus(c, d) == [port |-> c.port - d.port, global |-> c.global - d.global]
Least(a, b) == IF a <= b THEN a ELSE b
PortSize    == 4

\* Sums of the numbers in a sequence: of its beginnings, and of all.
Sums(s) ==
    LET sum[i \in 0..Len(s)] == IF i = 0 THEN 0 ELSE sum[i - 1] + s[i] IN sum
Total(s) == Sums(s)[Len(s)]

PortAmount(ms)   == Total([i \in 1..Len(ms) |-> ms[i].port])
GlobalAmount(ms) == Total([i \in 1..Len(ms) |-> ms[i].global])

\* The sum of a function over all ports.
PortSeq    == SetToSeq(Ports)
SumOver(f) == Total([i \in 1..Cardinality(Ports) |-> f[PortSeq[i]]])

QueueRoom == QueueCap - SumOver([p \in Ports |-> Len(wire[p])])

Init ==
    /\ setup \in Setups
    /\ store = [p \in Ports |-> PortLimit]
    /\ gstore = InitialSize
    /\ useGlobal = [p \in Ports |-> TRUE]
    /\ closed = [p \in Ports |-> FALSE]
    /\ pc = [p \in Ports |-> "idle"]
    /\ kind = [p \in Ports |-> "send"]
    /\ left = [p \in Ports |-> 0]
    /\ held = [p \in Ports |-> None]
    /\ msg = [p \in Ports |-> None]
    /\ wire = [p \in Ports |-> <<>>]
    /\ ret = [p \in Ports |-> 0]
    /\ gret = 0
    /\ rxq = [p \in Ports |-> <<>>]
    /\ used = [p \in Ports |-> 0]
    /\ toReturn = [p \in Ports |-> 0]
    /\ rdropped = [p \in Ports |-> FALSE]
    /\ gused = 0
    /\ greleasing = 0
    /\ gtoReturn = 0
    /\ gtotal = InitialSize
    /\ error = FALSE
    /\ usage = [p \in Ports |-> "active"]
    /\ allowed = [p \in Ports |-> TRUE]
    /\ sets = 0
    /\ swapping = [p \in Ports |-> FALSE]
    /\ tasks = [p \in Ports |-> <<>>]
    /\ events = [p \in Ports |-> <<>>]
    /\ hand = <<>>
    /\ inhibit = {}
    /\ ctl = [p \in Ports |-> <<>>]
    /\ lost = [p \in Ports |-> 0]
    /\ glost = 0

-----------------------------------------------------------------------------
(* Sending endpoint: Sender::send, Sender::connect. *)

Start(p, k, bytes) ==
    /\ pc[p] = "idle"
    /\ pc' = [pc EXCEPT ![p] = "request"]
    /\ kind' = [kind EXCEPT ![p] = k]
    /\ left' = [left EXCEPT ![p] = bytes]
    /\ UNCHANGED <<setup, store, gstore, useGlobal, closed, held, msg, wire, ret, gret, rvars, lost, glost>>

StartSend(p)    == \E n \in setup.sends : Start(p, "send", n)
StartConnect(p) == \E n \in setup.connects : Start(p, "connect", n * PortSize)

MinReq(p) == IF kind[p] = "connect" THEN PortSize ELSE 1

\* Bytes of the next chunk when c credits are held and l bytes are left: whole port
\* numbers for a connect, as many bytes as possible for data.
ChunkLen(p, c, l) ==
    LET most == Least(ChunkSize, Amount(c))
    IN  Least(l, IF kind[p] = "connect" THEN (most \div PortSize) * PortSize ELSE most)

\* The next pass of the loop in do_send and do_connect, with c credits held and l
\* bytes left: take the credits of one chunk (port credits first) and wait for
\* space in the queue of the multiplexer.
NextChunk(p, c, l) ==
    LET n == ChunkLen(p, c, l)
        m == [port |-> Least(c.port, n), global |-> n - Least(c.port, n)]
    IN  /\ msg' = [msg EXCEPT ![p] = m]
        /\ held' = [held EXCEPT ![p] = Minus(c, m)]
        /\ left' = [left EXCEPT ![p] = l - n]
        /\ pc' = [pc EXCEPT ![p] = "queue"]

\* Credits c have been obtained.
Granted(p, c) ==
    /\ store' = [store EXCEPT ![p] = @ - c.port]
    /\ gstore' = gstore - c.global
    /\ NextChunk(p, c, left[p])

\* What the first, non-blocking part of MixedCreditUser::request obtains.  A connect
\* uses CreditUser::request of the port directly.
Obtainable(p) ==
    LET n == IF store[p] >= MinReq(p) THEN Least(store[p], left[p]) ELSE 0
    IN  [port |-> n,
         global |-> IF kind[p] = "send" /\ useGlobal[p] THEN Least(gstore, left[p] - n) ELSE 0]

Request(p) ==
    /\ pc[p] = "request"
    /\ ~closed[p]
    /\ IF Amount(Obtainable(p)) > 0
       THEN Granted(p, Obtainable(p))
       ELSE /\ pc' = [pc EXCEPT ![p] = "wait"]
            /\ UNCHANGED <<store, gstore, held, msg, left>>
    /\ UNCHANGED <<setup, useGlobal, closed, kind, wire, ret, gret, rvars, lost, glost>>

\* The blocking part, first branch of the select: CreditUser::request of the port.
WaitPort(p) ==
    /\ pc[p] \in {"wait", "wait_global"}
    /\ ~closed[p]
    /\ store[p] >= MinReq(p)
    /\ Granted(p, [port |-> Least(store[p], left[p]), global |-> 0])
    /\ UNCHANGED <<setup, useGlobal, closed, kind, wire, ret, gret, rvars, lost, glost>>

\* Second branch: wait until the remote endpoint allows global credits ...
WaitAllowed(p) ==
    /\ pc[p] = "wait"
    /\ kind[p] = "send"
    /\ useGlobal[p]
    /\ pc' = [pc EXCEPT ![p] = "wait_global"]
    /\ UNCHANGED <<setup, store, gstore, useGlobal, closed, kind, left, held, msg,
                   wire, ret, gret, rvars, lost, glost>>

\* ... and then for global credits, without looking at the permission again.
WaitGlobal(p) ==
    /\ pc[p] = "wait_global"
    /\ ~closed[p]
    /\ store[p] = 0
    /\ gstore > 0
    /\ Granted(p, [port |-> 0, global |-> Least(gstore, left[p])])
    /\ UNCHANGED <<setup, useGlobal, closed, kind, wire, ret, gret, rvars, lost, glost>>

\* Drop of the operation: AssignedCredits::drop returns what is held, but the
\* credits of a message that was not queued are forgotten.
EndOp(p, forgotten) ==
    /\ pc' = [pc EXCEPT ![p] = "idle"]
    /\ store' = [store EXCEPT ![p] = @ + held[p].port]
    /\ gstore' = gstore + held[p].global
    /\ lost' = [lost EXCEPT ![p] = @ + forgotten.port]
    /\ glost' = glost + forgotten.global
    /\ held' = [held EXCEPT ![p] = None]
    /\ msg' = [msg EXCEPT ![p] = None]
    /\ left' = [left EXCEPT ![p] = 0]

\* SendError::Closed
FailClosed(p) ==
    /\ pc[p] \in {"request", "wait", "wait_global"}
    /\ closed[p]
    /\ EndOp(p, None)
    /\ UNCHANGED <<setup, useGlobal, closed, kind, wire, ret, gret, rvars>>

\* The future of the operation is dropped at an await point.
Cancel(p) ==
    /\ "cancel" \in setup.ops
    /\ pc[p] # "idle"
    /\ EndOp(p, msg[p])
    /\ UNCHANGED <<setup, useGlobal, closed, kind, wire, ret, gret, rvars>>

\* mpsc::Sender::send of the chunk completes.
Enqueue(p) ==
    /\ pc[p] = "queue"
    /\ QueueRoom > 0
    /\ wire' = [wire EXCEPT ![p] = Append(@, msg[p])]
    /\ \/ /\ left[p] = 0
          /\ EndOp(p, None)
       \/ /\ left[p] > 0
          /\ Amount(held[p]) > 0
          /\ NextChunk(p, held[p], left[p])
          /\ UNCHANGED <<store, gstore, lost, glost>>
       \/ /\ left[p] > 0
          /\ Amount(held[p]) = 0
          /\ pc' = [pc EXCEPT ![p] = "request"]
          /\ msg' = [msg EXCEPT ![p] = None]
          /\ UNCHANGED <<store, gstore, lost, glost, held, left>>
    /\ UNCHANGED <<setup, useGlobal, closed, kind, ret, gret, rvars>>

-----------------------------------------------------------------------------
(* Sending endpoint: Sender::try_send. *)

\* Credits of the i-th of the chunks that a message of n bytes is split into.
ChunkAt(n, i) == Least(ChunkSize, n - (i - 1) * ChunkSize)
ChunkCount(n) == (n + ChunkSize - 1) \div ChunkSize

\* All or nothing, from one of the two pools; chunk number room + 1 finds the queue
\* full and its credits are forgotten, the ones of later chunks are given back.
TrySend(p, n) ==
    /\ "try_send" \in setup.ops
    /\ pc[p] = "idle"
    /\ ~closed[p]
    /\ LET fromPort == store[p] >= n
           count == Least(ChunkCount(n), QueueRoom)
           Chunk(i) == IF fromPort THEN [port |-> ChunkAt(n, i), global |-> 0]
                                   ELSE [port |-> 0, global |-> ChunkAt(n, i)]
           queued == [i \in 1..count |-> Chunk(i)]
           forgot == IF count < ChunkCount(n) THEN Chunk(count + 1) ELSE None
       IN  /\ fromPort \/ (useGlobal[p] /\ gstore >= n)
           /\ wire' = [wire EXCEPT ![p] = @ \o queued]
           /\ store' = [store EXCEPT ![p] = @ - PortAmount(queued) - forgot.port]
           /\ gstore' = gstore - GlobalAmount(queued) - forgot.global
           /\ lost' = [lost EXCEPT ![p] = @ + forgot.port]
           /\ glost' = glost + forgot.global
    /\ UNCHANGED <<setup, useGlobal, closed, pc, kind, left, held, msg, ret, gret, rvars>>

-----------------------------------------------------------------------------
(* Sending endpoint: messages from the remote endpoint. *)

\* PortCredits message
ProvidePort(p) ==
    /\ \E n \in 1..ret[p] :
        /\ store' = [store EXCEPT ![p] = @ + n]
        /\ ret' = [ret EXCEPT ![p] = @ - n]
    /\ UNCHANGED <<setup, gstore, useGlobal, closed, pc, kind, left, held, msg,
                   wire, gret, rvars, lost, glost>>

\* GlobalCredits message
ProvideGlobal ==
    /\ \E n \in 1..gret :
        /\ gstore' = gstore + n
        /\ gret' = gret - n
    /\ UNCHANGED <<setup, store, useGlobal, closed, pc, kind, left, held, msg,
                   wire, ret, rvars, lost, glost>>

\* InhibitGlobalCreditUsageByPort or AllowGlobalCreditUsageByPort message
SetUseGlobal(p) ==
    /\ ctl[p] # <<>>
    /\ useGlobal' = [useGlobal EXCEPT ![p] = Head(ctl[p]) = "allow"]
    /\ ctl' = [ctl EXCEPT ![p] = Tail(@)]
    /\ UNCHANGED <<setup, store, gstore, closed, pc, kind, left, held, msg, wire, ret, gret,
                   rxq, used, toReturn, rdropped, gused, greleasing, gtoReturn, gtotal, error,
                   usage, allowed, sets, swapping, tasks, events, hand, inhibit, lost, glost>>

\* ReceiveFinish message
ReceiveFinish(p) ==
    /\ rdropped[p]
    /\ ~closed[p]
    /\ closed' = [closed EXCEPT ![p] = TRUE]
    /\ UNCHANGED <<setup, store, gstore, useGlobal, pc, kind, left, held, msg,
                   wire, ret, gret, rvars, lost, glost>>

-----------------------------------------------------------------------------
(* Receiving endpoint. *)

\* Mutant: the limits are exclusive.
AcceptableBelow(p, m) ==
    /\ gused + m.global <= gtotal
    /\ used[p] + m.port < PortLimit

\* The limit checks of GlobalCreditMonitor::use_credits and
\* PortCreditMonitor::use_credits.
Acceptable(p, m) ==
    /\ gused + m.global <= gtotal
    /\ used[p] + m.port <= PortLimit

\* Data of the port that has not been received, in credits of both kinds.
InHand(p) == IF hand # <<>> /\ hand[1].port = p THEN hand[1].msg.global ELSE 0
Unreceived(p) == used[p] + GlobalAmount(rxq[p]) + InHand(p)
Throttles(n)  == n >= setup.throttle

\* The message reaches the queue of the receiver; if nobody receives it, it is dropped, and
\* its UsedGlobalCredit with it.  The credits in g are already accounted for.
Deliver(p, m, g) ==
    IF rdropped[p]
    THEN /\ gused' = g - m.global
         /\ greleasing' = greleasing + m.global
         /\ UNCHANGED rxq
    ELSE /\ gused' = g
         /\ rxq' = [rxq EXCEPT ![p] = Append(@, m)]
         /\ UNCHANGED greleasing

\* A Data or PortData message is handled by the multiplexer.  When the throttle level is
\* reached the next two steps belong to the handling too.  What nobody received stays
\* counted at a port whose receiver is gone: there the level may be reached at any time.
Receive(p) ==
    /\ ~error /\ hand = <<>>
    /\ wire[p] # <<>>
    /\ LET m == Head(wire[p])
           reached == Throttles(Unreceived(p) + Amount(m))
       IN  /\ wire' = [wire EXCEPT ![p] = Tail(@)]
           /\ error' = ~Acceptable(p, m)
           /\ used' = [used EXCEPT ![p] = @ + m.port]
           /\ \/ /\ reached \/ rdropped[p]
                 /\ hand' = <<[port |-> p, msg |-> m, tried |-> FALSE]>>
                 /\ gused' = gused + m.global
                 /\ UNCHANGED <<rxq, greleasing>>
              \/ /\ ~reached
                 /\ Deliver(p, m, gused + m.global)
                 /\ UNCHANGED hand
    /\ UNCHANGED <<svars, ret, gret, toReturn, rdropped, gtoReturn, gtotal, usage, allowed,
                   sets, swapping, tasks, events, inhibit, ctl, lost, glost>>

\* PortCreditMonitor::use_credits wants the sender to do without global credits, if the
\* port is still active.
StartInhibiting(p) ==
    /\ hand # <<>> /\ hand[1].port = p /\ ~hand[1].tried
    /\ usage' = [usage EXCEPT ![p] = IF @ = "active" THEN "inhibiting" ELSE @]
    /\ hand' = [hand EXCEPT ![1].tried = TRUE]
    /\ UNCHANGED <<svars, wire, ret, gret, rxq, used, toReturn, rdropped, gused, greleasing,
                   gtoReturn, gtotal, error, allowed, sets, swapping, tasks, events, inhibit, ctl,
                   lost, glost>>

\* The handler remembers the port, if that is still so, and passes the data on.
PassOn(p) ==
    /\ hand # <<>> /\ hand[1].port = p /\ hand[1].tried
    /\ inhibit' = IF usage[p] = "inhibiting" THEN inhibit \cup {p} ELSE inhibit
    /\ Deliver(p, hand[1].msg, gused)
    /\ hand' = <<>>
    /\ UNCHANGED <<svars, wire, ret, gret, used, toReturn, rdropped, gtoReturn, gtotal, error, usage, allowed, sets, swapping, tasks, events, ctl,
                   lost, glost>>

\* The high priority branch of the multiplexer: first the ports to inhibit ...
SendInhibit(p) ==
    /\ hand = <<>> /\ p \in inhibit /\ Len(ctl[p]) < QueueCap
    /\ inhibit' = inhibit \ {p}
    /\ IF usage[p] = "inhibiting"
       THEN /\ usage' = [usage EXCEPT ![p] = "inhibited"]
            /\ ctl' = [ctl EXCEPT ![p] = Append(@, "inhibit")]
       ELSE UNCHANGED <<usage, ctl>>
    /\ UNCHANGED <<svars, wire, ret, gret, rxq, used, toReturn, rdropped, gused, greleasing,
                   gtoReturn, gtotal, error, allowed, sets, swapping, tasks, events, hand,
                   lost, glost>>

\* ... then the events of ports.
SendChange(p) ==
    /\ hand = <<>> /\ inhibit = {} /\ events[p] # <<>> /\ Len(ctl[p]) < QueueCap
    /\ ctl' = [ctl EXCEPT ![p] = Append(@, Head(events[p]))]
    /\ events' = [events EXCEPT ![p] = Tail(@)]
    /\ UNCHANGED <<svars, wire, ret, gret, rxq, used, toReturn, rdropped, gused, greleasing,
                   gtoReturn, gtotal, error, usage, allowed, sets, swapping, tasks, hand, inhibit,
                   lost, glost>>

ReturnThreshold ==
    LET quarter == IF PortLimit \div 4 >= 1 THEN PortLimit \div 4 ELSE 1
    IN  IF PortLimit - quarter <= PortSize THEN 1 ELSE quarter

\* throttle_release
Releases(n) ==
    LET part == (setup.throttle \div 4) * 3
    IN  n < (IF part >= 1 THEN part ELSE 1)

\* Mutant: the batch is not reset when it is returned.
ConsumeKeepsBatch(p) ==
    /\ rxq[p] # <<>> /\ ~swapping[p] /\ tasks[p] = <<>>
    /\ LET m == Head(rxq[p])
           batch == toReturn[p] + m.port
       IN  /\ rxq' = [rxq EXCEPT ![p] = Tail(@)]
           /\ used' = [used EXCEPT ![p] = @ - m.port]
           /\ toReturn' = [toReturn EXCEPT ![p] = batch]
           /\ ret' = [ret EXCEPT ![p] = @ + IF batch >= ReturnThreshold THEN batch ELSE 0]
           /\ gused' = gused - m.global
           /\ greleasing' = greleasing + m.global
           /\ swapping' = [swapping EXCEPT ![p] = Releases(Unreceived(p) - Amount(m)) /\ allowed[p]]
    /\ UNCHANGED <<svars, wire, gret, rdropped, gtoReturn, gtotal, error, usage, allowed, sets,
                   tasks, events, hand, inhibit, ctl, lost, glost>>

\* Mutant: a batch of exactly the threshold is kept back.
ConsumeReturnsLate(p) ==
    /\ rxq[p] # <<>> /\ ~swapping[p] /\ tasks[p] = <<>>
    /\ LET m == Head(rxq[p])
           batch == toReturn[p] + m.port
       IN  /\ rxq' = [rxq EXCEPT ![p] = Tail(@)]
           /\ used' = [used EXCEPT ![p] = @ - m.port]
           /\ toReturn' = [toReturn EXCEPT ![p] = IF batch > ReturnThreshold THEN 0 ELSE batch]
           /\ ret' = [ret EXCEPT ![p] = @ + IF batch > ReturnThreshold THEN batch ELSE 0]
           /\ gused' = gused - m.global
           /\ greleasing' = greleasing + m.global
           /\ swapping' = [swapping EXCEPT ![p] = Releases(Unreceived(p) - Amount(m)) /\ allowed[p]]
    /\ UNCHANGED <<svars, wire, gret, rdropped, gtoReturn, gtotal, error, usage, allowed, sets,
                   tasks, events, hand, inhibit, ctl, lost, glost>>

\* Receiver::recv_any or recv_chunk takes a message: PortCreditReturner::ready and
\* start_return and, when the message goes out of scope, UsedGlobalCredit::drop.
Consume(p) ==
    /\ rxq[p] # <<>> /\ ~swapping[p] /\ tasks[p] = <<>>
    /\ LET m == Head(rxq[p])
           batch == toReturn[p] + m.port
       IN  /\ rxq' = [rxq EXCEPT ![p] = Tail(@)]
           /\ used' = [used EXCEPT ![p] = @ - m.port]
           /\ toReturn' = [toReturn EXCEPT ![p] = IF batch >= ReturnThreshold THEN 0 ELSE batch]
           /\ ret' = [ret EXCEPT ![p] = @ + IF batch >= ReturnThreshold THEN batch ELSE 0]
           /\ gused' = gused - m.global
           /\ greleasing' = greleasing + m.global
           /\ swapping' = [swapping EXCEPT ![p] = Releases(Unreceived(p) - Amount(m)) /\ allowed[p]]
    /\ UNCHANGED <<svars, wire, gret, rdropped, gtoReturn, gtotal, error, usage, allowed, sets,
                   tasks, events, hand, inhibit, ctl, lost, glost>>

\* queue_port_evt: try_send, or a task that sends the event later.
QueuePortEvt(p, event) ==
    \/ Len(events[p]) < QueueCap /\ events' = [events EXCEPT ![p] = Append(@, event)] /\ UNCHANGED tasks
    \/ /\ "full" \in setup.ops \/ Len(events[p]) >= QueueCap
       /\ tasks' = [tasks EXCEPT ![p] = Append(@, event)] /\ UNCHANGED events

\* Mutant: the sender is not told.
SwapActiveSilently(p) ==
    /\ swapping[p]
    /\ swapping' = [swapping EXCEPT ![p] = FALSE]
    /\ usage' = [usage EXCEPT ![p] = "active"]
    /\ UNCHANGED <<svars, wire, ret, gret, rxq, used, toReturn, rdropped, gused, greleasing,
                   gtoReturn, gtotal, error, allowed, sets, tasks, events, hand, inhibit, ctl,
                   lost, glost>>

\* The swap to the active state, in start_return and set_global_credits_allowed.
SwapActive(p) ==
    /\ swapping[p]
    /\ swapping' = [swapping EXCEPT ![p] = FALSE]
    /\ usage' = [usage EXCEPT ![p] = "active"]
    /\ IF usage[p] = "inhibited" THEN QueuePortEvt(p, "allow") ELSE UNCHANGED <<tasks, events>>
    /\ UNCHANGED <<svars, wire, ret, gret, rxq, used, toReturn, rdropped, gused, greleasing,
                   gtoReturn, gtotal, error, allowed, sets, hand, inhibit, ctl, lost, glost>>

\* Receiver::set_global_credits_allowed, when it changes the permission.
SetAllowed(p) ==
    /\ ~rdropped[p] /\ ~swapping[p] /\ sets < setup.sets
    /\ sets' = sets + 1
    /\ allowed' = [allowed EXCEPT ![p] = ~@]
    /\ IF allowed'[p]
       THEN /\ swapping' = [swapping EXCEPT ![p] = Releases(Unreceived(p))]
            /\ UNCHANGED <<usage, tasks, events>>
       ELSE /\ usage' = [usage EXCEPT ![p] = "inhibited"]
            /\ IF usage[p] # "inhibited" THEN QueuePortEvt(p, "inhibit") ELSE UNCHANGED <<tasks, events>>
            /\ UNCHANGED swapping
    /\ UNCHANGED <<svars, wire, ret, gret, rxq, used, toReturn, rdropped, gused, greleasing,
                   gtoReturn, gtotal, error, hand, inhibit, ctl, lost, glost>>

\* PortCreditReturner::ready, awaited by the receive operations.
Ready(p) ==
    /\ ~swapping[p] /\ tasks[p] # <<>> /\ Len(events[p]) < QueueCap
    /\ events' = [events EXCEPT ![p] = Append(@, Head(tasks[p]))]
    /\ tasks' = [tasks EXCEPT ![p] = Tail(@)]
    /\ UNCHANGED <<svars, wire, ret, gret, rxq, used, toReturn, rdropped, gused, greleasing,
                   gtoReturn, gtotal, error, usage, allowed, sets, swapping, hand, inhibit, ctl,
                   lost, glost>>

\* Receiver::drop discards what it has not received, and the tasks of its
\* PortCreditReturner.
DropReceiver(p) ==
    /\ "drop" \in setup.ops
    /\ ~rdropped[p] /\ ~swapping[p]
    /\ rdropped' = [rdropped EXCEPT ![p] = TRUE]
    /\ rxq' = [rxq EXCEPT ![p] = <<>>]
    /\ tasks' = [tasks EXCEPT ![p] = <<>>]
    /\ LET dropped == GlobalAmount(rxq[p])
       IN  /\ gused' = gused - dropped
           /\ greleasing' = greleasing + dropped
    /\ UNCHANGED <<svars, wire, ret, gret, used, toReturn, gtoReturn, gtotal, error, usage, allowed,
                   sets, swapping, events, hand, inhibit, ctl, lost, glost>>

\* Second atomic update of GlobalCreditMonitor::return_credits
Collect ==
    /\ \E n \in 1..greleasing :
        /\ greleasing' = greleasing - n
        /\ gtoReturn' = gtoReturn + n
    /\ UNCHANGED <<svars, wire, ret, gret, rxq, used, toReturn, rdropped, gused,
                   gtotal, error, tvars, lost, glost>>

\* Mutant: to_return is not reset when it is sent.
ReturnToRemoteKeepsBatch(target, threshold, force) ==
    LET pool == gtoReturn + target - gtotal
    IN  /\ target >= gtotal /\ pool > 0
        /\ gtotal' = target
        /\ gtoReturn' = pool
        /\ gret' = gret + pool
        /\ UNCHANGED <<svars, wire, ret, rxq, used, toReturn, rdropped, gused,
                       greleasing, error, tvars, lost, glost>>

\* GlobalCreditMonitor::return_to_remote for what the sizer asks for.
ReturnToRemote(target, threshold, force) ==
    LET delta == IF target >= gtotal THEN target - gtotal
                                     ELSE -Least(gtotal - target, gtoReturn)
        pool  == gtoReturn + delta
        send  == delta # 0 \/ force \/ pool >= threshold
    IN  /\ delta # 0 \/ (send /\ pool > 0)
        /\ gtotal' = gtotal + delta
        /\ gtoReturn' = IF send THEN 0 ELSE pool
        /\ gret' = gret + IF send THEN pool ELSE 0
        /\ UNCHANGED <<svars, wire, ret, rxq, used, toReturn, rdropped, gused,
                       greleasing, error, tvars, lost, glost>>

Resize ==
    hand = <<>> /\ \E target \in setup.sizes, force \in BOOLEAN :
        \E threshold \in 1..target : ReturnToRemote(target, threshold, force)

-----------------------------------------------------------------------------

Sending(p) ==
    \/ StartSend(p) \/ StartConnect(p) \/ Request(p) \/ WaitPort(p)
    \/ WaitAllowed(p) \/ WaitGlobal(p) \/ FailClosed(p) \/ Cancel(p) \/ Enqueue(p)
    \/ \E n \in setup.sends : TrySend(p, n)
    \/ ProvidePort(p) \/ SetUseGlobal(p) \/ ReceiveFinish(p)

Receiving(p) ==
    \/ Receive(p) \/ StartInhibiting(p) \/ PassOn(p) \/ SendInhibit(p) \/ SendChange(p)
    \/ Consume(p) \/ SwapActive(p) \/ SetAllowed(p) \/ Ready(p) \/ DropReceiver(p)

Next ==
    \/ \E p \in setup.ports : Sending(p) \/ Receiving(p)
    \/ ProvideGlobal \/ Collect \/ Resize

Spec == Init /\ [][Next]_vars

(***************************************************************************)
(* Fairness.  Tasks that can run are polled again by the executor, the     *)
(* multiplexers keep running, and the receiving application keeps calling  *)
(* recv.  Waiters of the shared queue are served in order by tokio's mpsc  *)
(* channel, hence strong fairness for Enqueue.  The high priority branch   *)
(* of the multiplexer is polled first, so that it gets its turn although   *)
(* data keeps arriving.  Starting, cancelling, dropping and changing a     *)
(* permission are choices of the application and are not fair.             *)
(***************************************************************************)
Fairness ==
    /\ \A p \in Ports :
        /\ WF_vars(Request(p) \/ WaitPort(p) \/ FailClosed(p))
        /\ SF_vars(Enqueue(p))
        /\ WF_vars(ProvidePort(p)) /\ WF_vars(ReceiveFinish(p))
        /\ WF_vars(Receive(p) \/ StartInhibiting(p) \/ PassOn(p))
        /\ WF_vars(Consume(p) \/ SwapActive(p) \/ Ready(p))
        /\ SF_vars(SendInhibit(p)) /\ SF_vars(SendChange(p)) /\ WF_vars(SetUseGlobal(p))
    /\ WF_vars(ProvideGlobal) /\ WF_vars(Collect)

FairSpec == Spec /\ Fairness

-----------------------------------------------------------------------------
(* Properties. *)

TypeOK ==
    /\ store \in [Ports -> 0..PortLimit]
    /\ gstore \in Nat
    /\ useGlobal \in [Ports -> BOOLEAN]
    /\ closed \in [Ports -> BOOLEAN]
    /\ pc \in [Ports -> {"idle", "request", "wait", "wait_global", "queue"}]
    /\ kind \in [Ports -> {"send", "connect"}]
    /\ left \in [Ports -> Nat]
    /\ held \in [Ports -> Credits]
    /\ msg \in [Ports -> Credits]
    /\ wire \in [Ports -> Seq(Credits)]
    /\ ret \in [Ports -> Nat]
    /\ gret \in Nat
    /\ rxq \in [Ports -> Seq(Credits)]
    /\ used \in [Ports -> Nat]
    /\ toReturn \in [Ports -> Nat]
    /\ rdropped \in [Ports -> BOOLEAN]
    /\ {gused, greleasing, gtoReturn, gtotal, glost} \subseteq Nat
    /\ error \in BOOLEAN
    /\ usage \in [Ports -> {"active", "inhibiting", "inhibited"}]
    /\ allowed \in [Ports -> BOOLEAN] /\ swapping \in [Ports -> BOOLEAN] /\ sets \in Nat
    /\ {tasks, events, ctl} \subseteq [Ports -> Seq({"allow", "inhibit"})]
    /\ hand \in Seq([port : Ports, msg : Credits, tried : BOOLEAN]) /\ Len(hand) <= 1
    /\ inhibit \subseteq Ports
    /\ lost \in [Ports -> Nat]

\* Two correct endpoints never break the connection over flow control: neither
\* cancelled sends, nor dropped receivers, nor buffer size changes make one of the
\* credit checks in handle_received_msg fail.
NoProtocolError == ~error

\* The credits of each port behave like the pool of module PortCreditPool ...
PortPool(p, limit) == INSTANCE PortCreditPool WITH
    PortLimit <- limit,
    MayLose   <- TRUE,
    avail     <- store[p],
    assigned  <- held[p].port + msg[p].port,
    inflight  <- PortAmount(wire[p]),
    used      <- used[p],
    toReturn  <- toReturn[p],
    returning <- ret[p],
    lost      <- lost[p]

\* ... and implement it, for every port, through every operation of a sender, a
\* receiver and the two multiplexers.
ImplementsPortPools ==
    /\ \A p \in Ports, limit \in Limits :
         limit = PortLimit => PortPool(p, limit)!Init
    /\ [][\A p \in Ports, limit \in Limits :
            limit = PortLimit => PortPool(p, limit)!Next \/ UNCHANGED PortPool(p, limit)!vars]_vars

GlobalPool == INSTANCE GlobalCreditPool WITH
    MayLose   <- TRUE,
    avail     <- gstore,
    assigned  <- SumOver([p \in Ports |-> held[p].global + msg[p].global]),
    inflight  <- SumOver([p \in Ports |-> GlobalAmount(wire[p])]),
    used      <- gused,
    releasing <- greleasing,
    toReturn  <- gtoReturn,
    returning <- gret,
    lost      <- glost,
    total     <- gtotal

\* The global credits, wherever the ports keep them, implement the shared pool of
\* module GlobalCreditPool.
ImplementsGlobalPool == GlobalPool!Spec

\* Back pressure is not a deadlock: a send completes (or fails) as long as the
\* receiver keeps receiving, although credits come back in batches only, the global
\* credits are contended and the receiver may disappear.  Only port credits that an
\* earlier try_send or cancelled send has lost can prevent it.
SendCompletes == \A p \in Ports :
    []<>(pc[p] = "idle" \/ kind[p] = "connect" \/ lost[p] > 0)

\* A change of the permission that found the event channel full still waits for the next
\* receive operation, and the opposite change, decided later, has been queued before it.
Overtaken(p) == tasks[p] # <<>> /\ Last(tasks[p]) = "inhibit" /\ usage[p] # "inhibited"

\* Throttling and forbidding are temporary: as long as data flows, the application keeps
\* receiving and does not forbid it, the sender may use global credits again and again,
\* although two threads change the state of the port, and what they tell the sender takes
\* different ways.  Excepted is a port whose changes have overtaken each other.
GlobalCreditsReturn == \A p \in Ports :
    (<>[]allowed[p] /\ []<>(wire[p] # <<>>) /\ []~Overtaken(p)) => []<>useGlobal[p]

\* The same without the exception: when the application has allowed global credits again
\* they are allowed at once, or "the throttle takes over and will allow them once it drops"
\* (credit.rs:592).
AllowedAgain == \A p \in Ports :
    (<>[]allowed[p] /\ []<>(wire[p] # <<>>)) => []<>useGlobal[p]

\* "While disabled, the remote endpoint may only have as much data in-flight as the port
\* receive buffer allows." (receiver.rs:452): once everything that was sent to the sender
\* has arrived, it does without global credits.
DisallowedIsObeyed == \A p \in Ports :
    (ctl[p] = <<>> /\ events[p] = <<>> /\ tasks[p] = <<>> /\ ~swapping[p] /\ ~allowed[p])
        => ~useGlobal[p]

\* Sender::connect, "Sends port open requests over this port and returns the connect
\* requests" (sender.rs:524), completes under the same conditions.
ConnectCompletes == \A p \in Ports :
    (pc[p] # "idle" /\ kind[p] = "connect") ~> (pc[p] = "idle")

\* "Unused dropped credits are returned to the credit providers." (credit.rs:41):
\* when nothing is underway, all credits of a live port are with its sender or in
\* the receiver's next batch.
UnusedCreditsReturned == \A p \in Ports :
    (~rdropped[p] /\ pc[p] = "idle" /\ wire[p] = <<>> /\ rxq[p] = <<>> /\ ret[p] = 0)
        => store[p] + toReturn[p] = PortLimit

\* "Prefers global credits and fills up with port credits." (credit.rs:833, 868)
PrefersGlobal ==
    [][\A p \in Ports :
        (Request(p) /\ kind[p] = "send" /\ useGlobal[p] /\ store'[p] < store[p])
            => gstore' = 0]_vars
=============================================================================
