--------------------------- MODULE PortCreditPool ---------------------------
(***************************************************************************)
(* The life of the flow-control credits of one direction of one port       *)
(* (src/remoc/src/chmux/credit.rs).  A credit permits sending one byte.    *)
(* The module abstracts from messages and counts how many credits are in   *)
(* each place a credit can be; CreditFlow implements it for every port.    *)
(***************************************************************************)
EXTENDS Integers

CONSTANTS
    PortLimit,  \* port_receive_buffer of the receiving endpoint
    MayLose     \* whether a data message can be dropped before it is sent

\* cfg.rs checks port_receive_buffer >= 4.  The theorems assume it; CreditFlow, which
\* implements this module, also uses smaller buffers, whose credits stand for more bytes.
PortLimitAssumption == PortLimit \in Nat /\ PortLimit >= 4

VARIABLES
    avail,      \* credits in the sender's SendableCreditStore
    assigned,   \* credits held by AssignedCredits or by a message not yet queued
    inflight,   \* credits of data messages between the two endpoints
    used,       \* PortCreditMonitorInner.port_used
    toReturn,   \* PortCreditReturner.to_return
    returning,  \* credits of ReturnCredits events and PortCredits messages
    lost        \* credits of data messages that were dropped (history variable)

vars == <<avail, assigned, inflight, used, toReturn, returning, lost>>

\* Size of a port number on the wire, the least that a port request needs.
PortSize == 4

MaxOf(a, b) == IF a >= b THEN a ELSE b

\* Credits are returned in batches of at least this size.
ReturnThreshold ==
    LET quarter == MaxOf(PortLimit \div 4, 1)
    IN  IF PortLimit - quarter <= PortSize THEN 1 ELSE quarter

Init ==
    /\ avail = PortLimit
    /\ assigned = 0
    /\ inflight = 0
    /\ used = 0
    /\ toReturn = 0
    /\ returning = 0
    /\ lost = 0

-----------------------------------------------------------------------------
(* Sending endpoint. *)

\* SendableCreditStore::try_take_credits
Assign(n) ==
    /\ n \in 1..avail
    /\ avail' = avail - n
    /\ assigned' = assigned + n
    /\ UNCHANGED <<inflight, used, toReturn, returning, lost>>

\* A chunk is handed to the multiplexer.
Send(n) ==
    /\ n \in 1..assigned
    /\ assigned' = assigned - n
    /\ inflight' = inflight + n
    /\ UNCHANGED <<avail, used, toReturn, returning, lost>>

\* The send fails or is cancelled: AssignedCredits::drop gives the unused credits
\* back, but the l credits already taken for a message waiting for queue space are gone.
Abandon(l) ==
    /\ l \in 0..assigned
    /\ l > 0 => MayLose
    /\ avail' = avail + (assigned - l)
    /\ assigned' = 0
    /\ lost' = lost + l
    /\ UNCHANGED <<inflight, used, toReturn, returning>>

\* Sender::try_send: s credits are queued, l are lost with the chunk that found
\* the queue full, the others go back in the same step.
TrySend(s, l) ==
    /\ s \in 0..avail
    /\ l \in 0..(avail - s)
    /\ l > 0 => MayLose
    /\ avail' = avail - s - l
    /\ inflight' = inflight + s
    /\ lost' = lost + l
    /\ UNCHANGED <<assigned, used, toReturn, returning>>

\* CreditProvider::provide
Provide(n) ==
    /\ n \in 1..returning
    /\ avail' = avail + n
    /\ returning' = returning - n
    /\ UNCHANGED <<assigned, inflight, used, toReturn, lost>>

-----------------------------------------------------------------------------
(* Receiving endpoint. *)

\* PortCreditMonitor::use_credits
UseCredits(n) ==
    /\ n \in 1..inflight
    /\ inflight' = inflight - n
    /\ used' = used + n
    /\ UNCHANGED <<avail, assigned, toReturn, returning, lost>>

\* PortCreditReturner::start_return
StartReturn(n) ==
    /\ n \in 1..used
    /\ used' = used - n
    /\ IF toReturn + n >= ReturnThreshold
       THEN /\ returning' = returning + toReturn + n
            /\ toReturn' = 0
       ELSE /\ toReturn' = toReturn + n
            /\ UNCHANGED returning
    /\ UNCHANGED <<avail, assigned, inflight, lost>>

-----------------------------------------------------------------------------

Next ==
    \/ \E n \in 1..PortLimit :
        Assign(n) \/ Send(n) \/ Provide(n) \/ UseCredits(n) \/ StartReturn(n)
    \/ \E l \in 0..PortLimit : Abandon(l)
    \/ \E s, l \in 0..PortLimit : TrySend(s, l)

Spec == Init /\ [][Next]_vars

-----------------------------------------------------------------------------

\* Every place holds a number of credits that fits the buffer.
TypeOK ==
    /\ avail \in 0..PortLimit
    /\ assigned \in 0..PortLimit
    /\ inflight \in 0..PortLimit
    /\ used \in 0..PortLimit
    /\ toReturn \in 0..PortLimit
    /\ returning \in 0..PortLimit
    /\ lost \in 0..PortLimit

\* The credits of a port are neither duplicated nor forgotten: together with the
\* ones lost with dropped messages they always add up to the receive buffer.
Conservation ==
    avail + assigned + inflight + used + toReturn + returning + lost = PortLimit

\* The multiplexer accepts every data message that is underway: the limit check in
\* PortCreditMonitor::use_credits ("remote endpoint tried to use ... port flow
\* credits") never fails for a correct sender.
NoOverrun == used + inflight <= PortLimit

\* The returner never sits on a full batch.
BatchBound == toReturn < ReturnThreshold

\* Once the receiver has consumed everything, the sender has enough credits for any
\* kind of message again, the four bytes of a port request included: batching the
\* returned credits cannot starve it (comment in PortCreditReturner::start_return).
IdleCredits ==
    (assigned = 0 /\ inflight = 0 /\ used = 0 /\ returning = 0 /\ lost = 0)
        => avail >= PortSize

\* The inductive invariant.
IInv == TypeOK /\ Conservation /\ BatchBound
=============================================================================
