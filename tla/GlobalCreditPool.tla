-------------------------- MODULE GlobalCreditPool --------------------------
(***************************************************************************)
(* The life of the global flow-control credits that all ports of one       *)
(* direction of a connection share (src/remoc/src/chmux/credit.rs).  The   *)
(* buffer sizer of the receiving endpoint may change how many there are    *)
(* while they circulate.  Counts only; CreditFlow implements this module.  *)
(***************************************************************************)
EXTENDS Integers

CONSTANTS
    Sizes,        \* sizes the buffer sizer can ask for
    InitialSize,  \* BufferSizer::initial
    MayLose       \* whether a data message can be dropped before it is sent

\* return_to_remote asserts return_threshold <= size, so a sizer never asks for 0.  The
\* theorems assume this of the constants; CreditFlow, which implements this module,
\* has it among its assumptions.
SizesAssumption == Sizes \subseteq Nat \ {0} /\ InitialSize \in Sizes

VARIABLES
    avail,      \* credits in the sender's global SendableCreditStore
    assigned,   \* credits held by AssignedCredits or by a message not yet queued
    inflight,   \* credits of data messages between the two endpoints
    used,       \* GlobalCreditMonitor.used
    releasing,  \* credits between the two atomic updates of return_credits
    toReturn,   \* GlobalCreditMonitor.to_return
    returning,  \* credits of GlobalCredits messages
    lost,       \* credits of data messages that were dropped (history variable)
    total       \* GlobalCreditMonitor.total

vars == <<avail, assigned, inflight, used, releasing, toReturn, returning, lost, total>>

Init ==
    /\ avail = InitialSize
    /\ assigned = 0
    /\ inflight = 0
    /\ used = 0
    /\ releasing = 0
    /\ toReturn = 0
    /\ returning = 0
    /\ lost = 0
    /\ total = InitialSize

-----------------------------------------------------------------------------
(* Sending endpoint: as for the credits of a port. *)

Assign(n) ==
    /\ n \in 1..avail
    /\ avail' = avail - n
    /\ assigned' = assigned + n
    /\ UNCHANGED <<inflight, used, releasing, toReturn, returning, lost, total>>

Send(n) ==
    /\ n \in 1..assigned
    /\ assigned' = assigned - n
    /\ inflight' = inflight + n
    /\ UNCHANGED <<avail, used, releasing, toReturn, returning, lost, total>>

\* One of the sending operations ends early: u credits go back unused, l are lost.
Abandon(u, l) ==
    /\ u \in 0..assigned
    /\ l \in 0..(assigned - u)
    /\ l > 0 => MayLose
    /\ avail' = avail + u
    /\ assigned' = assigned - u - l
    /\ lost' = lost + l
    /\ UNCHANGED <<inflight, used, releasing, toReturn, returning, total>>

TrySend(s, l) ==
    /\ s \in 0..avail
    /\ l \in 0..(avail - s)
    /\ l > 0 => MayLose
    /\ avail' = avail - s - l
    /\ inflight' = inflight + s
    /\ lost' = lost + l
    /\ UNCHANGED <<assigned, used, releasing, toReturn, returning, total>>

\* CreditProvider::provide for a GlobalCredits message
Provide(n) ==
    /\ n \in 0..returning
    /\ avail' = avail + n
    /\ returning' = returning - n
    /\ UNCHANGED <<assigned, inflight, used, releasing, toReturn, lost, total>>

-----------------------------------------------------------------------------
(* Receiving endpoint. *)

\* GlobalCreditMonitor::use_credits
UseCredits(n) ==
    /\ n \in 1..inflight
    /\ inflight' = inflight - n
    /\ used' = used + n
    /\ UNCHANGED <<avail, assigned, releasing, toReturn, returning, lost, total>>

\* UsedGlobalCredit::drop, first half: the data has been received or discarded.
Release(n) ==
    /\ n \in 1..used
    /\ used' = used - n
    /\ releasing' = releasing + n
    /\ UNCHANGED <<avail, assigned, inflight, toReturn, returning, lost, total>>

\* Data for a port whose receiver is gone: use_credits, then drop.
Discard(n) ==
    /\ n \in 1..inflight
    /\ inflight' = inflight - n
    /\ releasing' = releasing + n
    /\ UNCHANGED <<avail, assigned, used, toReturn, returning, lost, total>>

\* UsedGlobalCredit::drop, second half
Collect(n) ==
    /\ n \in 1..releasing
    /\ releasing' = releasing - n
    /\ toReturn' = toReturn + n
    /\ UNCHANGED <<avail, assigned, inflight, used, returning, lost, total>>

SmallerOf(a, b) == IF a <= b THEN a ELSE b

\* Credits put into (or, if negative, taken out of) circulation for a target size.
Resize(target) ==
    IF target >= total THEN target - total ELSE -SmallerOf(total - target, toReturn)

\* GlobalCreditMonitor::return_to_remote
ReturnToRemote(target, threshold, force) ==
    LET delta == Resize(target)
        pool  == toReturn + delta
    IN  /\ total' = total + delta
        /\ IF delta # 0 \/ force \/ pool >= threshold
           THEN toReturn' = 0 /\ returning' = returning + pool
           ELSE toReturn' = pool /\ UNCHANGED returning
        /\ UNCHANGED <<avail, assigned, inflight, used, releasing, lost>>

-----------------------------------------------------------------------------

Next ==
    \/ \E n \in 1..total :
        \/ Assign(n) \/ Send(n) \/ UseCredits(n)
        \/ Release(n) \/ Discard(n) \/ Collect(n)
    \/ \E n \in 0..total : Provide(n)
    \/ \E u, l \in 0..total : Abandon(u, l)
    \/ \E s, l \in 0..total : TrySend(s, l)
    \/ \E target \in Sizes, force \in BOOLEAN :
        \E threshold \in 1..target : ReturnToRemote(target, threshold, force)

Spec == Init /\ [][Next]_vars

-----------------------------------------------------------------------------

TypeOK ==
    /\ total \in Nat
    /\ avail \in 0..total
    /\ assigned \in 0..total
    /\ inflight \in 0..total
    /\ used \in 0..total
    /\ releasing \in 0..total
    /\ toReturn \in 0..total
    /\ returning \in 0..total
    /\ lost \in 0..total

\* While the sizer grows and shrinks the buffer, the credits in all places still add
\* up to the size the receiving endpoint believes in.
Conservation ==
    avail + assigned + inflight + used + releasing + toReturn + returning + lost = total

\* Shrinking the buffer never turns data that is already underway into a protocol
\* error: the check in GlobalCreditMonitor::use_credits ("remote endpoint used too
\* many global flow credits") cannot fail for a correct sender.
NoOverrun == used + inflight <= total

IInv == TypeOK /\ Conservation
=============================================================================
