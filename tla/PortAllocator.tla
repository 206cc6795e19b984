--------------------------- MODULE PortAllocator ---------------------------
(***************************************************************************)
(* The port number allocator of an endpoint (chmux/port_allocator.rs):     *)
(* numbers of ports opened locally, numbers that the remote endpoint       *)
(* chose, anonymous reservations, and the quarantine that keeps a number   *)
(* from being used again too early.                                        *)
(***************************************************************************)
EXTENDS Integers, Sequences, FiniteSets

CONSTANTS
    Limit,     \* port limit: max_ports + connect_queue
    PreLimit,  \* PRE_ALLOCATED_LIMIT
    Modulus    \* port numbers wrap at this value, 2^32 in the code

\* Cfg::check limits max_ports to 2^30, so with 131072 pre-allocated numbers this holds
\* for the code's constants.
ASSUME PortAllocatorAssumption ==
    /\ Limit \in Nat /\ PreLimit \in Nat /\ Modulus \in Nat
    /\ 2 * Limit + PreLimit + 1 < Modulus

Numbers == 0..(Modulus - 1)

VARIABLES
    localUsed,     \* local_used
    preAllocated,  \* local_pre_allocated
    remoteUsed,    \* remote_used
    reserved,      \* reserved
    quarantine,    \* quarantined_list; quarantined_set is the set of its elements
    next,          \* next
    panicked,      \* an unwrap in the allocator failed
    age            \* history: local ports closed since this number was closed

vars == <<localUsed, preAllocated, remoteUsed, reserved, quarantine, next, panicked, age>>

Quarantined == {quarantine[i] : i \in 1..Len(quarantine)}

Init ==
    /\ localUsed = {}
    /\ preAllocated = {}
    /\ remoteUsed = {}
    /\ reserved = 0
    /\ quarantine = <<>>
    /\ next = 0
    /\ panicked = FALSE
    /\ age = [n \in Numbers |-> Limit + 1]

\* is_available, when res ports are reserved
Available(res) == Cardinality(localUsed) + Cardinality(remoteUsed) + res < Limit

Taken(n) == n \in localUsed \/ n \in preAllocated \/ n \in Quarantined

\* The first number after next, wrapping around, that is not taken.
IsNextFree(n) ==
    /\ ~Taken(n)
    /\ \A k \in Numbers :
        /\ next < n => ~(next < k /\ k < n) \/ Taken(k)
        /\ n <= next => ~(next < k \/ k < n) \/ Taken(k)

\* try_pre_allocate_local
PreAllocate ==
    /\ Cardinality(preAllocated) < PreLimit
    /\ \E n \in Numbers :
        /\ IsNextFree(n)
        /\ next' = n
        /\ preAllocated' = preAllocated \cup {n}
    /\ UNCHANGED <<localUsed, remoteUsed, reserved, quarantine, panicked, age>>

\* try_allocate_pre_allocated, also when it is retried after a notification
AllocatePreAllocated(n) ==
    /\ n \in preAllocated
    /\ Available(reserved)
    /\ n \notin localUsed /\ n \notin Quarantined
    /\ localUsed' = localUsed \cup {n}
    /\ preAllocated' = preAllocated \ {n}
    /\ UNCHANGED <<remoteUsed, reserved, quarantine, next, panicked, age>>

\* PreAllocatedLocalPort::drop
DropPreAllocated(n) ==
    /\ n \in preAllocated
    /\ preAllocated' = preAllocated \ {n}
    /\ UNCHANGED <<localUsed, remoteUsed, reserved, quarantine, next, panicked, age>>

\* try_reserve, also from wait_reserve
Reserve ==
    /\ Available(reserved)
    /\ reserved' = reserved + 1
    /\ UNCHANGED <<localUsed, preAllocated, remoteUsed, quarantine, next, panicked, age>>

\* ReservedPort::drop
DropReserved ==
    /\ reserved > 0
    /\ reserved' = reserved - 1
    /\ UNCHANGED <<localUsed, preAllocated, remoteUsed, quarantine, next, panicked, age>>

\* ReservedPort::into_local unwraps the result of try_allocate_local.
IntoLocal ==
    /\ reserved > 0
    /\ reserved' = reserved - 1
    /\ panicked' = (panicked \/ ~Available(reserved - 1))
    /\ \E n \in Numbers :
        /\ IsNextFree(n)
        /\ next' = n
        /\ localUsed' = localUsed \cup {n}
    /\ UNCHANGED <<preAllocated, remoteUsed, quarantine, age>>

\* Mutant: the number is allocated before the reservation is released.
IntoRemoteTooEarly(n) ==
    /\ reserved > 0
    /\ reserved' = reserved - 1
    /\ panicked' = (panicked \/ ~Available(reserved))
    /\ remoteUsed' = remoteUsed \cup {n}
    /\ UNCHANGED <<localUsed, preAllocated, quarantine, next, age>>

\* ReservedPort::into_remote unwraps the result of try_allocate_remote; a number that
\* is in use is a protocol error of the remote endpoint.
IntoRemote(n) ==
    /\ reserved > 0
    /\ reserved' = reserved - 1
    /\ panicked' = (panicked \/ ~Available(reserved - 1))
    /\ remoteUsed' = remoteUsed \cup {n}
    /\ UNCHANGED <<localUsed, preAllocated, quarantine, next, age>>

\* The history variable when number n is closed.
Aged(n) ==
    [m \in Numbers |-> IF m = n THEN 0 ELSE IF age[m] <= Limit THEN age[m] + 1 ELSE age[m]]

\* Mutant: the quarantine is one shorter.
DropLocalShortQuarantine(n) ==
    /\ n \in localUsed
    /\ localUsed' = localUsed \ {n}
    /\ LET q == Append(quarantine, n)
       IN  quarantine' = IF Len(q) > Limit THEN Tail(q) ELSE q
    /\ age' = Aged(n)
    /\ UNCHANGED <<preAllocated, remoteUsed, reserved, next, panicked>>

\* Mutant: the quarantine is never shortened.
DropLocalEndlessQuarantine(n) ==
    /\ n \in localUsed
    /\ localUsed' = localUsed \ {n}
    /\ quarantine' = Append(quarantine, n)
    /\ age' = Aged(n)
    /\ UNCHANGED <<preAllocated, remoteUsed, reserved, next, panicked>>

\* AllocatedLocalPort::drop
DropLocal(n) ==
    /\ n \in localUsed
    /\ localUsed' = localUsed \ {n}
    /\ LET q == Append(quarantine, n)
       IN  quarantine' = IF Len(q) > Limit + 1 THEN Tail(q) ELSE q
    /\ age' = Aged(n)
    /\ UNCHANGED <<preAllocated, remoteUsed, reserved, next, panicked>>

\* AllocatedRemotePort::drop
DropRemote(n) ==
    /\ n \in remoteUsed
    /\ remoteUsed' = remoteUsed \ {n}
    /\ UNCHANGED <<localUsed, preAllocated, reserved, quarantine, next, panicked, age>>

Next ==
    \/ PreAllocate \/ Reserve \/ DropReserved \/ IntoLocal
    \/ \E n \in Numbers :
        \/ AllocatePreAllocated(n) \/ DropPreAllocated(n) \/ IntoRemote(n)
        \/ DropLocal(n) \/ DropRemote(n)

Spec == Init /\ [][Next]_vars

-----------------------------------------------------------------------------
(* Properties. *)

TypeOK ==
    /\ localUsed \subseteq Numbers
    /\ preAllocated \subseteq Numbers
    /\ remoteUsed \subseteq Numbers
    /\ reserved \in Nat
    /\ quarantine \in Seq(Numbers)
    /\ next \in Numbers
    /\ panicked \in BOOLEAN
    /\ age \in [Numbers -> 0..(Limit + 1)]

\* Ports and reservations together never exceed the limit, however reservations are
\* turned into ports of either side (is_available).
WithinLimit == Cardinality(localUsed) + Cardinality(remoteUsed) + reserved <= Limit

\* A reservation can always be turned into a port: the unwraps in into_local and
\* into_remote do not fail.
ReservationsHold == ~panicked

\* A local number has one owner: it is in use, pre-allocated, or resting in the
\* quarantine (once), never two of these.
OneOwner ==
    /\ localUsed \cap preAllocated = {}
    /\ localUsed \cap Quarantined = {}
    /\ preAllocated \cap Quarantined = {}
    /\ \A i, j \in 1..Len(quarantine) : i # j => quarantine[i] # quarantine[j]

\* The loops in try_allocate_local and try_pre_allocate_local find a number.
NumberAvailable == \E n \in Numbers : ~Taken(n)

\* A number that was closed is not given out again before limit + 1 further local
\* ports have been closed, so late messages for the old port cannot reach a new one.
NoEarlyReuse == \A n \in localUsed \cup preAllocated : age[n] = Limit + 1

QuarantineBounded == Len(quarantine) <= Limit + 1
PreAllocatedBounded == Cardinality(preAllocated) <= PreLimit

\* The quarantine holds exactly the most recently closed numbers, in order.
QuarantineAges ==
    /\ \A i \in 1..Len(quarantine) : age[quarantine[i]] = Len(quarantine) - i
    /\ \A n \in Numbers : n \notin Quarantined => age[n] = Limit + 1

\* Inductive invariant
IInv ==
    /\ TypeOK /\ WithinLimit /\ ReservationsHold /\ OneOwner
    /\ QuarantineBounded /\ PreAllocatedBounded /\ QuarantineAges
=============================================================================
