------------------------- MODULE MCPortLifecycle ---------------------------
(* Model checking of PortLifecycle: what the applications at the two ends do. *)
EXTENDS PortLifecycle

Drop == {"drop_sender", "drop_receiver"}
Does(ops, senders) == [ops |-> ops, senders |-> senders, oneWay |-> FALSE]

\* An ordinary port is answered in every way, used and dropped.
Plain == Does(Drop \cup {"connect", "accept", "reject", "drop_request", "send"}, {"s"})
\* Receivers are closed, before they are dropped or while data arrives.
Closed == Does({"connect", "accept", "close", "drop_receiver"}, {})
ClosedEarly == Does({"connect", "accept", "send", "close", "drop_sender"}, {"c"})
\* A pre-connected port is answered, and used before the client knows of it.
Pre == Does(Drop \cup {"pre_connect", "accept", "reject"}, {})
PreData == Does({"pre_connect", "accept", "reject", "send", "drop_sender"}, {"s"})
\* Tentative accepts that are revoked, and requests that are dropped.
Revoked == Does(Drop \cup {"pre_connect", "tentative", "reject_late"}, {})
Unanswered == Does(Drop \cup {"pre_connect", "drop_pre_request"}, {})
UnansweredData == Does({"pre_connect", "drop_pre_request", "send", "drop_sender"}, {"c"})
\* Reports about what was received.
Reported == Does(Drop \cup {"connect", "accept", "all_received"}, {"c"})
ReportedData == Does({"pre_connect", "accept", "all_received", "send", "drop_sender"}, {"c"})

\* One end connects and the other listens, until a port is dropped with the Clients, or
\* Clients and Listener are dropped while a request is on its way.
OneWay(ops, senders) == [ops |-> ops, senders |-> senders, oneWay |-> TRUE]
Leave == {"drop_clients", "drop_listener"}
Left == OneWay(Drop \cup {"connect", "accept", "drop_clients"}, {})
LeftEarly == OneWay(Leave \cup {"connect", "pre_connect", "accept"}, {})
LeftIdle == Does(Leave, {})
\* The connection is terminated by either end, or lost.
Terminated == OneWay({"connect", "accept", "send", "drop_sender", "terminate"}, {"c"})
Lost == OneWay({"connect", "pre_connect", "accept", "send", "all_received", "lose"}, {"c"})

AllSetups ==
    {Plain, Closed, ClosedEarly, Pre, PreData, Revoked, Unanswered, UnansweredData,
     Reported, ReportedData, Left, LeftEarly, LeftIdle, Terminated, Lost}
=============================================================================
