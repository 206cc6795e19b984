---------------------------- MODULE ConnectQueue ----------------------------
(***************************************************************************)
(* Connection requests of one endpoint (the client) to its peer (the       *)
(* server): the credits that limit them at the client, the reserved ports  *)
(* that back pre-connected requests at the server, and the ways in which   *)
(* the server's application answers (chmux/client.rs, Sender::connect,     *)
(* listener.rs, the OpenPort and PortData handlers of mux.rs).  Ports are  *)
(* allocated with the policy OnPortsExhausted::Wait.                       *)
(***************************************************************************)
EXTENDS Integers, FiniteSets

CONSTANTS
    Reqs,           \* requests; one that is closed is used again for a new request
    ConnectLimit,   \* connect_queue of the server
    MaxPorts,       \* max_ports of the server
    Ops             \* "open", "pre_open", "ports", "pre_ports" (client), "accept",
                    \* "cancel_accept", "inspect", "reject" (server), "close"

ASSUME ConnectQueueAssumption ==
    /\ IsFiniteSet(Reqs)
    /\ ConnectLimit \in Nat \ {0}
    /\ MaxPorts \in Nat
    /\ Ops \subseteq {"open", "pre_open", "ports", "pre_ports", "accept", "cancel_accept",
                      "inspect", "reject", "close"}

VARIABLES
    kind,        \* "none", "open" (Client::connect) or "ports" (Sender::connect)
    pre,         \* the request is pre-connected
    st,          \* progress of the request
    decision,    \* what the server's application decided
    credits,     \* connect_credits of the client
    outstanding, \* outstanding_remote_port_requests
    used,        \* requests with an allocated port at the server
    reserved,    \* PortAllocatorInner.reserved of the server
    pool,        \* length of pre_connect_port_pool
    acceptor,    \* Listener::accept: "idle", "reserved" or "second"
    accepting,   \* requests that Listener::accept has taken (at most one)
    error        \* the server failed with a protocol error

vars == <<kind, pre, st, decision, credits, outstanding, used, reserved, pool,
          acceptor, accepting, error>>
alloc == <<used, reserved, pool>>
listener == <<acceptor, accepting>>

Init ==
    /\ kind = [r \in Reqs |-> "none"]
    /\ pre = [r \in Reqs |-> FALSE]
    /\ st = [r \in Reqs |-> "idle"]
    /\ decision = [r \in Reqs |-> "none"]
    /\ credits = ConnectLimit
    /\ outstanding = {}
    /\ used = {}
    /\ reserved = ConnectLimit
    /\ pool = ConnectLimit
    /\ acceptor = "idle"
    /\ accepting = {}
    /\ error = FALSE

To(r, s) == st' = [st EXCEPT ![r] = s]

\* PortAllocatorInner::is_available at the server
Available == Cardinality(used) + reserved < MaxPorts + ConnectLimit

-----------------------------------------------------------------------------
(* Client *)

\* Mutant: requests over a port never need a credit.
NeedsCreditOpenOnly(k, p) == k = "open"

\* Only requests of Client::connect and pre-connected requests need a credit.
NeedsCredit(k, p) == k = "open" \/ p

Request(r, op, k, p) ==
    /\ op \in Ops
    /\ st[r] = "idle"
    /\ NeedsCredit(k, p) => credits > 0
    /\ credits' = IF NeedsCredit(k, p) THEN credits - 1 ELSE credits
    /\ kind' = [kind EXCEPT ![r] = k]
    /\ pre' = [pre EXCEPT ![r] = p]
    /\ To(r, "wire")
    /\ UNCHANGED <<decision, outstanding, alloc, listener, error>>

Connect(r) == Request(r, "open", "open", FALSE) \/ Request(r, "pre_open", "open", TRUE)
SendPorts(r) == Request(r, "ports", "ports", FALSE) \/ Request(r, "pre_ports", "ports", TRUE)

Forget(r) ==
    /\ To(r, "idle")
    /\ kind' = [kind EXCEPT ![r] = "none"]
    /\ pre' = [pre EXCEPT ![r] = FALSE]
    /\ decision' = [decision EXCEPT ![r] = "none"]

\* PortOpened or Rejected arrives and releases the credit.  The port of a rejected
\* pre-connected request still has to be closed.
Reply(r) ==
    /\ st[r] = "reply"
    /\ credits' = IF NeedsCredit(kind[r], pre[r]) THEN credits + 1 ELSE credits
    /\ IF decision[r] = "accept" \/ pre[r]
       THEN To(r, "open") /\ UNCHANGED <<kind, pre, decision>>
       ELSE Forget(r)
    /\ UNCHANGED <<outstanding, alloc, listener, error>>

\* Both endpoints have dropped the port.
Close(r) ==
    /\ "close" \in Ops
    /\ st[r] = "open"
    /\ Forget(r)
    /\ used' = used \ {r}
    /\ UNCHANGED <<credits, outstanding, reserved, pool, listener, error>>

-----------------------------------------------------------------------------
(* Server: multiplexer *)

\* OpenPort counts all outstanding requests, PortData none of them.
TooMany(r) == kind[r] = "open" /\ Cardinality(outstanding \cup {r}) > ConnectLimit

Receive(r) ==
    /\ ~error
    /\ st[r] = "wire"
    /\ outstanding' = outstanding \cup {r}
    /\ error' = (TooMany(r) \/ (pre[r] /\ pool = 0))
    /\ IF pre[r] /\ ~error'
       THEN /\ pool' = pool - 1
            /\ reserved' = reserved - 1
            /\ used' = used \cup {r}
       ELSE UNCHANGED alloc
    /\ To(r, IF kind[r] = "open" THEN "listening" ELSE "requested")
    /\ UNCHANGED <<kind, pre, decision, credits, listener>>

\* Accepted, AcceptedAfterPreConnect or Rejected event; the reservation that came
\* with it goes to the pool.
HandleAnswer(r) ==
    /\ ~error
    /\ st[r] = "deciding"
    /\ outstanding' = outstanding \ {r}
    /\ pool' = IF pre[r] THEN pool + 1 ELSE pool
    /\ To(r, "reply")
    /\ UNCHANGED <<kind, pre, decision, credits, used, reserved, listener, error>>

-----------------------------------------------------------------------------
(* Server: application *)

Decide(r, d) ==
    /\ decision' = [decision EXCEPT ![r] = d]
    /\ To(r, "deciding")

\* Listener::accept reserves a port before it looks for a request ...
AcceptReserve ==
    /\ "accept" \in Ops
    /\ acceptor = "idle" /\ Available
    /\ acceptor' = "reserved"
    /\ reserved' = reserved + 1
    /\ UNCHANGED <<kind, pre, st, decision, credits, outstanding, used, pool, accepting, error>>

\* ... and uses it for an ordinary request.  For a pre-connected one,
\* accept_pre_connected reserves a second port while the first is still held.
AcceptInspect(r) ==
    /\ acceptor = "reserved"
    /\ st[r] = "listening"
    /\ IF pre[r]
       THEN /\ acceptor' = "second"
            /\ accepting' = {r}
            /\ To(r, "accepting")
            /\ UNCHANGED <<decision, reserved, used>>
       ELSE /\ acceptor' = "idle"
            /\ reserved' = reserved - 1
            /\ used' = used \cup {r}
            /\ Decide(r, "accept")
            /\ UNCHANGED accepting
    /\ UNCHANGED <<kind, pre, credits, outstanding, pool, error>>

\* The second port goes with the event, then the first is released.
AcceptSecond(r) ==
    /\ acceptor = "second" /\ r \in accepting
    /\ Available
    /\ acceptor' = "idle"
    /\ accepting' = {}
    /\ Decide(r, "accept")
    /\ UNCHANGED <<kind, pre, credits, outstanding, alloc, error>>

\* The future of Listener::accept is dropped, and with it a request that it has taken.
CancelAccept ==
    /\ "cancel_accept" \in Ops
    /\ acceptor # "idle"
    /\ acceptor' = "idle"
    /\ accepting' = {}
    /\ reserved' = reserved - 1
    /\ st' = [r \in Reqs |-> IF r \in accepting THEN "rejecting" ELSE st[r]]
    /\ UNCHANGED <<kind, pre, decision, credits, outstanding, used, pool, error>>

\* Listener::inspect; requests of Sender::connect reach the application directly.
Inspect(r) ==
    /\ "inspect" \in Ops
    /\ st[r] = "listening"
    /\ To(r, "requested")
    /\ UNCHANGED <<kind, pre, decision, credits, outstanding, alloc, listener, error>>

\* Mutant: the port for a request is taken without waiting for one.
AcceptRequestUnchecked(r) ==
    /\ st[r] = "requested"
    /\ IF pre[r] THEN reserved' = reserved + 1 /\ UNCHANGED used
                 ELSE used' = used \cup {r} /\ UNCHANGED reserved
    /\ Decide(r, "accept")
    /\ UNCHANGED <<kind, pre, credits, outstanding, pool, listener, error>>

\* Request::accept
AcceptRequest(r) ==
    /\ st[r] = "requested"
    /\ Available
    /\ IF pre[r] THEN reserved' = reserved + 1 /\ UNCHANGED used
                 ELSE used' = used \cup {r} /\ UNCHANGED reserved
    /\ Decide(r, "accept")
    /\ UNCHANGED <<kind, pre, credits, outstanding, pool, listener, error>>

\* Request::reject or drop; that of a pre-connected request first replaces the port.
RejectRequest(r) ==
    /\ "reject" \in Ops
    /\ st[r] = "requested"
    /\ IF pre[r] THEN To(r, "rejecting") /\ UNCHANGED decision ELSE Decide(r, "reject")
    /\ UNCHANGED <<kind, pre, credits, outstanding, alloc, listener, error>>

RejectReserve(r) ==
    /\ st[r] = "rejecting"
    /\ Available
    /\ reserved' = reserved + 1
    /\ Decide(r, "reject")
    /\ UNCHANGED <<kind, pre, credits, outstanding, used, pool, listener, error>>

-----------------------------------------------------------------------------

Next ==
    \/ AcceptReserve \/ CancelAccept
    \/ \E r \in Reqs :
        \/ Connect(r) \/ SendPorts(r) \/ Reply(r) \/ Close(r)
        \/ Receive(r) \/ HandleAnswer(r)
        \/ AcceptInspect(r) \/ AcceptSecond(r) \/ Inspect(r)
        \/ AcceptRequest(r) \/ RejectRequest(r) \/ RejectReserve(r)

Spec == Init /\ [][Next]_vars

(***************************************************************************)
(* Fairness.  The multiplexers run, and the server's application keeps     *)
(* awaiting accept and answers the requests that it holds.                 *)
(***************************************************************************)
Fairness ==
    /\ WF_vars(AcceptReserve)
    /\ \A r \in Reqs :
        /\ WF_vars(Receive(r)) /\ WF_vars(HandleAnswer(r)) /\ WF_vars(Reply(r))
        /\ SF_vars(AcceptInspect(r)) /\ SF_vars(AcceptSecond(r))

FairSpec == Spec /\ Fairness

-----------------------------------------------------------------------------
(* Properties. *)

TypeOK ==
    /\ kind \in [Reqs -> {"none", "open", "ports"}]
    /\ pre \in [Reqs -> BOOLEAN]
    /\ st \in [Reqs -> {"idle", "wire", "listening", "requested", "accepting", "rejecting",
                        "deciding", "reply", "open"}]
    /\ decision \in [Reqs -> {"none", "accept", "reject"}]
    /\ credits \in 0..ConnectLimit
    /\ outstanding \subseteq Reqs
    /\ used \subseteq Reqs
    /\ reserved \in 0..(MaxPorts + ConnectLimit)
    /\ pool \in 0..ConnectLimit
    /\ acceptor \in {"idle", "reserved", "second"}
    /\ accepting \subseteq Reqs
    /\ error \in BOOLEAN

\* "The maximum number of unanswered connection requests is specified in the
\* configuration. If this number is reached, the remote endpoint will not send any
\* more connection requests." (listener.rs:438): the client's credits keep it within
\* what the server checks, so that no request ends the connection.
NoConnectOverrun == ~error

\* What the credits do guarantee: only ordinary requests over ports, which need no
\* credit, can make a request of Client::connect a protocol error at the server.  In
\* particular the pool of reserved ports never runs out.
OverrunNeedsPortRequests ==
    error => \E r \in outstanding : kind[r] = "ports" /\ ~pre[r]

\* Requests that hold a port of the pool, or are about to return one to it.
FromPool == {r \in Reqs : pre[r] /\ st[r] \in
                {"listening", "requested", "accepting", "rejecting", "deciding"}}

\* "Maximum number of open ports." (cfg.rs:117): although every pre-connected
\* request takes a port before it is accepted, and replaces it by another one, at
\* most max_ports ports are open beyond those that unanswered requests hold.
OpenPortsBounded ==
    ~error => /\ Cardinality(used) + reserved <= MaxPorts + ConnectLimit
              /\ Cardinality(used \ FromPool) <= MaxPorts

\* The pool of reserved ports covers every pre-connected request that the client
\* has credits for or has underway.
PoolCoversCredits ==
    ~error => pool >= credits + Cardinality({r \in Reqs : pre[r] /\ st[r] = "wire"})

\* As long as fewer than max_ports ports are open, Listener::accept accepts the
\* requests it waits for ("Maximum number of open ports.", cfg.rs:117).
AcceptsUpToMaxPorts ==
    (acceptor = "second" /\ Cardinality(used \ FromPool) < MaxPorts)
        ~> (acceptor = "idle" \/ Cardinality(used \ FromPool) >= MaxPorts)
=============================================================================
