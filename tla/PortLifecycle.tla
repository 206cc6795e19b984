--------------------------- MODULE PortLifecycle ---------------------------
(***************************************************************************)
(* The life of one chmux port: it is opened by the client endpoint "c",    *)
(* accepted or rejected by the listener of endpoint "s", used in both      *)
(* directions, closed, and removed from the port tables of both            *)
(* multiplexers (chmux/mux.rs, client.rs, listener.rs, sender.rs and       *)
(* receiver.rs), and the end of the connection.                            *)
(*                                                                         *)
(* Each endpoint has two event channels from the application to its        *)
(* multiplexer (ev and, with priority, hp), two queues from there to the   *)
(* send task (nq and, with priority, hpq) and one ordered transport (net). *)
(* Dropped handles report through spawned tasks, whose order is arbitrary. *)
(***************************************************************************)
EXTENDS Integers, Sequences, FiniteSets, SequencesExt

CONSTANTS
    Setups,    \* ops: what the applications do, see AllOps; senders: ends whose
               \* application sends data and asks for reports; oneWay: only "c" opens ports
    EvCap,     \* shared_send_queue: capacity of an event channel
    NqCap,     \* transport_send_queue
    HpCap,     \* 8 in the code; smaller when other ports keep the queue busy
    NetCap,    \* messages on the transport
    MaxData    \* data messages per sender

AllOps == {"connect", "pre_connect", "accept", "tentative", "reject", "drop_request",
           "drop_pre_request", "reject_late", "send", "close", "drop_sender", "drop_receiver", "all_received",
           "drop_clients", "drop_listener", "terminate", "lose"}

ASSUME PortLifecycleAssumption ==
    /\ \A s \in Setups : s.ops \subseteq AllOps /\ s.senders \subseteq {"c", "s"} /\ s.oneWay \in BOOLEAN
    /\ {EvCap, NqCap, HpCap, NetCap} \subseteq Nat \ {0}
    /\ MaxData \in Nat

Ends == {"c", "s"}
Other(e) == IF e = "c" THEN "s" ELSE "c"

VARIABLES
    setup,
    \* application
    client,   \* connect request: "none", "plain", "pre" (queued), "sent" or "failed"
    request,  \* Request at the listener: "none", "plain", "pre", "accepting" or "done"
    guard,    \* AcceptGuard: "none", "held" or "done"
    tx, rx,   \* Sender and Receiver of each end: "none", "request", "live" or "dropped"
    report,   \* AllReceived future: "none", "created", "posted", "waiting" or "done"
    closing,  \* Receiver.closed
    mark,     \* history: data messages sent when the AllReceived future was created
    sent, got,\* data messages handed to the sender, obtained from the receiver
    finished, \* the receiver has reported the end of the channel: "no", "end", "rejected", or
              \* "lost" when the connection is gone
    \* between application and multiplexer
    spawned,  \* drop tasks that have not sent their event yet
    ev, hp,   \* channel_rx and high_priority_channel_rx
    rq,       \* receiver_rx_data
    \* multiplexer
    port,     \* entry in the port table: "none", "connecting", "connected" or "freed"
    flags,    \* what has happened to the entry, see AllFlags
    pre,      \* PreConnectState: "no", "pre_connected", "accepted" or "rejected"
    outstanding, \* the port is in outstanding_remote_port_requests of "s"
    polled,   \* the high priority branch of the select has been found not ready
    fail,     \* "no", "panic" or "protocol": why a multiplexer failed
    \* connection
    clients,  \* Clients of each end: "live", "dropped", or "told" to the other end
    listener, \* its Listener, likewise
    gone,     \* remote_client_dropped and remote_listener_dropped
    bye,      \* progress of the goodbye, see AllByes
    run,      \* ChMux::run: "yes" while it runs, then its result, "ok" or "lost"
    link,     \* FALSE when the transport has failed
    \* transport
    nq, hpq, net

connVars  == <<clients, listener, gone, bye, run, link>>
handleVars == <<setup, client, request, guard, tx, rx, report, closing, mark, sent, got, finished>>
appVars   == <<handleVars, connVars>>
chanVars  == <<spawned, ev, hp, rq>>
muxVars   == <<port, flags, pre, outstanding, polled, fail>>
netVars   == <<nq, hpq, net>>
vars      == <<appVars, chanVars, muxVars, netVars>>

AllFlags == {"sender_dropped", "receiver_closed", "receiver_dropped", "send_finished",
             "remote_closed", "remote_dropped"}
\* Termination was asked for locally, goodbye_sent, send_task_ended, goodbye_received.
AllByes == {"asked", "sent", "flushed", "received"}

\* In a one-way connection only "c" has Clients and "s" a Listener; the others have been
\* dropped.
Init ==
    /\ setup \in Setups
    /\ clients = [e \in Ends |-> IF setup.oneWay /\ e = "s" THEN "told" ELSE "live"]
    /\ listener = [e \in Ends |-> IF setup.oneWay /\ e = "c" THEN "told" ELSE "live"]
    /\ gone = [e \in Ends |-> IF ~setup.oneWay THEN {} ELSE IF e = "c" THEN {"clients"} ELSE {"listener"}]
    /\ bye = [e \in Ends |-> {}] /\ run = [e \in Ends |-> "yes"] /\ link = TRUE
    /\ client = "none" /\ request = "none" /\ guard = "none"
    /\ tx = [e \in Ends |-> "none"] /\ rx = [e \in Ends |-> "none"]
    /\ report = [e \in Ends |-> "none"]
    /\ closing = [e \in Ends |-> FALSE]
    /\ mark = [e \in Ends |-> 0]
    /\ sent = [e \in Ends |-> 0] /\ got = [e \in Ends |-> 0]
    /\ finished = [e \in Ends |-> "no"]
    /\ spawned = [e \in Ends |-> {}]
    /\ ev = [e \in Ends |-> <<>>] /\ hp = [e \in Ends |-> <<>>] /\ rq = [e \in Ends |-> <<>>]
    /\ port = [e \in Ends |-> "none"] /\ flags = [e \in Ends |-> {}]
    /\ pre = "no" /\ outstanding = FALSE
    /\ polled = [e \in Ends |-> FALSE] /\ fail = "no"
    /\ nq = [e \in Ends |-> <<>>] /\ hpq = [e \in Ends |-> <<>>] /\ net = [e \in Ends |-> <<>>]

Ops == setup.ops
\* The multiplexer of e has not returned.
Running(e) == fail = "no" /\ run[e] = "yes"
At(f, e, v) == [f EXCEPT ![e] = v]
Push(q, e, m) == [q EXCEPT ![e] = Append(@, m)]

-----------------------------------------------------------------------------
(* Application of the client: Client::connect. *)

Connect(kind) ==
    /\ Running("c")
    /\ client = "none" /\ clients["c"] = "live"
    /\ (IF kind = "pre" THEN "pre_connect" ELSE "connect") \in Ops
    /\ client' = kind
    /\ UNCHANGED <<setup, connVars, request, guard, tx, rx, report, closing, mark, sent, got, finished,
                   chanVars, muxVars, netVars>>

-----------------------------------------------------------------------------
(* Application of the listener: Request and AcceptGuard.  All of these events go to *)
(* the high priority channel.                                                       *)

Answer(e, event, answers) ==
    /\ Running(e)
    /\ Len(hp[e]) < EvCap
    /\ hp' = Push(hp, e, event)
    /\ request' = answers
    /\ UNCHANGED <<setup, connVars, client, report, closing, mark, sent, got, finished, ev, rq, muxVars, netVars>>

\* Request::accept of an ordinary request, answered by the multiplexer with the port.
AcceptPlain ==
    /\ "accept" \in Ops /\ request = "plain"
    /\ Answer("s", "Accepted", "accepting")
    /\ UNCHANGED <<guard, tx, rx, spawned>>

\* Request::accept_pre_connected and Request::accept_tentatively
AcceptPre(g) ==
    /\ (IF g = "held" THEN "tentative" ELSE "accept") \in Ops
    /\ request = "pre"
    /\ Answer("s", "AcceptedAfterPreConnect", "done")
    /\ guard' = g
    /\ tx' = At(tx, "s", "live") /\ rx' = At(rx, "s", "live")
    /\ UNCHANGED spawned

Drops == {"SenderDropped", "ReceiverDropped"}

\* The port that a pre-connected request carries is dropped with the request.
DropRequestedPort(tasks) ==
    IF request = "pre"
    THEN /\ tx' = At(tx, "s", "dropped") /\ rx' = At(rx, "s", "dropped")
         /\ spawned' = [spawned EXCEPT !["s"] = @ \cup Drops \cup tasks]
    ELSE /\ spawned' = [spawned EXCEPT !["s"] = @ \cup tasks]
         /\ UNCHANGED <<tx, rx>>

\* Mutant: the rejection is never sent.
RejectSilently ==
    /\ Running("s")
    /\ "reject" \in Ops /\ request \in {"plain", "pre"}
    /\ request' = "done"
    /\ DropRequestedPort({})
    /\ UNCHANGED <<setup, connVars, client, guard, report, closing, mark, sent, got, finished, ev, hp, rq, muxVars, netVars>>

\* Request::reject: the rejection is in the channel before the request is dropped.
Reject ==
    /\ "reject" \in Ops /\ request \in {"plain", "pre"}
    /\ Answer("s", "Rejected", "done")
    /\ DropRequestedPort({})
    /\ UNCHANGED guard

\* Request::drop leaves the rejection to a spawned task.  Requests that wait in the queue of
\* the Listener are dropped with it.
DropRequest ==
    /\ Running("s")
    /\ \/ "drop_request" \in Ops /\ request = "plain"
       \/ "drop_pre_request" \in Ops /\ request = "pre"
       \/ listener["s"] # "live" /\ request \in {"plain", "pre"}
    /\ request' = "done"
    /\ DropRequestedPort({"Rejected"})
    /\ UNCHANGED <<setup, connVars, client, guard, report, closing, mark, sent, got, finished, ev, hp, rq, muxVars, netVars>>

\* AcceptGuard::reject.  Forwarding calls it while it still owns the sender; nothing
\* enforces this ("reject_late").
RejectGuard ==
    /\ guard = "held"
    /\ tx["s"] = "live" \/ "reject_late" \in Ops
    /\ Answer("s", "RejectedAfterAccept", request)
    /\ guard' = "done"
    /\ UNCHANGED <<tx, rx, spawned>>

\* AcceptGuard::accept or its drop
ConfirmGuard ==
    /\ Running("s")
    /\ guard = "held"
    /\ guard' = "done"
    /\ UNCHANGED <<setup, connVars, client, request, tx, rx, report, closing, mark, sent, got, finished,
                   chanVars, muxVars, netVars>>

-----------------------------------------------------------------------------
(* Applications of both ends: Sender and Receiver. *)

AppPost(e, event) ==
    /\ Running(e)
    /\ Len(ev[e]) < EvCap
    /\ ev' = Push(ev, e, event)
    /\ UNCHANGED <<setup, connVars, client, request, guard, tx, rx, got, finished, spawned, hp, rq, muxVars, netVars>>

Sendable(e) == flags[e] \cap {"remote_closed", "remote_dropped"} = {}

\* Sender::send of one chunk
SendData(e) ==
    /\ "send" \in Ops /\ e \in setup.senders /\ tx[e] = "live" /\ sent[e] < MaxData /\ Sendable(e)
    /\ AppPost(e, "SendData")
    /\ sent' = At(sent, e, sent[e] + 1)
    /\ UNCHANGED <<report, closing, mark>>

\* Receiver::close
CloseReceiver(e) ==
    /\ "close" \in Ops /\ rx[e] = "live" /\ ~closing[e]
    /\ AppPost(e, "ReceiverClosed")
    /\ closing' = At(closing, e, TRUE)
    /\ UNCHANGED <<report, mark, sent>>

\* Sender::all_received creates a future, which does not borrow the sender ...
AllReceived(e) ==
    /\ Running(e)
    /\ "all_received" \in Ops /\ e \in setup.senders /\ tx[e] = "live" /\ report[e] = "none"
    /\ report' = At(report, e, IF Sendable(e) THEN "created" ELSE "done")
    /\ mark' = At(mark, e, sent[e])
    /\ UNCHANGED <<setup, connVars, client, request, guard, tx, rx, closing, sent, got, finished,
                   chanVars, muxVars, netVars>>

\* ... and sends its request when it is polled.
PostReport(e) ==
    /\ report[e] = "created"
    /\ AppPost(e, "RequestReceivedReport")
    /\ report' = At(report, e, "posted")
    /\ UNCHANGED <<closing, mark, sent>>

\* Sender::drop
DropSender(e) ==
    /\ Running(e)
    /\ "drop_sender" \in Ops /\ tx[e] = "live"
    /\ tx' = At(tx, e, "dropped")
    /\ spawned' = [spawned EXCEPT ![e] = @ \cup {"SenderDropped"}]
    /\ UNCHANGED <<setup, connVars, client, request, guard, rx, report, closing, mark, sent, got, finished,
                   ev, hp, rq, muxVars, netVars>>

\* Receiver::drop
DropReceiver(e) ==
    /\ Running(e)
    /\ "drop_receiver" \in Ops /\ rx[e] = "live"
    /\ rx' = At(rx, e, "dropped")
    /\ rq' = At(rq, e, <<>>)
    /\ spawned' = [spawned EXCEPT ![e] = @ \cup {"ReceiverDropped"}]
    /\ UNCHANGED <<setup, connVars, client, request, guard, tx, report, closing, mark, sent, got, finished,
                   ev, hp, muxVars, netVars>>

\* A task spawned by a drop gets a slot in its channel.
PostDrop(e, event) ==
    /\ Running(e)
    /\ event \in spawned[e]
    /\ spawned' = [spawned EXCEPT ![e] = @ \ {event}]
    /\ \/ /\ event \in Drops /\ Len(ev[e]) < EvCap
          /\ ev' = Push(ev, e, event) /\ UNCHANGED hp
       \/ /\ event = "Rejected" /\ Len(hp[e]) < EvCap
          /\ hp' = Push(hp, e, event) /\ UNCHANGED ev
    /\ UNCHANGED <<appVars, rq, muxVars, netVars>>

\* Receiver::recv_any takes a message.  A receiver of a pre-connected port waits for
\* the decision first, and looks at it again when the channel ends.
Recv(e) ==
    /\ fail = "no"
    /\ rx[e] = "live" /\ rq[e] # <<>> /\ finished[e] = "no"
    /\ e = "c" => pre \in {"no", "accepted"}
    /\ rq' = At(rq, e, Tail(rq[e]))
    /\ \/ /\ Head(rq[e]) = "Data"
          /\ got' = At(got, e, got[e] + 1)
          /\ UNCHANGED <<finished, hp>>
       \/ /\ Head(rq[e]) = "ReportRequest"
          /\ IF Running(e) THEN Len(hp[e]) < EvCap /\ hp' = Push(hp, e, "ReceivedReport")
                           ELSE UNCHANGED hp
          /\ UNCHANGED <<finished, got>>
       \/ /\ Head(rq[e]) = "Finished"
          /\ finished' = At(finished, e, "end")
          /\ UNCHANGED <<got, hp>>
    /\ UNCHANGED <<setup, connVars, client, request, guard, tx, rx, report, closing, mark, sent, spawned, ev, muxVars, netVars>>

\* Receiver::wait_pre_connect_done or pre_connect_rejected reports the rejection.
RecvRejected ==
    /\ fail = "no"
    /\ rx["c"] = "live" /\ finished["c"] = "no" /\ pre = "rejected"
    /\ finished' = At(finished, "c", "rejected")
    /\ UNCHANGED <<setup, connVars, client, request, guard, tx, rx, report, closing, mark, sent, got,
                   chanVars, muxVars, netVars>>

-----------------------------------------------------------------------------
(* Multiplexer: port table. *)

\* Mutant: a closed receiver is taken for one that is gone.
FreeableAfterClose == {"sender_dropped", "receiver_dropped", "receiver_closed", "send_finished"}

\* maybe_free_port
FreeableFlags == {"sender_dropped", "receiver_dropped", "send_finished", "remote_dropped"}

\* The entry of e gets the flags F; pending reports are resolved when it is freed.
SetFlags(e, F) ==
    LET freed == FreeableFlags \subseteq F
    IN  /\ flags' = At(flags, e, F)
        /\ port' = At(port, e, IF freed THEN "freed" ELSE port[e])
        /\ report' = [report EXCEPT ![e] =
              IF @ = "waiting" /\ (freed \/ "remote_dropped" \in F \ flags[e]) THEN "done" ELSE @]

\* create_port
CreatePort(e, handles) ==
    /\ port' = At(port, e, "connected")
    /\ tx' = At(tx, e, handles) /\ rx' = At(rx, e, handles)

Fail(reason) ==
    /\ fail' = reason
    /\ UNCHANGED <<appVars, spawned, rq, port, flags, pre, outstanding>>

-----------------------------------------------------------------------------
(* Multiplexer: the select of the dispatcher loop. *)

\* A permit of a queue of the send task, which has none to give after the goodbye.
NqRoom(e) == Len(nq[e]) < NqCap /\ "flushed" \notin bye[e]
HpReady(e) == hp[e] # <<>> /\ Len(hpq[e]) < HpCap /\ "flushed" \notin bye[e]

\* The branches are polled in order, so the others run only when the high priority
\* branch was not ready; its event may arrive while they are polled.
PollHp(e) ==
    /\ Running(e)
    /\ ~polled[e] /\ ~HpReady(e)
    /\ polled' = At(polled, e, TRUE)
    /\ UNCHANGED <<appVars, chanVars, port, flags, pre, outstanding, fail, netVars>>

\* An answer of the listener's application
HandleHp(e) ==
    /\ Running(e)
    /\ HpReady(e)
    /\ polled' = At(polled, e, FALSE)
    /\ hp' = At(hp, e, Tail(hp[e]))
    /\ LET event == Head(hp[e])
           Sends(m) == hpq' = Push(hpq, e, m)
       IN  \/ /\ event \in {"Accepted", "AcceptedAfterPreConnect", "Rejected"} /\ ~outstanding
              /\ Fail("panic") /\ UNCHANGED hpq
           \/ /\ event = "Accepted" /\ outstanding
              /\ Sends("PortOpened")
              /\ CreatePort(e, "live")
              /\ request' = "done"
              /\ outstanding' = FALSE
              /\ UNCHANGED <<setup, connVars, client, guard, report, closing, mark, sent, got, finished, spawned, rq, flags, pre, fail>>
           \/ /\ event \in {"AcceptedAfterPreConnect", "Rejected"} /\ outstanding
              /\ Sends(IF event = "Rejected" THEN "Rejected" ELSE "PortOpened")
              /\ outstanding' = FALSE
              /\ UNCHANGED <<appVars, spawned, rq, port, flags, pre, fail>>
           \/ /\ event \in {"RejectedAfterAccept", "ReceivedReport"}
              /\ Sends(IF event = "ReceivedReport" THEN "ReceivedReport" ELSE "Rejected")
              /\ UNCHANGED <<appVars, spawned, rq, port, flags, pre, outstanding, fail>>
    /\ UNCHANGED <<ev, nq, net>>

\* GlobalEvt::ConnectReq fails at once when the remote listener is gone.
HandleConnect ==
    /\ Running("c")
    /\ client \in {"plain", "pre"}
    /\ polled["c"] /\ NqRoom("c")
    /\ polled' = At(polled, "c", FALSE)
    /\ \/ /\ "listener" \in gone["c"]
          /\ client' = "failed"
          /\ UNCHANGED <<tx, rx, port, pre, nq>>
       \/ /\ "listener" \notin gone["c"]
          /\ client' = "sent"
          /\ nq' = Push(nq, "c", IF client = "pre" THEN "OpenPortPre" ELSE "OpenPort")
          /\ IF client = "pre"
             THEN CreatePort("c", "live") /\ pre' = "pre_connected"
             ELSE port' = At(port, "c", "connecting") /\ UNCHANGED <<tx, rx, pre>>
    /\ UNCHANGED <<setup, connVars, request, guard, report, closing, mark, sent, got, finished,
                   chanVars, flags, outstanding, fail, hpq, net>>

EventMsg(event) ==
    CASE event = "SendData" -> "Data"
      [] event = "RequestReceivedReport" -> "RequestReceivedReport"
      [] event = "SenderDropped" -> "SendFinish"
      [] event = "ReceiverClosed" -> "ReceiveClose"
      [] event = "ReceiverDropped" -> "ReceiveFinish"

EventFlag(event) ==
    CASE event = "SenderDropped" -> "sender_dropped"
      [] event = "ReceiverClosed" -> "receiver_closed"
      [] event = "ReceiverDropped" -> "receiver_dropped"

\* A handler that looks up the port panics unless it is connected; the flag it sets
\* must not be set already.
EventPanics(e, event) ==
    \/ event # "SendData" /\ port[e] # "connected"
    \/ event \notin {"SendData", "RequestReceivedReport"} /\ EventFlag(event) \in flags[e]
    \/ event = "ReceiverClosed" /\ "receiver_dropped" \in flags[e]

\* An event of a Sender or a Receiver
HandleEvent(e) ==
    /\ Running(e)
    /\ polled[e] /\ ev[e] # <<>> /\ NqRoom(e)
    /\ polled' = At(polled, e, FALSE)
    /\ ev' = At(ev, e, Tail(ev[e]))
    /\ LET event == Head(ev[e])
       IN  \/ /\ EventPanics(e, event)
              /\ Fail("panic") /\ UNCHANGED nq
           \/ /\ ~EventPanics(e, event)
              /\ nq' = Push(nq, e, EventMsg(event))
              /\ \/ event = "SendData" /\ UNCHANGED <<report, flags, port>>
                 \/ /\ event = "RequestReceivedReport"
                    /\ report' = At(report, e, "waiting")
                    /\ UNCHANGED <<flags, port>>
                 \/ /\ event \in {"SenderDropped", "ReceiverClosed", "ReceiverDropped"}
                    /\ SetFlags(e, flags[e] \cup {EventFlag(event)})
              /\ UNCHANGED <<setup, connVars, client, request, guard, tx, rx, closing, mark, sent, got, finished,
                             spawned, rq, pre, outstanding, fail>>
    /\ UNCHANGED <<hp, hpq, net>>

\* The send task passes m on; it ends with the goodbye, and its queues with it.
Transmit(e, m, rest, hpRest) ==
    /\ Running(e) /\ link
    /\ "flushed" \notin bye[e] /\ Len(net[e]) < NetCap
    /\ net' = Push(net, e, m)
    /\ nq' = At(nq, e, IF m = "Goodbye" THEN <<>> ELSE rest)
    /\ hpq' = At(hpq, e, IF m = "Goodbye" THEN <<>> ELSE hpRest)
    /\ bye' = [bye EXCEPT ![e] = @ \cup {"flushed" : x \in {m} \cap {"Goodbye"}}]
    /\ UNCHANGED <<handleVars, clients, listener, gone, run, link, chanVars, muxVars>>

\* Mutant: the send task serves the queue without priority first.
SendTaskOrdinaryFirst(e) ==
    \/ nq[e] # <<>> /\ Transmit(e, Head(nq[e]), Tail(nq[e]), hpq[e])
    \/ nq[e] = <<>> /\ hpq[e] # <<>> /\ Transmit(e, Head(hpq[e]), nq[e], Tail(hpq[e]))

\* The send task drains the high priority queue first.
SendTask(e) ==
    \/ hpq[e] # <<>> /\ Transmit(e, Head(hpq[e]), nq[e], Tail(hpq[e]))
    \/ hpq[e] = <<>> /\ nq[e] # <<>> /\ Transmit(e, Head(nq[e]), Tail(nq[e]), hpq[e])

-----------------------------------------------------------------------------
(* Multiplexer: handle_received_msg. *)

\* What a message needs, for the endpoint not to fail with a protocol error.
Expected(e, m) ==
    CASE m \in {"OpenPort", "OpenPortPre"} -> ~outstanding
      [] m \in {"PortOpened", "Rejected"} ->
            port[e] = "connecting" \/ (port[e] = "connected" /\ pre # "no")
      [] m \in {"Data", "RequestReceivedReport"} ->
            port[e] = "connected" /\ "send_finished" \notin flags[e]
      [] m = "SendFinish" -> port[e] = "connected" /\ "send_finished" \notin flags[e]
      [] m = "ReceiveClose" -> port[e] = "connected" /\ "remote_closed" \notin flags[e]
      [] m = "ReceiveFinish" -> port[e] = "connected"
      [] m \in {"ReceivedReport", "ClientFinish", "ListenerFinish", "Goodbye"} -> TRUE

\* receiver_tx_data.send fails silently when the receiver is gone.
Deliver(e, item) ==
    rq' = IF rx[e] = "dropped" THEN rq ELSE Push(rq, e, item)

\* A request for which there is no Listener is dropped by the multiplexer.
HandleOpen(m) ==
    /\ m \in {"OpenPort", "OpenPortPre"}
    /\ outstanding' = TRUE
    /\ LET heard == listener["s"] = "live"
       IN  /\ request' = IF ~heard THEN "done" ELSE IF m = "OpenPortPre" THEN "pre" ELSE "plain"
           /\ IF m = "OpenPortPre" THEN CreatePort("s", IF heard THEN "request" ELSE "dropped")
                                   ELSE UNCHANGED <<port, tx, rx>>
           /\ spawned' = [spawned EXCEPT !["s"] = @ \cup
                  IF heard THEN {} ELSE {"Rejected"} \cup {d \in Drops : m = "OpenPortPre"}]
    /\ UNCHANGED <<setup, connVars, client, guard, report, closing, mark, sent, got, finished, rq, flags, pre>>

HandleDecision(m) ==
    /\ m \in {"PortOpened", "Rejected"}
    /\ \/ /\ port["c"] = "connecting" /\ m = "PortOpened"
          /\ CreatePort("c", "live")
          /\ UNCHANGED <<client, pre>>
       \/ /\ port["c"] = "connecting" /\ m = "Rejected"
          /\ port' = At(port, "c", "freed")
          /\ client' = "failed"
          /\ UNCHANGED <<tx, rx, pre>>
       \/ /\ port["c"] = "connected"
          /\ pre' = IF m = "PortOpened" THEN "accepted" ELSE "rejected"
          /\ UNCHANGED <<client, tx, rx, port>>
    /\ UNCHANGED <<setup, connVars, request, guard, report, closing, mark, sent, got, finished, spawned, rq, flags, outstanding>>

HandlePort(e, m) ==
    /\ \/ /\ m \in {"Data", "RequestReceivedReport"}
          /\ Deliver(e, IF m = "Data" THEN "Data" ELSE "ReportRequest")
          /\ UNCHANGED <<report, flags, port>>
       \/ /\ m = "SendFinish"
          /\ Deliver(e, "Finished")
          /\ SetFlags(e, flags[e] \cup {"send_finished"})
       \/ /\ m = "ReceiveClose"
          /\ SetFlags(e, flags[e] \cup {"remote_closed"})
          /\ UNCHANGED rq
       \/ /\ m = "ReceiveFinish"
          /\ SetFlags(e, flags[e] \cup {"remote_closed", "remote_dropped"})
          /\ UNCHANGED rq
       \/ /\ m = "ReceivedReport"
          /\ report' = [report EXCEPT ![e] = IF @ = "waiting" THEN "done" ELSE @]
          /\ UNCHANGED <<rq, flags, port>>
    /\ UNCHANGED <<setup, connVars, client, request, guard, tx, rx, closing, mark, sent, got, finished, spawned, pre, outstanding>>

\* The other end drops its Clients or its Listener, or says goodbye.
HandleConnection(e, m) ==
    /\ \/ /\ m \in {"ClientFinish", "ListenerFinish"}
          /\ gone' = [gone EXCEPT ![e] = @ \cup {IF m = "ClientFinish" THEN "clients" ELSE "listener"}]
          /\ UNCHANGED bye
       \/ /\ m = "Goodbye"
          /\ bye' = [bye EXCEPT ![e] = @ \cup {"received"}]
          /\ UNCHANGED gone
    /\ UNCHANGED <<handleVars, clients, listener, run, link, spawned, rq, port, flags, pre, outstanding>>

HandleMsg(e) ==
    /\ Running(e)
    /\ polled[e] /\ net[Other(e)] # <<>>
    /\ polled' = At(polled, e, FALSE)
    /\ net' = At(net, Other(e), Tail(net[Other(e)]))
    /\ LET m == Head(net[Other(e)])
       IN  \/ ~Expected(e, m) /\ Fail("protocol")
           \/ /\ Expected(e, m) /\ UNCHANGED fail
              /\ HandleOpen(m) \/ HandleDecision(m) \/ HandlePort(e, m) \/ HandleConnection(e, m)
    /\ UNCHANGED <<ev, hp, nq, hpq>>

-----------------------------------------------------------------------------
(* The end of the connection. *)

\* The last Client or the Listener of e is dropped.
DropClients(e) ==
    /\ Running(e)
    /\ "drop_clients" \in Ops /\ clients[e] = "live"
    /\ clients' = At(clients, e, "dropped")
    /\ UNCHANGED <<handleVars, listener, gone, bye, run, link, chanVars, muxVars, netVars>>

DropListener(e) ==
    /\ Running(e)
    /\ "drop_listener" \in Ops /\ listener[e] = "live"
    /\ listener' = At(listener, e, "dropped")
    /\ UNCHANGED <<handleVars, clients, gone, bye, run, link, chanVars, muxVars, netVars>>

\* Client::terminate, Listener::terminate
Terminate(e) ==
    /\ Running(e)
    /\ "terminate" \in Ops /\ "live" \in {clients[e], listener[e]} /\ "asked" \notin bye[e]
    /\ bye' = [bye EXCEPT ![e] = @ \cup {"asked"}]
    /\ UNCHANGED <<handleVars, clients, listener, gone, run, link, chanVars, muxVars, netVars>>

\* An event of the multiplexer's own sends m.
Announce(e, m) ==
    /\ Running(e)
    /\ polled[e] /\ NqRoom(e)
    /\ polled' = At(polled, e, FALSE)
    /\ nq' = Push(nq, e, m)
    /\ UNCHANGED <<handleVars, gone, run, link, chanVars, port, flags, pre, outstanding, fail, hpq, net>>

\* A connect in progress, which holds a copy of the channel of the Clients.
Connecting(e) == e = "c" /\ (client \in {"plain", "pre"} \/ port["c"] = "connecting")

\* GlobalEvt::AllClientsDropped, GlobalEvt::ListenerDropped
HandleClientsDropped(e) ==
    /\ clients[e] = "dropped" /\ ~Connecting(e)
    /\ Announce(e, "ClientFinish")
    /\ clients' = At(clients, e, "told")
    /\ UNCHANGED <<listener, bye>>

HandleListenerDropped(e) ==
    /\ listener[e] = "dropped"
    /\ Announce(e, "ListenerFinish")
    /\ listener' = At(listener, e, "told")
    /\ UNCHANGED <<clients, bye>>

InUse(e) == port[e] \in {"connecting", "connected"}

\* Mutant: the remote listener alone decides that nothing more can happen.
ShouldTerminateEarly(e) ==
    \/ /\ ~InUse(e)
       /\ clients[e] = "told" \/ "listener" \in gone[e]
       /\ e = "s" => ~outstanding
    \/ "received" \in bye[e]

\* should_terminate
ShouldTerminate(e) ==
    \/ /\ ~InUse(e)
       /\ clients[e] = "told" \/ "listener" \in gone[e]
       /\ listener[e] = "told" \/ "clients" \in gone[e]
       /\ e = "s" => ~outstanding
    \/ "received" \in bye[e]

\* GlobalEvt::SendGoodbye comes after all other local events.
SendGoodbye(e) ==
    /\ "sent" \notin bye[e]
    /\ "asked" \in bye[e] \/ ShouldTerminate(e)
    /\ listener[e] # "dropped" /\ ev[e] = <<>>
    /\ clients[e] = "dropped" => Connecting(e)
    /\ e = "c" => client \notin {"plain", "pre"}
    /\ Announce(e, "Goodbye")
    /\ bye' = [bye EXCEPT ![e] = @ \cup {"sent"}]
    /\ UNCHANGED <<clients, listener>>

\* ChMux::run returns.  All that the multiplexer owns is dropped: pending connects fail,
\* pending reports resolve, and what the application hands over from now on is lost.
Return(e, result) ==
    /\ run' = At(run, e, result)
    /\ port' = At(port, e, IF InUse(e) THEN "freed" ELSE port[e])
    /\ client' = IF Connecting(e) THEN "failed" ELSE client
    /\ report' = [report EXCEPT ![e] = IF @ = "none" THEN @ ELSE "done"]
    /\ spawned' = At(spawned, e, {}) /\ ev' = At(ev, e, <<>>) /\ hp' = At(hp, e, <<>>)
    /\ nq' = At(nq, e, <<>>) /\ hpq' = At(hpq, e, <<>>)
    /\ polled' = At(polled, e, FALSE)
    /\ IF e = "s"
       THEN /\ outstanding' = FALSE
            /\ request' = IF request = "none" THEN request ELSE "done"
            /\ guard' = IF guard = "held" THEN "done" ELSE guard
       ELSE UNCHANGED <<outstanding, request, guard>>
    /\ UNCHANGED <<setup, clients, listener, gone, bye, link, tx, rx, closing, mark, sent, got, finished,
                   rq, flags, pre, fail, net>>

\* Both goodbyes have been said.
End(e) ==
    /\ Running(e)
    /\ {"sent", "flushed", "received"} \subseteq bye[e]
    /\ Return(e, "ok")

\* The transport fails, with the messages on it.
Lose ==
    /\ "lose" \in Ops /\ link
    /\ link' = FALSE
    /\ net' = [e \in Ends |-> <<>>]
    /\ UNCHANGED <<handleVars, clients, listener, gone, bye, run, chanVars, muxVars, nq, hpq>>

\* The send task or the receive task, unless it has ended, returns an error.
NoticeLoss(e) ==
    /\ Running(e) /\ ~link
    /\ ~({"flushed", "received"} \subseteq bye[e])
    /\ Return(e, "lost")

\* RecvError::ChMux: what the multiplexer has delivered is returned before.
RecvLost(e) ==
    /\ fail = "no" /\ run[e] # "yes"
    /\ rx[e] = "live" /\ finished[e] = "no"
    /\ rq[e] = <<>> \/ (e = "c" /\ pre = "pre_connected")
    /\ e = "c" => pre # "rejected"
    /\ finished' = At(finished, e, "lost")
    /\ UNCHANGED <<setup, connVars, client, request, guard, tx, rx, report, closing, mark, sent, got,
                   chanVars, muxVars, netVars>>

-----------------------------------------------------------------------------

Application ==
    \/ \E kind \in {"plain", "pre"} : Connect(kind)
    \/ AcceptPlain \/ \E g \in {"none", "held"} : AcceptPre(g)
    \/ Reject \/ DropRequest \/ RejectGuard \/ ConfirmGuard \/ RecvRejected
    \/ \E e \in Ends :
        \/ SendData(e) \/ CloseReceiver(e) \/ AllReceived(e) \/ PostReport(e)
        \/ DropSender(e) \/ DropReceiver(e) \/ Recv(e) \/ RecvLost(e)
        \/ DropClients(e) \/ DropListener(e) \/ Terminate(e)
        \/ \E d \in Drops \cup {"Rejected"} : PostDrop(e, d)

Multiplexer(e) ==
    \/ PollHp(e) \/ HandleHp(e) \/ HandleEvent(e) \/ SendTask(e) \/ HandleMsg(e)
    \/ HandleClientsDropped(e) \/ HandleListenerDropped(e)
    \/ SendGoodbye(e) \/ End(e) \/ NoticeLoss(e)

Next == Application \/ HandleConnect \/ Lose \/ \E e \in Ends : Multiplexer(e)

Spec == Init /\ [][Next]_vars

(***************************************************************************)
(* Fairness.  Spawned tasks and both multiplexers are polled whenever they *)
(* can run, the transport delivers or its failure is noticed, futures that *)
(* were started are polled, and the listening application answers requests *)
(* and does not hold an AcceptGuard forever.  Sending, receiving, closing  *)
(* and dropping are choices of the applications.  It is enough that some   *)
(* of these steps happens while one is possible: each uses something up.   *)
(***************************************************************************)
Answering ==
    AcceptPlain \/ (\E g \in {"none", "held"} : AcceptPre(g)) \/ Reject \/ DropRequest
SpawnedTasks(e) == PostReport(e) \/ \E d \in Drops \cup {"Rejected"} : PostDrop(e, d)

Obliged ==
    \/ \E e \in Ends : Multiplexer(e) \/ SpawnedTasks(e)
    \/ HandleConnect \/ Answering \/ RejectGuard \/ ConfirmGuard

Fairness == WF_vars(Obliged)

FairSpec == Spec /\ Fairness

-----------------------------------------------------------------------------
(* Properties. *)

Handles == {"none", "request", "live", "dropped"}
Events  == {"SendData", "RequestReceivedReport", "SenderDropped", "ReceiverClosed", "ReceiverDropped"}
HpEvents == {"Accepted", "AcceptedAfterPreConnect", "Rejected", "RejectedAfterAccept", "ReceivedReport"}
Msgs    == {"OpenPort", "OpenPortPre", "PortOpened", "Rejected", "Data", "SendFinish",
            "ReceiveClose", "ReceiveFinish", "RequestReceivedReport", "ReceivedReport",
            "ClientFinish", "ListenerFinish", "Goodbye"}

TypeOK ==
    /\ client \in {"none", "plain", "pre", "sent", "failed"}
    /\ request \in {"none", "plain", "pre", "accepting", "done"}
    /\ guard \in {"none", "held", "done"}
    /\ tx \in [Ends -> Handles] /\ rx \in [Ends -> Handles]
    /\ report \in [Ends -> {"none", "created", "posted", "waiting", "done"}]
    /\ closing \in [Ends -> BOOLEAN]
    /\ mark \in [Ends -> 0..MaxData] /\ sent \in [Ends -> 0..MaxData] /\ got \in [Ends -> 0..MaxData]
    /\ finished \in [Ends -> {"no", "end", "rejected", "lost"}]
    /\ spawned \in [Ends -> SUBSET (Drops \cup {"Rejected"})]
    /\ \A e \in Ends :
        /\ ev[e] \in Seq(Events) /\ Len(ev[e]) <= EvCap
        /\ hp[e] \in Seq(HpEvents) /\ Len(hp[e]) <= EvCap
        /\ rq[e] \in Seq({"Data", "ReportRequest", "Finished"})
        /\ nq[e] \in Seq(Msgs) /\ Len(nq[e]) <= NqCap
        /\ hpq[e] \in Seq(Msgs) /\ Len(hpq[e]) <= HpCap
        /\ net[e] \in Seq(Msgs) /\ Len(net[e]) <= NetCap
    /\ port \in [Ends -> {"none", "connecting", "connected", "freed"}]
    /\ flags \in [Ends -> SUBSET AllFlags]
    /\ pre \in {"no", "pre_connected", "accepted", "rejected"}
    /\ outstanding \in BOOLEAN
    /\ polled \in [Ends -> BOOLEAN]
    /\ fail \in {"no", "panic", "protocol"}
    /\ clients \in [Ends -> {"live", "dropped", "told"}] /\ listener \in [Ends -> {"live", "dropped", "told"}]
    /\ gone \in [Ends -> SUBSET {"clients", "listener"}] /\ bye \in [Ends -> SUBSET AllByes]
    /\ run \in [Ends -> {"yes", "ok", "lost"}] /\ link \in BOOLEAN

\* What is known to go wrong: a rejection that nothing keeps before the end of the port,
\* and a report that is requested for a port whose sender is gone.
LateRejections == {"Rejected" : op \in Ops \cap {"drop_pre_request", "tentative", "drop_listener"}}
LateReports == {"RequestReceivedReport" : op \in Ops \cap {"all_received"}}

\* No sequence of operations on the handles of a port makes a multiplexer panic or
\* see a protocol error of its correct peer: both would take down all other ports
\* of the connection (the panics in handle_event, the protocol_err in
\* handle_received_msg).  The exceptions are confined: it takes an end that has
\* dropped its sender and then dropped its receiver too (a late rejection) or still has
\* an AllReceived future of that sender.
FailureIsConfined ==
    fail # "no" =>
        \/ LateRejections # {} /\ \E e \in Ends : tx[e] = "dropped" /\ rx[e] = "dropped"
        \/ LateReports # {} /\ \E e \in Ends : tx[e] = "dropped" /\ report[e] # "none"

\* Neither Clients, Listeners nor the transport force the connection to its end.
Orderly == link /\ \A e \in Ends : "asked" \notin bye[e]

\* What tells about data never overtakes it, although it takes other queues.  The end of
\* a channel is reported only after all data that was sent before.  A resolved
\* AllReceived future means what Sender::all_received documents: the data sent before it
\* was created has been returned by the remote receiver, unless that receiver was closed
\* or dropped or the connection has ended; a port that is freed resolves the futures
\* still pending.  And the goodbye follows everything: a connection that ends by itself
\* takes no port with it that is still in use, except one that the other end has not
\* accepted.
ControlFollowsData == \A e \in Ends :
    /\ finished[e] = "end" => got[e] = sent[Other(e)]
    /\ report[e] = "done" /\ run[e] = "yes" /\ rx[Other(e)] # "dropped" /\ ~closing[Other(e)]
         => got[Other(e)] >= mark[e]
    /\ run[e] = "ok" /\ Orderly
         => pre \in {"pre_connected", "rejected"} \/ \A f \in Ends : "live" \notin {tx[f], rx[f]}

\* "The remote endpoint sends the rejection before it closes the port, thus it has
\* always been processed once the closure of the port is observed." (receiver.rs:492):
\* a receiver that saw the ordinary end of a pre-connected channel is not told
\* of a rejection afterwards.
RejectionBeforeEnd == finished["c"] = "end" => pre # "rejected"

\* No port is open or will be opened.
Unused ==
    /\ \A e \in Ends : clients[e] # "live"
    /\ \/ client \in {"none", "failed"}
       \/ \A e \in Ends : tx[e] = "dropped" /\ rx[e] = "dropped"

\* What the multiplexers still have to give up: a port without handles, a connection that
\* nothing can use any more, that either end has asked to end, or without transport.
Retained ==
    \/ /\ \A e \in Ends : tx[e] = "dropped" /\ rx[e] = "dropped"
       /\ \E e \in Ends : port[e] # "freed"
    \/ /\ Unused \/ ~Orderly
       /\ \E e \in Ends : run[e] = "yes"

\* Once all handles are dropped and the request is answered, both multiplexers
\* forget the port, so its number can be used again; and they end when nothing can use
\* the connection any more, when either end asks for it and when the transport fails.
PortsReleased == Retained ~> (fail # "no" \/ ~Retained)

\* A connect request is answered, whatever the listening application does with it and
\* however the connection ends.
ConnectAnswered ==
    (client \in {"plain", "pre"})
        ~> \/ fail # "no" \/ client = "failed"
           \/ tx["c"] # "none" /\ (pre # "pre_connected" \/ run["c"] # "yes")

\* "all received reports did not resolve after receiver drop"
\* (tests/chmux/channel.rs:367): once the remote receiver is gone, the future that
\* Sender::all_received returned completes.
AllReceivedResolves == \A e \in Ends :
    (report[e] = "posted" /\ rx[Other(e)] = "dropped") ~> (report[e] = "done")
=============================================================================
