-------------------------------- MODULE Rtc --------------------------------
(***************************************************************************)
(* Remote trait calling: clients that turn method calls into requests, the *)
(* request channel, a request receiver whose requests are forwarded to     *)
(* another client (pipelining), and the five kinds of server that dispatch *)
(* requests to a target object, inline or on tasks of their own; the       *)
(* providers of the three kinds of remote function work in the same way.   *)
(*                                                                         *)
(* A method or function has one step between its start and its return at   *)
(* which it reads or changes its target; every point where it may be       *)
(* cancelled is before or after that step.  The request channel is that of *)
(* RemoteMpsc, taken as a queue at either end; the response travels        *)
(* through a oneshot channel of its own and is not ordered with anything.  *)
(***************************************************************************)
EXTENDS Integers, FiniteSets, Sequences, SequencesExt

CONSTANTS
    Calls,      \* calls, numbered in the order in which they are made
    Clients,    \* clones of the client
    Setups,     \* the server, the calls and what can go wrong
    ReqCap,     \* requests that fit into a queue of the request channel
    ErrCap,     \* errors that fit into the response error channel
    None

\* server: the kind of server or remote function; par: its parallelism; limit: permits
\* of a ConcurrentLimitMonitor, rate: requests that a RateLimitMonitor lets through in
\* its window, 0 for none; tolerate: limit of the
\* IncompatibleClientMonitor; pipelined: requests reach the server through
\* ReqReceiver::forward; awaiting: clients that await each call before the next one;
\* by, kind: client and method kind of each call that is made.  The other sets name
\* the calls that are sequential, stop the server when they fail, are not
\* cancelled, may fail, cannot be decoded by the endpoint that receives them first, and
\* have too large a response.  The target of a request receiver is on the same endpoint.
ASSUME RtcAssumption ==
    /\ Calls \subseteq Nat /\ IsFiniteSet(Calls) /\ None \notin Calls
    /\ None \notin {"ok", "err", "dropped", "rejected", "Ok", "CallFailed", "ResponseSend", "Monitor"}
    /\ ReqCap \in Nat \ {0} /\ ErrCap \in Nat \ {0}
    /\ \A s \in Setups :
         /\ s.server \in {"Server", "ServerRef", "ServerRefMut", "ServerShared",
                         "ServerSharedMut", "RFn", "RFnMut", "RFnOnce"}
         /\ s.par \in Nat /\ s.limit \in Nat /\ s.rate \in Nat /\ s.tolerate \in Nat
         /\ s.pipelined \in BOOLEAN
         /\ DOMAIN s.kind \subseteq Calls /\ DOMAIN s.by = DOMAIN s.kind
         /\ \A c \in DOMAIN s.kind :
              s.kind[c] \in {"Value", "Ref", "RefMut"} /\ s.by[c] \in Clients
         /\ s.awaiting \subseteq Clients
         /\ s.faults \subseteq {"cancel", "lose", "provider"}
         /\ "provider" \in s.faults => s.server \in {"RFn", "RFnMut", "RFnOnce"}

VARIABLES
    setup,
    call,       \* each call as its caller sees it
    clients,    \* clients that have not been dropped
    link,       \* FALSE when the connection is lost
    wire,       \* requests that have not reached the server or the request receiver
    fw,         \* the forwarding task
    queue,      \* requests that the server can receive
    provider,   \* FALSE when the provider of a remote function has been dropped
    sv,         \* the serve function
    task,       \* what processes each call
    result,     \* what the method returned
    response,   \* what the response channel holds for the caller
    errors,     \* response error channel
    monitor,    \* what the monitors have counted in their windows: undecodable requests at
                \* the server or, before it, the request receiver, and requests
    begun,      \* calls in the order in which methods were started
    effects     \* calls in the order in which methods used the target

clientVars == <<call, clients, link>>
forwardVars == <<wire, fw>>
serverVars == <<queue, provider, sv, errors, monitor>>
taskVars == <<task, result, begun, effects>>
vars == <<setup, clientVars, forwardVars, serverVars, taskVars, response>>

Made == DOMAIN setup.kind
IsFunction == setup.server \in {"RFn", "RFnMut", "RFnOnce"}

Init ==
    /\ setup \in Setups
    /\ call = [c \in Calls |-> "new"]
    /\ clients = {setup.by[c] : c \in Made}
    /\ link = TRUE
    /\ wire = <<>> /\ queue = <<>> /\ errors = <<>>
    /\ fw = [pc |-> IF setup.pipelined THEN "new" ELSE "none", req |-> None]
    /\ provider = TRUE
    /\ sv = [pc |-> "select", req |-> None, res |-> None]
    /\ task = [c \in Calls |-> "none"]
    /\ result = [c \in Calls |-> None]
    /\ response = [c \in Calls |-> None]
    /\ monitor = [failures |-> 0, recent |-> 0]
    /\ begun = <<>> /\ effects = <<>>

----------------------------------------------------------------------------
(* Clients *)

Serving == sv.pc # "returned"
\* The other end of the request channel of the clients is there.
Accepting == IF setup.pipelined THEN fw.pc # "ended" ELSE Serving

\* Responders that are dropped without a response.
Dropped(cs) ==
    [c \in Calls |-> IF c \in cs /\ response[c] = None THEN "dropped" ELSE response[c]]

\* The connection for the response is refused: the endpoint has not taken the request.
Rejected(cs) ==
    [c \in Calls |-> IF c \in cs /\ response[c] = None THEN "rejected" ELSE response[c]]
RejectedIfGarbled(c) == Rejected({c} \cap setup.garbled)

\* A client makes its calls one after the other.
MayStart(c) ==
    /\ call[c] = "new" /\ setup.by[c] \in clients
    /\ \A d \in Made :
         d < c /\ setup.by[d] = setup.by[c] =>
           call[d] # "new" /\ (setup.by[c] \in setup.awaiting => call[d] # "waiting")

\* A method that takes self consumes the client.
KeptClients(c) == IF setup.kind[c] = "Value" THEN clients \ {setup.by[c]} ELSE clients

\* The monitor has been asked and the request is queued; it is lost with the connection.
StartCall(c) ==
    /\ MayStart(c)
    /\ Len(wire) < ReqCap
    /\ call' = [call EXCEPT ![c] = "waiting"]
    /\ IF link THEN wire' = Append(wire, c) /\ UNCHANGED response
               ELSE response' = Dropped({c}) /\ UNCHANGED wire
    /\ clients' = KeptClients(c)
    /\ UNCHANGED <<setup, link, fw, serverVars, taskVars>>

\* What becomes of a call whose request cannot be sent.  A remote function ignores the
\* error and finds the channel for its result dropped.
SendErrors ==
    IF IsFunction
    THEN {o \in {"Dropped"} : ~Accepting \/ ~link}
    ELSE {o \in {"NotServed"} : ~Accepting} \cup {o \in {"Failed"} : ~link}

CallRefused(c) ==
    /\ MayStart(c)
    /\ \E o \in SendErrors : call' = [call EXCEPT ![c] = o]
    /\ clients' = KeptClients(c)
    /\ UNCHANGED <<setup, link, forwardVars, serverVars, taskVars, response>>

\* What the response channel gives the caller: a response, the error for a dropped
\* responder or for one that has been rejected, or that of a lost connection.
Outcomes(c) ==
    (CASE response[c] = None -> {}
       [] response[c] = "dropped" -> {"Dropped"}
       [] response[c] = "rejected" -> {IF IsFunction THEN "Connect" ELSE "NotServed"}
       [] OTHER -> {response[c]})
    \cup {o \in {"Failed"} : ~link}

\* The Call is ready.
CallReturns(c) ==
    /\ call[c] = "waiting"
    /\ \E o \in Outcomes(c) : call' = [call EXCEPT ![c] = o]
    /\ UNCHANGED <<setup, clients, link, forwardVars, serverVars, taskVars, response>>

\* The caller drops the Call: the responder is closed.
CancelCall(c) ==
    /\ "cancel" \in setup.faults
    /\ call[c] = "waiting"
    /\ call' = [call EXCEPT ![c] = "cancelled"]
    /\ UNCHANGED <<setup, clients, link, forwardVars, serverVars, taskVars, response>>

DropClient(k) ==
    /\ k \in clients
    /\ \A c \in Made : setup.by[c] = k => call[c] # "new"
    /\ clients' = clients \ {k}
    /\ UNCHANGED <<setup, call, link, forwardVars, serverVars, taskVars, response>>

\* The connection between the clients and the server is lost.
Lose ==
    /\ "lose" \in setup.faults
    /\ link /\ link' = FALSE
    /\ wire' = <<>>
    /\ UNCHANGED <<setup, call, clients, fw, serverVars, taskVars, response>>

----------------------------------------------------------------------------
(* The request channel and forwarding *)

\* The channel moves a request to the server.  One that cannot be decoded becomes an
\* error, and the connection for its response is rejected.
Transfer ==
    /\ ~setup.pipelined /\ wire # <<>>
    /\ Serving /\ Len(queue) < ReqCap
    /\ wire' = Tail(wire)
    /\ queue' = Append(queue, Head(wire))
    /\ response' = RejectedIfGarbled(Head(wire))
    /\ UNCHANGED <<setup, clientVars, fw, provider, sv, errors, monitor, taskVars>>

\* Of the requests that nobody receives any more, those that have left the client are
\* rejected and the others dropped.
Discard ==
    /\ ~Accepting /\ wire # <<>>
    /\ wire' = <<>>
    /\ \E sent \in {ToSet(SubSeq(wire, 1, n)) : n \in 0..Len(wire)} :
         response' = [c \in Calls |-> IF c \in sent THEN Rejected(sent)[c]
                                                   ELSE Dropped(ToSet(wire))[c]]
    /\ UNCHANGED <<setup, clientVars, fw, serverVars, taskVars>>

\* The request receiver is handed over with the call of a pipelinable method, which
\* may fail; the client can be used before that.
HandOver ==
    /\ fw.pc = "new"
    /\ \E pc \in {"pending", "ended"} : fw' = [fw EXCEPT !.pc = pc]
    /\ UNCHANGED <<setup, clientVars, wire, serverVars, taskVars, response>>

\* The method that was to return the object attaches it to the request receiver,
\* or fails, which drops the request receiver.
Attach ==
    /\ fw.pc = "pending"
    /\ \E pc \in {"reserve", "ended"} : fw' = [fw EXCEPT !.pc = pc]
    /\ UNCHANGED <<setup, clientVars, wire, serverVars, taskVars, response>>

\* A permit for sending to the target, or its loss, which ends forwarding.  The
\* forwarding task then drops the request receiver.
Reserve ==
    /\ fw.pc = "reserve"
    /\ IF Serving THEN Len(queue) < ReqCap /\ fw' = [fw EXCEPT !.pc = "recv"]
                  ELSE fw' = [fw EXCEPT !.pc = "ended"]
    /\ UNCHANGED <<setup, clientVars, wire, serverVars, taskVars, response>>

\* Receives a request; the monitors of both sides are asked while it is held.
ForwardRecv ==
    /\ fw.pc = "recv" /\ wire # <<>> /\ Head(wire) \notin setup.garbled
    /\ fw' = [pc |-> "send", req |-> Head(wire)]
    /\ wire' = Tail(wire)
    /\ UNCHANGED <<setup, clientVars, serverVars, taskVars, response>>

\* A request that the request receiver cannot decode is skipped; too many of them end
\* forwarding.
ForwardUndecodable ==
    /\ fw.pc = "recv" /\ wire # <<>> /\ Head(wire) \in setup.garbled
    /\ \E n \in {monitor.failures + 1, 1} : monitor' = [monitor EXCEPT !.failures = n]
    /\ fw' = IF monitor'.failures > setup.tolerate THEN [fw EXCEPT !.pc = "ended"] ELSE fw
    /\ wire' = Tail(wire)
    /\ response' = RejectedIfGarbled(Head(wire))
    /\ UNCHANGED <<setup, clientVars, queue, provider, sv, errors, taskVars>>

\* The target closes its channel while a request is awaited.
ForwardClosed ==
    /\ fw.pc = "recv" /\ ~Serving
    /\ fw' = [fw EXCEPT !.pc = "reserve"]
    /\ UNCHANGED <<setup, clientVars, wire, serverVars, taskVars, response>>

\* All clients are gone and all their requests have been forwarded.
ForwardDone ==
    /\ fw.pc = "recv" /\ wire = <<>> /\ clients = {}
    /\ fw' = [fw EXCEPT !.pc = "ended"]
    /\ UNCHANGED <<setup, clientVars, wire, serverVars, taskVars, response>>

ForwardSend ==
    /\ fw.pc = "send"
    /\ IF Serving THEN queue' = Append(queue, fw.req) /\ UNCHANGED response
                  ELSE response' = Dropped({fw.req}) /\ UNCHANGED queue
    /\ LET consumed == setup.kind[fw.req] = "Value"
       IN  fw' = [pc |-> IF consumed THEN "ended" ELSE "reserve", req |-> None]
    /\ UNCHANGED <<setup, clientVars, wire, provider, sv, errors, monitor, taskVars>>

----------------------------------------------------------------------------
(* Dispatch *)

\* Requests that the serve function has a match arm for.
Served ==
    CASE setup.server = "Server" -> {"Value", "Ref", "RefMut"}
      [] setup.server \in {"ServerRef", "ServerShared", "RFn"} -> {"Ref"}
      [] setup.server \in {"ServerRefMut", "ServerSharedMut"} -> {"Ref", "RefMut"}
      [] setup.server = "RFnMut" -> {"RefMut"}
      [] setup.server = "RFnOnce" -> {"Value"}
\* Servers that process requests on tasks of their own.
Concurrent == setup.server \in {"ServerShared", "ServerSharedMut", "RFn"} /\ setup.par > 0
Inline(c) == ~Concurrent \/ c \in setup.sequential \/ setup.kind[c] = "RefMut"
\* A remote function does not watch whether its caller still waits.
Cancellable(c) == ~IsFunction /\ c \notin setup.noCancel

\* Processing a call holds the target until complete_call is done, its dispatch guard
\* and a clone of the error sender until the response is sent.
Dispatched == {c \in Calls : task[c] \in {"started", "used", "failed"}}
Active == {c \in Calls : task[c] \notin {"none", "done"}}
Spawned == IF sv.pc = "inline" THEN Dispatched \ {sv.req} ELSE Dispatched

\* A ConcurrentLimitMonitor has a permit, a RateLimitMonitor a slot; both may be chained.
HasPermit == setup.limit = 0 \/ Cardinality(Active) < setup.limit
HasSlot == setup.rate = 0 \/ monitor.recent < setup.rate
Admitted == HasPermit /\ HasSlot

\* Mutant: The requests that are left are never answered.
ReturnQuietly(res) ==
    /\ sv' = [pc |-> "returned", req |-> None, res |-> res]
    /\ queue' = <<>> /\ UNCHANGED response

\* The serve function returns and with it the request receiver is dropped.
Return(res) ==
    /\ sv' = [pc |-> "returned", req |-> None, res |-> res]
    /\ queue' = <<>>
    /\ response' = Dropped(ToSet(queue) \cup ({sv.req} \ {None}))

\* An error in the response error channel is taken before any request.
ServeFails ==
    /\ sv.pc = "select" /\ errors # <<>>
    /\ Return(Head(errors))
    /\ errors' = Tail(errors)
    /\ UNCHANGED <<setup, clientVars, forwardVars, provider, monitor, taskVars>>

\* The provider of a remote function is dropped, which ends its task when it next waits.
DropProvider ==
    /\ "provider" \in setup.faults /\ provider
    /\ provider' = FALSE
    /\ UNCHANGED <<setup, clientVars, forwardVars, queue, sv, errors, monitor, taskVars, response>>

Terminate ==
    /\ sv.pc = "select" /\ ~provider
    /\ Return("Ok")
    /\ UNCHANGED <<setup, clientVars, forwardVars, provider, errors, monitor, taskVars>>

\* No client is left, or the connection is lost.
NoMoreRequests ==
    IF setup.pipelined THEN fw.pc = "ended" ELSE wire = <<>> /\ (clients = {} \/ ~link)

\* Mutant: Requests are taken although an error has been reported.
ReceiveRequestFirst ==
    /\ sv.pc = "select" /\ queue # <<>>
    /\ sv' = [sv EXCEPT !.pc = "received", !.req = Head(queue)]
    /\ queue' = Tail(queue)
    /\ UNCHANGED <<setup, clientVars, forwardVars, provider, errors, monitor, taskVars, response>>

ReceiveRequest ==
    /\ sv.pc = "select" /\ errors = <<>> /\ provider
    /\ \/ /\ queue # <<>>
          /\ sv' = [sv EXCEPT !.pc = "received", !.req = Head(queue)]
          /\ queue' = Tail(queue)
       \/ /\ queue = <<>> /\ NoMoreRequests
          /\ sv' = [sv EXCEPT !.pc = "received", !.req = None]
          /\ UNCHANGED queue
    /\ UNCHANGED <<setup, clientVars, forwardVars, provider, errors, monitor, taskVars, response>>

\* pre_dispatch is asked for everything that is received, the end included; what
\* cannot be decoded is decided by the monitor that is asked first.  Nothing else is
\* done until there are a permit and a slot, which is then used.
PreDispatch ==
    /\ sv.pc = "received" /\ sv.req \notin setup.garbled
    /\ Admitted
    /\ sv' = [sv EXCEPT !.pc = "admitted"]
    /\ monitor' = [monitor EXCEPT !.recent = IF setup.rate = 0 THEN 0 ELSE @ + 1]
    /\ UNCHANGED <<setup, clientVars, forwardVars, provider, queue, errors, taskVars, response>>

\* The oldest entry in the history of a RateLimitMonitor is older than its window.
WindowElapses ==
    /\ monitor.recent > 0
    /\ monitor' = [monitor EXCEPT !.recent = @ - 1]
    /\ UNCHANGED <<setup, clientVars, forwardVars, provider, queue, sv, errors, taskVars, response>>

Begin(c) ==
    /\ task' = [task EXCEPT ![c] = IF setup.server = "RFn" THEN "queued" ELSE "started"]
    /\ begun' = Append(begun, c)
    /\ UNCHANGED <<setup, clientVars, forwardVars, provider, queue, errors, monitor, result, effects, response>>

Dispatchable(c) ==
    /\ sv.pc = "admitted" /\ sv.req = c
    /\ setup.kind[c] \in Served

\* Mutant: A write does not wait for the lock of the target.
DispatchInlineUnlocked(c) ==
    /\ Dispatchable(c) /\ Inline(c)
    /\ sv' = [sv EXCEPT !.pc = "inline"]
    /\ Begin(c)

\* The call runs within the loop of serve; a write waits for the lock of the target.
DispatchInline(c) ==
    /\ Dispatchable(c) /\ Inline(c)
    /\ setup.kind[c] = "RefMut" => Spawned = {}
    /\ sv' = [sv EXCEPT !.pc = "inline"]
    /\ Begin(c)

\* The call gets a permit, in ServerSharedMut the read lock of the target, and a task;
\* the task of a remote function gets the permit itself.
DispatchSpawned(c) ==
    /\ Dispatchable(c) /\ ~Inline(c)
    /\ IsFunction \/ Cardinality(Spawned) < setup.par
    /\ sv' = [sv EXCEPT !.pc = "select", !.req = None]
    /\ Begin(c)

\* A request for a method that the server does not have.
IgnoreRequest(c) ==
    /\ sv.pc = "admitted" /\ sv.req = c
    /\ setup.kind[c] \notin Served
    /\ response' = Dropped({c})
    /\ sv' = [sv EXCEPT !.pc = "select", !.req = None]
    /\ UNCHANGED <<setup, clientVars, forwardVars, provider, queue, errors, monitor, taskVars>>

\* A request that cannot be decoded is skipped unless there are too many; the count
\* starts anew when the window has elapsed.
Undecodable(c) ==
    /\ sv.pc = "received" /\ sv.req = c
    /\ c \in setup.garbled
    /\ \E n \in {monitor.failures + 1, 1} : monitor' = [monitor EXCEPT !.failures = n]
    /\ IF ~IsFunction /\ monitor'.failures > setup.tolerate
       THEN Return("Monitor")
       ELSE /\ sv' = [sv EXCEPT !.pc = "select", !.req = None]
            /\ UNCHANGED <<queue, response>>
    /\ UNCHANGED <<setup, clientVars, forwardVars, provider, errors, taskVars>>

\* Ok(None) or a disconnect: the loop ends, its error sender is dropped.
EndOfRequests ==
    /\ sv.pc = "admitted" /\ sv.req = None
    /\ IF IsFunction THEN Return("Ok")
                     ELSE sv' = [sv EXCEPT !.pc = "drain"] /\ UNCHANGED <<queue, response>>
    /\ UNCHANGED <<setup, clientVars, forwardVars, provider, errors, monitor, taskVars>>

\* Mutant: serve does not wait for the calls that are being processed.
DrainAtOnce ==
    /\ sv.pc = "drain"
    /\ \/ errors # <<>> /\ Return(Head(errors)) /\ errors' = Tail(errors)
       \/ errors = <<>> /\ Return("Ok") /\ UNCHANGED errors
    /\ UNCHANGED <<setup, clientVars, forwardVars, provider, monitor, taskVars>>

\* Waits for an error, or for all error senders to be dropped.
Drain ==
    /\ sv.pc = "drain"
    /\ \/ errors # <<>> /\ Return(Head(errors)) /\ errors' = Tail(errors)
       \/ errors = <<>> /\ Active = {} /\ Return("Ok") /\ UNCHANGED errors
    /\ UNCHANGED <<setup, clientVars, forwardVars, provider, monitor, taskVars>>

----------------------------------------------------------------------------
(* Processing of a call *)

\* The loop goes on after an inline call; a consumed target ends it.
Processed(c) ==
    IF sv.pc = "inline" /\ sv.req = c
    THEN sv' = [sv EXCEPT
                 !.pc = IF setup.kind[c] # "Value" THEN "select"
                        ELSE IF IsFunction THEN "returned" ELSE "drain",
                 !.req = None]
    ELSE UNCHANGED sv

AcquirePermit(c) ==
    /\ task[c] = "queued"
    /\ Cardinality(Dispatched) < setup.par
    /\ task' = [task EXCEPT ![c] = "started"]
    /\ UNCHANGED <<setup, clientVars, forwardVars, serverVars, result, begun, effects, response>>

\* The method reads or changes the target.
UseTarget(c) ==
    /\ task[c] = "started"
    /\ task' = [task EXCEPT ![c] = "used"]
    /\ effects' = Append(effects, c)
    /\ UNCHANGED <<setup, clientVars, forwardVars, serverVars, result, begun, response>>

\* The method returns.  complete_call queues the response unless it has to report
\* the failure first.
MethodReturns(c) ==
    /\ task[c] = "used"
    /\ \E r \in {"ok", "err"} :
         /\ r = "err" => c \in setup.fails
         /\ result' = [result EXCEPT ![c] = r]
         /\ IF r = "err" /\ c \in setup.stop
            THEN task' = [task EXCEPT ![c] = "failed"] /\ UNCHANGED sv
            ELSE task' = [task EXCEPT ![c] = "sending"] /\ Processed(c)
    /\ UNCHANGED <<setup, clientVars, forwardVars, provider, queue, errors, monitor, begun, effects, response>>

\* Sending to the error channel waits for room, unless serve has returned.
Report(err) ==
    IF Serving THEN Len(errors) < ErrCap /\ errors' = Append(errors, err)
               ELSE UNCHANGED errors

ReportFailure(c) ==
    /\ task[c] = "failed"
    /\ Report("CallFailed")
    /\ task' = [task EXCEPT ![c] = "sending"]
    /\ Processed(c)
    /\ UNCHANGED <<setup, clientVars, forwardVars, provider, queue, monitor, result, begun, effects, response>>

\* The task that complete_call spawns: the response is sent.  Errors of the connection
\* are not reported, errors of the response are.
SendResponse(c) ==
    /\ task[c] = "sending"
    /\ IF c \in setup.large /\ link
       THEN /\ task' = [task EXCEPT ![c] = IF IsFunction THEN "done" ELSE "unsent"]
            /\ response' = Dropped({c})
       ELSE /\ task' = [task EXCEPT ![c] = "done"]
            /\ response' = [response EXCEPT ![c] = result[c]]
    /\ UNCHANGED <<setup, clientVars, forwardVars, serverVars, result, begun, effects>>

ReportUnsent(c) ==
    /\ task[c] = "unsent"
    /\ Report("ResponseSend")
    /\ task' = [task EXCEPT ![c] = "done"]
    /\ UNCHANGED <<setup, clientVars, forwardVars, provider, queue, sv, monitor, result, begun, effects, response>>

\* Mutant: A method is dropped although it is marked no_cancel.
CancelMethodAlways(c) ==
    /\ task[c] \in {"started", "used"}
    /\ call[c] = "cancelled" \/ ~link
    /\ task' = [task EXCEPT ![c] = "done"]
    /\ response' = Dropped({c})
    /\ Processed(c)
    /\ UNCHANGED <<setup, clientVars, forwardVars, provider, queue, errors, monitor, result, begun, effects>>

\* The responder is closed: the method is dropped where it awaits.
CancelMethod(c) ==
    /\ task[c] \in {"started", "used"} /\ Cancellable(c)
    /\ call[c] = "cancelled" \/ ~link
    /\ task' = [task EXCEPT ![c] = "done"]
    /\ response' = Dropped({c})
    /\ Processed(c)
    /\ UNCHANGED <<setup, clientVars, forwardVars, provider, queue, errors, monitor, result, begun, effects>>

----------------------------------------------------------------------------
Forward ==
    \/ HandOver \/ Attach \/ Reserve \/ ForwardRecv \/ ForwardUndecodable \/ ForwardClosed
    \/ ForwardDone \/ ForwardSend
ServeStep ==
    \/ ServeFails \/ Terminate \/ ReceiveRequest \/ PreDispatch \/ EndOfRequests \/ Drain
    \/ \E c \in Calls :
         \/ DispatchInline(c) \/ DispatchSpawned(c)
         \/ IgnoreRequest(c) \/ Undecodable(c)
CallStep(c) ==
    \/ AcquirePermit(c) \/ UseTarget(c) \/ MethodReturns(c)
    \/ ReportFailure(c) \/ SendResponse(c) \/ ReportUnsent(c)

Next ==
    \/ \E c \in Made : StartCall(c) \/ CallRefused(c) \/ CallReturns(c) \/ CancelCall(c)
    \/ \E k \in Clients : DropClient(k)
    \/ Lose \/ WindowElapses \/ DropProvider \/ Transfer \/ Discard \/ Forward \/ ServeStep
    \/ \E c \in Calls : CallStep(c) \/ CancelMethod(c)

Spec == Init /\ [][Next]_vars

\* The tasks of the server, the forwarding task and the channel run, time passes,
\* methods return, and a Call that is ready is noticed.
FairSpec ==
    /\ Spec
    /\ WF_vars(WindowElapses) /\ WF_vars(Transfer) /\ WF_vars(Discard) /\ WF_vars(Forward) /\ WF_vars(ServeStep)
    /\ \A c \in Calls : WF_vars(CallStep(c)) /\ WF_vars(CallReturns(c))

----------------------------------------------------------------------------
(* Properties *)

\* Calls of one client take effect in the order in which they were made, except that
\* a call by reference which is processed on its own task may be overtaken by others
\* like it; nothing else uses the target while a method has it mutably or by value
\* (dispatch order, permits and locks of the serve functions, ReqReceiver::forward).
CallsInOrder ==
    /\ \A i, j \in DOMAIN effects :
         LET first == effects[i]  second == effects[j] IN
         i < j /\ second < first /\ setup.by[first] = setup.by[second]
           => /\ ~Inline(second)
              /\ setup.kind[first] = "Ref" /\ setup.kind[second] = "Ref"
    /\ \A c \in Dispatched : setup.kind[c] # "Ref" => Dispatched = {c}

\* When a call that is processed inline and stops the server on an error has failed,
\* no request that came after it is started, whoever made it: a series of started
\* calls ends with the first one that fails (complete_call and the biased select).
FailureStopsServing ==
    \A i \in DOMAIN begun :
      LET c == begun[i] IN
      result[c] = "err" /\ c \in setup.stop /\ Inline(c) => i = Len(begun)

\* What a caller is told is what happened: values and errors are those of the method,
\* NotServed and Connect mean that the method was never started, so that the call can be
\* made again, because nobody receives requests any more or this one could not be
\* decoded, and a method is only abandoned when nobody waits for it and it allows that.
OutcomesHaveCause ==
    \A c \in Made :
      /\ call[c] \in {"ok", "err"} => result[c] = call[c] /\ c \in ToSet(effects)
      /\ call[c] \in {"NotServed", "Connect"} =>
           c \notin ToSet(begun) /\ (~Accepting \/ c \in setup.garbled)
      /\ call[c] = "Failed" => ~link
      /\ call[c] = "Dropped" =>
           \/ setup.kind[c] \notin Served \/ c \in setup.large \/ ~link
           \/ c \notin ToSet(begun) /\ (~Serving \/ ~Accepting)
      /\ task[c] = "done" /\ result[c] = None =>
           Cancellable(c) /\ (call[c] = "cancelled" \/ ~link)

\* "The object is not being served. The request was never accepted, because serving of
\* the object had already finished" (CallError::NotServed, call.rs:166-170).
NotServedIsOver == \A c \in Made : call[c] = "NotServed" => ~Accepting

\* The result of serve: Ok means that everything that was started is finished and
\* answered and that no error was reported, also by a call that was still being
\* processed when the last request had been received; an error has its cause.
ServeResultIsTrue ==
    /\ sv.res = "Ok" /\ ~IsFunction =>
         /\ Active = {}
         /\ \A c \in ToSet(begun) :
              /\ result[c] = "err" => c \notin setup.stop
              /\ response[c] = "dropped" => call[c] = "cancelled" \/ ~link
    /\ sv.res = "CallFailed" => \E c \in setup.stop : result[c] = "err"
    /\ sv.res = "ResponseSend" => \E c \in setup.large : result[c] # None
    /\ sv.res = "Monitor" => Cardinality(setup.garbled \cap {c \in Made : call[c] # "new"}) > setup.tolerate

\* Every call that is waited for returns, serve returns once all clients are gone, and
\* a method that is not cancelled is run to its end once it has been started.
CallsSettle ==
    /\ \A c \in Calls : (call[c] = "waiting") ~> (call[c] # "waiting")
    /\ (clients = {}) ~> ~Serving
    /\ \A c \in Calls : (task[c] = "started" /\ ~Cancellable(c)) ~> (result[c] # None)

\* A call that fails and was made by a client with stop_on_error stops the server
\* (complete_call, Client::stop_on_error).
FailureStops ==
    \A c \in Calls : (result[c] = "err" /\ c \in setup.stop) ~> ~Serving

=============================================================================
