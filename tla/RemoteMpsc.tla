----------------------------- MODULE RemoteMpsc -----------------------------
(***************************************************************************)
(* An mpsc channel of rch whose halves were sent over Links connections.   *)
(*                                                                         *)
(* Queue 0 belongs to the first endpoint and queue Links to the endpoint   *)
(* that has the Receiver.  Link l moves entries from queue l - 1 to queue  *)
(* l: its sending task (send_impl) and its receiving task (recv_impl) are  *)
(* connected by one base channel per lane and by a back channel.  Senders  *)
(* may live at every endpoint (Home): a Sender that was sent away feeds a  *)
(* link, and the Receiver's endpoint may keep Senders of its own.          *)
(*                                                                         *)
(* A value is the n-th one of its sender.  Sending one may fail while it   *)
(* is serialized ("bad") or deserialized ("odd"), connections may fail,    *)
(* and the channel halves are closed and dropped at any time.              *)
(***************************************************************************)
EXTENDS Integers, Sequences, FiniteSets

CONSTANTS
    Senders,    \* Sender handles
    Capacity,   \* BUFFER of each queue, in items
    PortRoom,   \* items the chmux channel of a lane holds
    Setups      \* how the channel is set up and used

\* links: number of connections between the two ends of the channel;
\* lanes: chmux channels per link, 1 plus the parallel ones;
\* home: the queue each Sender feeds; ops: operations the application uses;
\* sends: bound on the values of each Sender; kinds: the kinds of those values;
\* faults: "connect", "disconnect".
ASSUME RemoteMpscAssumption ==
    /\ Capacity \in Nat \ {0} /\ PortRoom \in Nat \ {0}
    /\ \A c \in Setups :
         /\ c.links \in Nat /\ c.lanes \in Nat \ {0} /\ c.sends \in Nat
         /\ DOMAIN c.home \subseteq Senders /\ \A s \in DOMAIN c.home : c.home[s] \in 0..c.links
         /\ c.kinds \subseteq {"good", "bad", "odd"} /\ c.faults \subseteq {"connect", "disconnect"}
         /\ c.ops \subseteq {"send", "try_send", "reserve", "cancel", "oneshot", "close", "drop"}

VARIABLES
    setup,      \* the set-up of this behaviour
    sender,     \* what each Sender handle is doing
    sent,       \* the values of each Sender: their kind and the state of Sending
    strong,     \* the drop_when_closed task of a queue still holds its tokio sender
    queue,      \* entries of each queue
    rxGone,     \* the tokio receiver of a queue has been dropped
    closed,     \* the ClosedReason of each queue
    err,        \* the RemoteSendError of each queue
    fresh,      \* changes of closed and err that the task feeding the queue has not seen
    link,       \* whether a link is being established, up or failed
    tx,         \* sending task of each link
    lane,       \* entries handed to the lanes of a link and not yet transmitted
    port,       \* entries in the chmux channel of each lane
    rx,         \* receiving task of each link
    back,       \* messages in the back channel of each link
    recv,       \* the Receiver
    delivered   \* values the application received

vars == <<setup, sender, sent, strong, queue, rxGone, closed, err, fresh, link, tx, lane, port,
          rx, back, recv, delivered>>
appVars == <<setup, sender, recv, delivered, strong>>
linkVars == <<link, tx, lane, port, rx, back>>

Links == setup.links
Lanes == setup.lanes
Home == [s \in Senders |-> IF s \in DOMAIN setup.home THEN setup.home[s] ELSE 0]
Queues == 0..Links
LinkIds == 1..Links
LaneIds == 1..Lanes
Reasons == {"none", "Closed", "Dropped", "Failed"}
Errors == {"none", "closed", "forward", "connect", "rejected", "item", "send_closed", "send_chmux"}

\* An entry of a queue (SendReq): a value or an error for the Receiver.
Value(s, n) == [type |-> "value", from |-> s, n |-> n]
ItemError == [type |-> "item_error"]
Disconnected == [type |-> "disconnected"]

Init ==
    /\ setup \in Setups
    /\ sender = [s \in Senders |->
                   [op |-> IF s \in DOMAIN setup.home THEN "idle" ELSE "gone", kind |-> "good"]]
    /\ sent = [s \in Senders |-> <<>>]
    /\ strong = [h \in Queues |-> \E s \in DOMAIN setup.home : setup.home[s] = h]
    /\ queue = [h \in Queues |-> <<>>]
    /\ rxGone = [h \in Queues |-> FALSE]
    /\ closed = [h \in Queues |-> "none"]
    /\ err = [h \in Queues |-> "none"]
    /\ fresh = [h \in Queues |-> {}]
    /\ link = [l \in LinkIds |-> "connecting"]
    /\ tx = [l \in LinkIds |-> [run |-> TRUE, next |-> 1]]
    /\ lane = [l \in LinkIds |-> [w \in LaneIds |-> <<>>]]
    /\ port = [l \in LinkIds |-> [w \in LaneIds |-> <<>>]]
    /\ rx = [l \in LinkIds |-> [run |-> TRUE, next |-> 1, push |-> <<>>, last |-> FALSE]]
    /\ back = [l \in LinkIds |-> <<>>]
    /\ recv = [state |-> "open", finalErr |-> FALSE, itemErr |-> FALSE, ended |-> "no"]
    /\ delivered = <<>>

-----------------------------------------------------------------------------
(* The queues and their watch channels *)

Busy(s) == sender[s].op \in {"send", "reserve", "permit"}

\* A permit of Sender::reserve occupies its place in the queue.
Room(h) ==
    Len(queue[h]) + Cardinality({s \in Senders : Home[s] = h /\ sender[s].op = "permit"})
        < Capacity

\* A tokio sender of the queue exists, thus its receiver does not see the end.
TxAlive(h) ==
    \/ strong[h]
    \/ \E s \in Senders : Home[s] = h /\ Busy(s)
    \/ h > 0 /\ rx[h].run

\* Sender::tx can be upgraded: somebody holds the Arc.  A pending send does, a permit
\* has a sender of its own.  The task of a Sender that was sent away holds it too.
Upgradable(h) ==
    \/ strong[h]
    \/ \E s \in Senders : Home[s] = h /\ sender[s].op = "send"
    \/ h > 0 /\ rx[h].run

\* The closed_tx of the queue is gone.
ClosedTxGone(h) ==
    IF h = Links THEN recv.state = "dropped"
    ELSE ~tx[h + 1].run /\ \A w \in LaneIds : lane[h + 1][w] = <<>>

\* Sending on closed_tx and remote_send_err_tx.
SetClosed(h, reason) ==
    /\ closed' = [closed EXCEPT ![h] = reason]
    /\ fresh' = [fresh EXCEPT ![h] = @ \cup {"closed"}]

SetFailure(h, error, reason) ==
    /\ err' = [err EXCEPT ![h] = error]
    /\ closed' = [closed EXCEPT ![h] = reason]
    /\ fresh' = [fresh EXCEPT ![h] = @ \cup {"closed", "err"}]

\* What the failure of a send over chmux says about the channel.
FromSendErrorKind(error) ==
    CASE error = "send_closed" -> "Dropped"
      [] error = "send_chmux" -> "Failed"
      [] OTHER -> "none"

\* What the failure to establish a link says: a rejected request was never taken over.
FromConnectError(error) == IF error = "rejected" THEN "Dropped" ELSE "Failed"

\* The reason for closure that a send error reports; none if it is the item's fault.
ErrorReason(error) ==
    CASE error = "closed" -> "Closed"
      [] error = "forward" -> "Failed"
      [] error \in {"connect", "rejected"} -> FromConnectError(error)
      [] OTHER -> FromSendErrorKind(error)

\* Sender::closed_reason
ClosedReason(h) ==
    IF closed[h] # "none" THEN closed[h]
    ELSE IF err[h] = "item" THEN "Failed" ELSE ErrorReason(err[h])

\* The Sending handles of entries that are dropped resolve to SendingError::Dropped, those
\* of an acknowledged or transmitted entry to Ok.
Resolve(entries, outcome) ==
    sent' = [s \in Senders |-> [n \in 1..Len(sent[s]) |->
                IF sent[s][n].state = "pending" /\ Value(s, n) \in entries
                THEN [sent[s][n] EXCEPT !.state = outcome] ELSE sent[s][n]]]

Entries(q) == {q[i] : i \in 1..Len(q)}

\* Mutant: the handles of the dropped entries are forgotten.
DropQueueUnresolved(h) ==
    /\ rxGone' = [rxGone EXCEPT ![h] = TRUE]
    /\ queue' = [queue EXCEPT ![h] = <<>>]
    /\ UNCHANGED sent

\* The tokio receiver of the queue is dropped with everything in it.
DropQueue(h) ==
    /\ rxGone' = [rxGone EXCEPT ![h] = TRUE]
    /\ queue' = [queue EXCEPT ![h] = <<>>]
    /\ Resolve(Entries(queue[h]), "dropped")

\* drop_when_closed: the strong reference goes with the last Sender or with the channel.
DropWhenClosed(h) ==
    /\ h \in Queues /\ strong[h]
    /\ \/ \A s \in Senders : Home[s] = h => sender[s].op = "gone"
       \/ closed[h] # "none"
       \/ ClosedTxGone(h)
    /\ strong' = [strong EXCEPT ![h] = FALSE]
    /\ UNCHANGED <<setup, sender, sent, queue, rxGone, closed, err, fresh, linkVars, recv, delivered>>

-----------------------------------------------------------------------------
(* Sender *)

\* A value is put into the queue, its Sending handle is pending.
Enqueue(s, kind) ==
    LET h == Home[s] IN
    IF rxGone[h] THEN sent' = [sent EXCEPT ![s] = Append(@, [kind |-> kind, state |-> "dropped"])]
                      /\ UNCHANGED queue
    ELSE /\ queue' = [queue EXCEPT ![h] = Append(@, Value(s, Len(sent[s]) + 1))]
         /\ sent' = [sent EXCEPT ![s] = Append(@, [kind |-> kind, state |-> "pending"])]

MaySend(s, op) ==
    /\ op \in setup.ops
    /\ sender[s].op = "idle"
    /\ Len(sent[s]) < setup.sends
    /\ err[Home[s]] = "none"
    /\ Upgradable(Home[s])

\* Sender::send up to waiting for capacity.
SendBegin(s, kind) ==
    /\ MaySend(s, "send")
    /\ sender' = [sender EXCEPT ![s] = [op |-> "send", kind |-> kind]]
    /\ UNCHANGED <<setup, sent, strong, queue, rxGone, closed, err, fresh, linkVars, recv, delivered>>

\* Sender::send with capacity, or with a queue that is gone: the value is returned.
SendEnd(s) ==
    /\ sender[s].op = "send"
    /\ \/ rxGone[Home[s]] /\ UNCHANGED <<sent, queue>>
       \/ ~rxGone[Home[s]] /\ Room(Home[s]) /\ Enqueue(s, sender[s].kind)
    /\ sender' = [sender EXCEPT ![s].op = "idle"]
    /\ UNCHANGED <<setup, strong, rxGone, closed, err, fresh, linkVars, recv, delivered>>

\* Sender::try_send
TrySend(s, kind) ==
    /\ MaySend(s, "try_send")
    /\ ~rxGone[Home[s]] /\ Room(Home[s])
    /\ Enqueue(s, kind)
    /\ UNCHANGED <<setup, sender, strong, rxGone, closed, err, fresh, linkVars, recv, delivered>>

\* The send of a oneshot channel is a try_send that uses up the Sender.
OneshotSend(s, kind) ==
    /\ MaySend(s, "oneshot")
    /\ ~rxGone[Home[s]] /\ Room(Home[s])
    /\ Enqueue(s, kind)
    /\ sender' = [sender EXCEPT ![s].op = "gone"]
    /\ UNCHANGED <<setup, strong, rxGone, closed, err, fresh, linkVars, recv, delivered>>

\* Sender::reserve up to waiting for capacity.
ReserveBegin(s) ==
    /\ MaySend(s, "reserve")
    /\ sender' = [sender EXCEPT ![s].op = "reserve"]
    /\ UNCHANGED <<setup, sent, strong, queue, rxGone, closed, err, fresh, linkVars, recv, delivered>>

\* Sender::reserve obtains its permit, or fails because the queue is gone.
ReserveEnd(s) ==
    /\ sender[s].op = "reserve"
    /\ \/ rxGone[Home[s]] /\ sender' = [sender EXCEPT ![s].op = "idle"]
       \/ ~rxGone[Home[s]] /\ Room(Home[s]) /\ sender' = [sender EXCEPT ![s].op = "permit"]
    /\ UNCHANGED <<setup, sent, strong, queue, rxGone, closed, err, fresh, linkVars, recv, delivered>>

\* Permit::send: the value is lost when the queue is gone.
PermitSend(s, kind) ==
    /\ sender[s].op = "permit"
    /\ Enqueue(s, kind)
    /\ sender' = [sender EXCEPT ![s].op = "idle"]
    /\ UNCHANGED <<setup, strong, rxGone, closed, err, fresh, linkVars, recv, delivered>>

\* The future or the Permit is dropped.
Cancel(s) ==
    /\ "cancel" \in setup.ops
    /\ Busy(s)
    /\ sender' = [sender EXCEPT ![s].op = "idle"]
    /\ UNCHANGED <<setup, sent, strong, queue, rxGone, closed, err, fresh, linkVars, recv, delivered>>

\* The Sender handle is dropped.
DropSender(s) ==
    /\ sender[s].op = "idle"
    /\ sender' = [sender EXCEPT ![s].op = "gone"]
    /\ UNCHANGED <<setup, sent, strong, queue, rxGone, closed, err, fresh, linkVars, recv, delivered>>

-----------------------------------------------------------------------------
(* Establishing a link *)

\* The requests for the ports were accepted.
Establish(l) ==
    /\ l \in LinkIds /\ link[l] = "connecting"
    /\ link' = [link EXCEPT ![l] = "up"]
    /\ UNCHANGED <<sent, queue, rxGone, closed, err, fresh, appVars, tx, lane, port, rx, back>>

\* The requests were rejected, or no ports are left.
ConnectFails(l) ==
    /\ "connect" \in setup.faults
    /\ link[l] = "connecting"
    /\ link' = [link EXCEPT ![l] = "failed"]
    /\ UNCHANGED <<sent, queue, rxGone, closed, err, fresh, appVars, tx, lane, port, rx, back>>

\* The connection is lost: of what was under way, a part has reached the other side.
Disconnect(l) ==
    /\ "disconnect" \in setup.faults
    /\ link[l] = "up"
    /\ link' = [link EXCEPT ![l] = "lost"]
    /\ \E keep \in [LaneIds -> 0..PortRoom], b \in 0..Len(back[l]) :
         /\ \A w \in LaneIds : keep[w] <= Len(port[l][w])
         /\ port' = [port EXCEPT ![l] = [w \in LaneIds |-> SubSeq(port[l][w], 1, keep[w])]]
         /\ back' = [back EXCEPT ![l] = SubSeq(@, 1, b)]
    /\ UNCHANGED <<sent, queue, rxGone, closed, err, fresh, appVars, tx, lane, rx>>

\* The sending side learns that the link failed: the error is kept for the Senders.
SenderConnectError(l) ==
    /\ l \in LinkIds /\ link[l] = "failed" /\ tx[l].run
    /\ tx' = [tx EXCEPT ![l].run = FALSE]
    /\ \E e \in {"connect", "rejected"} : err' = [err EXCEPT ![l - 1] = e]
    /\ fresh' = [fresh EXCEPT ![l - 1] = @ \cup {"err"}]
    /\ DropQueue(l - 1)
    /\ UNCHANGED <<closed, appVars, link, lane, port, rx, back>>

\* The receiving side learns that the link failed: the Receiver is sent the error.
ReceiverConnectError(l) ==
    /\ l \in LinkIds /\ link[l] = "failed" /\ rx[l].run /\ rx[l].push = <<>>
    /\ rx' = [rx EXCEPT ![l].push = <<Disconnected>>, ![l].last = TRUE]
    /\ UNCHANGED <<sent, queue, rxGone, closed, err, fresh, appVars, link, tx, lane, port, back>>

-----------------------------------------------------------------------------
(* send_impl *)

Established(l) == link[l] \in {"up", "lost"}

\* With a single lane the task itself sends.  With several, a lane holds what its task is
\* sending and one more; while a further entry waits for room the task does nothing else.
LaneRoom == IF Lanes = 1 THEN 0 ELSE 2

SendIdle(l) ==
    /\ l \in LinkIds /\ Established(l) /\ tx[l].run
    /\ \A w \in LaneIds : Len(lane[l][w]) <= LaneRoom

\* The task ends: the rest of the queue is dropped.
EndSending(l) ==
    /\ tx' = [tx EXCEPT ![l].run = FALSE]
    /\ DropQueue(l - 1)

\* The next entry goes to the lane whose turn it is.
TakeRequest(l) ==
    /\ SendIdle(l)
    /\ queue[l - 1] # <<>>
    /\ lane' = [lane EXCEPT ![l][tx[l].next] = Append(@, Head(queue[l - 1]))]
    /\ queue' = [queue EXCEPT ![l - 1] = Tail(@)]
    /\ tx' = [tx EXCEPT ![l].next = (@ % Lanes) + 1]
    /\ UNCHANGED <<sent, rxGone, closed, err, fresh, appVars, link, port, rx, back>>

\* All senders of the queue are gone and it is empty.
RequestsEnd(l) ==
    /\ SendIdle(l)
    /\ queue[l - 1] = <<>> /\ ~TxAlive(l - 1)
    /\ EndSending(l)
    /\ UNCHANGED <<closed, err, fresh, appVars, link, lane, port, rx, back>>

\* The Receiver was closed, dropped or failed.
BackChannel(l) ==
    /\ SendIdle(l)
    /\ \/ /\ back[l] # <<>>
          /\ back' = [back EXCEPT ![l] = Tail(@)]
          /\ IF Head(back[l]) = "close"
             THEN SetFailure(l - 1, "closed", "Closed")
             ELSE SetFailure(l - 1, "forward", "Failed")
       \/ /\ back[l] = <<>> /\ link[l] = "up" /\ ~rx[l].run
          /\ SetFailure(l - 1, "send_closed", "Dropped")
          /\ UNCHANGED back
       \/ /\ back[l] = <<>> /\ link[l] = "lost"
          /\ SetFailure(l - 1, "send_chmux", "Failed")
          /\ UNCHANGED back
    /\ EndSending(l)
    /\ UNCHANGED <<appVars, link, lane, port, rx>>

Kind(e) == IF e.type = "value" THEN sent[e.from][e.n].kind ELSE "good"

\* handle_send_req, successful.  The Receiver may be gone without us knowing.
Transmit(l, w) ==
    /\ l \in LinkIds /\ w \in LaneIds /\ lane[l][w] # <<>>
    /\ link[l] = "up"
    /\ LET e == Head(lane[l][w]) IN
       /\ Kind(e) # "bad"
       /\ IF rx[l].run THEN /\ Len(port[l][w]) < PortRoom
                            /\ port' = [port EXCEPT ![l][w] = Append(@, e)]
                       ELSE UNCHANGED port
       /\ Resolve({e}, "ok")
    /\ lane' = [lane EXCEPT ![l][w] = Tail(@)]
    /\ UNCHANGED <<queue, rxGone, closed, err, fresh, appVars, link, tx, rx, back>>

\* handle_send_req, failed: no more values are accepted, but the queued ones are sent.
TransmitFails(l, w) ==
    /\ l \in LinkIds /\ w \in LaneIds /\ lane[l][w] # <<>>
    /\ LET e == Head(lane[l][w]) IN
       /\ \/ Kind(e) = "bad" /\ SetFailure(l - 1, "item", "Failed")
          \/ link[l] = "lost" /\ SetFailure(l - 1, "send_chmux", "Failed")
          \/ ~rx[l].run /\ SetFailure(l - 1, "send_closed", "Failed")
       /\ Resolve({e}, "error")
    /\ lane' = [lane EXCEPT ![l][w] = Tail(@)]
    /\ UNCHANGED <<queue, rxGone, appVars, link, tx, port, rx, back>>

-----------------------------------------------------------------------------
(* recv_impl *)

\* While the task waits for room in the queue, it does nothing else.
RecvIdle(l) == l \in LinkIds /\ Established(l) /\ rx[l].run /\ rx[l].push = <<>>

\* The end of a lane was sent.
LaneEnded(l, w) == ~tx[l].run /\ lane[l][w] = <<>>

\* Mutant: only a changed reason is noticed, and only closing is passed on.
NoticeClosedOnly(l) ==
    /\ RecvIdle(l)
    /\ "closed" \in fresh[l]
    /\ fresh' = [fresh EXCEPT ![l] = @ \ {"closed"}]
    /\ back' = IF closed[l] = "Closed" THEN [back EXCEPT ![l] = Append(@, "close")] ELSE back
    /\ UNCHANGED <<sent, queue, rxGone, closed, err, appVars, link, tx, lane, port, rx>>

\* The Receiver was closed or dropped, or the task serving it failed.
NoticeClosed(l) ==
    /\ RecvIdle(l)
    /\ \/ /\ "closed" \in fresh[l]
          /\ fresh' = [fresh EXCEPT ![l] = @ \ {"closed"}]
          /\ IF closed[l] = "Dropped"
             THEN /\ rx' = [rx EXCEPT ![l].run = FALSE]
                  /\ UNCHANGED back
             ELSE /\ back' = [back EXCEPT ![l] =
                                Append(@, IF closed[l] = "Closed" THEN "close" ELSE "error")]
                  /\ UNCHANGED rx
       \/ /\ "closed" \notin fresh[l] /\ ClosedTxGone(l)
          /\ rx' = [rx EXCEPT ![l].run = FALSE]
          /\ UNCHANGED <<fresh, back>>
    /\ UNCHANGED <<sent, queue, rxGone, closed, err, appVars, link, tx, lane, port>>

\* An endpoint further on reported an error.
NoticeError(l) ==
    /\ RecvIdle(l)
    /\ "err" \in fresh[l]
    /\ fresh' = [fresh EXCEPT ![l] = @ \ {"err"}]
    /\ back' = [back EXCEPT ![l] = Append(@, "error")]
    /\ UNCHANGED <<sent, queue, rxGone, closed, err, appVars, link, tx, lane, port, rx>>

\* What comes from the lane whose turn it is: an entry, the end or a failure.
ReceiveData(l) ==
    /\ RecvIdle(l)
    /\ LET w == rx[l].next
           Got(e, last) == rx' = [rx EXCEPT ![l].push = <<e>>, ![l].last = last,
                                            ![l].next = (@ % Lanes) + 1] IN
       \/ /\ port[l][w] # <<>>
          /\ Got(IF Kind(Head(port[l][w])) = "odd" THEN ItemError ELSE Head(port[l][w]), FALSE)
          /\ port' = [port EXCEPT ![l][w] = Tail(@)]
       \/ /\ port[l][w] = <<>> /\ link[l] = "up" /\ LaneEnded(l, w)
          /\ rx' = [rx EXCEPT ![l].run = FALSE]
          /\ UNCHANGED port
       \/ /\ port[l][w] = <<>> /\ link[l] = "lost"
          /\ Got(Disconnected, TRUE)
          /\ UNCHANGED port
    /\ UNCHANGED <<sent, queue, rxGone, closed, err, fresh, appVars, link, tx, lane, back>>

\* The entry is put into the queue; the task ends if that is gone or the lane failed.
Push(l) ==
    /\ l \in LinkIds /\ rx[l].run /\ rx[l].push # <<>>
    /\ \/ /\ rxGone[l]
          /\ rx' = [rx EXCEPT ![l].run = FALSE, ![l].push = <<>>]
          /\ UNCHANGED queue
       \/ /\ ~rxGone[l] /\ Room(l)
          /\ queue' = [queue EXCEPT ![l] = @ \o rx[l].push]
          /\ rx' = [rx EXCEPT ![l].push = <<>>, ![l].run = ~rx[l].last]
    /\ UNCHANGED <<sent, rxGone, closed, err, fresh, appVars, link, tx, lane, port, back>>

-----------------------------------------------------------------------------
(* Receiver *)

\* Receiver::recv, poll_recv and try_recv: an error of the connection is held back.
Recv ==
    /\ recv.state # "dropped" /\ queue[Links] # <<>>
    /\ LET e == Head(queue[Links]) IN
       /\ delivered' = IF e.type = "value" THEN Append(delivered, e) ELSE delivered
       /\ recv' = [recv EXCEPT !.finalErr = @ \/ e.type = "disconnected",
                               !.itemErr = @ \/ e.type = "item_error"]
       /\ Resolve({e}, "ok")
    /\ queue' = [queue EXCEPT ![Links] = Tail(@)]
    /\ UNCHANGED <<setup, sender, strong, rxGone, closed, err, fresh, linkVars>>

\* Mutant: the error held back is forgotten.
RecvEndForgets ==
    /\ recv.state # "dropped" /\ recv.ended = "no"
    /\ queue[Links] = <<>> /\ ~TxAlive(Links)
    /\ recv' = [recv EXCEPT !.ended = "clean", !.finalErr = FALSE]
    /\ UNCHANGED <<setup, sender, sent, strong, queue, rxGone, closed, err, fresh, linkVars, delivered>>

\* Receiver::recv at the end of the channel returns the error held back, if any.
RecvEnd ==
    /\ recv.state # "dropped" /\ recv.ended = "no"
    /\ queue[Links] = <<>> /\ ~TxAlive(Links)
    /\ recv' = [recv EXCEPT !.ended = IF recv.finalErr THEN "error" ELSE "clean",
                            !.finalErr = FALSE]
    /\ UNCHANGED <<setup, sender, sent, strong, queue, rxGone, closed, err, fresh, linkVars, delivered>>

\* Receiver::close
Close ==
    /\ "close" \in setup.ops
    /\ recv.state = "open"
    /\ recv' = [recv EXCEPT !.state = "closed"]
    /\ SetClosed(Links, "Closed")
    /\ UNCHANGED <<setup, sender, sent, strong, queue, rxGone, err, linkVars, delivered>>

\* The Receiver is dropped.
DropReceiver ==
    /\ "drop" \in setup.ops
    /\ recv.state # "dropped"
    /\ recv' = [recv EXCEPT !.state = "dropped"]
    /\ IF recv.state = "open" THEN SetClosed(Links, "Dropped") ELSE UNCHANGED <<closed, fresh>>
    /\ DropQueue(Links)
    /\ UNCHANGED <<setup, sender, strong, err, linkVars, delivered>>

-----------------------------------------------------------------------------

\* The send and reserve futures of a Sender; a permit is used in the end.
SendFuture(s) ==
    \/ SendEnd(s) \/ ReserveEnd(s)
    \/ \E k \in setup.kinds : PermitSend(s, k)

\* What the application may do at any time.
Application ==
    \/ \E s \in Senders :
         \/ \E k \in setup.kinds : SendBegin(s, k) \/ TrySend(s, k) \/ OneshotSend(s, k)
         \/ ReserveBegin(s) \/ Cancel(s) \/ DropSender(s)
    \/ Close \/ DropReceiver

\* The task of send_impl, one that it starts for a lane, and the task of recv_impl.
SendTask(l) == SenderConnectError(l) \/ TakeRequest(l) \/ RequestsEnd(l) \/ BackChannel(l)

LaneTask(l, w) == Transmit(l, w) \/ TransmitFails(l, w)

RecvTask(l) ==
    ReceiverConnectError(l) \/ NoticeClosed(l) \/ NoticeError(l) \/ ReceiveData(l) \/ Push(l)

Receive == Recv \/ RecvEnd

Next ==
    \/ Application \/ Receive
    \/ \E s \in Senders : SendFuture(s)
    \/ \E h \in Queues : DropWhenClosed(h)
    \/ \E l \in LinkIds :
         \/ Establish(l) \/ ConnectFails(l) \/ Disconnect(l) \/ SendTask(l) \/ RecvTask(l)
         \/ \E w \in LaneIds : LaneTask(l, w)

Spec == Init /\ [][Next]_vars

AnyLink == UNION {1..c.links : c \in Setups}
AnyLane == UNION {1..c.lanes : c \in Setups}

\* Tasks run, and an application that has not dropped the Receiver goes on receiving.
\* Those that wait for room in a queue are served in turn, thus strong fairness for them.
Fairness ==
    /\ \A s \in Senders : SF_vars(SendFuture(s))
    /\ \A h \in AnyLink \cup {0} : WF_vars(DropWhenClosed(h))
    /\ \A l \in AnyLink :
         /\ WF_vars(Establish(l)) /\ WF_vars(SendTask(l)) /\ SF_vars(RecvTask(l))
         /\ \A w \in AnyLane : WF_vars(LaneTask(l, w))
    /\ WF_vars(Receive)

FairSpec == Spec /\ Fairness

-----------------------------------------------------------------------------
(* Properties *)

\* An item failed to be serialized on a link with parallel lanes.
LaneSkipped ==
    Lanes > 1 /\ \E s \in Senders : \E n \in 1..Len(sent[s]) :
                   sent[s][n].kind = "bad" /\ sent[s][n].state = "error"

\* The values of one Sender are received in the order they were sent, and none twice.
InOrder ==
    \A i, j \in 1..Len(delivered) :
        i < j /\ delivered[i].from = delivered[j].from => delivered[i].n < delivered[j].n

\* When the Receiver reports the normal end of the channel, it has received every value
\* whose Sending handle did not report an error.
CompleteAtEnd ==
    recv.ended = "clean" /\ recv.state = "open" =>
        \A s \in Senders : \A n \in 1..Len(sent[s]) :
            \/ sent[s][n].state \in {"error", "dropped"}
            \/ Value(s, n) \in Entries(delivered)
            \/ sent[s][n].kind = "odd" /\ recv.itemErr

\* mod.rs of rch: values are not lost intermittently.
NoIntermittentLoss == InOrder /\ CompleteAtEnd

\* Without parallel lanes a value that cannot be serialized does not affect the others.
FaithfulDelivery == LaneSkipped \/ NoIntermittentLoss

\* ClosedReason::Failed is reported only when something failed.
FailedMeansFailure ==
    (\E h \in Queues : ClosedReason(h) = "Failed") =>
        \/ \E l \in LinkIds : link[l] \in {"failed", "lost"}
        \/ \E s \in Senders : \E n \in 1..Len(sent[s]) :
              sent[s][n].kind = "bad" /\ sent[s][n].state = "error"

\* The end gets through in both directions and over all links: closing or dropping the
\* Receiver reaches every Sender, and when all Senders are gone, the Receiver gets to the
\* end of the channel.
EndsPropagate ==
    /\ recv.state # "open" ~>
         \A s \in Senders : sender[s].op = "gone" \/ ClosedReason(Home[s]) # "none"
    /\ (\A s \in Senders : sender[s].op = "gone") ~> recv.ended # "no" \/ recv.state = "dropped"

\* Every Sending handle resolves, also when a Receiver, a task or a connection is gone.
SendingResolves ==
    []<>(\A s \in Senders : \A n \in 1..Len(sent[s]) : sent[s][n].state # "pending")
=============================================================================
