------------------------------- MODULE Watch -------------------------------
(***************************************************************************)
(* A watch channel of rch: its receivers see the latest value.             *)
(*                                                                         *)
(* Cell 0 is the tokio watch channel the Sender writes to, link l carries  *)
(* the value of cell l - 1 to cell l over a connection: its sending task   *)
(* (send_impl) transmits what is current when the rate limit allows it,    *)
(* its receiving task (recv_impl) writes to the next cell and sends errors *)
(* and rate limits back.  Receivers live at every cell; sending one away   *)
(* sets up the next link.                                                  *)
(*                                                                         *)
(* A value is the n-th one sent.  It may fail to be serialized ("bad") or  *)
(* deserialized ("odd").  Time is left out: a delay passes eventually.     *)
(***************************************************************************)
EXTENDS Integers, Sequences, FiniteSets, FiniteSetsExt

CONSTANTS
    Receivers,  \* Receiver handles
    PortRoom,   \* values the chmux channel of a link holds
    BackRoom,   \* messages its back channel holds
    Setups      \* how the channel is set up and used

\* links: number of connections; up: how many of them exist from the start, because the
\* Sender was sent away; at: the cell of each Receiver; sends: bound on the values;
\* kinds: their kinds; limits: rate limits that are set; changes: bound on setting them;
\* single: TransferStrategy::Single; forward: the values come from a local channel;
\* ops: "modify", "drop", "clone", "subscribe", "transport", "clear", "mark"; faults:
\* "connect", "disconnect", "carried" (the Sender that was sent away had an error).
ASSUME WatchAssumption ==
    /\ PortRoom \in Nat \ {0} /\ BackRoom \in Nat \ {0}
    /\ \A c \in Setups :
         /\ c.links \in Nat /\ c.up \in 0..c.links /\ c.sends \in Nat /\ c.changes \in Nat
         /\ DOMAIN c.at \subseteq Receivers /\ \A r \in DOMAIN c.at : c.at[r] \in 0..c.up
         /\ c.kinds \subseteq {"good", "bad", "odd"} /\ c.limits \subseteq Nat
         /\ c.single \in BOOLEAN /\ c.forward \in BOOLEAN

VARIABLES
    setup,      \* the set-up of this behaviour
    kind,       \* the kinds of the values sent so far
    local,      \* the local channel whose values are forwarded to the Sender
    sender,     \* the Sender: whether it exists, its current_err and rate limit
    cell,       \* the value of each cell and its version
    errs,       \* the RemoteSendErrors queued at each cell
    fresh,      \* the rate limits of a cell have changed
    link,       \* whether a link is unused, being established, up, failed or lost
    tx,         \* sending task of each link
    port,       \* what is in the chmux channel of each link
    rx,         \* receiving task of each link
    back,       \* what is in the back channel of each link
    recv,       \* the Receiver handles
    changes     \* how often a rate limit was set

vars == <<setup, kind, local, sender, cell, errs, fresh, link, tx, port, rx, back, recv, changes>>

Cells == 0..setup.links
LinkIds == 1..setup.links
Limits == setup.limits \cup {0}

\* A value or the error in its place; n is the value it stands for.
Val(n, e) == [n |-> n, err |-> e]
End == Val(-1, "end")

\* Messages in the back channel.
Back(m, limit) == [msg |-> m, limit |-> limit]
Disconnecting == {"connect", "chmux"}

NoTask ==
    [run |-> FALSE, seen |-> 0, pending |-> FALSE, closed |-> FALSE, cool |-> FALSE,
     sending |-> <<>>, all |-> FALSE, limit |-> 0, why |-> "none"]
NoRx == [run |-> FALSE, told |-> -1, out |-> <<>>]

Init ==
    /\ setup \in Setups
    /\ kind = <<>>
    /\ local = [n |-> 0, open |-> setup.forward, task |-> setup.forward]
    /\ sender = [open |-> TRUE, err |-> "none", limit |-> 0, told |-> FALSE]
    /\ cell = [h \in Cells |-> [val |-> Val(0, "none"), ver |-> 0]]
    /\ errs = [h \in Cells |-> IF h = setup.up /\ "carried" \in setup.faults
                               THEN <<"forward">> ELSE <<>>]
    \* The Sender that was sent away gave up its own rate limit.
    /\ fresh = [h \in Cells |-> h \in 1..setup.up]
    /\ link = [l \in LinkIds |-> IF l <= setup.up THEN "connecting" ELSE "unused"]
    /\ tx = [l \in LinkIds |-> [NoTask EXCEPT !.run = (l <= setup.up)]]
    /\ port = [l \in LinkIds |-> <<>>]
    /\ rx = [l \in LinkIds |-> [NoRx EXCEPT !.run = (l <= setup.up)]]
    /\ back = [l \in LinkIds |-> <<>>]
    /\ recv = [r \in Receivers |->
                 [at |-> IF r \in DOMAIN setup.at THEN setup.at[r] ELSE -1,
                  seen |-> 0, limit |-> 0, got |-> 0, ended |-> "no"]]
    /\ changes = 0

-----------------------------------------------------------------------------
(* Cells *)

Live(r) == recv[r].at >= 0

\* The tokio receivers of a cell: Receiver handles and the sending task of the next link.
Watched(h) ==
    \/ \E r \in Receivers : recv[r].at = h
    \/ h < setup.links /\ tx[h + 1].run

\* The tokio sender of a cell exists.
Fed(h) == IF h = 0 THEN sender.open ELSE rx[h].run

Put(h, v) == cell' = [cell EXCEPT ![h] = [val |-> v, ver |-> @.ver + 1]]

Report(h, e) == errs' = [errs EXCEPT ![h] = Append(@, e)]

\* The rate limits that are alive at a cell; the Sender and the sending task hold one too.
Held(h) ==
    {recv[r].limit : r \in {q \in Receivers : recv[q].at = h}}
        \cup (IF h < setup.links /\ tx[h + 1].run THEN {tx[h + 1].limit} ELSE {})
        \cup (IF h = 0 /\ sender.open THEN {0} ELSE {})

\* RateLimitReceiver::compute
Compute(h) == IF Held(h) = {} THEN 0 ELSE Min(Held(h))

\* RateLimitSender::set and its Drop.  Nobody waits for a change at the Sender's cell.
LimitChanged(h) == fresh' = [fresh EXCEPT ![h] = h > 0]

-----------------------------------------------------------------------------
(* Sender *)

linkVars == <<link, tx, port, rx, back>>

NewValue(k) == Len(kind) < setup.sends /\ kind' = Append(kind, k)

\* Sender::send: without receivers the value is discarded.
Send(k) ==
    /\ sender.open /\ ~setup.forward /\ NewValue(k)
    /\ IF Watched(0) THEN Put(0, Val(Len(kind'), "none")) ELSE UNCHANGED cell
    /\ UNCHANGED <<setup, local, sender, errs, fresh, linkVars, recv, changes>>

\* Sender::send_modify, send_if_modified, send_if_different and send_replace.
SendModify(k) ==
    /\ "modify" \in setup.ops
    /\ sender.open /\ ~setup.forward /\ NewValue(k)
    /\ Put(0, Val(Len(kind'), "none"))
    /\ UNCHANGED <<setup, local, sender, errs, fresh, linkVars, recv, changes>>

\* The local channel of forward gets a new value.
LocalSend(k) ==
    /\ local.open /\ local.task /\ NewValue(k)
    /\ local' = [local EXCEPT !.n = @ + 1]
    /\ UNCHANGED <<setup, sender, cell, errs, fresh, linkVars, recv, changes>>

LocalDrop ==
    /\ local.open
    /\ local' = [local EXCEPT !.open = FALSE]
    /\ UNCHANGED <<setup, kind, sender, cell, errs, fresh, linkVars, recv, changes>>

\* The task of forward: the latest value is sent on, the end drops the Sender.
Forward ==
    /\ local.task
    /\ IF Watched(0) /\ (local.open \/ local.n # cell[0].val.n)
       THEN /\ local.n # cell[0].val.n
            /\ Put(0, Val(local.n, "none"))
            /\ UNCHANGED <<local, sender, fresh>>
       ELSE /\ local' = [local EXCEPT !.task = FALSE]
            /\ sender' = [sender EXCEPT !.open = FALSE]
            /\ LimitChanged(0)
            /\ UNCHANGED cell
    /\ UNCHANGED <<setup, kind, errs, linkVars, recv, changes>>

\* The Sender is dropped.
DropSender ==
    /\ sender.open /\ ~setup.forward
    /\ sender' = [sender EXCEPT !.open = FALSE]
    /\ LimitChanged(0)
    /\ UNCHANGED <<setup, kind, local, cell, errs, linkVars, recv, changes>>

\* Sender::error: the oldest error is kept until it is cleared.
UpdateError ==
    /\ sender.open /\ sender.err = "none" /\ errs[0] # <<>>
    /\ sender' = [sender EXCEPT !.err = Head(errs[0]), !.told = TRUE]
    /\ errs' = [errs EXCEPT ![0] = Tail(@)]
    /\ UNCHANGED <<setup, kind, local, cell, fresh, linkVars, recv, changes>>

\* Sender::clear_error, also by Sender::check for an error that is not due to a value.
ClearError ==
    /\ "clear" \in setup.ops
    /\ sender.open /\ sender.err # "none"
    /\ sender' = [sender EXCEPT !.err = "none"]
    /\ UNCHANGED <<setup, kind, local, cell, errs, fresh, linkVars, recv, changes>>

MaySet(limit) == changes < setup.changes /\ changes' = changes + 1

\* Sender::set_rate_limit and Forwarding::set_rate_limit
SetSenderLimit(limit) ==
    /\ sender.open /\ sender.limit # limit /\ MaySet(limit)
    /\ sender' = [sender EXCEPT !.limit = limit]
    /\ UNCHANGED <<setup, kind, local, cell, errs, fresh, linkVars, recv>>

-----------------------------------------------------------------------------
(* Receiver *)

\* Receiver::changed, wait_for and ReceiverStream: a new value, the end or an error that
\* ended the channel.
Changed(r) ==
    /\ Live(r)
    /\ LET c == cell[recv[r].at] IN
       \/ /\ c.val.err \in Disconnecting /\ recv[r].ended = "no"
          /\ recv' = [recv EXCEPT ![r].seen = c.ver, ![r].ended = "error"]
       \/ /\ c.val.err \notin Disconnecting /\ c.ver # recv[r].seen
          /\ recv' = [recv EXCEPT ![r].seen = c.ver, ![r].got = c.val.n]
       \/ /\ c.val.err \notin Disconnecting /\ c.ver = recv[r].seen
          /\ ~Fed(recv[r].at) /\ recv[r].ended = "no"
          /\ recv' = [recv EXCEPT ![r].ended = "closed"]
    /\ UNCHANGED <<setup, kind, local, sender, cell, errs, fresh, linkVars, changes>>

\* Receiver::borrow_and_update and mark_unchanged: the current value counts as seen.
BorrowAndUpdate(r) ==
    /\ "mark" \in setup.ops /\ Live(r)
    /\ recv' = [recv EXCEPT ![r].seen = cell[recv[r].at].ver, ![r].got = cell[recv[r].at].val.n]
    /\ UNCHANGED <<setup, kind, local, sender, cell, errs, fresh, linkVars, changes>>

\* Receiver::mark_changed
MarkChanged(r) ==
    /\ "mark" \in setup.ops /\ Live(r)
    /\ recv' = [recv EXCEPT ![r].seen = -1]
    /\ UNCHANGED <<setup, kind, local, sender, cell, errs, fresh, linkVars, changes>>

\* Receiver::set_rate_limit
SetLimit(r, limit) ==
    /\ Live(r) /\ recv[r].limit # limit /\ MaySet(limit)
    /\ recv' = [recv EXCEPT ![r].limit = limit]
    /\ LimitChanged(recv[r].at)
    /\ UNCHANGED <<setup, kind, local, sender, cell, errs, linkVars>>

\* The Receiver is dropped.
DropReceiver(r) ==
    /\ "drop" \in setup.ops /\ Live(r)
    /\ recv' = [recv EXCEPT ![r].at = -1]
    /\ LimitChanged(recv[r].at)
    /\ UNCHANGED <<setup, kind, local, sender, cell, errs, linkVars, changes>>

\* Receiver::clone
Clone(r, s) ==
    /\ "clone" \in setup.ops /\ Live(r) /\ ~Live(s)
    /\ recv' = [recv EXCEPT ![s] = recv[r]]
    /\ UNCHANGED <<setup, kind, local, sender, cell, errs, fresh, linkVars, changes>>

\* Sender::subscribe
Subscribe(s) ==
    /\ "subscribe" \in setup.ops /\ sender.open /\ ~Live(s)
    /\ recv' = [recv EXCEPT ![s] = [at |-> 0, seen |-> cell[0].ver, limit |-> 0,
                                    got |-> cell[0].val.n, ended |-> "no"]]
    /\ UNCHANGED <<setup, kind, local, sender, cell, errs, fresh, linkVars, changes>>

\* Mutant: the Receiver arrives with the initial value.
TransportBlank(r) ==
    /\ "transport" \in setup.ops /\ Live(r) /\ recv[r].at < setup.links
    /\ LET l == recv[r].at + 1 IN
       /\ link[l] = "unused"
       /\ link' = [link EXCEPT ![l] = "connecting"]
       /\ tx' = [tx EXCEPT ![l] = [NoTask EXCEPT !.run = TRUE, !.limit = recv[r].limit,
                                                 !.seen = cell[l - 1].ver]]
       /\ rx' = [rx EXCEPT ![l].run = TRUE]
       /\ recv' = [recv EXCEPT ![r].at = l, ![r].seen = cell[l].ver, ![r].ended = "no"]
       /\ LimitChanged(l - 1)
    /\ UNCHANGED <<setup, kind, local, sender, cell, errs, port, back, changes>>

\* The Receiver is serialized with the current value and deserialized at the other end.
Transport(r) ==
    /\ "transport" \in setup.ops /\ Live(r) /\ recv[r].at < setup.links
    /\ LET l == recv[r].at + 1 IN
       /\ link[l] = "unused"
       /\ link' = [link EXCEPT ![l] = "connecting"]
       /\ tx' = [tx EXCEPT ![l] = [NoTask EXCEPT !.run = TRUE, !.limit = recv[r].limit,
                                                 !.seen = cell[l - 1].ver]]
       /\ rx' = [rx EXCEPT ![l].run = TRUE]
       /\ cell' = [cell EXCEPT ![l].val = cell[l - 1].val]
       /\ recv' = [recv EXCEPT ![r].at = l, ![r].seen = cell[l].ver,
                               ![r].got = cell[l - 1].val.n, ![r].ended = "no"]
       /\ LimitChanged(l - 1)
    /\ UNCHANGED <<setup, kind, local, sender, errs, port, back, changes>>

-----------------------------------------------------------------------------
(* Establishing and losing a link *)

appVars == <<setup, kind, local, sender, recv, changes>>

Establish(l) ==
    /\ l \in LinkIds /\ link[l] = "connecting"
    /\ link' = [link EXCEPT ![l] = "up"]
    /\ UNCHANGED <<appVars, cell, errs, fresh, tx, port, rx, back>>

ConnectFails(l) ==
    /\ "connect" \in setup.faults
    /\ l \in LinkIds /\ link[l] = "connecting"
    /\ link' = [link EXCEPT ![l] = "failed"]
    /\ UNCHANGED <<appVars, cell, errs, fresh, tx, port, rx, back>>

\* Of what was under way, a part has reached the other side.
Disconnect(l) ==
    /\ "disconnect" \in setup.faults
    /\ l \in LinkIds /\ link[l] = "up"
    /\ link' = [link EXCEPT ![l] = "lost"]
    /\ \E p \in 0..Len(port[l]), b \in 0..Len(back[l]) :
         /\ port' = [port EXCEPT ![l] = SubSeq(@, 1, p)]
         /\ back' = [back EXCEPT ![l] = SubSeq(@, 1, b)]
    /\ UNCHANGED <<appVars, cell, errs, fresh, tx, rx>>

\* The end with the sending task cannot connect: the error is queued for the Sender.
TxConnectError(l) ==
    /\ l \in LinkIds /\ link[l] = "failed" /\ tx[l].run
    /\ tx' = [tx EXCEPT ![l].run = FALSE, ![l].why = "connect"]
    /\ Report(l - 1, "connect")
    /\ LimitChanged(l - 1)
    /\ UNCHANGED <<appVars, cell, link, port, rx, back>>

\* The end with the receiving task cannot connect: the error takes the value's place.
RxConnectError(l) ==
    /\ l \in LinkIds /\ link[l] = "failed" /\ rx[l].run
    /\ rx' = [rx EXCEPT ![l].run = FALSE]
    /\ IF Watched(l) THEN Put(l, Val(cell[l].val.n, "connect")) ELSE UNCHANGED cell
    /\ UNCHANGED <<appVars, errs, fresh, link, tx, port, back>>

-----------------------------------------------------------------------------
(* send_impl *)

Established(l) == link[l] \in {"up", "lost"}

\* The task is in its select.
TxIdle(l) ==
    /\ l \in LinkIds /\ Established(l) /\ tx[l].run
    /\ ~tx[l].closed /\ tx[l].sending = <<>> /\ ~tx[l].all

\* The larger one of the two rate limits; a Receiver sent on has no Sender's limit.
RateLimit(l) ==
    IF l = 1 /\ sender.limit > tx[l].limit THEN sender.limit ELSE tx[l].limit

\* pending_send_trigger
Trigger(l) == tx[l].pending /\ (~tx[l].cool \/ RateLimit(l) = 0)

\* The rate-limit delay since the last value was sent has passed.
DelayPasses(l) ==
    /\ l \in LinkIds /\ tx[l].run /\ tx[l].cool
    /\ tx' = [tx EXCEPT ![l].cool = FALSE]
    /\ UNCHANGED <<appVars, cell, errs, fresh, link, port, rx, back>>

\* The task ends and drops its chmux sender and its rate limit.
TxEnds(l, t) ==
    /\ tx' = [tx EXCEPT ![l] = [t EXCEPT !.run = FALSE]]
    /\ port' = [port EXCEPT ![l] = IF link[l] = "up" /\ rx[l].run THEN Append(@, End) ELSE @]
    /\ LimitChanged(l - 1)

KindOf(v) == IF v.n = 0 \/ v.err # "none" THEN "good" ELSE kind[v.n]

\* The current value is handed to the base channel: one that cannot be serialized ends
\* the task with an error.
TakeValue(l, t) ==
    LET c == cell[l - 1] IN
    IF KindOf(c.val) = "bad"
    THEN /\ Report(l - 1, "item")
         /\ TxEnds(l, [t EXCEPT !.seen = c.ver, !.why = "item"])
    ELSE /\ tx' = [tx EXCEPT ![l] = [t EXCEPT !.seen = c.ver, !.sending = <<c.val>>]]
         /\ UNCHANGED <<errs, port, fresh>>

\* The rate limit allows to send the value.
TxSend(l) ==
    /\ TxIdle(l) /\ Trigger(l)
    /\ TakeValue(l, tx[l])
    /\ UNCHANGED <<appVars, cell, link, rx, back>>

\* The value of the cell was changed.
TxChanged(l) ==
    /\ TxIdle(l) /\ ~Trigger(l)
    /\ cell[l - 1].ver # tx[l].seen
    /\ tx' = [tx EXCEPT ![l].pending = TRUE, ![l].seen = cell[l - 1].ver]
    /\ UNCHANGED <<appVars, cell, errs, fresh, link, port, rx, back>>

\* Closing: a value that waits for the rate limit is still sent.
TxClose(l, t) ==
    IF t.pending THEN TakeValue(l, [t EXCEPT !.closed = TRUE])
    ELSE TxEnds(l, [t EXCEPT !.closed = TRUE]) /\ UNCHANGED errs

\* Mutant: a value that waits for the rate limit is not sent.
TxFedNoMoreDropsPending(l) ==
    /\ TxIdle(l) /\ ~Trigger(l)
    /\ cell[l - 1].ver = tx[l].seen /\ ~Fed(l - 1)
    /\ TxEnds(l, [tx[l] EXCEPT !.closed = TRUE]) /\ UNCHANGED errs
    /\ UNCHANGED <<appVars, cell, link, rx, back>>

\* The Sender of the cell is gone and its last value was noticed.
TxFedNoMore(l) ==
    /\ TxIdle(l) /\ ~Trigger(l)
    /\ cell[l - 1].ver = tx[l].seen /\ ~Fed(l - 1)
    /\ TxClose(l, tx[l])
    /\ UNCHANGED <<appVars, cell, link, rx, back>>

\* Mutant: the end of the back channel is not taken for the end of the receivers.
TxBackIgnoresEnd(l) ==
    /\ TxIdle(l) /\ back[l] # <<>>
    /\ back' = [back EXCEPT ![l] = Tail(@)]
    /\ IF Head(back[l]).msg = "error" THEN Report(l - 1, "forward") ELSE UNCHANGED errs
    /\ UNCHANGED <<appVars, cell, link, rx, tx, port, fresh>>

\* Back channel: an error, a rate limit, or the end.
TxBack(l) ==
    /\ TxIdle(l) /\ back[l] # <<>>
    /\ LET m == Head(back[l]) IN
       /\ back' = [back EXCEPT ![l] = Tail(@)]
       /\ CASE m.msg = "end" -> TxClose(l, tx[l])
            [] m.msg = "error" -> Report(l - 1, "forward") /\ UNCHANGED <<tx, port, fresh>>
            [] OTHER -> /\ tx' = [tx EXCEPT ![l].limit = m.limit]
                        /\ LimitChanged(l - 1)
                        /\ UNCHANGED <<errs, port>>
    /\ UNCHANGED <<appVars, cell, link, rx>>

TxBackLost(l) ==
    /\ TxIdle(l) /\ back[l] = <<>> /\ link[l] = "lost"
    /\ TxClose(l, tx[l])
    /\ UNCHANGED <<appVars, cell, link, rx, back>>

\* After a value was sent, or failed to be for a reason other than the value itself.
SentState(t) ==
    [t EXCEPT !.sending = <<>>, !.pending = FALSE, !.cool = TRUE, !.all = setup.single]

\* send_erased succeeds.  The receiving task may be gone without us knowing.
TxSent(l) ==
    /\ l \in LinkIds /\ tx[l].run /\ tx[l].sending # <<>> /\ link[l] = "up"
    /\ Len(port[l]) < PortRoom \/ ~rx[l].run
    /\ port' = IF rx[l].run THEN [port EXCEPT ![l] = @ \o tx[l].sending] ELSE port
    /\ tx' = [tx EXCEPT ![l] = SentState(@)]
    /\ UNCHANGED <<appVars, cell, errs, fresh, link, rx, back>>

\* send_erased fails because the connection or the receiving task is gone.
TxSendFails(l) ==
    /\ l \in LinkIds /\ tx[l].run /\ tx[l].sending # <<>>
    /\ \/ link[l] = "lost" /\ Report(l - 1, "chmux")
       \/ link[l] = "up" /\ ~rx[l].run /\ Report(l - 1, "closed")
    /\ tx' = [tx EXCEPT ![l] = [SentState(@) EXCEPT !.all = FALSE]]
    /\ UNCHANGED <<appVars, cell, fresh, link, port, rx, back>>

\* all_received returns: everything was received or nobody is left to receive it.
TxAllReceived(l) ==
    /\ l \in LinkIds /\ tx[l].run /\ tx[l].all
    /\ port[l] = <<>> \/ ~rx[l].run \/ link[l] = "lost"
    /\ tx' = [tx EXCEPT ![l].all = FALSE]
    /\ UNCHANGED <<appVars, cell, errs, fresh, link, port, rx, back>>

\* The loop is left after the last value.
TxLeave(l) ==
    /\ l \in LinkIds /\ tx[l].run /\ tx[l].closed /\ tx[l].sending = <<>> /\ ~tx[l].all
    /\ TxEnds(l, tx[l])
    /\ UNCHANGED <<appVars, cell, errs, link, rx, back>>

-----------------------------------------------------------------------------
(* recv_impl *)

\* The task is in its select; a full back channel keeps it from getting there.
RxIdle(l) == l \in LinkIds /\ Established(l) /\ rx[l].run /\ rx[l].out = <<>>

\* The task ends and drops its end of the back channel and what was not received.
RxEnds(l) ==
    /\ rx' = [rx EXCEPT ![l].run = FALSE]
    /\ back' = [back EXCEPT ![l] = IF link[l] = "up" /\ tx[l].run THEN Append(@, Back("end", 0)) ELSE @]

\* All receivers of the cell are gone.
RxClosed(l) ==
    /\ RxIdle(l) /\ ~Watched(l)
    /\ RxEnds(l)
    /\ port' = [port EXCEPT ![l] = <<>>]
    /\ UNCHANGED <<appVars, cell, errs, fresh, link, tx>>

\* Mutant: an error further on is not passed back.
RxErrorSwallowed(l) ==
    /\ RxIdle(l) /\ Watched(l) /\ errs[l] # <<>>
    /\ errs' = [errs EXCEPT ![l] = Tail(@)]
    /\ UNCHANGED <<appVars, cell, fresh, link, tx, port, rx, back>>

\* An error further on, or one that the Sender had when it was sent away, is passed back.
RxError(l) ==
    /\ RxIdle(l) /\ Watched(l) /\ errs[l] # <<>>
    /\ errs' = [errs EXCEPT ![l] = Tail(@)]
    /\ rx' = [rx EXCEPT ![l].out = <<Back("error", 0)>>]
    /\ UNCHANGED <<appVars, cell, fresh, link, tx, port, back>>

\* The rate limits of the receivers have changed.
RxLimit(l) ==
    /\ RxIdle(l) /\ Watched(l) /\ errs[l] = <<>> /\ fresh[l]
    /\ fresh' = [fresh EXCEPT ![l] = FALSE]
    /\ rx' = IF Compute(l) = rx[l].told THEN rx
             ELSE [rx EXCEPT ![l].told = Compute(l), ![l].out = <<Back("limit", Compute(l))>>]
    /\ UNCHANGED <<appVars, cell, errs, link, tx, port, back>>

\* The message is put into the back channel, or there is nobody to receive it.
RxBack(l) ==
    /\ l \in LinkIds /\ rx[l].run /\ rx[l].out # <<>>
    /\ IF link[l] = "lost" \/ ~tx[l].run THEN UNCHANGED back
       ELSE Len(back[l]) < BackRoom /\ back' = [back EXCEPT ![l] = @ \o rx[l].out]
    /\ rx' = [rx EXCEPT ![l].out = <<>>]
    /\ UNCHANGED <<appVars, cell, errs, fresh, link, tx, port>>

\* Nothing of what precedes data in the select is ready.
RxReads(l) == RxIdle(l) /\ Watched(l) /\ errs[l] = <<>> /\ ~fresh[l]

\* A value, or an error in its place, is put into the cell.
RxData(l) ==
    /\ RxReads(l) /\ port[l] # <<>> /\ Head(port[l]) # End
    /\ LET v == Head(port[l]) IN
       Put(l, IF KindOf(v) = "odd" THEN Val(v.n, "item") ELSE v)
    /\ port' = [port EXCEPT ![l] = Tail(@)]
    /\ UNCHANGED <<appVars, errs, fresh, link, tx, rx, back>>

\* The sending task has ended.
RxEnd(l) ==
    /\ RxReads(l) /\ port[l] # <<>> /\ Head(port[l]) = End
    /\ RxEnds(l)
    /\ port' = [port EXCEPT ![l] = <<>>]
    /\ UNCHANGED <<appVars, cell, errs, fresh, link, tx>>

\* Mutant: the loss of the connection looks like the end.
RxLostQuiet(l) ==
    /\ RxReads(l) /\ port[l] = <<>> /\ link[l] = "lost"
    /\ RxEnds(l)
    /\ UNCHANGED <<appVars, cell, errs, fresh, link, tx, port>>

\* The connection was lost.
RxLost(l) ==
    /\ RxReads(l) /\ port[l] = <<>> /\ link[l] = "lost"
    /\ Put(l, Val(cell[l].val.n, "chmux"))
    /\ RxEnds(l)
    /\ UNCHANGED <<appVars, errs, fresh, link, tx, port>>

-----------------------------------------------------------------------------

TxTask(l) ==
    \/ TxConnectError(l) \/ TxSend(l) \/ TxChanged(l) \/ TxFedNoMore(l) \/ TxBack(l)
    \/ TxBackLost(l) \/ TxSent(l) \/ TxSendFails(l) \/ TxAllReceived(l) \/ TxLeave(l)

RxTask(l) ==
    \/ RxConnectError(l) \/ RxClosed(l) \/ RxError(l) \/ RxLimit(l) \/ RxBack(l)
    \/ RxData(l) \/ RxEnd(l) \/ RxLost(l)

\* What the application may do at any time.
Application ==
    \/ \E k \in setup.kinds : Send(k) \/ SendModify(k) \/ LocalSend(k)
    \/ LocalDrop \/ DropSender \/ UpdateError \/ ClearError
    \/ \E limit \in Limits : SetSenderLimit(limit) \/ \E r \in Receivers : SetLimit(r, limit)
    \/ \E r \in Receivers :
         \/ Changed(r) \/ BorrowAndUpdate(r) \/ MarkChanged(r) \/ DropReceiver(r) \/ Subscribe(r)
         \/ Transport(r) \/ \E s \in Receivers : Clone(r, s)

Next ==
    \/ Application \/ Forward
    \/ \E l \in LinkIds :
         Establish(l) \/ ConnectFails(l) \/ Disconnect(l) \/ DelayPasses(l) \/ TxTask(l) \/ RxTask(l)

Spec == Init /\ [][Next]_vars

AnyLink == UNION {1..c.links : c \in Setups}

\* Tasks run, timers elapse, and requests for a connection are answered.
Fairness ==
    /\ WF_vars(Forward)
    /\ \A l \in AnyLink : /\ WF_vars(Establish(l)) /\ WF_vars(DelayPasses(l))
                          /\ WF_vars(TxTask(l)) /\ WF_vars(RxTask(l))

FairSpec == Spec /\ Fairness

-----------------------------------------------------------------------------
(* Properties *)

\* The links between the Sender and a cell.
Path(h) == 1..h

Broken(l) == link[l] \in {"failed", "lost"} \/ tx[l].why = "item"

\* Values from a cell to the next one in the order they will get there.
Passage(l) == <<cell[l].val>> \o port[l] \o tx[l].sending \o <<cell[l - 1].val>>

\* A value on its way never replaces a newer one, and no receiver has seen a value newer
\* than the one in its cell: coalescing, rate limits and sending the Receiver on do not
\* bring back an old value.
NeverBackwards ==
    /\ \A l \in LinkIds : link[l] # "unused" =>
         \A i, j \in 1..Len(Passage(l)) :
            i < j /\ Passage(l)[j] # End => Passage(l)[i].n <= Passage(l)[j].n
    /\ \A r \in Receivers : Live(r) => recv[r].got <= cell[recv[r].at].val.n

\* When Receiver::changed reports that the channel is closed, the Receiver has the final
\* value.  The exception is a value that could not be serialized: it ends the link.
ClosedMeansFinal ==
    \A r \in Receivers : Live(r) /\ recv[r].ended = "closed" =>
        \/ ~sender.open /\ cell[recv[r].at].val.n = cell[0].val.n
        \/ \E l \in Path(recv[r].at) : tx[l].why = "item"

\* Nothing is left to do for the tasks.
Quiet == \A l \in LinkIds : /\ link[l] # "connecting"
                            /\ ~ENABLED TxTask(l) /\ ~ENABLED RxTask(l)

\* What receivers tell the sending end gets there, also over several links.  When the
\* tasks have nothing to do, the sending task of a link throttles to the lowest rate limit
\* that the receivers at its other end ask for, and when a value or a link further on
\* failed, the Sender was told, as long as the links between it and the failure work.
BackChannelSettles ==
    Quiet =>
        /\ \A l \in LinkIds : tx[l].run /\ link[l] = "up" => tx[l].limit = Compute(l)
        /\ sender.open =>
             \A l \in LinkIds : tx[l].why # "none" =>
                \/ sender.told \/ errs[0] # <<>>
                \/ \E m \in 1..(l - 1) : ~tx[m].run \/ link[m] = "lost"

\* The latest value gets to every receiver, unless a link to it failed: also when it was
\* held back by a rate limit, the Sender was dropped or the Receiver was sent on.
LatestArrives ==
    <>[](\A r \in Receivers : Live(r) =>
            \/ cell[recv[r].at].val.n = cell[0].val.n
            \/ \E l \in Path(recv[r].at) : Broken(l))

\* When all Receivers are gone, the Sender notices, over all links.
ClosedReachesSender ==
    (\A r \in Receivers : ~Live(r)) ~> ~Watched(0) \/ \E r \in Receivers : Live(r)
=============================================================================
