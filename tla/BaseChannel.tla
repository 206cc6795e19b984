---------------------------- MODULE BaseChannel ----------------------------
(***************************************************************************)
(* The base channel of rch over a chmux channel (module Framing): an item  *)
(* is sent as a data message, buffered or streamed while it is serialized, *)
(* followed by the requests for the ports of the channel halves in it.     *)
(* A binary channel gives the application the chmux channel itself.        *)
(*                                                                         *)
(* A send may be given up at any time and may fail in the middle; what is  *)
(* left of it in the chmux channel must not get mixed up with the items    *)
(* that follow.  The future of a receive may be dropped between any two of *)
(* its steps: all its state is in the variables.                           *)
(***************************************************************************)
EXTENDS Integers, Sequences, SequencesExt

CONSTANTS
    MaxItems,     \* bound on the items sent
    MaxSize,      \* bound on their size, in chunks
    BigDataLimit, \* BIG_DATA_LIMIT
    Setups,       \* the endpoints and what is sent
    \* of the chmux channel
    MaxDataSize, MaxPorts, ChanCap

\* bin: this is a binary channel; threads: the endpoints that have threads for streaming;
\* send, recv: max_item_size of the endpoints; items: bound on the number of items (or
\* messages); shapes: the items, each with a size, a number of ports and what is wrong
\* with it: it cannot be serialized ("ser") or deserialized ("odd").
ASSUME BaseChannelAssumption ==
    /\ {MaxItems, MaxSize, BigDataLimit} \subseteq Nat \ {0}
    /\ \A c \in Setups :
         /\ c.bin \in BOOLEAN
         /\ c.threads \subseteq {"tx", "rx"} /\ {c.send, c.recv} \subseteq Nat
         /\ c.items \in 1..MaxItems
         /\ c.shapes \subseteq [n : 1..MaxSize, ports : 0..MaxPorts, fault : {"none", "ser", "odd"}]

VARIABLES
    \* the chmux channel
    msgs, closed, chan, receiving, finished, streaming, seen, parts, log,
    \* sender
    setup,      \* the endpoints of this behaviour
    items,      \* items sent: size, number of ports, fault, messages used, state
    bigData,    \* whether buffered serialization is worth a try
    \* receiver
    data,       \* DataSource: "none", "streamed", or what follows on it
    fed,        \* chunks fed to the deserializer
    item,       \* the item that waits for its ports
    got,        \* what recv returned, in order
    ended       \* recv has returned None

chVars == <<msgs, closed, chan, receiving, finished, streaming, seen, parts, log>>
txVars == <<setup, items, bigData>>
rxVars == <<data, fed, item, got, ended>>
vars == <<chVars, txVars, rxVars>>

Ch == INSTANCE Framing WITH
        MaxMsgs <- 2 * MaxItems, MaxChunks <- MaxSize + 1,
        Ops <- {"send", "connect", "cancel", "finish", "recv", "recv_any", "discard"}

ASSUME ChannelAssumption == Ch!FramingAssumption

Init ==
    /\ Ch!Init
    /\ setup \in Setups
    /\ items = <<>> /\ bigData = 0
    /\ data = "none" /\ fed = <<>> /\ item = 0 /\ got = <<>> /\ ended = FALSE

-----------------------------------------------------------------------------
(* Sender *)

threads == setup.threads
SendLimit == setup.send
RecvLimit == setup.recv

Cur == Len(items)
Sending == items # <<>> /\ Last(items).state \in {"data", "ports"}

NewItem(n, ports, fault, state) ==
    /\ ~Sending /\ ~closed /\ Cur < setup.items
    /\ items' = Append(items, [n |-> n, ports |-> ports, fault |-> fault, state |-> state,
                               msg |-> IF state = "data" THEN Len(msgs') ELSE 0])

SetState(state) == items' = [items EXCEPT ![Cur].state = state]

\* LimitedBytesWriter: the data fits into one chmux message.
Buffered(n) == bigData <= 0 /\ n <= MaxDataSize

FewerBig == IF bigData > -BigDataLimit THEN bigData - 1 ELSE bigData
MoreBig == IF bigData < BigDataLimit THEN bigData + 1 ELSE bigData

\* send_erased with buffered serialization.
SendBuffered(n, ports, fault) ==
    /\ Buffered(n)
    /\ IF fault = "ser" \/ n > SendLimit
       THEN UNCHANGED chVars /\ NewItem(n, ports, fault, "error")
       ELSE Ch!Start("send", "data", n, 1) /\ NewItem(n, ports, fault, "data")
    /\ bigData' = IF fault = "ser" THEN bigData ELSE FewerBig
    /\ UNCHANGED <<setup, rxVars>>

\* send_erased with streaming, also after buffered serialization has overflown.  The
\* message ends with an empty chunk (ChunkSender::finish).
SendStreamed(n, ports, fault) ==
    /\ ~Buffered(n)
    /\ IF "tx" \in threads
       THEN Ch!Start("send", "data", n + 1, 0) /\ NewItem(n, ports, fault, "data")
       ELSE UNCHANGED chVars /\ NewItem(n, ports, fault, "error")
    /\ bigData' = IF bigData <= 0 THEN MoreBig ELSE bigData
    /\ UNCHANGED <<setup, rxVars>>

Streamed(k) == msgs[items[k].msg].tail = 0

\* The chunk that would follow is not serialized, or exceeds max_item_size.
StreamStops(k) ==
    /\ Streamed(k)
    /\ LET sent == msgs[items[k].msg].sent IN
       \/ items[k].fault = "ser" /\ sent = items[k].n - 1
       \/ sent = SendLimit /\ sent < items[k].n

\* A chunk of the data or of the port requests is sent.
SendChunk ==
    /\ Sending
    /\ items[Cur].state = "data" => ~StreamStops(Cur)
    /\ Ch!SendChunk
    /\ UNCHANGED <<txVars, rxVars>>

\* Serialization fails or the item is too large: the message is left incomplete.
StreamFails ==
    /\ Sending /\ items[Cur].state = "data" /\ Streamed(Cur)
    /\ items[Cur].fault = "ser" \/ StreamStops(Cur)
    /\ Ch!CancelSend
    /\ SetState("error")
    /\ UNCHANGED <<setup, bigData, rxVars>>

\* The data has been sent: its ports are requested.
Connect ==
    /\ Sending /\ items[Cur].state = "data" /\ items[Cur].ports > 0 /\ ~Ch!Sending
    /\ Ch!Start("connect", "ports", items[Cur].ports, 1)
    /\ SetState("ports")
    /\ bigData' = IF Streamed(Cur) /\ items[Cur].n <= MaxDataSize THEN FewerBig ELSE bigData
    /\ UNCHANGED <<setup, rxVars>>

\* Everything has been sent: the item is dropped and the tasks of its ports are started.
SendReturns ==
    /\ Sending /\ ~Ch!Sending
    /\ items[Cur].ports > 0 => items[Cur].state = "ports"
    /\ SetState("ok")
    /\ bigData' = IF items[Cur].state = "data" /\ Streamed(Cur) /\ items[Cur].n <= MaxDataSize
                  THEN FewerBig ELSE bigData
    /\ UNCHANGED <<setup, chVars, rxVars>>

\* The future of the send is dropped, also between the data and the port requests.
SendCancelled ==
    /\ Sending
    /\ IF Ch!Sending THEN Ch!CancelSend ELSE UNCHANGED chVars
    /\ SetState("cancelled")
    /\ UNCHANGED <<setup, bigData, rxVars>>

DropSender ==
    /\ ~Sending
    /\ Ch!DropSender
    /\ UNCHANGED <<txVars, rxVars>>

-----------------------------------------------------------------------------
(* Receiver *)

\* The item a data message belongs to.
ItemOf(msg) == CHOOSE k \in 1..Cur : items[k].msg = msg

Return(k, how) == got' = Append(got, [item |-> k, how |-> how])

\* Mutant: the item is returned without its ports.
DeserializedEarly(k) == item' = 0 /\ Return(k, "item")

\* The item has been deserialized: it is returned, or waits for its ports.
Deserialized(k) ==
    IF items[k].ports > 0 THEN item' = k /\ UNCHANGED got
    ELSE item' = 0 /\ Return(k, "item")

\* recv_any returned buffered data.  An item that waits for its ports was given up.
ReceiveData(k) ==
    /\ IF items[k].n > RecvLimit \/ items[k].fault = "odd"
       THEN item' = 0 /\ Return(k, "error")
       ELSE Deserialized(k)
    /\ UNCHANGED <<data, fed, ended>>

\* recv_any reported chunks: the deserializer is started, unless there are no threads.
ReceiveChunks ==
    /\ data' = IF "rx" \in threads THEN "streamed" ELSE "unavailable"
    /\ fed' = <<>>
    /\ item' = 0
    /\ UNCHANGED <<got, ended>>

\* recv_any returned port requests: they are for the item that waits, or superfluous.
\* An item that misses ports stays until the next message.
ReceivePorts(msg) ==
    /\ IF item = 0 THEN UNCHANGED <<item, got>>
       ELSE IF msg = items[item].msg + 1 THEN item' = 0 /\ Return(item, "item")
       ELSE item' = item /\ Return(item, "missing")
    /\ UNCHANGED <<data, fed, ended>>

\* recv_any reported the end.
ReceiveEnd ==
    /\ ended' = TRUE
    /\ item' = 0
    /\ UNCHANGED <<data, fed, got>>

\* Mutant: the message that shows that an item was given up is skipped with it.
RecvAnySkips ==
    /\ data = "none" /\ ~ended
    /\ Ch!RecvAny("recv_any")
    /\ IF log' # log
       THEN IF Last(log').how = "data"
            THEN IF item # 0 THEN item' = 0 /\ UNCHANGED <<data, fed, got, ended>>
                 ELSE ReceiveData(ItemOf(Last(log').id))
            ELSE ReceivePorts(Last(log').id)
       ELSE IF streaming' THEN ReceiveChunks
       ELSE IF finished' THEN ReceiveEnd
       ELSE UNCHANGED rxVars
    /\ UNCHANGED txVars

\* Mutant: an item that waits for its ports reports them missing when data comes.
RecvAnyMissing ==
    /\ data = "none" /\ ~ended
    /\ Ch!RecvAny("recv_any")
    /\ IF log' # log
       THEN IF Last(log').how = "data"
            THEN IF item # 0 THEN item' = 0 /\ Return(item, "missing") /\ UNCHANGED <<data, fed, ended>>
                 ELSE ReceiveData(ItemOf(Last(log').id))
            ELSE ReceivePorts(Last(log').id)
       ELSE IF streaming' THEN ReceiveChunks
       ELSE IF finished' THEN ReceiveEnd
       ELSE UNCHANGED rxVars
    /\ UNCHANGED txVars

\* recv_erased gets the next message.
RecvAny ==
    /\ data = "none" /\ ~ended
    /\ Ch!RecvAny("recv_any")
    /\ IF log' # log
       THEN IF Last(log').how = "data" THEN ReceiveData(ItemOf(Last(log').id))
            ELSE ReceivePorts(Last(log').id)
       ELSE IF streaming' THEN ReceiveChunks
       ELSE IF finished' THEN ReceiveEnd
       ELSE UNCHANGED rxVars
    /\ UNCHANGED txVars

\* The end was found while chunks were received.
RecvFinished ==
    /\ data = "none" /\ ~ended /\ finished
    /\ ReceiveEnd
    /\ UNCHANGED <<chVars, txVars>>

\* Streaming is not available: discard_chunks and an error.
RecvUnavailable ==
    /\ data = "unavailable"
    /\ Ch!DiscardChunks
    /\ data' = "none"
    /\ Return(ItemOf(seen.id), "error")
    /\ UNCHANGED <<txVars, fed, item, ended>>

\* The chunks of a message that have data; only the last one of a stream is empty.
Bytes(chunks) == IF chunks # <<>> /\ Last(chunks).size = 0 THEN Front(chunks) ELSE chunks

\* A chunk is fed to the deserializer, which may not have noticed that it is done.
FeedChunk ==
    /\ data = "streamed"
    /\ Ch!RecvChunk
    /\ IF Len(parts') > Len(parts)
       THEN IF Ch!BufSize(fed) + Last(parts').size > RecvLimit
            THEN data' = "exceeded" /\ UNCHANGED fed
            ELSE fed' = Append(fed, Last(parts')) /\ UNCHANGED data
       \* None, or RecvChunkError::Cancelled
       ELSE /\ data' = IF receiving.completed THEN "fed" ELSE "none"
            /\ fed' = IF receiving.completed THEN fed ELSE <<>>
    /\ UNCHANGED <<txVars, item, got, ended>>

\* What the deserializer makes of its input.
Whole(chunks) ==
    \E k \in 1..Cur : /\ items[k].msg > 0
                      /\ Bytes(chunks) = [i \in 1..items[k].n |-> Ch!Chunk(items[k].msg, i)]
Undecodable(chunks) == chunks # <<>> /\ items[ItemOf(chunks[1].id)].fault = "odd"

Discard == IF receiving.st = "chunks" /\ receiving.announced THEN Ch!DiscardChunks
           ELSE UNCHANGED chVars

\* The deserializer has ended before the message: the rest of it is discarded.
DeserializerEnds ==
    /\ data = "streamed"
    /\ Whole(fed) \/ Undecodable(fed)
    /\ Discard
    /\ data' = "fed"
    /\ UNCHANGED <<txVars, fed, item, got, ended>>

\* The item exceeds max_item_size: the rest of the message is discarded.
RecvExceeded ==
    /\ data = "exceeded"
    /\ Discard
    /\ data' = "none" /\ fed' = <<>>
    /\ Return(ItemOf(seen.id), "error")
    /\ UNCHANGED <<txVars, item, ended>>

\* The result of the deserializer.
TaskEnds ==
    /\ data = "fed"
    /\ IF Whole(fed) /\ ~Undecodable(fed) THEN Deserialized(ItemOf(fed[1].id))
       ELSE item' = 0 /\ Return(ItemOf(fed[1].id), "error")
    /\ data' = "none" /\ fed' = <<>>
    /\ UNCHANGED <<chVars, txVars, ended>>

-----------------------------------------------------------------------------

\* The halves of a binary channel have been turned into those of the chmux channel, and the
\* application uses all operations of them.
UseBinary ==
    /\ setup.bin
    /\ Ch!Next
    /\ Len(msgs') <= setup.items
    /\ UNCHANGED <<txVars, rxVars>>

UseItems ==
    /\ ~setup.bin
    /\ \/ \E s \in setup.shapes :
            SendBuffered(s.n, s.ports, s.fault) \/ SendStreamed(s.n, s.ports, s.fault)
       \/ SendChunk \/ StreamFails \/ Connect \/ SendReturns \/ SendCancelled \/ DropSender
       \/ RecvAny \/ RecvFinished \/ RecvUnavailable \/ FeedChunk \/ DeserializerEnds
       \/ RecvExceeded \/ TaskEnds

Next == UseItems \/ UseBinary

Spec == Init /\ [][Next]_vars

-----------------------------------------------------------------------------
(* Properties *)

\* Every item has at most one outcome at the receiver, in the order of sending, no
\* matter which sends were given up or failed in between; one whose send returned without
\* an error has one by the time the receiver gets to the end or to a later item.
OneOutcome ==
    /\ \A i, j \in 1..Len(got) : i < j => got[i].item < got[j].item
    /\ \A k \in 1..Cur :
         items[k].state = "ok" /\ (ended \/ \E i \in 1..Len(got) : got[i].item > k) =>
             \E i \in 1..Len(got) : got[i].item = k

\* The receiver reports an error only for an item that it cannot take: what is left of
\* sends that were given up or failed is neither delivered nor reported, and ports are
\* never missing.
ErrorsForReason ==
    \A i \in 1..Len(got) : got[i].how # "item" =>
        /\ got[i].how = "error"
        /\ \/ items[got[i].item].fault = "odd" \/ items[got[i].item].n > RecvLimit
           \/ "rx" \notin threads

\* An item is delivered only with all of its data, which was serialized successfully,
\* and with its own ports.
DeliveredComplete ==
    \A i \in 1..Len(got) : got[i].how = "item" =>
        LET k == got[i].item IN
        /\ items[k].fault = "none" /\ items[k].n <= SendLimit
        /\ msgs[items[k].msg].sent >= items[k].n
        /\ items[k].ports > 0 =>
             /\ items[k].msg + 1 <= Len(msgs)
             /\ msgs[items[k].msg + 1].kind = "ports" /\ msgs[items[k].msg + 1].state = "done"

\* Below the items: the chmux receiver returns only complete messages, each at most once
\* and in order, and loses none without telling (module Framing), whatever operations are
\* combined on a binary channel and however items use them.
MessagesIntact == Ch!DeliveredWhole /\ Ch!InOrder /\ Ch!NothingLost /\ Ch!DiscardedForReason
=============================================================================
