------------------------------ MODULE Framing ------------------------------
(***************************************************************************)
(* Messages over one chmux channel.  A sender splits a message into chunks *)
(* and may stop in the middle of it; the receiver puts the chunks together *)
(* again, or hands them out one by one when the message is too large       *)
(* (chmux/sender.rs, ChunkSender and receiver.rs, Receiving).              *)
(*                                                                         *)
(* A receive operation keeps no state of its own between two messages from *)
(* the channel, so each of its steps is a step of a fresh call: cancelling *)
(* an operation and calling another one is covered.                        *)
(***************************************************************************)
EXTENDS Integers, Sequences, FiniteSets, SequencesExt

CONSTANTS
    MaxMsgs,      \* messages that the sender starts
    MaxChunks,    \* chunks per message
    MaxDataSize,  \* max_data_size, in chunks
    MaxPorts,     \* max_ports of the receiver: requests per message
    ChanCap,      \* chunks underway
    Ops           \* "send", "connect", "cancel", "finish" (sender), "recv", "recv_any",
                  \* "discard" (receiver)

\* Constants of a channel.
FramingAssumption ==
    /\ {MaxMsgs, MaxChunks, ChanCap} \subseteq Nat \ {0}
    /\ {MaxDataSize, MaxPorts} \subseteq Nat
    /\ Ops \subseteq {"send", "connect", "cancel", "finish", "recv", "recv_any", "discard"}

VARIABLES
    \* sender
    msgs,       \* messages started: kind, number of chunks, size of the last chunk, progress
    closed,     \* the sender has been dropped
    \* channel
    chan,       \* receiver_rx_data
    \* receiver
    receiving,  \* Receiver.receiving
    finished,   \* Receiver.finished
    streaming,  \* the caller has been told to use recv_chunk
    \* history
    seen,       \* the last chunk taken from the channel
    parts,      \* chunks that recv_chunk returned of the message being streamed
    log         \* what became of the messages, in order

vars == <<msgs, closed, chan, receiving, finished, streaming, seen, parts, log>>
sender == <<msgs, closed>>

Nothing == [st |-> "nothing", buf |-> <<>>, completed |-> FALSE, announced |-> FALSE]
DataBuf(b) == [Nothing EXCEPT !.st = "data", !.buf = b]
Requests(b) == [Nothing EXCEPT !.st = "requests", !.buf = b]
Chunks(b, last, ann) == [st |-> "chunks", buf |-> b, completed |-> last, announced |-> ann]

NoChunk == [id |-> 0, i |-> 0, size |-> 0, kind |-> "data", first |-> FALSE, last |-> FALSE]
Finished == [NoChunk EXCEPT !.kind = "finished"]

Init ==
    /\ msgs = <<>>
    /\ closed = FALSE
    /\ chan = <<>>
    /\ receiving = Nothing
    /\ finished = FALSE
    /\ streaming = FALSE
    /\ seen = NoChunk
    /\ parts = <<>>
    /\ log = <<>>

\* The i-th chunk of message number id.
Chunk(id, i) ==
    LET m == msgs[id]
    IN  [id |-> id, i |-> i, kind |-> m.kind, size |-> IF i = m.n THEN m.tail ELSE 1,
         first |-> i = 1, last |-> i = m.n]
Whole(id) == [i \in 1..msgs[id].n |-> Chunk(id, i)]
Size(id) == msgs[id].n - 1 + msgs[id].tail

-----------------------------------------------------------------------------
(* Sender.  send and connect run the whole message; a ChunkSender sends it piece by *)
(* piece and finish adds an empty last chunk.                                       *)

Sending == msgs # <<>> /\ Last(msgs).state = "sending"

Start(op, kind, n, tail) ==
    /\ op \in Ops
    /\ ~closed /\ ~Sending
    /\ Len(msgs) < MaxMsgs
    /\ msgs' = Append(msgs, [kind |-> kind, n |-> n, tail |-> tail, sent |-> 0, state |-> "sending"])
    /\ UNCHANGED <<closed, chan, receiving, finished, streaming, seen, parts, log>>

StartMsg ==
    \E n \in 1..MaxChunks :
        \/ \E tail \in 0..1 : Start("send", "data", n, tail)
        \/ Start("connect", "ports", n, 1)

SendChunk ==
    /\ Sending
    /\ Len(chan) < ChanCap
    /\ LET id == Len(msgs)
           i == msgs[id].sent + 1
       IN  /\ chan' = Append(chan, Chunk(id, i))
           /\ msgs' = [msgs EXCEPT ![id].sent = i, ![id].state = IF i = msgs[id].n THEN "done" ELSE @]
    /\ UNCHANGED <<closed, receiving, finished, streaming, seen, parts, log>>

\* The future of send or connect, or the ChunkSender, is dropped.
CancelSend ==
    /\ "cancel" \in Ops
    /\ Sending
    /\ msgs' = [msgs EXCEPT ![Len(msgs)].state = "cancelled"]
    /\ UNCHANGED <<closed, chan, receiving, finished, streaming, seen, parts, log>>

DropSender ==
    /\ "finish" \in Ops
    /\ ~closed /\ ~Sending /\ Len(chan) < ChanCap
    /\ closed' = TRUE
    /\ chan' = Append(chan, Finished)
    /\ UNCHANGED <<msgs, receiving, finished, streaming, seen, parts, log>>

-----------------------------------------------------------------------------
(* Receiver *)

Log(id, how, chunks) == log' = Append(log, [id |-> id, how |-> how, chunks |-> chunks])

Take(c) ==
    /\ chan # <<>>
    /\ c = Head(chan)
    /\ chan' = Tail(chan)
    /\ seen' = IF c.kind = "finished" THEN seen ELSE c

Continue(r) == receiving' = r /\ streaming' = FALSE /\ UNCHANGED log

\* Amount of data in a buffer: every chunk counts but an empty one.
BufSize(b) == Cardinality({k \in 1..Len(b) : b[k].size > 0})

\* recv_any returns Received::Chunks, with r what it leaves behind; recv discards the
\* chunks and returns ExceedsMaxDataSize.
Announce(op, r, id) ==
    IF op = "recv_any"
    THEN /\ receiving' = r
         /\ streaming' = TRUE
         /\ UNCHANGED log
    ELSE /\ receiving' = Nothing
         /\ streaming' = FALSE
         /\ Log(id, "exceeds", <<>>)

\* DataBuf::try_push: the data fits into max_data_size.
Fits(b) == BufSize(b) <= MaxDataSize

\* A data chunk in recv_any
AnyData(op, c) ==
    LET r == IF c.first THEN DataBuf(<<>>) ELSE receiving
        buf == Append(r.buf, c)
    IN  /\ c.kind = "data"
        /\ \/ r.st # "data" /\ Continue(Nothing)
           \/ /\ r.st = "data" /\ Fits(buf)
              /\ IF c.last THEN /\ receiving' = Nothing
                                /\ streaming' = FALSE
                                /\ Log(c.id, "data", buf)
                           ELSE Continue(DataBuf(buf))
           \/ /\ r.st = "data" /\ ~Fits(buf)
              /\ Announce(op, Chunks(buf, c.last, TRUE), c.id)

\* Port requests in recv_any; recv drops them, which rejects them.
AnyPorts(op, c) ==
    LET r == IF c.first THEN Requests(<<>>) ELSE receiving
        buf == Append(r.buf, c)
    IN  /\ c.kind = "ports"
        /\ \/ r.st # "requests" /\ Continue(Nothing)
           \/ /\ r.st = "requests" /\ Len(buf) > MaxPorts
              /\ receiving' = Nothing
              /\ streaming' = FALSE
              /\ Log(c.id, "too_many", <<>>)
           \/ /\ r.st = "requests" /\ Len(buf) <= MaxPorts
              /\ IF c.last THEN /\ receiving' = Nothing
                                /\ streaming' = FALSE
                                /\ Log(c.id, IF op = "recv" THEN "rejected" ELSE "ports", buf)
                           ELSE Continue(Requests(buf))

InProgress == receiving.st = "chunks" /\ (receiving.buf # <<>> \/ ~receiving.completed)

\* Receiver::recv_any and, on top of it, Receiver::recv
RecvAny(op) ==
    /\ op \in Ops
    /\ ~finished
    /\ \/ /\ InProgress
          /\ Announce(op, [receiving EXCEPT !.announced = TRUE], seen.id)
          /\ UNCHANGED <<chan, finished, seen>>
       \/ /\ ~InProgress
          /\ \E c \in ToSet(chan) :
              /\ Take(c)
              /\ \/ /\ AnyData(op, c) \/ AnyPorts(op, c)
                    /\ UNCHANGED finished
                 \/ /\ c.kind = "finished"
                    /\ finished' = TRUE
                    /\ Continue(IF receiving.st = "chunks" THEN Nothing ELSE receiving)
    /\ parts' = IF InProgress /\ op = "recv_any" THEN parts ELSE <<>>
    /\ UNCHANGED sender

\* recv_chunk returns a chunk; the message has been received with its last one.
ReturnChunk(c, r) ==
    /\ receiving' = r
    /\ parts' = Append(parts, c)
    /\ IF c.last THEN Log(c.id, "chunks", Append(parts, c)) ELSE UNCHANGED log
    /\ UNCHANGED streaming

\* recv_chunk returns None or RecvChunkError::Cancelled.
EndStream(r) ==
    /\ receiving' = r
    /\ parts' = <<>>
    /\ streaming' = FALSE

\* Receiver::recv_chunk.  It "should be called when recv_any returns Received::Chunks",
\* "until it returns None or an error".
RecvChunk ==
    /\ streaming
    /\ ~finished
    /\ \/ /\ receiving.buf # <<>>
          /\ ReturnChunk(Head(receiving.buf),
                         [receiving EXCEPT !.buf = Tail(@), !.announced = TRUE])
          /\ UNCHANGED <<chan, finished, seen>>
       \/ /\ receiving.buf = <<>> /\ receiving.completed
          /\ EndStream(Nothing)
          /\ UNCHANGED <<chan, finished, seen, log>>
       \/ /\ receiving.buf = <<>> /\ ~receiving.completed
          /\ \E c \in ToSet(chan) :
              /\ Take(c)
              /\ finished' = (c.kind = "finished")
              \* A first chunk without a last one before means that the sender stopped.
              /\ \/ /\ c.kind = "data" /\ c.first
                    /\ EndStream(Chunks(<<c>>, c.last, FALSE))
                    /\ UNCHANGED log
                 \/ /\ c.kind = "data" /\ ~c.first
                    /\ ReturnChunk(c, Chunks(<<>>, c.last, TRUE))
                 \* Port requests are ignored.
                 \/ /\ c.kind = "ports"
                    /\ EndStream(Nothing)
                    /\ Log(c.id, "ignored", <<>>)
                 \/ /\ c.kind = "finished"
                    /\ EndStream(Nothing)
                    /\ UNCHANGED log
    /\ UNCHANGED sender

\* Mutant: a message that has not been announced is discarded too.
DiscardChunksUnannounced ==
    /\ "discard" \in Ops
    /\ receiving.st = "chunks"
    /\ receiving' = Nothing
    /\ streaming' = FALSE
    /\ parts' = <<>>
    /\ IF InProgress /\ receiving.announced THEN Log(seen.id, "discarded", <<>>) ELSE UNCHANGED log
    /\ UNCHANGED <<sender, chan, finished, seen>>

\* Receiver::discard_chunks
DiscardChunks ==
    /\ "discard" \in Ops
    /\ receiving.st = "chunks" /\ receiving.announced
    /\ receiving' = Nothing
    /\ streaming' = FALSE
    /\ parts' = <<>>
    /\ IF InProgress THEN Log(seen.id, "discarded", <<>>) ELSE UNCHANGED log
    /\ UNCHANGED <<sender, chan, finished, seen>>

-----------------------------------------------------------------------------

Next ==
    \/ StartMsg \/ SendChunk \/ CancelSend \/ DropSender
    \/ \E op \in {"recv", "recv_any"} : RecvAny(op)
    \/ RecvChunk \/ DiscardChunks

Spec == Init /\ [][Next]_vars

-----------------------------------------------------------------------------
(* Properties. *)

\* What the receiver returns as a message is one message that the sender completed, with
\* all of its chunks, although messages may be cancelled after any chunk, the receiver
\* may switch between buffering and streaming, and a stream may be abandoned.
DeliveredWhole == \A k \in 1..Len(log) :
    log[k].how \in {"data", "chunks", "ports", "rejected"} => log[k].chunks = Whole(log[k].id)

\* Each message is accounted for at most once, in the order of sending.
InOrder == \A j, k \in 1..Len(log) : j < k => log[j].id < log[k].id

\* "Discarding the chunks of a message that was cancelled by the sender must not swallow
\* the message that follows it" (tests/chmux/cancel.rs:235): a completed message that the
\* receiver has gone past was returned, or its loss was reported to the caller or
\* asked for by it.
NothingLost == \A id \in 1..Len(msgs) :
    (msgs[id].state = "done"
        /\ (seen.id > id \/ (seen = Chunk(id, msgs[id].n) /\ ~InProgress) \/ finished))
    => \E k \in 1..Len(log) : log[k].id = id

\* recv discards a message only if it is too large, or if the message before it was
\* cancelled by its sender: then the receiver may have found its first chunk while it
\* was streaming, and has forgotten how large it is.
DiscardedForReason == \A k \in 1..Len(log) :
    log[k].how = "exceeds" =>
        Size(log[k].id) > MaxDataSize \/ (log[k].id > 1 /\ msgs[log[k].id - 1].state = "cancelled")

\* "Data exceeding that limit is discarded, i.e. after the returned ExceedsMaxDataSize the
\* next message is received." (receiver.rs:510): recv discards no other data.
ExceedsOnlyLarge == \A k \in 1..Len(log) :
    log[k].how = "exceeds" => Size(log[k].id) > MaxDataSize
=============================================================================
