------------------------- MODULE BaseChannel_proofs -------------------------
(***************************************************************************)
(* What a base channel delivers: messages of the chmux channel that are    *)
(* complete and in order, and on top of them items that have one outcome   *)
(* each, complete with their own ports.  For every number and size of      *)
(* items, limits of both endpoints and capacity of the channel, whatever   *)
(* is given up or fails in between.                                        *)
(***************************************************************************)
EXTENDS BaseChannel, FiniteSetTheorems, TLAPS

----------------------------------------------------------------------------
(* The inductive invariant of the chmux channel *)

Msg == [kind : {"data", "ports"}, n : Nat \ {0}, tail : 0..1, sent : Nat,
        state : {"sending", "done", "cancelled"}]
AChunk == [id : Nat, i : Nat, kind : {"data", "ports", "finished"}, size : Nat,
           first : BOOLEAN, last : BOOLEAN]
Receiving == [st : {"nothing", "data", "requests", "chunks"}, buf : Seq(AChunk),
              completed : BOOLEAN, announced : BOOLEAN]

Hows == {"data", "ports", "rejected", "chunks", "exceeds", "too_many", "ignored", "discarded"}

\* Only the last message is being sent, and a message is done with its last chunk.
MsgsOK ==
    /\ msgs \in Seq(Msg)
    /\ \A id \in 1..Len(msgs) :
         /\ msgs[id].sent <= msgs[id].n
         /\ msgs[id].state = "done" <=> msgs[id].sent = msgs[id].n
         /\ msgs[id].state = "sending" => id = Len(msgs)
    /\ closed \in BOOLEAN /\ (closed => ~Ch!Sending)

\* A chunk that was sent.
Sent(c) == c.id \in 1..Len(msgs) /\ c.i \in 1..msgs[c.id].sent /\ c = Ch!Chunk(c.id, c.i)

\* No chunk of the message of c, and none of the messages up to number b, comes after c.
Exhausted(c) == c.id > 0 => msgs[c.id].sent = c.i
Unsent(a, b) == \A id \in (a + 1)..b : msgs[id].sent = 0
AtEnd(c) == Exhausted(c) /\ Unsent(c.id, Len(msgs))

\* The chunk d was sent right after c.
Follows(c, d) ==
    \/ d.id = c.id /\ d.i = c.i + 1
    \/ d.id > c.id /\ d.i = 1 /\ Exhausted(c) /\ Unsent(c.id, d.id - 1)

\* What came before the j-th entry of the channel.
Prior(j) == IF j = 1 THEN seen ELSE chan[j - 1]

\* The channel holds the chunks that follow the last one seen, without gaps, and the end.
EntryOK(j) ==
    IF chan[j].kind = "finished"
    THEN j = Len(chan) /\ closed /\ ~finished /\ AtEnd(Prior(j))
    ELSE Sent(chan[j]) /\ Follows(Prior(j), chan[j])
EndOK ==
    (chan # <<>> => chan[Len(chan)].kind # "finished") =>
        AtEnd(Prior(Len(chan) + 1)) /\ finished = closed
ChanOK ==
    /\ chan \in Seq(AChunk) /\ finished \in BOOLEAN
    /\ seen = Ch!NoChunk \/ Sent(seen)
    /\ \A j \in 1..Len(chan) : EntryOK(j)
    /\ EndOK
    /\ finished => chan = <<>>

Prefix(id, k) == [i \in 1..k |-> Ch!Chunk(id, i)]
Logged(id) == \E k \in 1..Len(log) : log[k].id = id
LogBelow == \A k \in 1..Len(log) : log[k].id < seen.id

\* A message that recv may discard.
Discardable(id) ==
    Ch!Size(id) > MaxDataSize \/ (id > 1 /\ msgs[id - 1].state = "cancelled")

\* What the receiver has buffered is the beginning of the message that it has seen last.
BuffersOK(st, kind) ==
    receiving.st = st =>
        /\ seen.id > 0 /\ seen.kind = kind /\ ~seen.last
        /\ receiving.buf = Prefix(seen.id, seen.i)
        /\ LogBelow
StreamOK ==
    receiving.st = "chunks" =>
        /\ seen.id > 0 /\ seen.kind = "data"
        /\ Len(parts) + Len(receiving.buf) = seen.i
        /\ \A i \in 1..Len(parts) : parts[i] = Ch!Chunk(seen.id, i)
        /\ \A i \in 1..Len(receiving.buf) : receiving.buf[i] = Ch!Chunk(seen.id, Len(parts) + i)
        /\ receiving.completed = seen.last
        /\ IF Ch!InProgress THEN LogBelow ELSE Logged(seen.id)
        /\ Discardable(seen.id)
        /\ ~finished
NothingOK ==
    receiving.st = "nothing" =>
        /\ receiving = Ch!Nothing
        /\ seen.id > 0 => Logged(seen.id) \/ msgs[seen.id].state = "cancelled"
ReceivingOK ==
    /\ receiving \in Receiving /\ streaming \in BOOLEAN /\ parts \in Seq(AChunk)
    /\ streaming => receiving.st = "chunks" /\ receiving.announced
    /\ BuffersOK("data", "data") /\ BuffersOK("requests", "ports") /\ StreamOK /\ NothingOK

\* The log is in the order of sending, and a message that was done is in it once the
\* receiver has seen a later one.
LogOK ==
    /\ log \in Seq([id : Nat, how : Hows, chunks : Seq(AChunk)])
    /\ \A k \in 1..Len(log) : log[k].id \in 1..seen.id
    /\ \A id \in 1..(seen.id - 1) : msgs[id].state = "done" => Logged(id)
    /\ Ch!InOrder /\ Ch!DeliveredWhole /\ Ch!DiscardedForReason

ChInv == MsgsOK /\ ChanOK /\ ReceivingOK /\ LogOK

----------------------------------------------------------------------------
(* The inductive invariant of the items *)

Item == [n : Nat \ {0}, ports : 0..MaxPorts, fault : {"none", "ser", "odd"}, msg : Nat,
         state : {"data", "ports", "ok", "cancelled", "error"}]

HasPorts(k) ==
    /\ items[k].msg + 1 <= Len(msgs)
    /\ msgs[items[k].msg + 1].kind = "ports"

\* The data message of an item is as long as its data, and what cannot be sent is not.
DataOK(k) == LET m == msgs[items[k].msg] IN
    /\ m.kind = "data"
    /\ m.n = items[k].n + 1 - m.tail
    /\ items[k].fault = "ser" => m.tail = 0 /\ m.sent < items[k].n
    /\ items[k].n > SendLimit => m.tail = 0 /\ m.sent <= SendLimit

\* How far the messages of an item are, by the state of its send.
ProgressOK(k) == LET m == items[k].msg IN
    CASE items[k].state = "data" ->
           k = Cur /\ m = Len(msgs) /\ msgs[m].state # "cancelled"
      [] items[k].state = "ports" ->
           k = Cur /\ HasPorts(k) /\ m + 1 = Len(msgs) /\ msgs[m + 1].state # "cancelled"
      [] items[k].state = "ok" ->
           msgs[m].state = "done" /\ (items[k].ports > 0 => HasPorts(k) /\ msgs[m + 1].state = "done")
      [] OTHER -> TRUE

\* An item that could not be sent has no message; a message holds the data of an item, or
\* the ports of the item with the message before.
ItemOK(k) ==
    IF items[k].msg = 0 THEN items[k].state = "error"
    ELSE items[k].msg <= Len(msgs) /\ DataOK(k) /\ ProgressOK(k)
MsgOK(id) ==
    IF msgs[id].kind = "data" THEN \E k \in 1..Cur : items[k].msg = id
    ELSE id > 1 /\ msgs[id - 1].kind = "data" /\ msgs[id - 1].state = "done" /\ msgs[id].n <= MaxPorts
Ascending == \A j, k \in 1..Cur : j < k /\ items[k].msg > 0 => items[j].msg < items[k].msg

\* Messages and items belong together.
ItemsOK ==
    /\ items \in Seq(Item)
    /\ \A k \in 1..Cur : ItemOK(k)
    /\ Ascending
    /\ \A id \in 1..Len(msgs) : MsgOK(id)
    /\ Ch!Sending => Sending
    /\ closed => ~Sending

\* The deserializer is fed the message being streamed, from its first chunk.
TaskOK ==
    /\ data \in {"none", "streamed", "exceeded", "unavailable", "fed"}
    /\ data # "none" => item = 0
    /\ data = "none" /\ receiving.st = "chunks" =>
         item = 0 /\ parts = <<>> /\ receiving.buf # <<>>
    /\ data = "streamed" => streaming /\ fed = parts
    /\ data \in {"streamed", "exceeded", "unavailable"} =>
         receiving.st = "chunks" /\ receiving.announced
    /\ data = "exceeded" => items[ItemOf(seen.id)].n > RecvLimit
    /\ data = "unavailable" => Ch!InProgress /\ "rx" \notin threads
    /\ data = "fed" =>
         /\ receiving.st = "nothing" /\ seen.id > 0 /\ seen.kind = "data"
         /\ \E j \in 1..seen.i : fed = Prefix(seen.id, j)
         /\ Whole(fed) \/ Undecodable(fed)

\* An item that was serialized and sent.
Serialized(k) ==
    items[k].fault = "none" /\ items[k].n <= SendLimit /\ msgs[items[k].msg].sent >= items[k].n

\* While an item waits for its ports, nothing else has been received completely.
WaitingOK ==
    item # 0 =>
        /\ item \in 1..Cur /\ items[item].msg \in 1..seen.id /\ items[item].ports > 0
        /\ Serialized(item)
        /\ items[item].msg = seen.id => receiving.st = "nothing"
        /\ \A id \in (items[item].msg + 1)..seen.id :
             \/ msgs[id].state = "cancelled"
             \/ id = seen.id /\ receiving.st \in {"data", "requests"}
        /\ \A i \in 1..Len(got) : got[i].item < item

\* The receiver is working on the data of the message that it has seen last.
Working == data # "none" \/ receiving.st \in {"data", "chunks"}

OutcomesOK ==
    /\ got \in Seq([item : Nat, how : {"item", "error"}])
    /\ \A i \in 1..Len(got) :
         /\ got[i].item \in 1..Cur /\ items[got[i].item].msg \in 1..seen.id
         /\ Working => items[got[i].item].msg < seen.id
    /\ \A i, j \in 1..Len(got) : i < j => got[i].item < got[j].item
    /\ ErrorsForReason /\ DeliveredComplete

Live(k) == items[k].state \in {"data", "ports", "ok"}
Handled(k) == \E i \in 1..Len(got) : got[i].item = k

\* An item whose send goes on or was successful has had its outcome or may still have it.
NoneForgotten ==
    \A k \in 1..Cur : Live(k) =>
        \/ Handled(k) \/ item = k \/ seen.id < items[k].msg
        \/ seen.id = items[k].msg /\ Working

Idle ==
    items = <<>> /\ data = "none" /\ fed = <<>> /\ item = 0 /\ got = <<>> /\ ended = FALSE

ItemInv ==
    IF setup.bin THEN Idle
    ELSE /\ ItemsOK /\ TaskOK /\ WaitingOK /\ OutcomesOK /\ NoneForgotten
         /\ ended \in BOOLEAN /\ (ended => finished /\ item = 0 /\ data = "none")

IInv == setup \in Setups /\ ChInv /\ ItemInv

----------------------------------------------------------------------------
(* Messages and chunks *)

LEMMA MsgTypes ==
    ASSUME MsgsOK, NEW id \in 1..Len(msgs)
    PROVE  /\ msgs[id] \in Msg
           /\ msgs[id].kind \in {"data", "ports"} /\ msgs[id].n \in Nat \ {0}
           /\ msgs[id].tail \in 0..1 /\ msgs[id].sent \in Nat
           /\ msgs[id].state \in {"sending", "done", "cancelled"}
           /\ Len(msgs) \in Nat
<1>1. msgs[id] \in Msg
  BY DEF MsgsOK
<1>2. Len(msgs) \in Nat
  BY DEF MsgsOK
<1> QED  BY <1>1, <1>2 DEF Msg

LEMMA SizeType ==
    ASSUME MsgsOK, NEW id \in 1..Len(msgs)
    PROVE  Ch!Size(id) \in Int
<1>1. msgs[id].n \in Nat /\ msgs[id].tail \in 0..1
  BY MsgTypes
<1> QED  BY <1>1 DEF Ch!Size

\* A message that is not the last one is done or was cancelled.
LEMMA MsgFacts ==
    ASSUME MsgsOK, NEW id \in 1..Len(msgs)
    PROVE  /\ msgs[id].sent <= msgs[id].n
           /\ msgs[id].state = "done" <=> msgs[id].sent = msgs[id].n
           /\ id < Len(msgs) => msgs[id].state \in {"done", "cancelled"}
           /\ closed => msgs[id].state \in {"done", "cancelled"}
<1>1. /\ msgs[id].sent <= msgs[id].n
      /\ msgs[id].state = "done" <=> msgs[id].sent = msgs[id].n
      /\ msgs[id].state = "sending" => id = Len(msgs)
      /\ closed => ~Ch!Sending
  BY DEF MsgsOK
<1>2. Len(msgs) \in Nat /\ msgs[id].state \in {"sending", "done", "cancelled"} /\ id \in Int
  BY MsgTypes
<1>3. id < Len(msgs) => msgs[id].state \in {"done", "cancelled"}
  BY <1>1, <1>2
<1>4. ASSUME closed, msgs[id].state = "sending" PROVE FALSE
  <2>1. id = Len(msgs) /\ ~Ch!Sending
    BY <1>1, <1>4
  <2>2. msgs # <<>>
    BY <2>1, <1>2
  <2> QED  BY <1>4, <2>1, <2>2 DEF Ch!Sending, Ch!Last, Last
<1> QED  BY <1>1, <1>2, <1>3, <1>4

LEMMA ChunkFacts ==
    ASSUME MsgsOK, NEW id \in 1..Len(msgs), NEW i \in 1..msgs[id].n
    PROVE  /\ Ch!Chunk(id, i) \in AChunk
           /\ Ch!Chunk(id, i).id = id /\ Ch!Chunk(id, i).i = i /\ Ch!Chunk(id, i).kind = msgs[id].kind
           /\ Ch!Chunk(id, i).first = (i = 1) /\ Ch!Chunk(id, i).last = (i = msgs[id].n)
           /\ Ch!Chunk(id, i).size = (IF i = msgs[id].n THEN msgs[id].tail ELSE 1)
<1>1. msgs[id].n \in Nat \ {0} /\ msgs[id].tail \in 0..1 /\ msgs[id].kind \in {"data", "ports"}
      /\ id \in Nat /\ i \in Nat
  BY MsgTypes
<1> QED  BY <1>1 DEF Ch!Chunk, AChunk

LEMMA SentFacts ==
    ASSUME MsgsOK, NEW c, Sent(c)
    PROVE  /\ c \in AChunk /\ c.id \in 1..Len(msgs) /\ c.i \in 1..msgs[c.id].n
           /\ c.i \in 1..msgs[c.id].sent
           /\ c.kind = msgs[c.id].kind /\ c.first = (c.i = 1) /\ c.last = (c.i = msgs[c.id].n)
           /\ c = Ch!Chunk(c.id, c.i) /\ c.id \in Nat \ {0} /\ c.i \in Nat \ {0}
           /\ c.kind # "finished"
<1>1. c.id \in 1..Len(msgs) /\ c.i \in 1..msgs[c.id].sent /\ c = Ch!Chunk(c.id, c.i)
  BY DEF Sent
<1>2. msgs[c.id].sent <= msgs[c.id].n /\ msgs[c.id].n \in Nat /\ msgs[c.id].sent \in Nat
      /\ Len(msgs) \in Nat /\ msgs[c.id].kind \in {"data", "ports"}
  BY <1>1, MsgTypes, MsgFacts
<1>3. c.i \in 1..msgs[c.id].n
  BY <1>1, <1>2
<1>4. /\ Ch!Chunk(c.id, c.i) \in AChunk /\ Ch!Chunk(c.id, c.i).kind = msgs[c.id].kind
      /\ Ch!Chunk(c.id, c.i).first = (c.i = 1) /\ Ch!Chunk(c.id, c.i).last = (c.i = msgs[c.id].n)
  BY <1>1, <1>3, ChunkFacts
<1> QED  BY <1>1, <1>2, <1>3, <1>4

\* What has been seen.
LEMMA SeenFacts ==
    ASSUME MsgsOK, ChanOK
    PROVE  /\ seen.id \in 0..Len(msgs) /\ seen.id \in Nat /\ Len(msgs) \in Nat
           /\ seen.id > 0 => Sent(seen)
           /\ seen.id = 0 => seen = Ch!NoChunk
<1>1. Len(msgs) \in Nat
  BY DEF MsgsOK
<1>2. CASE seen = Ch!NoChunk
  BY <1>1, <1>2 DEF Ch!NoChunk
<1>3. CASE Sent(seen)
  BY <1>1, <1>3, SentFacts
<1> QED  BY <1>2, <1>3 DEF ChanOK

\* The messages of one step are those of the next: only the last one may go on, and be
\* ended, and a new one may be started.
MsgsGrow ==
    /\ Len(msgs) <= Len(msgs')
    /\ \A id \in 1..Len(msgs) :
         /\ msgs'[id].kind = msgs[id].kind /\ msgs'[id].n = msgs[id].n
         /\ msgs'[id].tail = msgs[id].tail /\ msgs[id].sent <= msgs'[id].sent
         /\ msgs[id].state # "sending" =>
              msgs'[id].sent = msgs[id].sent /\ msgs'[id].state = msgs[id].state

LEMMA ChunkSame ==
    ASSUME MsgsGrow, NEW id \in 1..Len(msgs), NEW i
    PROVE  Ch!Chunk(id, i)' = Ch!Chunk(id, i)
  BY DEF MsgsGrow, Ch!Chunk

\* The types of messages as one state predicate, also of the next state.
MsgsTyped ==
    /\ Len(msgs) \in Nat
    /\ \A id \in 1..Len(msgs) :
         /\ msgs[id].kind \in {"data", "ports"} /\ msgs[id].n \in Nat \ {0}
         /\ msgs[id].tail \in 0..1 /\ msgs[id].sent \in Nat
         /\ msgs[id].state \in {"sending", "done", "cancelled"}

LEMMA MsgsAreTyped == MsgsOK => MsgsTyped
<1>1. MsgsOK => Len(msgs) \in Nat
  BY DEF MsgsOK
<1> QED  BY <1>1, MsgTypes DEF MsgsTyped

LEMMA SentStays ==
    ASSUME MsgsOK, MsgsOK', MsgsGrow, NEW c, Sent(c)
    PROVE  /\ c.id \in 1..Len(msgs') /\ c.i \in 1..msgs'[c.id].sent
           /\ c = Ch!Chunk(c.id, c.i)'
<1>1. /\ c.id \in 1..Len(msgs) /\ c.i \in 1..msgs[c.id].sent /\ c = Ch!Chunk(c.id, c.i)
      /\ Len(msgs) \in Nat /\ msgs[c.id].sent \in Nat /\ c.i \in Nat
  BY SentFacts, MsgTypes DEF Sent
<1>2. (MsgsOK => MsgsTyped)'
  BY MsgsAreTyped, PTL
<1>3. Len(msgs') \in Nat /\ \A id \in 1..Len(msgs') : msgs'[id].sent \in Nat
  BY <1>2 DEF MsgsTyped
<1>4. c.id \in 1..Len(msgs')
  BY <1>1, <1>3 DEF MsgsGrow
<1>5. msgs'[c.id].sent \in Nat /\ msgs[c.id].sent <= msgs'[c.id].sent
  BY <1>1, <1>3, <1>4 DEF MsgsGrow
<1>6. c.i \in 1..msgs'[c.id].sent
  BY <1>1, <1>5
<1>7. Ch!Chunk(c.id, c.i)' = Ch!Chunk(c.id, c.i)
  BY <1>1 DEF MsgsGrow, Ch!Chunk
<1> QED  BY <1>1, <1>4, <1>6, <1>7

----------------------------------------------------------------------------
(* Steps of the sender *)

\* The receiver's part of the invariant depends on messages that stay the same.
LEMMA ReceiverStays ==
    ASSUME ChInv, MsgsOK', MsgsGrow,
           UNCHANGED <<receiving, finished, streaming, seen, parts, log>>
    PROVE  ReceivingOK' /\ LogOK'
<1>1. MsgsOK /\ ChanOK /\ ReceivingOK /\ LogOK
  BY DEF ChInv
<1>2. /\ seen.id \in 0..Len(msgs) /\ seen.id \in Nat /\ Len(msgs) \in Nat
      /\ receiving' = receiving /\ finished' = finished /\ streaming' = streaming /\ seen' = seen
      /\ parts' = parts /\ log' = log
  BY <1>1, SeenFacts
<1>3. \A id \in 1..Len(msgs) : \A i : Ch!Chunk(id, i)' = Ch!Chunk(id, i)
  BY ChunkSame
<1>4. \A id \in 1..Len(msgs) : msgs[id].state \in {"done", "cancelled"} => msgs'[id].state = msgs[id].state
  BY DEF MsgsGrow
<1>5. \A id \in 1..Len(msgs) : Discardable(id) => Discardable(id)'
  <2> SUFFICES ASSUME NEW id \in 1..Len(msgs), Discardable(id) PROVE Discardable(id)'
    OBVIOUS
  <2>1. Ch!Size(id)' = Ch!Size(id)
    BY DEF MsgsGrow, Ch!Size
  <2>2. ASSUME id > 1, msgs[id - 1].state = "cancelled" PROVE msgs'[id - 1].state = "cancelled"
    <3>1. id - 1 \in 1..Len(msgs)
      BY <1>2, <2>2
    <3> QED  BY <1>4, <2>2, <3>1
  <2> QED  BY <2>1, <2>2 DEF Discardable
<1>6. /\ \A id : Logged(id)' <=> Logged(id)
      /\ LogBelow' = LogBelow /\ Ch!InProgress' = Ch!InProgress
  BY <1>2 DEF Logged, LogBelow, Ch!InProgress
<1>7. ASSUME seen.id > 0
      PROVE  /\ \A i : Ch!Chunk(seen.id, i)' = Ch!Chunk(seen.id, i)
             /\ Prefix(seen.id, seen.i)' = Prefix(seen.id, seen.i)
  <2>1. seen.id \in 1..Len(msgs)
    BY <1>2, <1>7
  <2>2. \A i : Ch!Chunk(seen.id, i)' = Ch!Chunk(seen.id, i)
    BY <1>2, <2>1 DEF MsgsGrow, Ch!Chunk
  <2> QED  BY <1>2, <2>2 DEF Prefix
<1>8. ReceivingOK'
  <2>1. BuffersOK("data", "data")' /\ BuffersOK("requests", "ports")'
    BY <1>1, <1>2, <1>6, <1>7 DEF ReceivingOK, BuffersOK
  <2>2. StreamOK'
    <3> SUFFICES ASSUME receiving.st = "chunks"
                 PROVE  StreamOK!2'
      BY <1>2 DEF StreamOK
    <3>1. StreamOK!2
      BY <1>1 DEF ReceivingOK, StreamOK
    <3>2. seen.id \in 1..Len(msgs)
      BY <1>2, <3>1
    <3>3. Discardable(seen.id)'
      BY <1>2, <1>5, <3>1, <3>2
    <3> QED  BY <1>2, <1>6, <1>7, <3>1, <3>3
  <2>3. NothingOK'
    <3>1. ASSUME seen.id > 0, msgs[seen.id].state = "cancelled" PROVE msgs'[seen.id].state = "cancelled"
      BY <1>2, <1>4, <3>1
    <3> QED  BY <1>1, <1>2, <1>6, <3>1 DEF ReceivingOK, NothingOK
  <2> QED  BY <1>1, <1>2, <2>1, <2>2, <2>3 DEF ReceivingOK
<1>9. LogOK'
  <2>1. \A k \in 1..Len(log) : log[k].id \in 1..Len(msgs)
    <3>1. \A k \in 1..Len(log) : log[k].id \in 1..seen.id
      BY <1>1 DEF LogOK
    <3>2. 1..seen.id \subseteq 1..Len(msgs)
      BY <1>2
    <3> QED  BY <3>1, <3>2
  <2>2. ASSUME NEW id \in 1..(seen.id - 1), msgs'[id].state = "done" PROVE Logged(id)
    <3>1. id \in 1..Len(msgs) /\ id < Len(msgs)
      BY <1>2
    <3>2. msgs[id].state \in {"done", "cancelled"}
      BY <1>1, <3>1, MsgFacts
    <3> QED  BY <1>1, <1>4, <2>2, <3>1, <3>2 DEF LogOK
  <2>3. Ch!InOrder'
    BY <1>1, <1>2 DEF LogOK, Ch!InOrder
  <2>4. Ch!DeliveredWhole'
    <3>1. \A id \in 1..Len(msgs) : Ch!Whole(id)' = Ch!Whole(id)
      BY <1>3 DEF MsgsGrow, Ch!Whole
    <3>2. \A k \in 1..Len(log) : Ch!Whole(log[k].id)' = Ch!Whole(log[k].id)
      BY <1>2, <2>1, <3>1
    <3> QED  BY <1>1, <1>2, <3>2 DEF LogOK, Ch!DeliveredWhole
  <2>5. Ch!DiscardedForReason'
    <3>1. \A k \in 1..Len(log) : log[k].how = "exceeds" => Discardable(log[k].id)
      BY <1>1 DEF LogOK, Ch!DiscardedForReason, Discardable
    <3>2. \A k \in 1..Len(log) : log[k].how = "exceeds" => Discardable(log[k].id)'
      BY <1>2, <1>5, <2>1, <3>1
    <3> QED  BY <1>2, <3>2 DEF Ch!DiscardedForReason, Discardable
  <2> QED  BY <1>1, <1>2, <1>6, <2>2, <2>3, <2>4, <2>5 DEF LogOK
<1> QED  BY <1>8, <1>9

\* Entries of the channel stay what they are while no message but the last one changes.
LEMMA EntriesStay ==
    ASSUME ChInv, MsgsOK', MsgsGrow, seen' = seen, finished' = finished, closed => closed',
           NEW j \in 1..Len(chan), Len(chan') >= Len(chan), \A k \in 1..Len(chan) : chan'[k] = chan[k],
           chan[j].kind # "finished"
    PROVE  EntryOK(j)'
<1>1. MsgsOK /\ ChanOK
  BY DEF ChInv
<1>2. EntryOK(j) /\ Len(chan) \in Nat /\ Len(msgs) \in Nat
  BY <1>1 DEF ChanOK, MsgsOK
<1>3. chan'[j] = chan[j] /\ Prior(j)' = Prior(j)
  BY <1>2 DEF Prior
<1>4. Sent(chan[j]) /\ Follows(Prior(j), chan[j])
  BY <1>2 DEF EntryOK
<1>5. Sent(chan[j])'
  BY <1>1, <1>3, <1>4, SentStays DEF Sent
<1>6. Prior(j).id \in Nat /\ chan[j].id \in 1..Len(msgs) /\ (Prior(j).id > 0 => Prior(j).id \in 1..Len(msgs))
  <2>1. chan[j].id \in 1..Len(msgs)
    BY <1>4 DEF Sent
  <2>2. CASE j = 1
    BY <1>1, <2>1, <2>2, SeenFacts DEF Prior
  <2>3. CASE j # 1
    <3>1. j - 1 \in 1..Len(chan) /\ j - 1 # Len(chan)
      BY <1>2, <2>3
    <3>2. EntryOK(j - 1)
      BY <1>1, <3>1 DEF ChanOK
    <3>3. Sent(chan[j - 1])
      BY <3>1, <3>2 DEF EntryOK
    <3> QED  BY <1>2, <2>1, <2>3, <3>3 DEF Sent, Prior
  <2> QED  BY <2>2, <2>3
<1>7. Follows(Prior(j), chan[j])'
  <2>1. CASE chan[j].id = Prior(j).id /\ chan[j].i = Prior(j).i + 1
    BY <1>3, <2>1 DEF Follows
  <2>2. CASE /\ chan[j].id > Prior(j).id /\ chan[j].i = 1 /\ Exhausted(Prior(j))
             /\ Unsent(Prior(j).id, chan[j].id - 1)
    <3>1. \A id \in 1..Len(msgs) : id < chan[j].id => msgs'[id].sent = msgs[id].sent
      <4> SUFFICES ASSUME NEW id \in 1..Len(msgs), id < chan[j].id PROVE msgs'[id].sent = msgs[id].sent
        OBVIOUS
      <4>1. id < Len(msgs)
        BY <1>2, <1>6
      <4>2. msgs[id].state # "sending"
        BY <1>1, <4>1, MsgFacts
      <4> QED  BY <4>2 DEF MsgsGrow
    <3>2. Exhausted(Prior(j))'
      BY <1>3, <1>6, <2>2, <3>1 DEF Exhausted
    <3>3. Unsent(Prior(j).id, chan[j].id - 1)'
      <4> SUFFICES ASSUME NEW id \in (Prior(j).id + 1)..(chan[j].id - 1) PROVE msgs'[id].sent = 0
        BY <1>3 DEF Unsent
      <4>1. id \in 1..Len(msgs) /\ id < chan[j].id
        <5> DEFINE a == Prior(j).id
                   b == chan[j].id
        <5>1. a \in Nat /\ b \in 1..Len(msgs) /\ id \in (a + 1)..(b - 1)
          BY <1>6
        <5> HIDE DEF a, b
        <5>2. id \in 1..Len(msgs) /\ id < b
          BY <1>2, <5>1
        <5> QED  BY <5>2 DEF b
      <4>2. msgs[id].sent = 0
        BY <2>2 DEF Unsent
      <4> QED  BY <3>1, <4>1, <4>2
    <3> QED  BY <1>3, <2>2, <3>2, <3>3 DEF Follows
  <2> QED  BY <1>4, <2>1, <2>2 DEF Follows
<1>8. chan'[j].kind # "finished"
  BY <1>3
<1> QED  BY <1>5, <1>7, <1>8 DEF EntryOK

\* A message is started.
LEMMA StartKeeps ==
    ASSUME ChInv, NEW op, NEW kind \in {"data", "ports"}, NEW n \in Nat \ {0}, NEW tail \in 0..1,
           Ch!Start(op, kind, n, tail)
    PROVE  ChInv' /\ MsgsGrow
<1> DEFINE m == [kind |-> kind, n |-> n, tail |-> tail, sent |-> 0, state |-> "sending"]
<1>1. MsgsOK /\ ChanOK
  BY DEF ChInv
<1>2. /\ ~closed /\ ~Ch!Sending /\ msgs' = Append(msgs, m)
      /\ UNCHANGED <<closed, chan, receiving, finished, streaming, seen, parts, log>>
  BY DEF Ch!Start
<1>3. m \in Msg
  BY DEF Msg
<1>4. /\ Len(msgs) \in Nat /\ msgs' \in Seq(Msg) /\ Len(msgs') = Len(msgs) + 1
      /\ \A id \in 1..Len(msgs) : msgs'[id] = msgs[id]
      /\ msgs'[Len(msgs) + 1] = m
  <2> HIDE DEF m
  <2>1. msgs \in Seq(Msg)
    BY <1>1 DEF MsgsOK
  <2> QED  BY <1>2, <1>3, <2>1
<1>5. \A id \in 1..Len(msgs) : msgs[id].state \in {"done", "cancelled"}
  <2> SUFFICES ASSUME NEW id \in 1..Len(msgs) PROVE msgs[id].state \in {"done", "cancelled"}
    OBVIOUS
  <2>1. CASE id = Len(msgs)
    BY <1>1, <1>2, <1>4, <2>1, MsgTypes DEF Ch!Sending, Ch!Last, Last
  <2>2. CASE id < Len(msgs)
    BY <1>1, <2>2, MsgFacts
  <2> QED  BY <1>4, <2>1, <2>2
<1>6. MsgsGrow
  <2>1. \A id \in 1..Len(msgs) : msgs[id].sent \in Nat
    BY <1>1, MsgTypes
  <2> QED  BY <1>4, <2>1 DEF MsgsGrow
<1>7. MsgsOK'
  <2>1. ASSUME NEW id \in 1..Len(msgs')
        PROVE  /\ msgs'[id].sent <= msgs'[id].n
               /\ msgs'[id].state = "done" <=> msgs'[id].sent = msgs'[id].n
               /\ msgs'[id].state = "sending" => id = Len(msgs')
    <3>1. CASE id \in 1..Len(msgs)
      BY <1>1, <1>4, <1>5, <3>1 DEF MsgsOK
    <3>2. CASE id = Len(msgs) + 1
      BY <1>4, <3>2
    <3> QED  BY <1>4, <3>1, <3>2
  <2>2. closed' \in BOOLEAN /\ ~closed'
    BY <1>1, <1>2 DEF MsgsOK
  <2> QED  BY <1>4, <2>1, <2>2 DEF MsgsOK
<1>8. ChanOK'
  <2>1. chan' = chan /\ seen' = seen /\ finished' = finished /\ closed' = closed
    BY <1>2
  <2>2. seen' = Ch!NoChunk \/ Sent(seen)'
    BY <1>1, <1>6, <1>7, <2>1, SentStays DEF ChanOK, Sent
  <2>3. ASSUME NEW j \in 1..Len(chan) PROVE EntryOK(j)'
    <3>1. chan[j].kind # "finished"
      BY <1>1, <1>2 DEF ChanOK, EntryOK
    <3>2. Len(chan') >= Len(chan)
      BY <1>1, <2>1 DEF ChanOK
    <3> QED  BY <1>6, <1>7, <2>1, <3>1, <3>2, EntriesStay
  <2>4. EndOK'
    <3>1. chan # <<>> => chan[Len(chan)].kind # "finished"
      BY <1>1, <1>2 DEF ChanOK, EntryOK
    <3> DEFINE c == Prior(Len(chan) + 1)
    <3>2. AtEnd(c) /\ finished = closed
      BY <1>1, <3>1 DEF ChanOK, EndOK
    <3>3. c' = c /\ Len(chan') = Len(chan)
      BY <2>1 DEF Prior
    <3>4. c.id \in 0..Len(msgs)
      <4>1. CASE chan = <<>>
        BY <1>1, <4>1, SeenFacts DEF Prior
      <4>2. CASE chan # <<>>
        <5>1. Len(chan) \in 1..Len(chan) /\ Len(chan) \in Nat
          BY <1>1, <4>2 DEF ChanOK
        <5>2. Sent(chan[Len(chan)])
          BY <1>1, <3>1, <4>2, <5>1 DEF ChanOK, EntryOK
        <5>3. c = chan[Len(chan)]
          BY <5>1 DEF Prior
        <5> QED  BY <1>4, <5>2, <5>3 DEF Sent
      <4> QED  BY <4>1, <4>2
    <3> HIDE DEF c
    <3>5. Exhausted(c)'
      BY <1>4, <3>2, <3>3, <3>4 DEF AtEnd, Exhausted
    <3>6. Unsent(c.id, Len(msgs))'
      <4> SUFFICES ASSUME NEW id \in (c.id + 1)..(Len(msgs) + 1) PROVE msgs'[id].sent = 0
        BY <1>4, <3>3 DEF Unsent
      <4>1. CASE id = Len(msgs) + 1
        BY <1>4, <4>1
      <4>2. CASE id \in (c.id + 1)..Len(msgs)
        BY <1>4, <3>2, <3>4, <4>2 DEF AtEnd, Unsent
      <4> QED  BY <1>4, <3>4, <4>1, <4>2
    <3>7. AtEnd(c)'
      BY <3>5, <3>6 DEF AtEnd
    <3> QED  BY <2>1, <3>2, <3>7 DEF EndOK, c
  <2> QED  BY <1>1, <2>1, <2>2, <2>3, <2>4 DEF ChanOK
<1>9. ReceivingOK' /\ LogOK'
  BY <1>2, <1>6, <1>7, ReceiverStays
<1> QED  BY <1>6, <1>7, <1>8, <1>9 DEF ChInv

\* The last entry of the channel before the end, if there is room for more.
LEMMA LastFacts ==
    ASSUME ChInv, chan # <<>> => chan[Len(chan)].kind # "finished"
    PROVE  LET c == Prior(Len(chan) + 1) IN
           /\ AtEnd(c) /\ finished = closed /\ c.id \in 0..Len(msgs)
           /\ c.id = 0 => c = Ch!NoChunk
           /\ c.id > 0 => Sent(c)
<1> DEFINE c == Prior(Len(chan) + 1)
<1>1. MsgsOK /\ ChanOK
  BY DEF ChInv
<1>2. AtEnd(c) /\ finished = closed
  BY <1>1 DEF ChanOK, EndOK
<1>3. CASE chan = <<>>
  <2>1. c = seen
    BY <1>3 DEF Prior
  <2> QED  BY <1>1, <1>2, <2>1, SeenFacts
<1>4. CASE chan # <<>>
  <2>1. Len(chan) \in 1..Len(chan) /\ Len(chan) \in Nat
    BY <1>1, <1>4 DEF ChanOK
  <2>2. Sent(chan[Len(chan)])
    BY <1>1, <1>4, <2>1 DEF ChanOK, EntryOK
  <2>3. c = chan[Len(chan)]
    BY <2>1 DEF Prior
  <2>4. c.id \in 1..Len(msgs) /\ c.id \in Nat \ {0} /\ Len(msgs) \in Nat
    BY <1>1, <2>2, <2>3, SentFacts DEF MsgsOK
  <2>5. c.id \in 0..Len(msgs) /\ c.id # 0
    <3> HIDE DEF c
    <3> QED  BY <2>4
  <2> QED  BY <1>2, <2>2, <2>3, <2>5
<1> QED  BY <1>3, <1>4

\* The last element of a sequence is replaced.
LEMMA ReplaceLast ==
    ASSUME NEW T, NEW s \in Seq(T), s # <<>>, NEW m \in T
    PROVE  LET t == [s EXCEPT ![Len(s)] = m] IN
           /\ Len(s) \in 1..Len(s) /\ Len(s) \in Nat \ {0}
           /\ t \in Seq(T) /\ Len(t) = Len(s) /\ t[Len(s)] = m
           /\ \A k \in 1..Len(s) : k # Len(s) => t[k] = s[k]
  OBVIOUS

\* Messages of which the last is changed.
LEMMA LastChanged ==
    ASSUME MsgsOK, Ch!Sending, NEW m, msgs' \in Seq(Msg), Len(msgs') = Len(msgs),
           msgs'[Len(msgs)] = m,
           \A id \in 1..Len(msgs) : id # Len(msgs) => msgs'[id] = msgs[id],
           m.kind = msgs[Len(msgs)].kind, m.n = msgs[Len(msgs)].n, m.tail = msgs[Len(msgs)].tail,
           msgs[Len(msgs)].sent <= m.sent, m.sent <= m.n, m.state = "done" <=> m.sent = m.n,
           closed' = closed
    PROVE  MsgsOK' /\ MsgsGrow
<1>1. msgs \in Seq(Msg) /\ msgs # <<>> /\ Len(msgs) \in Nat
  BY DEF MsgsOK, Ch!Sending
<1>3. /\ msgs' \in Seq(Msg) /\ Len(msgs') = Len(msgs) /\ msgs'[Len(msgs)] = m
      /\ \A id \in 1..Len(msgs) : id # Len(msgs) => msgs'[id] = msgs[id]
  OBVIOUS
<1>4. msgs[Len(msgs)].state = "sending" /\ ~closed /\ closed \in BOOLEAN
  BY DEF MsgsOK, Ch!Sending, Ch!Last, Last
<1>5. MsgsOK'
  <2>1. ASSUME NEW id \in 1..Len(msgs)
        PROVE  /\ msgs'[id].sent <= msgs'[id].n
               /\ msgs'[id].state = "done" <=> msgs'[id].sent = msgs'[id].n
               /\ msgs'[id].state = "sending" => id = Len(msgs)
    <3>1. CASE id = Len(msgs)
      BY <1>3, <3>1
    <3>2. CASE id # Len(msgs)
      <4>1. msgs'[id] = msgs[id]
        BY <1>3, <3>2
      <4>2. /\ msgs[id].sent <= msgs[id].n
            /\ msgs[id].state = "done" <=> msgs[id].sent = msgs[id].n
            /\ msgs[id].state = "sending" => id = Len(msgs)
        BY DEF MsgsOK
      <4> QED  BY <4>1, <4>2
    <3> QED  BY <3>1, <3>2
  <2>2. closed' \in BOOLEAN /\ ~closed'
    BY <1>4
  <2> QED  BY <1>3, <2>1, <2>2 DEF MsgsOK
<1>6. MsgsGrow
  <2>1. \A id \in 1..Len(msgs) : msgs[id].sent \in Nat
    BY MsgTypes
  <2>2. ASSUME NEW id \in 1..Len(msgs)
        PROVE  /\ msgs'[id].kind = msgs[id].kind /\ msgs'[id].n = msgs[id].n
               /\ msgs'[id].tail = msgs[id].tail /\ msgs[id].sent <= msgs'[id].sent
               /\ msgs[id].state # "sending" =>
                    msgs'[id].sent = msgs[id].sent /\ msgs'[id].state = msgs[id].state
    <3>1. CASE id = Len(msgs)
      BY <1>3, <1>4, <3>1
    <3>2. CASE id # Len(msgs)
      BY <1>3, <2>1, <3>2
    <3> QED  BY <3>1, <3>2
  <2>3. Len(msgs) <= Len(msgs')
    BY <1>1, <1>3
  <2> QED  BY <2>2, <2>3 DEF MsgsGrow
<1> QED  BY <1>5, <1>6

\* The future of send or connect is dropped.
LEMMA CancelKeeps ==
    ASSUME ChInv, Ch!CancelSend
    PROVE  /\ ChInv' /\ MsgsGrow /\ Len(msgs') = Len(msgs)
           /\ Len(msgs) \in 1..Len(msgs)
           /\ \A id \in 1..Len(msgs) : msgs'[id].sent = msgs[id].sent
           /\ \A id \in 1..Len(msgs) : id # Len(msgs) => msgs'[id].state = msgs[id].state
           /\ msgs'[Len(msgs)].state = "cancelled"
<1> DEFINE m == [msgs[Len(msgs)] EXCEPT !.state = "cancelled"]
<1>1. MsgsOK /\ ChanOK
  BY DEF ChInv
<1>2. /\ Ch!Sending /\ msgs' = [msgs EXCEPT ![Len(msgs)] = m]
      /\ UNCHANGED <<closed, chan, receiving, finished, streaming, seen, parts, log>>
  BY DEF Ch!CancelSend
<1>3. Len(msgs) \in 1..Len(msgs) /\ msgs[Len(msgs)].state = "sending"
  BY <1>1, <1>2 DEF MsgsOK, Ch!Sending, Ch!Last, Last
<1>4. msgs[Len(msgs)] \in Msg /\ msgs[Len(msgs)].sent <= msgs[Len(msgs)].n
      /\ msgs[Len(msgs)].sent # msgs[Len(msgs)].n
  BY <1>1, <1>3, MsgTypes, MsgFacts
<1>5. /\ m \in Msg /\ m.kind = msgs[Len(msgs)].kind /\ m.n = msgs[Len(msgs)].n
      /\ m.tail = msgs[Len(msgs)].tail /\ m.sent = msgs[Len(msgs)].sent /\ m.state = "cancelled"
      /\ m.sent \in Nat
  BY <1>4 DEF Msg
<1> HIDE DEF m
<1>6. /\ Len(msgs') = Len(msgs) /\ msgs'[Len(msgs)] = m /\ MsgsOK' /\ MsgsGrow
      /\ \A id \in 1..Len(msgs) : id # Len(msgs) => msgs'[id] = msgs[id]
  <2>1. /\ msgs[Len(msgs)].sent <= m.sent /\ m.sent <= m.n
        /\ m.state = "done" <=> m.sent = m.n
        /\ closed' = closed
    BY <1>2, <1>4, <1>5
  <2>2. msgs \in Seq(Msg) /\ msgs # <<>>
    BY <1>1, <1>2 DEF MsgsOK, Ch!Sending
  <2>3. /\ msgs' \in Seq(Msg) /\ Len(msgs') = Len(msgs) /\ msgs'[Len(msgs)] = m
        /\ \A id \in 1..Len(msgs) : id # Len(msgs) => msgs'[id] = msgs[id]
    BY <1>2, <1>5, <2>2, ReplaceLast
  <2>4. Ch!Sending
    BY <1>2
  <2>5. MsgsOK' /\ MsgsGrow
    BY <1>1, <1>5, <2>1, <2>3, <2>4, LastChanged
  <2> QED  BY <2>3, <2>5
<1>7. \A id \in 1..Len(msgs) : msgs'[id].sent = msgs[id].sent
  BY <1>5, <1>6
<1>8. chan' = chan /\ seen' = seen /\ finished' = finished /\ closed' = closed
  BY <1>2
<1>9. ~closed
  BY <1>1, <1>2 DEF MsgsOK
<1>10. chan # <<>> => chan[Len(chan)].kind # "finished"
  BY <1>1, <1>9 DEF ChanOK, EntryOK
<1>11. ChanOK'
  <2>2. seen' = Ch!NoChunk \/ Sent(seen)'
    BY <1>1, <1>6, <1>8, SentStays DEF ChanOK, Sent
  <2>3. ASSUME NEW j \in 1..Len(chan) PROVE EntryOK(j)'
    <3>1. chan[j].kind # "finished"
      BY <1>1, <1>9 DEF ChanOK, EntryOK
    <3>2. Len(chan') >= Len(chan)
      BY <1>1, <1>8 DEF ChanOK
    <3> QED  BY <1>6, <1>8, <3>1, <3>2, EntriesStay
  <2>4. EndOK'
    <3> DEFINE c == Prior(Len(chan) + 1)
    <3>1. AtEnd(c) /\ finished = closed /\ c.id \in 0..Len(msgs)
      BY <1>10, LastFacts
    <3>2. c' = c /\ Len(chan') = Len(chan)
      BY <1>8 DEF Prior
    <3>3. Len(msgs) \in Nat
      BY <1>1 DEF MsgsOK
    <3> HIDE DEF c
    <3>4. Exhausted(c)'
      BY <1>7, <3>1, <3>2, <3>3 DEF AtEnd, Exhausted
    <3>5. Unsent(c.id, Len(msgs))'
      BY <1>6, <1>7, <3>1, <3>2, <3>3 DEF AtEnd, Unsent
    <3>6. AtEnd(c)'
      BY <3>4, <3>5 DEF AtEnd
    <3> QED  BY <1>8, <3>1, <3>6 DEF EndOK, c
  <2> QED  BY <1>1, <1>8, <2>2, <2>3, <2>4 DEF ChanOK
<1>12. ReceivingOK' /\ LogOK'
  <2>1. UNCHANGED <<receiving, finished, streaming, seen, parts, log>>
    BY <1>2
  <2>2. MsgsOK' /\ MsgsGrow
    BY <1>6
  <2> QED  BY <2>1, <2>2, ReceiverStays
<1>13. \A id \in 1..Len(msgs) : id # Len(msgs) => msgs'[id].state = msgs[id].state
  BY <1>6
<1> QED  BY <1>3, <1>5, <1>6, <1>7, <1>11, <1>12, <1>13 DEF ChInv

\* An entry is appended to the channel.
LEMMA Appended ==
    ASSUME NEW T, NEW s \in Seq(T), NEW e \in T
    PROVE  LET t == Append(s, e) IN
           /\ t \in Seq(T) /\ Len(t) = Len(s) + 1 /\ t[Len(s) + 1] = e /\ t # <<>>
           /\ \A k \in 1..Len(s) : t[k] = s[k]
           /\ Len(s) \in Nat
  OBVIOUS

\* The channel with one more chunk of the last message.
LEMMA ChunkAppended ==
    ASSUME ChInv, MsgsOK', MsgsGrow, NEW id \in 1..Len(msgs), id = Len(msgs), Len(msgs') = Len(msgs),
           \A k \in 1..Len(msgs) : k # Len(msgs) => msgs'[k] = msgs[k],
           NEW i \in 1..msgs[id].n, msgs[id].sent + 1 = i, msgs'[id].sent = i,
           NEW d, d = Ch!Chunk(id, i),
           chan' \in Seq(AChunk), Len(chan') = Len(chan) + 1, chan'[Len(chan) + 1] = d,
           \A k \in 1..Len(chan) : chan'[k] = chan[k],
           ~closed, closed' = closed, seen' = seen, finished' = finished
    PROVE  ChanOK'
<1>1. MsgsOK /\ ChanOK
  BY DEF ChInv
<1>2. /\ Len(chan) \in Nat /\ Len(msgs) \in Nat /\ id \in Nat /\ i \in Nat /\ msgs[id].sent \in Nat
      /\ msgs[id].n \in Nat \ {0}
  BY <1>1, MsgTypes DEF ChanOK, MsgsOK
<1>3. /\ d.id = id /\ d.i = i /\ d.kind # "finished"
  BY <1>1, ChunkFacts, MsgTypes
<1>4. \A j \in 1..Len(chan) : chan[j].kind # "finished"
  BY <1>1 DEF ChanOK, EntryOK
<1>5. chan # <<>> => chan[Len(chan)].kind # "finished"
  <2>1. chan # <<>> => Len(chan) \in 1..Len(chan)
    BY <1>1 DEF ChanOK
  <2> QED  BY <1>4, <2>1
<1>6. LET c == Prior(Len(chan) + 1) IN
      AtEnd(c) /\ finished = closed /\ c.id \in 0..Len(msgs) /\ (c.id > 0 => Sent(c))
  BY <1>5, LastFacts
<1>7. PICK j \in Nat : j = Len(chan) + 1
  BY <1>2
<1>8. PICK c : c = Prior(Len(chan) + 1)
  OBVIOUS
<1>9. c = Prior(j)'
  <2>1. CASE j = 1
    BY <1>7, <1>8, <2>1 DEF Prior
  <2>2. CASE j # 1
    <3>1. Len(chan) \in 1..Len(chan) /\ j - 1 = Len(chan)
      BY <1>2, <1>7, <2>2
    <3> QED  BY <1>7, <1>8, <2>2, <3>1 DEF Prior
  <2> QED  BY <2>1, <2>2
<1>10. AtEnd(c) /\ finished = closed /\ c.id \in 0..Len(msgs) /\ (c.id > 0 => Sent(c))
  BY <1>6, <1>8
<1>11. Prior(Len(chan) + 1)' = d
  <2>1. (Len(chan') + 1) - 1 = Len(chan') /\ Len(chan') + 1 # 1
    BY <1>2
  <2>2. Prior(Len(chan) + 1)' = chan'[Len(chan')]
    BY <2>1 DEF Prior
  <2> QED  BY <2>2
<1>12. Sent(d)'
  <2>1. Ch!Chunk(id, i)' = Ch!Chunk(id, i)
    BY ChunkSame
  <2>2. id \in 1..Len(msgs') /\ i \in 1..msgs'[id].sent
    BY <1>2
  <2> QED  BY <1>3, <2>1, <2>2 DEF Sent
<1>13. Follows(c, d)'
  <2>1. CASE c.id = id
    <3>1. msgs[c.id].sent = c.i
      BY <1>2, <1>10, <2>1 DEF AtEnd, Exhausted
    <3> QED  BY <1>3, <2>1, <3>1 DEF Follows
  <2>2. CASE c.id # id
    <3>1. c.id < id /\ c.id \in Nat
      BY <1>2, <1>10, <2>2
    <3>2. msgs[id].sent = 0
      BY <1>2, <1>10, <3>1 DEF AtEnd, Unsent
    <3>3. Exhausted(c)'
      BY <1>2, <1>10, <3>1 DEF AtEnd, Exhausted
    <3>4. Unsent(c.id, d.id - 1)'
      BY <1>2, <1>3, <1>10, <3>1 DEF AtEnd, Unsent
    <3> QED  BY <1>2, <1>3, <3>1, <3>2, <3>3, <3>4 DEF Follows
  <2> QED  BY <2>1, <2>2
<1>14. ASSUME NEW k \in 1..Len(chan') PROVE EntryOK(k)'
  <2>1. CASE k \in 1..Len(chan)
    <3>1. chan[k].kind # "finished" /\ Len(chan') >= Len(chan) /\ (closed => closed')
      BY <1>2, <1>4, <2>1
    <3> QED  BY <2>1, <3>1, EntriesStay
  <2>2. CASE k = j
    <3>1. chan'[j] = d
      BY <1>7
    <3> QED  BY <1>3, <1>9, <1>12, <1>13, <2>2, <3>1 DEF EntryOK
  <2> QED  BY <1>2, <1>7, <2>1, <2>2
<1>15. AtEnd(d)'
  BY <1>2, <1>3 DEF AtEnd, Exhausted, Unsent
<1>16. EndOK'
  BY <1>10, <1>11, <1>15 DEF EndOK
<1>17. seen' = Ch!NoChunk \/ Sent(seen)'
  BY <1>1, SentStays DEF ChanOK, Sent
<1> QED  BY <1>1, <1>10, <1>14, <1>16, <1>17 DEF ChanOK

\* A chunk of the last message is sent.
LEMMA SendChunkKeeps ==
    ASSUME ChInv, Ch!SendChunk
    PROVE  /\ ChInv' /\ MsgsGrow /\ Len(msgs') = Len(msgs)
           /\ Len(msgs) \in 1..Len(msgs)
           /\ \A id \in 1..Len(msgs) : id # Len(msgs) => msgs'[id] = msgs[id]
           /\ msgs'[Len(msgs)].sent = msgs[Len(msgs)].sent + 1
           /\ msgs'[Len(msgs)].state # "cancelled" /\ msgs[Len(msgs)].state = "sending"
<1> DEFINE old == msgs[Len(msgs)]
           i == old.sent + 1
           m == [old EXCEPT !.sent = i, !.state = IF i = old.n THEN "done" ELSE @]
           d == Ch!Chunk(Len(msgs), i)
<1>1. MsgsOK /\ ChanOK
  BY DEF ChInv
<1>2. /\ Ch!Sending /\ chan' = Append(chan, d)
      /\ msgs' = [msgs EXCEPT ![Len(msgs)] = m]
      /\ UNCHANGED <<closed, receiving, finished, streaming, seen, parts, log>>
  BY DEF Ch!SendChunk
<1>3. Len(msgs) \in 1..Len(msgs) /\ old.state = "sending" /\ Len(msgs) \in Nat \ {0}
  BY <1>1, <1>2 DEF MsgsOK, Ch!Sending, Ch!Last, Last
<1>4. /\ old \in Msg /\ old.sent <= old.n /\ old.sent # old.n /\ old.sent \in Nat /\ old.n \in Nat \ {0}
  BY <1>1, <1>3, MsgTypes, MsgFacts
<1>5. i \in 1..old.n /\ i \in Nat
  BY <1>4
<1>6. /\ m \in Msg /\ m.kind = old.kind /\ m.n = old.n /\ m.tail = old.tail /\ m.sent = i
      /\ m.state = IF i = old.n THEN "done" ELSE "sending"
  <2> HIDE DEF i
  <2> QED  BY <1>3, <1>4, <1>5 DEF Msg
<1>7. d \in AChunk /\ d.id = Len(msgs) /\ d.i = i /\ d.kind \in {"data", "ports"}
  BY <1>1, <1>3, <1>5, ChunkFacts, MsgTypes
<1> HIDE DEF m
<1>8. /\ msgs' \in Seq(Msg) /\ Len(msgs') = Len(msgs) /\ msgs'[Len(msgs)] = m
      /\ \A id \in 1..Len(msgs) : id # Len(msgs) => msgs'[id] = msgs[id]
  <2>1. msgs \in Seq(Msg) /\ msgs # <<>>
    BY <1>1, <1>2 DEF MsgsOK, Ch!Sending
  <2> QED  BY <1>2, <1>6, <2>1, ReplaceLast
<1>9. MsgsOK' /\ MsgsGrow
  <2>1. old.sent <= m.sent /\ m.sent <= m.n /\ (m.state = "done" <=> m.sent = m.n)
    BY <1>4, <1>5, <1>6
  <2>2. Ch!Sending /\ closed' = closed
    BY <1>2
  <2> QED  BY <1>1, <1>6, <1>8, <2>1, <2>2, LastChanged
<1>10. /\ seen' = seen /\ finished' = finished /\ closed' = closed /\ ~closed
  BY <1>1, <1>2 DEF MsgsOK
<1>11. /\ chan' \in Seq(AChunk) /\ Len(chan') = Len(chan) + 1 /\ chan'[Len(chan) + 1] = d
       /\ \A k \in 1..Len(chan) : chan'[k] = chan[k]
       /\ Len(chan) \in Nat
  <2>1. chan \in Seq(AChunk)
    BY <1>1 DEF ChanOK
  <2> HIDE DEF d
  <2> QED  BY <1>2, <1>7, <2>1, Appended
<1>12. PICK id \in 1..Len(msgs), j \in 1..old.n, e \in AChunk : id = Len(msgs) /\ j = i /\ e = d
  BY <1>3, <1>5, <1>7
<1>13. ChanOK'
  <2>1. /\ j \in 1..msgs[id].n /\ msgs[id].sent + 1 = j /\ msgs'[id].sent = j /\ e = Ch!Chunk(id, j)
        /\ chan'[Len(chan) + 1] = e
    BY <1>6, <1>8, <1>11, <1>12
  <2> HIDE DEF i, d, old
  <2> QED  BY <1>8, <1>9, <1>10, <1>11, <1>12, <2>1, ChunkAppended
<1>14. ReceivingOK' /\ LogOK'
  <2>1. UNCHANGED <<receiving, finished, streaming, seen, parts, log>>
    BY <1>2
  <2> QED  BY <1>9, <2>1, ReceiverStays
<1>15. m.sent = old.sent + 1 /\ m.state # "cancelled"
  BY <1>6
<1> QED  BY <1>3, <1>8, <1>9, <1>13, <1>14, <1>15 DEF ChInv

\* The sender is dropped.
LEMMA DropSenderKeeps ==
    ASSUME ChInv, Ch!DropSender
    PROVE  ChInv' /\ MsgsGrow
<1>1. MsgsOK /\ ChanOK
  BY DEF ChInv
<1>2. /\ ~closed /\ ~Ch!Sending /\ closed' = TRUE /\ chan' = Append(chan, Ch!Finished)
      /\ UNCHANGED <<msgs, receiving, finished, streaming, seen, parts, log>>
  BY DEF Ch!DropSender
<1>3. Ch!Finished \in AChunk /\ Ch!Finished.kind = "finished"
  BY DEF Ch!Finished, Ch!NoChunk, AChunk
<1>4. /\ chan' \in Seq(AChunk) /\ Len(chan') = Len(chan) + 1 /\ chan'[Len(chan) + 1] = Ch!Finished
      /\ \A k \in 1..Len(chan) : chan'[k] = chan[k]
      /\ Len(chan) \in Nat
  <2>1. chan \in Seq(AChunk)
    BY <1>1 DEF ChanOK
  <2> QED  BY <1>2, <1>3, <2>1, Appended
<1>5. msgs' = msgs /\ seen' = seen /\ finished' = finished /\ closed' /\ ~closed
  BY <1>2
<1>6. MsgsOK' /\ MsgsGrow
  <2>1. MsgsOK'
    BY <1>1, <1>2 DEF MsgsOK, Ch!Sending, Ch!Last
  <2>2. Len(msgs) \in Nat /\ \A id \in 1..Len(msgs) : msgs[id].sent \in Nat
    BY <1>1, MsgTypes DEF MsgsOK
  <2> QED  BY <1>5, <2>1, <2>2 DEF MsgsGrow
<1>7. \A j \in 1..Len(chan) : chan[j].kind # "finished"
  BY <1>1, <1>5 DEF ChanOK, EntryOK
<1>8. LET c == Prior(Len(chan) + 1) IN AtEnd(c) /\ finished = closed
  <2>1. chan # <<>> => chan[Len(chan)].kind # "finished"
    BY <1>1, <1>7 DEF ChanOK
  <2> QED  BY <2>1, LastFacts
<1>9. PICK j \in Nat : j = Len(chan) + 1
  BY <1>4
<1>10. PICK c : c = Prior(Len(chan) + 1)
  OBVIOUS
<1>11. c = Prior(j)'
  <2>1. CASE j = 1
    BY <1>5, <1>9, <1>10, <2>1 DEF Prior
  <2>2. CASE j # 1
    <3>1. Len(chan) \in 1..Len(chan) /\ j - 1 = Len(chan)
      BY <1>4, <1>9, <2>2
    <3> QED  BY <1>4, <1>9, <1>10, <2>2, <3>1 DEF Prior
  <2> QED  BY <2>1, <2>2
<1>12. AtEnd(c)' /\ ~finished'
  <2>1. AtEnd(c) /\ ~finished
    BY <1>1, <1>5, <1>8, <1>10 DEF ChanOK
  <2> QED  BY <1>5, <2>1 DEF AtEnd, Exhausted, Unsent
<1>13. ASSUME NEW k \in 1..Len(chan') PROVE EntryOK(k)'
  <2>1. CASE k \in 1..Len(chan)
    <3>1. chan[k].kind # "finished" /\ Len(chan') >= Len(chan) /\ (closed => closed')
      BY <1>4, <1>5, <1>7, <2>1
    <3> QED  BY <1>4, <1>5, <1>6, <2>1, <3>1, EntriesStay
  <2>2. CASE k = j
    <3>1. chan'[j].kind = "finished" /\ j = Len(chan')
      BY <1>3, <1>4, <1>9
    <3> QED  BY <1>5, <1>11, <1>12, <2>2, <3>1 DEF EntryOK
  <2> QED  BY <1>4, <1>9, <2>1, <2>2
<1>14. EndOK'
  <2>1. chan' # <<>> /\ chan'[Len(chan')].kind = "finished"
    BY <1>3, <1>4
  <2> QED  BY <2>1 DEF EndOK
<1>15. seen' = Ch!NoChunk \/ Sent(seen)'
  BY <1>1, <1>5 DEF ChanOK, Sent, Ch!Chunk
<1>16. ChanOK'
  BY <1>1, <1>4, <1>5, <1>12, <1>13, <1>14, <1>15 DEF ChanOK
<1>17. ReceivingOK' /\ LogOK'
  <2>1. UNCHANGED <<receiving, finished, streaming, seen, parts, log>>
    BY <1>2
  <2> QED  BY <1>6, <2>1, ReceiverStays
<1> QED  BY <1>6, <1>16, <1>17 DEF ChInv

----------------------------------------------------------------------------
(* Steps of the receiver *)

LEMMA HeadTail ==
    ASSUME NEW T, NEW s \in Seq(T), s # <<>>
    PROVE  /\ Head(s) = s[1] /\ Head(s) \in T
           /\ Tail(s) \in Seq(T) /\ Len(Tail(s)) = Len(s) - 1 /\ Len(s) \in Nat \ {0}
           /\ \A k \in 1..(Len(s) - 1) : Tail(s)[k] = s[k + 1]
  OBVIOUS

LEMMA MsgsStay ==
    ASSUME MsgsOK, UNCHANGED <<msgs, closed>>
    PROVE  MsgsOK'
  BY DEF MsgsOK, Ch!Sending, Ch!Last

\* The receiver takes a chunk c.
Advance(c) ==
    /\ UNCHANGED <<msgs, closed>>
    /\ Sent(c) /\ Follows(seen, c)
    /\ seen' = c

\* Taking an entry of the channel.
LEMMA TakeKeeps ==
    ASSUME ChInv, ~finished, NEW c, Ch!Take(c), UNCHANGED <<msgs, closed>>,
           finished' = (c.kind = "finished")
    PROVE  /\ MsgsOK' /\ ChanOK'
           /\ c.kind # "finished" => Advance(c)
           /\ c.kind = "finished" => seen' = seen /\ AtEnd(seen) /\ closed
<1>1. MsgsOK /\ ChanOK
  BY DEF ChInv
<1>2. chan \in Seq(AChunk) /\ chan # <<>> /\ c = Head(chan) /\ chan' = Tail(chan)
      /\ seen' = IF c.kind = "finished" THEN seen ELSE c
  BY <1>1 DEF ChanOK, Ch!Take
<1>3. /\ c = chan[1] /\ c \in AChunk
      /\ chan' \in Seq(AChunk) /\ Len(chan') = Len(chan) - 1 /\ Len(chan) \in Nat \ {0}
      /\ \A k \in 1..(Len(chan) - 1) : chan'[k] = chan[k + 1]
  BY <1>2, HeadTail
<1>0. chan' \in Seq(AChunk) /\ Len(chan') = Len(chan) - 1 /\ Len(chan) \in Nat \ {0}
  BY <1>3
<1>4. MsgsOK' /\ msgs' = msgs /\ closed' = closed
  BY <1>1, MsgsStay
<1>5. EntryOK(1) /\ Prior(1) = seen /\ \A j \in 1..Len(chan) : EntryOK(j)
  BY <1>1, <1>3 DEF ChanOK, Prior
<1>6. ASSUME NEW d PROVE /\ Sent(d)' <=> Sent(d)
                         /\ AtEnd(d)' <=> AtEnd(d)
  BY <1>4 DEF Sent, AtEnd, Exhausted, Unsent, Ch!Chunk
<1>7. ASSUME NEW d, NEW e PROVE Follows(d, e)' <=> Follows(d, e)
  BY <1>4 DEF Follows, Exhausted, Unsent
<1>8. CASE c.kind = "finished"
  <2>1. 1 = Len(chan) /\ closed /\ AtEnd(seen) /\ seen' = seen
    <3>1. c = chan[1] /\ (c.kind = "finished" => seen' = seen)
      BY <1>2, <1>3
    <3> QED  BY <1>5, <1>8, <3>1 DEF EntryOK
  <2>2. Len(chan') = 0 /\ chan' = <<>>
    <3>1. chan' \in Seq(AChunk) /\ Len(chan') = 0
      <4>1. Len(chan) = 1
        BY <2>1
      <4> QED  BY <1>0, <4>1
    <3> QED  BY <3>1
  <2>3. EndOK'
    <3>1. Prior(Len(chan) + 1)' = seen
      BY <2>1, <2>2 DEF Prior
    <3> QED  BY <1>4, <1>6, <1>8, <2>1, <3>1 DEF EndOK
  <2>4. seen' = Ch!NoChunk \/ Sent(seen)'
    BY <1>1, <1>6, <2>1 DEF ChanOK, Sent, Ch!Chunk
  <2>5. ChanOK'
    <3>1. \A j \in 1..Len(chan') : FALSE
      BY <2>2
    <3>2. finished' \in BOOLEAN
      OBVIOUS
    <3> QED  BY <1>0, <2>2, <2>3, <2>4, <3>1, <3>2 DEF ChanOK
  <2> QED  BY <1>4, <1>8, <2>1, <2>5
<1>9. CASE c.kind # "finished"
  <2>1. Sent(c) /\ Follows(seen, c) /\ seen' = c
    <3>1. c = chan[1] /\ (c.kind # "finished" => seen' = c)
      BY <1>2, <1>3
    <3> QED  BY <1>5, <1>9, <3>1 DEF EntryOK
  <2>2. Advance(c)
    BY <2>1 DEF Advance
  <2>3. ASSUME NEW j \in 1..Len(chan') PROVE EntryOK(j)'
    <3>1. EntryOK(j + 1) /\ chan'[j] = chan[j + 1] /\ j \in Nat /\ j + 1 # 1
      BY <1>3, <1>5
    <3>2. Prior(j)' = Prior(j + 1)
      <4>1. CASE j = 1
        BY <1>3, <2>1, <3>1, <4>1 DEF Prior
      <4>2. CASE j # 1
        <5>1. chan'[j - 1] = chan[(j - 1) + 1] /\ (j - 1) + 1 = j /\ (j + 1) - 1 = j
          BY <1>3, <3>1, <4>2
        <5> QED  BY <3>1, <4>2, <5>1 DEF Prior
      <4> QED  BY <4>1, <4>2
    <3>3. CASE chan'[j].kind = "finished"
      <4>1. j + 1 = Len(chan) /\ closed /\ AtEnd(Prior(j + 1))
        BY <3>1, <3>3 DEF EntryOK
      <4>2. PICK e : e = Prior(j + 1)
        OBVIOUS
      <4>3. AtEnd(e)' /\ Prior(j)' = e
        BY <1>6, <3>2, <4>1, <4>2
      <4>4. j = Len(chan') /\ closed' /\ ~finished'
        <5>1. j = Len(chan')
          BY <1>0, <3>1, <4>1
        <5>2. closed' /\ ~finished'
          <6>1. closed' = closed /\ closed
            BY <1>4, <4>1
          <6>2. ~finished'
            BY <1>9
          <6> QED  BY <6>1, <6>2
        <5> QED  BY <5>1, <5>2
      <4> QED  BY <3>3, <4>3, <4>4 DEF EntryOK
    <3>4. CASE chan'[j].kind # "finished"
      BY <1>6, <1>7, <3>1, <3>2, <3>4 DEF EntryOK
    <3> QED  BY <3>3, <3>4
  <2>4. EndOK'
    <3>1. Prior(Len(chan) + 1)' = Prior(Len(chan) + 1)
      <4>1. CASE Len(chan) = 1
        BY <1>3, <2>1, <4>1 DEF Prior
      <4>2. CASE Len(chan) # 1
        BY <1>3, <4>2 DEF Prior
      <4> QED  BY <4>1, <4>2
    <3>2. chan' # <<>> => chan'[Len(chan')] = chan[Len(chan)]
      BY <1>3
    <3>3. chan' = <<>> => chan[Len(chan)] = c
      <4>1. chan' = <<>> => Len(chan) = 1
        BY <1>3
      <4>2. c = chan[1]
        BY <1>3
      <4> QED  BY <4>1, <4>2
    <3> QED  BY <1>1, <1>2, <1>4, <1>6, <1>9, <3>1, <3>2, <3>3 DEF ChanOK, EndOK
  <2>5. ChanOK'
    BY <1>3, <1>6, <1>9, <2>1, <2>3, <2>4 DEF ChanOK
  <2> QED  BY <1>4, <1>9, <2>2, <2>5
<1> QED  BY <1>8, <1>9

\* The beginning of a message as a sequence.
LEMMA PrefixFacts ==
    ASSUME MsgsOK, NEW id \in 1..Len(msgs), NEW j \in 0..msgs[id].n
    PROVE  /\ Prefix(id, j) \in Seq(AChunk) /\ Len(Prefix(id, j)) = j
           /\ \A i \in 1..j : Prefix(id, j)[i] = Ch!Chunk(id, i)
<1>1. msgs[id].n \in Nat /\ j \in Nat
  BY MsgTypes
<1>2. \A i \in 1..j : Ch!Chunk(id, i) \in AChunk
  BY <1>1, ChunkFacts
<1> QED  BY <1>1, <1>2 DEF Prefix

LEMMA SameSeq ==
    ASSUME NEW T, NEW s \in Seq(T), NEW t \in Seq(T), Len(s) = Len(t),
           \A i \in 1..Len(s) : s[i] = t[i]
    PROVE  s = t
  OBVIOUS

\* A sequence of the first chunks of a message.
LEMMA FirstChunks ==
    ASSUME MsgsOK, NEW id \in 1..Len(msgs), NEW j \in 0..msgs[id].n, NEW s \in Seq(AChunk),
           Len(s) = j, \A i \in 1..j : s[i] = Ch!Chunk(id, i)
    PROVE  s = Prefix(id, j)
<1>1. PICK t \in Seq(AChunk) :
        t = Prefix(id, j) /\ Len(t) = j /\ \A i \in 1..j : t[i] = Ch!Chunk(id, i)
  BY PrefixFacts
<1>2. s = t
  BY <1>1
<1> QED  BY <1>1, <1>2

\* One more chunk.
LEMMA PrefixAppend ==
    ASSUME MsgsOK, NEW id \in 1..Len(msgs), NEW j \in 0..msgs[id].n, j < msgs[id].n,
           NEW s \in Seq(AChunk), s = Prefix(id, j)
    PROVE  Append(s, Ch!Chunk(id, j + 1)) = Prefix(id, j + 1)
<1>1. msgs[id].n \in Nat /\ j \in Nat /\ j + 1 \in 0..msgs[id].n /\ j + 1 \in 1..msgs[id].n
  BY MsgTypes
<1>2. Len(s) = j /\ \A i \in 1..j : s[i] = Ch!Chunk(id, i)
  BY PrefixFacts
<1>3. PICK e \in AChunk : e = Ch!Chunk(id, j + 1)
  BY <1>1, ChunkFacts
<1>4. PICK t \in Seq(AChunk) :
        /\ t = Append(s, e) /\ Len(t) = j + 1 /\ t[j + 1] = e /\ \A i \in 1..j : t[i] = s[i]
  <2>1. LET t == Append(s, e) IN
        t \in Seq(AChunk) /\ Len(t) = Len(s) + 1 /\ t[Len(s) + 1] = e /\ \A i \in 1..Len(s) : t[i] = s[i]
    BY Appended
  <2> QED  BY <1>2, <2>1
<1>5. \A i \in 1..(j + 1) : t[i] = Ch!Chunk(id, i)
  BY <1>1, <1>2, <1>3, <1>4
<1>6. t = Prefix(id, j + 1)
  BY <1>1, <1>4, <1>5, FirstChunks
<1> QED  BY <1>3, <1>4, <1>6

LEMMA PrefixWhole ==
    ASSUME NEW id
    PROVE  Prefix(id, msgs[id].n) = Ch!Whole(id)
  BY DEF Prefix, Ch!Whole

\* The amount of data in the beginning of a message.
LEMMA PrefixSize ==
    ASSUME MsgsOK, NEW id \in 1..Len(msgs), NEW j \in 0..msgs[id].n, NEW s, s = Prefix(id, j)
    PROVE  /\ Ch!BufSize(s) \in Nat /\ Ch!BufSize(s) <= j /\ Ch!BufSize(s) <= Ch!Size(id)
<1>1. msgs[id].n \in Nat \ {0} /\ msgs[id].tail \in 0..1 /\ j \in Nat
  BY MsgTypes
<1>2. s \in Seq(AChunk) /\ Len(s) = j /\ \A i \in 1..j : s[i] = Ch!Chunk(id, i)
  BY PrefixFacts
<1> DEFINE full == {k \in 1..Len(s) : s[k].size > 0}
<1>3. ASSUME NEW b \in Nat, full \subseteq 1..b
      PROVE  Cardinality(full) \in Nat /\ Cardinality(full) <= b
  <2>1. IsFiniteSet(1..b) /\ Cardinality(1..b) = b
    <3>0. 1 \in Int /\ b \in Int
      OBVIOUS
    <3>1. IsFiniteSet(1..b) /\ Cardinality(1..b) = IF 1 > b THEN 0 ELSE b - 1 + 1
      BY ONLY <3>0, FS_Interval, Zenon
    <3> QED  BY <3>1
  <2>2. IsFiniteSet(full) /\ Cardinality(full) <= Cardinality(1..b)
    <3> HIDE DEF full
    <3> QED  BY <1>3, <2>1, FS_Subset
  <2>3. Cardinality(full) \in Nat
    <3> HIDE DEF full
    <3> QED  BY <2>2, FS_CardinalityType
  <2> QED  BY <2>1, <2>2, <2>3
<1>4. full \subseteq 1..j
  BY <1>2
<1>5. Cardinality(full) \in Nat /\ Cardinality(full) <= j
  BY <1>1, <1>3, <1>4
<1>6. Cardinality(full) <= Ch!Size(id)
  <2>1. CASE j < msgs[id].n \/ msgs[id].tail = 1
    <3> HIDE DEF full
    <3> QED  BY <1>1, <1>5, <2>1 DEF Ch!Size
  <2>2. CASE j = msgs[id].n /\ msgs[id].tail = 0
    <3>1. Ch!Chunk(id, j).size = 0
      BY <1>1, <2>2, ChunkFacts
    <3>2. s[j].size = 0
      BY <1>1, <1>2, <2>2, <3>1
    <3>3. full \subseteq 1..(j - 1)
      <4> SUFFICES ASSUME NEW k \in full PROVE k \in 1..(j - 1)
        OBVIOUS
      <4>1. k \in 1..j /\ k # j
        BY <1>2, <3>2
      <4> QED  BY <1>1, <4>1
    <3>4. Cardinality(full) <= j - 1
      BY <1>1, <1>3, <2>2, <3>3
    <3> HIDE DEF full
    <3> QED  BY <1>1, <1>5, <2>2, <3>4 DEF Ch!Size
  <2> QED  BY <1>1, <2>1, <2>2
<1>7. Ch!BufSize(s) = Cardinality(full)
  BY DEF Ch!BufSize, Ch!Cardinality, Cardinality
<1> QED  BY <1>5, <1>6, <1>7

\* A message that was seen only in part is not the one before, or was cancelled.
LEMMA AdvanceFacts ==
    ASSUME ChInv, NEW c, Advance(c), Ch!InProgress => ~seen.last
    PROVE  /\ Sent(c) /\ seen' = c /\ seen.id \in Nat /\ c.id \in Nat \ {0} /\ seen.id <= c.id
           /\ \A k \in 1..Len(log) : log[k].id \in 1..seen.id /\ log[k].id \in 1..c.id
           /\ \A id \in 1..(c.id - 1) : msgs[id].state = "done" => Logged(id)
           /\ c.first => c.i = 1 /\ seen.id < c.id
           /\ ~c.first => c.id = seen.id /\ c.i = seen.i + 1 /\ ~seen.last /\ Sent(seen)
                          /\ seen.i < msgs[c.id].n
           /\ \A id \in (seen.id + 1)..(c.id - 1) : msgs[id].state = "cancelled"
           /\ seen.id > 0 /\ seen.id < c.id /\ ~seen.last => msgs[seen.id].state = "cancelled"
<1>1. MsgsOK /\ ChanOK /\ ReceivingOK /\ LogOK
  BY DEF ChInv
<1>2. Sent(c) /\ Follows(seen, c) /\ seen' = c
  BY DEF Advance
<1>3. /\ seen.id \in 0..Len(msgs) /\ seen.id \in Nat /\ Len(msgs) \in Nat
      /\ seen.id > 0 => Sent(seen)
      /\ seen.id = 0 => seen = Ch!NoChunk
  BY <1>1, SeenFacts
<1>4. /\ c.id \in 1..Len(msgs) /\ c.i \in 1..msgs[c.id].n /\ c.first = (c.i = 1)
      /\ c.last = (c.i = msgs[c.id].n) /\ c.id \in Nat \ {0} /\ c.i \in Nat \ {0}
      /\ msgs[c.id].n \in Nat
  BY <1>1, <1>2, SentFacts, MsgTypes
<1>5. \A k \in 1..Len(log) : log[k].id \in 1..seen.id
  BY <1>1 DEF LogOK
<1>6. CASE c.id = seen.id /\ c.i = seen.i + 1
  <2>1. Sent(seen) /\ seen.i \in Nat \ {0} /\ seen.last = (seen.i = msgs[seen.id].n)
    BY <1>1, <1>3, <1>4, <1>6, SentFacts
  <2>2. ~c.first /\ ~seen.last /\ seen.i < msgs[c.id].n
    <3>1. c.i # 1 /\ c.i <= msgs[c.id].n /\ seen.i + 1 = c.i /\ msgs[seen.id].n = msgs[c.id].n
      BY <1>4, <1>6, <2>1
    <3>2. seen.i < msgs[c.id].n /\ seen.i # msgs[seen.id].n
      BY <1>4, <2>1, <3>1
    <3> QED  BY <1>4, <2>1, <3>1, <3>2
  <2>3. \A id \in 1..(c.id - 1) : msgs[id].state = "done" => Logged(id)
    BY <1>1, <1>6 DEF LogOK
  <2> QED  BY <1>2, <1>3, <1>4, <1>5, <1>6, <2>1, <2>2, <2>3
<1>7. CASE c.id > seen.id /\ c.i = 1 /\ Exhausted(seen) /\ Unsent(seen.id, c.id - 1)
  <2>1. c.first /\ seen.id < c.id
    BY <1>3, <1>4, <1>7
  <2>2. ASSUME NEW id \in (seen.id + 1)..(c.id - 1)
        PROVE  id \in 1..Len(msgs) /\ msgs[id].state = "cancelled"
    <3>1. id \in 1..Len(msgs) /\ id < Len(msgs)
      <4> DEFINE a == seen.id
                 b == c.id
      <4>1. a \in Nat /\ b \in 1..Len(msgs) /\ Len(msgs) \in Nat /\ id \in (a + 1)..(b - 1)
        BY <1>3, <1>4
      <4> HIDE DEF a, b
      <4> QED  BY <4>1
    <3>2. msgs[id].sent = 0
      BY <1>7 DEF Unsent
    <3>3. /\ msgs[id].state = "done" <=> msgs[id].sent = msgs[id].n
          /\ msgs[id].state \in {"done", "cancelled"} /\ msgs[id].n \in Nat \ {0}
      BY <1>1, <3>1, MsgFacts, MsgTypes
    <3> QED  BY <3>1, <3>2, <3>3
  <2>3. ASSUME seen.id > 0 PROVE msgs[seen.id].state = IF seen.last THEN "done" ELSE "cancelled"
    <3>1. Sent(seen) /\ seen.id \in 1..Len(msgs) /\ seen.id < Len(msgs)
      BY <1>3, <1>4, <2>1, <2>3
    <3>2. seen.last = (seen.i = msgs[seen.id].n) /\ msgs[seen.id].sent = seen.i
      BY <1>1, <1>7, <2>3, <3>1, SentFacts DEF Exhausted
    <3>3. /\ msgs[seen.id].state = "done" <=> msgs[seen.id].sent = msgs[seen.id].n
          /\ msgs[seen.id].state \in {"done", "cancelled"}
      BY <1>1, <3>1, MsgFacts
    <3> QED  BY <3>2, <3>3
  <2>4. ASSUME seen.id > 0, seen.last PROVE Logged(seen.id)
    <3>1. receiving \in Receiving
      BY <1>1 DEF ReceivingOK
    <3>2. receiving.st \in {"nothing", "data", "requests", "chunks"}
      BY <3>1 DEF Receiving
    <3>3. CASE receiving.st = "nothing"
      BY <1>1, <2>3, <2>4, <3>3 DEF ReceivingOK, NothingOK
    <3>4. CASE receiving.st \in {"data", "requests"}
      BY <1>1, <2>4, <3>4 DEF ReceivingOK, BuffersOK
    <3>5. CASE receiving.st = "chunks"
      BY <1>1, <2>4, <3>5 DEF ReceivingOK, StreamOK
    <3> QED  BY <3>2, <3>3, <3>4, <3>5
  <2>5. ASSUME NEW id \in 1..(c.id - 1), msgs[id].state = "done" PROVE Logged(id)
    <3>1. CASE id \in 1..(seen.id - 1)
      BY <1>1, <2>5, <3>1 DEF LogOK
    <3>2. CASE id = seen.id
      BY <2>3, <2>4, <2>5, <3>2
    <3>3. CASE id \in (seen.id + 1)..(c.id - 1)
      BY <2>2, <2>5, <3>3
    <3> QED  BY <1>3, <1>4, <3>1, <3>2, <3>3
  <2>6. \A k \in 1..Len(log) : log[k].id \in 1..seen.id /\ log[k].id \in 1..c.id
    BY <1>3, <1>4, <1>5, <2>1
  <2> QED  BY <1>2, <1>3, <1>4, <1>7, <2>1, <2>2, <2>3, <2>5, <2>6
<1> QED  BY <1>2, <1>6, <1>7 DEF Follows

Entry == [id : Nat, how : Hows, chunks : Seq(AChunk)]

\* The log when a chunk is taken and nothing is returned.
LEMMA LogStays ==
    ASSUME ChInv, NEW c, Advance(c), Ch!InProgress => ~seen.last, log' = log
    PROVE  LogOK'
<1>1. LogOK /\ msgs' = msgs /\ closed' = closed
  BY DEF ChInv, Advance
<1>2. /\ seen' = c
      /\ \A k \in 1..Len(log) : log[k].id \in 1..c.id
      /\ \A id \in 1..(c.id - 1) : msgs[id].state = "done" => Logged(id)
  BY AdvanceFacts
<1>3. \A id : Logged(id)' <=> Logged(id)
  BY DEF Logged
<1>4. Ch!InOrder' /\ Ch!DeliveredWhole' /\ Ch!DiscardedForReason'
  BY <1>1 DEF LogOK, Ch!InOrder, Ch!DeliveredWhole, Ch!Whole, Ch!Chunk, Ch!DiscardedForReason, Ch!Size
<1> QED  BY <1>1, <1>2, <1>3, <1>4 DEF LogOK

\* The log with what became of the message seen last.
LEMMA LogGrows ==
    ASSUME LogOK, msgs' = msgs, NEW id \in Nat \ {0}, seen'.id = id,
           \A k \in 1..Len(log) : log[k].id < id,
           \A x \in 1..(id - 1) : msgs[x].state = "done" => Logged(x),
           NEW how \in Hows, NEW chunks \in Seq(AChunk),
           how \in {"data", "chunks", "ports", "rejected"} => chunks = Ch!Whole(id),
           how = "exceeds" => Discardable(id),
           Ch!Log(id, how, chunks)
    PROVE  LogOK' /\ Logged(id)'
<1> DEFINE e == [id |-> id, how |-> how, chunks |-> chunks]
<1>1. log \in Seq(Entry) /\ e \in Entry /\ \A k \in 1..Len(log) : log[k].id \in Nat \ {0}
  <2>1. log \in Seq(Entry)
    BY DEF LogOK, Entry
  <2>2. e \in Entry
    BY DEF Entry
  <2>3. \A k \in 1..Len(log) : log[k] \in Entry
    BY <2>1
  <2>4. \A k \in 1..Len(log) : log[k].id \in Nat /\ log[k].id \in 1..seen.id
    BY <2>3 DEF Entry, LogOK
  <2> QED  BY <2>1, <2>2, <2>4
<1>2. /\ log' \in Seq(Entry) /\ Len(log') = Len(log) + 1 /\ log'[Len(log) + 1] = e
      /\ \A k \in 1..Len(log) : log'[k] = log[k]
      /\ Len(log) \in Nat
  <2>1. log' = Append(log, e)
    BY DEF Ch!Log
  <2> HIDE DEF e
  <2> QED  BY <1>1, <2>1, Appended
<1>3. e.id = id /\ e.how = how /\ e.chunks = chunks
  OBVIOUS
<1> HIDE DEF e
<1>4. \A k \in 1..Len(log') : k \in 1..Len(log) \/ k = Len(log) + 1
  BY <1>2
<1>5. Logged(id)'
  <2>1. Len(log) + 1 \in 1..Len(log')
    BY <1>2
  <2> QED  BY <1>2, <1>3, <2>1 DEF Logged
<1>6. \A x : Logged(x) => Logged(x)'
  <2>1. \A k \in 1..Len(log) : k \in 1..Len(log')
    BY <1>2
  <2> QED  BY <1>2, <2>1 DEF Logged
<1>7. \A k \in 1..Len(log') : log'[k].id \in 1..id
  BY <1>1, <1>2, <1>3, <1>4
<1>8. Ch!InOrder'
  <2> SUFFICES ASSUME NEW j \in 1..Len(log'), NEW k \in 1..Len(log'), j < k
               PROVE  log'[j].id < log'[k].id
    BY DEF Ch!InOrder
  <2>1. j \in 1..Len(log) /\ log'[j] = log[j]
    BY <1>2, <1>4
  <2>2. CASE k \in 1..Len(log)
    <3>1. log'[k] = log[k]
      BY <1>2, <2>2
    <3>2. log[j].id < log[k].id
      BY <2>1, <2>2 DEF LogOK, Ch!InOrder
    <3> QED  BY <2>1, <3>1, <3>2
  <2>3. CASE k = Len(log) + 1
    <3>1. log'[k].id = id
      BY <1>2, <1>3, <2>3
    <3>2. log[j].id < id
      BY <2>1
    <3> QED  BY <2>1, <3>1, <3>2
  <2> QED  BY <1>4, <2>2, <2>3
<1>9. Ch!DeliveredWhole'
  <2> SUFFICES ASSUME NEW k \in 1..Len(log'), log'[k].how \in {"data", "chunks", "ports", "rejected"}
               PROVE  log'[k].chunks = Ch!Whole(log'[k].id)
    BY DEF Ch!DeliveredWhole, Ch!Whole, Ch!Chunk
  <2>1. CASE k \in 1..Len(log)
    BY <1>2, <2>1 DEF LogOK, Ch!DeliveredWhole
  <2>2. CASE k = Len(log) + 1
    BY <1>2, <1>3, <2>2
  <2> QED  BY <1>4, <2>1, <2>2
<1>10. Ch!DiscardedForReason'
  <2> SUFFICES ASSUME NEW k \in 1..Len(log'), log'[k].how = "exceeds" PROVE Discardable(log'[k].id)
    BY DEF Ch!DiscardedForReason, Discardable, Ch!Size
  <2>1. CASE k \in 1..Len(log)
    BY <1>2, <2>1 DEF LogOK, Ch!DiscardedForReason, Discardable
  <2>2. CASE k = Len(log) + 1
    BY <1>2, <1>3, <2>2
  <2> QED  BY <1>4, <2>1, <2>2
<1>11. \A x \in 1..(id - 1) : msgs[x].state = "done" => Logged(x)'
  BY <1>6
<1> QED  BY <1>2, <1>5, <1>7, <1>8, <1>9, <1>10, <1>11 DEF LogOK, Entry

\* What the receiver keeps: nothing,
LEMMA KeepsNothing ==
    ASSUME receiving' = Ch!Nothing, ~streaming', streaming' \in BOOLEAN, parts' = <<>>,
           seen'.id > 0 => Logged(seen.id)' \/ msgs'[seen'.id].state = "cancelled"
    PROVE  ReceivingOK'
<1>1. receiving' \in Receiving /\ receiving'.st = "nothing" /\ parts' \in Seq(AChunk)
  BY DEF Ch!Nothing, Receiving
<1>2. BuffersOK("data", "data")' /\ BuffersOK("requests", "ports")'
  BY <1>1 DEF BuffersOK
<1>3. StreamOK'
  BY <1>1 DEF StreamOK
<1>4. NothingOK'
  BY DEF NothingOK, Ch!Nothing
<1> QED  BY <1>1, <1>2, <1>3, <1>4 DEF ReceivingOK

\* the beginning of a message,
LEMMA KeepsBuffer ==
    ASSUME MsgsOK, NEW c, Sent(c), seen' = c, ~c.last, msgs' = msgs,
           NEW b \in Seq(AChunk), b = Prefix(c.id, c.i), \A k \in 1..Len(log') : log'[k].id < c.id,
           \/ receiving' = Ch!DataBuf(b) /\ c.kind = "data"
           \/ receiving' = Ch!Requests(b) /\ c.kind = "ports",
           ~streaming', streaming' \in BOOLEAN, parts' = <<>>
    PROVE  ReceivingOK'
<1>1. c.id > 0
  BY SentFacts
<1>2. /\ receiving' \in Receiving /\ receiving'.buf = b
      /\ \/ receiving'.st = "data" /\ c.kind = "data"
         \/ receiving'.st = "requests" /\ c.kind = "ports"
  BY DEF Ch!DataBuf, Ch!Requests, Ch!Nothing, Receiving
<1>3. Prefix(seen.id, seen.i)' = b
  BY DEF Prefix, Ch!Chunk
<1>4. BuffersOK("data", "data")' /\ BuffersOK("requests", "ports")'
  BY <1>1, <1>2, <1>3 DEF BuffersOK, LogBelow
<1>5. StreamOK' /\ NothingOK'
  BY <1>2 DEF StreamOK, NothingOK
<1>6. parts' \in Seq(AChunk)
  OBVIOUS
<1> QED  BY <1>2, <1>4, <1>5, <1>6 DEF ReceivingOK

\* or chunks of a message that is streamed, of which it has not returned any yet.
LEMMA KeepsChunks ==
    ASSUME MsgsOK, NEW c, Sent(c), seen' = c, msgs' = msgs, c.kind = "data",
           NEW b \in Seq(AChunk), b = Prefix(c.id, c.i), \A k \in 1..Len(log') : log'[k].id < c.id,
           Discardable(c.id), ~finished', NEW ann \in BOOLEAN,
           receiving' = Ch!Chunks(b, c.last, ann), streaming' = ann, parts' = <<>>
    PROVE  ReceivingOK' /\ Ch!InProgress' /\ receiving'.st = "chunks" /\ receiving'.buf # <<>>
<1>1. /\ c.id > 0 /\ c.i \in Nat \ {0} /\ c.last \in BOOLEAN /\ c.id \in 1..Len(msgs)
      /\ c.i \in 0..msgs[c.id].n
  <2>1. /\ c.id \in Nat \ {0} /\ c.i \in Nat \ {0} /\ c.id \in 1..Len(msgs)
        /\ c.last = (c.i = msgs[c.id].n) /\ c.i \in 1..msgs[c.id].n
    BY SentFacts
  <2> QED  BY <2>1
<1>2. /\ receiving' \in Receiving /\ receiving'.buf = b /\ receiving'.st = "chunks"
      /\ receiving'.completed = c.last /\ receiving'.announced = ann
  BY <1>1 DEF Ch!Chunks, Receiving
<1>3. Len(b) = c.i /\ \A i \in 1..c.i : b[i] = Ch!Chunk(c.id, i)
  BY <1>1, PrefixFacts
<1>4. b # <<>>
  BY <1>1, <1>3
<1>5. Ch!InProgress'
  BY <1>2, <1>4 DEF Ch!InProgress
<1>6. Len(parts') = 0 /\ parts' \in Seq(AChunk)
  OBVIOUS
<1>7. StreamOK'
  <2>1. \A i \in 1..Len(b) : b[i] = Ch!Chunk(c.id, 0 + i)
    BY <1>1, <1>3
  <2>2. \A i \in 1..Len(b) : b[i] = Ch!Chunk(c.id, 0 + i)'
    BY <2>1 DEF Ch!Chunk
  <2>3. Discardable(c.id)'
    BY DEF Discardable, Ch!Size
  <2>4. 0 + c.i = c.i
    BY <1>1
  <2> QED  BY <1>1, <1>2, <1>3, <1>5, <1>6, <2>2, <2>3, <2>4 DEF StreamOK, LogBelow
<1>8. BuffersOK("data", "data")' /\ BuffersOK("requests", "ports")' /\ NothingOK'
  BY <1>2 DEF BuffersOK, NothingOK
<1> QED  BY <1>2, <1>4, <1>5, <1>6, <1>7, <1>8 DEF ReceivingOK

\* What a chunk makes of what the receiver keeps: it is skipped, buffered, or completes a
\* message that is returned; or the message is to be streamed.
Skips(c) ==
    /\ log' = log /\ receiving' = Ch!Nothing /\ ~streaming'
    /\ receiving.st = "nothing" /\ seen.id = c.id
Buffers(st) == log' = log /\ receiving'.st = st /\ ~streaming'
Returns(c, how) ==
    receiving' = Ch!Nothing /\ ~streaming' /\ c.last /\ Ch!Log(c.id, how, Ch!Whole(c.id))
Drops(c, how) == receiving' = Ch!Nothing /\ ~streaming' /\ Ch!Log(c.id, how, <<>>)
Grown(c, st) == c.first \/ receiving.st = st
Announces ==
    /\ log' = log /\ streaming' /\ parts' = <<>>
    /\ receiving'.st = "chunks" /\ receiving'.announced /\ receiving'.buf # <<>>

\* A chunk that continues what is buffered, or is the first of a message.
LEMMA BufferGrows ==
    ASSUME ChInv, NEW c, Advance(c), ~Ch!InProgress, NEW r,
           \/ /\ c.first
              /\ \/ r = Ch!DataBuf(<<>>) /\ c.kind = "data"
                 \/ r = Ch!Requests(<<>>) /\ c.kind = "ports"
           \/ /\ ~c.first /\ r = receiving
              /\ \/ r.st = "data" /\ c.kind = "data"
                 \/ r.st = "requests" /\ c.kind = "ports"
    PROVE  /\ Append(r.buf, c) = Prefix(c.id, c.i) /\ Append(r.buf, c) \in Seq(AChunk)
           /\ \A k \in 1..Len(log) : log[k].id < c.id
<1>1. MsgsOK /\ ChanOK /\ ReceivingOK /\ LogOK
  BY DEF ChInv
<1>2. /\ Sent(c) /\ seen.id \in Nat /\ c.id \in Nat \ {0}
      /\ \A k \in 1..Len(log) : log[k].id \in 1..seen.id
      /\ c.first => c.i = 1 /\ seen.id < c.id
      /\ ~c.first => c.id = seen.id /\ c.i = seen.i + 1 /\ ~seen.last /\ Sent(seen)
                          /\ seen.i < msgs[c.id].n
  BY AdvanceFacts
<1>3. /\ c \in AChunk /\ c.id \in 1..Len(msgs) /\ c.i \in 1..msgs[c.id].n
      /\ c = Ch!Chunk(c.id, c.i) /\ msgs[c.id].n \in Nat \ {0}
  BY <1>1, <1>2, SentFacts, MsgTypes
<1>4. CASE c.first
  <2>1. r.buf = <<>>
    BY <1>4 DEF Ch!DataBuf, Ch!Requests, Ch!Nothing
  <2>2. <<>> = Prefix(c.id, 0) /\ <<>> \in Seq(AChunk)
    BY DEF Prefix
  <2>3. 0 \in 0..msgs[c.id].n /\ 0 < msgs[c.id].n /\ 0 + 1 = 1
    BY <1>3
  <2>4. Append(<<>>, Ch!Chunk(c.id, 0 + 1)) = Prefix(c.id, 0 + 1)
    BY <1>1, <1>3, <2>2, <2>3, PrefixAppend
  <2>5. Append(r.buf, c) = Prefix(c.id, c.i)
    BY <1>2, <1>3, <1>4, <2>1, <2>3, <2>4
  <2>6. Append(r.buf, c) \in Seq(AChunk)
    BY <1>3, <2>1
  <2>7. \A k \in 1..Len(log) : log[k].id < c.id
    BY <1>2, <1>4
  <2> QED  BY <2>5, <2>6, <2>7
<1>5. CASE ~c.first
  <2>1. r.buf = Prefix(seen.id, seen.i) /\ LogBelow
    BY <1>1, <1>5 DEF ReceivingOK, BuffersOK
  <2>2. seen.i \in 0..msgs[c.id].n /\ c.id = seen.id /\ c.i = seen.i + 1
    <3>1. seen.i \in Nat \ {0} /\ msgs[c.id].n \in Nat
      BY <1>1, <1>2, <1>3, <1>5, SentFacts
    <3> QED  BY <1>2, <1>5, <3>1
  <2>3. r.buf \in Seq(AChunk)
    BY <1>1, <1>5 DEF ReceivingOK, Receiving
  <2>4. Append(r.buf, Ch!Chunk(c.id, seen.i + 1)) = Prefix(c.id, seen.i + 1)
    BY <1>1, <1>2, <1>3, <1>5, <2>1, <2>2, <2>3, PrefixAppend
  <2>5. Append(r.buf, c) = Prefix(c.id, c.i)
    BY <1>3, <2>2, <2>4
  <2>6. Append(r.buf, c) \in Seq(AChunk)
    BY <1>3, <2>3
  <2>7. \A k \in 1..Len(log) : log[k].id < c.id
    BY <2>1, <2>2 DEF LogBelow
  <2> QED  BY <2>5, <2>6, <2>7
<1> QED  BY <1>4, <1>5

\* Taking a chunk that continues nothing.
LEMMA SkipKeeps ==
    ASSUME ChInv, NEW c, Advance(c), ~Ch!InProgress, ~c.first, Ch!Continue(Ch!Nothing), parts' = <<>>,
           \/ c.kind = "data" /\ receiving.st # "data"
           \/ c.kind = "ports" /\ receiving.st # "requests"
    PROVE  LogOK' /\ ReceivingOK' /\ Skips(c)
<1>1. MsgsOK /\ ChanOK /\ ReceivingOK /\ LogOK
  BY DEF ChInv
<1>2. /\ receiving' = Ch!Nothing /\ streaming' = FALSE /\ log' = log /\ msgs' = msgs
  BY DEF Ch!Continue, Advance
<1>3. Sent(c) /\ seen' = c /\ c.id = seen.id /\ ~seen.last /\ Sent(seen)
  BY AdvanceFacts
<1>4. c.kind = msgs[c.id].kind /\ seen.kind = c.kind /\ seen.id > 0
  BY <1>1, <1>3, SentFacts
<1>5. receiving.st \in {"nothing", "data", "requests", "chunks"}
  BY <1>1 DEF ReceivingOK, Receiving
<1>6. receiving.st # "chunks"
  <2> SUFFICES ASSUME receiving.st = "chunks" PROVE FALSE
    OBVIOUS
  <2>1. ~receiving.completed
    BY <1>1, <1>3 DEF ReceivingOK, StreamOK
  <2> QED  BY <2>1 DEF Ch!InProgress
<1>7. receiving.st = "nothing"
  BY <1>1, <1>4, <1>5, <1>6 DEF ReceivingOK, BuffersOK
<1>8. Logged(seen.id) \/ msgs[seen.id].state = "cancelled"
  BY <1>1, <1>4, <1>7 DEF ReceivingOK, NothingOK
<1>9. Logged(seen.id)' \/ msgs'[seen'.id].state = "cancelled"
  BY <1>2, <1>3, <1>8 DEF Logged
<1>10. ReceivingOK'
  BY <1>2, <1>9, KeepsNothing
<1>11. LogOK'
  BY <1>2, LogStays
<1> QED  BY <1>2, <1>3, <1>7, <1>10, <1>11 DEF Skips

\* A message that is logged with its last chunk.
LEMMA LogKeeps ==
    ASSUME ChInv, NEW c, Advance(c), Ch!InProgress => ~seen.last,
           \A k \in 1..Len(log) : log[k].id < c.id,
           receiving' = Ch!Nothing, streaming' = FALSE, parts' = <<>>,
           NEW how \in Hows, NEW chunks \in Seq(AChunk),
           how \in {"data", "chunks", "ports", "rejected"} => chunks = Ch!Whole(c.id),
           how = "exceeds" => Discardable(c.id),
           Ch!Log(c.id, how, chunks)
    PROVE  LogOK' /\ ReceivingOK'
<1>1. LogOK /\ msgs' = msgs
  BY DEF ChInv, Advance
<1>2. /\ seen' = c /\ c.id \in Nat \ {0}
      /\ \A x \in 1..(c.id - 1) : msgs[x].state = "done" => Logged(x)
  BY AdvanceFacts
<1>3. LogOK' /\ Logged(c.id)'
  <2>1. PICK id \in Nat \ {0} : id = c.id
    BY <1>2
  <2>2. /\ seen'.id = id /\ \A k \in 1..Len(log) : log[k].id < id
        /\ \A x \in 1..(id - 1) : msgs[x].state = "done" => Logged(x)
        /\ how \in {"data", "chunks", "ports", "rejected"} => chunks = Ch!Whole(id)
        /\ how = "exceeds" => Discardable(id)
        /\ Ch!Log(id, how, chunks)
    BY <1>2, <2>1
  <2>3. LogOK' /\ Logged(id)'
    BY <1>1, <2>2, LogGrows
  <2> QED  BY <2>1, <2>3 DEF Logged
<1>4. Logged(seen.id)'
  BY <1>2, <1>3 DEF Logged
<1> QED  BY <1>3, <1>4, KeepsNothing

\* A data chunk in recv_any.
LEMMA DataTaken ==
    ASSUME ChInv, NEW c, Advance(c), ~Ch!InProgress, ~finished', parts' = <<>>,
           NEW op, Ch!AnyData(op, c)
    PROVE  /\ LogOK' /\ ReceivingOK'
           /\ \/ Skips(c)
              \/ /\ Grown(c, "data")
                 /\ \/ Buffers("data") \/ Returns(c, "data")
                    \/ op = "recv_any" /\ Announces
                    \/ op # "recv_any" /\ Drops(c, "exceeds")
<1> DEFINE r == IF c.first THEN Ch!DataBuf(<<>>) ELSE receiving
           buf == Append(r.buf, c)
<1>1. /\ c.kind = "data"
      /\ \/ r.st # "data" /\ Ch!Continue(Ch!Nothing)
         \/ /\ r.st = "data" /\ Ch!Fits(buf)
            /\ IF c.last THEN /\ receiving' = Ch!Nothing
                              /\ streaming' = FALSE
                              /\ Ch!Log(c.id, "data", buf)
                         ELSE Ch!Continue(Ch!DataBuf(buf))
         \/ /\ r.st = "data" /\ ~Ch!Fits(buf)
            /\ Ch!Announce(op, Ch!Chunks(buf, c.last, TRUE), c.id)
  BY DEF Ch!AnyData
<1>2. /\ MsgsOK /\ Sent(c) /\ seen' = c /\ msgs' = msgs
  BY AdvanceFacts DEF ChInv, Advance
<1>3. /\ c.id \in 1..Len(msgs) /\ c.i \in 0..msgs[c.id].n /\ c.last = (c.i = msgs[c.id].n)
      /\ c.first \in BOOLEAN
  <2>1. /\ c.id \in 1..Len(msgs) /\ c.i \in 1..msgs[c.id].n /\ c.last = (c.i = msgs[c.id].n)
        /\ c.first = (c.i = 1)
    BY <1>2, SentFacts
  <2> QED  BY <2>1
<1>4. CASE r.st # "data"
  <2>1. ~c.first /\ receiving.st # "data" /\ Ch!Continue(Ch!Nothing)
    BY <1>1, <1>4 DEF Ch!DataBuf, Ch!Nothing
  <2> QED  BY <1>1, <2>1, SkipKeeps
<1>5. CASE r.st = "data"
  <2>1. PICK b \in Seq(AChunk) :
          b = buf /\ b = Prefix(c.id, c.i) /\ \A k \in 1..Len(log) : log[k].id < c.id
    <3>1. \/ c.first /\ r = Ch!DataBuf(<<>>) /\ c.kind = "data"
          \/ ~c.first /\ r = receiving /\ r.st = "data" /\ c.kind = "data"
      BY <1>1, <1>3, <1>5
    <3> HIDE DEF r
    <3> QED  BY <3>1, BufferGrows
  <2>2. \/ Ch!Fits(b) /\ c.last /\ receiving' = Ch!Nothing /\ streaming' = FALSE
           /\ Ch!Log(c.id, "data", b)
        \/ Ch!Fits(b) /\ ~c.last /\ Ch!Continue(Ch!DataBuf(b))
        \/ ~Ch!Fits(b) /\ Ch!Announce(op, Ch!Chunks(b, c.last, TRUE), c.id)
    BY <1>1, <1>5, <2>1
  <2>0. Grown(c, "data")
    BY <1>3, <1>5 DEF Grown
  <2> HIDE DEF r, buf
  <2>3. CASE c.last /\ receiving' = Ch!Nothing /\ streaming' = FALSE /\ Ch!Log(c.id, "data", b)
    <3>1. b = Ch!Whole(c.id)
      BY <1>3, <2>1, <2>3, PrefixWhole
    <3>2. "data" \in Hows
      BY DEF Hows
    <3>3. LogOK' /\ ReceivingOK'
      BY <2>1, <2>3, <3>1, <3>2, LogKeeps
    <3> QED  BY <2>0, <2>3, <3>1, <3>3 DEF Returns
  <2>4. CASE ~c.last /\ Ch!Continue(Ch!DataBuf(b))
    <3>1. receiving' = Ch!DataBuf(b) /\ streaming' = FALSE /\ log' = log
      BY <2>4 DEF Ch!Continue
    <3>2. LogOK'
      BY <3>1, LogStays
    <3>3. ReceivingOK'
      BY <1>1, <1>2, <2>1, <2>4, <3>1, KeepsBuffer
    <3> QED  BY <2>0, <3>1, <3>2, <3>3 DEF Buffers, Ch!DataBuf, Ch!Nothing
  <2>5. CASE ~Ch!Fits(b) /\ Ch!Announce(op, Ch!Chunks(b, c.last, TRUE), c.id)
    <3>1. Discardable(c.id)
      <4>1. Ch!BufSize(b) \in Nat /\ Ch!BufSize(b) <= Ch!Size(c.id)
        BY <1>2, <1>3, <2>1, PrefixSize
      <4>2. MaxDataSize \in Nat
        BY ChannelAssumption DEF Ch!FramingAssumption
      <4>3. Ch!Size(c.id) \in Int
        BY <1>2, <1>3, SizeType
      <4> QED  BY <2>5, <4>1, <4>2, <4>3 DEF Ch!Fits, Discardable
    <3>2. CASE op = "recv_any"
      <4>1. receiving' = Ch!Chunks(b, c.last, TRUE) /\ streaming' = TRUE /\ log' = log
        BY <2>5, <3>2 DEF Ch!Announce
      <4>2. LogOK'
        BY <4>1, LogStays
      <4>3. ReceivingOK' /\ receiving'.st = "chunks" /\ receiving'.buf # <<>>
        BY <1>1, <1>2, <2>1, <3>1, <4>1, KeepsChunks
      <4>4. receiving'.announced = TRUE
        BY <4>1 DEF Ch!Chunks
      <4> QED  BY <2>0, <3>2, <4>1, <4>2, <4>3, <4>4 DEF Announces
    <3>3. CASE op # "recv_any"
      <4>1. receiving' = Ch!Nothing /\ streaming' = FALSE /\ Ch!Log(c.id, "exceeds", <<>>)
        BY <2>5, <3>3 DEF Ch!Announce
      <4>2. <<>> \in Seq(AChunk) /\ "exceeds" \in Hows
        BY DEF Hows
      <4>3. LogOK' /\ ReceivingOK'
        BY <2>1, <3>1, <4>1, <4>2, LogKeeps
      <4> QED  BY <2>0, <3>3, <4>1, <4>3 DEF Drops
    <3> QED  BY <3>2, <3>3
  <2> QED  BY <2>2, <2>3, <2>4, <2>5
<1> QED  BY <1>4, <1>5

\* Port requests in recv_any.
LEMMA PortsTaken ==
    ASSUME ChInv, NEW c, Advance(c), ~Ch!InProgress, ~finished', parts' = <<>>,
           NEW op, Ch!AnyPorts(op, c)
    PROVE  /\ LogOK' /\ ReceivingOK'
           /\ \/ Skips(c)
              \/ /\ Grown(c, "requests")
                 /\ \/ Buffers("requests") \/ Returns(c, IF op = "recv" THEN "rejected" ELSE "ports")
                    \/ Drops(c, "too_many") /\ c.i > MaxPorts
<1> DEFINE r == IF c.first THEN Ch!Requests(<<>>) ELSE receiving
           buf == Append(r.buf, c)
           how == IF op = "recv" THEN "rejected" ELSE "ports"
<1>1. /\ c.kind = "ports"
      /\ \/ r.st # "requests" /\ Ch!Continue(Ch!Nothing)
         \/ /\ r.st = "requests" /\ Len(buf) > MaxPorts
            /\ receiving' = Ch!Nothing
            /\ streaming' = FALSE
            /\ Ch!Log(c.id, "too_many", <<>>)
         \/ /\ r.st = "requests" /\ Len(buf) <= MaxPorts
            /\ IF c.last THEN /\ receiving' = Ch!Nothing
                              /\ streaming' = FALSE
                              /\ Ch!Log(c.id, how, buf)
                         ELSE Ch!Continue(Ch!Requests(buf))
  BY DEF Ch!AnyPorts
<1>2. /\ MsgsOK /\ Sent(c) /\ seen' = c /\ msgs' = msgs
  BY AdvanceFacts DEF ChInv, Advance
<1>3. /\ c.id \in 1..Len(msgs) /\ c.i \in 0..msgs[c.id].n /\ c.last = (c.i = msgs[c.id].n)
      /\ c.first \in BOOLEAN
  <2>1. /\ c.id \in 1..Len(msgs) /\ c.i \in 1..msgs[c.id].n /\ c.last = (c.i = msgs[c.id].n)
        /\ c.first = (c.i = 1)
    BY <1>2, SentFacts
  <2> QED  BY <2>1
<1>4. CASE r.st # "requests"
  <2>1. ~c.first /\ receiving.st # "requests" /\ Ch!Continue(Ch!Nothing)
    BY <1>1, <1>4 DEF Ch!Requests, Ch!Nothing
  <2> QED  BY <1>1, <2>1, SkipKeeps
<1>5. CASE r.st = "requests"
  <2>1. PICK b \in Seq(AChunk) :
          b = buf /\ b = Prefix(c.id, c.i) /\ \A k \in 1..Len(log) : log[k].id < c.id
    <3>1. \/ c.first /\ r = Ch!Requests(<<>>) /\ c.kind = "ports"
          \/ ~c.first /\ r = receiving /\ r.st = "requests" /\ c.kind = "ports"
      BY <1>1, <1>3, <1>5
    <3> HIDE DEF r
    <3> QED  BY <3>1, BufferGrows
  <2>2. \/ Len(b) > MaxPorts /\ receiving' = Ch!Nothing /\ streaming' = FALSE
           /\ Ch!Log(c.id, "too_many", <<>>)
        \/ c.last /\ receiving' = Ch!Nothing /\ streaming' = FALSE /\ Ch!Log(c.id, how, b)
        \/ ~c.last /\ Ch!Continue(Ch!Requests(b))
    BY <1>1, <1>5, <2>1
  <2>0. Grown(c, "requests")
    BY <1>3, <1>5 DEF Grown
  <2> HIDE DEF r, buf
  <2>3. CASE c.last /\ receiving' = Ch!Nothing /\ streaming' = FALSE /\ Ch!Log(c.id, how, b)
    <3>1. b = Ch!Whole(c.id)
      BY <1>3, <2>1, <2>3, PrefixWhole
    <3>2. how \in Hows /\ how # "exceeds"
      BY DEF Hows
    <3>3. LogOK' /\ ReceivingOK'
      <4> HIDE DEF how
      <4> QED  BY <2>1, <2>3, <3>1, <3>2, LogKeeps
    <3>4. Returns(c, how)
      BY <2>3, <3>1 DEF Returns
    <3> QED  BY <2>0, <3>3, <3>4
  <2>4. CASE ~c.last /\ Ch!Continue(Ch!Requests(b))
    <3>1. receiving' = Ch!Requests(b) /\ streaming' = FALSE /\ log' = log
      BY <2>4 DEF Ch!Continue
    <3>2. LogOK'
      BY <3>1, LogStays
    <3>3. ReceivingOK'
      BY <1>1, <1>2, <2>1, <2>4, <3>1, KeepsBuffer
    <3> QED  BY <2>0, <3>1, <3>2, <3>3 DEF Buffers, Ch!Requests, Ch!Nothing
  <2>5. CASE Len(b) > MaxPorts /\ receiving' = Ch!Nothing /\ streaming' = FALSE
             /\ Ch!Log(c.id, "too_many", <<>>)
    <3>1. Len(b) = c.i
      BY <1>2, <1>3, <2>1, PrefixFacts
    <3>2. <<>> \in Seq(AChunk) /\ "too_many" \in Hows
      BY DEF Hows
    <3>3. LogOK' /\ ReceivingOK'
      BY <2>1, <2>5, <3>2, LogKeeps
    <3> QED  BY <2>0, <2>5, <3>1, <3>3 DEF Drops
  <2> QED  BY <2>2, <2>3, <2>4, <2>5
<1> QED  BY <1>4, <1>5

LEMMA ChanStays ==
    ASSUME ChanOK, UNCHANGED <<msgs, closed, chan, finished, seen>>
    PROVE  ChanOK'
<1>1. \A j \in 1..Len(chan) : EntryOK(j)' <=> EntryOK(j)
  BY DEF EntryOK, Prior, AtEnd, Exhausted, Unsent, Sent, Follows, Ch!Chunk
<1>2. EndOK' <=> EndOK
  BY DEF EndOK, Prior, AtEnd, Exhausted, Unsent
<1>3. (seen = Ch!NoChunk \/ Sent(seen))' <=> (seen = Ch!NoChunk \/ Sent(seen))
  BY DEF Sent, Ch!Chunk, Ch!NoChunk
<1> QED  BY <1>1, <1>2, <1>3 DEF ChanOK

LEMMA LogStill ==
    ASSUME LogOK, UNCHANGED <<msgs, log>>, seen'.id = seen.id
    PROVE  LogOK'
<1>1. \A id : Logged(id)' <=> Logged(id)
  BY DEF Logged
<1>2. Ch!InOrder' /\ Ch!DeliveredWhole' /\ Ch!DiscardedForReason'
  BY DEF LogOK, Ch!InOrder, Ch!DeliveredWhole, Ch!Whole, Ch!Chunk, Ch!DiscardedForReason, Ch!Size
<1> QED  BY <1>1, <1>2 DEF LogOK

\* The message being streamed is given up: it is in the log once.
LEMMA GiveUpKeeps ==
    ASSUME ChInv, UNCHANGED <<msgs, closed, chan, finished, seen>>, Ch!InProgress,
           receiving' = Ch!Nothing, streaming' = FALSE, parts' = <<>>,
           NEW how \in {"exceeds", "discarded"}, Ch!Log(seen.id, how, <<>>)
    PROVE  ChInv'
<1>1. MsgsOK /\ ChanOK /\ ReceivingOK /\ LogOK
  BY DEF ChInv
<1>2. MsgsOK' /\ ChanOK'
  BY <1>1, MsgsStay, ChanStays
<1>3. LogBelow /\ Discardable(seen.id) /\ seen.id > 0
  <2>1. receiving.st = "chunks"
    BY DEF Ch!InProgress
  <2> QED  BY <1>1, <2>1 DEF ReceivingOK, StreamOK
<1>4. PICK id \in Nat \ {0} : id = seen.id
  BY <1>1, <1>3, SeenFacts
<1>5. LogOK' /\ Logged(id)'
  <2>1. /\ seen'.id = id /\ \A k \in 1..Len(log) : log[k].id < id
        /\ \A x \in 1..(id - 1) : msgs[x].state = "done" => Logged(x)
        /\ Discardable(id) /\ Ch!Log(id, how, <<>>) /\ msgs' = msgs
    BY <1>1, <1>3, <1>4 DEF LogBelow, LogOK
  <2>2. <<>> \in Seq(AChunk) /\ how \in Hows /\ how \notin {"data", "chunks", "ports", "rejected"}
    BY DEF Hows
  <2> QED  BY <1>1, <2>1, <2>2, LogGrows
<1>6. Logged(seen.id)'
  BY <1>4, <1>5 DEF Logged
<1>7. ReceivingOK'
  BY <1>6, KeepsNothing
<1> QED  BY <1>2, <1>5, <1>7 DEF ChInv

\* What a step of recv_any or recv may be.
Continues == Ch!InProgress /\ UNCHANGED <<chan, finished, seen>>
Reannounces ==
    /\ receiving' = [receiving EXCEPT !.announced = TRUE]
    /\ streaming' = TRUE /\ UNCHANGED <<log, parts>>
Takes(op, c) ==
    /\ ~Ch!InProgress /\ Advance(c) /\ ~finished' /\ parts' = <<>>
    /\ \/ Skips(c)
       \/ /\ c.kind = "data" /\ Grown(c, "data")
          /\ \/ Buffers("data") \/ Returns(c, "data")
             \/ op = "recv_any" /\ Announces
             \/ op # "recv_any" /\ Drops(c, "exceeds")
       \/ /\ c.kind = "ports" /\ Grown(c, "requests")
          /\ \/ Buffers("requests") \/ Returns(c, IF op = "recv" THEN "rejected" ELSE "ports")
             \/ Drops(c, "too_many") /\ c.i > MaxPorts
Finishes ==
    /\ ~Ch!InProgress /\ closed /\ finished' /\ AtEnd(seen) /\ parts' = <<>> /\ seen' = seen
    /\ Ch!Continue(IF receiving.st = "chunks" THEN Ch!Nothing ELSE receiving)

LEMMA RecvAnyKeeps ==
    ASSUME ChInv, NEW op, Ch!RecvAny(op)
    PROVE  /\ ChInv' /\ ~finished /\ UNCHANGED <<msgs, closed>>
           /\ \/ op = "recv_any" /\ Continues /\ Reannounces
              \/ op # "recv_any" /\ Continues
              \/ \E c \in AChunk : Takes(op, c)
              \/ Finishes
<1>1. MsgsOK /\ ChanOK /\ ReceivingOK /\ LogOK
  BY DEF ChInv
<1>2. ~finished /\ msgs' = msgs /\ closed' = closed
  BY DEF Ch!RecvAny, Ch!sender
<1>3. CASE Ch!InProgress
  <2>1. /\ Ch!Announce(op, [receiving EXCEPT !.announced = TRUE], seen.id)
        /\ UNCHANGED <<chan, finished, seen>>
        /\ parts' = IF op = "recv_any" THEN parts ELSE <<>>
    BY <1>3 DEF Ch!RecvAny
  <2>2. CASE op = "recv_any"
    <3>1. /\ receiving' = [receiving EXCEPT !.announced = TRUE] /\ streaming' = TRUE
          /\ log' = log /\ parts' = parts /\ chan' = chan /\ finished' = finished /\ seen' = seen
      BY <2>1, <2>2 DEF Ch!Announce
    <3>2. receiving \in Receiving /\ receiving.st = "chunks"
      BY <1>1, <1>3 DEF ReceivingOK, Ch!InProgress
    <3>3. /\ receiving' \in Receiving /\ receiving'.st = "chunks" /\ receiving'.announced = TRUE
          /\ receiving'.buf = receiving.buf /\ receiving'.completed = receiving.completed
      BY <3>1, <3>2 DEF Receiving
    <3>4. StreamOK' /\ parts' \in Seq(AChunk)
      <4>1. StreamOK /\ parts \in Seq(AChunk)
        BY <1>1 DEF ReceivingOK
      <4>2. Ch!InProgress'
        BY <1>3, <3>3 DEF Ch!InProgress
      <4>3. LogBelow' <=> LogBelow
        BY <3>1 DEF LogBelow
      <4>4. Discardable(seen.id)' <=> Discardable(seen.id)
        BY <1>2, <3>1 DEF Discardable, Ch!Size
      <4>5. \A i : Ch!Chunk(seen.id, i)' = Ch!Chunk(seen.id, i)
        BY <1>2, <3>1 DEF Ch!Chunk
      <4>6. parts' = parts /\ seen' = seen /\ finished' = finished /\ receiving'.buf = receiving.buf
            /\ receiving'.completed = receiving.completed
        BY <3>1, <3>3
      <4> QED  BY <1>3, <3>2, <4>1, <4>2, <4>3, <4>4, <4>5, <4>6 DEF StreamOK
    <3>5. BuffersOK("data", "data")' /\ BuffersOK("requests", "ports")' /\ NothingOK'
      BY <3>3 DEF BuffersOK, NothingOK
    <3>6. ReceivingOK'
      BY <3>1, <3>3, <3>4, <3>5 DEF ReceivingOK
    <3>7. MsgsOK' /\ ChanOK' /\ LogOK'
      BY <1>1, <1>2, <3>1, MsgsStay, ChanStays, LogStill
    <3> QED  BY <1>2, <1>3, <2>2, <3>1, <3>6, <3>7 DEF ChInv, Continues, Reannounces
  <2>3. CASE op # "recv_any"
    <3>1. receiving' = Ch!Nothing /\ streaming' = FALSE /\ Ch!Log(seen.id, "exceeds", <<>>)
          /\ parts' = <<>>
      BY <2>1, <2>3 DEF Ch!Announce
    <3> QED  BY <1>2, <1>3, <2>1, <2>3, <3>1, GiveUpKeeps DEF Continues
  <2> QED  BY <2>2, <2>3
<1>4. CASE ~Ch!InProgress
  <2>1. PICK c \in ToSet(chan) :
          /\ Ch!Take(c)
          /\ \/ /\ Ch!AnyData(op, c) \/ Ch!AnyPorts(op, c)
                /\ UNCHANGED finished
             \/ /\ c.kind = "finished"
                /\ finished' = TRUE
                /\ Ch!Continue(IF receiving.st = "chunks" THEN Ch!Nothing ELSE receiving)
    BY <1>4 DEF Ch!RecvAny, Ch!ToSet, ToSet
  <2>2. parts' = <<>>
    BY <1>4 DEF Ch!RecvAny
  <2>3. CASE Ch!AnyData(op, c) /\ UNCHANGED finished
    <3>1. c.kind = "data" /\ c.kind # "finished" /\ finished' = (c.kind = "finished") /\ ~finished'
      <4>1. c.kind = "data"
        BY <2>3 DEF Ch!AnyData
      <4>2. finished' = FALSE
        BY <1>1, <1>2, <2>3 DEF ChanOK
      <4> QED  BY <4>1, <4>2
    <3>2. MsgsOK' /\ ChanOK' /\ Advance(c)
      BY <1>2, <2>1, <3>1, TakeKeeps
    <3>3. /\ LogOK' /\ ReceivingOK'
          /\ \/ Skips(c)
             \/ /\ Grown(c, "data")
                /\ \/ Buffers("data") \/ Returns(c, "data")
                   \/ op = "recv_any" /\ Announces
                   \/ op # "recv_any" /\ Drops(c, "exceeds")
      BY <1>4, <2>2, <2>3, <3>1, <3>2, DataTaken
    <3>4. c \in AChunk
      BY <1>1, <3>2, SentFacts DEF Advance
    <3>5. Takes(op, c)
      BY <1>4, <2>2, <3>1, <3>2, <3>3 DEF Takes
    <3> QED  BY <1>2, <3>2, <3>3, <3>4, <3>5 DEF ChInv
  <2>4. CASE Ch!AnyPorts(op, c) /\ UNCHANGED finished
    <3>1. c.kind = "ports" /\ c.kind # "finished" /\ finished' = (c.kind = "finished") /\ ~finished'
      <4>1. c.kind = "ports"
        BY <2>4 DEF Ch!AnyPorts
      <4>2. finished' = FALSE
        BY <1>1, <1>2, <2>4 DEF ChanOK
      <4> QED  BY <4>1, <4>2
    <3>2. MsgsOK' /\ ChanOK' /\ Advance(c)
      BY <1>2, <2>1, <3>1, TakeKeeps
    <3>3. /\ LogOK' /\ ReceivingOK'
          /\ \/ Skips(c)
             \/ /\ Grown(c, "requests")
                /\ \/ Buffers("requests") \/ Returns(c, IF op = "recv" THEN "rejected" ELSE "ports")
                   \/ Drops(c, "too_many") /\ c.i > MaxPorts
      BY <1>4, <2>2, <2>4, <3>1, <3>2, PortsTaken
    <3>4. c \in AChunk
      BY <1>1, <3>2, SentFacts DEF Advance
    <3>5. Takes(op, c)
      BY <1>4, <2>2, <3>1, <3>2, <3>3 DEF Takes
    <3> QED  BY <1>2, <3>2, <3>3, <3>4, <3>5 DEF ChInv
  <2>5. CASE /\ c.kind = "finished" /\ finished' = TRUE
             /\ Ch!Continue(IF receiving.st = "chunks" THEN Ch!Nothing ELSE receiving)
    <3>1. MsgsOK' /\ ChanOK' /\ seen' = seen /\ AtEnd(seen) /\ closed
      BY <1>2, <2>1, <2>5, TakeKeeps
    <3>2. streaming' = FALSE /\ log' = log
          /\ receiving' = IF receiving.st = "chunks" THEN Ch!Nothing ELSE receiving
      BY <2>5 DEF Ch!Continue
    <3>3. LogOK'
      BY <1>1, <1>2, <3>1, <3>2, LogStill
    <3>4. \A id : Logged(id)' <=> Logged(id)
      BY <3>2 DEF Logged
    <3>5. ReceivingOK'
      <4>1. CASE receiving.st = "chunks"
        <5>1. Logged(seen.id)
          BY <1>1, <1>4, <4>1 DEF ReceivingOK, StreamOK
        <5>2. Logged(seen.id)'
          BY <3>1, <3>2, <5>1 DEF Logged
        <5> QED  BY <2>2, <3>2, <4>1, <5>2, KeepsNothing
      <4>2. CASE receiving.st # "chunks"
        <5>1. receiving' = receiving /\ receiving \in Receiving /\ parts' \in Seq(AChunk)
          BY <1>1, <2>2, <3>2, <4>2 DEF ReceivingOK
        <5>2. BuffersOK("data", "data")' /\ BuffersOK("requests", "ports")'
          BY <1>1, <1>2, <3>1, <3>2, <5>1
             DEF ReceivingOK, BuffersOK, Prefix, Ch!Chunk, LogBelow
        <5>3. StreamOK'
          BY <4>2, <5>1 DEF StreamOK
        <5>4. NothingOK'
          BY <1>1, <1>2, <3>1, <3>2, <5>1 DEF ReceivingOK, NothingOK, Logged, Ch!Nothing
        <5> QED  BY <3>2, <5>1, <5>2, <5>3, <5>4 DEF ReceivingOK
      <4> QED  BY <4>1, <4>2
    <3> QED  BY <1>2, <1>4, <2>2, <2>5, <3>1, <3>3, <3>5 DEF ChInv, Finishes
  <2> QED  BY <2>1, <2>3, <2>4, <2>5
<1> QED  BY <1>3, <1>4

\* recv_chunk returns the next chunk of the message seen last.
LEMMA PartsGrow ==
    ASSUME ChInv, ~finished', streaming' = TRUE, NEW d, Sent(d), seen' = d, msgs' = msgs,
           d.kind = "data", d.id = seen.id, receiving.st = "chunks", Ch!InProgress,
           receiving' \in Receiving, receiving'.st = "chunks", receiving'.announced = TRUE,
           receiving'.completed = d.last,
           NEW j \in Nat, j = Len(parts) + 1,
           NEW e, e = Ch!Chunk(d.id, j), parts' = Append(parts, e), j <= d.i,
           j + Len(receiving'.buf) = d.i,
           \A i \in 1..Len(receiving'.buf) : receiving'.buf[i] = Ch!Chunk(d.id, j + i),
           IF e.last THEN Ch!Log(e.id, "chunks", parts') ELSE log' = log
    PROVE  ReceivingOK' /\ LogOK' /\ Len(parts') = j
<1>1. MsgsOK /\ ChanOK /\ ReceivingOK /\ LogOK
  BY DEF ChInv
<1>2. /\ d.id \in 1..Len(msgs) /\ d.i \in 1..msgs[d.id].n /\ d.last = (d.i = msgs[d.id].n)
      /\ d.id \in Nat \ {0} /\ d.i \in Nat \ {0} /\ msgs[d.id].n \in Nat \ {0}
  BY <1>1, SentFacts, MsgTypes
<1>3. parts \in Seq(AChunk) /\ Len(parts) \in Nat /\ j \in 1..msgs[d.id].n
  <2>1. parts \in Seq(AChunk)
    BY <1>1 DEF ReceivingOK
  <2>2. Len(parts) \in Nat
    BY <2>1
  <2> QED  BY <1>2, <2>1, <2>2
<1>4. e \in AChunk /\ e.id = d.id /\ e.last = (j = msgs[d.id].n)
  BY <1>1, <1>2, <1>3, ChunkFacts
<1>5. /\ parts' \in Seq(AChunk) /\ Len(parts') = j /\ parts'[j] = e
      /\ \A i \in 1..Len(parts) : parts'[i] = parts[i]
  BY <1>3, <1>4, Appended
<1>6. \A i \in 1..Len(parts) : parts[i] = Ch!Chunk(d.id, i)
  BY <1>1 DEF ReceivingOK, StreamOK
<1>7. \A i \in 1..j : parts'[i] = Ch!Chunk(d.id, i)
  <2> SUFFICES ASSUME NEW i \in 1..j PROVE parts'[i] = Ch!Chunk(d.id, i)
    OBVIOUS
  <2>1. CASE i = j
    BY <1>5, <2>1
  <2>2. CASE i \in 1..Len(parts)
    BY <1>5, <1>6, <2>2
  <2> QED  BY <1>3, <2>1, <2>2
<1>8. receiving'.buf \in Seq(AChunk) /\ Len(receiving'.buf) \in Nat
      /\ (Len(receiving'.buf) = 0 <=> receiving'.buf = <<>>)
  <2>1. receiving'.buf \in Seq(AChunk)
    BY DEF Receiving
  <2> QED  BY <2>1
<1>9. Ch!InProgress' <=> j # msgs[d.id].n
  <2>1. Ch!InProgress' <=> Len(receiving'.buf) # 0 \/ d.i # msgs[d.id].n
    BY <1>2, <1>8 DEF Ch!InProgress
  <2>2. (Len(receiving'.buf) # 0 \/ d.i # msgs[d.id].n) <=> j # msgs[d.id].n
    <3> DEFINE l == Len(receiving'.buf)
               n == msgs[d.id].n
               x == d.i
    <3>1. l \in Nat /\ n \in Nat /\ x \in 1..n /\ j + l = x /\ j \in Nat
      BY <1>2, <1>3, <1>8
    <3> HIDE DEF l, n, x
    <3>2. (l # 0 \/ x # n) <=> j # n
      BY <3>1
    <3> QED  BY <3>2 DEF l, n, x
  <2> QED  BY <2>1, <2>2
<1>10. \A k \in 1..Len(log) : log[k].id < d.id
  BY <1>1 DEF ReceivingOK, StreamOK, LogBelow
<1>11. Discardable(d.id)
  BY <1>1 DEF ReceivingOK, StreamOK
<1>12. LogOK' /\ (IF Ch!InProgress' THEN LogBelow' ELSE Logged(d.id)')
  <2>1. CASE e.last
    <3>1. Ch!Log(d.id, "chunks", parts') /\ j = msgs[d.id].n
      BY <1>4, <2>1
    <3>2. parts' = Ch!Whole(d.id)
      <4>1. j \in 0..msgs[d.id].n
        BY <1>3
      <4>2. PICK s \in Seq(AChunk), id \in 1..Len(msgs) : s = parts' /\ id = d.id
        BY <1>2, <1>5
      <4>3. Len(s) = j /\ j \in 0..msgs[id].n /\ \A i \in 1..j : s[i] = Ch!Chunk(id, i)
        BY <1>5, <1>7, <4>1, <4>2
      <4>4. s = Prefix(id, j)
        BY <1>1, <4>3, FirstChunks
      <4>5. parts' = Prefix(d.id, j)
        BY <4>2, <4>4
      <4> QED  BY <3>1, <4>5, PrefixWhole
    <3>3. \A x \in 1..(d.id - 1) : msgs[x].state = "done" => Logged(x)
      BY <1>1 DEF LogOK
    <3>4. PICK id \in Nat \ {0}, b \in Seq(AChunk) : id = d.id /\ b = parts'
      BY <1>2, <1>5
    <3>5. /\ seen'.id = id /\ \A k \in 1..Len(log) : log[k].id < id
          /\ \A x \in 1..(id - 1) : msgs[x].state = "done" => Logged(x)
          /\ b = Ch!Whole(id) /\ Ch!Log(id, "chunks", b)
      BY <1>10, <3>1, <3>2, <3>3, <3>4
    <3>6. "chunks" \in Hows /\ "chunks" # "exceeds"
      BY DEF Hows
    <3>7. LogOK' /\ Logged(id)'
      BY <1>1, <3>5, <3>6, LogGrows
    <3>8. Logged(d.id)'
      BY <3>4, <3>7 DEF Logged
    <3> QED  BY <1>9, <3>1, <3>7, <3>8
  <2>2. CASE ~e.last
    <3>1. log' = log /\ j # msgs[d.id].n
      BY <1>4, <2>2
    <3>2. LogOK'
      BY <1>1, <3>1, LogStill
    <3>3. LogBelow'
      BY <1>10, <3>1 DEF LogBelow
    <3> QED  BY <1>9, <3>1, <3>2, <3>3
  <2> QED  BY <1>4, <2>1, <2>2
<1>13. StreamOK'
  <2>1. \A i : Ch!Chunk(d.id, i)' = Ch!Chunk(d.id, i)
    BY DEF Ch!Chunk
  <2>2. Discardable(d.id)'
    BY <1>11 DEF Discardable, Ch!Size
  <2>3. seen'.id > 0 /\ seen'.kind = "data" /\ Len(parts') + Len(receiving'.buf) = seen'.i
    <3>1. Len(parts') = j
      BY <1>5
    <3>2. seen'.id > 0
      BY <1>2
    <3>3. Len(parts') + Len(receiving'.buf) = seen'.i
      BY <3>1, Zenon
    <3> QED  BY <3>2, <3>3
  <2>4. \A i \in 1..Len(parts') : parts'[i] = Ch!Chunk(d.id, i)'
    BY <1>5, <1>7, <2>1
  <2>5. \A i \in 1..Len(receiving'.buf) : receiving'.buf[i] = Ch!Chunk(d.id, Len(parts) + i)'
    BY <1>5, <2>1 DEF Ch!Chunk
  <2> QED  BY <1>12, <2>2, <2>3, <2>4, <2>5 DEF StreamOK, Logged
<1>14. BuffersOK("data", "data")' /\ BuffersOK("requests", "ports")' /\ NothingOK'
  BY DEF BuffersOK, NothingOK
<1> QED  BY <1>5, <1>12, <1>13, <1>14 DEF ReceivingOK

\* What a step of recv_chunk may be: it returns a chunk, the message is complete, or the
\* sender has stopped in the middle of it.
ReturnsChunk ==
    /\ parts' = Append(parts, Ch!Chunk(seen.id, Len(parts) + 1)) /\ Len(parts') = Len(parts) + 1
    /\ Len(parts) + 1 <= seen'.i /\ Sent(seen') /\ seen'.id = seen.id
    /\ receiving'.st = "chunks" /\ receiving'.announced /\ streaming'
Completes ==
    /\ receiving.buf = <<>> /\ receiving.completed
    /\ receiving' = Ch!Nothing /\ ~streaming' /\ parts' = <<>> /\ UNCHANGED <<log, seen>>
Stops ==
    /\ receiving.buf = <<>> /\ ~receiving.completed /\ msgs[seen.id].state = "cancelled"
    /\ ~streaming' /\ parts' = <<>>
    /\ \/ Advance(seen') /\ seen'.kind = "data" /\ seen'.first /\ log' = log
          /\ receiving'.st = "chunks" /\ receiving'.buf # <<>>
       \/ Advance(seen') /\ seen'.kind = "ports" /\ receiving' = Ch!Nothing
          /\ Ch!Log(seen'.id, "ignored", <<>>)
       \/ seen' = seen /\ receiving' = Ch!Nothing /\ log' = log

LEMMA BufferReturned ==
    ASSUME ChInv, streaming, ~finished, receiving.buf # <<>>, UNCHANGED <<msgs, closed, chan, finished, seen>>,
           Ch!ReturnChunk(Head(receiving.buf),
                          [receiving EXCEPT !.buf = Tail(@), !.announced = TRUE])
    PROVE  ChInv' /\ ReturnsChunk
<1>1. MsgsOK /\ ChanOK /\ ReceivingOK /\ LogOK
  BY DEF ChInv
<1>2. MsgsOK' /\ ChanOK'
  BY <1>1, MsgsStay, ChanStays
<1>3. receiving \in Receiving /\ receiving.st = "chunks" /\ StreamOK /\ Ch!InProgress
  BY <1>1 DEF ReceivingOK, Ch!InProgress
<1>4. /\ seen.id > 0 /\ seen.kind = "data" /\ Len(parts) + Len(receiving.buf) = seen.i
      /\ \A i \in 1..Len(receiving.buf) : receiving.buf[i] = Ch!Chunk(seen.id, Len(parts) + i)
      /\ receiving.completed = seen.last
  BY <1>3 DEF StreamOK
<1>5. PICK d \in AChunk : d = seen /\ Sent(d) /\ d.i \in Nat \ {0}
  BY <1>1, <1>4, SeenFacts, SentFacts
<1>6. PICK b \in Seq(AChunk) : b = receiving.buf
  BY <1>3 DEF Receiving
<1>7. /\ Head(b) = b[1] /\ Tail(b) \in Seq(AChunk) /\ Len(Tail(b)) = Len(b) - 1
      /\ Len(b) \in Nat \ {0} /\ \A k \in 1..(Len(b) - 1) : Tail(b)[k] = b[k + 1]
  BY <1>6, HeadTail
<1>8. PICK t \in Seq(AChunk) :
        /\ t = Tail(b) /\ Len(t) = Len(b) - 1 /\ \A k \in 1..(Len(b) - 1) : t[k] = b[k + 1]
  BY <1>7, Zenon
<1>9. /\ receiving' = [receiving EXCEPT !.buf = t, !.announced = TRUE]
      /\ parts' = Append(parts, Head(b))
      /\ IF Head(b).last THEN Ch!Log(Head(b).id, "chunks", Append(parts, Head(b))) ELSE log' = log
      /\ streaming' = streaming
  BY <1>6, <1>8 DEF Ch!ReturnChunk
<1>10. /\ receiving' \in Receiving /\ receiving'.st = "chunks" /\ receiving'.announced = TRUE
       /\ receiving'.completed = receiving.completed /\ receiving'.buf = t
  BY <1>3, <1>9 DEF Receiving
<1>11. Len(parts) \in Nat /\ Len(b) \in Nat \ {0} /\ streaming \in BOOLEAN
  BY <1>1, <1>7 DEF ReceivingOK
<1>12. PICK j \in Nat : j = Len(parts) + 1
  BY <1>11
<1>13. PICK e : e = Head(b)
  OBVIOUS
<1>14. e = Ch!Chunk(d.id, j)
  <2>1. b[1] = Ch!Chunk(seen.id, Len(parts) + 1)
    BY <1>4, <1>6, <1>11
  <2> QED  BY <1>5, <1>7, <1>12, <1>13, <2>1
<1>15. j <= d.i /\ j + Len(t) = d.i
  <2> DEFINE p == Len(parts)
             l == Len(b)
             m == Len(t)
             x == d.i
  <2>1. p \in Nat /\ l \in Nat \ {0} /\ m = l - 1 /\ p + l = x /\ j = p + 1
    BY <1>4, <1>5, <1>6, <1>8, <1>11, <1>12
  <2> HIDE DEF p, l, m, x
  <2>2. j <= x /\ j + m = x
    BY <2>1
  <2> QED  BY <2>2 DEF x, m
<1>16. \A i \in 1..Len(t) : t[i] = Ch!Chunk(d.id, j + i)
  <2> SUFFICES ASSUME NEW i \in 1..Len(t) PROVE t[i] = Ch!Chunk(d.id, j + i)
    OBVIOUS
  <2>1. i \in 1..(Len(b) - 1) /\ i + 1 \in 1..Len(b) /\ Len(parts) + (i + 1) = j + i
    <3> DEFINE p == Len(parts)
               l == Len(b)
    <3>1. p \in Nat /\ l \in Nat \ {0} /\ i \in 1..(l - 1) /\ j = p + 1
      BY <1>8, <1>11, <1>12
    <3> HIDE DEF p, l
    <3>2. i \in 1..(l - 1) /\ i + 1 \in 1..l /\ p + (i + 1) = j + i
      <4>1. i \in Nat
        BY <3>1
      <4>2. i + 1 \in 1..l
        BY <3>1, <4>1
      <4>3. p + (i + 1) = j + i
        BY <3>1, <4>1
      <4> QED  BY <3>1, <4>2, <4>3
    <3> QED  BY <3>2 DEF p, l
  <2>2. t[i] = b[i + 1]
    BY <1>8, <2>1
  <2>3. b[i + 1] = Ch!Chunk(seen.id, Len(parts) + (i + 1))
    BY <1>4, <1>6, <2>1
  <2> QED  BY <1>5, <2>1, <2>2, <2>3
<1>17. ReceivingOK' /\ LogOK' /\ Len(parts') = j
  <2>1. /\ ~finished' /\ streaming' = TRUE /\ seen' = d /\ msgs' = msgs /\ d.kind = "data"
        /\ d.id = seen.id /\ receiving'.completed = d.last
    BY <1>4, <1>5, <1>9, <1>10, <1>11
  <2>2. /\ parts' = Append(parts, e) /\ (IF e.last THEN Ch!Log(e.id, "chunks", parts') ELSE log' = log)
    BY <1>9, <1>13
  <2>3. /\ j + Len(receiving'.buf) = d.i
        /\ \A i \in 1..Len(receiving'.buf) : receiving'.buf[i] = Ch!Chunk(d.id, j + i)
    BY <1>10, <1>15, <1>16
  <2> QED  BY <1>3, <1>5, <1>10, <1>12, <1>14, <1>15, <2>1, <2>2, <2>3, PartsGrow
<1>18. ReturnsChunk
  <2>1. parts' = Append(parts, Ch!Chunk(seen.id, Len(parts) + 1)) /\ streaming'
    BY <1>5, <1>9, <1>11, <1>12, <1>13, <1>14
  <2>2. Len(parts) + 1 <= seen'.i /\ Sent(seen') /\ seen'.id = seen.id /\ Len(parts') = Len(parts) + 1
    BY <1>5, <1>12, <1>15, <1>17
  <2> QED  BY <1>10, <2>1, <2>2 DEF ReturnsChunk
<1> QED  BY <1>2, <1>17, <1>18 DEF ChInv

LEMMA DiscardKeeps ==
    ASSUME ChInv, Ch!DiscardChunks
    PROVE  /\ ChInv' /\ receiving' = Ch!Nothing /\ ~streaming' /\ parts' = <<>>
           /\ receiving.st = "chunks" /\ UNCHANGED <<msgs, closed, chan, finished, seen>>
           /\ IF Ch!InProgress THEN Ch!Log(seen.id, "discarded", <<>>) ELSE log' = log
<1>1. MsgsOK /\ ChanOK /\ ReceivingOK /\ LogOK
  BY DEF ChInv
<1>2. /\ receiving' = Ch!Nothing /\ streaming' = FALSE /\ parts' = <<>> /\ receiving.st = "chunks"
      /\ UNCHANGED <<msgs, closed, chan, finished, seen>>
      /\ IF Ch!InProgress THEN Ch!Log(seen.id, "discarded", <<>>) ELSE log' = log
  BY DEF Ch!DiscardChunks, Ch!sender
<1>3. CASE Ch!InProgress
  BY <1>2, <1>3, GiveUpKeeps
<1>4. CASE ~Ch!InProgress
  <2>1. MsgsOK' /\ ChanOK' /\ LogOK'
    BY <1>1, <1>2, <1>4, MsgsStay, ChanStays, LogStill
  <2>2. Logged(seen.id)
    BY <1>1, <1>2, <1>4 DEF ReceivingOK, StreamOK
  <2>3. Logged(seen.id)'
    BY <1>2, <1>4, <2>2 DEF Logged
  <2>4. ReceivingOK'
    BY <1>2, <2>3, KeepsNothing
  <2> QED  BY <1>2, <2>1, <2>4 DEF ChInv
<1> QED  BY <1>2, <1>3, <1>4

LEMMA RecvChunkKeeps ==
    ASSUME ChInv, Ch!RecvChunk
    PROVE  /\ ChInv' /\ UNCHANGED <<msgs, closed>> /\ streaming /\ ~finished
           /\ receiving.st = "chunks" /\ receiving.announced
           /\ \/ ReturnsChunk
              \/ Completes /\ ~finished'
              \/ Stops
<1>1. MsgsOK /\ ChanOK /\ ReceivingOK /\ LogOK
  BY DEF ChInv
<1>2. streaming /\ ~finished /\ msgs' = msgs /\ closed' = closed /\ finished = FALSE
  BY <1>1 DEF Ch!RecvChunk, Ch!sender, ChanOK
<1>3. receiving \in Receiving /\ receiving.st = "chunks" /\ receiving.announced /\ StreamOK
      /\ streaming = TRUE
  BY <1>1, <1>2 DEF ReceivingOK
<1>4. /\ seen.id > 0 /\ seen.kind = "data" /\ Len(parts) + Len(receiving.buf) = seen.i
      /\ \A i \in 1..Len(parts) : parts[i] = Ch!Chunk(seen.id, i)
      /\ receiving.completed = seen.last
      /\ IF Ch!InProgress THEN LogBelow ELSE Logged(seen.id)
      /\ Discardable(seen.id)
  BY <1>3 DEF StreamOK
<1>5. CASE /\ receiving.buf # <<>>
           /\ Ch!ReturnChunk(Head(receiving.buf),
                             [receiving EXCEPT !.buf = Tail(@), !.announced = TRUE])
           /\ UNCHANGED <<chan, finished, seen>>
  BY <1>2, <1>3, <1>5, BufferReturned
<1>6. CASE /\ receiving.buf = <<>> /\ receiving.completed /\ Ch!EndStream(Ch!Nothing)
           /\ UNCHANGED <<chan, finished, seen, log>>
  <2>1. receiving' = Ch!Nothing /\ parts' = <<>> /\ streaming' = FALSE
    BY <1>6 DEF Ch!EndStream
  <2>2. Logged(seen.id)
    BY <1>4, <1>6 DEF Ch!InProgress
  <2>3. Logged(seen.id)'
    BY <1>6, <2>2 DEF Logged
  <2>4. MsgsOK' /\ ChanOK' /\ LogOK'
    BY <1>1, <1>2, <1>6, MsgsStay, ChanStays, LogStill
  <2>5. ReceivingOK'
    BY <2>1, <2>3, KeepsNothing
  <2> QED  BY <1>2, <1>3, <1>6, <2>1, <2>4, <2>5 DEF ChInv, Completes
<1>7. ASSUME receiving.buf = <<>>, ~receiving.completed,
             NEW c \in ToSet(chan), Ch!Take(c), finished' = (c.kind = "finished"),
             \/ c.kind = "data" /\ c.first /\ Ch!EndStream(Ch!Chunks(<<c>>, c.last, FALSE)) /\ log' = log
             \/ c.kind = "data" /\ ~c.first /\ Ch!ReturnChunk(c, Ch!Chunks(<<>>, c.last, TRUE))
             \/ c.kind = "ports" /\ Ch!EndStream(Ch!Nothing) /\ Ch!Log(c.id, "ignored", <<>>)
             \/ c.kind = "finished" /\ Ch!EndStream(Ch!Nothing) /\ log' = log
      PROVE  ChInv' /\ (ReturnsChunk \/ Stops)
  <2>1. MsgsOK' /\ ChanOK'
    BY <1>2, <1>7, TakeKeeps
  <2>2. ~seen.last /\ Ch!InProgress /\ LogBelow
    BY <1>3, <1>4, <1>7 DEF Ch!InProgress
  <2>3. Len(parts) = seen.i /\ seen.i \in Nat \ {0} /\ Sent(seen) /\ seen.id \in 1..Len(msgs)
        /\ seen.id \in Nat
    <3>1. Sent(seen)
      BY <1>1, <1>4, SeenFacts
    <3>2. seen.i \in Nat \ {0} /\ seen.id \in 1..Len(msgs) /\ seen.id \in Nat
      BY <1>1, <3>1, SentFacts
    <3>3. Len(receiving.buf) = 0 /\ parts \in Seq(AChunk)
      BY <1>1, <1>7 DEF ReceivingOK
    <3>4. Len(parts) \in Nat
      BY <3>3
    <3> QED  BY <1>4, <3>1, <3>2, <3>3, <3>4
  <2>4. CASE c.kind = "finished"
    <3>1. receiving' = Ch!Nothing /\ parts' = <<>> /\ streaming' = FALSE /\ log' = log
      BY <1>7, <2>4 DEF Ch!EndStream
    <3>2. seen' = seen /\ AtEnd(seen) /\ closed
      BY <1>2, <1>7, <2>4, TakeKeeps
    <3>3. msgs[seen.id].state = "cancelled"
      <4>1. msgs[seen.id].sent = seen.i /\ seen.last = (seen.i = msgs[seen.id].n)
        BY <1>1, <1>4, <2>3, <3>2, SentFacts DEF AtEnd, Exhausted
      <4>2. /\ msgs[seen.id].state = "done" <=> msgs[seen.id].sent = msgs[seen.id].n
            /\ msgs[seen.id].state \in {"done", "cancelled"}
        BY <1>1, <2>3, <3>2, MsgFacts
      <4> QED  BY <2>2, <4>1, <4>2
    <3>4. ReceivingOK'
      BY <1>2, <3>1, <3>2, <3>3, KeepsNothing
    <3>5. LogOK'
      BY <1>1, <1>2, <3>1, <3>2, LogStill
    <3> QED  BY <1>7, <2>1, <3>1, <3>2, <3>3, <3>4, <3>5 DEF ChInv, Stops
  <2>5. CASE c.kind # "finished"
    <3>1. Advance(c) /\ ~finished'
      BY <1>2, <1>7, <2>5, TakeKeeps
    <3>2. /\ Sent(c) /\ seen' = c /\ c.id \in Nat \ {0} /\ seen.id <= c.id
          /\ c.first => c.i = 1 /\ seen.id < c.id
          /\ ~c.first => c.id = seen.id /\ c.i = seen.i + 1
          /\ \A id \in (seen.id + 1)..(c.id - 1) : msgs[id].state = "cancelled"
          /\ seen.id > 0 /\ seen.id < c.id /\ ~seen.last => msgs[seen.id].state = "cancelled"
          /\ \A k \in 1..Len(log) : log[k].id \in 1..seen.id
      BY <2>2, <3>1, AdvanceFacts
    <3>3. /\ c \in AChunk /\ c.id \in 1..Len(msgs) /\ c.i \in 1..msgs[c.id].n
          /\ c.kind = msgs[c.id].kind /\ c = Ch!Chunk(c.id, c.i) /\ c.i \in Nat \ {0}
          /\ c.first = (c.i = 1) /\ c.last = (c.i = msgs[c.id].n) /\ msgs[c.id].n \in Nat
          /\ seen.kind = msgs[seen.id].kind
      BY <1>1, <2>3, <3>2, SentFacts, MsgTypes
    <3>4. Advance(seen')
      BY <3>1, <3>2 DEF Advance
    <3>5. ASSUME c.first PROVE \A k \in 1..Len(log) : log[k].id < c.id
      BY <2>3, <3>2, <3>5
    <3>6. CASE c.kind = "data" /\ c.first
      <4>1. /\ receiving' = Ch!Chunks(<<c>>, c.last, FALSE) /\ parts' = <<>> /\ streaming' = FALSE
            /\ log' = log
        BY <1>7, <3>6 DEF Ch!EndStream
      <4>2. msgs[seen.id].state = "cancelled"
        BY <1>4, <2>2, <3>2, <3>6
      <4>3. Discardable(c.id)
        <5>1. c.id > 1 /\ seen.id < c.id
          BY <1>4, <2>3, <3>2, <3>6
        <5>2. CASE c.id - 1 = seen.id
          BY <4>2, <5>1, <5>2 DEF Discardable
        <5>3. CASE c.id - 1 # seen.id
          <6>1. c.id - 1 \in (seen.id + 1)..(c.id - 1)
            <7> DEFINE x == c.id
                       y == seen.id
            <7>1. x \in Nat /\ y \in Nat /\ y < x /\ x - 1 # y
              BY <2>3, <3>2, <5>1, <5>3
            <7> HIDE DEF x, y
            <7>2. x - 1 \in (y + 1)..(x - 1)
              BY <7>1
            <7> QED  BY <7>2 DEF x, y
          <6> QED  BY <3>2, <5>1, <6>1 DEF Discardable
        <5> QED  BY <5>2, <5>3
      <4>4. PICK b \in Seq(AChunk) : b = <<c>>
        <5>1. c \in AChunk
          BY <3>3
        <5>2. <<c>> \in Seq(AChunk)
          BY <5>1
        <5> QED  BY <5>2
      <4>5. b = Prefix(c.id, c.i)
        <5>1. Len(b) = c.i /\ c.i \in 0..msgs[c.id].n /\ \A i \in 1..c.i : b[i] = Ch!Chunk(c.id, i)
          BY <3>2, <3>3, <3>6, <4>4
        <5> QED  BY <1>1, <3>3, <5>1, FirstChunks
      <4>6. \A k \in 1..Len(log') : log'[k].id < c.id
        BY <3>5, <3>6, <4>1
      <4>7. ReceivingOK' /\ receiving'.st = "chunks" /\ receiving'.buf # <<>>
        <5>1. receiving' = Ch!Chunks(b, c.last, FALSE) /\ streaming' = FALSE /\ FALSE \in BOOLEAN
          BY <4>1, <4>4
        <5> QED  BY <1>1, <1>2, <3>1, <3>2, <3>6, <4>1, <4>3, <4>5, <4>6, <5>1, KeepsChunks
      <4>8. LogOK'
        BY <2>2, <3>1, <4>1, LogStays
      <4>9. Stops
        BY <1>7, <3>2, <3>4, <3>6, <4>1, <4>2, <4>7 DEF Stops
      <4> QED  BY <2>1, <4>7, <4>8, <4>9 DEF ChInv
    <3>7. CASE c.kind = "data" /\ ~c.first
      <4>1. /\ receiving' = Ch!Chunks(<<>>, c.last, TRUE) /\ parts' = Append(parts, c)
            /\ IF c.last THEN Ch!Log(c.id, "chunks", Append(parts, c)) ELSE log' = log
            /\ streaming' = streaming
        BY <1>7, <3>7 DEF Ch!ReturnChunk
      <4>2. /\ receiving' \in Receiving /\ receiving'.st = "chunks" /\ receiving'.announced = TRUE
            /\ receiving'.completed = c.last /\ receiving'.buf = <<>> /\ Len(receiving'.buf) = 0
        BY <3>3, <4>1 DEF Ch!Chunks, Receiving
      <4>3. PICK j \in Nat : j = c.i /\ j = Len(parts) + 1
        BY <2>3, <3>2, <3>3, <3>7
      <4>4. c = Ch!Chunk(c.id, j) /\ j <= c.i /\ j + 0 = c.i /\ c.id = seen.id /\ streaming' = TRUE
        BY <1>3, <3>2, <3>3, <3>7, <4>1, <4>3
      <4>5. ReceivingOK' /\ LogOK' /\ Len(parts') = j
        <5>1. j + Len(receiving'.buf) = c.i
          BY <4>2, <4>4
        <5>2. \A i \in 1..Len(receiving'.buf) : receiving'.buf[i] = Ch!Chunk(c.id, j + i)
          BY <4>2
        <5>3. IF c.last THEN Ch!Log(c.id, "chunks", parts') ELSE log' = log
          BY <4>1
        <5>4. parts' = Append(parts, c)
          BY <4>1
        <5> QED  BY <1>2, <1>3, <2>2, <3>1, <3>2, <3>7, <4>2, <4>3, <4>4, <5>1, <5>2, <5>3, <5>4, PartsGrow
      <4>6. ReturnsChunk
        <5>1. parts' = Append(parts, Ch!Chunk(seen.id, Len(parts) + 1)) /\ streaming'
          BY <4>1, <4>3, <4>4
        <5>2. Len(parts') = Len(parts) + 1 /\ Len(parts) + 1 <= seen'.i /\ Sent(seen') /\ seen'.id = seen.id
          BY <3>2, <4>3, <4>4, <4>5
        <5> QED  BY <4>2, <5>1, <5>2 DEF ReturnsChunk
      <4> QED  BY <2>1, <4>5, <4>6 DEF ChInv
    <3>8. CASE c.kind = "ports"
      <4>1. receiving' = Ch!Nothing /\ parts' = <<>> /\ streaming' = FALSE /\ Ch!Log(c.id, "ignored", <<>>)
        BY <1>7, <3>8 DEF Ch!EndStream
      <4>2. c.first
        BY <1>4, <3>2, <3>3, <3>8
      <4>3. <<>> \in Seq(AChunk) /\ "ignored" \in Hows
        BY DEF Hows
      <4>4. LogOK' /\ ReceivingOK'
        BY <2>2, <3>1, <3>5, <4>1, <4>2, <4>3, LogKeeps
      <4>5. msgs[seen.id].state = "cancelled"
        BY <1>4, <2>2, <3>2, <4>2
      <4>6. Stops
        BY <1>7, <3>2, <3>4, <3>8, <4>1, <4>5 DEF Stops
      <4> QED  BY <2>1, <4>4, <4>6 DEF ChInv
    <3> QED  BY <1>7, <2>5, <3>6, <3>7, <3>8
  <2> QED  BY <2>4, <2>5
<1>8. \/ <1>5!1 \/ <1>6!1
      \/ /\ receiving.buf = <<>> /\ ~receiving.completed
         /\ \E c \in ToSet(chan) :
             /\ Ch!Take(c) /\ finished' = (c.kind = "finished")
             /\ \/ c.kind = "data" /\ c.first /\ Ch!EndStream(Ch!Chunks(<<c>>, c.last, FALSE)) /\ log' = log
                \/ c.kind = "data" /\ ~c.first /\ Ch!ReturnChunk(c, Ch!Chunks(<<>>, c.last, TRUE))
                \/ c.kind = "ports" /\ Ch!EndStream(Ch!Nothing) /\ Ch!Log(c.id, "ignored", <<>>)
                \/ c.kind = "finished" /\ Ch!EndStream(Ch!Nothing) /\ log' = log
  BY DEF Ch!RecvChunk, Ch!ToSet, ToSet
<1> QED  BY <1>2, <1>3, <1>5, <1>6, <1>7, <1>8

----------------------------------------------------------------------------
(* The chmux channel *)

LEMMA ChInit == Ch!Init => ChInv
<1> SUFFICES ASSUME Ch!Init PROVE ChInv
  OBVIOUS
<1>1. /\ msgs = <<>> /\ closed = FALSE /\ chan = <<>> /\ receiving = Ch!Nothing /\ finished = FALSE
      /\ streaming = FALSE /\ seen = Ch!NoChunk /\ parts = <<>> /\ log = <<>>
  BY DEF Ch!Init
<1>2. Len(msgs) = 0 /\ Len(chan) = 0 /\ Len(log) = 0
      /\ seen.id = 0 /\ Len(parts) = 0
  BY <1>1 DEF Ch!NoChunk
<1>3. MsgsOK
  <2>1. msgs \in Seq(Msg) /\ \A id \in 1..Len(msgs) : FALSE
    BY <1>1
  <2>2. closed \in BOOLEAN /\ ~closed
    BY <1>1
  <2> QED  BY <2>1, <2>2 DEF MsgsOK
<1>4. ChanOK
  <2>1. AtEnd(seen)
    BY <1>2 DEF AtEnd, Exhausted, Unsent
  <2>2. EndOK
    <3>1. Prior(Len(chan) + 1) = seen
      BY <1>2 DEF Prior
    <3>2. finished = closed
      BY <1>1
    <3> QED  BY <2>1, <3>1, <3>2 DEF EndOK
  <2>3. chan \in Seq(AChunk) /\ \A j \in 1..Len(chan) : FALSE
    BY <1>1
  <2>4. finished \in BOOLEAN /\ ~finished
    BY <1>1
  <2>5. seen = Ch!NoChunk
    BY <1>1
  <2> QED  BY <2>2, <2>3, <2>4, <2>5 DEF ChanOK
<1>5. /\ receiving \in Receiving /\ receiving.st = "nothing" /\ parts \in Seq(AChunk)
  BY <1>1 DEF Ch!Nothing, Receiving
<1>6. ReceivingOK
  <2>1. streaming \in BOOLEAN /\ ~streaming
    BY <1>1
  <2>2. BuffersOK("data", "data") /\ BuffersOK("requests", "ports") /\ StreamOK
    BY <1>5 DEF BuffersOK, StreamOK
  <2>3. NothingOK
    <3>1. ~(seen.id > 0) /\ receiving = Ch!Nothing
      BY <1>1, <1>2
    <3> QED  BY <3>1 DEF NothingOK
  <2> QED  BY <1>5, <2>1, <2>2, <2>3 DEF ReceivingOK
<1>7. LogOK
  <2>1. Ch!InOrder /\ Ch!DeliveredWhole /\ Ch!DiscardedForReason
    BY <1>2 DEF Ch!InOrder, Ch!DeliveredWhole, Ch!DiscardedForReason
  <2> QED  BY <1>1, <1>2, <2>1 DEF LogOK
<1> QED  BY <1>3, <1>4, <1>6, <1>7 DEF ChInv

LEMMA ChStays ==
    ASSUME ChInv, UNCHANGED chVars
    PROVE  ChInv'
<1>1. /\ msgs' = msgs /\ closed' = closed /\ chan' = chan /\ receiving' = receiving
      /\ finished' = finished /\ streaming' = streaming /\ seen' = seen /\ parts' = parts /\ log' = log
  BY DEF chVars
<1>2. MsgsOK /\ ChanOK /\ ReceivingOK /\ LogOK
  BY DEF ChInv
<1>3. MsgsOK' /\ ChanOK' /\ LogOK'
  BY <1>1, <1>2, MsgsStay, ChanStays, LogStill
<1>4. MsgsGrow
  <2>1. Len(msgs) \in Nat /\ \A id \in 1..Len(msgs) : msgs[id].sent \in Nat
    BY <1>2, MsgTypes DEF MsgsOK
  <2> QED  BY <1>1, <2>1 DEF MsgsGrow
<1>5. ReceivingOK'
  BY <1>1, <1>3, <1>4, ReceiverStays
<1> QED  BY <1>3, <1>5 DEF ChInv

\* Every operation of the channel keeps its invariant.
LEMMA ChNext ==
    ASSUME ChInv, Ch!Next
    PROVE  ChInv'
<1>1. CASE Ch!StartMsg
  <2>1. MaxSize + 1 \in Nat
    BY BaseChannelAssumption
  <2>2. PICK n \in 1..(MaxSize + 1) :
          \/ \E tail \in 0..1 : Ch!Start("send", "data", n, tail)
          \/ Ch!Start("connect", "ports", n, 1)
    BY <1>1 DEF Ch!StartMsg
  <2>3. n \in Nat \ {0} /\ 1 \in 0..1
    BY <2>1
  <2>4. CASE Ch!Start("connect", "ports", n, 1)
    BY <2>3, <2>4, StartKeeps
  <2>5. CASE \E tail \in 0..1 : Ch!Start("send", "data", n, tail)
    BY <2>3, <2>5, StartKeeps
  <2> QED  BY <2>2, <2>4, <2>5
<1>2. CASE Ch!SendChunk
  BY <1>2, SendChunkKeeps
<1>3. CASE Ch!CancelSend
  BY <1>3, CancelKeeps
<1>4. CASE Ch!DropSender
  BY <1>4, DropSenderKeeps
<1>5. ASSUME NEW op, Ch!RecvAny(op) PROVE ChInv'
  BY <1>5, RecvAnyKeeps
<1>6. CASE Ch!RecvChunk
  BY <1>6, RecvChunkKeeps
<1>7. CASE Ch!DiscardChunks
  BY <1>7, DiscardKeeps
<1> QED  BY <1>1, <1>2, <1>3, <1>4, <1>5, <1>6, <1>7 DEF Ch!Next

\* A message that the receiver has gone past is in the log, if it was completed.
LEMMA NothingIsLost == ChInv => Ch!NothingLost
<1> SUFFICES ASSUME ChInv, NEW id \in 1..Len(msgs), msgs[id].state = "done",
                    seen.id > id \/ (seen = Ch!Chunk(id, msgs[id].n) /\ ~Ch!InProgress) \/ finished
             PROVE  Logged(id)
  BY DEF Ch!NothingLost, Logged
<1>1. MsgsOK /\ ChanOK /\ ReceivingOK /\ LogOK
  BY DEF ChInv
<1>2. /\ seen.id \in 0..Len(msgs) /\ seen.id \in Nat /\ Len(msgs) \in Nat /\ id \in Nat \ {0}
      /\ seen.id > 0 => Sent(seen)
  BY <1>1, SeenFacts
<1>3. /\ msgs[id].n \in Nat \ {0} /\ msgs[id].sent = msgs[id].n
  BY <1>1, MsgTypes, MsgFacts
<1>4. CASE seen.id > id
  BY <1>1, <1>2, <1>4 DEF LogOK
<1>5. ASSUME seen.id = id, seen.last, ~Ch!InProgress PROVE Logged(id)
  <2>1. receiving.st \in {"nothing", "data", "requests", "chunks"}
    BY <1>1 DEF ReceivingOK, Receiving
  <2>2. CASE receiving.st = "nothing"
    BY <1>1, <1>2, <1>5, <2>2 DEF ReceivingOK, NothingOK
  <2>3. CASE receiving.st \in {"data", "requests"}
    BY <1>1, <1>5, <2>3 DEF ReceivingOK, BuffersOK
  <2>4. CASE receiving.st = "chunks"
    BY <1>1, <1>5, <2>4 DEF ReceivingOK, StreamOK
  <2> QED  BY <2>1, <2>2, <2>3, <2>4
<1>6. CASE seen = Ch!Chunk(id, msgs[id].n) /\ ~Ch!InProgress
  <2>1. msgs[id].n \in 1..msgs[id].n
    BY <1>3
  <2>2. seen.id = id /\ seen.last
    BY <1>1, <1>6, <2>1, ChunkFacts
  <2> QED  BY <1>5, <1>6, <2>2
<1>7. CASE finished
  <2>1. AtEnd(seen)
    BY <1>1, <1>7 DEF ChanOK, EndOK, Prior
  <2>2. ~(id > seen.id)
    BY <1>2, <1>3, <2>1 DEF AtEnd, Unsent
  <2>3. CASE seen.id = id
    <3>1. msgs[id].sent = seen.i
      BY <1>2, <2>1, <2>3 DEF AtEnd, Exhausted
    <3>2. seen.last
      <4>1. Sent(seen)
        BY <1>2, <2>3
      <4>2. seen.last = (seen.i = msgs[seen.id].n)
        BY <1>1, <4>1, SentFacts
      <4> QED  BY <1>3, <2>3, <3>1, <4>2
    <3>3. ~Ch!InProgress
      BY <1>1, <1>7 DEF ReceivingOK, StreamOK, Ch!InProgress
    <3> QED  BY <1>5, <2>3, <3>2, <3>3
  <2> QED  BY <1>2, <1>4, <2>2, <2>3
<1> QED  BY <1>4, <1>6, <1>7

LEMMA ChIntact == ChInv => MessagesIntact
  BY NothingIsLost DEF ChInv, LogOK, MessagesIntact

----------------------------------------------------------------------------
(* Items *)

LEMMA ItemTypes ==
    ASSUME ItemsOK, NEW k \in 1..Cur
    PROVE  /\ items[k] \in Item /\ Cur \in Nat
           /\ items[k].n \in Nat \ {0} /\ items[k].ports \in 0..MaxPorts /\ items[k].ports \in Nat
           /\ items[k].fault \in {"none", "ser", "odd"} /\ items[k].msg \in Nat
           /\ items[k].state \in {"data", "ports", "ok", "cancelled", "error"}
<1>1. items[k] \in Item
  BY DEF ItemsOK, Cur
<1>2. Cur \in Nat
  BY DEF ItemsOK, Cur
<1>3. MaxPorts \in Nat
  BY ChannelAssumption DEF Ch!FramingAssumption
<1> QED  BY <1>1, <1>2, <1>3 DEF Item

\* Items are in the order of their messages.
LEMMA ItemOrder ==
    ASSUME ItemsOK, NEW j \in 1..Cur, NEW k \in 1..Cur, items[j].msg > 0, items[k].msg > 0
    PROVE  /\ items[j].msg < items[k].msg <=> j < k
           /\ items[j].msg = items[k].msg => j = k
<1>1. items[j].msg \in Nat /\ items[k].msg \in Nat /\ Cur \in Nat
  BY ItemTypes
<1>2. /\ j < k => items[j].msg < items[k].msg
      /\ k < j => items[k].msg < items[j].msg
  BY DEF ItemsOK, Ascending
<1> QED  BY <1>1, <1>2

ItemsFound == \A k \in 1..Cur : items[k].msg > 0 => ItemOf(items[k].msg) = k

LEMMA ItemOfIs == ItemsOK => ItemsFound
<1> SUFFICES ASSUME ItemsOK, NEW k \in 1..Cur, items[k].msg > 0 PROVE ItemOf(items[k].msg) = k
  BY DEF ItemsFound
<1>1. ItemOf(items[k].msg) \in 1..Cur /\ items[ItemOf(items[k].msg)].msg = items[k].msg
  BY DEF ItemOf
<1> QED  BY <1>1, ItemOrder

\* The item of a data message.
LEMMA DataItem ==
    ASSUME MsgsOK, ItemsOK, NEW id \in 1..Len(msgs), msgs[id].kind = "data"
    PROVE  ItemOf(id) \in 1..Cur /\ items[ItemOf(id)].msg = id /\ id > 0
<1>1. id \in Nat \ {0}
  BY MsgTypes
<1>2. PICK k \in 1..Cur : items[k].msg = id
  BY DEF ItemsOK, MsgOK
<1>3. ItemOf(id) = k
  BY <1>1, <1>2, ItemOfIs DEF ItemsFound
<1> QED  BY <1>1, <1>2, <1>3

LEMMA ItemFacts ==
    ASSUME MsgsOK, ItemsOK, NEW k \in 1..Cur, items[k].msg > 0
    PROVE  /\ items[k].msg \in 1..Len(msgs) /\ DataOK(k) /\ ProgressOK(k)
           /\ msgs[items[k].msg].kind = "data"
           /\ msgs[items[k].msg].n = items[k].n + 1 - msgs[items[k].msg].tail
<1>1. items[k].msg \in Nat /\ Len(msgs) \in Nat
  BY ItemTypes DEF MsgsOK
<1>2. items[k].msg <= Len(msgs) /\ DataOK(k) /\ ProgressOK(k)
  BY <1>1 DEF ItemsOK, ItemOK
<1> QED  BY <1>1, <1>2 DEF DataOK

\* The data of an item whose send goes on or was successful has not been given up, and its
\* port requests neither.
LEMMA LiveFacts ==
    ASSUME MsgsOK, ItemsOK, NEW k \in 1..Cur, Live(k)
    PROVE  /\ items[k].msg \in 1..Len(msgs) /\ items[k].msg > 0
           /\ msgs[items[k].msg].state # "cancelled" /\ msgs[items[k].msg].kind = "data"
           /\ items[k].msg < Len(msgs) /\ items[k].ports > 0 =>
                HasPorts(k) /\ msgs[items[k].msg + 1].state # "cancelled"
           /\ ~Sending => msgs[items[k].msg].state = "done"
                          /\ (items[k].ports > 0 => HasPorts(k) /\ msgs[items[k].msg + 1].state = "done")
<1>1. items[k].msg \in Nat /\ Len(msgs) \in Nat /\ Cur \in Nat
  BY ItemTypes DEF MsgsOK
<1>2. items[k].msg # 0
  BY DEF ItemsOK, ItemOK, Live
<1>3. items[k].msg \in 1..Len(msgs) /\ ProgressOK(k) /\ msgs[items[k].msg].kind = "data"
  BY <1>1, <1>2, ItemFacts
<1>4. CASE items[k].state = "data"
  <2>1. k = Cur /\ items[k].msg = Len(msgs) /\ msgs[items[k].msg].state # "cancelled"
    BY <1>3, <1>4 DEF ProgressOK
  <2>2. Sending
    <3>1. items # <<>> /\ Last(items) = items[Cur]
      BY <1>1 DEF Cur, Last
    <3> QED  BY <1>4, <2>1, <3>1 DEF Sending
  <2> QED  BY <1>1, <1>3, <2>1, <2>2
<1>5. CASE items[k].state = "ports"
  <2>1. k = Cur /\ HasPorts(k) /\ items[k].msg + 1 = Len(msgs) /\ msgs[items[k].msg + 1].state # "cancelled"
    BY <1>3, <1>5 DEF ProgressOK
  <2>2. Sending
    <3>1. items # <<>> /\ Last(items) = items[Cur]
      BY <1>1 DEF Cur, Last
    <3> QED  BY <1>5, <2>1, <3>1 DEF Sending
  <2>3. msgs[items[k].msg].state = "done"
    <3>1. PICK id \in 1..Len(msgs) : id = items[k].msg + 1 /\ id - 1 = items[k].msg
      BY <1>1, <2>1
    <3>2. msgs[id].kind # "data" /\ MsgOK(id)
      BY <2>1, <3>1 DEF HasPorts, ItemsOK
    <3> QED  BY <3>1, <3>2 DEF MsgOK
  <2> QED  BY <1>1, <1>3, <2>1, <2>2, <2>3
<1>6. CASE items[k].state = "ok"
  <2>1. /\ msgs[items[k].msg].state = "done"
        /\ items[k].ports > 0 => HasPorts(k) /\ msgs[items[k].msg + 1].state = "done"
    BY <1>3, <1>6 DEF ProgressOK
  <2>2. items[k].msg > 0
    BY <1>1, <1>2
  <2>3. "done" # "cancelled"
    OBVIOUS
  <2> QED  BY <1>3, <2>1, <2>2, <2>3, Zenon
<1> QED  BY <1>4, <1>5, <1>6 DEF Live

\* An item all of whose data was sent was serialized.
LEMMA AllSent ==
    ASSUME MsgsOK, ItemsOK, NEW k \in 1..Cur, items[k].msg > 0,
           items[k].n <= msgs[items[k].msg].sent, items[k].fault # "odd", setup \in Setups
    PROVE  Serialized(k)
<1>1. DataOK(k) /\ items[k].msg \in 1..Len(msgs)
  BY ItemFacts
<1>2. items[k].n \in Nat /\ msgs[items[k].msg].sent \in Nat /\ items[k].fault \in {"none", "ser", "odd"}
  BY <1>1, ItemTypes, MsgTypes
<1>3. SendLimit \in Nat
  BY BaseChannelAssumption DEF SendLimit
<1> DEFINE n == items[k].n
           s == msgs[items[k].msg].sent
<1>4. /\ n \in Nat /\ s \in Nat /\ n <= s
      /\ items[k].fault = "ser" => s < n
      /\ n > SendLimit => s <= SendLimit
  BY <1>1, <1>2 DEF DataOK
<1>5. n <= SendLimit /\ items[k].fault # "ser" /\ s >= n
  <2> HIDE DEF n, s
  <2> QED  BY <1>3, <1>4
<1> QED  BY <1>2, <1>5 DEF Serialized

----------------------------------------------------------------------------
(* Sending items *)

\* The items of one step are those of the next, and a new one has a new message.
ItemsGrow ==
    /\ Len(items) <= Len(items')
    /\ \A k \in 1..Len(items) :
         /\ items'[k].n = items[k].n /\ items'[k].ports = items[k].ports
         /\ items'[k].fault = items[k].fault /\ items'[k].msg = items[k].msg
         /\ Live(k)' => Live(k)
    /\ \A k \in 1..Len(items') : k > Len(items) => ~Live(k)' \/ items'[k].msg > Len(msgs)

\* The receiver's part of the invariant depends on items and messages that stay the same.
LEMMA TaskStays ==
    ASSUME ChInv, ItemsOK, TaskOK, MsgsOK', MsgsGrow, ItemsOK', ItemsGrow,
           UNCHANGED <<setup, receiving, streaming, seen, parts, data, fed, item>>
    PROVE  TaskOK'
<1>1. MsgsOK /\ ChanOK
  BY DEF ChInv
<1>2. /\ Len(msgs) \in Nat /\ Len(items) \in Nat /\ Len(items') \in Nat
      /\ seen.id \in 0..Len(msgs) /\ (seen.id > 0 => Sent(seen))
  BY <1>1, SeenFacts DEF ItemsOK, MsgsOK
<1>3. \A k \in 1..Cur : k \in 1..Len(items')
  BY <1>2 DEF ItemsGrow, Cur
<1>4. ASSUME NEW id \in 1..Len(msgs), msgs[id].kind = "data"
      PROVE  /\ ItemOf(id)' = ItemOf(id) /\ ItemOf(id) \in 1..Cur
             /\ items'[ItemOf(id)].n = items[ItemOf(id)].n
             /\ items'[ItemOf(id)].fault = items[ItemOf(id)].fault
  <2>1. PICK k \in 1..Cur : k = ItemOf(id) /\ items[k].msg = id /\ id > 0
    BY <1>1, <1>4, DataItem
  <2>2. items'[k].msg = id /\ k \in 1..Len(items') /\ items'[k].n = items[k].n
        /\ items'[k].fault = items[k].fault
    BY <1>3, <2>1 DEF ItemsGrow, Cur
  <2>3. (ItemsOK => ItemsFound)'
    BY ItemOfIs, PTL
  <2>4. \A i \in 1..Len(items') : items'[i].msg > 0 => ItemOf(items[i].msg)' = i
    BY <2>3 DEF ItemsFound, Cur
  <2>5. ItemOf(items[k].msg)' = k
    BY <2>1, <2>2, <2>4
  <2>6. ItemOf(id)' = k
    BY <2>2, <2>5 DEF ItemOf
  <2> QED  BY <2>1, <2>2, <2>6
<1>5. ASSUME seen.id > 0, seen.kind = "data"
      PROVE  seen.id \in 1..Len(msgs) /\ msgs[seen.id].kind = "data" /\ seen.i \in 1..msgs[seen.id].n
  BY <1>1, <1>2, <1>5, SentFacts
<1>6. data = "exceeded" => (items[ItemOf(seen.id)].n > RecvLimit)'
  <2> SUFFICES ASSUME data = "exceeded" PROVE (items[ItemOf(seen.id)].n > RecvLimit)'
    OBVIOUS
  <2>1. receiving.st = "chunks" /\ items[ItemOf(seen.id)].n > RecvLimit
    BY DEF TaskOK
  <2>2. seen.id > 0 /\ seen.kind = "data"
    BY <2>1 DEF ChInv, ReceivingOK, StreamOK
  <2>3. PICK id \in 1..Len(msgs) : id = seen.id /\ msgs[id].kind = "data"
    BY <1>5, <2>2
  <2>4. items'[ItemOf(id)'].n = items[ItemOf(seen.id)].n
    BY <1>4, <2>3
  <2>5. ItemOf(seen.id)' = ItemOf(id)'
    BY <2>3 DEF ItemOf
  <2> QED  BY <2>1, <2>4, <2>5 DEF RecvLimit
<1>7. data = "fed" =>
        /\ receiving.st = "nothing" /\ seen.id > 0 /\ seen.kind = "data"
        /\ (\E j \in 1..seen.i : fed = Prefix(seen.id, j))'
        /\ (Whole(fed) \/ Undecodable(fed))'
  <2> SUFFICES ASSUME data = "fed"
               PROVE  /\ receiving.st = "nothing" /\ seen.id > 0 /\ seen.kind = "data"
                      /\ (\E j \in 1..seen.i : fed = Prefix(seen.id, j))'
                      /\ (Whole(fed) \/ Undecodable(fed))'
    OBVIOUS
  <2>1. receiving.st = "nothing" /\ seen.id > 0 /\ seen.kind = "data"
    BY DEF TaskOK
  <2>2. PICK j \in 1..seen.i : fed = Prefix(seen.id, j)
    BY DEF TaskOK
  <2>3. seen.id \in 1..Len(msgs) /\ msgs[seen.id].kind = "data" /\ seen.i \in 1..msgs[seen.id].n
    BY <1>5, <2>1
  <2>4. Prefix(seen.id, j)' = Prefix(seen.id, j)
    BY <2>3 DEF MsgsGrow, Prefix, Ch!Chunk
  <2>5. (\E i \in 1..seen.i : fed = Prefix(seen.id, i))'
    BY <2>2, <2>4
  <2>6. fed # <<>> /\ fed[1].id = seen.id
    <3>1. j \in 0..msgs[seen.id].n /\ 1 \in 1..j /\ 1 \in 1..msgs[seen.id].n /\ j \in Nat \ {0}
      BY <1>1, <2>3, MsgTypes
    <3>2. fed \in Seq(AChunk) /\ Len(fed) = j /\ fed[1] = Ch!Chunk(seen.id, 1)
      BY <1>1, <2>2, <2>3, <3>1, PrefixFacts
    <3>3. fed[1].id = seen.id
      BY <1>1, <2>3, <3>1, <3>2, ChunkFacts
    <3> QED  BY <3>1, <3>2, <3>3
  <2>7. CASE Whole(fed)
    <3>1. PICK k \in 1..Cur : items[k].msg > 0
             /\ Bytes(fed) = [i \in 1..items[k].n |-> Ch!Chunk(items[k].msg, i)]
      BY <2>7 DEF Whole
    <3>2. k \in 1..Len(items') /\ items'[k].msg = items[k].msg /\ items'[k].n = items[k].n
      BY <1>3, <3>1 DEF ItemsGrow, Cur
    <3>3. items[k].msg \in 1..Len(msgs)
      BY <1>1, <3>1, ItemFacts
    <3>4. \A i : Ch!Chunk(items[k].msg, i)' = Ch!Chunk(items[k].msg, i)
      BY <3>2, <3>3 DEF MsgsGrow, Ch!Chunk
    <3>5. Bytes(fed)' = Bytes(fed)
      BY DEF Bytes
    <3>6. Bytes(fed)' = [i \in 1..items'[k].n |-> Ch!Chunk(items[k].msg, i)']
      BY <3>1, <3>2, <3>4, <3>5
    <3>7. Whole(fed)'
      BY <3>1, <3>2, <3>6 DEF Whole, Cur
    <3> QED  BY <2>1, <2>5, <3>7
  <2>8. CASE Undecodable(fed)
    <3>1. PICK id \in 1..Len(msgs) : id = seen.id /\ msgs[id].kind = "data"
      BY <2>3
    <3>2. items'[ItemOf(id)'].fault = items[ItemOf(id)].fault
      BY <1>4, <3>1
    <3>3. ItemOf(fed[1].id)' = ItemOf(id)' /\ ItemOf(fed[1].id) = ItemOf(id)
      BY <2>6, <3>1 DEF ItemOf
    <3>4. items'[ItemOf(fed[1].id)'].fault = "odd"
      BY <2>8, <3>2, <3>3 DEF Undecodable
    <3>5. Undecodable(fed)'
      BY <2>6, <3>4 DEF Undecodable
    <3> QED  BY <2>1, <2>5, <3>5
  <2>9. Whole(fed) \/ Undecodable(fed)
    BY DEF TaskOK
  <2> QED  BY <2>7, <2>8, <2>9
<1>8. Ch!InProgress' <=> Ch!InProgress
  BY DEF Ch!InProgress
<1> QED  BY <1>6, <1>7, <1>8 DEF TaskOK, threads

LEMMA OutcomesStay ==
    ASSUME ChInv, ItemsOK, WaitingOK, OutcomesOK, NoneForgotten, MsgsOK', MsgsGrow, ItemsOK', ItemsGrow,
           UNCHANGED <<setup, receiving, seen, data, item, got>>
    PROVE  WaitingOK' /\ OutcomesOK' /\ NoneForgotten'
<1>1. MsgsOK /\ ChanOK
  BY DEF ChInv
<1>2. /\ Len(msgs) \in Nat /\ Len(msgs') \in Nat /\ Len(items) \in Nat /\ Len(items') \in Nat
      /\ seen.id \in 0..Len(msgs) /\ Len(msgs) <= Len(msgs')
      /\ \A id \in 1..Len(msgs') : msgs'[id].sent \in Nat
  <2>1. (MsgsOK => MsgsTyped)'
    BY MsgsAreTyped, PTL
  <2> QED  BY <1>1, <2>1, SeenFacts DEF ItemsOK, MsgsOK, MsgsGrow, MsgsTyped
<1>3. ASSUME NEW k \in 1..Cur
      PROVE  /\ k \in 1..Len(items') /\ items'[k].n = items[k].n /\ items'[k].ports = items[k].ports
             /\ items'[k].fault = items[k].fault /\ items'[k].msg = items[k].msg
             /\ Live(k)' => Live(k)
  <2>1. k \in 1..Len(items')
    BY <1>2 DEF ItemsGrow, Cur
  <2> QED  BY <2>1 DEF ItemsGrow, Cur
<1>4. ASSUME NEW id \in 1..Len(msgs)
      PROVE  /\ id \in 1..Len(msgs') /\ msgs'[id].kind = msgs[id].kind
             /\ msgs[id].state \in {"done", "cancelled"} => msgs'[id].state = msgs[id].state
             /\ msgs[id].sent <= msgs'[id].sent /\ msgs[id].sent \in Nat /\ msgs'[id].sent \in Nat
  <2>1. id \in 1..Len(msgs')
    BY <1>2
  <2>2. msgs[id].sent \in Nat
    BY <1>1, MsgTypes
  <2>3. msgs'[id].sent \in Nat
    BY <1>2, <2>1
  <2> QED  BY <2>1, <2>2, <2>3 DEF MsgsGrow
<1>5. ASSUME NEW k \in 1..Cur, items[k].msg > 0, items[k].n <= msgs[items[k].msg].sent
      PROVE  items'[k].n <= msgs'[items'[k].msg].sent
  <2>1. items[k].msg \in 1..Len(msgs) /\ items[k].n \in Nat
    BY <1>1, <1>5, ItemFacts, ItemTypes
  <2>2. PICK id \in 1..Len(msgs) : id = items[k].msg
    BY <2>1
  <2>3. /\ msgs[id].sent <= msgs'[id].sent /\ msgs[id].sent \in Nat /\ msgs'[id].sent \in Nat
        /\ items[k].n <= msgs[id].sent /\ items'[k].n = items[k].n /\ items'[k].msg = id
    BY <1>3, <1>4, <1>5, <2>2
  <2>4. items[k].n <= msgs'[id].sent
    BY <2>1, <2>3
  <2> QED  BY <2>3, <2>4
<1>6. WaitingOK'
  <2> SUFFICES ASSUME item # 0 PROVE WaitingOK'
    BY DEF WaitingOK
  <2>1. /\ item \in 1..Cur /\ items[item].msg \in 1..seen.id /\ items[item].ports > 0
        /\ Serialized(item)
        /\ items[item].msg = seen.id => receiving.st = "nothing"
        /\ \A id \in (items[item].msg + 1)..seen.id :
             \/ msgs[id].state = "cancelled"
             \/ id = seen.id /\ receiving.st \in {"data", "requests"}
        /\ \A i \in 1..Len(got) : got[i].item < item
    BY DEF WaitingOK
  <2>2. items'[item].msg = items[item].msg /\ items'[item].ports = items[item].ports /\ item \in 1..Len(items')
    BY <1>3, <2>1
  <2>3. Serialized(item)'
    <3>1. items[item].msg > 0 /\ items[item].n <= msgs[items[item].msg].sent
      <4>1. items[item].msg \in Nat /\ items[item].n \in Nat
        BY <2>1, ItemTypes
      <4>2. items[item].msg > 0 /\ items[item].msg \in 1..Len(msgs)
        BY <1>2, <2>1, <4>1
      <4>3. msgs[items[item].msg].sent \in Nat
        BY <1>1, <4>2, MsgTypes
      <4> QED  BY <2>1, <4>1, <4>2, <4>3 DEF Serialized
    <3>2. items'[item].n <= msgs'[items'[item].msg].sent
      BY <1>5, <2>1, <3>1
    <3>3. msgs'[items'[item].msg].sent \in Nat /\ items'[item].n \in Nat
      <4>1. items[item].msg \in 1..Len(msgs) /\ items[item].n \in Nat
        BY <1>1, <2>1, <3>1, ItemFacts, ItemTypes
      <4> QED  BY <1>3, <1>4, <2>1, <2>2, <4>1
    <3>4. msgs'[items'[item].msg].sent >= items'[item].n
      BY <3>2, <3>3
    <3> QED  BY <1>3, <2>1, <3>4 DEF Serialized, SendLimit
  <2>4. ASSUME NEW id \in (items[item].msg + 1)..seen.id
        PROVE  \/ msgs'[id].state = "cancelled"
               \/ id = seen.id /\ receiving.st \in {"data", "requests"}
    <3>1. id \in 1..Len(msgs)
      <4>1. items[item].msg \in Nat
        BY <2>1, ItemTypes
      <4> DEFINE a == items[item].msg
                 b == seen.id
                 l == Len(msgs)
      <4>2. a \in Nat /\ l \in Nat /\ b \in 0..l /\ id \in (a + 1)..b
        BY <1>2, <4>1
      <4> HIDE DEF a, b, l
      <4>3. id \in 1..l
        BY <4>2
      <4> QED  BY <4>3 DEF l
    <3> QED  BY <1>4, <2>1, <3>1
  <2> QED  BY <2>1, <2>2, <2>3, <2>4 DEF WaitingOK, Cur
<1>7. OutcomesOK'
  <2>1. /\ got \in Seq([item : Nat, how : {"item", "error"}])
        /\ \A i \in 1..Len(got) :
             /\ got[i].item \in 1..Cur /\ items[got[i].item].msg \in 1..seen.id
             /\ Working => items[got[i].item].msg < seen.id
        /\ \A i, j \in 1..Len(got) : i < j => got[i].item < got[j].item
        /\ ErrorsForReason /\ DeliveredComplete
    BY DEF OutcomesOK
  <2>2. Working' <=> Working
    BY DEF Working
  <2>3. \A i \in 1..Len(got) :
             /\ got[i].item \in 1..Len(items') /\ items'[got[i].item].msg \in 1..seen.id
             /\ Working => items'[got[i].item].msg < seen.id
    BY <1>3, <2>1
  <2>4. ErrorsForReason'
    BY <1>3, <2>1 DEF ErrorsForReason, RecvLimit, threads
  <2>5. DeliveredComplete'
    <3> SUFFICES ASSUME NEW i \in 1..Len(got), got[i].how = "item", NEW k \in 1..Cur, k = got[i].item
                 PROVE  /\ items'[k].fault = "none" /\ items'[k].n <= SendLimit'
                        /\ msgs'[items'[k].msg].sent >= items'[k].n
                        /\ items'[k].ports > 0 =>
                             /\ items'[k].msg + 1 <= Len(msgs')
                             /\ msgs'[items'[k].msg + 1].kind = "ports"
                             /\ msgs'[items'[k].msg + 1].state = "done"
      BY <2>1 DEF DeliveredComplete
    <3>1. /\ items[k].fault = "none" /\ items[k].n <= SendLimit
          /\ msgs[items[k].msg].sent >= items[k].n
          /\ items[k].ports > 0 =>
               /\ items[k].msg + 1 <= Len(msgs)
               /\ msgs[items[k].msg + 1].kind = "ports" /\ msgs[items[k].msg + 1].state = "done"
      BY <2>1 DEF DeliveredComplete
    <3>2. items[k].msg \in Nat \ {0} /\ items[k].msg \in 1..Len(msgs) /\ items[k].n \in Nat
          /\ msgs[items[k].msg].sent \in Nat
      <4>1. items[k].msg \in Nat /\ items[k].n \in Nat /\ items[k].msg \in 1..seen.id
        BY <2>1, ItemTypes
      <4>2. items[k].msg \in 1..Len(msgs) /\ items[k].msg # 0
        <5> DEFINE a == items[k].msg
                   b == seen.id
                   l == Len(msgs)
        <5>1. a \in Nat /\ l \in Nat /\ b \in 0..l /\ a \in 1..b
          BY <1>2, <4>1
        <5> HIDE DEF a, b, l
        <5>2. a \in 1..l /\ a # 0
          BY <5>1
        <5> QED  BY <5>2 DEF a, l
      <4> QED  BY <1>4, <4>1, <4>2
    <3>3. items'[k].n <= msgs'[items'[k].msg].sent
      <4> DEFINE n == items[k].n
                 s == msgs[items[k].msg].sent
      <4>1. n \in Nat /\ s \in Nat /\ s >= n
        BY <3>1, <3>2
      <4> HIDE DEF n, s
      <4>2. n <= s
        BY <4>1
      <4>3. items[k].n <= msgs[items[k].msg].sent
        BY <4>2 DEF n, s
      <4>4. items[k].msg > 0
        BY <3>2
      <4> QED  BY <1>5, <4>3, <4>4
    <3>4. msgs'[items'[k].msg].sent \in Nat /\ items'[k].n \in Nat
      BY <1>3, <1>4, <3>2
    <3>5. msgs'[items'[k].msg].sent >= items'[k].n
      BY <3>3, <3>4
    <3>6. ASSUME items[k].ports > 0
          PROVE  /\ items[k].msg + 1 <= Len(msgs')
                 /\ msgs'[items[k].msg + 1].kind = "ports"
                 /\ msgs'[items[k].msg + 1].state = "done"
      <4>1. items[k].msg + 1 \in 1..Len(msgs)
        <5> DEFINE a == items[k].msg
                   l == Len(msgs)
        <5>1. a \in Nat /\ l \in Nat /\ a + 1 <= l
          BY <1>2, <3>1, <3>2, <3>6
        <5> HIDE DEF a, l
        <5>2. a + 1 \in 1..l
          BY <5>1
        <5> QED  BY <5>2 DEF a, l
      <4>2. items[k].msg + 1 \in 1..Len(msgs')
        BY <1>4, <4>1
      <4>3. /\ msgs'[items[k].msg + 1].kind = "ports"
            /\ msgs'[items[k].msg + 1].state = "done"
        BY <1>4, <3>1, <3>6, <4>1
      <4> QED  BY <1>2, <4>2, <4>3
    <3> QED  BY <1>3, <3>1, <3>5, <3>6 DEF SendLimit
  <2> QED  BY <2>1, <2>2, <2>3, <2>4, <2>5 DEF OutcomesOK, Cur
<1>8. NoneForgotten'
  <2> SUFFICES ASSUME NEW k \in 1..Len(items'), Live(k)'
               PROVE  \/ Handled(k) \/ item = k \/ seen.id < items'[k].msg
                      \/ seen.id = items'[k].msg /\ Working
    BY DEF NoneForgotten, Handled, Working, Cur
  <2>1. CASE k \in 1..Len(items)
    BY <1>3, <2>1 DEF NoneForgotten, Cur
  <2>2. CASE k > Len(items)
    <3>1. items'[k].msg > Len(msgs)
      BY <2>2 DEF ItemsGrow
    <3>2. items'[k].msg \in Nat
      <4>1. items' \in Seq(Item)
        BY DEF ItemsOK
      <4>2. items'[k] \in Item
        BY <4>1
      <4> QED  BY <4>2 DEF Item
    <3> QED  BY <1>2, <3>1, <3>2
  <2> QED  BY <1>2, <2>1, <2>2
<1> QED  BY <1>6, <1>7, <1>8

LEMMA SendingIs ==
    items \in Seq(Item) =>
        (Sending <=> Len(items) > 0 /\ items[Len(items)].state \in {"data", "ports"})
<1> SUFFICES ASSUME items \in Seq(Item)
             PROVE  Sending <=> Len(items) > 0 /\ items[Len(items)].state \in {"data", "ports"}
  OBVIOUS
<1>1. items # <<>> <=> Len(items) > 0
  OBVIOUS
<1> QED  BY <1>1 DEF Sending, Last

\* An item other than the one being sent.
LEMMA OldState ==
    ASSUME ItemsOK, MsgsOK, NEW k \in 1..Cur, k # Cur \/ ~Sending
    PROVE  items[k].state \in {"ok", "cancelled", "error"}
<1>1. items[k].state \in {"data", "ports", "ok", "cancelled", "error"} /\ Cur \in Nat
  BY ItemTypes
<1>2. ASSUME items[k].state \in {"data", "ports"} PROVE FALSE
  <2>1. items[k].msg # 0 /\ ProgressOK(k)
    BY <1>2 DEF ItemsOK, ItemOK
  <2>2. k = Cur
    BY <1>2, <2>1 DEF ProgressOK
  <2>3. Sending
    BY <1>1, <1>2, <2>2, SendingIs DEF ItemsOK, Cur
  <2> QED  BY <2>2, <2>3
<1> QED  BY <1>1, <1>2

\* Only the message being sent goes on, which is the one of the item being sent.
LEMMA OldSent ==
    ASSUME ItemsOK, MsgsOK, MsgsGrow, NEW k \in 1..Cur, items[k].msg > 0, k # Cur \/ ~Ch!Sending
    PROVE  msgs'[items[k].msg].sent = msgs[items[k].msg].sent
<1>1. items[k].msg \in 1..Len(msgs) /\ Cur \in Nat /\ Len(msgs) \in Nat /\ items[k].msg \in Nat
  BY ItemFacts, ItemTypes DEF MsgsOK
<1>2. msgs[items[k].msg].state # "sending"
  <2> SUFFICES ASSUME msgs[items[k].msg].state = "sending" PROVE FALSE
    OBVIOUS
  <2>1. items[k].msg = Len(msgs)
    BY <1>1 DEF MsgsOK
  <2>2. msgs # <<>> /\ Ch!Sending
    BY <1>1, <2>1 DEF Ch!Sending, Ch!Last, Last
  <2>3. k # Cur /\ Sending
    BY <2>2 DEF ItemsOK
  <2>4. Cur \in 1..Cur /\ items[Cur].state \in {"data", "ports"}
    BY <1>1, <2>3, SendingIs DEF ItemsOK, Cur
  <2>5. items[Cur].msg # 0 /\ items[Cur].msg \in Nat
    BY <2>4, ItemTypes DEF ItemsOK, ItemOK
  <2>6. items[Cur].msg \in 1..Len(msgs)
    BY <2>4, <2>5, ItemFacts
  <2>7. k < Cur
    BY <1>1, <2>3
  <2>8. items[k].msg < items[Cur].msg
    BY <2>4, <2>5, <2>7 DEF ItemsOK, Ascending
  <2> QED  BY <1>1, <2>1, <2>5, <2>6, <2>8
<1> QED  BY <1>1, <1>2 DEF MsgsGrow

LEMMA ItemStays ==
    ASSUME ItemsOK, MsgsOK, MsgsOK', MsgsGrow, setup' = setup, NEW k \in 1..Cur,
           items'[k].n = items[k].n, items'[k].ports = items[k].ports, items'[k].fault = items[k].fault,
           items'[k].msg = items[k].msg,
           items[k].msg > 0 => msgs'[items[k].msg].sent = msgs[items[k].msg].sent,
           \/ items'[k].state = "error"
           \/ items'[k].state = "cancelled" /\ items[k].state # "error"
           \/ items'[k].state = items[k].state /\ items[k].state \in {"ok", "cancelled"}
    PROVE  ItemOK(k)'
<1>1. items[k].msg \in Nat /\ Len(msgs) \in Nat /\ Len(msgs) <= Len(msgs') /\ Len(msgs') \in Nat
  BY ItemTypes DEF MsgsOK, MsgsGrow
<1>2. CASE items[k].msg = 0
  <2>1. items[k].state = "error"
    BY <1>2 DEF ItemsOK, ItemOK
  <2> QED  BY <1>2, <2>1 DEF ItemOK
<1>3. CASE items[k].msg # 0
  <2>1. items[k].msg \in 1..Len(msgs) /\ DataOK(k) /\ ProgressOK(k)
    BY <1>1, <1>3, ItemFacts
  <2>2. PICK id \in 1..Len(msgs) : id = items[k].msg /\ id > 0
    BY <1>1, <1>3, <2>1
  <2>3. /\ msgs'[id].sent = msgs[id].sent /\ msgs'[id].kind = msgs[id].kind
        /\ msgs'[id].n = msgs[id].n /\ msgs'[id].tail = msgs[id].tail /\ items'[k].msg = id
    BY <2>2 DEF MsgsGrow
  <2>4. DataOK(k)'
    BY <2>1, <2>2, <2>3 DEF DataOK, SendLimit
  <2>5. ProgressOK(k)'
    <3>1. CASE items'[k].state \in {"error", "cancelled"}
      BY <3>1 DEF ProgressOK
    <3>2. CASE items'[k].state = "ok" /\ items[k].state = "ok"
      <4>1. msgs[id].state = "done" /\ (items[k].ports > 0 => HasPorts(k) /\ msgs[id + 1].state = "done")
        BY <2>1, <2>2, <3>2 DEF ProgressOK
      <4>2. msgs'[id].state = "done"
        BY <4>1 DEF MsgsGrow
      <4>3. ASSUME items[k].ports > 0
            PROVE  HasPorts(k)' /\ msgs'[id + 1].state = "done"
        <5>1. id + 1 <= Len(msgs) /\ msgs[id + 1].kind = "ports" /\ msgs[id + 1].state = "done"
          BY <2>2, <4>1, <4>3 DEF HasPorts
        <5>2. id + 1 \in 1..Len(msgs) /\ id + 1 <= Len(msgs')
          <6> DEFINE l == Len(msgs)
                     m == Len(msgs')
          <6>1. l \in Nat /\ m \in Nat /\ l <= m /\ id \in 1..l /\ id + 1 <= l
            BY <1>1, <2>2, <5>1
          <6> HIDE DEF l, m
          <6>2. id + 1 \in 1..l /\ id + 1 <= m
            BY <6>1
          <6> QED  BY <6>2 DEF l, m
        <5>3. msgs'[id + 1].kind = "ports" /\ msgs'[id + 1].state = "done"
          BY <5>1, <5>2 DEF MsgsGrow
        <5> QED  BY <2>3, <5>2, <5>3 DEF HasPorts
      <4> QED  BY <2>3, <3>2, <4>2, <4>3 DEF ProgressOK
    <3> QED  BY <3>1, <3>2
  <2>6. id <= Len(msgs')
    BY <1>1, <2>2
  <2> QED  BY <2>3, <2>4, <2>5, <2>6 DEF ItemOK
<1> QED  BY <1>2, <1>3

LEMMA MsgsBelong ==
    ASSUME ItemsOK, MsgsOK, MsgsGrow, Len(items') \in Nat, Len(items) <= Len(items'),
           \A k \in 1..Len(items) : items'[k].msg = items[k].msg, NEW id \in 1..Len(msgs)
    PROVE  MsgOK(id)'
<1>1. MsgOK(id) /\ msgs'[id].kind = msgs[id].kind /\ msgs'[id].n = msgs[id].n
  BY DEF ItemsOK, MsgsGrow
<1>2. CASE msgs[id].kind = "data"
  <2>1. PICK k \in 1..Cur : items[k].msg = id
    BY <1>1, <1>2 DEF MsgOK
  <2>2. k \in 1..Len(items') /\ items'[k].msg = id
    BY <2>1 DEF Cur, ItemsOK
  <2> QED  BY <1>1, <1>2, <2>2 DEF MsgOK, Cur
<1>3. CASE msgs[id].kind # "data"
  <2>1. id > 1 /\ msgs[id - 1].kind = "data" /\ msgs[id - 1].state = "done" /\ msgs[id].n <= MaxPorts
    BY <1>1, <1>3 DEF MsgOK
  <2>2. id - 1 \in 1..Len(msgs)
    BY <2>1 DEF MsgsOK
  <2>3. msgs'[id - 1].kind = "data" /\ msgs'[id - 1].state = "done"
    BY <2>1, <2>2 DEF MsgsGrow
  <2> QED  BY <1>1, <1>3, <2>1, <2>3 DEF MsgOK
<1> QED  BY <1>2, <1>3

\* The state of the last item is set.
LEMMA StateSet ==
    ASSUME ItemsOK, Sending, NEW st \in {"ports", "ok", "cancelled", "error"}, SetState(st)
    PROVE  /\ Len(items') = Len(items) /\ items' \in Seq(Item) /\ Cur \in 1..Cur /\ Cur' = Cur
           /\ Len(items) \in Nat
           /\ \A k \in 1..Cur :
                /\ items'[k].n = items[k].n /\ items'[k].ports = items[k].ports
                /\ items'[k].fault = items[k].fault /\ items'[k].msg = items[k].msg
                /\ k # Cur => items'[k].state = items[k].state
           /\ items'[Cur].state = st /\ items[Cur].state \in {"data", "ports"} /\ items[Cur].msg > 0
<1>1. items \in Seq(Item) /\ items # <<>>
  BY DEF ItemsOK, Sending
<1>2. PICK m \in Item : /\ m = [items[Cur] EXCEPT !.state = st]
                        /\ m.n = items[Cur].n /\ m.ports = items[Cur].ports /\ m.fault = items[Cur].fault
                        /\ m.msg = items[Cur].msg /\ m.state = st
  <2>1. items[Cur] \in Item
    BY <1>1 DEF Cur
  <2> DEFINE x == [items[Cur] EXCEPT !.state = st]
  <2>2. /\ x \in Item /\ x.n = items[Cur].n /\ x.ports = items[Cur].ports
        /\ x.fault = items[Cur].fault /\ x.msg = items[Cur].msg /\ x.state = st
    BY <2>1 DEF Item
  <2> HIDE DEF x
  <2>3. x = [items[Cur] EXCEPT !.state = st]
    BY DEF x
  <2> QED  BY <2>2, <2>3
<1>3. items' = [items EXCEPT ![Len(items)] = m]
  BY <1>2 DEF SetState, Cur
<1>4. /\ Len(items) \in 1..Len(items) /\ Len(items) \in Nat \ {0}
      /\ items' \in Seq(Item) /\ Len(items') = Len(items) /\ items'[Len(items)] = m
      /\ \A k \in 1..Len(items) : k # Len(items) => items'[k] = items[k]
  BY <1>1, <1>2, <1>3, ReplaceLast
<1>5. ASSUME NEW k \in 1..Cur
      PROVE  /\ items'[k].n = items[k].n /\ items'[k].ports = items[k].ports
             /\ items'[k].fault = items[k].fault /\ items'[k].msg = items[k].msg
             /\ k # Cur => items'[k].state = items[k].state
  <2>1. CASE k = Cur
    BY <1>2, <1>4, <2>1 DEF Cur
  <2>2. CASE k # Cur
    BY <1>4, <2>2 DEF Cur
  <2> QED  BY <2>1, <2>2
<1>6. items[Cur].state \in {"data", "ports"}
  BY <1>1, SendingIs DEF Cur
<1>7. items[Cur].msg > 0
  <2>1. Cur \in 1..Cur
    BY <1>4 DEF Cur
  <2>2. items[Cur].msg # 0 /\ items[Cur].msg \in Nat
    BY <1>6, <2>1, ItemTypes DEF ItemsOK, ItemOK
  <2> QED  BY <2>2
<1> QED  BY <1>2, <1>4, <1>5, <1>6, <1>7 DEF Cur

\* The invariant after a step of the sender, from that of its own state.
LEMMA SenderStep ==
    ASSUME IInv, ~setup.bin, setup' = setup, ChInv', MsgsGrow, ItemsOK', ItemsGrow,
           UNCHANGED <<receiving, streaming, seen, parts, finished>>, UNCHANGED rxVars
    PROVE  IInv'
<1>1. ChInv /\ ItemsOK /\ TaskOK /\ WaitingOK /\ OutcomesOK /\ NoneForgotten /\ setup \in Setups
      /\ ended \in BOOLEAN /\ (ended => finished /\ item = 0 /\ data = "none")
  BY DEF IInv, ItemInv
<1>2. MsgsOK'
  BY DEF ChInv
<1>3. data' = data /\ fed' = fed /\ item' = item /\ got' = got /\ ended' = ended
  BY DEF rxVars
<1>4. TaskOK'
  BY <1>1, <1>2, <1>3, TaskStays
<1>5. WaitingOK' /\ OutcomesOK' /\ NoneForgotten'
  BY <1>1, <1>2, <1>3, OutcomesStay
<1> QED  BY <1>1, <1>3, <1>4, <1>5 DEF IInv, ItemInv

\* The send of an item goes on to its ports or ends.
LEMMA SetStateKeeps ==
    ASSUME ItemsOK, MsgsOK, MsgsOK', MsgsGrow, Sending, setup' = setup,
           NEW st \in {"ports", "ok", "cancelled", "error"}, SetState(st), ItemOK(Cur)',
           \A id \in 1..Len(msgs') : id > Len(msgs) => MsgOK(id)',
           Ch!Sending' => st = "ports", closed' => st # "ports"
    PROVE  ItemsOK' /\ ItemsGrow
<1>1. /\ Len(items') = Len(items) /\ items' \in Seq(Item) /\ Cur \in 1..Cur /\ Cur' = Cur
      /\ Len(items) \in Nat /\ Len(msgs) \in Nat /\ Len(msgs') \in Nat
      /\ \A k \in 1..Cur :
           /\ items'[k].n = items[k].n /\ items'[k].ports = items[k].ports
           /\ items'[k].fault = items[k].fault /\ items'[k].msg = items[k].msg
           /\ k # Cur => items'[k].state = items[k].state
      /\ items'[Cur].state = st /\ items[Cur].state \in {"data", "ports"}
  BY StateSet DEF MsgsOK
<1>2. ASSUME NEW k \in 1..Cur PROVE ItemOK(k)'
  <2>1. CASE k = Cur
    <3>1. ItemOK(Cur)'
      OBVIOUS
    <3> QED  BY <1>1, <2>1, <3>1 DEF ItemOK, DataOK, ProgressOK, HasPorts
  <2>2. CASE k # Cur
    <3>1. items[k].state \in {"ok", "cancelled", "error"}
      BY <2>2, OldState
    <3>2. items[k].msg > 0 => msgs'[items[k].msg].sent = msgs[items[k].msg].sent
      BY <2>2, OldSent
    <3>3. /\ items'[k].n = items[k].n /\ items'[k].ports = items[k].ports
          /\ items'[k].fault = items[k].fault /\ items'[k].msg = items[k].msg
          /\ items'[k].state = items[k].state
      BY <1>1, <2>2
    <3> QED  BY <3>1, <3>2, <3>3, ItemStays
  <2> QED  BY <2>1, <2>2
<1>3. \A id \in 1..Len(msgs') : MsgOK(id)'
  <2> SUFFICES ASSUME NEW id \in 1..Len(msgs') PROVE MsgOK(id)'
    OBVIOUS
  <2>1. CASE id \in 1..Len(msgs)
    BY <1>1, <2>1, MsgsBelong DEF Cur
  <2>2. CASE id > Len(msgs)
    BY <2>2
  <2> QED  BY <1>1, <2>1, <2>2
<1>4. Ascending'
  BY <1>1 DEF ItemsOK, Ascending
<1>5. Sending' <=> st = "ports"
  <2>1. (items \in Seq(Item) =>
            (Sending <=> Len(items) > 0 /\ items[Len(items)].state \in {"data", "ports"}))'
    BY SendingIs, PTL
  <2> QED  BY <1>1, <2>1 DEF Cur
<1>6. ItemsOK'
  BY <1>1, <1>2, <1>3, <1>4, <1>5 DEF ItemsOK
<1>7. ItemsGrow
  <2>1. \A k \in 1..Len(items) : Live(k)' => Live(k)
    BY <1>1 DEF Live, Cur
  <2>2. \A k \in 1..Len(items') : ~(k > Len(items))
    BY <1>1
  <2>3. Len(items) <= Len(items')
    BY <1>1
  <2> QED  BY <1>1, <2>1, <2>2, <2>3 DEF ItemsGrow, Cur
<1> QED  BY <1>6, <1>7

\* An item is added.
LEMMA NewItemKeeps ==
    ASSUME ItemsOK, MsgsOK, MsgsOK', MsgsGrow, setup' = setup, closed' = closed,
           NEW n \in Nat \ {0}, NEW ports \in 0..MaxPorts, NEW fault \in {"none", "ser", "odd"},
           NEW st \in {"data", "error"}, NewItem(n, ports, fault, st),
           \/ st = "error" /\ msgs' = msgs
           \/ /\ st = "data" /\ Len(msgs') = Len(msgs) + 1
              /\ msgs'[Len(msgs')].kind = "data" /\ msgs'[Len(msgs')].sent = 0
              /\ msgs'[Len(msgs')].state = "sending"
              /\ msgs'[Len(msgs')].n = n + 1 - msgs'[Len(msgs')].tail
              /\ fault = "ser" \/ n > SendLimit => msgs'[Len(msgs')].tail = 0,
           SendLimit \in Nat
    PROVE  ItemsOK' /\ ItemsGrow
<1> DEFINE e == [n |-> n, ports |-> ports, fault |-> fault, state |-> st,
                 msg |-> IF st = "data" THEN Len(msgs') ELSE 0]
<1>1. ~Sending /\ ~closed /\ items' = Append(items, e) /\ ~Ch!Sending
  BY DEF NewItem, ItemsOK
<1>2. Len(msgs) \in Nat /\ Len(msgs') \in Nat /\ items \in Seq(Item)
  BY DEF MsgsOK, ItemsOK
<1>3. e \in Item /\ e.n = n /\ e.ports = ports /\ e.fault = fault /\ e.state = st
      /\ (st = "data" => e.msg = Len(msgs')) /\ (st = "error" => e.msg = 0)
  BY <1>2 DEF Item
<1> HIDE DEF e
<1>4. /\ items' \in Seq(Item) /\ Len(items') = Len(items) + 1 /\ items'[Len(items) + 1] = e
      /\ \A k \in 1..Len(items) : items'[k] = items[k]
      /\ Len(items) \in Nat
  BY <1>1, <1>2, <1>3, Appended
<1>5. ASSUME NEW k \in 1..Cur PROVE ItemOK(k)'
  <2>1. items[k].state \in {"ok", "cancelled", "error"}
    BY <1>1, OldState
  <2>2. items[k].msg > 0 => msgs'[items[k].msg].sent = msgs[items[k].msg].sent
    BY <1>1, OldSent
  <2>3. items'[k] = items[k]
    BY <1>4 DEF Cur
  <2> QED  BY <2>1, <2>2, <2>3, ItemStays
<1>6. PICK c \in Nat : c = Len(items) + 1 /\ c = Len(items') /\ items'[c] = e
  BY <1>4
<1>7. ItemOK(c)'
  <2>1. CASE st = "error"
    BY <1>3, <1>6, <2>1 DEF ItemOK
  <2>2. CASE st = "data"
    <3>1. PICK m : m = msgs'[Len(msgs')]
      OBVIOUS
    <3>2. /\ m.kind = "data" /\ m.sent = 0 /\ m.state = "sending" /\ m.n = n + 1 - m.tail
          /\ fault = "ser" \/ n > SendLimit => m.tail = 0
      BY <2>2, <3>1
    <3>3. /\ items'[c].msg = Len(msgs') /\ items'[c].n = n /\ items'[c].fault = fault
          /\ items'[c].state = "data" /\ msgs'[items'[c].msg] = m /\ Len(msgs') # 0
      BY <1>2, <1>3, <1>6, <2>2, <3>1
    <3>4. 0 < n /\ 0 <= SendLimit
      OBVIOUS
    <3>5. DataOK(c)'
      BY <3>2, <3>3, <3>4 DEF DataOK, SendLimit
    <3>6. ProgressOK(c)'
      BY <1>6, <3>2, <3>3 DEF ProgressOK, Cur
    <3>7. Len(msgs') <= Len(msgs')
      BY <1>2
    <3> QED  BY <3>3, <3>5, <3>6, <3>7 DEF ItemOK
  <2> QED  BY <2>1, <2>2
<1>8. \A k \in 1..Len(items') : k \in 1..Len(items) \/ k = c
  BY <1>4, <1>6
<1>9. \A k \in 1..Len(items') : ItemOK(k)'
  BY <1>5, <1>7, <1>8 DEF Cur
<1>10. \A id \in 1..Len(msgs') : MsgOK(id)'
  <2> SUFFICES ASSUME NEW id \in 1..Len(msgs') PROVE MsgOK(id)'
    OBVIOUS
  <2>1. CASE id \in 1..Len(msgs)
    <3>1. Len(items') \in Nat /\ Len(items) <= Len(items')
      BY <1>4
    <3> QED  BY <1>4, <2>1, <3>1, MsgsBelong
  <2>2. CASE id \notin 1..Len(msgs)
    <3>1. st = "data" /\ id = Len(msgs')
      BY <1>2, <2>2
    <3>2. msgs'[id].kind = "data" /\ items'[c].msg = id /\ c \in 1..Len(items')
      BY <1>3, <1>4, <1>6, <3>1
    <3> QED  BY <3>2 DEF MsgOK, Cur
  <2> QED  BY <2>1, <2>2
<1>11. Ascending'
  <2> SUFFICES ASSUME NEW j \in 1..Len(items'), NEW k \in 1..Len(items'), j < k, items'[k].msg > 0
               PROVE  items'[j].msg < items'[k].msg
    BY DEF Ascending, Cur
  <2>1. j \in 1..Len(items) /\ items'[j] = items[j]
    BY <1>4, <1>6, <1>8
  <2>2. CASE k \in 1..Len(items)
    BY <1>4, <2>1, <2>2 DEF ItemsOK, Ascending, Cur
  <2>3. CASE k = c
    <3>1. st = "data" /\ items'[k].msg = Len(msgs')
      BY <1>3, <1>6, <2>3
    <3>2. items[j].msg \in Nat /\ items[j].msg <= Len(msgs)
      <4>1. items[j].msg \in Nat
        BY <2>1, ItemTypes DEF Cur
      <4>2. items[j].msg = 0 \/ items[j].msg <= Len(msgs)
        BY <2>1 DEF ItemsOK, ItemOK, Cur
      <4> QED  BY <1>2, <4>1, <4>2
    <3>3. Len(msgs') = Len(msgs) + 1
      BY <3>1
    <3> QED  BY <1>2, <2>1, <3>1, <3>2, <3>3
  <2> QED  BY <1>8, <2>2, <2>3
<1>12. Sending' <=> st = "data"
  <2>1. (items \in Seq(Item) =>
            (Sending <=> Len(items) > 0 /\ items[Len(items)].state \in {"data", "ports"}))'
    BY SendingIs, PTL
  <2>2. items'[Len(items')].state = st /\ Len(items') > 0
    BY <1>3, <1>4, <1>6
  <2> QED  BY <1>4, <2>1, <2>2
<1>13. Ch!Sending' => st = "data"
  BY <1>1 DEF Ch!Sending, Ch!Last
<1>14. ItemsOK'
  BY <1>1, <1>4, <1>9, <1>10, <1>11, <1>12, <1>13 DEF ItemsOK, Cur
<1>15. ItemsGrow
  <2>1. \A k \in 1..Len(items) : Live(k)' => Live(k)
    BY <1>4 DEF Live
  <2>2. ASSUME NEW k \in 1..Len(items'), k > Len(items) PROVE ~Live(k)' \/ items'[k].msg > Len(msgs)
    <3>1. k = c
      BY <1>4, <1>8, <2>2
    <3>2. CASE st = "error"
      BY <1>3, <1>6, <3>1, <3>2 DEF Live
    <3>3. CASE st = "data"
      <4>1. items'[k].msg = Len(msgs') /\ Len(msgs') = Len(msgs) + 1
        BY <1>3, <1>6, <3>1, <3>3
      <4> QED  BY <1>2, <4>1
    <3> QED  BY <3>2, <3>3
  <2>3. Len(items) <= Len(items')
    BY <1>4
  <2> QED  BY <1>4, <2>1, <2>2, <2>3 DEF ItemsGrow
<1> QED  BY <1>14, <1>15


----------------------------------------------------------------------------
(* Steps of the sender *)

LEMMA SetupTypes ==
    ASSUME setup \in Setups
    PROVE  /\ SendLimit \in Nat /\ RecvLimit \in Nat
           /\ \A s \in setup.shapes :
                s.n \in Nat \ {0} /\ s.ports \in 0..MaxPorts /\ s.fault \in {"none", "ser", "odd"}
<1>1. /\ {setup.send, setup.recv} \subseteq Nat
      /\ setup.shapes \subseteq [n : 1..MaxSize, ports : 0..MaxPorts, fault : {"none", "ser", "odd"}]
      /\ MaxSize \in Nat
  BY BaseChannelAssumption
<1>2. ASSUME NEW s \in setup.shapes
      PROVE  s.n \in Nat \ {0} /\ s.ports \in 0..MaxPorts /\ s.fault \in {"none", "ser", "odd"}
  <2>1. s \in [n : 1..MaxSize, ports : 0..MaxPorts, fault : {"none", "ser", "odd"}]
    BY <1>1
  <2>2. s.n \in 1..MaxSize /\ s.ports \in 0..MaxPorts /\ s.fault \in {"none", "ser", "odd"}
    BY <2>1
  <2> QED  BY <1>1, <2>2
<1> QED  BY <1>1, <1>2 DEF SendLimit, RecvLimit

LEMMA StartFacts ==
    ASSUME MsgsOK, NEW op, NEW kind \in {"data", "ports"}, NEW n \in Nat \ {0}, NEW tail \in 0..1,
           Ch!Start(op, kind, n, tail)
    PROVE  /\ Len(msgs') = Len(msgs) + 1 /\ Len(msgs) \in Nat
           /\ msgs'[Len(msgs')].kind = kind /\ msgs'[Len(msgs')].n = n
           /\ msgs'[Len(msgs')].tail = tail /\ msgs'[Len(msgs')].sent = 0
           /\ msgs'[Len(msgs')].state = "sending"
           /\ \A id \in 1..Len(msgs) : msgs'[id] = msgs[id]
           /\ ~closed /\ closed' = closed
           /\ UNCHANGED <<receiving, streaming, seen, parts, finished>>
<1> DEFINE m == [kind |-> kind, n |-> n, tail |-> tail, sent |-> 0, state |-> "sending"]
<1>1. /\ ~closed /\ closed' = closed /\ msgs' = Append(msgs, m)
      /\ UNCHANGED <<receiving, streaming, seen, parts, finished>>
  BY DEF Ch!Start
<1>2. m \in Msg
  BY DEF Msg
<1>3. msgs \in Seq(Msg)
  BY DEF MsgsOK
<1>4. /\ Len(msgs') = Len(msgs) + 1 /\ msgs'[Len(msgs) + 1] = m /\ Len(msgs) \in Nat
      /\ \A id \in 1..Len(msgs) : msgs'[id] = msgs[id]
  <2> HIDE DEF m
  <2> QED  BY <1>1, <1>2, <1>3, Appended
<1> QED  BY <1>1, <1>4

\* An item that is not sent.
LEMMA ErrorItemKeeps ==
    ASSUME IInv, ~setup.bin, UNCHANGED <<setup, rxVars>>, UNCHANGED chVars,
           NEW n \in Nat \ {0}, NEW ports \in 0..MaxPorts, NEW fault \in {"none", "ser", "odd"},
           NewItem(n, ports, fault, "error")
    PROVE  IInv'
<1>1. ChInv /\ ItemsOK /\ setup \in Setups /\ MsgsOK
  BY DEF IInv, ItemInv, ChInv
<1>2. ChInv' /\ MsgsOK'
  BY <1>1, ChStays DEF ChInv
<1>3. msgs' = msgs /\ closed' = closed /\ UNCHANGED <<receiving, streaming, seen, parts, finished>>
  BY DEF chVars
<1>4. MsgsGrow
  BY <1>1, <1>3, MsgTypes DEF MsgsGrow, MsgsOK
<1>5. ItemsOK' /\ ItemsGrow
  BY <1>1, <1>2, <1>3, <1>4, NewItemKeeps, SetupTypes
<1> QED  BY <1>2, <1>3, <1>4, <1>5, SenderStep

\* An item whose data is sent.
LEMMA DataItemKeeps ==
    ASSUME IInv, ~setup.bin, UNCHANGED <<setup, rxVars>>,
           NEW n \in Nat \ {0}, NEW ports \in 0..MaxPorts, NEW fault \in {"none", "ser", "odd"},
           NEW tail \in 0..1, Ch!Start("send", "data", n + 1 - tail, tail),
           NewItem(n, ports, fault, "data"),
           fault = "ser" \/ n > SendLimit => tail = 0
    PROVE  IInv'
<1>1. ChInv /\ ItemsOK /\ setup \in Setups /\ MsgsOK
  BY DEF IInv, ItemInv, ChInv
<1>2. n + 1 - tail \in Nat \ {0}
  OBVIOUS
<1>3. ChInv' /\ MsgsGrow /\ MsgsOK'
  BY <1>1, <1>2, StartKeeps DEF ChInv
<1>4. /\ Len(msgs') = Len(msgs) + 1 /\ msgs'[Len(msgs')].kind = "data"
      /\ msgs'[Len(msgs')].n = n + 1 - tail /\ msgs'[Len(msgs')].tail = tail
      /\ msgs'[Len(msgs')].sent = 0 /\ msgs'[Len(msgs')].state = "sending" /\ closed' = closed
      /\ UNCHANGED <<receiving, streaming, seen, parts, finished>>
  BY <1>1, <1>2, StartFacts
<1>5. SendLimit \in Nat
  BY <1>1, SetupTypes
<1>6. ItemsOK' /\ ItemsGrow
  BY <1>1, <1>3, <1>4, <1>5, NewItemKeeps
<1> QED  BY <1>3, <1>4, <1>6, SenderStep

LEMMA SendKeeps ==
    ASSUME IInv, ~setup.bin, NEW s \in setup.shapes,
           SendBuffered(s.n, s.ports, s.fault) \/ SendStreamed(s.n, s.ports, s.fault)
    PROVE  IInv'
<1>1. setup \in Setups
  BY DEF IInv
<1>2. PICK n \in Nat \ {0} : n = s.n
  BY <1>1, SetupTypes
<1>3. PICK ports \in 0..MaxPorts : ports = s.ports
  BY <1>1, SetupTypes
<1>4. PICK fault \in {"none", "ser", "odd"} : fault = s.fault
  BY <1>1, SetupTypes
<1>5. UNCHANGED <<setup, rxVars>>
  BY DEF SendBuffered, SendStreamed
<1>6. \/ UNCHANGED chVars /\ NewItem(n, ports, fault, "error")
      \/ /\ ~(fault = "ser" \/ n > SendLimit)
         /\ Ch!Start("send", "data", n, 1) /\ NewItem(n, ports, fault, "data")
      \/ Ch!Start("send", "data", n + 1, 0) /\ NewItem(n, ports, fault, "data")
  BY <1>2, <1>3, <1>4 DEF SendBuffered, SendStreamed
<1>7. n = n + 1 - 1 /\ n + 1 = n + 1 - 0
  OBVIOUS
<1>8. CASE UNCHANGED chVars /\ NewItem(n, ports, fault, "error")
  BY <1>5, <1>8, ErrorItemKeeps
<1>9. CASE /\ ~(fault = "ser" \/ n > SendLimit)
           /\ Ch!Start("send", "data", n, 1) /\ NewItem(n, ports, fault, "data")
  <2>1. Ch!Start("send", "data", n + 1 - 1, 1)
    BY <1>7, <1>9
  <2> QED  BY <1>5, <1>9, <2>1, DataItemKeeps
<1>10. CASE Ch!Start("send", "data", n + 1, 0) /\ NewItem(n, ports, fault, "data")
  <2>1. Ch!Start("send", "data", n + 1 - 0, 0)
    BY <1>7, <1>10
  <2> QED  BY <1>5, <1>10, <2>1, DataItemKeeps
<1> QED  BY <1>6, <1>8, <1>9, <1>10

\* A chunk is sent: what cannot be sent is not.
LEMMA SendChunkStep ==
    ASSUME IInv, ~setup.bin, SendChunk
    PROVE  IInv'
<1>1. ChInv /\ ItemsOK /\ setup \in Setups /\ MsgsOK /\ Sending /\ Ch!SendChunk
  BY DEF IInv, ItemInv, ChInv, SendChunk
<1>2. /\ ChInv' /\ MsgsGrow /\ Len(msgs') = Len(msgs) /\ Len(msgs) \in 1..Len(msgs) /\ MsgsOK'
      /\ \A id \in 1..Len(msgs) : id # Len(msgs) => msgs'[id] = msgs[id]
      /\ msgs'[Len(msgs)].sent = msgs[Len(msgs)].sent + 1
      /\ msgs'[Len(msgs)].state # "cancelled"
  BY <1>1, SendChunkKeeps DEF ChInv
<1>3. /\ UNCHANGED <<receiving, streaming, seen, parts, finished, closed>>
      /\ items' = items /\ setup' = setup /\ UNCHANGED rxVars
  BY <1>1 DEF Ch!SendChunk, SendChunk, txVars
<1>4. items \in Seq(Item) /\ Cur \in Nat /\ Cur' = Cur /\ Len(msgs) \in Nat
  BY <1>1, <1>3 DEF ItemsOK, Cur, MsgsOK
<1>5. ASSUME NEW k \in 1..Cur, k # Cur PROVE ItemOK(k)'
  <2>1. items[k].state \in {"ok", "cancelled", "error"}
    BY <1>1, <1>5, OldState
  <2>2. items[k].msg > 0 => msgs'[items[k].msg].sent = msgs[items[k].msg].sent
    BY <1>1, <1>2, <1>5, OldSent
  <2> QED  BY <1>1, <1>2, <1>3, <2>1, <2>2, ItemStays
<1>6. Cur \in 1..Cur /\ items[Cur].state \in {"data", "ports"} /\ Live(Cur)
  BY <1>1, <1>4, SendingIs DEF Cur, Live
<1>7. PICK k \in 1..Cur : k = Cur
  BY <1>6
<1>8. PICK id \in 1..Len(msgs) : id = items[k].msg /\ id > 0
  BY <1>1, <1>6, <1>7, LiveFacts
<1>9. DataOK(k) /\ ProgressOK(k)
  BY <1>1, <1>7, <1>8, ItemFacts
<1>10. /\ msgs'[id].kind = msgs[id].kind /\ msgs'[id].n = msgs[id].n /\ msgs'[id].tail = msgs[id].tail
  BY <1>2 DEF MsgsGrow
<1>11. ItemOK(k)'
  <2>1. CASE items[k].state = "data"
    <3>1. id = Len(msgs)
      BY <1>8, <1>9, <2>1 DEF ProgressOK
    <3>2. ~StreamStops(k)
      BY <1>7, <2>1 DEF SendChunk
    <3> DEFINE s == msgs[id].sent
               s1 == msgs'[id].sent
               n == items[k].n
    <3>3. /\ s \in Nat /\ n \in Nat /\ SendLimit \in Nat /\ s1 = s + 1
          /\ items[k].fault = "ser" => msgs[id].tail = 0 /\ s < n
          /\ n > SendLimit => msgs[id].tail = 0 /\ s <= SendLimit
      BY <1>1, <1>2, <1>8, <1>9, <3>1, MsgTypes, ItemTypes, SetupTypes DEF DataOK
    <3>4. msgs[id].tail = 0 =>
            ~(items[k].fault = "ser" /\ s = n - 1) /\ ~(s = SendLimit /\ s < n)
      BY <1>8, <3>2 DEF StreamStops, Streamed
    <3>5. /\ items[k].fault = "ser" => msgs[id].tail = 0 /\ s1 < n
          /\ n > SendLimit => msgs[id].tail = 0 /\ s1 <= SendLimit
      <4> HIDE DEF s, s1, n
      <4> QED  BY <3>3, <3>4
    <3>6. DataOK(k)'
      BY <1>3, <1>8, <1>9, <1>10, <3>5 DEF DataOK, SendLimit
    <3>7. ProgressOK(k)'
      BY <1>2, <1>3, <1>4, <1>7, <1>8, <2>1, <3>1 DEF ProgressOK
    <3> QED  BY <1>2, <1>3, <1>4, <1>8, <3>6, <3>7 DEF ItemOK
  <2>2. CASE items[k].state = "ports"
    <3>1. id + 1 = Len(msgs) /\ HasPorts(k)
      BY <1>8, <1>9, <2>2 DEF ProgressOK
    <3>2. msgs'[id] = msgs[id] /\ id + 1 \in 1..Len(msgs)
      BY <1>2, <1>4, <3>1
    <3>3. DataOK(k)'
      BY <1>3, <1>8, <1>9, <3>2 DEF DataOK, SendLimit
    <3>4. msgs'[id + 1].kind = msgs[id + 1].kind /\ msgs'[id + 1].state # "cancelled"
      BY <1>2, <3>1, <3>2 DEF MsgsGrow
    <3>5. HasPorts(k)'
      BY <1>2, <1>3, <1>8, <3>1, <3>4 DEF HasPorts
    <3>6. ProgressOK(k)'
      BY <1>2, <1>3, <1>4, <1>7, <1>8, <2>2, <3>1, <3>4, <3>5 DEF ProgressOK
    <3> QED  BY <1>2, <1>3, <1>4, <1>8, <3>3, <3>6 DEF ItemOK
  <2> QED  BY <1>6, <1>7, <2>1, <2>2
<1>12. \A j \in 1..Cur : ItemOK(j)'
  BY <1>5, <1>7, <1>11
<1>13. \A j \in 1..Len(msgs') : MsgOK(j)'
  BY <1>1, <1>2, <1>3, <1>4, MsgsBelong DEF Cur
<1>14. Ascending'
  BY <1>1, <1>3 DEF ItemsOK, Ascending, Cur
<1>15. Sending' /\ ~closed'
  BY <1>1, <1>3 DEF Sending, ItemsOK
<1>16. ItemsOK'
  BY <1>3, <1>4, <1>12, <1>13, <1>14, <1>15 DEF ItemsOK
<1>17. ItemsGrow
  BY <1>3, <1>4 DEF ItemsGrow, Live, Cur
<1> QED  BY <1>2, <1>3, <1>16, <1>17, SenderStep

\* What the state of the send being ended needs.
LEMMA GivenUp ==
    ASSUME IInv, ~setup.bin, Sending, UNCHANGED <<setup, rxVars>>,
           \/ Ch!CancelSend
           \/ ~Ch!Sending /\ UNCHANGED chVars,
           NEW st \in {"cancelled", "error"}, SetState(st)
    PROVE  IInv'
<1>1. ChInv /\ ItemsOK /\ MsgsOK
  BY DEF IInv, ItemInv, ChInv
<1>2. /\ ChInv' /\ MsgsGrow /\ MsgsOK' /\ Len(msgs') = Len(msgs) /\ closed' = closed
      /\ \A id \in 1..Len(msgs) : msgs'[id].sent = msgs[id].sent
      /\ ~Ch!Sending' /\ UNCHANGED <<receiving, streaming, seen, parts, finished>>
  <2>1. CASE Ch!CancelSend
    <3>1. /\ ChInv' /\ MsgsGrow /\ Len(msgs') = Len(msgs)
          /\ \A id \in 1..Len(msgs) : msgs'[id].sent = msgs[id].sent
          /\ msgs'[Len(msgs)].state = "cancelled"
      BY <1>1, <2>1, CancelKeeps
    <3>2. closed' = closed /\ UNCHANGED <<receiving, streaming, seen, parts, finished>>
      BY <2>1 DEF Ch!CancelSend
    <3>3. ~Ch!Sending'
      BY <3>1 DEF Ch!Sending, Ch!Last, Last
    <3> QED  BY <3>1, <3>2, <3>3 DEF ChInv
  <2>2. CASE ~Ch!Sending /\ UNCHANGED chVars
    <3>1. msgs' = msgs /\ closed' = closed /\ UNCHANGED <<receiving, streaming, seen, parts, finished>>
      BY <2>2 DEF chVars
    <3>2. ChInv' /\ MsgsOK'
      BY <1>1, <2>2, ChStays DEF ChInv
    <3>3. MsgsGrow
      BY <1>1, <3>1, MsgTypes DEF MsgsGrow, MsgsOK
    <3>4. ~Ch!Sending'
      BY <2>2, <3>1 DEF Ch!Sending, Ch!Last, Last
    <3> QED  BY <3>1, <3>2, <3>3, <3>4
  <2> QED  BY <2>1, <2>2
<1>3. Cur \in 1..Cur /\ Cur' = Cur /\ items'[Cur].state = st
      /\ items'[Cur].n = items[Cur].n /\ items'[Cur].ports = items[Cur].ports
      /\ items'[Cur].fault = items[Cur].fault /\ items'[Cur].msg = items[Cur].msg
      /\ items[Cur].state \in {"data", "ports"}
  BY <1>1, StateSet
<1>4. items[Cur].msg > 0 => msgs'[items[Cur].msg].sent = msgs[items[Cur].msg].sent
  BY <1>1, <1>2, <1>3, ItemFacts
<1>5. PICK k \in 1..Cur : k = Cur
  BY <1>3
<1>6. ItemOK(k)'
  BY <1>1, <1>2, <1>3, <1>4, <1>5, ItemStays
<1>7. ItemOK(Cur)'
  BY <1>3, <1>5, <1>6 DEF ItemOK, DataOK, ProgressOK, HasPorts
<1>8. \A id \in 1..Len(msgs') : id > Len(msgs) => MsgOK(id)'
  BY <1>1, <1>2 DEF MsgsOK
<1>9. ItemsOK' /\ ItemsGrow
  BY <1>1, <1>2, <1>7, <1>8, SetStateKeeps
<1> QED  BY <1>2, <1>9, SenderStep

\* The item being sent.
LEMMA CurFacts ==
    ASSUME ItemsOK, MsgsOK, Sending, NEW k, k = Cur
    PROVE  /\ k \in 1..Cur /\ k \in 1..Len(items) /\ items[k].state \in {"data", "ports"} /\ Live(k)
           /\ items[k].msg \in 1..Len(msgs) /\ items[k].msg > 0 /\ DataOK(k) /\ ProgressOK(k)
           /\ items[k].ports \in 0..MaxPorts
           /\ ~Ch!Sending => msgs[Len(msgs)].state \in {"done", "cancelled"}
<1>1. items \in Seq(Item) /\ Cur \in Nat
  BY DEF ItemsOK, Cur
<1>2. k \in 1..Cur /\ items[k].state \in {"data", "ports"} /\ Live(k)
  BY <1>1, SendingIs DEF Cur, Live
<1>3. items[k].msg \in 1..Len(msgs) /\ items[k].msg > 0
  BY <1>2, LiveFacts
<1>4. DataOK(k) /\ ProgressOK(k)
  BY <1>2, <1>3, ItemFacts
<1>5. ASSUME ~Ch!Sending PROVE msgs[Len(msgs)].state \in {"done", "cancelled"}
  <2>1. Len(msgs) \in Nat /\ Len(msgs) \in 1..Len(msgs) /\ msgs # <<>>
    BY <1>3 DEF MsgsOK
  <2>2. msgs[Len(msgs)].state # "sending"
    BY <1>5, <2>1 DEF Ch!Sending, Ch!Last, Last
  <2> QED  BY <2>1, <2>2, MsgTypes
<1> QED  BY <1>2, <1>3, <1>4, <1>5, ItemTypes DEF Cur

LEMMA ConnectStep ==
    ASSUME IInv, ~setup.bin, Connect
    PROVE  IInv'
<1>1. /\ ChInv /\ ItemsOK /\ MsgsOK /\ Sending /\ items[Cur].state = "data" /\ items[Cur].ports > 0
      /\ ~Ch!Sending /\ Ch!Start("connect", "ports", items[Cur].ports, 1) /\ SetState("ports")
      /\ UNCHANGED <<setup, rxVars>>
  BY DEF IInv, ItemInv, ChInv, Connect
<1>2. PICK k \in 1..Len(items) : k = Cur
  BY <1>1, CurFacts
<1>3. /\ items[k].msg \in 1..Len(msgs) /\ items[k].msg > 0 /\ DataOK(k) /\ ProgressOK(k)
      /\ msgs[Len(msgs)].state \in {"done", "cancelled"}
      /\ items[k].ports \in 0..MaxPorts
  BY <1>1, <1>2, CurFacts
<1>4. MaxPorts \in Nat
  BY ChannelAssumption DEF Ch!FramingAssumption
<1>5. PICK n \in Nat \ {0} : n = items[k].ports /\ n <= MaxPorts
  BY <1>1, <1>2, <1>3, <1>4
<1>6. Ch!Start("connect", "ports", n, 1)
  BY <1>1, <1>2, <1>5
<1>7. ChInv /\ MsgsOK /\ "ports" \in {"data", "ports"} /\ 1 \in 0..1
  BY <1>1
<1>8. ChInv' /\ MsgsGrow /\ MsgsOK'
  <2>1. ChInv' /\ MsgsGrow
    BY ONLY <1>5, <1>6, <1>7, StartKeeps
  <2> QED  BY <2>1 DEF ChInv
<1>9. /\ Len(msgs') = Len(msgs) + 1 /\ Len(msgs) \in Nat
      /\ msgs'[Len(msgs')].kind = "ports" /\ msgs'[Len(msgs')].n = n
      /\ msgs'[Len(msgs')].state = "sending"
      /\ \A id \in 1..Len(msgs) : msgs'[id] = msgs[id]
      /\ ~closed /\ closed' = closed
      /\ UNCHANGED <<receiving, streaming, seen, parts, finished>>
  BY ONLY <1>5, <1>6, <1>7, StartFacts
<1>10. /\ Cur' = Cur /\ items'[Cur].state = "ports"
      /\ items'[Cur].n = items[Cur].n /\ items'[Cur].ports = items[Cur].ports
      /\ items'[Cur].fault = items[Cur].fault /\ items'[Cur].msg = items[Cur].msg
  BY <1>1, StateSet
<1>11. PICK id \in 1..Len(msgs) : id = items[k].msg /\ id = Len(msgs) /\ msgs[id].state = "done"
  BY <1>1, <1>2, <1>3 DEF ProgressOK
<1>12. msgs'[id] = msgs[id] /\ Len(msgs') = id + 1 /\ id \in Nat \ {0} /\ id + 1 \in Nat
  BY <1>9, <1>11
<1>13. ItemOK(k)'
  <2>1. DataOK(k)'
    BY <1>1, <1>2, <1>3, <1>10, <1>11, <1>12 DEF DataOK, SendLimit
  <2>2. HasPorts(k)'
    BY <1>2, <1>9, <1>10, <1>11, <1>12 DEF HasPorts
  <2>3. ProgressOK(k)'
    BY <1>2, <1>9, <1>10, <1>11, <1>12, <2>2 DEF ProgressOK
  <2>4. items'[k].msg = id /\ id <= Len(msgs')
    BY <1>2, <1>10, <1>11, <1>12
  <2> QED  BY <2>1, <2>3, <2>4 DEF ItemOK
<1>14. ItemOK(Cur)'
  BY <1>2, <1>10, <1>13 DEF ItemOK, DataOK, ProgressOK, HasPorts
<1>15. ASSUME NEW x \in 1..Len(msgs'), x > Len(msgs) PROVE MsgOK(x)'
  <2>1. x = id + 1 /\ x = Len(msgs') /\ x > 1 /\ x - 1 = id
    BY <1>9, <1>11, <1>12, <1>15
  <2>2. msgs[id].kind = "data"
    BY <1>3, <1>11 DEF DataOK
  <2> QED  BY <1>5, <1>9, <1>11, <1>12, <2>1, <2>2 DEF MsgOK
<1>16. ItemsOK' /\ ItemsGrow
  BY <1>1, <1>8, <1>9, <1>14, <1>15, SetStateKeeps
<1> QED  BY <1>1, <1>8, <1>9, <1>16, SenderStep

LEMMA SendReturnsStep ==
    ASSUME IInv, ~setup.bin, SendReturns
    PROVE  IInv'
<1>1. /\ ChInv /\ ItemsOK /\ MsgsOK /\ Sending /\ ~Ch!Sending /\ SetState("ok")
      /\ items[Cur].ports > 0 => items[Cur].state = "ports"
      /\ UNCHANGED <<setup, rxVars>> /\ UNCHANGED chVars
  BY DEF IInv, ItemInv, ChInv, SendReturns
<1>2. PICK k \in 1..Len(items) : k = Cur
  BY <1>1, CurFacts
<1>3. /\ items[k].msg \in 1..Len(msgs) /\ items[k].msg > 0 /\ DataOK(k) /\ ProgressOK(k)
      /\ msgs[Len(msgs)].state \in {"done", "cancelled"} /\ items[k].state \in {"data", "ports"}
  BY <1>1, <1>2, CurFacts
<1>4. msgs' = msgs /\ closed' = closed /\ UNCHANGED <<receiving, streaming, seen, parts, finished>>
  BY <1>1 DEF chVars
<1>5. ChInv' /\ MsgsOK'
  BY <1>1, ChStays DEF ChInv
<1>6. MsgsGrow /\ Len(msgs) \in Nat
  BY <1>1, <1>4, MsgTypes DEF MsgsGrow, MsgsOK
<1>7. /\ Cur' = Cur /\ items'[Cur].state = "ok"
      /\ items'[Cur].n = items[Cur].n /\ items'[Cur].ports = items[Cur].ports
      /\ items'[Cur].fault = items[Cur].fault /\ items'[Cur].msg = items[Cur].msg
  BY <1>1, StateSet
<1>8. msgs[items[k].msg].state = "done" /\ (items[k].ports > 0 => HasPorts(k) /\ msgs[items[k].msg + 1].state = "done")
  <2>1. CASE items[k].state = "data"
    BY <1>1, <1>2, <1>3, <2>1 DEF ProgressOK
  <2>2. CASE items[k].state = "ports"
    <3>1. HasPorts(k) /\ items[k].msg + 1 = Len(msgs) /\ msgs[items[k].msg + 1].state = "done"
      BY <1>3, <2>2 DEF ProgressOK
    <3>2. PICK x \in 1..Len(msgs) : x = items[k].msg + 1 /\ x - 1 = items[k].msg
      BY <1>3, <1>6, <3>1
    <3>3. MsgOK(x) /\ msgs[x].kind # "data"
      BY <1>1, <3>1, <3>2 DEF ItemsOK, HasPorts
    <3> QED  BY <3>1, <3>2, <3>3 DEF MsgOK
  <2> QED  BY <1>3, <2>1, <2>2
<1>9. ItemOK(k)'
  <2>1. DataOK(k)'
    BY <1>1, <1>2, <1>3, <1>4, <1>7 DEF DataOK, SendLimit
  <2>2. ProgressOK(k)'
    BY <1>2, <1>4, <1>7, <1>8 DEF ProgressOK, HasPorts
  <2>3. items'[k].msg = items[k].msg /\ items[k].msg <= Len(msgs')
    BY <1>2, <1>3, <1>4, <1>6, <1>7
  <2> QED  BY <1>3, <2>1, <2>2, <2>3 DEF ItemOK
<1>10. ItemOK(Cur)'
  BY <1>2, <1>7, <1>9 DEF ItemOK, DataOK, ProgressOK, HasPorts
<1>11. \A id \in 1..Len(msgs') : id > Len(msgs) => MsgOK(id)'
  BY <1>4, <1>6
<1>12. ~Ch!Sending'
  BY <1>1, <1>4 DEF Ch!Sending, Ch!Last, Last
<1>13. ItemsOK' /\ ItemsGrow
  BY <1>1, <1>5, <1>6, <1>10, <1>11, <1>12, SetStateKeeps
<1> QED  BY <1>1, <1>4, <1>5, <1>6, <1>13, SenderStep

\* The items stay.
LEMMA ItemsStay ==
    ASSUME ItemsOK, UNCHANGED <<msgs, items, setup>>, closed' => ~Sending
    PROVE  ItemsOK'
<1>1. \A k \in 1..Cur : ItemOK(k)'
  BY DEF ItemsOK, ItemOK, DataOK, ProgressOK, HasPorts, SendLimit, Cur
<1>2. \A id \in 1..Len(msgs) : MsgOK(id)'
  BY DEF ItemsOK, MsgOK, Cur
<1>3. Ascending'
  BY DEF ItemsOK, Ascending, Cur
<1>4. Sending' = Sending /\ Ch!Sending' = Ch!Sending /\ Cur' = Cur
  BY DEF Sending, Ch!Sending, Cur
<1> QED  BY <1>1, <1>2, <1>3, <1>4 DEF ItemsOK

LEMMA DropSenderStep ==
    ASSUME IInv, ~setup.bin, DropSender
    PROVE  IInv'
<1>1. ChInv /\ ItemsOK /\ ~Sending /\ Ch!DropSender /\ items' = items /\ setup' = setup /\ UNCHANGED rxVars
  BY DEF IInv, ItemInv, ChInv, DropSender, txVars
<1>2. ChInv' /\ MsgsGrow
  BY <1>1, DropSenderKeeps
<1>3. msgs' = msgs /\ UNCHANGED <<receiving, streaming, seen, parts, finished>>
  BY <1>1 DEF Ch!DropSender
<1>4. ItemsOK'
  BY <1>1, <1>3, ItemsStay
<1>5. ItemsGrow
  BY <1>1 DEF ItemsGrow, Live, ItemsOK
<1> QED  BY <1>1, <1>2, <1>3, <1>4, <1>5, SenderStep

----------------------------------------------------------------------------
(* Steps of the receiver *)

\* What a step of the receiver leaves alone.
Still == UNCHANGED <<msgs, closed, items, setup>>

LEMMA ReceiverStep ==
    ASSUME IInv, ~setup.bin, Still, ChInv', TaskOK', WaitingOK', OutcomesOK', NoneForgotten',
           ended' \in BOOLEAN, ended' => finished' /\ item' = 0 /\ data' = "none"
    PROVE  IInv'
<1>1. ItemsOK /\ setup \in Setups
  BY DEF IInv, ItemInv
<1>2. ItemsOK'
  BY <1>1, ItemsStay DEF Still, ItemsOK
<1> QED  BY <1>1, <1>2 DEF IInv, ItemInv, Still

LEMMA StillSame ==
    ASSUME Still
    PROVE  /\ Cur' = Cur /\ threads' = threads /\ RecvLimit' = RecvLimit /\ SendLimit' = SendLimit
           /\ \A k : Live(k)' = Live(k) /\ Serialized(k)' = Serialized(k)
           /\ \A id : ItemOf(id)' = ItemOf(id)
           /\ \A s : (Whole(s)' <=> Whole(s)) /\ (Undecodable(s)' <=> Undecodable(s))
           /\ \A id, j : Prefix(id, j)' = Prefix(id, j)
  BY DEF Still, Cur, threads, RecvLimit, SendLimit, Live, Serialized, ItemOf, Whole, Undecodable,
         Prefix, Ch!Chunk

\* No stream is received.
LEMMA TaskNone ==
    ASSUME data' = "none",
           receiving'.st = "chunks" => item' = 0 /\ parts' = <<>> /\ receiving'.buf # <<>>
    PROVE  TaskOK'
  BY DEF TaskOK

\* Nothing is returned.
LEMMA OutcomesSame ==
    ASSUME OutcomesOK, ItemsOK, Still, got' = got, seen.id \in Nat, seen'.id \in Nat, seen.id <= seen'.id,
           Working' => Working \/ seen.id < seen'.id
    PROVE  OutcomesOK'
<1>1. Cur' = Cur /\ threads' = threads /\ RecvLimit' = RecvLimit /\ SendLimit' = SendLimit
  BY StillSame
<1>2. got \in Seq([item : Nat, how : {"item", "error"}])
  BY DEF OutcomesOK
<1>3. ASSUME NEW i \in 1..Len(got)
      PROVE  /\ got[i].item \in 1..Cur /\ items[got[i].item].msg \in 1..seen'.id
             /\ Working' => items[got[i].item].msg < seen'.id
  <2>1. /\ got[i].item \in 1..Cur /\ items[got[i].item].msg \in 1..seen.id
        /\ Working => items[got[i].item].msg < seen.id
    BY DEF OutcomesOK
  <2>2. PICK m \in Nat : m = items[got[i].item].msg
    BY <2>1, ItemTypes
  <2>3. m \in 1..seen'.id
    BY <2>1, <2>2
  <2>4. Working => m < seen.id
    BY <2>1, <2>2
  <2>5. Working' => m < seen'.id
    BY <2>1, <2>2, <2>4
  <2> QED  BY <2>1, <2>2, <2>3, <2>5
<1>4. ErrorsForReason'
  BY <1>1 DEF OutcomesOK, ErrorsForReason, Still
<1>5. DeliveredComplete'
  BY <1>1 DEF OutcomesOK, DeliveredComplete, Still
<1>6. /\ got' \in Seq([item : Nat, how : {"item", "error"}])
      /\ \A i, j \in 1..Len(got') : i < j => got'[i].item < got'[j].item
  BY DEF OutcomesOK
<1> QED  BY <1>1, <1>3, <1>4, <1>5, <1>6 DEF OutcomesOK, Still

\* The outcomes of an item.
Reason(k) == items[k].fault = "odd" \/ items[k].n > RecvLimit \/ "rx" \notin threads
Complete(k) ==
    /\ Serialized(k)
    /\ items[k].ports > 0 => HasPorts(k) /\ msgs[items[k].msg + 1].state = "done"

LEMMA OutcomesGrow ==
    ASSUME OutcomesOK, ItemsOK, Still, seen.id \in Nat, seen'.id \in Nat, seen.id <= seen'.id, ~Working',
           NEW k \in 1..Cur, NEW how \in {"item", "error"}, Return(k, how), items[k].msg \in 1..seen'.id,
           \A i \in 1..Len(got) : got[i].item < k,
           how = "item" => Complete(k), how = "error" => Reason(k)
    PROVE  /\ OutcomesOK' /\ Handled(k)'
           /\ \A j : Handled(j) => Handled(j)'
<1>1. Cur' = Cur /\ threads' = threads /\ RecvLimit' = RecvLimit /\ SendLimit' = SendLimit
  BY StillSame
<1> DEFINE T == [item : Nat, how : {"item", "error"}]
           e == [item |-> k, how |-> how]
<1>2. got \in Seq(T) /\ got' = Append(got, e) /\ Cur \in Nat
  BY ItemTypes DEF OutcomesOK, Return
<1>3. e \in T /\ e.item = k /\ e.how = how
  BY <1>2
<1> HIDE DEF e, T
<1>4. /\ got' \in Seq(T) /\ Len(got') = Len(got) + 1 /\ got'[Len(got) + 1] = e /\ Len(got) \in Nat
      /\ \A i \in 1..Len(got) : got'[i] = got[i]
  BY <1>2, <1>3, Appended
<1>5. PICK l \in Nat : l = Len(got) + 1 /\ l = Len(got') /\ got'[l].item = k /\ got'[l].how = how
  BY <1>3, <1>4
<1>6. \A i \in 1..Len(got') : i \in 1..Len(got) \/ i = l
  BY <1>4, <1>5
<1>7. ASSUME NEW i \in 1..Len(got')
      PROVE  got'[i].item \in 1..Cur /\ items[got'[i].item].msg \in 1..seen'.id
  <2>1. CASE i \in 1..Len(got)
    <3>1. got[i].item \in 1..Cur /\ items[got[i].item].msg \in 1..seen.id
      BY <2>1 DEF OutcomesOK
    <3>2. got'[i] = got[i]
      BY <1>4, <2>1
    <3>3. 1..seen.id \subseteq 1..seen'.id
      OBVIOUS
    <3> QED  BY <3>1, <3>2, <3>3
  <2>2. CASE i = l
    BY <1>5, <2>2
  <2> QED  BY <1>6, <2>1, <2>2
<1>8. ASSUME NEW i \in 1..Len(got'), NEW j \in 1..Len(got'), i < j
      PROVE  got'[i].item < got'[j].item
  <2>1. i \in 1..Len(got)
    BY <1>4, <1>5, <1>6, <1>8
  <2>2. CASE j \in 1..Len(got)
    <3>1. got[i].item < got[j].item
      BY <1>8, <2>1, <2>2 DEF OutcomesOK
    <3> QED  BY <1>4, <2>1, <2>2, <3>1
  <2>3. CASE j = l
    BY <1>4, <1>5, <2>1, <2>3
  <2> QED  BY <1>6, <2>2, <2>3
<1>9. ErrorsForReason'
  <2> SUFFICES ASSUME NEW i \in 1..Len(got'), got'[i].how # "item"
               PROVE  got'[i].how = "error" /\ Reason(got'[i].item)
    BY <1>1 DEF ErrorsForReason, Reason, Still
  <2>1. CASE i \in 1..Len(got)
    BY <1>4, <2>1 DEF OutcomesOK, ErrorsForReason, Reason
  <2>2. CASE i = l
    BY <1>5, <2>2
  <2> QED  BY <1>6, <2>1, <2>2
<1>10. DeliveredComplete'
  <2> SUFFICES ASSUME NEW i \in 1..Len(got'), got'[i].how = "item"
               PROVE  Complete(got'[i].item)
    BY <1>1 DEF DeliveredComplete, Complete, Serialized, HasPorts, Still
  <2>1. CASE i \in 1..Len(got)
    BY <1>4, <2>1 DEF OutcomesOK, DeliveredComplete, Complete, Serialized, HasPorts
  <2>2. CASE i = l
    BY <1>5, <2>2
  <2> QED  BY <1>6, <2>1, <2>2
<1>11. OutcomesOK'
  BY <1>1, <1>4, <1>7, <1>8, <1>9, <1>10 DEF OutcomesOK, Still, T
<1>12. Handled(k)'
  BY <1>4, <1>5 DEF Handled
<1>13. ASSUME NEW j, Handled(j) PROVE Handled(j)'
  <2>1. PICK i \in 1..Len(got) : got[i].item = j
    BY <1>13 DEF Handled
  <2>2. i \in 1..Len(got') /\ got'[i].item = j
    BY <1>4, <2>1
  <2> QED  BY <2>2 DEF Handled
<1> QED  BY <1>11, <1>12, <1>13

\* Items that were returned come before the one that the receiver works on or gets to.
LEMMA Below ==
    ASSUME OutcomesOK, ItemsOK, NEW k \in 1..Cur, seen.id \in Nat, items[k].msg > 0,
           seen.id < items[k].msg \/ (seen.id = items[k].msg /\ Working)
    PROVE  \A i \in 1..Len(got) : got[i].item < k
<1> SUFFICES ASSUME NEW i \in 1..Len(got) PROVE got[i].item < k
  OBVIOUS
<1>1. PICK g \in 1..Cur : g = got[i].item
  BY DEF OutcomesOK
<1>2. items[g].msg \in 1..seen.id /\ (Working => items[g].msg < seen.id)
  BY <1>1 DEF OutcomesOK
<1>3. items[g].msg \in Nat /\ items[k].msg \in Nat
  BY ItemTypes
<1>4. items[g].msg < items[k].msg /\ items[g].msg > 0
  <2>1. CASE seen.id < items[k].msg
    <3>1. items[g].msg \in 1..seen.id
      BY <1>2
    <3>2. items[g].msg <= seen.id /\ items[g].msg > 0
      BY <1>3, <3>1
    <3> QED  BY ONLY <1>3, <2>1, <3>2, seen.id \in Nat
  <2>2. CASE seen.id = items[k].msg /\ Working
    <3>1. items[g].msg < seen.id /\ items[g].msg \in 1..seen.id
      BY <1>2, <2>2
    <3> QED  BY <1>3, <2>2, <3>1
  <2> QED  BY <2>1, <2>2
<1> QED  BY <1>1, <1>4, ItemOrder

\* The outcome of item k after a step, or that it may still have one.
Kept(k) ==
    \/ Handled(k)' \/ item' = k \/ seen'.id < items[k].msg
    \/ seen'.id = items[k].msg /\ Working'

LEMMA Remembered ==
    ASSUME NoneForgotten, Still, \A k \in 1..Cur : Handled(k) => Handled(k)',
           \A k \in 1..Cur : Live(k) /\ item = k => Kept(k),
           \A k \in 1..Cur : Live(k) /\ seen.id < items[k].msg => Kept(k),
           \A k \in 1..Cur : Live(k) /\ seen.id = items[k].msg /\ Working => Kept(k)
    PROVE  NoneForgotten'
<1> SUFFICES ASSUME NEW k \in 1..Cur, Live(k) PROVE Kept(k)
  BY StillSame DEF NoneForgotten, Kept, Still
<1> QED  BY DEF NoneForgotten, Kept

LEMMA RememberedHere ==
    ASSUME NoneForgotten, Still, \A k \in 1..Cur : Handled(k) => Handled(k)', seen'.id = seen.id,
           \A k \in 1..Cur : Live(k) /\ item = k => Kept(k),
           \A k \in 1..Cur : Live(k) /\ seen.id = items[k].msg /\ Working => Kept(k)
    PROVE  NoneForgotten'
<1>1. \A k \in 1..Cur : Live(k) /\ seen.id < items[k].msg => Kept(k)
  BY DEF Kept
<1> QED  BY <1>1, Remembered

\* The receiver gets to chunk c.
LEMMA RememberedNext ==
    ASSUME ChInv, ItemsOK, NoneForgotten, Still, \A k \in 1..Cur : Handled(k) => Handled(k)',
           NEW c, Advance(c), Ch!InProgress => ~seen.last,
           Working /\ seen.id < c.id => ~seen.last,
           \A k \in 1..Cur : Live(k) /\ item = k => Kept(k),
           \A k \in 1..Cur :
               Live(k) /\ items[k].msg = c.id /\ (seen.id < c.id \/ Working) => Kept(k)
    PROVE  NoneForgotten'
<1>1. /\ seen' = c /\ seen.id \in Nat /\ c.id \in Nat \ {0} /\ seen.id <= c.id
      /\ \A id \in (seen.id + 1)..(c.id - 1) : msgs[id].state = "cancelled"
      /\ seen.id > 0 /\ seen.id < c.id /\ ~seen.last => msgs[seen.id].state = "cancelled"
  BY AdvanceFacts
<1>2. ASSUME NEW k \in 1..Cur, Live(k)
      PROVE  items[k].msg \in Nat \ {0} /\ msgs[items[k].msg].state # "cancelled"
  BY <1>2, LiveFacts, ItemTypes DEF ChInv
<1>3. ASSUME NEW k \in 1..Cur, Live(k), seen.id < items[k].msg PROVE Kept(k)
  <2>1. items[k].msg < c.id => msgs[items[k].msg].state = "cancelled"
    BY <1>1, <1>2, <1>3
  <2>2. CASE items[k].msg = c.id
    BY <1>3, <2>2
  <2>3. CASE c.id < items[k].msg
    BY <1>1, <2>3 DEF Kept
  <2> QED  BY <1>1, <1>2, <1>3, <2>1, <2>2, <2>3
<1>4. ASSUME NEW k \in 1..Cur, Live(k), seen.id = items[k].msg, Working PROVE Kept(k)
  <2>1. ~(seen.id < c.id)
    BY <1>1, <1>2, <1>4
  <2>2. items[k].msg = c.id
    BY <1>1, <1>4, <2>1
  <2> QED  BY <1>4, <2>2
<1> QED  BY <1>3, <1>4, Remembered

\* recv_any gets to another message only when the one before was not seen completely, or
\* has been dealt with.
LEMMA WorkingOpen ==
    ASSUME ChInv, TaskOK, data = "none", ~Ch!InProgress, Working
    PROVE  ~seen.last /\ receiving.st = "data"
<1>1. receiving.st # "chunks"
  BY DEF TaskOK, Ch!InProgress
<1>2. receiving.st = "data"
  BY <1>1 DEF Working
<1> QED  BY <1>2 DEF ChInv, ReceivingOK, BuffersOK

\* Messages between that of an item that waits for its ports and chunk c were given up.
LEMMA WaitingGap ==
    ASSUME ChInv, ItemsOK, WaitingOK, item # 0, NEW c, Advance(c), ~Ch!InProgress
    PROVE  /\ item \in 1..Cur /\ items[item].msg \in Nat \ {0} /\ c.id \in Nat
           /\ seen.id \in Nat /\ seen.id <= c.id /\ items[item].msg <= seen.id
           /\ \A id \in (items[item].msg + 1)..(c.id - 1) : msgs[id].state = "cancelled"
           /\ items[item].msg = c.id => receiving.st = "nothing" /\ ~c.first
<1>1. /\ seen' = c /\ seen.id \in Nat /\ c.id \in Nat \ {0} /\ seen.id <= c.id
      /\ \A id \in (seen.id + 1)..(c.id - 1) : msgs[id].state = "cancelled"
      /\ seen.id > 0 /\ seen.id < c.id /\ ~seen.last => msgs[seen.id].state = "cancelled"
      /\ c.first => seen.id < c.id
  BY AdvanceFacts
<1>2. /\ item \in 1..Cur /\ items[item].msg \in 1..seen.id
      /\ items[item].msg = seen.id => receiving.st = "nothing"
      /\ \A id \in (items[item].msg + 1)..seen.id :
             \/ msgs[id].state = "cancelled"
             \/ id = seen.id /\ receiving.st \in {"data", "requests"}
  BY DEF WaitingOK
<1>3. PICK m \in Nat \ {0} : m = items[item].msg /\ m <= seen.id
  BY <1>1, <1>2, ItemTypes
<1>4. ASSUME NEW id \in (m + 1)..(c.id - 1) PROVE msgs[id].state = "cancelled"
  <2>1. CASE id \in (seen.id + 1)..(c.id - 1)
    BY <1>1, <2>1
  <2>2. CASE id \in (m + 1)..seen.id
    <3>1. CASE id = seen.id /\ receiving.st \in {"data", "requests"}
      <4>1. ~seen.last
        BY <3>1 DEF ChInv, ReceivingOK, BuffersOK
      <4>2. seen.id > 0 /\ seen.id < c.id
        BY <1>1, <1>3, <1>4, <3>1
      <4> QED  BY <1>1, <3>1, <4>1, <4>2
    <3> QED  BY <1>2, <1>3, <2>2, <3>1
  <2> QED  BY <1>1, <1>3, <2>1, <2>2
<1>5. m = c.id => m = seen.id /\ ~(seen.id < c.id)
  BY <1>1, <1>3
<1>6. m = c.id => receiving.st = "nothing" /\ ~c.first
  BY <1>1, <1>2, <1>3, <1>5
<1> QED  BY <1>1, <1>2, <1>3, <1>4, <1>6

\* An item that waits for its ports while data of another item arrives was given up.
LEMMA WaitingOver ==
    ASSUME ChInv, ItemsOK, WaitingOK, item # 0, NEW c, Advance(c), ~Ch!InProgress,
           c.kind = "data", Grown(c, "data")
    PROVE  ~Live(item) /\ items[item].msg < c.id
<1>1. /\ item \in 1..Cur /\ items[item].msg \in Nat \ {0} /\ c.id \in Nat
      /\ seen.id \in Nat /\ seen.id <= c.id /\ items[item].msg <= seen.id
      /\ \A id \in (items[item].msg + 1)..(c.id - 1) : msgs[id].state = "cancelled"
      /\ items[item].msg = c.id => receiving.st = "nothing" /\ ~c.first
  BY WaitingGap
<1>2. PICK m \in Nat \ {0} : m = items[item].msg
  BY <1>1
<1>3. m < c.id
  <2>1. m # c.id
    BY <1>1, <1>2 DEF Grown
  <2> QED  BY <1>1, <1>2, <2>1
<1>4. c.id \in 1..Len(msgs) /\ msgs[c.id].kind = "data" /\ Len(msgs) \in Nat
  BY SentFacts DEF Advance, ChInv, MsgsOK
<1>5. ASSUME Live(item) PROVE FALSE
  <2>1. items[item].ports > 0
    BY DEF WaitingOK
  <2>2. m < Len(msgs)
    BY <1>1, <1>3, <1>4
  <2>3. HasPorts(item) /\ msgs[m + 1].state # "cancelled"
    BY <1>1, <1>2, <1>5, <2>1, <2>2, LiveFacts DEF ChInv
  <2>4. msgs[m + 1].kind = "ports"
    BY <1>2, <2>3 DEF HasPorts
  <2>5. m + 1 # c.id
    BY <1>4, <2>4
  <2>6. m + 1 \in (m + 1)..(c.id - 1)
    BY <1>1, <1>3, <2>5
  <2> QED  BY <1>1, <1>2, <2>3, <2>6
<1> QED  BY <1>2, <1>3, <1>5

\* So is one that waits for its ports at the end.
LEMMA EndForgotten ==
    ASSUME ChInv, ItemsOK, WaitingOK, item # 0, closed, AtEnd(seen)
    PROVE  ~Live(item)
<1> SUFFICES ASSUME Live(item) PROVE FALSE
  OBVIOUS
<1>1. MsgsOK /\ seen.id \in Nat /\ Len(msgs) \in Nat /\ (seen.id > 0 => Sent(seen)) /\ ~Sending
  BY SeenFacts DEF ChInv, ItemsOK
<1>2. /\ item \in 1..Cur /\ items[item].msg \in 1..seen.id /\ items[item].ports > 0
      /\ \A id \in (items[item].msg + 1)..seen.id :
             \/ msgs[id].state = "cancelled"
             \/ id = seen.id /\ receiving.st \in {"data", "requests"}
  BY DEF WaitingOK
<1>3. PICK m \in Nat \ {0} : m = items[item].msg /\ m <= seen.id
  BY <1>1, <1>2, ItemTypes
<1>4. HasPorts(item) /\ msgs[m + 1].state = "done"
  BY <1>1, <1>2, <1>3, LiveFacts
<1>5. PICK p \in 1..Len(msgs) : p = m + 1 /\ p \in Nat
  BY <1>1, <1>3, <1>4 DEF HasPorts
<1>6. msgs[p].sent = msgs[p].n /\ msgs[p].n \in Nat \ {0} /\ msgs[p].state = "done"
  BY <1>1, <1>4, <1>5, MsgFacts, MsgTypes
<1>7. CASE seen.id < p
  <2>1. p \in (seen.id + 1)..Len(msgs)
    BY <1>1, <1>5, <1>7
  <2>2. msgs[p].sent = 0
    BY <2>1 DEF AtEnd, Unsent
  <2> QED  BY <1>6, <2>2
<1>8. CASE p <= seen.id
  <2>1. p = seen.id /\ receiving.st \in {"data", "requests"}
    BY <1>1, <1>2, <1>3, <1>5, <1>6, <1>8
  <2>2. ~seen.last
    BY <2>1 DEF ChInv, ReceivingOK, BuffersOK
  <2>3. seen.last = (seen.i = msgs[p].n) /\ seen.id > 0
    BY <1>1, <1>5, <2>1, SentFacts
  <2>4. msgs[p].sent = seen.i
    BY <2>1, <2>3 DEF AtEnd, Exhausted
  <2> QED  BY <1>6, <2>2, <2>3, <2>4
<1> QED  BY <1>1, <1>5, <1>7, <1>8

\* The receiver is about to call recv_any.
Ready ==
    /\ IInv /\ ~setup.bin /\ data = "none" /\ ended = FALSE
    /\ ChInv /\ ItemsOK /\ TaskOK /\ WaitingOK /\ OutcomesOK /\ NoneForgotten /\ setup \in Setups

LEMMA IsReady == IInv /\ ~setup.bin /\ data = "none" /\ ~ended => Ready
  BY DEF Ready, IInv, ItemInv

LEMMA LogLast ==
    ASSUME ChInv, NEW id \in Nat, NEW how \in Hows, NEW chunks \in Seq(AChunk), Ch!Log(id, how, chunks)
    PROVE  log' # log /\ Last(log').id = id /\ Last(log').how = how
<1> DEFINE e == [id |-> id, how |-> how, chunks |-> chunks]
<1>1. e \in Entry /\ e.id = id /\ e.how = how /\ log' = Append(log, e)
  BY DEF Ch!Log, Entry
<1>2. log \in Seq(Entry)
  BY DEF ChInv, LogOK, Entry
<1> HIDE DEF e
<1>3. Len(log') = Len(log) + 1 /\ log'[Len(log) + 1] = e /\ Len(log) \in Nat
  BY <1>1, <1>2, Appended
<1>4. log' # log
  BY <1>3
<1> QED  BY <1>1, <1>3, <1>4 DEF Last

LEMMA AnySkips ==
    ASSUME Ready, Still, ChInv', NEW c, Advance(c), ~Ch!InProgress, Skips(c), UNCHANGED rxVars
    PROVE  IInv'
<1>1. /\ seen' = c /\ c.id = seen.id /\ receiving'.st = "nothing" /\ receiving.st = "nothing"
      /\ data' = "none" /\ item' = item /\ got' = got /\ ended' = FALSE
  BY DEF Ready, Advance, Skips, Ch!Nothing, rxVars
<1>2. seen.id \in Nat
  BY SeenFacts DEF Ready, ChInv
<1>3. ~Working /\ ~Working'
  BY <1>1 DEF Working, Ready
<1>4. TaskOK'
  BY <1>1, TaskNone
<1>5. OutcomesOK'
  BY <1>1, <1>2, <1>3, OutcomesSame DEF Ready
<1>6. WaitingOK'
  <2>1. \A k : Serialized(k)' = Serialized(k)
    BY StillSame
  <2> QED  BY <1>1, <2>1 DEF Ready, WaitingOK, Still, Cur
<1>7. NoneForgotten'
  <2>1. \A k \in 1..Cur : Handled(k) => Handled(k)'
    BY <1>1 DEF Handled
  <2> QED  BY <1>1, <1>3, <2>1, RememberedHere DEF Ready, Kept
<1> QED  BY <1>1, <1>4, <1>5, <1>6, <1>7, ReceiverStep DEF Ready

LEMMA AnyBuffers ==
    ASSUME Ready, Still, ChInv', NEW c, Advance(c), ~Ch!InProgress, UNCHANGED rxVars,
           \/ c.kind = "data" /\ Grown(c, "data") /\ Buffers("data")
           \/ c.kind = "ports" /\ Grown(c, "requests") /\ Buffers("requests")
    PROVE  IInv'
<1>1. /\ seen' = c /\ receiving'.st \in {"data", "requests"}
      /\ receiving'.st = "data" <=> c.kind = "data"
      /\ data' = "none" /\ item' = item /\ got' = got /\ ended' = FALSE
  BY DEF Ready, Advance, Buffers, rxVars
<1>2. /\ seen.id \in Nat /\ c.id \in Nat \ {0} /\ seen.id <= c.id /\ Sent(c)
      /\ c.first => seen.id < c.id
  BY AdvanceFacts DEF Ready
<1>3. Working' <=> c.kind = "data"
  BY <1>1 DEF Working
<1>4. TaskOK'
  BY <1>1, TaskNone
<1>5. OutcomesOK'
  <2>1. Working' => Working \/ seen.id < seen'.id
    BY <1>1, <1>2, <1>3 DEF Grown, Working
  <2> QED  BY <1>1, <1>2, <2>1, OutcomesSame DEF Ready
<1>6. WaitingOK'
  <2> SUFFICES ASSUME item # 0 PROVE WaitingOK'
    BY <1>1 DEF WaitingOK
  <2>1. /\ item \in 1..Cur /\ items[item].msg \in Nat \ {0} /\ items[item].msg <= seen.id
        /\ \A id \in (items[item].msg + 1)..(c.id - 1) : msgs[id].state = "cancelled"
        /\ items[item].msg = c.id => receiving.st = "nothing" /\ ~c.first
    BY WaitingGap DEF Ready
  <2>2. items[item].msg # c.id /\ items[item].msg \in 1..c.id
    BY <1>2, <2>1 DEF Grown
  <2>3. \A id \in (items[item].msg + 1)..c.id : msgs[id].state = "cancelled" \/ id = c.id
    BY <1>2, <2>1
  <2>4. items[item].ports > 0 /\ Serialized(item) /\ \A i \in 1..Len(got) : got[i].item < item
    BY DEF Ready, WaitingOK
  <2>5. Cur' = Cur
    BY StillSame
  <2>6. Serialized(item)'
    BY <1>1, <2>4 DEF Serialized, Still, SendLimit
  <2>7. items' = items /\ msgs' = msgs
    BY DEF Still
  <2> QED  BY <1>1, <2>1, <2>2, <2>3, <2>4, <2>5, <2>6, <2>7 DEF WaitingOK
<1>7. NoneForgotten'
  <2>1. \A k \in 1..Cur : Handled(k) => Handled(k)'
    BY <1>1 DEF Handled
  <2>2. Working => ~seen.last
    BY WorkingOpen DEF Ready
  <2>3. ASSUME NEW k \in 1..Cur, Live(k), items[k].msg = c.id PROVE Kept(k)
    <3>1. msgs[c.id].kind = "data"
      BY <2>3, LiveFacts DEF Ready, ChInv
    <3>2. c.kind = "data"
      BY <1>2, <3>1, SentFacts DEF Ready, ChInv
    <3> QED  BY <1>1, <1>3, <2>3, <3>2 DEF Kept
  <2>4. \A k \in 1..Cur : Live(k) /\ item = k => Kept(k)
    BY <1>1 DEF Kept
  <2> QED  BY <1>1, <2>1, <2>2, <2>3, <2>4, RememberedNext DEF Ready
<1> QED  BY <1>1, <1>4, <1>5, <1>6, <1>7, ReceiverStep DEF Ready

\* The data of item k has been received: the item is returned, waits for its ports, or
\* cannot be taken.
LEMMA ItemReceived ==
    ASSUME ChInv, ItemsOK, OutcomesOK, Still, NEW k \in 1..Cur, seen.id \in Nat, seen'.id \in Nat,
           seen.id <= seen'.id, items[k].msg = seen'.id, items[k].msg > 0,
           data' = "none", receiving'.st = "nothing", \A i \in 1..Len(got) : got[i].item < k,
           \/ Reason(k) /\ item' = 0 /\ Return(k, "error")
           \/ Serialized(k) /\ Deserialized(k)
    PROVE  /\ OutcomesOK' /\ WaitingOK' /\ TaskOK' /\ (Handled(k)' \/ item' = k)
           /\ \A j : Handled(j) => Handled(j)'
<1>1. ~Working'
  BY DEF Working
<1>2. TaskOK'
  BY TaskNone
<1>3. items[k].msg \in 1..seen'.id
  BY ItemTypes
<1>4. CASE Reason(k) /\ item' = 0 /\ Return(k, "error")
  <2>1. OutcomesOK' /\ Handled(k)' /\ \A j : Handled(j) => Handled(j)'
    BY <1>1, <1>3, <1>4, OutcomesGrow
  <2>2. WaitingOK'
    BY <1>4 DEF WaitingOK
  <2> QED  BY <1>2, <2>1, <2>2
<1>5. CASE Serialized(k) /\ ~(items[k].ports > 0) /\ item' = 0 /\ Return(k, "item")
  <2>1. Complete(k)
    BY <1>5 DEF Complete
  <2>2. OutcomesOK' /\ Handled(k)' /\ \A j : Handled(j) => Handled(j)'
    BY <1>1, <1>3, <1>5, <2>1, OutcomesGrow
  <2>3. WaitingOK'
    BY <1>5 DEF WaitingOK
  <2> QED  BY <1>2, <2>2, <2>3
<1>6. CASE Serialized(k) /\ items[k].ports > 0 /\ item' = k /\ got' = got
  <2>1. OutcomesOK'
    BY <1>1, <1>6, OutcomesSame
  <2>2. \A j : Handled(j) => Handled(j)'
    BY <1>6 DEF Handled
  <2>3. WaitingOK'
    <3>1. Serialized(item)'
      BY <1>6 DEF Serialized, Still, SendLimit
    <3>2. Cur' = Cur /\ items' = items
      BY StillSame DEF Still
    <3>3. \A id \in (items[k].msg + 1)..seen'.id : FALSE
      OBVIOUS
    <3>4. item' \in 1..Cur' /\ items'[item'].msg \in 1..seen'.id /\ items'[item'].ports > 0
      BY <1>3, <1>6, <3>2
    <3>5. \A i \in 1..Len(got') : got'[i].item < item'
      BY <1>6
    <3>6. \A id \in (items'[item'].msg + 1)..seen'.id : FALSE
      BY <1>6, <3>2, <3>3
    <3> QED  BY <3>1, <3>4, <3>5, <3>6 DEF WaitingOK
  <2> QED  BY <1>2, <1>6, <2>1, <2>2, <2>3
<1> QED  BY <1>4, <1>5, <1>6 DEF Deserialized

LEMMA AnyData ==
    ASSUME Ready, Still, ChInv', NEW c, Advance(c), ~Ch!InProgress, c.kind = "data", Grown(c, "data"),
           Returns(c, "data"), NEW k, k = ItemOf(c.id), ReceiveData(k)
    PROVE  IInv'
<1>1. /\ seen.id \in Nat /\ c.id \in Nat \ {0} /\ seen.id <= c.id /\ Sent(c) /\ seen' = c
      /\ c.first => seen.id < c.id
  BY AdvanceFacts DEF Ready
<1>2. /\ c.id \in 1..Len(msgs) /\ msgs[c.id].kind = "data" /\ c.i \in 1..msgs[c.id].sent
      /\ c.last = (c.i = msgs[c.id].n)
  BY <1>1, SentFacts DEF Ready, ChInv
<1>3. k \in 1..Cur /\ items[k].msg = c.id
  BY <1>2, DataItem DEF Ready, ChInv
<1>4. /\ data' = "none" /\ ended' = FALSE /\ receiving'.st = "nothing" /\ c.last
      /\ \/ Reason(k) /\ item' = 0 /\ Return(k, "error")
         \/ items[k].fault # "odd" /\ Deserialized(k)
  BY DEF Ready, ReceiveData, Returns, Ch!Nothing, Reason
<1>5. \A i \in 1..Len(got) : got[i].item < k
  <2>1. seen.id < c.id \/ (seen.id = c.id /\ Working)
    BY <1>1 DEF Grown, Working
  <2> QED  BY <1>1, <1>3, <2>1, Below DEF Ready
<1>6. items[k].fault # "odd" => Serialized(k)
  <2>1. msgs[c.id].n = items[k].n + 1 - msgs[c.id].tail
    BY <1>1, <1>3, ItemFacts DEF Ready, ChInv
  <2>2. msgs[c.id].tail \in 0..1 /\ msgs[c.id].sent \in Nat /\ msgs[c.id].n \in Nat /\ items[k].n \in Nat
    BY <1>2, <1>3, MsgTypes, ItemTypes DEF Ready, ChInv
  <2>3. msgs[c.id].n <= msgs[c.id].sent
    <3>1. c.i = msgs[c.id].n /\ c.i \in 1..msgs[c.id].sent
      BY <1>2, <1>4
    <3> QED  BY ONLY <2>2, <3>1
  <2>4. items[k].n <= msgs[c.id].n
    BY <2>1, <2>2
  <2>5. items[k].n <= msgs[items[k].msg].sent
    BY <1>3, <2>2, <2>3, <2>4
  <2> QED  BY <1>1, <1>3, <2>5, AllSent DEF Ready, ChInv
<1>7. OutcomesOK' /\ WaitingOK' /\ TaskOK' /\ (Handled(k)' \/ item' = k) /\ \A j : Handled(j) => Handled(j)'
  BY <1>1, <1>3, <1>4, <1>5, <1>6, ItemReceived DEF Ready
<1>8. NoneForgotten'
  <2>1. Working => ~seen.last
    BY WorkingOpen DEF Ready
  <2>2. ASSUME NEW j \in 1..Cur, items[j].msg = c.id PROVE Kept(j)
    <3>1. j = k
      BY <1>1, <1>3, <2>2, ItemOrder DEF Ready
    <3> QED  BY <1>7, <3>1 DEF Kept
  <2>3. ASSUME NEW j \in 1..Cur, Live(j), item = j PROVE FALSE
    <3>1. item # 0
      BY <2>3
    <3> QED  BY <2>3, <3>1, WaitingOver DEF Ready
  <2> QED  BY <1>7, <2>1, <2>2, <2>3, RememberedNext DEF Ready
<1> QED  BY <1>4, <1>7, <1>8, ReceiverStep DEF Ready

\* Port requests arrive only after the data that they belong to, so an item that waits for
\* its ports gets its own.
LEMMA AnyRequests ==
    ASSUME Ready, Still, ChInv', NEW c, Advance(c), ~Ch!InProgress, c.kind = "ports",
           Returns(c, "ports"), ReceivePorts(c.id)
    PROVE  IInv'
<1>1. /\ seen.id \in Nat /\ c.id \in Nat \ {0} /\ seen.id <= c.id /\ Sent(c) /\ seen' = c
      /\ \A id \in (seen.id + 1)..(c.id - 1) : msgs[id].state = "cancelled"
  BY AdvanceFacts DEF Ready
<1>2. /\ c.id \in 1..Len(msgs) /\ msgs[c.id].kind = "ports" /\ c.i \in 1..msgs[c.id].sent
      /\ c.last = (c.i = msgs[c.id].n)
  BY <1>1, SentFacts DEF Ready, ChInv
<1>3. data' = "none" /\ ended' = FALSE /\ receiving'.st = "nothing" /\ c.last
  BY DEF Ready, ReceivePorts, Returns, Ch!Nothing
<1>4. TaskOK' /\ ~Working'
  BY <1>3, TaskNone DEF Working
<1>5. c.id > 1 /\ msgs[c.id - 1].kind = "data" /\ msgs[c.id - 1].state = "done"
  BY <1>2 DEF Ready, ItemsOK, MsgOK
<1>6. msgs[c.id].state = "done"
  <2>1. /\ msgs[c.id].sent <= msgs[c.id].n /\ msgs[c.id].n \in Nat /\ msgs[c.id].sent \in Nat
        /\ msgs[c.id].state = "done" <=> msgs[c.id].sent = msgs[c.id].n
    BY <1>2, MsgFacts, MsgTypes DEF Ready, ChInv
  <2>2. c.i = msgs[c.id].n /\ c.i \in 1..msgs[c.id].sent
    BY <1>2, <1>3
  <2>3. msgs[c.id].sent = msgs[c.id].n
    BY ONLY <2>1, <2>2
  <2> QED  BY <2>1, <2>3
<1>7. ASSUME \A k \in 1..Cur : Handled(k) => Handled(k)', \A k \in 1..Cur : Live(k) /\ item = k => Kept(k)
      PROVE  NoneForgotten'
  <2>1. Working => ~seen.last
    BY WorkingOpen DEF Ready
  <2>2. ASSUME NEW j \in 1..Cur, Live(j), items[j].msg = c.id PROVE FALSE
    BY <1>2, <2>2, LiveFacts DEF Ready, ChInv
  <2> QED  BY <1>7, <2>1, <2>2, RememberedNext DEF Ready
<1>8. CASE item = 0
  <2>1. item' = 0 /\ got' = got
    BY <1>8 DEF ReceivePorts
  <2>2. OutcomesOK'
    BY <1>1, <1>4, <2>1, OutcomesSame DEF Ready
  <2>3. WaitingOK'
    BY <2>1 DEF WaitingOK
  <2>4. \A k \in 1..Cur : Handled(k) => Handled(k)'
    BY <2>1 DEF Handled
  <2>5. \A k \in 1..Cur : Live(k) /\ item = k => Kept(k)
    BY <1>8
  <2> QED  BY <1>3, <1>4, <1>7, <2>2, <2>3, <2>4, <2>5, ReceiverStep DEF Ready
<1>9. CASE item # 0
  <2>1. /\ item \in 1..Cur /\ items[item].msg \in Nat \ {0} /\ items[item].msg <= seen.id
        /\ \A id \in (items[item].msg + 1)..(c.id - 1) : msgs[id].state = "cancelled"
    BY <1>9, WaitingGap DEF Ready
  <2>2. PICK k \in 1..Cur : k = item
    BY <2>1
  <2>3. PICK m \in Nat \ {0} : m = items[k].msg
    BY <2>1, <2>2
  <2>4. m # c.id
    BY <1>2, <2>1, <2>2, <2>3, ItemFacts DEF Ready, ChInv
  <2>5. c.id = m + 1
    <3>1. c.id - 1 \notin (m + 1)..(c.id - 1)
      BY <1>5, <2>1, <2>2, <2>3
    <3> QED  BY <1>1, <2>1, <2>2, <2>3, <2>4, <3>1
  <2>6. item' = 0 /\ Return(k, "item")
    BY <1>9, <2>2, <2>3, <2>5 DEF ReceivePorts
  <2>7. Complete(k)
    <3>1. Serialized(k)
      BY <1>9, <2>2 DEF Ready, WaitingOK
    <3>2. HasPorts(k) /\ msgs[items[k].msg + 1].state = "done"
      BY <1>2, <1>6, <2>3, <2>5 DEF HasPorts
    <3> QED  BY <3>1, <3>2 DEF Complete
  <2>8. \A i \in 1..Len(got) : got[i].item < k
    BY <1>9, <2>2 DEF Ready, WaitingOK
  <2>9. items[k].msg \in 1..seen'.id
    BY <1>1, <2>1, <2>2
  <2>10. OutcomesOK' /\ Handled(k)' /\ \A j : Handled(j) => Handled(j)'
    BY <1>1, <1>4, <2>6, <2>7, <2>8, <2>9, OutcomesGrow DEF Ready
  <2>11. WaitingOK'
    BY <2>6 DEF WaitingOK
  <2>12. \A j \in 1..Cur : Live(j) /\ item = j => Kept(j)
    BY <2>2, <2>10 DEF Kept
  <2> QED  BY <1>3, <1>4, <1>7, <2>10, <2>11, <2>12, ReceiverStep DEF Ready
<1> QED  BY <1>8, <1>9

\* recv_any reports chunks.
LEMMA AnyStreams ==
    ASSUME Ready, Still, ChInv', ReceiveChunks, streaming' = TRUE, parts' = <<>>,
           receiving'.st = "chunks", receiving'.announced = TRUE, receiving'.buf # <<>>,
           seen.id \in Nat, seen'.id \in Nat, seen.id <= seen'.id,
           seen.id < seen'.id \/ Working,
           NoneForgotten'
    PROVE  IInv'
<1>1. /\ data' = IF "rx" \in threads THEN "streamed" ELSE "unavailable"
      /\ fed' = <<>> /\ item' = 0 /\ got' = got /\ ended' = FALSE
  BY DEF ReceiveChunks, Ready
<1>2. threads' = threads
  BY StillSame
<1>3. Ch!InProgress'
  BY DEF Ch!InProgress
<1>4. TaskOK'
  BY <1>1, <1>2, <1>3 DEF TaskOK
<1>5. OutcomesOK'
  BY <1>1, OutcomesSame DEF Ready
<1>6. WaitingOK'
  BY <1>1 DEF WaitingOK
<1> QED  BY <1>1, <1>4, <1>5, <1>6, ReceiverStep DEF Ready

LEMMA AnyAnnounces ==
    ASSUME Ready, Still, ChInv', NEW c, Advance(c), ~Ch!InProgress, c.kind = "data", Grown(c, "data"),
           Announces, ReceiveChunks
    PROVE  IInv'
<1>1. /\ seen.id \in Nat /\ c.id \in Nat \ {0} /\ seen.id <= c.id /\ seen' = c
      /\ c.first => seen.id < c.id
  BY AdvanceFacts DEF Ready
<1>2. /\ streaming' = TRUE /\ parts' = <<>> /\ receiving'.st = "chunks" /\ receiving'.announced = TRUE
      /\ receiving'.buf # <<>>
  BY DEF Announces, ChInv, ReceivingOK, Receiving
<1>3. seen.id < c.id \/ Working
  BY <1>1 DEF Grown, Working
<1>4. got' = got /\ data' # "none"
  BY DEF ReceiveChunks
<1>5. NoneForgotten'
  <2>1. Working => ~seen.last
    BY WorkingOpen DEF Ready
  <2>2. \A j \in 1..Cur : items[j].msg = c.id => Kept(j)
    BY <1>1, <1>4 DEF Kept, Working
  <2>3. ASSUME NEW j \in 1..Cur, Live(j), item = j PROVE FALSE
    <3>1. item # 0
      BY <2>3
    <3> QED  BY <2>3, <3>1, WaitingOver DEF Ready
  <2>4. \A k \in 1..Cur : Handled(k) => Handled(k)'
    BY <1>4 DEF Handled
  <2> QED  BY <2>1, <2>2, <2>3, <2>4, RememberedNext DEF Ready
<1> QED  BY <1>1, <1>2, <1>3, <1>5, AnyStreams

LEMMA AnyContinues ==
    ASSUME Ready, Still, ChInv', Continues, Reannounces, ReceiveChunks
    PROVE  IInv'
<1>1. receiving.st = "chunks" /\ item = 0 /\ parts = <<>> /\ receiving.buf # <<>> /\ Working
  BY DEF Ready, Continues, Ch!InProgress, TaskOK, Working
<1>2. receiving \in Receiving
  BY DEF Ready, ChInv, ReceivingOK
<1>3. /\ streaming' = TRUE /\ parts' = <<>> /\ receiving'.st = "chunks" /\ receiving'.announced = TRUE
      /\ receiving'.buf # <<>>
  BY <1>1, <1>2 DEF Reannounces, Receiving
<1>4. seen' = seen /\ seen.id \in Nat
  BY SeenFacts DEF Ready, ChInv, Continues
<1>5. got' = got /\ data' # "none"
  BY DEF ReceiveChunks
<1>6. NoneForgotten'
  <2>1. \A k \in 1..Cur : Handled(k) => Handled(k)'
    BY <1>5 DEF Handled
  <2>2. \A j \in 1..Cur : items[j].msg = seen.id => Kept(j)
    BY <1>4, <1>5 DEF Kept, Working
  <2> QED  BY <1>1, <1>4, <2>1, <2>2, RememberedHere DEF Ready
<1>7. seen'.id \in Nat /\ seen.id <= seen'.id
  BY <1>4
<1> QED  BY <1>1, <1>3, <1>4, <1>6, <1>7, AnyStreams

\* recv_any reports the end.
LEMMA AnyEnds ==
    ASSUME Ready, Still, ChInv', closed, AtEnd(seen), finished' = TRUE, seen' = seen,
           receiving' = receiving, receiving.st # "chunks", ReceiveEnd
    PROVE  IInv'
<1>1. ended' = TRUE /\ item' = 0 /\ data' = "none" /\ got' = got
  BY DEF ReceiveEnd, Ready
<1>2. seen.id \in Nat
  BY SeenFacts DEF Ready, ChInv
<1>3. Working' <=> Working
  BY <1>1 DEF Working, Ready
<1>4. TaskOK'
  BY <1>1, TaskNone
<1>5. OutcomesOK'
  BY <1>1, <1>2, <1>3, OutcomesSame DEF Ready
<1>6. WaitingOK'
  BY <1>1 DEF WaitingOK
<1>7. NoneForgotten'
  <2>1. \A k \in 1..Cur : Handled(k) => Handled(k)'
    BY <1>1 DEF Handled
  <2>2. \A j \in 1..Cur : items[j].msg = seen.id /\ Working => Kept(j)
    BY <1>3 DEF Kept
  <2>3. ASSUME NEW j \in 1..Cur, Live(j), item = j PROVE FALSE
    <3>1. item # 0
      BY <2>3
    <3> QED  BY <2>3, <3>1, EndForgotten DEF Ready
  <2> QED  BY <2>1, <2>2, <2>3, RememberedHere DEF Ready
<1> QED  BY <1>1, <1>4, <1>5, <1>6, <1>7, ReceiverStep DEF Ready

LEMMA WholeTyped ==
    ASSUME MsgsOK, NEW id \in 1..Len(msgs)
    PROVE  Ch!Whole(id) \in Seq(AChunk)
<1>1. msgs[id].n \in 0..msgs[id].n
  BY MsgTypes
<1>2. Prefix(id, msgs[id].n) \in Seq(AChunk)
  BY <1>1, PrefixFacts
<1> QED  BY <1>2, PrefixWhole

LEMMA RecvAnyStep ==
    ASSUME IInv, ~setup.bin, RecvAny
    PROVE  IInv'
<1>1. Ready /\ ChInv /\ Ch!RecvAny("recv_any") /\ items' = items /\ setup' = setup
  BY IsReady DEF RecvAny, txVars, Ready
<1>2. IF log' # log
      THEN IF Last(log').how = "data" THEN ReceiveData(ItemOf(Last(log').id))
           ELSE ReceivePorts(Last(log').id)
      ELSE IF streaming' THEN ReceiveChunks
      ELSE IF finished' THEN ReceiveEnd
      ELSE UNCHANGED rxVars
  BY DEF RecvAny
<1>3. /\ ChInv' /\ UNCHANGED <<msgs, closed>>
      /\ \/ Continues /\ Reannounces
         \/ \E c \in AChunk : Takes("recv_any", c)
         \/ Finishes
  BY <1>1, RecvAnyKeeps
<1>4. Still
  BY <1>1, <1>3 DEF Still
<1>5. CASE Continues /\ Reannounces
  <2>1. ReceiveChunks
    BY <1>2, <1>5 DEF Reannounces
  <2> QED  BY <1>1, <1>3, <1>4, <1>5, <2>1, AnyContinues
<1>6. CASE \E c \in AChunk : Takes("recv_any", c)
  <2>1. PICK c \in AChunk : Takes("recv_any", c)
    BY <1>6
  <2>2. ~Ch!InProgress /\ Advance(c) /\ ~finished'
    BY <2>1 DEF Takes
  <2>3. \/ Skips(c)
        \/ c.kind = "data" /\ Grown(c, "data") /\ Buffers("data")
        \/ c.kind = "data" /\ Grown(c, "data") /\ Returns(c, "data")
        \/ c.kind = "data" /\ Grown(c, "data") /\ Announces
        \/ c.kind = "ports" /\ Grown(c, "requests") /\ Buffers("requests")
        \/ c.kind = "ports" /\ Returns(c, "ports")
        \/ c.kind = "ports" /\ c.i > MaxPorts
    BY <2>1 DEF Takes
  <2>4. /\ c.id \in 1..Len(msgs) /\ c.id \in Nat /\ c.i \in 1..msgs[c.id].n /\ c.kind = msgs[c.id].kind
        /\ Ch!Whole(c.id) \in Seq(AChunk)
    BY <1>1, <2>2, SentFacts, WholeTyped DEF Advance, ChInv
  <2>5. CASE Skips(c)
    <3>1. UNCHANGED rxVars
      BY <1>2, <2>2, <2>5 DEF Skips
    <3> QED  BY <1>1, <1>3, <1>4, <2>2, <2>5, <3>1, AnySkips
  <2>6. CASE \/ c.kind = "data" /\ Grown(c, "data") /\ Buffers("data")
             \/ c.kind = "ports" /\ Grown(c, "requests") /\ Buffers("requests")
    <3>1. UNCHANGED rxVars
      BY <1>2, <2>2, <2>6 DEF Buffers
    <3> QED  BY <1>1, <1>3, <1>4, <2>2, <2>6, <3>1, AnyBuffers
  <2>7. CASE c.kind = "data" /\ Grown(c, "data") /\ Returns(c, "data")
    <3>1. Ch!Log(c.id, "data", Ch!Whole(c.id)) /\ "data" \in Hows
      BY <2>7 DEF Returns, Hows
    <3>2. log' # log /\ Last(log').id = c.id /\ Last(log').how = "data"
      BY <1>1, <2>4, <3>1, LogLast
    <3>3. ReceiveData(ItemOf(c.id))
      BY <1>2, <3>2
    <3> QED  BY <1>1, <1>3, <1>4, <2>2, <2>7, <3>3, AnyData
  <2>8. CASE c.kind = "data" /\ Grown(c, "data") /\ Announces
    <3>1. ReceiveChunks
      BY <1>2, <2>8 DEF Announces
    <3> QED  BY <1>1, <1>3, <1>4, <2>2, <2>8, <3>1, AnyAnnounces
  <2>9. CASE c.kind = "ports" /\ Returns(c, "ports")
    <3>1. Ch!Log(c.id, "ports", Ch!Whole(c.id)) /\ "ports" \in Hows
      BY <2>9 DEF Returns, Hows
    <3>2. log' # log /\ Last(log').id = c.id /\ Last(log').how = "ports"
      BY <1>1, <2>4, <3>1, LogLast
    <3>3. ReceivePorts(c.id)
      BY <1>2, <3>2
    <3> QED  BY <1>1, <1>3, <1>4, <2>2, <2>9, <3>3, AnyRequests
  <2>10. CASE c.kind = "ports" /\ c.i > MaxPorts
    <3>1. MsgOK(c.id) /\ msgs[c.id].kind = "ports"
      BY <1>1, <2>4, <2>10 DEF Ready, ItemsOK
    <3>2. msgs[c.id].n <= MaxPorts
      BY <3>1 DEF MsgOK
    <3>3. MaxPorts \in Nat /\ msgs[c.id].n \in Nat
      BY <1>1, <2>4, MsgTypes, ChannelAssumption DEF Ch!FramingAssumption, ChInv
    <3> QED  BY <2>4, <2>10, <3>2, <3>3
  <2> QED  BY <2>3, <2>5, <2>6, <2>7, <2>8, <2>9, <2>10
<1>7. CASE Finishes
  <2>1. receiving.st # "chunks"
    BY <1>1, <1>7 DEF Finishes, Ready, TaskOK, Ch!InProgress
  <2>2. /\ closed /\ AtEnd(seen) /\ seen' = seen /\ receiving' = receiving /\ streaming' = FALSE
        /\ log' = log /\ finished'
    BY <1>7, <2>1 DEF Finishes, Ch!Continue
  <2>3. finished' = TRUE
    BY <1>3, <2>2 DEF ChInv, ChanOK
  <2>4. ReceiveEnd
    BY <1>2, <2>2
  <2> QED  BY <1>1, <1>3, <1>4, <2>1, <2>2, <2>3, <2>4, AnyEnds
<1> QED  BY <1>3, <1>5, <1>6, <1>7

LEMMA RecvFinishedStep ==
    ASSUME IInv, ~setup.bin, RecvFinished
    PROVE  IInv'
<1>1. Ready /\ ChInv /\ finished /\ ReceiveEnd /\ UNCHANGED chVars /\ items' = items /\ setup' = setup
  BY IsReady DEF RecvFinished, txVars, Ready
<1>2. ChInv'
  BY <1>1, ChStays
<1>3. /\ Still /\ finished' = finished /\ finished = TRUE /\ seen' = seen /\ receiving' = receiving
  BY <1>1 DEF chVars, Still, ChInv, ChanOK
<1>4. chan = <<>>
  BY <1>1 DEF ChInv, ChanOK
<1>5. AtEnd(seen) /\ closed
  <2>1. AtEnd(Prior(Len(chan) + 1)) /\ finished = closed
    BY <1>1, <1>4 DEF ChInv, ChanOK, EndOK
  <2>2. Prior(Len(chan) + 1) = seen
    BY <1>4 DEF Prior
  <2> QED  BY <1>3, <2>1, <2>2
<1>6. receiving.st # "chunks"
  BY <1>1 DEF ChInv, ReceivingOK, StreamOK
<1> QED  BY <1>1, <1>2, <1>3, <1>5, <1>6, AnyEnds

\* The receiver has a stream for the deserializer.
Busy ==
    /\ IInv /\ ~setup.bin /\ data # "none" /\ item = 0 /\ ended = FALSE /\ Working
    /\ ChInv /\ ItemsOK /\ TaskOK /\ OutcomesOK /\ NoneForgotten /\ setup \in Setups

LEMMA IsBusy == IInv /\ ~setup.bin /\ data # "none" => Busy
<1> SUFFICES ASSUME IInv, ~setup.bin, data # "none" PROVE Busy
  OBVIOUS
<1>1. /\ ChInv /\ ItemsOK /\ TaskOK /\ OutcomesOK /\ NoneForgotten /\ setup \in Setups
      /\ ended \in BOOLEAN /\ ~ended
  BY DEF IInv, ItemInv
<1>2. item = 0
  BY <1>1 DEF TaskOK
<1> QED  BY <1>1, <1>2 DEF Busy, Working

\* The stream goes on, or is left to the deserializer.
LEMMA StreamGoesOn ==
    ASSUME Busy, Still, ChInv', seen'.id = seen.id, data' # "none", TaskOK',
           got' = got, item' = item, ended' = ended
    PROVE  IInv'
<1>1. seen.id \in Nat /\ Working' /\ item' = 0 /\ ended' = FALSE
  BY SeenFacts DEF Busy, ChInv, Working
<1>2. seen'.id \in Nat /\ seen.id <= seen'.id
  BY <1>1
<1>3. OutcomesOK'
  BY <1>1, <1>2, OutcomesSame DEF Busy
<1>4. WaitingOK'
  BY <1>1 DEF WaitingOK
<1>5. NoneForgotten'
  <2>1. \A k \in 1..Cur : Handled(k) => Handled(k)'
    BY DEF Handled
  <2>2. \A k \in 1..Cur : seen.id = items[k].msg => Kept(k)
    BY <1>1 DEF Kept
  <2>3. \A k \in 1..Cur : Live(k) /\ item = k => Kept(k)
    BY DEF Busy
  <2> QED  BY <2>1, <2>2, <2>3, RememberedHere DEF Busy
<1> QED  BY <1>1, <1>3, <1>4, <1>5, ReceiverStep DEF Busy

\* The item of the stream has its outcome, or waits for its ports.
LEMMA StreamDone ==
    ASSUME Busy, Still, ChInv', seen' = seen, seen.id > 0, seen.kind = "data", NEW k, k = ItemOf(seen.id),
           data' = "none", receiving'.st = "nothing", ended' = ended,
           \/ Reason(k) /\ item' = 0 /\ Return(k, "error")
           \/ Serialized(k) /\ Deserialized(k)
    PROVE  IInv'
<1>1. seen.id \in Nat /\ Sent(seen)
  BY SeenFacts DEF Busy, ChInv
<1>2. seen.id \in 1..Len(msgs) /\ msgs[seen.id].kind = "data"
  BY <1>1, SentFacts DEF Busy, ChInv
<1>3. k \in 1..Cur /\ items[k].msg = seen.id
  BY <1>2, DataItem DEF Busy, ChInv
<1>4. \A i \in 1..Len(got) : got[i].item < k
  BY <1>1, <1>3, Below DEF Busy
<1>5. seen'.id \in Nat /\ seen.id <= seen'.id /\ items[k].msg = seen'.id
  BY <1>1, <1>3
<1>6. OutcomesOK' /\ WaitingOK' /\ TaskOK' /\ (Handled(k)' \/ item' = k) /\ \A j : Handled(j) => Handled(j)'
  BY <1>1, <1>3, <1>4, <1>5, ItemReceived DEF Busy
<1>7. NoneForgotten'
  <2>1. ASSUME NEW j \in 1..Cur, seen.id = items[j].msg PROVE Kept(j)
    <3>1. j = k
      BY <1>3, <2>1, ItemOrder DEF Busy
    <3> QED  BY <1>6, <3>1 DEF Kept
  <2>2. \A j \in 1..Cur : Live(j) /\ item = j => Kept(j)
    BY DEF Busy
  <2> QED  BY <1>6, <2>1, <2>2, RememberedHere DEF Busy
<1> QED  BY <1>6, <1>7, ReceiverStep DEF Busy

\* A stream that is given up.
LEMMA StreamDiscarded ==
    ASSUME Busy, Ch!DiscardChunks, UNCHANGED txVars
    PROVE  /\ Still /\ ChInv' /\ seen' = seen /\ seen.id > 0 /\ seen.kind = "data"
           /\ receiving'.st = "nothing" /\ receiving.st = "chunks"
<1>1. /\ ChInv' /\ receiving' = Ch!Nothing /\ receiving.st = "chunks"
      /\ UNCHANGED <<msgs, closed, chan, finished, seen>>
  BY DiscardKeeps DEF Busy
<1>2. seen.id > 0 /\ seen.kind = "data"
  BY <1>1 DEF Busy, ChInv, ReceivingOK, StreamOK
<1> QED  BY <1>1, <1>2 DEF Still, txVars, Ch!Nothing

LEMMA RecvUnavailableStep ==
    ASSUME IInv, ~setup.bin, RecvUnavailable
    PROVE  IInv'
<1>1. /\ Busy /\ Ch!DiscardChunks /\ UNCHANGED txVars /\ data' = "none" /\ item' = 0 /\ ended' = ended
      /\ Return(ItemOf(seen.id), "error") /\ data = "unavailable"
  BY IsBusy DEF RecvUnavailable, Busy
<1>2. /\ Still /\ ChInv' /\ seen' = seen /\ seen.id > 0 /\ seen.kind = "data"
      /\ receiving'.st = "nothing"
  BY <1>1, StreamDiscarded
<1>3. Reason(ItemOf(seen.id))
  BY <1>1 DEF Busy, TaskOK, Reason
<1> QED  BY <1>1, <1>2, <1>3, StreamDone

LEMMA RecvExceededStep ==
    ASSUME IInv, ~setup.bin, RecvExceeded
    PROVE  IInv'
<1>1. /\ Busy /\ Discard /\ UNCHANGED txVars /\ data' = "none" /\ item' = 0 /\ ended' = ended
      /\ Return(ItemOf(seen.id), "error") /\ data = "exceeded"
  BY IsBusy DEF RecvExceeded, Busy
<1>2. Ch!DiscardChunks
  BY <1>1 DEF Busy, TaskOK, Discard
<1>3. /\ Still /\ ChInv' /\ seen' = seen /\ seen.id > 0 /\ seen.kind = "data"
      /\ receiving'.st = "nothing"
  BY <1>1, <1>2, StreamDiscarded
<1>4. Reason(ItemOf(seen.id))
  BY <1>1 DEF Busy, TaskOK, Reason
<1> QED  BY <1>1, <1>3, <1>4, StreamDone

\* What the deserializer has been fed so far.
LEMMA FedFacts ==
    ASSUME Busy, data = "streamed"
    PROVE  /\ seen.id \in 1..Len(msgs) /\ seen.kind = "data" /\ seen.id > 0 /\ Sent(seen)
           /\ Len(parts) \in 0..seen.i /\ seen.i \in 1..msgs[seen.id].n
           /\ fed = Prefix(seen.id, Len(parts)) /\ fed = parts
           /\ receiving.st = "chunks" /\ receiving.announced
           /\ receiving.buf = <<>> => Len(parts) = seen.i
           /\ receiving.completed = seen.last
<1>1. receiving.st = "chunks" /\ receiving.announced /\ fed = parts
  BY DEF Busy, TaskOK
<1>2. /\ seen.id > 0 /\ seen.kind = "data" /\ Len(parts) + Len(receiving.buf) = seen.i
      /\ \A i \in 1..Len(parts) : parts[i] = Ch!Chunk(seen.id, i)
      /\ receiving.completed = seen.last
  BY <1>1 DEF Busy, ChInv, ReceivingOK, StreamOK
<1>3. Sent(seen) /\ seen.id \in 1..Len(msgs) /\ seen.i \in 1..msgs[seen.id].n
  BY <1>2, SeenFacts, SentFacts DEF Busy, ChInv
<1>4. parts \in Seq(AChunk) /\ Len(parts) \in Nat /\ Len(receiving.buf) \in Nat
      /\ msgs[seen.id].n \in Nat
  BY <1>3, MsgTypes DEF Busy, ChInv, ReceivingOK, Receiving
<1>5. Len(parts) \in 0..seen.i /\ Len(parts) \in 0..msgs[seen.id].n
  <2>1. Len(parts) + Len(receiving.buf) = seen.i /\ seen.i \in 1..msgs[seen.id].n
    BY <1>2, <1>3
  <2>2. Len(parts) \in Nat /\ Len(receiving.buf) \in Nat /\ msgs[seen.id].n \in Nat
    BY <1>4
  <2> QED  BY ONLY <2>1, <2>2
<1>6. parts = Prefix(seen.id, Len(parts))
  BY <1>2, <1>3, <1>4, <1>5, FirstChunks DEF Busy, ChInv
<1>7. receiving.buf = <<>> => Len(parts) = seen.i
  BY <1>2, <1>4
<1> QED  BY <1>1, <1>2, <1>3, <1>5, <1>6, <1>7

LEMMA FrontFacts ==
    ASSUME NEW s \in Seq(AChunk), s # <<>>
    PROVE  /\ Front(s) \in Seq(AChunk) /\ Len(Front(s)) = Len(s) - 1 /\ Len(s) \in Nat \ {0}
           /\ \A i \in 1..(Len(s) - 1) : Front(s)[i] = s[i]
<1>1. Len(s) \in Nat \ {0} /\ \A i \in 1..Len(s) : s[i] \in AChunk
  OBVIOUS
<1>2. PICK n \in Nat : n = Len(s) - 1 /\ n < Len(s)
  <2>1. Len(s) - 1 \in Nat /\ Len(s) - 1 < Len(s)
    BY <1>1
  <2> QED  BY <2>1
<1>3. Len(SubSeq(s, 1, n)) = n /\ SubSeq(s, 1, n) \in Seq(AChunk)
  BY <1>1, <1>2
<1>4. \A i \in 1..n : SubSeq(s, 1, n)[i] = s[1 + i - 1] /\ 1 + i - 1 = i
  BY <1>1, <1>2
<1> QED  BY <1>1, <1>2, <1>3, <1>4 DEF Front

\* The data of the chunks, which are all of a message or its beginning.
LEMMA BytesFacts ==
    ASSUME NEW s \in Seq(AChunk), s # <<>>
    PROVE  /\ Bytes(s) \in Seq(AChunk) /\ Len(Bytes(s)) \in Nat /\ Len(Bytes(s)) <= Len(s)
           /\ \A i \in 1..Len(Bytes(s)) : Bytes(s)[i] = s[i]
<1>1. /\ Front(s) \in Seq(AChunk) /\ Len(Front(s)) = Len(s) - 1 /\ Len(s) \in Nat \ {0}
      /\ \A i \in 1..(Len(s) - 1) : Front(s)[i] = s[i]
  BY FrontFacts
<1>2. CASE Bytes(s) = s
  BY <1>1, <1>2
<1>3. CASE Bytes(s) = Front(s)
  BY <1>1, <1>3
<1> QED  BY <1>2, <1>3 DEF Bytes

\* All chunks of a message make its item.
LEMMA WholeFed ==
    ASSUME MsgsOK, ItemsOK, NEW id \in 1..Len(msgs), msgs[id].kind = "data", NEW s,
           s = Prefix(id, msgs[id].n)
    PROVE  Whole(s)
<1>1. PICK k \in 1..Cur : k = ItemOf(id) /\ items[k].msg = id /\ id > 0
  BY DataItem
<1>2. /\ msgs[id].n = items[k].n + 1 - msgs[id].tail /\ msgs[id].n \in Nat \ {0}
      /\ msgs[id].tail \in 0..1 /\ items[k].n \in Nat \ {0}
  BY <1>1, ItemFacts, MsgTypes, ItemTypes
<1>3. PICK l \in Nat \ {0} : l = msgs[id].n
  BY <1>2
<1>4. PICK n \in Nat \ {0} : n = items[k].n
  BY <1>2
<1>5. s \in Seq(AChunk) /\ Len(s) = l /\ \A i \in 1..l : s[i] = Ch!Chunk(id, i)
  BY <1>3, PrefixFacts
<1>6. s # <<>> /\ Last(s) = Ch!Chunk(id, l)
  BY <1>5 DEF Last
<1>7. Last(s).size = msgs[id].tail
  BY <1>3, <1>6, ChunkFacts
<1>8. n \in 0..l /\ (msgs[id].tail = 0 => l = n + 1) /\ (msgs[id].tail # 0 => l = n)
  BY <1>2, <1>3, <1>4
<1>9. Bytes(s) = Prefix(id, n)
  <2>1. CASE msgs[id].tail = 0
    <3>1. Bytes(s) = Front(s)
      BY <1>6, <1>7, <2>1 DEF Bytes
    <3>2. Front(s) \in Seq(AChunk) /\ Len(Front(s)) = n /\ \A i \in 1..n : Front(s)[i] = Ch!Chunk(id, i)
      <4>1. Len(s) - 1 = n /\ \A i \in 1..n : i \in 1..l
        BY <1>5, <1>8, <2>1
      <4>2. /\ Front(s) \in Seq(AChunk) /\ Len(Front(s)) = n
            /\ \A i \in 1..n : Front(s)[i] = s[i]
        BY <1>5, <1>6, <4>1, FrontFacts
      <4> QED  BY <1>5, <4>1, <4>2
    <3>3. Front(s) = Prefix(id, n)
      BY <1>3, <1>8, <3>2, FirstChunks
    <3> QED  BY <3>1, <3>3
  <2>2. CASE msgs[id].tail # 0
    BY <1>3, <1>7, <1>8, <2>2 DEF Bytes
  <2> QED  BY <2>1, <2>2
<1> QED  BY <1>1, <1>4, <1>9 DEF Whole, Prefix

\* What makes an item has all of its data.
LEMMA WholeIs ==
    ASSUME MsgsOK, ItemsOK, NEW id \in 1..Len(msgs), msgs[id].kind = "data",
           NEW j \in 1..msgs[id].n, NEW s, s = Prefix(id, j), Whole(s)
    PROVE  items[ItemOf(id)].n <= j
<1>1. msgs[id].n \in Nat /\ j \in 0..msgs[id].n /\ j \in Nat \ {0}
  BY MsgTypes
<1>2. s \in Seq(AChunk) /\ Len(s) = j /\ \A i \in 1..j : s[i] = Ch!Chunk(id, i)
  BY <1>1, PrefixFacts
<1>3. s # <<>>
  BY <1>1, <1>2
<1>4. PICK k \in 1..Cur : /\ items[k].msg > 0
                          /\ Bytes(s) = [i \in 1..items[k].n |-> Ch!Chunk(items[k].msg, i)]
  BY DEF Whole
<1>5. PICK n \in Nat \ {0} : n = items[k].n
  BY ItemTypes
<1>6. /\ Bytes(s) \in Seq(AChunk) /\ Len(Bytes(s)) \in Nat /\ Len(Bytes(s)) <= j
      /\ \A i \in 1..Len(Bytes(s)) : Bytes(s)[i] = s[i]
  BY <1>2, <1>3, BytesFacts
<1>7. Len(Bytes(s)) = n /\ Bytes(s)[1] = Ch!Chunk(items[k].msg, 1)
  <2>1. Bytes(s) = [i \in 1..n |-> Ch!Chunk(items[k].msg, i)]
    BY <1>4, <1>5
  <2>2. DOMAIN Bytes(s) = 1..n /\ Bytes(s)[1] = Ch!Chunk(items[k].msg, 1)
    BY <2>1
  <2>3. DOMAIN Bytes(s) = 1..Len(Bytes(s))
    BY <1>6
  <2> QED  BY <1>6, <2>2, <2>3
<1>8. n <= j /\ Ch!Chunk(items[k].msg, 1) = Ch!Chunk(id, 1)
  BY <1>1, <1>2, <1>6, <1>7
<1>9. Ch!Chunk(items[k].msg, 1).id = items[k].msg /\ Ch!Chunk(id, 1).id = id
  BY DEF Ch!Chunk
<1>10. items[k].msg = id
  BY <1>8, <1>9
<1>11. k = ItemOf(id)
  BY <1>4, <1>10, ItemOfIs DEF ItemsFound
<1> QED  BY <1>5, <1>8, <1>11

\* The deserializer makes nothing of no data.
LEMMA NothingFed ==
    ASSUME ItemsOK, Whole(<<>>) \/ Undecodable(<<>>)
    PROVE  FALSE
<1>1. PICK k \in 1..Cur : Bytes(<<>>) = [i \in 1..items[k].n |-> Ch!Chunk(items[k].msg, i)]
  BY DEF Undecodable, Whole
<1>2. items[k].n \in Nat \ {0}
  BY ItemTypes
<1>3. Bytes(<<>>) = <<>>
  BY DEF Bytes
<1>4. DOMAIN <<>> = 1..items[k].n
  BY <1>1, <1>3
<1> QED  BY <1>2, <1>4

\* A chunk counts as part of the item.
LEMMA ChunkCounts ==
    ASSUME MsgsOK, ItemsOK, NEW id \in 1..Len(msgs), msgs[id].kind = "data",
           NEW j \in Nat, j + 1 \in 1..msgs[id].n
    PROVE  Ch!Chunk(id, j + 1).size \in 0..1 /\ j + Ch!Chunk(id, j + 1).size <= items[ItemOf(id)].n
<1>1. PICK k \in 1..Cur : k = ItemOf(id) /\ items[k].msg = id /\ id > 0
  BY DataItem
<1>2. PICK n \in Nat \ {0} : n = items[k].n
  BY ItemTypes
<1>3. PICK t \in 0..1 : t = msgs[id].tail
  BY MsgTypes
<1>4. PICK l \in Nat \ {0} : l = msgs[id].n
  BY MsgTypes
<1>5. l = n + 1 - t
  BY <1>1, <1>2, <1>3, <1>4, ItemFacts
<1>6. Ch!Chunk(id, j + 1).size = (IF j + 1 = l THEN t ELSE 1)
  BY <1>3, <1>4, ChunkFacts
<1>7. PICK z \in 0..1 : z = Ch!Chunk(id, j + 1).size /\ z = (IF j + 1 = l THEN t ELSE 1)
  BY <1>6
<1>8. j + z <= n
  BY <1>4, <1>5, <1>7
<1> QED  BY <1>1, <1>2, <1>7, <1>8

LEMMA FeedReturns ==
    ASSUME Busy, Still, ChInv', data = "streamed", ReturnsChunk,
           IF Ch!BufSize(fed) + Last(parts').size > RecvLimit
           THEN data' = "exceeded" /\ UNCHANGED fed
           ELSE fed' = Append(fed, Last(parts')) /\ UNCHANGED data,
           got' = got, item' = item, ended' = ended
    PROVE  IInv'
<1>1. /\ seen.id \in 1..Len(msgs) /\ seen.kind = "data" /\ seen.id > 0 /\ Sent(seen)
      /\ Len(parts) \in 0..seen.i /\ fed = Prefix(seen.id, Len(parts)) /\ fed = parts
  BY FedFacts
<1>2. PICK j \in Nat : j = Len(parts)
  BY DEF Busy, ChInv, ReceivingOK
<1>3. MsgsOK /\ ItemsOK /\ msgs[seen.id].kind = "data" /\ seen.id \in Nat
  BY <1>1, SentFacts DEF Busy, ChInv
<1>4. /\ parts' = Append(parts, Ch!Chunk(seen.id, j + 1)) /\ Len(parts') = j + 1
      /\ j + 1 <= seen'.i /\ Sent(seen') /\ seen'.id = seen.id
      /\ receiving'.st = "chunks" /\ receiving'.announced /\ streaming'
  BY <1>2 DEF ReturnsChunk
<1>5. seen'.i \in 1..msgs[seen.id].n /\ msgs[seen.id].n \in Nat
  BY <1>1, <1>3, <1>4, SentFacts, MsgTypes
<1>6. j + 1 \in 1..msgs[seen.id].n /\ j \in 0..msgs[seen.id].n
  BY <1>4, <1>5
<1>7. Ch!Chunk(seen.id, j + 1) \in AChunk
  BY <1>1, <1>3, <1>6, ChunkFacts
<1>8. parts \in Seq(AChunk)
  BY DEF Busy, ChInv, ReceivingOK
<1>9. Last(parts') = Ch!Chunk(seen.id, j + 1)
  <2>1. parts'[j + 1] = Ch!Chunk(seen.id, j + 1)
    BY <1>2, <1>4, <1>7, <1>8, Appended
  <2> QED  BY <1>4, <2>1 DEF Last
<1>10. data' # "none" /\ item' = 0
  BY DEF Busy
<1>11. CASE Ch!BufSize(fed) + Last(parts').size > RecvLimit
  <2>1. PICK b \in Nat : b = Ch!BufSize(fed) /\ b <= j
    BY <1>1, <1>2, <1>3, <1>6, PrefixSize
  <2>2. PICK z \in 0..1 : z = Last(parts').size /\ j + z <= items[ItemOf(seen.id)].n
    BY <1>1, <1>3, <1>6, <1>9, ChunkCounts
  <2>3. PICK n \in Nat : n = items[ItemOf(seen.id)].n
    BY <1>1, <1>3, DataItem, ItemTypes
  <2>4. RecvLimit \in Nat
    BY SetupTypes DEF Busy
  <2>5. n > RecvLimit
    BY <1>11, <2>1, <2>2, <2>3, <2>4
  <2>6. items'[ItemOf(seen.id)'].n > RecvLimit'
    BY <1>4, <2>3, <2>5, StillSame DEF Still, ItemOf, Cur
  <2>7. data' = "exceeded"
    BY <1>11
  <2>8. TaskOK'
    BY <1>4, <1>10, <2>6, <2>7 DEF TaskOK
  <2> QED  BY <1>4, <2>8, <1>10, StreamGoesOn
<1>12. CASE ~(Ch!BufSize(fed) + Last(parts').size > RecvLimit)
  <2>1. fed' = Append(fed, Last(parts')) /\ data' = "streamed"
    BY <1>12
  <2>2. fed' = parts'
    BY <1>1, <1>4, <1>9, <2>1
  <2>3. TaskOK'
    BY <1>4, <1>10, <2>1, <2>2 DEF TaskOK
  <2> QED  BY <1>4, <1>10, <2>3, StreamGoesOn
<1> QED  BY <1>11, <1>12

\* The deserializer has all that it needs.
LEMMA Fed ==
    ASSUME Busy, Still, ChInv', data = "streamed", data' = "fed", fed' = fed, seen' = seen,
           receiving'.st = "nothing", Whole(fed) \/ Undecodable(fed),
           got' = got, item' = item, ended' = ended
    PROVE  IInv'
<1>1. /\ seen.kind = "data" /\ seen.id > 0 /\ Len(parts) \in 0..seen.i
      /\ fed = Prefix(seen.id, Len(parts)) /\ fed = parts
  BY FedFacts
<1>2. parts # <<>>
  BY <1>1, NothingFed DEF Busy
<1>3. parts \in Seq(AChunk) /\ Len(parts) \in Nat \ {0}
  BY <1>2 DEF Busy, ChInv, ReceivingOK
<1>4. PICK j \in 1..seen.i : fed = Prefix(seen.id, j)
  <2>1. seen.i \in Nat
    BY FedFacts, SentFacts DEF Busy, ChInv
  <2>2. Len(parts) \in 1..seen.i
    BY <1>1, <1>3, <2>1
  <2> QED  BY <1>1, <2>2
<1>5. fed' = Prefix(seen.id, j)'
  BY <1>4, StillSame DEF Prefix, Still, Ch!Chunk
<1>6. Whole(fed)' \/ Undecodable(fed)'
  <2>1. items' = items /\ msgs' = msgs
    BY DEF Still
  <2>2. ASSUME Whole(fed) PROVE Whole(fed)'
    <3>1. PICK k \in 1..Cur : /\ items[k].msg > 0
                             /\ Bytes(fed) = [i \in 1..items[k].n |-> Ch!Chunk(items[k].msg, i)]
      BY <2>2 DEF Whole
    <3>2. Cur' = Cur /\ items'[k] = items[k]
      BY <2>1 DEF Cur
    <3>3. \A i : Ch!Chunk(items[k].msg, i)' = Ch!Chunk(items[k].msg, i)
      BY <2>1 DEF Ch!Chunk
    <3>4. Bytes(fed') = [i \in 1..items'[k].n |-> Ch!Chunk(items[k].msg, i)']
      BY <3>1, <3>2, <3>3
    <3> QED  BY <2>1, <3>1, <3>2, <3>4 DEF Whole
  <2>3. ASSUME Undecodable(fed) PROVE Undecodable(fed)'
    BY <2>1, <2>3 DEF Undecodable, ItemOf, Cur
  <2> QED  BY <2>2, <2>3
<1>7. TaskOK'
  BY <1>1, <1>5, <1>6 DEF TaskOK, Busy
<1> QED  BY <1>7, StreamGoesOn

\* The sender has stopped in the middle of the stream.
LEMMA FeedStops ==
    ASSUME Busy, Still, ChInv', data = "streamed", Stops, data' = "none",
           got' = got, item' = item, ended' = ended
    PROVE  IInv'
<1>1. /\ seen.id \in 1..Len(msgs) /\ seen.kind = "data" /\ seen.id > 0 /\ Sent(seen)
      /\ receiving.st = "chunks" /\ receiving.completed = seen.last
  BY FedFacts
<1>2. /\ MsgsOK /\ ItemsOK /\ msgs[seen.id].kind = "data" /\ seen.id \in Nat
      /\ msgs[seen.id].state = "cancelled" /\ ~seen.last /\ item' = 0 /\ ended' = FALSE
  BY <1>1, SentFacts DEF Busy, ChInv, Stops
<1>3. \A k \in 1..Cur : Handled(k) => Handled(k)'
  BY DEF Handled
<1>4. \A k \in 1..Cur : Live(k) /\ item = k => Kept(k)
  BY DEF Busy
<1>5. ASSUME NEW k \in 1..Cur, Live(k), items[k].msg = seen.id PROVE FALSE
  BY <1>2, <1>5, LiveFacts
<1>6. WaitingOK'
  BY <1>2 DEF WaitingOK
<1>7. CASE seen' = seen /\ receiving' = Ch!Nothing
  <2>1. receiving'.st = "nothing" /\ seen'.id = seen.id /\ seen.id <= seen'.id
    BY <1>2, <1>7 DEF Ch!Nothing
  <2>2. TaskOK'
    BY <2>1, TaskNone
  <2>3. OutcomesOK'
    BY <1>2, <2>1, OutcomesSame DEF Busy
  <2>4. NoneForgotten'
    BY <1>3, <1>4, <1>5, <2>1, RememberedHere DEF Busy
  <2> QED  BY <1>2, <1>6, <2>2, <2>3, <2>4, ReceiverStep DEF Busy
<1>8. CASE /\ Advance(seen')
           /\ \/ seen'.kind = "ports"
              \/ seen'.first /\ receiving'.st = "chunks" /\ receiving'.buf # <<>>
  <2>1. PICK c : c = seen' /\ Advance(c)
    BY <1>8
  <2>2. /\ c.id \in Nat \ {0} /\ seen.id <= c.id /\ Sent(c)
        /\ c.first => seen.id < c.id
        /\ ~c.first => c.id = seen.id
        /\ \A id \in (seen.id + 1)..(c.id - 1) : msgs[id].state = "cancelled"
    BY <1>2, <2>1, AdvanceFacts DEF Busy
  <2>3. c.id \in 1..Len(msgs) /\ msgs[c.id].kind = c.kind
    BY <1>2, <2>2, SentFacts
  <2>4. CASE c.kind = "ports"
    <3>1. c.id # seen.id
      BY <1>2, <2>3, <2>4
    <3>2. c.id > 1 /\ msgs[c.id - 1].state = "done"
      BY <1>2, <2>3, <2>4 DEF ItemsOK, MsgOK
    <3>3. c.id - 1 = seen.id \/ c.id - 1 \in (seen.id + 1)..(c.id - 1)
      BY <1>2, <2>2, <3>1
    <3> QED  BY <1>2, <2>2, <3>2, <3>3
  <2>5. CASE c.kind # "ports"
    <3>1. /\ c.first /\ receiving'.st = "chunks" /\ receiving'.buf # <<>> /\ parts' = <<>>
          /\ seen.id < seen'.id
      BY <1>8, <2>1, <2>2, <2>5 DEF Stops
    <3>2. TaskOK'
      BY <1>2, <3>1, TaskNone
    <3>3. OutcomesOK'
      BY <1>2, <2>1, <2>2, <3>1, OutcomesSame DEF Busy
    <3>4. \A k \in 1..Cur : items[k].msg = c.id => Kept(k)
      BY <2>1, <3>1 DEF Kept, Working
    <3>5. NoneForgotten'
      BY <1>2, <1>3, <1>4, <2>1, <3>4, RememberedNext DEF Busy
    <3> QED  BY <1>2, <1>6, <3>2, <3>3, <3>5, ReceiverStep DEF Busy
  <2> QED  BY <2>4, <2>5
<1> QED  BY <1>7, <1>8 DEF Stops

LEMMA FeedChunkStep ==
    ASSUME IInv, ~setup.bin, FeedChunk
    PROVE  IInv'
<1>1. /\ Busy /\ ChInv /\ data = "streamed" /\ Ch!RecvChunk /\ items' = items /\ setup' = setup
      /\ got' = got /\ item' = item /\ ended' = ended
  BY IsBusy DEF FeedChunk, txVars, Busy
<1>2. IF Len(parts') > Len(parts)
      THEN IF Ch!BufSize(fed) + Last(parts').size > RecvLimit
           THEN data' = "exceeded" /\ UNCHANGED fed
           ELSE fed' = Append(fed, Last(parts')) /\ UNCHANGED data
      ELSE /\ data' = IF receiving.completed THEN "fed" ELSE "none"
           /\ fed' = IF receiving.completed THEN fed ELSE <<>>
  BY DEF FeedChunk
<1>3. /\ ChInv' /\ UNCHANGED <<msgs, closed>>
      /\ ReturnsChunk \/ Completes \/ Stops
  BY <1>1, RecvChunkKeeps
<1>4. Still
  BY <1>1, <1>3 DEF Still
<1>5. Len(parts) \in Nat
  BY <1>1 DEF ChInv, ReceivingOK
<1>6. CASE ReturnsChunk
  <2>1. Len(parts') > Len(parts)
    BY <1>5, <1>6 DEF ReturnsChunk
  <2> QED  BY <1>1, <1>2, <1>3, <1>4, <1>6, <2>1, FeedReturns
<1>7. CASE Completes
  <2>1. Len(parts') = 0
    BY <1>7 DEF Completes
  <2>2. /\ data' = "fed" /\ fed' = fed /\ seen' = seen /\ receiving'.st = "nothing"
        /\ receiving.buf = <<>> /\ receiving.completed
    BY <1>2, <1>5, <1>7, <2>1 DEF Completes, Ch!Nothing
  <2>3. /\ seen.id \in 1..Len(msgs) /\ Sent(seen) /\ fed = Prefix(seen.id, seen.i) /\ seen.last
        /\ seen.kind = "data"
    BY <1>1, <2>2, FedFacts
  <2>4. seen.i = msgs[seen.id].n /\ msgs[seen.id].kind = "data"
    BY <1>1, <2>3, SentFacts DEF ChInv
  <2>5. Whole(fed)
    BY <1>1, <2>3, <2>4, WholeFed DEF Busy, ChInv
  <2> QED  BY <1>1, <1>3, <1>4, <2>2, <2>5, Fed
<1>8. CASE Stops
  <2>1. Len(parts') = 0 /\ ~receiving.completed
    BY <1>8 DEF Stops
  <2>2. data' = "none"
    BY <1>2, <1>5, <2>1
  <2> QED  BY <1>1, <1>3, <1>4, <1>8, <2>2, FeedStops
<1> QED  BY <1>3, <1>6, <1>7, <1>8

LEMMA DeserializerEndsStep ==
    ASSUME IInv, ~setup.bin, DeserializerEnds
    PROVE  IInv'
<1>1. /\ Busy /\ data = "streamed" /\ (Whole(fed) \/ Undecodable(fed)) /\ Discard /\ data' = "fed"
      /\ UNCHANGED txVars /\ fed' = fed /\ item' = item /\ got' = got /\ ended' = ended
  BY IsBusy DEF DeserializerEnds
<1>2. Ch!DiscardChunks
  BY <1>1, FedFacts DEF Discard
<1>3. Still /\ ChInv' /\ seen' = seen /\ receiving'.st = "nothing"
  BY <1>1, <1>2, StreamDiscarded
<1> QED  BY <1>1, <1>3, Fed

LEMMA TaskEndsStep ==
    ASSUME IInv, ~setup.bin, TaskEnds
    PROVE  IInv'
<1>1. /\ Busy /\ ChInv /\ data = "fed" /\ data' = "none" /\ UNCHANGED chVars /\ UNCHANGED txVars
      /\ ended' = ended
      /\ IF Whole(fed) /\ ~Undecodable(fed) THEN Deserialized(ItemOf(fed[1].id))
         ELSE item' = 0 /\ Return(ItemOf(fed[1].id), "error")
  BY IsBusy DEF TaskEnds, Busy
<1>2. /\ receiving.st = "nothing" /\ seen.id > 0 /\ seen.kind = "data"
      /\ \E j \in 1..seen.i : fed = Prefix(seen.id, j)
      /\ Whole(fed) \/ Undecodable(fed)
  BY <1>1 DEF Busy, TaskOK
<1>3. Still /\ seen' = seen /\ receiving'.st = "nothing" /\ ChInv'
  BY <1>1, <1>2, ChStays DEF chVars, txVars, Still
<1>4. /\ Sent(seen) /\ MsgsOK /\ ItemsOK /\ seen.id \in 1..Len(msgs) /\ msgs[seen.id].kind = "data"
      /\ seen.i \in 1..msgs[seen.id].n /\ seen.i \in 1..msgs[seen.id].sent
      /\ msgs[seen.id].n \in Nat /\ msgs[seen.id].sent \in Nat
  BY <1>1, <1>2, SeenFacts, SentFacts, MsgTypes DEF Busy, ChInv
<1>5. PICK j \in 1..seen.i : fed = Prefix(seen.id, j)
  BY <1>2
<1>6. j \in 1..msgs[seen.id].n /\ j \in 0..msgs[seen.id].n /\ j \in Nat \ {0} /\ j <= msgs[seen.id].sent
  <2>1. PICK n \in Nat : n = msgs[seen.id].n
    BY <1>4
  <2>2. PICK t \in Nat : t = msgs[seen.id].sent
    BY <1>4
  <2>3. seen.i \in 1..n /\ seen.i \in 1..t
    BY <1>4, <2>1, <2>2
  <2>4. j \in 1..n /\ j \in 0..n /\ j \in Nat \ {0} /\ j <= t
    BY <2>3
  <2> QED  BY <2>1, <2>2, <2>4
<1>7. fed # <<>> /\ fed[1] = Ch!Chunk(seen.id, 1) /\ fed[1].id = seen.id
  <2>1. Len(fed) = j /\ fed[1] = Ch!Chunk(seen.id, 1)
    BY <1>4, <1>5, <1>6, PrefixFacts
  <2>2. Ch!Chunk(seen.id, 1).id = seen.id
    BY DEF Ch!Chunk
  <2> QED  BY <1>6, <2>1, <2>2
<1>8. PICK k \in 1..Cur : k = ItemOf(seen.id) /\ items[k].msg = seen.id
  BY <1>4, DataItem
<1>9. CASE Undecodable(fed)
  <2>1. Reason(k)
    BY <1>7, <1>8, <1>9 DEF Undecodable, Reason
  <2> QED  BY <1>1, <1>2, <1>3, <1>7, <1>8, <1>9, <2>1, StreamDone
<1>10. CASE Whole(fed) /\ ~Undecodable(fed)
  <2>1. items[k].fault # "odd"
    BY <1>7, <1>8, <1>10 DEF Undecodable
  <2>2. items[k].n <= j /\ items[k].n \in Nat
    BY <1>4, <1>5, <1>6, <1>8, <1>10, WholeIs, ItemTypes
  <2>3. items[k].n <= msgs[items[k].msg].sent
    BY <1>4, <1>6, <1>8, <2>2
  <2>4. Serialized(k)
    BY <1>1, <1>2, <1>4, <1>8, <2>1, <2>3, AllSent DEF Busy
  <2> QED  BY <1>1, <1>2, <1>3, <1>7, <1>8, <1>10, <2>4, StreamDone
<1> QED  BY <1>2, <1>9, <1>10

----------------------------------------------------------------------------
(* The theorems *)

LEMMA InitIInv == Init => IInv
<1> SUFFICES ASSUME Init PROVE IInv
  OBVIOUS
<1>1. ChInv
  BY ChInit DEF Init
<1>2. /\ msgs = <<>> /\ receiving = Ch!Nothing /\ seen = Ch!NoChunk /\ items = <<>> /\ closed = FALSE
      /\ data = "none" /\ item = 0 /\ got = <<>> /\ ended = FALSE /\ setup \in Setups /\ fed = <<>>
  BY DEF Init, Ch!Init
<1>3. Cur = 0 /\ Len(msgs) = 0 /\ Len(got) = 0 /\ receiving.st = "nothing"
  BY <1>2 DEF Cur, Ch!Nothing
<1>4. ~Sending /\ ~Ch!Sending
  BY <1>2 DEF Sending, Ch!Sending
<1>5. ItemsOK
  BY <1>2, <1>3, <1>4 DEF ItemsOK, Ascending
<1>6. TaskOK /\ WaitingOK /\ NoneForgotten
  BY <1>2, <1>3 DEF TaskOK, WaitingOK, NoneForgotten
<1>7. OutcomesOK
  BY <1>2, <1>3 DEF OutcomesOK, ErrorsForReason, DeliveredComplete
<1> QED  BY <1>1, <1>2, <1>5, <1>6, <1>7 DEF IInv, ItemInv, Idle

LEMMA UseBinaryStep ==
    ASSUME IInv, UseBinary
    PROVE  IInv'
<1>1. ChInv /\ setup.bin /\ Idle /\ setup \in Setups
  BY DEF IInv, ItemInv, UseBinary
<1>2. ChInv'
  BY <1>1, ChNext DEF UseBinary
<1>3. setup' = setup /\ Idle'
  BY <1>1 DEF UseBinary, txVars, rxVars, Idle
<1> QED  BY <1>1, <1>2, <1>3 DEF IInv, ItemInv

LEMMA StutterStep ==
    ASSUME IInv, UNCHANGED vars
    PROVE  IInv'
<1>1. UNCHANGED chVars /\ UNCHANGED txVars /\ UNCHANGED rxVars /\ ChInv /\ setup \in Setups
  BY DEF vars, IInv
<1>2. ChInv'
  BY <1>1, ChStays
<1>3. setup' = setup /\ items' = items /\ msgs' = msgs /\ closed' = closed
      /\ UNCHANGED <<receiving, streaming, seen, parts, finished>>
  BY <1>1 DEF chVars, txVars
<1>4. CASE setup.bin
  <2>1. Idle'
    BY <1>1, <1>4 DEF IInv, ItemInv, Idle, txVars, rxVars
  <2> QED  BY <1>1, <1>2, <1>3, <1>4, <2>1 DEF IInv, ItemInv
<1>5. CASE ~setup.bin
  <2>1. ItemsOK
    BY <1>5 DEF IInv, ItemInv
  <2>2. ItemsOK'
    BY <1>3, <2>1, ItemsStay DEF ItemsOK
  <2>3. MsgsGrow
    BY <1>1, <1>3, MsgTypes DEF MsgsGrow, ChInv, MsgsOK
  <2>4. ItemsGrow
    BY <1>3, <2>1 DEF ItemsGrow, Live, ItemsOK
  <2> QED  BY <1>1, <1>2, <1>3, <1>5, <2>2, <2>3, <2>4, SenderStep
<1> QED  BY <1>4, <1>5

LEMMA UseItemsStep ==
    ASSUME IInv, UseItems
    PROVE  IInv'
<1>1. ~setup.bin
  BY DEF UseItems
<1>2. CASE \E s \in setup.shapes :
             SendBuffered(s.n, s.ports, s.fault) \/ SendStreamed(s.n, s.ports, s.fault)
  BY <1>1, <1>2, SendKeeps
<1>3. CASE SendChunk
  BY <1>1, <1>3, SendChunkStep
<1>4. CASE StreamFails
  BY <1>1, <1>4, GivenUp DEF StreamFails
<1>5. CASE Connect
  BY <1>1, <1>5, ConnectStep
<1>6. CASE SendReturns
  BY <1>1, <1>6, SendReturnsStep
<1>7. CASE SendCancelled
  BY <1>1, <1>7, GivenUp DEF SendCancelled
<1>8. CASE DropSender
  BY <1>1, <1>8, DropSenderStep
<1>9. CASE RecvAny
  BY <1>1, <1>9, RecvAnyStep
<1>10. CASE RecvFinished
  BY <1>1, <1>10, RecvFinishedStep
<1>11. CASE RecvUnavailable
  BY <1>1, <1>11, RecvUnavailableStep
<1>12. CASE FeedChunk
  BY <1>1, <1>12, FeedChunkStep
<1>13. CASE DeserializerEnds
  BY <1>1, <1>13, DeserializerEndsStep
<1>14. CASE RecvExceeded
  BY <1>1, <1>14, RecvExceededStep
<1>15. CASE TaskEnds
  BY <1>1, <1>15, TaskEndsStep
<1> QED
  BY <1>2, <1>3, <1>4, <1>5, <1>6, <1>7, <1>8, <1>9, <1>10, <1>11, <1>12, <1>13, <1>14, <1>15 DEF UseItems

\* An item with an outcome after it, or before the end, has one itself.
LEMMA NoneSkipped ==
    ASSUME IInv, ~setup.bin, NEW k \in 1..Cur, items[k].state = "ok",
           ended \/ \E i \in 1..Len(got) : got[i].item > k
    PROVE  Handled(k)
<1> SUFFICES ASSUME ~Handled(k) PROVE FALSE
  OBVIOUS
<1>1. /\ ChInv /\ MsgsOK /\ ItemsOK /\ TaskOK /\ WaitingOK /\ OutcomesOK /\ NoneForgotten
      /\ ended => finished /\ item = 0 /\ data = "none"
  BY DEF IInv, ItemInv, ChInv
<1>2. Live(k)
  BY DEF Live
<1>3. PICK m \in 1..Len(msgs) : m = items[k].msg
  BY <1>1, <1>2, LiveFacts
<1>4. m > 0 /\ ProgressOK(k) /\ msgs[m].state = "done"
  <2>1. m > 0
    BY <1>1, <1>2, <1>3, LiveFacts
  <2>2. ProgressOK(k)
    BY <1>1, <1>3, <2>1, ItemFacts
  <2> QED  BY <1>3, <2>1, <2>2 DEF ProgressOK
<1>5. msgs[m].sent = msgs[m].n /\ msgs[m].n \in Nat \ {0} /\ Len(msgs) \in Nat
  BY <1>1, <1>4, MsgFacts, MsgTypes
<1>6. seen.id \in Nat /\ (seen.id > 0 => Sent(seen))
  BY <1>1, SeenFacts DEF ChInv
<1>7. item = k \/ seen.id < m \/ (seen.id = m /\ Working)
  BY <1>1, <1>2, <1>3 DEF NoneForgotten
<1>8. CASE ended
  <2>1. finished /\ item = 0 /\ data = "none" /\ chan = <<>>
    BY <1>1, <1>8 DEF ChInv, ChanOK
  <2>2. AtEnd(seen)
    <3>1. AtEnd(Prior(Len(chan) + 1))
      BY <1>1, <2>1 DEF ChInv, ChanOK, EndOK
    <3>2. Prior(Len(chan) + 1) = seen
      BY <2>1 DEF Prior
    <3> QED  BY <3>1, <3>2
  <2>3. ~(seen.id < m)
    <3> SUFFICES ASSUME seen.id < m PROVE FALSE
      OBVIOUS
    <3>1. m \in (seen.id + 1)..Len(msgs)
      BY <1>5, <1>6
    <3>2. msgs[m].sent = 0
      BY <2>2, <3>1 DEF AtEnd, Unsent
    <3> QED  BY <1>5, <3>2
  <2>4. seen.id = m /\ Working
    BY <1>7, <2>1, <2>3
  <2>5. receiving.st # "chunks"
    BY <1>1, <2>1 DEF ChInv, ReceivingOK, StreamOK
  <2>6. receiving.st = "data"
    BY <2>1, <2>4, <2>5 DEF Working
  <2>7. ~seen.last
    BY <1>1, <2>6 DEF ChInv, ReceivingOK, BuffersOK
  <2>8. msgs[m].sent = seen.i /\ seen.last = (seen.i = msgs[m].n)
    BY <1>1, <1>4, <1>6, <2>2, <2>4, SentFacts DEF AtEnd, Exhausted
  <2> QED  BY <1>5, <2>7, <2>8
<1>9. CASE \E i \in 1..Len(got) : got[i].item > k
  <2>1. PICK i \in 1..Len(got) : got[i].item > k
    BY <1>9
  <2>2. PICK g \in 1..Cur : g = got[i].item
    BY <1>1 DEF OutcomesOK
  <2>3. items[g].msg \in 1..seen.id /\ (Working => items[g].msg < seen.id) /\ items[g].msg \in Nat
    BY <1>1, <2>2, ItemTypes DEF OutcomesOK
  <2>4. k < g /\ Cur \in Nat
    BY <1>1, <2>1, <2>2, ItemTypes
  <2>5. m < items[g].msg
    BY SMTT(40), <1>1, <1>3, <1>4, <1>6, <2>3, <2>4, ItemOrder
  <2>6. item # k
    <3>1. item = k => got[i].item < k
      BY <1>1 DEF WaitingOK
    <3> QED  BY <2>2, <2>4, <3>1
  <2>7. ~(seen.id < m)
    BY <1>3, <1>5, <1>6, <2>3, <2>5
  <2>8. ~(seen.id = m /\ Working)
    <3> SUFFICES ASSUME seen.id = m, Working PROVE FALSE
      OBVIOUS
    <3>1. items[g].msg < m
      BY <2>3
    <3> QED  BY <1>3, <1>5, <2>3, <2>5, <3>1
  <2> QED  BY <1>7, <2>6, <2>7, <2>8
<1> QED  BY <1>8, <1>9

LEMMA ItemsIntact == IInv => OneOutcome /\ ErrorsForReason /\ DeliveredComplete
<1> SUFFICES ASSUME IInv PROVE OneOutcome /\ ErrorsForReason /\ DeliveredComplete
  OBVIOUS
<1>1. CASE setup.bin
  <2>1. got = <<>> /\ items = <<>>
    BY <1>1 DEF IInv, ItemInv, Idle
  <2>2. Len(got) = 0 /\ Cur = 0
    BY <2>1 DEF Cur
  <2> QED  BY <2>2 DEF OneOutcome, ErrorsForReason, DeliveredComplete
<1>2. CASE ~setup.bin
  <2>1. OutcomesOK
    BY <1>2 DEF IInv, ItemInv
  <2>2. \A i, j \in 1..Len(got) : i < j => got[i].item < got[j].item
    BY <2>1 DEF OutcomesOK
  <2>3. OneOutcome
    BY <1>2, <2>2, NoneSkipped DEF OneOutcome, Handled
  <2> QED  BY <2>1, <2>3 DEF OutcomesOK
<1> QED  BY <1>1, <1>2

\* The inductive invariant: what the sender has put into the channel, what the receiver
\* keeps of it, and how the items and their outcomes relate to both.
THEOREM Invariance == Spec => []IInv
<1>1. Init => IInv
  BY InitIInv
<1>2. IInv /\ [Next]_vars => IInv'
  BY UseItemsStep, UseBinaryStep, StutterStep DEF Next
<1> QED  BY <1>1, <1>2, PTL DEF Spec

\* Every message that the chmux receiver returns is one message that was sent, complete
\* and in order, and none is lost without telling, for every combination of operations.
THEOREM MessagesStayIntact == Spec => []MessagesIntact
<1>1. IInv => MessagesIntact
  BY ChIntact DEF IInv
<1> QED  BY <1>1, Invariance, PTL

\* Every item has at most one outcome at the receiver, in order, and none that was sent is
\* skipped.
THEOREM EveryItemHasOneOutcome == Spec => []OneOutcome
<1>1. IInv => OneOutcome
  BY ItemsIntact
<1> QED  BY <1>1, Invariance, PTL

\* An error is reported only for an item that the receiver cannot take.
THEOREM ErrorsHaveReasons == Spec => []ErrorsForReason
<1>1. IInv => ErrorsForReason
  BY ItemsIntact
<1> QED  BY <1>1, Invariance, PTL

\* An item is delivered only with all of its data and its own ports.
THEOREM ItemsAreComplete == Spec => []DeliveredComplete
<1>1. IInv => DeliveredComplete
  BY ItemsIntact
<1> QED  BY <1>1, Invariance, PTL
============================================================================
