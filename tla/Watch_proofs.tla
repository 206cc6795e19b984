---------------------------- MODULE Watch_proofs ----------------------------
(***************************************************************************)
(* The values of a watch channel never go backwards, and a receiver that   *)
(* is told that the channel is closed has the final value, for every       *)
(* number of links, receivers and values.                                  *)
(***************************************************************************)
EXTENDS Watch, SequenceTheorems, WellFoundedInduction, TLAPS

\* A value or the error in its place.
Datum == [n : Nat, err : {"none", "item", "connect", "chmux"}]

ErrorKind == {"forward", "connect", "item", "chmux", "closed"}

\* What the receiving task sends back while it runs, and its end.
OutMessage == [msg : {"error", "limit"}, limit : Nat]
BackMessage == [msg : {"error", "limit", "end"}, limit : Nat]

TxState ==
    [run : BOOLEAN, seen : Nat, pending : BOOLEAN, closed : BOOLEAN, cool : BOOLEAN,
     sending : Seq(Datum), all : BOOLEAN, limit : Nat,
     why : {"none", "connect", "item"}]

RxState == [run : BOOLEAN, told : Int, out : Seq(OutMessage)]

\* A Receiver that was dropped is nowhere.
Places == Cells \cup {-1}

RecvState ==
    [at : Places, seen : Int, limit : Nat, got : Nat, ended : {"no", "error", "closed"}]

TypeOK ==
    /\ setup \in Setups
    /\ kind \in Seq({"good", "bad", "odd"})
    /\ local \in [n : Nat, open : BOOLEAN, task : BOOLEAN]
    /\ sender \in [open : BOOLEAN, err : ErrorKind \cup {"none"}, limit : Nat, told : BOOLEAN]
    /\ cell \in [Cells -> [val : Datum, ver : Nat]]
    /\ errs \in [Cells -> Seq(ErrorKind)]
    /\ link \in [LinkIds -> {"unused", "connecting", "up", "failed", "lost"}]
    /\ tx \in [LinkIds -> TxState]
    /\ port \in [LinkIds -> Seq(Datum \cup {End})]
    /\ rx \in [LinkIds -> RxState]
    /\ back \in [LinkIds -> Seq(BackMessage)]
    /\ recv \in [Receivers -> RecvState]

\* The values of the Sender are counted; in a forwarded channel the cell follows the
\* local one.
SenderOK ==
    /\ cell[0].val.n <= Len(kind)
    /\ local.n <= Len(kind)
    /\ setup.forward => cell[0].val.n <= local.n
    /\ local.task => setup.forward /\ sender.open
    /\ local.open => setup.forward

\* A link that does not exist yet has carried nothing, and nobody is beyond it.
UnusedOK ==
    \A l \in LinkIds : link[l] = "unused" =>
        /\ ~tx[l].run /\ ~rx[l].run /\ tx[l].why = "none" /\ tx[l].sending = <<>>
        /\ port[l] = <<>> /\ back[l] = <<>> /\ cell[l].val.n = 0
        /\ \A r \in Receivers : recv[r].at # l
        /\ l + 1 \in LinkIds => link[l + 1] = "unused"

\* The end of the receiving task is under way.
EndSent(l) == \E i \in DOMAIN back[l] : back[l][i].msg = "end"

\* What the tasks of a link know about each other.
TaskOK(l) ==
    /\ tx[l].seen <= cell[l - 1].ver
    /\ tx[l].run => tx[l].why = "none"
    /\ tx[l].sending # <<>> => tx[l].run /\ Established(l) /\ Len(tx[l].sending) = 1
    /\ \A i \in DOMAIN port[l] : port[l][i] = End => i = Len(port[l]) /\ ~tx[l].run
    /\ EndSent(l) => ~rx[l].run

TasksOK == \A l \in LinkIds : TaskOK(l)

\* Values in the order in which they will get to the next cell.
LinkOrdered(l) ==
    /\ \A i, j \in DOMAIN port[l] :
         i < j /\ port[l][j] # End => port[l][i].n <= port[l][j].n
    /\ \A i \in DOMAIN port[l] : port[l][i] # End =>
         /\ cell[l].val.n <= port[l][i].n
         /\ port[l][i].n <= cell[l - 1].val.n
         /\ tx[l].sending # <<>> => port[l][i].n <= tx[l].sending[1].n
    /\ tx[l].sending # <<>> =>
         /\ cell[l].val.n <= tx[l].sending[1].n
         /\ tx[l].sending[1].n <= cell[l - 1].val.n
    /\ link[l] # "unused" => cell[l].val.n <= cell[l - 1].val.n

LinksOrdered == \A l \in LinkIds : LinkOrdered(l)

ReceiversBehind == \A r \in Receivers : Live(r) => recv[r].got <= cell[recv[r].at].val.n

OrderInv == TypeOK /\ SenderOK /\ UnusedOK /\ TasksOK /\ LinksOrdered /\ ReceiversBehind

\* The value v is the last one that cell h gets: it says that the channel failed, the
\* Sender is gone and has sent no other, or a value could not be sent.
Final(v, h) ==
    \/ v.err \in Disconnecting
    \/ ~sender.open /\ v.n = cell[0].val.n
    \/ \E m \in Path(h) : tx[m].why = "item"

\* Two values are the same but for an error that does not end the channel.
Alike(v, w) == v.n = w.n /\ (v.err \in Disconnecting <=> w.err \in Disconnecting)

\* The last value that was handed to a link whose sending task runs.
Latest(l) ==
    IF tx[l].sending # <<>> THEN tx[l].sending[1]
    ELSE IF port[l] # <<>> THEN port[l][Len(port[l])] ELSE cell[l].val

\* A link that works has no value to send but the one that it is sending.
Caught(l) ==
    /\ tx[l].run /\ rx[l].run /\ link[l] \in {"connecting", "up"}
    /\ tx[l].seen = cell[l - 1].ver
    /\ ~tx[l].pending \/ tx[l].sending # <<>>

LatestIsCurrent(l) == Caught(l) => Alike(Latest(l), cell[l - 1].val)

\* The sending task of a link that works only stops after the cell got its last value.
ClosingIsFinal(l) ==
    tx[l].run /\ tx[l].closed /\ rx[l].run /\ link[l] \in {"connecting", "up"} =>
        Caught(l) /\ ~Fed(l - 1)

\* The last value before the end of the sending task.
Before(l) == IF Len(port[l]) = 1 THEN cell[l].val ELSE port[l][Len(port[l]) - 1]

EndIsFinal(l) == port[l] # <<>> /\ port[l][Len(port[l])] = End => Final(Before(l), l)

\* A cell that is no longer written to has the final value, if it still matters.
CellIsFinal(l) == link[l] # "unused" /\ ~rx[l].run /\ Watched(l) => Final(cell[l].val, l)

LinkFinal(l) == LatestIsCurrent(l) /\ ClosingIsFinal(l) /\ EndIsFinal(l) /\ CellIsFinal(l)

LinksFinal == \A l \in LinkIds : LinkFinal(l)

\* A Receiver that was told that the channel is closed got no error and gets no value.
ReceiversFinal ==
    \A r \in Receivers : Live(r) /\ recv[r].ended = "closed" =>
        ~Fed(recv[r].at) /\ cell[recv[r].at].val.err \notin Disconnecting

FinalInv == LinksFinal /\ ReceiversFinal

IInv == OrderInv /\ FinalInv

-----------------------------------------------------------------------------
(* Type correctness *)

\* Some element of a non-empty set of numbers is the least one.
LEMMA LeastNat == ASSUME NEW T, T \subseteq Nat, T # {} PROVE \E x \in T : \A y \in T : x <= y
<1> DEFINE R == {ss \in Nat \X Nat : ss[1] < ss[2]}
<1>1. IsWellFoundedOn(R, Nat)
  BY NatLessThanWellFounded DEF OpToRel
<1>2. PICK x \in T : \A y \in T : ~(<<y, x>> \in R)
  <2> HIDE DEF R
  <2> QED
    BY <1>1, WFMin
<1>3. ASSUME NEW y \in T PROVE x <= y
  <2>1. x \in Nat /\ y \in Nat
    OBVIOUS
  <2>2. ~(y < x)
    BY <1>2, <2>1
  <2>3. QED
    BY <2>1, <2>2
<1>4. QED
  BY <1>3

LEMMA MinNat == ASSUME NEW S, S \subseteq Nat, S # {} PROVE Min(S) \in Nat
  BY LeastNat DEF Min

LEMMA SetupTypes ==
  ASSUME setup \in Setups
  PROVE  /\ setup.links \in Nat /\ setup.up \in 0..setup.links
         /\ setup.single \in BOOLEAN /\ setup.forward \in BOOLEAN
         /\ setup.kinds \subseteq {"good", "bad", "odd"} /\ setup.limits \subseteq Nat
         /\ \A r \in DOMAIN setup.at : setup.at[r] \in 0..setup.up
  BY WatchAssumption

\* A Receiver that is transported takes the link after the cell it reads.
LEMMA TransportLink ==
  ASSUME TypeOK, NEW r \in Receivers, Transport(r)
  PROVE  /\ recv[r].at + 1 \in LinkIds /\ recv[r].at \in Int
         /\ recv[r] \in RecvState
<1>1. recv[r] \in RecvState /\ setup.links \in Nat
  BY SetupTypes DEF TypeOK
<1>2. recv[r].at >= 0 /\ recv[r].at < setup.links
  BY DEF Transport, Live
<1>3. recv[r].at \in 0..setup.links \cup {-1}
  BY <1>1 DEF RecvState, Places, Cells
<1> QED  BY <1>1, <1>2, <1>3 DEF LinkIds

LEMMA SetupFixed ==
  setup' = setup =>
    Cells' = Cells /\ LinkIds' = LinkIds /\ RecvState' = RecvState /\ Limits' = Limits
  BY DEF Cells, LinkIds, RecvState, Limits, Places

\* The two ends of a link.
LEMMA LinkEnds ==
  ASSUME setup \in Setups, NEW l \in LinkIds
  PROVE  /\ l \in Nat /\ l # 0 /\ l - 1 \in Nat /\ l \in Cells /\ l - 1 \in Cells /\ 0 \in Cells
         /\ l - 1 # 0 => l - 1 \in LinkIds
         /\ l < setup.links => l + 1 \in LinkIds
  BY SetupTypes DEF LinkIds, Cells

LEMMA LinkTypes ==
  ASSUME TypeOK, NEW l \in LinkIds
  PROVE  /\ tx[l] \in TxState /\ rx[l] \in RxState
         /\ port[l] \in Seq(Datum \cup {End}) /\ back[l] \in Seq(BackMessage)
         /\ cell[l].val \in Datum /\ cell[l].ver \in Nat
         /\ cell[l - 1].val \in Datum /\ cell[l - 1].ver \in Nat
  BY LinkEnds DEF TypeOK

\* The rate limit that is sent back is the one of a Receiver or of the next link.
LEMMA ComputeNat == ASSUME TypeOK, NEW h \in Cells PROVE Compute(h) \in Nat
<1>1. ASSUME h < setup.links PROVE tx[h + 1].limit \in Nat
  <2>1. h + 1 \in LinkIds
    BY <1>1, SetupTypes DEF TypeOK, LinkIds, Cells
  <2>2. tx[h + 1] \in TxState
    BY <2>1 DEF TypeOK
  <2>3. QED
    BY <2>2 DEF TxState
<1>2. ASSUME NEW r \in Receivers PROVE recv[r].limit \in Nat
  BY DEF TypeOK, RecvState
<1>3. Held(h) \subseteq Nat
  BY <1>1, <1>2 DEF Held
<1>4. QED
  BY <1>3, MinNat DEF Compute

LEMMA PutTypes ==
  ASSUME TypeOK, NEW h \in Cells, NEW v \in Datum, Put(h, v)
  PROVE  cell' \in [Cells -> [val : Datum, ver : Nat]]
<1>1. [val |-> v, ver |-> cell[h].ver + 1] \in [val : Datum, ver : Nat]
  BY DEF TypeOK
<1>2. QED
  BY <1>1 DEF Put, TypeOK

LEMMA RxEndTypes ==
  ASSUME TypeOK, NEW l \in LinkIds, RxEnds(l)
  PROVE  rx' \in [LinkIds -> RxState] /\ back' \in [LinkIds -> Seq(BackMessage)]
<1>1. rx[l] \in RxState /\ back[l] \in Seq(BackMessage) /\ Back("end", 0) \in BackMessage
  BY LinkTypes DEF Back, BackMessage
<1>2. [rx[l] EXCEPT !.run = FALSE] \in RxState
  BY <1>1 DEF RxState
<1>3. Append(back[l], Back("end", 0)) \in Seq(BackMessage)
  BY <1>1
<1>4. QED
  BY <1>2, <1>3 DEF RxEnds, TypeOK

LEMMA InitTypes == Init => TypeOK
<1> SUFFICES ASSUME Init PROVE TypeOK
  OBVIOUS
<1>1. setup \in Setups
  BY DEF Init
<1>2. ASSUME NEW b \in BOOLEAN
      PROVE  [NoTask EXCEPT !.run = b] \in TxState /\ [NoRx EXCEPT !.run = b] \in RxState
  <2>1. NoTask \in TxState /\ NoRx \in RxState
    BY DEF NoTask, NoRx, TxState, RxState
  <2>2. QED
    BY <2>1 DEF TxState, RxState
<1>3. ASSUME NEW l \in LinkIds PROVE (l <= setup.up) \in BOOLEAN
  OBVIOUS
<1>9. tx \in [LinkIds -> TxState] /\ rx \in [LinkIds -> RxState]
  BY <1>2, <1>3, Zenon DEF Init
<1>4. ASSUME NEW r \in Receivers PROVE recv[r] \in RecvState
  BY <1>1, SetupTypes DEF Init, RecvState, Cells, Places
<1>5. recv \in [Receivers -> RecvState]
  BY <1>4 DEF Init
<1>6. cell \in [Cells -> [val : Datum, ver : Nat]]
  BY DEF Init, Val, Datum
<1>7. <<"forward">> \in Seq(ErrorKind)
  BY DEF ErrorKind
<1>8. QED
  BY <1>1, <1>9, <1>5, <1>6, <1>7, SetupTypes DEF Init, TypeOK


LEMMA EndTypes ==
  ASSUME TypeOK, NEW l \in LinkIds, NEW t \in TxState, TxEnds(l, t)
  PROVE  tx' \in [LinkIds -> TxState] /\ port' \in [LinkIds -> Seq(Datum \cup {End})]
<1>1. [t EXCEPT !.run = FALSE] \in TxState
  BY DEF TxState
<1>2. Append(port[l], End) \in Seq(Datum \cup {End})
  BY LinkTypes
<1>3. QED
  BY <1>1, <1>2 DEF TxEnds, TypeOK

LEMMA SentTypes == ASSUME TypeOK, NEW t \in TxState PROVE SentState(t) \in TxState
<1>1. \A b \in BOOLEAN, s \in Seq(Datum) :
        [t EXCEPT !.sending = s, !.pending = FALSE, !.cool = TRUE, !.all = b] \in TxState
  BY DEF TxState
<1>2. setup.single \in BOOLEAN /\ <<>> \in Seq(Datum)
  BY SetupTypes DEF TypeOK
<1>3. QED
  BY <1>1, <1>2, Zenon DEF SentState

LEMMA TakeTypes ==
  ASSUME TypeOK, NEW l \in LinkIds, NEW t \in TxState, TakeValue(l, t)
  PROVE  /\ tx' \in [LinkIds -> TxState] /\ port' \in [LinkIds -> Seq(Datum \cup {End})]
         /\ errs' \in [Cells -> Seq(ErrorKind)]
<1>1. cell[l - 1].ver \in Nat /\ cell[l - 1].val \in Datum
  BY LinkTypes
<1>2. \A v \in Nat, s \in Seq(Datum) :
         /\ [t EXCEPT !.seen = v, !.why = "item"] \in TxState
         /\ [t EXCEPT !.seen = v, !.sending = s] \in TxState
  BY DEF TxState
<1>7. <<cell[l - 1].val>> \in Seq(Datum)
  BY <1>1
<1>3. Append(errs[l - 1], "item") \in Seq(ErrorKind)
  BY LinkEnds DEF TypeOK, ErrorKind
<1>4. CASE KindOf(cell[l - 1].val) = "bad"
  <2>1. errs' \in [Cells -> Seq(ErrorKind)]
    BY ZenonT(60), <1>3, <1>4 DEF TakeValue, Report, TypeOK
  <2>2. TxEnds(l, [t EXCEPT !.seen = cell[l - 1].ver, !.why = "item"])
    BY <1>4 DEF TakeValue
  <2>3. QED
    BY <1>1, <1>2, <1>7, <2>1, <2>2, EndTypes
<1>5. CASE KindOf(cell[l - 1].val) # "bad"
  <2>1. [t EXCEPT !.seen = cell[l - 1].ver, !.sending = <<cell[l - 1].val>>] \in TxState
    BY <1>1, <1>2, <1>7
  <2>2. tx' = [tx EXCEPT ![l] = [t EXCEPT !.seen = cell[l - 1].ver, !.sending = <<cell[l - 1].val>>]]
    BY <1>5 DEF TakeValue
  <2>3. tx' \in [LinkIds -> TxState]
    BY <2>1, <2>2 DEF TypeOK
  <2>4. QED
    BY <1>5, <2>3 DEF TakeValue, TypeOK
<1>6. QED
  BY <1>4, <1>5

LEMMA CloseTypes ==
  ASSUME TypeOK, NEW l \in LinkIds, TxClose(l, tx[l])
  PROVE  /\ tx' \in [LinkIds -> TxState] /\ port' \in [LinkIds -> Seq(Datum \cup {End})]
         /\ errs' \in [Cells -> Seq(ErrorKind)]
<1>1. tx[l] \in TxState
  BY LinkTypes
<1>2. [tx[l] EXCEPT !.closed = TRUE] \in TxState
  BY <1>1 DEF TxState
<1>3. QED
  BY <1>2, TakeTypes, EndTypes DEF TxClose, TypeOK

LEMMA NextTypes == TypeOK /\ [Next]_vars => TypeOK'
<1> SUFFICES ASSUME TypeOK, [Next]_vars PROVE TypeOK'
  OBVIOUS
<1>1. ASSUME NEW k \in setup.kinds, Send(k) PROVE TypeOK'
  <2>1. kind' \in Seq({"good", "bad", "odd"})
    BY <1>1, SetupTypes DEF Send, NewValue, TypeOK
  <2>2. Val(Len(kind'), "none") \in Datum
    BY <2>1 DEF Val, Datum
  <2>3. 0 \in Cells
    BY SetupTypes DEF TypeOK, Cells
  <2>4. cell' \in [Cells -> [val : Datum, ver : Nat]]
    BY <1>1, <2>2, <2>3, PutTypes DEF Send, TypeOK
  <2>5. QED
    BY <1>1, <2>1, <2>4, SetupFixed DEF Send, TypeOK, linkVars, appVars
<1>2. ASSUME NEW k \in setup.kinds, SendModify(k) PROVE TypeOK'
  <2>1. kind' \in Seq({"good", "bad", "odd"})
    BY <1>2, SetupTypes DEF SendModify, NewValue, TypeOK
  <2>2. Val(Len(kind'), "none") \in Datum
    BY <2>1 DEF Val, Datum
  <2>3. 0 \in Cells
    BY SetupTypes DEF TypeOK, Cells
  <2>4. cell' \in [Cells -> [val : Datum, ver : Nat]]
    BY <1>2, <2>2, <2>3, PutTypes DEF SendModify, TypeOK
  <2>5. QED
    BY <1>2, <2>1, <2>4, SetupFixed DEF SendModify, TypeOK, linkVars, appVars
<1>3. ASSUME NEW k \in setup.kinds, LocalSend(k) PROVE TypeOK'
  <2>1. kind' \in Seq({"good", "bad", "odd"})
    BY <1>3, SetupTypes DEF LocalSend, NewValue, TypeOK
  <2>2. local' \in [n : Nat, open : BOOLEAN, task : BOOLEAN]
    <3>1. local \in [n : Nat, open : BOOLEAN, task : BOOLEAN] /\ local' = [local EXCEPT !.n = local.n + 1]
      BY <1>3 DEF LocalSend, TypeOK
    <3>2. QED
      BY <3>1
  <2>3. QED
    BY <1>3, <2>1, <2>2, SetupFixed DEF LocalSend, TypeOK, linkVars, appVars
<1>4. CASE LocalDrop
  BY <1>4, SetupFixed DEF LocalDrop, TypeOK, linkVars, appVars, ErrorKind
<1>5. CASE DropSender
  BY <1>5, SetupFixed DEF DropSender, TypeOK, linkVars, appVars, ErrorKind
<1>6. CASE UpdateError
  <2>1. errs[0] \in Seq(ErrorKind) /\ errs[0] # <<>>
    BY SMTT(40), <1>6, SetupTypes DEF UpdateError, TypeOK, Cells
  <2>2. Head(errs[0]) \in ErrorKind /\ Tail(errs[0]) \in Seq(ErrorKind)
    BY <2>1
  <2>3. errs' \in [Cells -> Seq(ErrorKind)]
    BY <1>6, <2>2 DEF UpdateError, TypeOK
  <2>4. sender' \in [open : BOOLEAN, err : ErrorKind \cup {"none"}, limit : Nat, told : BOOLEAN]
    BY <1>6, <2>2 DEF UpdateError, TypeOK
  <2>5. QED
    BY <1>6, <2>3, <2>4, SetupFixed DEF UpdateError, TypeOK, linkVars, appVars
<1>7. CASE ClearError
  BY <1>7, SetupFixed DEF ClearError, TypeOK, linkVars, appVars, ErrorKind
<1>8. CASE Forward
  <2>1. Val(local.n, "none") \in Datum
    BY DEF Val, Datum, TypeOK
  <2>2. 0 \in Cells
    BY SetupTypes DEF TypeOK, Cells
  <2>3. cell' \in [Cells -> [val : Datum, ver : Nat]]
    BY <1>8, <2>1, <2>2, PutTypes DEF Forward, TypeOK
  <2>4. QED
    BY <1>8, <2>3, SetupFixed DEF Forward, TypeOK, linkVars, appVars
<1>9. ASSUME NEW limit \in Limits, SetSenderLimit(limit) PROVE TypeOK'
  <2>1. limit \in Nat
    BY SetupTypes DEF Limits, TypeOK
  <2>2. QED
    BY <1>9, <2>1, SetupFixed DEF SetSenderLimit, TypeOK, linkVars, appVars
<1>10. ASSUME NEW limit \in Limits, NEW r \in Receivers, SetLimit(r, limit) PROVE TypeOK'
  <2>1. limit \in Nat /\ recv[r] \in RecvState
    BY SetupTypes DEF Limits, TypeOK
  <2>2. [recv[r] EXCEPT !.limit = limit] \in RecvState
    BY <2>1 DEF RecvState
  <2>3. QED
    BY <1>10, <2>2, SetupFixed DEF SetLimit, TypeOK, linkVars, appVars, LimitChanged, MaySet
<1>11. ASSUME NEW r \in Receivers, Changed(r) PROVE TypeOK'
  <2>1. recv[r] \in RecvState /\ recv[r].at \in Cells
    BY <1>11 DEF Changed, TypeOK, RecvState, Live, Places
  <2>2. cell[recv[r].at].ver \in Int /\ cell[recv[r].at].val.n \in Nat
    BY <2>1 DEF TypeOK, Datum
  <2>3. \A v \in Int, n \in Nat :
          /\ [recv[r] EXCEPT !.seen = v, !.ended = "error"] \in RecvState
          /\ [recv[r] EXCEPT !.seen = v, !.got = n] \in RecvState
          /\ [recv[r] EXCEPT !.ended = "closed"] \in RecvState
    BY <2>1 DEF RecvState
  <2>4. recv' \in [Receivers -> RecvState]
    <3>1. /\ [recv[r] EXCEPT !.seen = cell[recv[r].at].ver, !.ended = "error"] \in RecvState
          /\ [recv[r] EXCEPT !.seen = cell[recv[r].at].ver, !.got = cell[recv[r].at].val.n] \in RecvState
          /\ [recv[r] EXCEPT !.ended = "closed"] \in RecvState
      BY <2>2, <2>3, Zenon
    <3>2. QED
      BY <1>11, <3>1 DEF Changed, TypeOK
  <2>5. QED
    BY <1>11, <2>4, SetupFixed DEF Changed, TypeOK, linkVars, appVars
<1>12. ASSUME NEW r \in Receivers, BorrowAndUpdate(r) PROVE TypeOK'
  <2>1. recv[r] \in RecvState /\ recv[r].at \in Cells
    BY <1>12 DEF BorrowAndUpdate, TypeOK, RecvState, Live, Places
  <2>2. cell[recv[r].at].ver \in Int /\ cell[recv[r].at].val.n \in Nat
    BY <2>1 DEF TypeOK, Datum
  <2>3. \A v \in Int, n \in Nat : [recv[r] EXCEPT !.seen = v, !.got = n] \in RecvState
    BY <2>1 DEF RecvState
  <2>4. [recv[r] EXCEPT !.seen = cell[recv[r].at].ver, !.got = cell[recv[r].at].val.n] \in RecvState
    BY <2>2, <2>3, Zenon
  <2>5. QED
    BY <1>12, <2>4, SetupFixed DEF BorrowAndUpdate, TypeOK, linkVars, appVars
<1>13. ASSUME NEW r \in Receivers, MarkChanged(r) PROVE TypeOK'
  <2>1. recv[r] \in RecvState
    BY <1>13 DEF MarkChanged, TypeOK, Live
  <2>2. [recv[r] EXCEPT !.seen = -1] \in RecvState
    BY <2>1 DEF RecvState
  <2>3. QED
    BY <1>13, <2>2, SetupFixed DEF MarkChanged, TypeOK, linkVars, appVars, Live
<1>14. ASSUME NEW r \in Receivers, DropReceiver(r) PROVE TypeOK'
  <2>1. recv[r] \in RecvState
    BY <1>14 DEF DropReceiver, TypeOK, Live
  <2>2. [recv[r] EXCEPT !.at = -1] \in RecvState
    BY <2>1 DEF RecvState, Places
  <2>3. QED
    BY <1>14, <2>2, SetupFixed DEF DropReceiver, TypeOK, linkVars, appVars, LimitChanged
<1>15. ASSUME NEW r \in Receivers, Subscribe(r) PROVE TypeOK'
  <2>1. 0 \in Cells
    BY SetupTypes DEF TypeOK, Cells
  <2>2. cell[0].ver \in Nat /\ cell[0].val.n \in Nat
    BY <2>1 DEF TypeOK, Datum
  <2>3. [at |-> 0, seen |-> cell[0].ver, limit |-> 0, got |-> cell[0].val.n, ended |-> "no"] \in RecvState
    BY <2>1, <2>2 DEF RecvState, Places
  <2>4. QED
    BY <1>15, <2>3, SetupFixed DEF Subscribe, TypeOK, linkVars, appVars
<1>16. ASSUME NEW r \in Receivers, Transport(r) PROVE TypeOK'
  <2> DEFINE l == recv[r].at + 1
  <2>1. l \in LinkIds /\ recv[r] \in RecvState
    BY <1>16, TransportLink
  <2> HIDE DEF l
  <2>2. cell[l].ver \in Nat /\ cell[l - 1].ver \in Nat /\ cell[l - 1].val \in Datum /\ l \in Cells
    BY <2>1, LinkTypes, LinkEnds DEF TypeOK
  <2>12. NoTask \in TxState
    BY DEF NoTask, TxState
  <2>13. \A v, n \in Nat : [NoTask EXCEPT !.run = TRUE, !.limit = v, !.seen = n] \in TxState
    BY <2>12 DEF TxState
  <2>14. cell[l].ver \in Int /\ recv[r].limit \in Nat /\ cell[l - 1].val.n \in Nat
    BY <2>1, <2>2 DEF RecvState, Datum
  <2>3. [NoTask EXCEPT !.run = TRUE, !.limit = recv[r].limit, !.seen = cell[l - 1].ver] \in TxState
    BY <2>2, <2>13, <2>14
  <2>4. [rx[l] EXCEPT !.run = TRUE] \in RxState
    BY <2>1, LinkTypes DEF RxState
  <2>5. [recv[r] EXCEPT !.at = l, !.seen = cell[l].ver, !.got = cell[l - 1].val.n, !.ended = "no"] \in RecvState
    <3>1. \A v \in Int, n \in Nat : [recv[r] EXCEPT !.at = l, !.seen = v, !.got = n, !.ended = "no"] \in RecvState
      BY <2>1, <2>2 DEF RecvState, Places
    <3>2. QED
      BY <2>14, <3>1, Zenon
  <2>6. cell' = [cell EXCEPT ![l].val = cell[l - 1].val] /\ cell' \in [Cells -> [val : Datum, ver : Nat]]
    BY ZenonT(60), <1>16, <2>2 DEF Transport, l, TypeOK
  <2>7. tx' \in [LinkIds -> TxState]
    BY <1>16, <2>3 DEF Transport, l, TypeOK
  <2>8. rx' \in [LinkIds -> RxState]
    BY <1>16, <2>4 DEF Transport, l, TypeOK
  <2>9. recv' \in [Receivers -> RecvState]
    BY <1>16, <2>5 DEF Transport, l, TypeOK
  <2>10. link' \in [LinkIds -> {"unused", "connecting", "up", "failed", "lost"}]
    BY <1>16 DEF Transport, l, TypeOK
  <2>11. QED
    BY <1>16, <2>6, <2>7, <2>8, <2>9, <2>10, SetupFixed DEF Transport, TypeOK, linkVars, appVars
<1>17. ASSUME NEW r \in Receivers, NEW s \in Receivers, Clone(r, s) PROVE TypeOK'
  BY <1>17, SetupFixed DEF Clone, TypeOK, linkVars, appVars
<1>18. ASSUME NEW l \in LinkIds, Establish(l) PROVE TypeOK'
  BY <1>18, SetupFixed DEF Establish, TypeOK, linkVars, appVars
<1>19. ASSUME NEW l \in LinkIds, ConnectFails(l) PROVE TypeOK'
  BY <1>19, SetupFixed DEF ConnectFails, TypeOK, linkVars, appVars
<1>20. ASSUME NEW l \in LinkIds, Disconnect(l) PROVE TypeOK'
  <2>1. port[l] \in Seq(Datum \cup {End}) /\ back[l] \in Seq(BackMessage)
    BY LinkTypes
  <2>2. \A p \in 0..Len(port[l]) : SubSeq(port[l], 1, p) \in Seq(Datum \cup {End})
    BY <2>1
  <2>3. \A b \in 0..Len(back[l]) : SubSeq(back[l], 1, b) \in Seq(BackMessage)
    BY <2>1
  <2>4. port' \in [LinkIds -> Seq(Datum \cup {End})] /\ back' \in [LinkIds -> Seq(BackMessage)]
    BY <1>20, <2>2, <2>3 DEF Disconnect, TypeOK
  <2>5. QED
    BY <1>20, <2>4, SetupFixed DEF Disconnect, TypeOK, linkVars, appVars
<1>21. ASSUME NEW l \in LinkIds, DelayPasses(l) PROVE TypeOK'
  <2>1. tx[l] \in TxState
    BY LinkTypes
  <2>2. [tx[l] EXCEPT !.cool = FALSE] \in TxState
    BY <2>1 DEF TxState
  <2>3. QED
    BY <1>21, <2>2, SetupFixed DEF DelayPasses, TypeOK, linkVars, appVars
<1>22. ASSUME NEW l \in LinkIds, TxConnectError(l) PROVE TypeOK'
  <2>1. tx[l] \in TxState
    BY LinkTypes
  <2>2. [tx[l] EXCEPT !.run = FALSE, !.why = "connect"] \in TxState
    BY <2>1 DEF TxState
  <2>3. \A e \in ErrorKind : Append(errs[l - 1], e) \in Seq(ErrorKind)
    BY LinkEnds DEF TypeOK
  <2>4. QED
    BY <1>22, <2>2, <2>3, SetupFixed
       DEF TxConnectError, TypeOK, linkVars, appVars, Report, LimitChanged, ErrorKind
<1>23. ASSUME NEW l \in LinkIds, TxSend(l) PROVE TypeOK'
  <2>1. tx[l] \in TxState
    BY LinkTypes
  <2>2. QED
    BY <1>23, <2>1, TakeTypes, SetupFixed DEF TxSend, TypeOK, linkVars, appVars
<1>24. ASSUME NEW l \in LinkIds, TxChanged(l) PROVE TypeOK'
  <2>1. tx[l] \in TxState
    BY LinkTypes
  <2>2. \A v \in Nat : [tx[l] EXCEPT !.pending = TRUE, !.seen = v] \in TxState
    BY <2>1 DEF TxState
  <2>3. cell[l - 1].ver \in Nat
    BY LinkTypes
  <2>4. QED
    BY <1>24, <2>2, <2>3, SetupFixed DEF TxChanged, TypeOK, linkVars, appVars
<1>25. ASSUME NEW l \in LinkIds, TxFedNoMore(l) PROVE TypeOK'
  BY <1>25, CloseTypes, SetupFixed DEF TxFedNoMore, TypeOK, linkVars, appVars
<1>26. ASSUME NEW l \in LinkIds, TxBack(l) PROVE TypeOK'
  <2>1. tx[l] \in TxState /\ back[l] \in Seq(BackMessage) /\ back[l] # <<>>
    BY <1>26, LinkTypes DEF TxBack
  <2>2. Head(back[l]) \in BackMessage /\ Tail(back[l]) \in Seq(BackMessage)
    BY <2>1
  <2>3. [tx[l] EXCEPT !.limit = Head(back[l]).limit] \in TxState
    BY <2>1, <2>2 DEF TxState, BackMessage
  <2>4. back' \in [LinkIds -> Seq(BackMessage)]
    BY <1>26, <2>2 DEF TxBack, TypeOK
  <2>5. \A e \in ErrorKind : Append(errs[l - 1], e) \in Seq(ErrorKind)
    BY LinkEnds DEF TypeOK
  <2>6. CASE Head(back[l]).msg = "end"
    BY <1>26, <2>4, <2>6, CloseTypes, SetupFixed DEF TxBack, TypeOK, linkVars, appVars
  <2>7. CASE Head(back[l]).msg = "error"
    BY ZenonT(60), <1>26, <2>4, <2>5, <2>7, SetupFixed
       DEF TxBack, Report, ErrorKind, TypeOK, linkVars, appVars
  <2>8. CASE Head(back[l]).msg = "limit"
    BY ZenonT(60), <1>26, <2>3, <2>4, <2>8, SetupFixed DEF TxBack, TypeOK, linkVars, appVars
  <2>9. QED
    BY <2>2, <2>6, <2>7, <2>8 DEF BackMessage
<1>27. ASSUME NEW l \in LinkIds, TxBackLost(l) PROVE TypeOK'
  BY <1>27, CloseTypes, SetupFixed DEF TxBackLost, TypeOK, linkVars, appVars
<1>28. ASSUME NEW l \in LinkIds, TxSent(l) PROVE TypeOK'
  <2>1. tx[l] \in TxState /\ port[l] \in Seq(Datum \cup {End})
    BY LinkTypes
  <2>2. SentState(tx[l]) \in TxState
    BY <2>1, SentTypes
  <2>3. port[l] \o tx[l].sending \in Seq(Datum \cup {End})
    BY <2>1 DEF TxState
  <2>4. QED
    BY <1>28, <2>2, <2>3, SetupFixed DEF TxSent, TypeOK, linkVars, appVars
<1>29. ASSUME NEW l \in LinkIds, TxSendFails(l) PROVE TypeOK'
  <2>1. tx[l] \in TxState
    BY LinkTypes
  <2>5. SentState(tx[l]) \in TxState
    BY <2>1, SentTypes
  <2>2. [SentState(tx[l]) EXCEPT !.all = FALSE] \in TxState
    BY <2>5 DEF TxState
  <2>3. \A e \in ErrorKind : Append(errs[l - 1], e) \in Seq(ErrorKind)
    BY LinkEnds DEF TypeOK
  <2>4. errs' \in [Cells -> Seq(ErrorKind)]
    BY <1>29, <2>3 DEF TxSendFails, Report, TypeOK, ErrorKind
  <2>6. tx' \in [LinkIds -> TxState]
    BY <1>29, <2>2 DEF TxSendFails, TypeOK
  <2>7. QED
    BY <1>29, <2>4, <2>6, SetupFixed DEF TxSendFails, TypeOK, linkVars, appVars
<1>30. ASSUME NEW l \in LinkIds, TxAllReceived(l) PROVE TypeOK'
  <2>1. tx[l] \in TxState
    BY LinkTypes
  <2>2. [tx[l] EXCEPT !.all = FALSE] \in TxState
    BY <2>1 DEF TxState
  <2>3. QED
    BY <1>30, <2>2, SetupFixed DEF TxAllReceived, TypeOK, linkVars, appVars
<1>31. ASSUME NEW l \in LinkIds, TxLeave(l) PROVE TypeOK'
  <2>1. tx[l] \in TxState
    BY LinkTypes
  <2>2. QED
    BY <1>31, <2>1, EndTypes, SetupFixed DEF TxLeave, TypeOK, linkVars, appVars
<1>32. ASSUME NEW l \in LinkIds, RxConnectError(l) PROVE TypeOK'
  <2>1. rx[l] \in RxState
    BY LinkTypes
  <2>2. [rx[l] EXCEPT !.run = FALSE] \in RxState
    BY <2>1 DEF RxState
  <2>3. Val(cell[l].val.n, "connect") \in Datum /\ l \in Cells
    BY LinkTypes, LinkEnds DEF Val, Datum, TypeOK
  <2>4. cell' \in [Cells -> [val : Datum, ver : Nat]]
    BY <1>32, <2>3, PutTypes DEF RxConnectError, TypeOK
  <2>5. QED
    BY <1>32, <2>2, <2>4, SetupFixed DEF RxConnectError, TypeOK, linkVars, appVars
<1>33. ASSUME NEW l \in LinkIds, RxClosed(l) PROVE TypeOK'
  <2>1. port' \in [LinkIds -> Seq(Datum \cup {End})]
    BY <1>33 DEF RxClosed, TypeOK
  <2>2. QED
    BY <1>33, <2>1, RxEndTypes, SetupFixed DEF RxClosed, TypeOK, linkVars, appVars
<1>34. ASSUME NEW l \in LinkIds, RxError(l) PROVE TypeOK'
  <2>1. rx[l] \in RxState
    BY LinkTypes
  <2>2. Back("error", 0) \in OutMessage
    BY DEF Back, OutMessage
  <2>3. \A s \in Seq(OutMessage) : [rx[l] EXCEPT !.out = s] \in RxState
    BY <2>1 DEF RxState
  <2>7. <<Back("error", 0)>> \in Seq(OutMessage)
    BY <2>2
  <2>4. errs[l] # <<>> /\ errs[l] \in Seq(ErrorKind)
    BY <1>34, LinkEnds DEF RxError, TypeOK
  <2>5. Tail(errs[l]) \in Seq(ErrorKind)
    BY <2>4
  <2>6. QED
    BY <1>34, <2>3, <2>5, <2>7, SetupFixed DEF RxError, TypeOK, linkVars, appVars
<1>35. ASSUME NEW l \in LinkIds, RxLimit(l) PROVE TypeOK'
  <2>1. rx[l] \in RxState
    BY LinkTypes
  <2>8. Compute(l) \in Nat
    BY LinkEnds, ComputeNat DEF TypeOK
  <2>2. Compute(l) \in Nat /\ Compute(l) \in Int
    BY <2>8
  <2>3. Back("limit", Compute(l)) \in OutMessage
    BY <2>2 DEF Back, OutMessage
  <2>4. \A s \in Seq(OutMessage), n \in Int : [rx[l] EXCEPT !.told = n, !.out = s] \in RxState
    BY <2>1 DEF RxState
  <2>7. <<Back("limit", Compute(l))>> \in Seq(OutMessage)
    BY <2>3
  <2>5. [rx[l] EXCEPT !.told = Compute(l), !.out = <<Back("limit", Compute(l))>>] \in RxState
    BY <2>2, <2>4, <2>7, Zenon
  <2>6. QED
    BY <1>35, <2>5, SetupFixed DEF RxLimit, TypeOK, linkVars, appVars
<1>36. ASSUME NEW l \in LinkIds, RxBack(l) PROVE TypeOK'
  <2>1. rx[l] \in RxState
    BY LinkTypes
  <2>5. \A s \in Seq(OutMessage) : [rx[l] EXCEPT !.out = s] \in RxState
    BY <2>1 DEF RxState
  <2>6. <<>> \in Seq(OutMessage)
    OBVIOUS
  <2>2. [rx[l] EXCEPT !.out = <<>>] \in RxState
    BY <2>5, <2>6
  <2>3. back[l] \o rx[l].out \in Seq(BackMessage)
    <3>1. OutMessage \subseteq BackMessage
      BY DEF OutMessage, BackMessage
    <3>2. rx[l].out \in Seq(OutMessage) /\ back[l] \in Seq(BackMessage)
      BY <2>1, LinkTypes DEF RxState
    <3>3. rx[l].out \in Seq(BackMessage)
      BY <3>1, <3>2
    <3>4. QED
      BY <3>2, <3>3
  <2>4. QED
    BY ZenonT(60), <1>36, <2>2, <2>3, SetupFixed DEF RxBack, TypeOK, linkVars, appVars
<1>37. ASSUME NEW l \in LinkIds, RxData(l) PROVE TypeOK'
  <2>1. port[l] \in Seq(Datum \cup {End}) /\ port[l] # <<>> /\ l \in Cells
    BY <1>37, LinkTypes, LinkEnds DEF RxData, TypeOK
  <2>2. Head(port[l]) \in Datum /\ Tail(port[l]) \in Seq(Datum \cup {End})
    BY <1>37, <2>1 DEF RxData
  <2>3. Val(Head(port[l]).n, "item") \in Datum
    BY <2>2 DEF Val, Datum
  <2>4. cell' \in [Cells -> [val : Datum, ver : Nat]]
    BY <1>37, <2>1, <2>2, <2>3, PutTypes DEF RxData
  <2>5. QED
    BY <1>37, <2>2, <2>4, SetupFixed DEF RxData, TypeOK, linkVars, appVars
<1>38. ASSUME NEW l \in LinkIds, RxEnd(l) PROVE TypeOK'
  <2>1. port' \in [LinkIds -> Seq(Datum \cup {End})]
    BY <1>38 DEF RxEnd, TypeOK
  <2>2. QED
    BY <1>38, <2>1, RxEndTypes, SetupFixed DEF RxEnd, TypeOK, linkVars, appVars
<1>39. ASSUME NEW l \in LinkIds, RxLost(l) PROVE TypeOK'
  <2>1. Val(cell[l].val.n, "chmux") \in Datum /\ l \in Cells
    BY LinkTypes, LinkEnds DEF Val, Datum, TypeOK
  <2>2. cell' \in [Cells -> [val : Datum, ver : Nat]]
    BY <1>39, <2>1, PutTypes DEF RxLost
  <2>3. QED
    BY <1>39, <2>2, RxEndTypes, SetupFixed DEF RxLost, TypeOK, linkVars, appVars
<1>40. CASE UNCHANGED vars
  BY <1>40 DEF vars, TypeOK, Cells, LinkIds, RecvState, Places
<1>41. QED
  BY <1>1, <1>2, <1>3, <1>4, <1>5, <1>6, <1>7, <1>8, <1>9, <1>10, <1>11, <1>12, <1>13, <1>14,
     <1>15, <1>16, <1>17, <1>18, <1>19, <1>20, <1>21, <1>22, <1>23, <1>24, <1>25, <1>26, <1>27,
         <1>28, <1>29, <1>30, <1>31, <1>32, <1>33, <1>34, <1>35, <1>36, <1>37, <1>38, <1>39,
         <1>40
     DEF Next, Application, TxTask, RxTask

-----------------------------------------------------------------------------
(* What the steps do *)

\* The cells of the Sender and of a link.
LEMMA CellTypes ==
  ASSUME TypeOK
  PROVE  /\ 0 \in Cells /\ Len(kind) \in Nat /\ local.n \in Nat
         /\ \A h \in Cells : cell[h].val.n \in Nat /\ cell[h].ver \in Nat /\ cell[h].val \in Datum
<1>1. 0 \in Cells /\ Len(kind) \in Nat /\ local.n \in Nat
  BY SetupTypes DEF TypeOK, Cells
<1>2. ASSUME NEW h \in Cells
      PROVE  cell[h].val.n \in Nat /\ cell[h].ver \in Nat /\ cell[h].val \in Datum
  BY DEF TypeOK, Datum
<1>3. QED
  BY <1>1, <1>2

LEMMA PutEffect ==
  ASSUME TypeOK, NEW h \in Cells, NEW v, Put(h, v)
  PROVE  /\ cell'[h].val = v /\ cell'[h].ver = cell[h].ver + 1
         /\ \A g \in Cells \ {h} : cell'[g] = cell[g]
  BY DEF Put, TypeOK

\* A receiving task does not touch the cell of the Sender.
LEMMA RxPut ==
  ASSUME TypeOK, NEW l \in LinkIds, NEW v, Put(l, v)
  PROVE  cell'[0] = cell[0]
<1>1. l \in Cells /\ 0 \in Cells \ {l}
  BY LinkEnds DEF TypeOK
<1>2. QED
  BY <1>1, PutEffect

\* A Receiver is sent over the next link, which exists from then on.
LEMMA TransportEffect ==
  ASSUME TypeOK, NEW r \in Receivers, Transport(r)
  PROVE  \E l \in LinkIds :
           /\ recv[r].at = l - 1 /\ link[l] = "unused"
           /\ link' = [link EXCEPT ![l] = "connecting"]
           /\ tx'[l].run = TRUE /\ tx'[l].seen = cell[l - 1].ver /\ tx'[l].pending = FALSE
           /\ tx'[l].closed = FALSE /\ tx'[l].sending = <<>> /\ tx'[l].why = "none"
           /\ \A m \in LinkIds \ {l} : tx'[m] = tx[m] /\ rx'[m] = rx[m]
           /\ rx'[l].run = TRUE
           /\ cell'[l].val = cell[l - 1].val /\ cell'[l].ver = cell[l].ver
           /\ \A g \in Cells \ {l} : cell'[g] = cell[g]
           /\ recv'[r].at = l /\ recv'[r].got = cell[l - 1].val.n /\ recv'[r].ended = "no"
           /\ \A s \in Receivers \ {r} : recv'[s] = recv[s]
           /\ UNCHANGED <<setup, kind, local, sender, errs, port, back>>
<1> DEFINE l == recv[r].at + 1
<1>1. l \in LinkIds /\ recv[r].at = l - 1 /\ recv[r] \in RecvState
  <2>1. l \in LinkIds /\ recv[r].at \in Int /\ recv[r] \in RecvState
    BY TransportLink
  <2>2. \A a \in Int : a = a + 1 - 1
    OBVIOUS
  <2> QED  BY <2>1, <2>2
<1>2. /\ link[l] = "unused"
      /\ link' = [link EXCEPT ![l] = "connecting"]
      /\ tx' = [tx EXCEPT ![l] = [NoTask EXCEPT !.run = TRUE, !.limit = recv[r].limit,
                                                !.seen = cell[l - 1].ver]]
      /\ rx' = [rx EXCEPT ![l].run = TRUE]
      /\ cell' = [cell EXCEPT ![l].val = cell[l - 1].val]
      /\ recv' = [recv EXCEPT ![r].at = l, ![r].seen = cell[l].ver,
                              ![r].got = cell[l - 1].val.n, ![r].ended = "no"]
      /\ UNCHANGED <<setup, kind, local, sender, errs, port, back>>
  BY DEF Transport
<1> HIDE DEF l
<1>3. /\ tx'[l].run = TRUE /\ tx'[l].seen = cell[l - 1].ver /\ tx'[l].pending = FALSE
      /\ tx'[l].closed = FALSE /\ tx'[l].sending = <<>> /\ tx'[l].why = "none"
      /\ \A m \in LinkIds \ {l} : tx'[m] = tx[m]
  <2>1. tx'[l] = [NoTask EXCEPT !.run = TRUE, !.limit = recv[r].limit, !.seen = cell[l - 1].ver]
    BY <1>1, <1>2 DEF TypeOK
  <2>2. \A m \in LinkIds \ {l} : tx'[m] = tx[m]
    BY <1>2 DEF TypeOK
  <2>3. QED
    BY <2>1, <2>2 DEF NoTask
<1>4. /\ \A m \in LinkIds \ {l} : rx'[m] = rx[m]
      /\ rx'[l].run = TRUE
  BY <1>1, <1>2, LinkTypes DEF TypeOK, RxState
<1>5. /\ cell'[l].val = cell[l - 1].val /\ cell'[l].ver = cell[l].ver
      /\ \A g \in Cells \ {l} : cell'[g] = cell[g]
  BY <1>1, <1>2, LinkEnds DEF TypeOK
<1>6. /\ recv'[r].at = l /\ recv'[r].got = cell[l - 1].val.n /\ recv'[r].ended = "no"
      /\ \A s \in Receivers \ {r} : recv'[s] = recv[s]
  BY <1>1, <1>2 DEF TypeOK, RecvState
<1>7. QED
  BY ZenonT(60), <1>1, <1>2, <1>3, <1>4, <1>5, <1>6, Zenon

\* Every other step of a link only touches this link and the cell at its end.
LinkAction(l) ==
    Establish(l) \/ ConnectFails(l) \/ Disconnect(l) \/ DelayPasses(l) \/ TxTask(l) \/ RxTask(l)

Frame(l) ==
    /\ UNCHANGED <<setup, kind, local, sender, recv>>
    /\ \A m \in LinkIds \ {l} :
         /\ link'[m] = link[m] /\ tx'[m] = tx[m] /\ rx'[m] = rx[m]
         /\ port'[m] = port[m] /\ back'[m] = back[m]
    /\ \A h \in Cells \ {l} : cell'[h] = cell[h]

LEMMA LinkFrame == ASSUME TypeOK, NEW l \in LinkIds, LinkAction(l) PROVE Frame(l)
<1> USE DEF Frame, TypeOK, appVars
<1>1. CASE Establish(l) \/ ConnectFails(l) \/ Disconnect(l) \/ DelayPasses(l)
  BY <1>1 DEF Establish, ConnectFails, Disconnect, DelayPasses
<1>2. CASE TxConnectError(l) \/ TxChanged(l) \/ TxSent(l) \/ TxSendFails(l) \/ TxAllReceived(l)
  BY <1>2 DEF TxConnectError, TxChanged, TxSent, TxSendFails, TxAllReceived
<1>3. CASE TxSend(l)
  BY <1>3 DEF TxSend, TakeValue, TxEnds
<1>4. CASE TxFedNoMore(l)
  BY <1>4 DEF TxFedNoMore, TxClose, TakeValue, TxEnds
<1>5. CASE TxBackLost(l)
  BY <1>5 DEF TxBackLost, TxClose, TakeValue, TxEnds
<1>6. CASE TxBack(l)
  BY <1>6 DEF TxBack, TxClose, TakeValue, TxEnds
<1>7. CASE TxLeave(l)
  BY <1>7 DEF TxLeave, TxEnds
<1>8. CASE RxConnectError(l)
  BY <1>8 DEF RxConnectError, Put
<1>9. CASE RxClosed(l) \/ RxEnd(l) \/ RxError(l) \/ RxLimit(l) \/ RxBack(l)
  BY <1>9 DEF RxClosed, RxEnd, RxError, RxLimit, RxBack, RxEnds
<1>10. CASE RxData(l)
  BY <1>10 DEF RxData, Put
<1>11. CASE RxLost(l)
  BY <1>11 DEF RxLost, Put, RxEnds
<1>12. QED
  BY <1>1, <1>2, <1>3, <1>4, <1>5, <1>6, <1>7, <1>8, <1>9, <1>10, <1>11
     DEF LinkAction, TxTask, RxTask

LEMMA TxEndsEffect ==
  ASSUME TypeOK, NEW l \in LinkIds, NEW t \in TxState, TxEnds(l, t)
  PROVE  /\ tx'[l].run = FALSE /\ tx'[l].seen = t.seen /\ tx'[l].sending = t.sending
         /\ tx'[l].why = t.why
         /\ port'[l] = IF link[l] = "up" /\ rx[l].run THEN Append(port[l], End) ELSE port[l]
<1>1. tx'[l] = [t EXCEPT !.run = FALSE]
  BY DEF TxEnds, TypeOK
<1>2. port'[l] = IF link[l] = "up" /\ rx[l].run THEN Append(port[l], End) ELSE port[l]
  BY DEF TxEnds, TypeOK
<1>3. QED
  BY <1>1, <1>2 DEF TxState

\* The task ends because of the value, or sends it.
TakeEffect(l, t) ==
    \/ /\ tx'[l].run = FALSE /\ tx'[l].why = "item" /\ tx'[l].sending = t.sending
       /\ tx'[l].seen = cell[l - 1].ver
       /\ port'[l] = IF link[l] = "up" /\ rx[l].run THEN Append(port[l], End) ELSE port[l]
    \/ /\ tx'[l].run = t.run /\ tx'[l].why = t.why /\ tx'[l].closed = t.closed
       /\ tx'[l].pending = t.pending
       /\ tx'[l].seen = cell[l - 1].ver /\ tx'[l].sending = <<cell[l - 1].val>>
       /\ port'[l] = port[l]

LEMMA TakeValueEffect ==
  ASSUME TypeOK, NEW l \in LinkIds, NEW t \in TxState, TakeValue(l, t)
  PROVE  TakeEffect(l, t)
<1> DEFINE v == cell[l - 1].ver
           d == cell[l - 1].val
<1>1. v \in Nat /\ d \in Datum
  BY LinkTypes
<1>2. CASE KindOf(cell[l - 1].val) = "bad"
  <2>1. TxEnds(l, [t EXCEPT !.seen = v, !.why = "item"])
    BY <1>2 DEF TakeValue
  <2> HIDE DEF v
  <2>2. [t EXCEPT !.seen = v, !.why = "item"] \in TxState
    BY <1>1 DEF TxState
  <2>3. /\ [t EXCEPT !.seen = v, !.why = "item"].seen = v
        /\ [t EXCEPT !.seen = v, !.why = "item"].why = "item"
        /\ [t EXCEPT !.seen = v, !.why = "item"].sending = t.sending
    BY DEF TxState
  <2>4. QED
    BY <2>1, <2>2, <2>3, TxEndsEffect DEF TakeEffect, v
<1>3. CASE KindOf(cell[l - 1].val) # "bad"
  <2>1. tx'[l] = [t EXCEPT !.seen = v, !.sending = <<d>>] /\ port'[l] = port[l]
    BY <1>3 DEF TakeValue, TypeOK
  <2> HIDE DEF v, d
  <2>2. /\ tx'[l].run = t.run /\ tx'[l].why = t.why /\ tx'[l].closed = t.closed
        /\ tx'[l].pending = t.pending /\ tx'[l].seen = v /\ tx'[l].sending = <<d>>
    BY <2>1 DEF TxState
  <2>3. QED
    BY <2>1, <2>2 DEF TakeEffect, v, d
<1>4. QED
  BY <1>2, <1>3

\* Closing sends the value that is pending, or ends the task.
CloseEffect(l) ==
    \/ tx[l].pending /\ TakeEffect(l, [tx[l] EXCEPT !.closed = TRUE])
    \/ /\ ~tx[l].pending
       /\ tx'[l].run = FALSE /\ tx'[l].seen = tx[l].seen /\ tx'[l].sending = tx[l].sending
       /\ tx'[l].why = tx[l].why
       /\ port'[l] = IF link[l] = "up" /\ rx[l].run THEN Append(port[l], End) ELSE port[l]

LEMMA ClosedState ==
  ASSUME NEW t \in TxState
  PROVE  /\ [t EXCEPT !.closed = TRUE] \in TxState
         /\ [t EXCEPT !.closed = TRUE].run = t.run /\ [t EXCEPT !.closed = TRUE].seen = t.seen
         /\ [t EXCEPT !.closed = TRUE].pending = t.pending
         /\ [t EXCEPT !.closed = TRUE].sending = t.sending
         /\ [t EXCEPT !.closed = TRUE].why = t.why
  BY DEF TxState

LEMMA TxCloseEffect ==
  ASSUME TypeOK, NEW l \in LinkIds, TxClose(l, tx[l])
  PROVE  CloseEffect(l)
<1> DEFINE t == [tx[l] EXCEPT !.closed = TRUE]
<1>1. t \in TxState /\ t.seen = tx[l].seen /\ t.sending = tx[l].sending /\ t.why = tx[l].why
  BY ClosedState, LinkTypes
<1>2. CASE tx[l].pending
  <2>1. TakeValue(l, t)
    BY <1>2 DEF TxClose
  <2>2. TakeEffect(l, t)
    <3> HIDE DEF t
    <3> QED
      BY <1>1, <2>1, TakeValueEffect
  <2>3. QED
    BY <1>2, <2>2 DEF CloseEffect
<1>3. CASE ~tx[l].pending
  <2>1. TxEnds(l, t)
    BY <1>3 DEF TxClose
  <2> HIDE DEF t
  <2>2. QED
    BY <1>1, <1>3, <2>1, TxEndsEffect DEF CloseEffect
<1>4. QED
  BY <1>2, <1>3

\* A step of the sending task that ends it or begins to send a value.
LEMMA TxStopEffect ==
  ASSUME TypeOK, NEW l \in LinkIds
  PROVE  /\ TxSend(l) => TakeEffect(l, tx[l])
         /\ TxFedNoMore(l) \/ TxBackLost(l) => CloseEffect(l)
         /\ TxBack(l) /\ Head(back[l]).msg = "end" => CloseEffect(l)
<1>1. tx[l] \in TxState
  BY LinkTypes
<1>2. ASSUME TxSend(l) PROVE TakeEffect(l, tx[l])
  BY <1>1, <1>2, TakeValueEffect DEF TxSend
<1>3. ASSUME TxFedNoMore(l) \/ TxBackLost(l) PROVE CloseEffect(l)
  BY <1>3, TxCloseEffect DEF TxFedNoMore, TxBackLost
<1>4. ASSUME TxBack(l), Head(back[l]).msg = "end" PROVE CloseEffect(l)
  BY <1>4, TxCloseEffect DEF TxBack
<1>5. QED
  BY <1>2, <1>3, <1>4

-----------------------------------------------------------------------------
(* Order of the values *)

LEMMA NextSender == TypeOK /\ SenderOK /\ [Next]_vars => SenderOK'
<1> SUFFICES ASSUME TypeOK, SenderOK, [Next]_vars PROVE SenderOK'
  OBVIOUS
<1> USE CellTypes, SetupTypes DEF SenderOK, linkVars, appVars
<1>1. ASSUME NEW k \in setup.kinds, Send(k) PROVE SenderOK'
  BY SMTT(40), <1>1 DEF Send, NewValue, Put, Val, TypeOK
<1>2. ASSUME NEW k \in setup.kinds, SendModify(k) PROVE SenderOK'
  BY SMTT(40), <1>2 DEF SendModify, NewValue, Put, Val, TypeOK
<1>3. ASSUME NEW k \in setup.kinds, LocalSend(k) PROVE SenderOK'
  BY SMTT(40), <1>3 DEF LocalSend, NewValue, Put, Val, TypeOK
<1>4. CASE LocalDrop
  BY <1>4 DEF LocalDrop, TypeOK
<1>5. CASE DropSender
  BY <1>5 DEF DropSender, TypeOK
<1>6. CASE UpdateError
  BY <1>6 DEF UpdateError, TypeOK
<1>7. CASE ClearError
  BY <1>7 DEF ClearError, TypeOK
<1>8. CASE Forward
  <2>1. CASE UNCHANGED cell
    BY <1>8, <2>1 DEF Forward, TypeOK
  <2>2. CASE Put(0, Val(local.n, "none")) /\ UNCHANGED <<local, sender>>
    BY <1>8, <2>2, PutEffect DEF Forward, Val
  <2>3. QED
    BY <1>8, <2>1, <2>2 DEF Forward
<1>9. ASSUME NEW limit \in Limits, SetSenderLimit(limit) PROVE SenderOK'
  BY <1>9 DEF SetSenderLimit, TypeOK
<1>10. ASSUME NEW limit \in Limits, NEW r \in Receivers, SetLimit(r, limit) PROVE SenderOK'
  BY <1>10 DEF SetLimit
<1>11. ASSUME NEW r \in Receivers, Changed(r) PROVE SenderOK'
  BY <1>11 DEF Changed
<1>12. ASSUME NEW r \in Receivers, BorrowAndUpdate(r) PROVE SenderOK'
  BY <1>12 DEF BorrowAndUpdate
<1>13. ASSUME NEW r \in Receivers, MarkChanged(r) PROVE SenderOK'
  BY <1>13 DEF MarkChanged
<1>14. ASSUME NEW r \in Receivers, DropReceiver(r) PROVE SenderOK'
  BY <1>14 DEF DropReceiver
<1>15. ASSUME NEW r \in Receivers, Subscribe(r) PROVE SenderOK'
  BY <1>15 DEF Subscribe
<1>16. ASSUME NEW r \in Receivers, Transport(r) PROVE SenderOK'
  <2>1. cell'[0] = cell[0] /\ UNCHANGED <<setup, kind, local, sender>>
    <3>1. \A l \in LinkIds : 0 \in Cells \ {l}
      BY LinkEnds DEF TypeOK
    <3>2. QED
      BY ZenonT(60), <1>16, <3>1, TransportEffect
  <2>2. QED
    BY <2>1
<1>17. ASSUME NEW r \in Receivers, NEW s \in Receivers, Clone(r, s) PROVE SenderOK'
  BY <1>17 DEF Clone
<1>18. ASSUME NEW l \in LinkIds, Establish(l) PROVE SenderOK'
  BY <1>18 DEF Establish
<1>19. ASSUME NEW l \in LinkIds, ConnectFails(l) PROVE SenderOK'
  BY <1>19 DEF ConnectFails
<1>20. ASSUME NEW l \in LinkIds, Disconnect(l) PROVE SenderOK'
  BY <1>20 DEF Disconnect
<1>21. ASSUME NEW l \in LinkIds, DelayPasses(l) PROVE SenderOK'
  BY <1>21 DEF DelayPasses
<1>22. ASSUME NEW l \in LinkIds, TxConnectError(l) PROVE SenderOK'
  BY <1>22 DEF TxConnectError
<1>23. ASSUME NEW l \in LinkIds, TxSend(l) PROVE SenderOK'
  BY <1>23 DEF TxSend
<1>24. ASSUME NEW l \in LinkIds, TxChanged(l) PROVE SenderOK'
  BY <1>24 DEF TxChanged
<1>25. ASSUME NEW l \in LinkIds, TxFedNoMore(l) PROVE SenderOK'
  BY <1>25 DEF TxFedNoMore
<1>26. ASSUME NEW l \in LinkIds, TxBack(l) PROVE SenderOK'
  BY <1>26 DEF TxBack
<1>27. ASSUME NEW l \in LinkIds, TxBackLost(l) PROVE SenderOK'
  BY <1>27 DEF TxBackLost
<1>28. ASSUME NEW l \in LinkIds, TxSent(l) PROVE SenderOK'
  BY <1>28 DEF TxSent
<1>29. ASSUME NEW l \in LinkIds, TxSendFails(l) PROVE SenderOK'
  BY <1>29 DEF TxSendFails
<1>30. ASSUME NEW l \in LinkIds, TxAllReceived(l) PROVE SenderOK'
  BY <1>30 DEF TxAllReceived
<1>31. ASSUME NEW l \in LinkIds, TxLeave(l) PROVE SenderOK'
  BY <1>31 DEF TxLeave
<1>32. ASSUME NEW l \in LinkIds, RxConnectError(l) PROVE SenderOK'
  BY <1>32, RxPut DEF RxConnectError
<1>33. ASSUME NEW l \in LinkIds, RxClosed(l) PROVE SenderOK'
  BY <1>33 DEF RxClosed
<1>34. ASSUME NEW l \in LinkIds, RxError(l) PROVE SenderOK'
  BY <1>34 DEF RxError
<1>35. ASSUME NEW l \in LinkIds, RxLimit(l) PROVE SenderOK'
  BY <1>35 DEF RxLimit
<1>36. ASSUME NEW l \in LinkIds, RxBack(l) PROVE SenderOK'
  BY <1>36 DEF RxBack
<1>37. ASSUME NEW l \in LinkIds, RxData(l) PROVE SenderOK'
  BY <1>37, RxPut DEF RxData
<1>38. ASSUME NEW l \in LinkIds, RxEnd(l) PROVE SenderOK'
  BY <1>38 DEF RxEnd
<1>39. ASSUME NEW l \in LinkIds, RxLost(l) PROVE SenderOK'
  BY <1>39, RxPut DEF RxLost
<1>40. CASE UNCHANGED vars
  BY <1>40 DEF vars
<1>41. QED
  BY <1>1, <1>2, <1>3, <1>4, <1>5, <1>6, <1>7, <1>8, <1>9, <1>10, <1>11, <1>12, <1>13, <1>14,
     <1>15, <1>16, <1>17, <1>18, <1>19, <1>20, <1>21, <1>22, <1>23, <1>24, <1>25, <1>26, <1>27,
         <1>28, <1>29, <1>30, <1>31, <1>32, <1>33, <1>34, <1>35, <1>36, <1>37, <1>38, <1>39,
         <1>40
     DEF Next, Application, TxTask, RxTask

\* What a Receiver notes about its cell.
LEMMA ChangedEffect ==
  ASSUME TypeOK, NEW r \in Receivers, Changed(r)
  PROVE  /\ \A q \in Receivers \ {r} : recv'[q] = recv[q]
         /\ recv'[r].at = recv[r].at
         /\ \/ recv'[r].got = recv[r].got
            \/ recv'[r].got = cell[recv[r].at].val.n
         /\ \/ recv'[r].ended \in {recv[r].ended, "error"}
            \/ ~Fed(recv[r].at) /\ cell[recv[r].at].val.err \notin Disconnecting
         /\ UNCHANGED <<setup, kind, local, sender, cell, errs, linkVars>>
<1> DEFINE c == cell[recv[r].at]
<1>1. recv[r] \in RecvState
  BY DEF TypeOK
<1>2. CASE recv' = [recv EXCEPT ![r].seen = c.ver, ![r].ended = "error"]
  <2> HIDE DEF c
  <2> QED
    BY <1>1, <1>2 DEF Changed, TypeOK, RecvState
<1>3. CASE recv' = [recv EXCEPT ![r].seen = c.ver, ![r].got = c.val.n]
  <2>1. recv'[r].got = c.val.n /\ recv'[r].at = recv[r].at /\ recv'[r].ended = recv[r].ended
        /\ \A q \in Receivers \ {r} : recv'[q] = recv[q]
    <3> HIDE DEF c
    <3> QED
      BY <1>1, <1>3 DEF TypeOK, RecvState
  <2>2. QED
    BY <2>1 DEF Changed
<1>4. CASE /\ recv' = [recv EXCEPT ![r].ended = "closed"]
           /\ ~Fed(recv[r].at) /\ c.val.err \notin Disconnecting
  <2>1. recv'[r].got = recv[r].got /\ recv'[r].at = recv[r].at
        /\ \A q \in Receivers \ {r} : recv'[q] = recv[q]
    <3> HIDE DEF c
    <3> QED
      BY <1>1, <1>4 DEF TypeOK, RecvState
  <2>2. QED
    BY <1>4, <2>1 DEF Changed
<1>5. QED
  BY <1>2, <1>3, <1>4 DEF Changed

\* Only links that exist take steps.
LEMMA ActsOnUsed ==
  ASSUME TypeOK, UnusedOK, NEW l \in LinkIds, LinkAction(l)
  PROVE  link[l] # "unused" /\ link'[l] # "unused"
<1> USE DEF TypeOK
<1>1. link[l] = "unused" => ~tx[l].run /\ ~rx[l].run
  BY DEF UnusedOK
<1>2. CASE Establish(l) \/ ConnectFails(l) \/ Disconnect(l)
  BY <1>2 DEF Establish, ConnectFails, Disconnect
<1>3. CASE DelayPasses(l)
  BY <1>1, <1>3 DEF DelayPasses
<1>4. CASE TxTask(l)
  BY <1>1, <1>4 DEF TxTask, TxConnectError, TxSend, TxChanged, TxFedNoMore, TxBack, TxBackLost,
     TxSent, TxSendFails, TxAllReceived, TxLeave, TxIdle
<1>5. CASE RxTask(l)
  BY <1>1, <1>5 DEF RxTask, RxConnectError, RxClosed, RxError, RxLimit, RxBack, RxData, RxEnd,
     RxLost, RxReads, RxIdle
<1>6. QED
  BY <1>2, <1>3, <1>4, <1>5 DEF LinkAction

LEMMA NextUnused == TypeOK /\ UnusedOK /\ [Next]_vars => UnusedOK'
<1> SUFFICES ASSUME TypeOK, UnusedOK, [Next]_vars PROVE UnusedOK'
  OBVIOUS
<1>1. ASSUME NEW k \in setup.kinds, Send(k) PROVE UnusedOK'
  <2>1. \A h \in LinkIds : cell'[h] = cell[h]
    BY <1>1, PutEffect, LinkEnds, CellTypes DEF Send, TypeOK
  <2>2. QED
    BY <1>1, <2>1, SetupFixed DEF Send, UnusedOK, linkVars
<1>2. ASSUME NEW k \in setup.kinds, SendModify(k) PROVE UnusedOK'
  <2>1. \A h \in LinkIds : cell'[h] = cell[h]
    BY <1>2, PutEffect, LinkEnds, CellTypes DEF SendModify, TypeOK
  <2>2. QED
    BY <1>2, <2>1, SetupFixed DEF SendModify, UnusedOK, linkVars
<1>3. ASSUME NEW k \in setup.kinds, LocalSend(k) PROVE UnusedOK'
  BY <1>3, SetupFixed DEF LocalSend, UnusedOK, linkVars
<1>4. CASE LocalDrop
  BY <1>4, SetupFixed DEF LocalDrop, UnusedOK, linkVars
<1>5. CASE DropSender
  BY <1>5, SetupFixed DEF DropSender, UnusedOK, linkVars
<1>6. CASE UpdateError
  BY <1>6, SetupFixed DEF UpdateError, UnusedOK, linkVars
<1>7. CASE ClearError
  BY <1>7, SetupFixed DEF ClearError, UnusedOK, linkVars
<1>8. CASE Forward
  <2>1. \A h \in LinkIds : cell'[h] = cell[h]
    BY <1>8, PutEffect, LinkEnds, CellTypes DEF Forward, TypeOK
  <2>2. QED
    BY <1>8, <2>1, SetupFixed DEF Forward, UnusedOK, linkVars
<1>9. ASSUME NEW limit \in Limits, SetSenderLimit(limit) PROVE UnusedOK'
  BY <1>9, SetupFixed DEF SetSenderLimit, UnusedOK, linkVars
<1>10. ASSUME NEW limit \in Limits, NEW r \in Receivers, SetLimit(r, limit) PROVE UnusedOK'
  <2>1. \A q \in Receivers : recv'[q].at = recv[q].at
    BY <1>10 DEF SetLimit, TypeOK, RecvState
  <2>2. UNCHANGED <<setup, cell, linkVars>>
    BY <1>10 DEF SetLimit
  <2>3. QED
    BY <2>1, <2>2, SetupFixed DEF UnusedOK, linkVars
<1>11. ASSUME NEW r \in Receivers, Changed(r) PROVE UnusedOK'
  <2>1. (\A q \in Receivers : recv'[q].at = recv[q].at) /\ UNCHANGED <<setup, cell, linkVars>>
    BY <1>11, ChangedEffect
  <2>2. QED
    BY <2>1, SetupFixed DEF UnusedOK, linkVars
<1>12. ASSUME NEW r \in Receivers, BorrowAndUpdate(r) PROVE UnusedOK'
  <2>1. \A q \in Receivers : recv'[q].at = recv[q].at
    BY <1>12 DEF BorrowAndUpdate, TypeOK, RecvState
  <2>2. UNCHANGED <<setup, cell, linkVars>>
    BY <1>12 DEF BorrowAndUpdate
  <2>3. QED
    BY <2>1, <2>2, SetupFixed DEF UnusedOK, linkVars
<1>13. ASSUME NEW r \in Receivers, MarkChanged(r) PROVE UnusedOK'
  <2>1. \A q \in Receivers : recv'[q].at = recv[q].at
    BY <1>13 DEF MarkChanged, TypeOK, RecvState
  <2>2. UNCHANGED <<setup, cell, linkVars>>
    BY <1>13 DEF MarkChanged
  <2>3. QED
    BY <2>1, <2>2, SetupFixed DEF UnusedOK, linkVars
<1>14. ASSUME NEW r \in Receivers, DropReceiver(r) PROVE UnusedOK'
  <2>1. \A q \in Receivers : recv'[q].at \in {recv[q].at, -1}
    BY <1>14 DEF DropReceiver, TypeOK, RecvState
  <2>2. QED
    BY <1>14, <2>1, SetupFixed, LinkEnds DEF DropReceiver, UnusedOK, linkVars, TypeOK
<1>15. ASSUME NEW r \in Receivers, Subscribe(r) PROVE UnusedOK'
  <2>1. \A q \in Receivers : recv'[q].at \in {recv[q].at, 0}
    BY <1>15 DEF Subscribe, TypeOK
  <2>2. QED
    BY <1>15, <2>1, SetupFixed, LinkEnds DEF Subscribe, UnusedOK, linkVars, TypeOK
<1>16. ASSUME NEW r \in Receivers, Transport(r) PROVE UnusedOK'
  <2>1. PICK l \in LinkIds :
           /\ recv[r].at = l - 1 /\ link[l] = "unused"
           /\ link' = [link EXCEPT ![l] = "connecting"]
           /\ \A m \in LinkIds \ {l} : tx'[m] = tx[m] /\ rx'[m] = rx[m]
           /\ \A g \in Cells \ {l} : cell'[g] = cell[g]
           /\ recv'[r].at = l
           /\ \A s \in Receivers \ {r} : recv'[s] = recv[s]
           /\ UNCHANGED <<setup, port, back>>
    BY <1>16, TransportEffect
  <2>2. ASSUME NEW m \in LinkIds, link'[m] = "unused"
        PROVE m # l /\ link[m] = "unused" /\ m + 1 # l
    <3>1. m # l /\ link[m] = "unused"
      BY <2>1, <2>2 DEF TypeOK
    <3>2. m \in Nat /\ l \in Nat /\ \A q \in Receivers : recv[q].at # m
      BY <3>1, LinkEnds DEF UnusedOK, TypeOK
    <3>3. QED
      BY <2>1, <3>1, <3>2
  <2>3. LinkIds' = LinkIds
    BY <2>1, SetupFixed
  <2>4. ASSUME NEW m \in LinkIds, link'[m] = "unused"
        PROVE  /\ m \in Cells \ {l} /\ m \in LinkIds \ {l}
               /\ \A q \in Receivers : recv'[q].at # m
               /\ m + 1 \in LinkIds => link'[m + 1] = "unused"
    <3>1. link[m] = "unused" /\ m # l /\ m + 1 # l
      BY <2>2, <2>4
    <3>2. m + 1 \in LinkIds => link'[m + 1] = link[m + 1]
      BY <2>1, <3>1 DEF TypeOK
    <3>3. \A q \in Receivers : recv'[q].at # m
      BY <2>1, <3>1 DEF UnusedOK
    <3>4. QED
      BY <3>1, <3>2, <3>3, LinkEnds DEF UnusedOK, TypeOK
  <2>5. QED
    BY <2>1, <2>2, <2>3, <2>4 DEF UnusedOK
<1>17. ASSUME NEW r \in Receivers, NEW s \in Receivers, Clone(r, s) PROVE UnusedOK'
  <2>1. \A q \in Receivers : recv'[q].at \in {recv[q].at, recv[r].at}
    BY <1>17 DEF Clone, TypeOK
  <2>2. QED
    BY <1>17, <2>1, SetupFixed DEF Clone, UnusedOK, linkVars
<1>18. ASSUME NEW l \in LinkIds, LinkAction(l) PROVE UnusedOK'
  <2>1. Frame(l) /\ link[l] # "unused" /\ link'[l] # "unused"
    BY <1>18, LinkFrame, ActsOnUsed
  <2>2. LinkIds' = LinkIds
    BY <2>1, SetupFixed DEF Frame
  <2>3. ASSUME NEW m \in LinkIds, link'[m] = "unused"
        PROVE  m # l /\ link[m] = "unused" /\ m + 1 # l
    BY <2>1, <2>3 DEF Frame, UnusedOK
  <2>4. QED
    BY SMTT(40), <2>1, <2>2, <2>3, LinkEnds DEF Frame, UnusedOK, TypeOK
<1>19. CASE UNCHANGED vars
  BY <1>19 DEF vars, UnusedOK, LinkIds
<1>20. QED
  BY <1>1, <1>2, <1>3, <1>4, <1>5, <1>6, <1>7, <1>8, <1>9, <1>10, <1>11, <1>12, <1>13, <1>14,
     <1>15, <1>16, <1>17, <1>18, <1>19
     DEF Next, Application, LinkAction

-----------------------------------------------------------------------------
(* The steps of a link by what they do to its tasks, its port and its cell *)

TxKept(l) ==
    /\ tx'[l].run = tx[l].run /\ tx'[l].seen = tx[l].seen /\ tx'[l].pending = tx[l].pending
    /\ tx'[l].closed = tx[l].closed /\ tx'[l].sending = tx[l].sending /\ tx'[l].why = tx[l].why

\* A step of the sending task leaves this alone, ...
RxKept(l) == link'[l] = link[l] /\ rx'[l].run = rx[l].run /\ cell'[l] = cell[l]

\* ... and a step of the receiving task this.
LinkKept(l) == link'[l] = link[l] /\ TxKept(l)

WithEnd(l) == IF link[l] = "up" /\ rx[l].run THEN Append(port[l], End) ELSE port[l]

QuietStep(l) ==
    /\ \/ link'[l] = link[l]
       \/ link[l] = "connecting" /\ link'[l] \in {"up", "failed"}
    /\ TxKept(l) /\ rx'[l].run = rx[l].run /\ port'[l] = port[l] /\ cell'[l] = cell[l]

LossStep(l) ==
    /\ link[l] = "up" /\ link'[l] = "lost"
    /\ TxKept(l) /\ rx'[l].run = rx[l].run /\ cell'[l] = cell[l]
    /\ \E p \in 0..Len(port[l]) : port'[l] = SubSeq(port[l], 1, p)

TxFailStep(l) ==
    /\ link[l] = "failed" /\ tx[l].run /\ ~tx'[l].run /\ tx'[l].why = "connect"
    /\ tx'[l].seen = tx[l].seen /\ tx'[l].sending = tx[l].sending
    /\ port'[l] = port[l] /\ RxKept(l)

TakeStep(l) == TxIdle(l) /\ TakeEffect(l, tx[l]) /\ RxKept(l)

CloseStep(l) ==
    /\ TxIdle(l) /\ CloseEffect(l) /\ RxKept(l)
    /\ \/ cell[l - 1].ver = tx[l].seen /\ ~Fed(l - 1)
       \/ link[l] = "lost"
       \/ EndSent(l)

NoticeStep(l) ==
    /\ TxIdle(l) /\ RxKept(l) /\ port'[l] = port[l]
    /\ tx'[l].run = tx[l].run /\ tx'[l].seen = cell[l - 1].ver /\ tx'[l].pending
    /\ tx'[l].closed = tx[l].closed /\ tx'[l].sending = <<>> /\ tx'[l].why = tx[l].why

Sent(l) ==
    /\ tx[l].run /\ tx[l].sending # <<>> /\ RxKept(l)
    /\ tx'[l].run = tx[l].run /\ tx'[l].seen = tx[l].seen /\ ~tx'[l].pending
    /\ tx'[l].closed = tx[l].closed /\ tx'[l].sending = <<>> /\ tx'[l].why = tx[l].why

SentStep(l) ==
    /\ Sent(l) /\ link[l] = "up"
    /\ port'[l] = IF rx[l].run THEN port[l] \o tx[l].sending ELSE port[l]

FailedStep(l) == Sent(l) /\ (link[l] = "lost" \/ ~rx[l].run) /\ port'[l] = port[l]

LeaveStep(l) ==
    /\ tx[l].run /\ tx[l].closed /\ tx[l].sending = <<>> /\ RxKept(l)
    /\ ~tx'[l].run /\ tx'[l].seen = tx[l].seen /\ tx'[l].sending = <<>> /\ tx'[l].why = tx[l].why
    /\ port'[l] = WithEnd(l)

RxFailStep(l) ==
    /\ link[l] = "failed" /\ rx[l].run /\ ~rx'[l].run /\ port'[l] = port[l] /\ LinkKept(l)
    /\ IF Watched(l)
       THEN cell'[l].val = Val(cell[l].val.n, "connect") /\ cell'[l].ver = cell[l].ver + 1
       ELSE cell'[l] = cell[l]

RxStopStep(l) ==
    /\ rx[l].run /\ ~rx'[l].run /\ port'[l] = <<>> /\ LinkKept(l) /\ cell'[l] = cell[l]
    /\ ~Watched(l) \/ (port[l] # <<>> /\ Head(port[l]) = End)

DataStep(l) ==
    /\ rx[l].run /\ rx'[l].run = rx[l].run /\ port[l] # <<>> /\ Head(port[l]) # End
    /\ port'[l] = Tail(port[l]) /\ LinkKept(l)
    /\ cell'[l].val.n = Head(port[l]).n /\ cell'[l].ver = cell[l].ver + 1
    /\ cell'[l].val.err \in Disconnecting <=> Head(port[l]).err \in Disconnecting

RxLossStep(l) ==
    /\ rx[l].run /\ ~rx'[l].run /\ port'[l] = port[l] /\ LinkKept(l)
    /\ cell'[l].val = Val(cell[l].val.n, "chmux") /\ cell'[l].ver = cell[l].ver + 1

LEMMA LinkSteps ==
  ASSUME TypeOK, NEW l \in LinkIds, LinkAction(l)
  PROVE  \/ QuietStep(l) \/ LossStep(l) \/ TxFailStep(l) \/ TakeStep(l) \/ CloseStep(l)
         \/ NoticeStep(l) \/ SentStep(l) \/ FailedStep(l) \/ LeaveStep(l)
         \/ RxFailStep(l) \/ RxStopStep(l) \/ DataStep(l) \/ RxLossStep(l)
<1>0. /\ tx[l] \in TxState /\ rx[l] \in RxState /\ l \in Cells /\ cell[l - 1].ver \in Nat
      /\ port[l] \in Seq(Datum \cup {End}) /\ back[l] \in Seq(BackMessage)
  BY LinkTypes, LinkEnds DEF TypeOK
<1>1. CASE Establish(l) \/ ConnectFails(l)
  BY <1>0, <1>1 DEF Establish, ConnectFails, QuietStep, TxKept, TypeOK
<1>2. CASE Disconnect(l)
  BY <1>0, <1>2 DEF Disconnect, LossStep, TxKept, TypeOK
<1>3. CASE DelayPasses(l)
  <2>1. tx'[l] = [tx[l] EXCEPT !.cool = FALSE] /\ UNCHANGED <<cell, link, port, rx>>
    BY <1>3 DEF DelayPasses, TypeOK
  <2>2. QED
    BY <1>0, <2>1 DEF QuietStep, TxKept, TxState
<1>4. CASE TxConnectError(l)
  <2>1. /\ tx'[l] = [tx[l] EXCEPT !.run = FALSE, !.why = "connect"]
        /\ link[l] = "failed" /\ tx[l].run /\ UNCHANGED <<cell, link, port, rx>>
    BY <1>4 DEF TxConnectError, TypeOK
  <2>2. QED
    BY <1>0, <2>1 DEF TxFailStep, RxKept, TxState
<1>5. CASE TxSend(l)
  BY <1>5, TxStopEffect DEF TxSend, TakeStep, RxKept
<1>6. CASE TxChanged(l)
  <2>1. /\ tx'[l] = [tx[l] EXCEPT !.pending = TRUE, !.seen = cell[l - 1].ver]
        /\ TxIdle(l) /\ UNCHANGED <<cell, link, port, rx>>
    BY <1>6 DEF TxChanged, TypeOK
  <2>2. QED
    BY <1>0, <2>1 DEF NoticeStep, RxKept, TxIdle, TxState
<1>7. CASE TxFedNoMore(l)
  BY <1>7, TxStopEffect DEF TxFedNoMore, CloseStep, RxKept
<1>8. CASE TxBackLost(l)
  BY <1>8, TxStopEffect DEF TxBackLost, CloseStep, RxKept
<1>9. CASE TxBack(l)
  <2>1. back[l] # <<>> /\ Head(back[l]) \in BackMessage /\ TxIdle(l) /\ UNCHANGED <<cell, link, rx>>
    BY <1>0, <1>9 DEF TxBack
  <2>2. CASE Head(back[l]).msg = "end"
    <3>1. EndSent(l)
      BY <1>0, <2>1, <2>2 DEF EndSent
    <3>2. QED
      BY <1>9, <2>1, <2>2, <3>1, TxStopEffect DEF CloseStep, RxKept
  <2>3. CASE Head(back[l]).msg = "error"
    BY <1>9, <2>1, <2>3 DEF TxBack, QuietStep, TxKept
  <2>4. CASE Head(back[l]).msg = "limit"
    <3> DEFINE m == Head(back[l]).limit
    <3>1. tx'[l] = [tx[l] EXCEPT !.limit = m] /\ port'[l] = port[l]
      BY <1>9, <2>4 DEF TxBack, TypeOK
    <3> HIDE DEF m
    <3>2. TxKept(l)
      BY <1>0, <3>1 DEF TxKept, TxState
    <3>3. QED
      BY <2>1, <3>1, <3>2 DEF QuietStep
  <2>5. QED
    BY <2>1, <2>2, <2>3, <2>4 DEF BackMessage
<1>10. CASE TxSent(l) \/ TxSendFails(l)
  <2>1. \/ tx'[l] = SentState(tx[l])
        \/ tx'[l] = [SentState(tx[l]) EXCEPT !.all = FALSE]
    BY <1>10 DEF TxSent, TxSendFails, TypeOK
  <2>2. tx[l].run /\ tx[l].sending # <<>> /\ UNCHANGED <<cell, link, rx>>
    BY <1>10 DEF TxSent, TxSendFails
  <2>3. Sent(l)
    <3> DEFINE b == setup.single
    <3>1. \/ tx'[l] = [tx[l] EXCEPT !.sending = <<>>, !.pending = FALSE, !.cool = TRUE, !.all = b]
          \/ tx'[l] = [[tx[l] EXCEPT !.sending = <<>>, !.pending = FALSE, !.cool = TRUE, !.all = b]
                          EXCEPT !.all = FALSE]
      BY <2>1 DEF SentState
    <3> HIDE DEF b
    <3>2. QED
      BY <1>0, <2>2, <3>1 DEF Sent, RxKept, TxState
  <2>4. QED
    BY <1>0, <1>10, <2>3 DEF TxSent, TxSendFails, SentStep, FailedStep, TypeOK
<1>11. CASE TxAllReceived(l)
  <2>1. tx'[l] = [tx[l] EXCEPT !.all = FALSE] /\ UNCHANGED <<cell, link, port, rx>>
    BY <1>11 DEF TxAllReceived, TypeOK
  <2>2. QED
    BY <1>0, <2>1 DEF QuietStep, TxKept, TxState
<1>12. CASE TxLeave(l)
  BY <1>0, <1>12, TxEndsEffect DEF TxLeave, LeaveStep, RxKept, WithEnd
<1>13. CASE RxConnectError(l)
  <2>1. /\ rx'[l] = [rx[l] EXCEPT !.run = FALSE] /\ link[l] = "failed" /\ rx[l].run
        /\ UNCHANGED <<link, port, tx>>
    BY <1>13 DEF RxConnectError, TypeOK
  <2>2. ~rx'[l].run
    BY <1>0, <2>1 DEF RxState
  <2>3. QED
    BY <1>0, <1>13, <2>1, <2>2, PutEffect DEF RxConnectError, RxFailStep, LinkKept, TxKept
<1>14. CASE RxClosed(l) \/ RxEnd(l)
  <2>1. /\ rx'[l] = [rx[l] EXCEPT !.run = FALSE] /\ rx[l].run /\ port'[l] = <<>>
        /\ UNCHANGED <<link, cell, tx>>
    BY <1>14 DEF RxClosed, RxEnd, RxEnds, RxReads, RxIdle, TypeOK
  <2>2. ~rx'[l].run
    BY <1>0, <2>1 DEF RxState
  <2>3. QED
    BY <1>14, <2>1, <2>2 DEF RxClosed, RxEnd, RxStopStep, LinkKept, TxKept
<1>15. CASE RxError(l) \/ RxLimit(l) \/ RxBack(l)
  <2>1. rx'[l].run = rx[l].run
    <3>1. CASE RxError(l)
      BY <1>0, <3>1 DEF RxError, TypeOK, RxState
    <3>2. CASE RxLimit(l)
      <4> DEFINE c == Compute(l)
      <4>1. rx' = rx \/ rx' = [rx EXCEPT ![l].told = c, ![l].out = <<Back("limit", c)>>]
        BY <3>2 DEF RxLimit
      <4> HIDE DEF c
      <4>2. QED
        BY <1>0, <4>1 DEF TypeOK, RxState
    <3>3. CASE RxBack(l)
      BY <1>0, <3>3 DEF RxBack, TypeOK, RxState
    <3>4. QED
      BY <1>15, <3>1, <3>2, <3>3
  <2>2. UNCHANGED <<link, cell, tx, port>>
    BY <1>15 DEF RxError, RxLimit, RxBack
  <2>3. QED
    BY <2>1, <2>2 DEF QuietStep, TxKept
<1>16. CASE RxData(l)
  <2> DEFINE v == Head(port[l])
  <2>1. rx[l].run /\ port[l] # <<>> /\ v # End /\ UNCHANGED <<link, tx, rx>>
    BY <1>16 DEF RxData, RxReads, RxIdle
  <2>2. port'[l] = Tail(port[l])
    BY <1>16 DEF RxData, TypeOK
  <2>3. Put(l, IF KindOf(v) = "odd" THEN Val(v.n, "item") ELSE v)
    BY <1>16 DEF RxData
  <2>4. /\ cell'[l].val = (IF KindOf(v) = "odd" THEN Val(v.n, "item") ELSE v)
        /\ cell'[l].ver = cell[l].ver + 1
    BY <1>0, <2>3, PutEffect
  <2>5. KindOf(v) = "odd" => v.err = "none"
    BY DEF KindOf
  <2>6. /\ cell'[l].val.n = v.n
        /\ cell'[l].val.err \in Disconnecting <=> v.err \in Disconnecting
    <3> HIDE DEF v
    <3>1. CASE KindOf(v) = "odd"
      BY <2>4, <2>5, <3>1 DEF Val, Disconnecting
    <3>2. CASE KindOf(v) # "odd"
      BY <2>4, <3>2
    <3>3. QED
      BY <3>1, <3>2
  <2>7. QED
    BY <2>1, <2>2, <2>4, <2>6 DEF DataStep, LinkKept, TxKept
<1>17. CASE RxLost(l)
  <2>1. /\ rx'[l] = [rx[l] EXCEPT !.run = FALSE] /\ rx[l].run
        /\ Put(l, Val(cell[l].val.n, "chmux")) /\ UNCHANGED <<link, port, tx>>
    BY <1>17 DEF RxLost, RxEnds, RxReads, RxIdle, TypeOK
  <2>2. ~rx'[l].run
    BY <1>0, <2>1 DEF RxState
  <2>3. QED
    BY <1>0, <2>1, <2>2, PutEffect DEF RxLossStep, LinkKept, TxKept
<1>18. QED
  BY <1>1, <1>2, <1>3, <1>4, <1>5, <1>6, <1>7, <1>8, <1>9, <1>10, <1>11, <1>12, <1>13, <1>14,
     <1>15, <1>16, <1>17 DEF LinkAction, TxTask, RxTask

\* The end is sent back when the receiving task stops.
LEMMA EndSentStep ==
  ASSUME TypeOK, NEW l \in LinkIds, LinkAction(l), EndSent(l)'
  PROVE  EndSent(l) \/ ~rx'[l].run
<1>0. back[l] \in Seq(BackMessage) /\ rx[l] \in RxState
  BY LinkTypes
<1>1. CASE back'[l] = back[l]
  BY <1>1 DEF EndSent
<1>2. CASE Disconnect(l)
  <2>1. PICK b \in 0..Len(back[l]) : back'[l] = SubSeq(back[l], 1, b)
    BY <1>2 DEF Disconnect, TypeOK
  <2>2. QED
    BY <1>0, <2>1 DEF EndSent
<1>3. CASE TxBack(l)
  <2>1. back[l] # <<>> /\ back'[l] = Tail(back[l])
    BY <1>3 DEF TxBack, TypeOK
  <2>2. QED
    BY <1>0, <2>1 DEF EndSent
<1>4. CASE RxEnds(l)
  BY <1>0, <1>4 DEF RxEnds, TypeOK, RxState
<1>5. CASE RxBack(l)
  <2>1. back'[l] = back[l] \/ back'[l] = back[l] \o rx[l].out
    BY <1>5 DEF RxBack, TypeOK
  <2>2. rx[l].out \in Seq(OutMessage)
    BY <1>0 DEF RxState
  <2>3. ASSUME NEW i \in DOMAIN rx[l].out PROVE rx[l].out[i].msg # "end"
    <3>1. rx[l].out[i] \in OutMessage
      BY <2>2
    <3>2. QED
      BY <3>1 DEF OutMessage
  <2>4. CASE back'[l] = back[l] \o rx[l].out
    <3> DEFINE o == rx[l].out
    <3> HIDE DEF o
    <3>1. PICK i \in DOMAIN (back[l] \o o) : (back[l] \o o)[i].msg = "end"
      BY <2>4 DEF EndSent, o
    <3>2. o \in Seq(OutMessage) /\ \A j \in DOMAIN o : o[j].msg # "end"
      BY <2>2, <2>3 DEF o
    <3>3. i \in DOMAIN back[l]
      BY <1>0, <3>1, <3>2
    <3>4. QED
      BY <1>0, <3>1, <3>2, <3>3 DEF EndSent
  <2>5. QED
    BY <1>1, <2>1, <2>4
<1>6. CASE UNCHANGED back
  BY <1>6 DEF EndSent
<1>7. QED
  BY <1>2, <1>3, <1>4, <1>5, <1>6
     DEF LinkAction, TxTask, RxTask, Establish, ConnectFails, DelayPasses, TxConnectError, TxSend,
         TxChanged, TxFedNoMore, TxBackLost, TxSent, TxSendFails, TxAllReceived, TxLeave,
         RxConnectError, RxClosed, RxError, RxLimit, RxData, RxEnd, RxLost

\* A Receiver after a step of the application: dropped, new, or what another one was,
\* with what it noted about its cell.
RecvFrom(q) ==
    \/ recv'[q].at = -1
    \/ /\ recv'[q].at = 0 /\ recv'[q].got = cell[0].val.n /\ recv'[q].ended = "no"
    \/ \E r \in Receivers :
         /\ Live(r) /\ recv'[q].at = recv[r].at
         /\ recv'[q].got \in {recv[r].got, cell[recv[r].at].val.n}
         /\ recv'[q].ended = "closed" =>
              \/ recv[r].ended = "closed"
              \/ ~Fed(recv[r].at) /\ cell[recv[r].at].val.err \notin Disconnecting

\* A step of the application that does not send a Receiver away.
AppStep ==
    /\ UNCHANGED <<setup, linkVars>>
    /\ \A h \in Cells \ {0} : cell'[h] = cell[h]
    /\ \/ cell'[0] = cell[0]
       \/ sender.open /\ cell'[0].ver = cell[0].ver + 1 /\ cell[0].val.n <= cell'[0].val.n
    /\ sender'.open => sender.open
    /\ \A q \in Receivers : RecvFrom(q)

LEMMA RecvKept ==
  ASSUME TypeOK, NEW q \in Receivers, recv'[q] = recv[q]
  PROVE  RecvFrom(q)
<1>1. CASE Live(q)
  BY <1>1 DEF RecvFrom
<1>2. CASE ~Live(q)
  <2>1. recv[q].at \in Places /\ ~(recv[q].at >= 0)
    BY <1>2 DEF Live, TypeOK, RecvState
  <2>2. recv[q].at = -1
    BY <2>1, SetupTypes DEF Places, Cells, TypeOK
  <2>3. QED
    BY <2>2 DEF RecvFrom
<1>3. QED
  BY <1>1, <1>2

\* The kinds of steps.
LEMMA Steps ==
  ASSUME TypeOK, SenderOK, [Next]_vars
  PROVE  \/ AppStep
         \/ \E r \in Receivers : Transport(r)
         \/ \E l \in LinkIds : LinkAction(l)
<1>1. ASSUME NEW k \in setup.kinds, Send(k) PROVE AppStep
  <2>1. UNCHANGED <<setup, linkVars, sender, recv>> /\ sender.open
    BY <1>1 DEF Send
  <2>2. cell[0].val.n <= Len(kind')
    BY <1>1, CellTypes DEF Send, NewValue, SenderOK, TypeOK
  <2>3. cell' = cell \/ Put(0, Val(Len(kind'), "none"))
    BY <1>1 DEF Send
  <2>4. QED
    BY <2>1, <2>2, <2>3, CellTypes, PutEffect, RecvKept DEF AppStep, Val
<1>2. ASSUME NEW k \in setup.kinds, SendModify(k) PROVE AppStep
  <2>1. UNCHANGED <<setup, linkVars, sender, recv>> /\ sender.open
    BY <1>2 DEF SendModify
  <2>2. cell[0].val.n <= Len(kind')
    BY <1>2, CellTypes DEF SendModify, NewValue, SenderOK, TypeOK
  <2>3. cell' = cell \/ Put(0, Val(Len(kind'), "none"))
    BY <1>2 DEF SendModify
  <2>4. QED
    BY <2>1, <2>2, <2>3, CellTypes, PutEffect, RecvKept DEF AppStep, Val
<1>3. ASSUME NEW k \in setup.kinds, LocalSend(k) PROVE AppStep
  BY <1>3, RecvKept DEF LocalSend, AppStep
<1>4. CASE LocalDrop
  BY <1>4, RecvKept DEF LocalDrop, AppStep
<1>5. CASE DropSender
  BY <1>5, RecvKept DEF DropSender, AppStep, TypeOK
<1>6. CASE UpdateError
  BY <1>6, RecvKept DEF UpdateError, AppStep, TypeOK
<1>7. CASE ClearError
  BY <1>7, RecvKept DEF ClearError, AppStep, TypeOK
<1>8. CASE Forward
  <2>1. UNCHANGED <<setup, linkVars, recv>> /\ sender.open /\ (sender'.open => sender.open)
    BY <1>8 DEF Forward, SenderOK
  <2>2. cell[0].val.n <= local.n
    BY <1>8 DEF Forward, SenderOK
  <2>3. cell' = cell \/ Put(0, Val(local.n, "none"))
    BY <1>8 DEF Forward
  <2>4. QED
    BY <2>1, <2>2, <2>3, CellTypes, PutEffect, RecvKept DEF AppStep, Val
<1>9. ASSUME NEW limit \in Limits, SetSenderLimit(limit) PROVE AppStep
  BY <1>9, RecvKept DEF SetSenderLimit, AppStep, TypeOK
<1>10. ASSUME NEW limit \in Limits, NEW r \in Receivers, SetLimit(r, limit) PROVE AppStep
  <2>1. /\ \A q \in Receivers \ {r} : recv'[q] = recv[q]
        /\ recv'[r].at = recv[r].at /\ recv'[r].got = recv[r].got
        /\ recv'[r].ended = recv[r].ended
    BY <1>10 DEF SetLimit, TypeOK, RecvState
  <2>2. RecvFrom(r)
    BY <1>10, <2>1 DEF RecvFrom, SetLimit
  <2>3. QED
    BY <1>10, <2>1, <2>2, RecvKept DEF AppStep, SetLimit
<1>11. ASSUME NEW r \in Receivers, Changed(r) PROVE AppStep
  <2>1. RecvFrom(r)
    BY <1>11, ChangedEffect DEF RecvFrom, Changed
  <2>2. QED
    BY <1>11, <2>1, ChangedEffect, RecvKept DEF AppStep
<1>12. ASSUME NEW r \in Receivers, BorrowAndUpdate(r) PROVE AppStep
  <2> DEFINE c == cell[recv[r].at]
  <2>1. /\ \A q \in Receivers \ {r} : recv'[q] = recv[q]
        /\ recv'[r].at = recv[r].at /\ recv'[r].got = c.val.n
        /\ recv'[r].ended = recv[r].ended
    <3>1. recv' = [recv EXCEPT ![r].seen = c.ver, ![r].got = c.val.n]
      BY <1>12 DEF BorrowAndUpdate
    <3> HIDE DEF c
    <3>2. QED
      BY <3>1 DEF TypeOK, RecvState
  <2>2. RecvFrom(r)
    BY <1>12, <2>1 DEF RecvFrom, BorrowAndUpdate
  <2>3. QED
    BY <1>12, <2>1, <2>2, RecvKept DEF AppStep, BorrowAndUpdate
<1>13. ASSUME NEW r \in Receivers, MarkChanged(r) PROVE AppStep
  <2>1. /\ \A q \in Receivers \ {r} : recv'[q] = recv[q]
        /\ recv'[r].at = recv[r].at /\ recv'[r].got = recv[r].got
        /\ recv'[r].ended = recv[r].ended
    BY <1>13 DEF MarkChanged, TypeOK, RecvState
  <2>2. RecvFrom(r)
    BY <1>13, <2>1 DEF RecvFrom, MarkChanged
  <2>3. QED
    BY <1>13, <2>1, <2>2, RecvKept DEF AppStep, MarkChanged
<1>14. ASSUME NEW r \in Receivers, DropReceiver(r) PROVE AppStep
  <2>1. /\ \A q \in Receivers \ {r} : recv'[q] = recv[q]
        /\ recv'[r].at = -1
    BY <1>14 DEF DropReceiver, TypeOK, RecvState
  <2>2. RecvFrom(r)
    BY <2>1 DEF RecvFrom
  <2>3. QED
    BY <1>14, <2>1, <2>2, RecvKept DEF AppStep, DropReceiver
<1>15. ASSUME NEW r \in Receivers, Subscribe(r) PROVE AppStep
  <2>1. /\ \A q \in Receivers \ {r} : recv'[q] = recv[q]
        /\ recv'[r].at = 0 /\ recv'[r].got = cell[0].val.n /\ recv'[r].ended = "no"
    BY <1>15 DEF Subscribe, TypeOK
  <2>2. RecvFrom(r)
    BY <2>1 DEF RecvFrom
  <2>3. QED
    BY <1>15, <2>1, <2>2, RecvKept DEF AppStep, Subscribe
<1>16. ASSUME NEW r \in Receivers, NEW s \in Receivers, Clone(r, s) PROVE AppStep
  <2>1. /\ \A q \in Receivers \ {s} : recv'[q] = recv[q]
        /\ recv'[s] = recv[r] /\ Live(r)
    BY <1>16 DEF Clone, TypeOK
  <2>2. RecvFrom(s)
    BY <2>1 DEF RecvFrom
  <2>3. QED
    BY <1>16, <2>1, <2>2, RecvKept DEF AppStep, Clone
<1>17. CASE UNCHANGED vars
  BY <1>17, RecvKept DEF vars, AppStep, linkVars
<1>18. QED
  BY <1>1, <1>2, <1>3, <1>4, <1>5, <1>6, <1>7, <1>8, <1>9, <1>10, <1>11, <1>12, <1>13, <1>14,
     <1>15, <1>16, <1>17
     DEF Next, Application, LinkAction

LEMMA DatumNotEnd == \A d \in Datum : d # End /\ d.n \in Nat
  BY DEF Datum, End, Val

LEMMA LinkFields ==
  ASSUME TypeOK, NEW l \in LinkIds
  PROVE  /\ tx[l].sending \in Seq(Datum) /\ tx[l].seen \in Nat
         /\ tx[l].run \in BOOLEAN /\ rx[l].run \in BOOLEAN /\ tx[l].pending \in BOOLEAN
         /\ port[l] \in Seq(Datum \cup {End})
         /\ cell[l].val \in Datum /\ cell[l].val.n \in Nat /\ cell[l].ver \in Nat
         /\ cell[l - 1].val \in Datum /\ cell[l - 1].val.n \in Nat /\ cell[l - 1].ver \in Nat
<1>1. tx[l] \in TxState /\ rx[l] \in RxState
  BY LinkTypes
<1>2. /\ tx[l].sending \in Seq(Datum) /\ tx[l].seen \in Nat
      /\ tx[l].run \in BOOLEAN /\ rx[l].run \in BOOLEAN /\ tx[l].pending \in BOOLEAN
  BY <1>1 DEF TxState, RxState
<1>3. QED
  BY <1>2, LinkTypes, DatumNotEnd

\* What another link sees of a step: the cell it takes its values from.
LEMMA OtherLinks ==
  ASSUME TypeOK, NEW l \in LinkIds, LinkAction(l), NEW m \in LinkIds, m # l
  PROVE  /\ link'[m] = link[m] /\ tx'[m] = tx[m] /\ rx'[m] = rx[m]
         /\ port'[m] = port[m] /\ back'[m] = back[m] /\ cell'[m] = cell[m]
         /\ m - 1 # l => cell'[m - 1] = cell[m - 1]
<1>1. Frame(l)
  BY LinkFrame
<1>2. m \in Cells /\ m - 1 \in Cells
  BY LinkEnds DEF TypeOK
<1>3. QED
  BY <1>1, <1>2 DEF Frame

\* A step of a link does not touch the cell it takes its values from.
LEMMA OwnSource ==
  ASSUME TypeOK, NEW l \in LinkIds, LinkAction(l)
  PROVE  cell'[l - 1] = cell[l - 1] /\ UNCHANGED <<setup, kind, local, sender, recv>>
<1>1. Frame(l)
  BY LinkFrame
<1>2. l - 1 \in Cells /\ l - 1 # l
  BY LinkEnds DEF TypeOK
<1>3. QED
  BY <1>1, <1>2 DEF Frame

LEMMA NextCell ==
  ASSUME TypeOK, TypeOK', NEW l \in LinkIds, LinkAction(l)
  PROVE  cell'[l].ver \in Nat /\ cell'[l].val.n \in Nat /\ cell'[l].val \in Datum
<1>1. Cells' = Cells /\ l \in Cells
  BY OwnSource, SetupFixed, LinkEnds DEF TypeOK
<1>2. cell'[l] \in [val : Datum, ver : Nat]
  BY <1>1 DEF TypeOK
<1>3. QED
  BY <1>2, DatumNotEnd

\* Cells get new versions with newer values.
LEMMA LinkCellGrows ==
  ASSUME TypeOK, NEW l \in LinkIds, LinkAction(l), LinkOrdered(l)
  PROVE  cell[l].ver <= cell'[l].ver /\ cell[l].val.n <= cell'[l].val.n
<1>0. cell[l].ver \in Nat /\ cell[l].val.n \in Nat /\ port[l] \in Seq(Datum \cup {End})
  BY LinkFields
<1>1. CASE cell'[l] = cell[l]
  BY <1>0, <1>1
<1>2. CASE RxFailStep(l) \/ RxLossStep(l)
  BY <1>0, <1>2 DEF RxFailStep, RxLossStep, Val
<1>3. CASE DataStep(l)
  <2>1. port[l][1] # End /\ 1 \in DOMAIN port[l] /\ Head(port[l]) = port[l][1]
    BY <1>0, <1>3 DEF DataStep
  <2>2. cell[l].val.n <= port[l][1].n
    BY <2>1 DEF LinkOrdered
  <2>3. QED
    BY <1>0, <1>3, <2>1, <2>2 DEF DataStep
<1>4. QED
  BY <1>1, <1>2, <1>3, LinkSteps
     DEF QuietStep, LossStep, TxFailStep, TakeStep, CloseStep, NoticeStep, SentStep, FailedStep,
         Sent, LeaveStep, RxStopStep, RxKept

LEMMA TaskStep ==
  ASSUME TypeOK, TypeOK', UnusedOK, NEW l \in LinkIds, LinkAction(l), TaskOK(l)
  PROVE  TaskOK(l)'
<1>0. /\ tx[l].sending \in Seq(Datum) /\ tx[l].seen \in Nat
      /\ port[l] \in Seq(Datum \cup {End})
      /\ cell[l - 1].val \in Datum /\ cell[l - 1].ver \in Nat /\ cell'[l - 1] = cell[l - 1]
      /\ \A d \in Datum : d # End
  BY LinkFields, OwnSource, DatumNotEnd
<1>1. EndSent(l)' => EndSent(l) \/ ~rx'[l].run
  BY EndSentStep
<1>2. rx'[l].run => rx[l].run
  BY LinkSteps DEF QuietStep, LossStep, TxFailStep, TakeStep, CloseStep, NoticeStep, SentStep,
     FailedStep, Sent, LeaveStep, RxFailStep, RxStopStep, DataStep, RxLossStep, RxKept
<1>3. EndSent(l)' => ~rx'[l].run
  BY <1>1, <1>2 DEF TaskOK
<1>4. ASSUME tx'[l].run = tx[l].run, tx'[l].why = tx[l].why
      PROVE  tx'[l].run => tx'[l].why = "none"
  BY <1>4 DEF TaskOK
<1>5. CASE QuietStep(l)
  BY <1>0, <1>3, <1>5 DEF QuietStep, TxKept, TaskOK, Established
<1>6. CASE LossStep(l)
  BY <1>0, <1>3, <1>6 DEF LossStep, TxKept, TaskOK, Established
<1>7. CASE TxFailStep(l)
  BY <1>0, <1>3, <1>7 DEF TxFailStep, RxKept, TaskOK, Established
<1>8. ASSUME tx'[l].sending = <<>>, ~tx'[l].run, tx[l].run, tx'[l].seen <= cell[l - 1].ver,
             port'[l] = WithEnd(l)
      PROVE  TaskOK(l)'
  BY <1>0, <1>3, <1>8 DEF WithEnd, TaskOK
<1>9. ASSUME tx'[l].sending = <<cell[l - 1].val>>, tx'[l].run = tx[l].run, tx[l].run,
             tx'[l].why = tx[l].why, tx'[l].seen = cell[l - 1].ver, port'[l] = port[l],
             link'[l] = link[l], Established(l)
      PROVE  TaskOK(l)'
  BY <1>0, <1>3, <1>9 DEF TaskOK, Established
<1>20. ASSUME NEW t, TakeEffect(l, t), t.run = tx[l].run, t.sending = <<>>, t.why = tx[l].why,
              TxIdle(l), RxKept(l)
       PROVE  TaskOK(l)'
  <2>1. tx[l].run /\ Established(l) /\ link'[l] = link[l] /\ cell[l - 1].ver <= cell[l - 1].ver
    BY <1>0, <1>20 DEF TxIdle, RxKept
  <2>2. CASE ~tx'[l].run
    BY <1>8, <1>20, <2>1, <2>2 DEF TakeEffect, WithEnd
  <2>3. CASE tx'[l].run
    BY <1>9, <1>20, <2>1, <2>3 DEF TakeEffect
  <2>4. QED
    BY <2>2, <2>3
<1>10. CASE TakeStep(l)
  BY <1>10, <1>20 DEF TakeStep, TxIdle
<1>11. CASE CloseStep(l)
  <2> DEFINE t == [tx[l] EXCEPT !.closed = TRUE]
  <2>1. t.run = tx[l].run /\ t.sending = tx[l].sending /\ t.why = tx[l].why
    BY LinkTypes, ClosedState
  <2>2. TxIdle(l) /\ RxKept(l) /\ tx[l].run /\ tx[l].sending = <<>>
    BY <1>11 DEF CloseStep, TxIdle
  <2>3. CASE tx[l].pending
    <3>1. TakeEffect(l, t)
      BY <1>11, <2>3 DEF CloseStep, CloseEffect
    <3> HIDE DEF t
    <3>2. QED
      BY <1>20, <2>1, <2>2, <3>1
  <2>4. CASE ~tx[l].pending
    <3>1. tx'[l].run = FALSE /\ tx'[l].seen = tx[l].seen /\ tx'[l].sending = tx[l].sending
          /\ port'[l] = WithEnd(l)
      BY <1>11, <2>4 DEF CloseStep, CloseEffect, WithEnd
    <3>2. QED
      BY <1>8, <2>2, <3>1 DEF TaskOK
  <2>5. QED
    BY <2>3, <2>4
<1>12. CASE NoticeStep(l)
  BY <1>0, <1>3, <1>12 DEF NoticeStep, RxKept, TaskOK
<1>13. CASE SentStep(l)
  <2>1. port'[l] = port[l] \/ port'[l] = port[l] \o tx[l].sending
    BY <1>13 DEF SentStep
  <2>2. \A i \in DOMAIN port[l] : port[l][i] # End
    BY <1>13 DEF SentStep, Sent, TaskOK
  <2>3. \A i \in DOMAIN port'[l] : port'[l][i] # End
    <3> DEFINE s == tx[l].sending
               p == port[l]
    <3>1. p \in Seq(Datum \cup {End}) /\ s \in Seq(Datum) /\ \A i \in DOMAIN p : p[i] # End
      BY <1>0, <2>2
    <3> HIDE DEF s, p
    <3>2. \A i \in DOMAIN (p \o s) : (p \o s)[i] # End
      BY <1>0, <3>1
    <3>3. QED
      BY <2>1, <2>2, <3>2 DEF s, p
  <2>4. QED
    BY <1>0, <1>3, <1>13, <2>3 DEF SentStep, Sent, RxKept, TaskOK
<1>14. CASE FailedStep(l)
  BY <1>0, <1>3, <1>14 DEF FailedStep, Sent, RxKept, TaskOK
<1>15. CASE LeaveStep(l)
  BY <1>0, <1>8, <1>15 DEF LeaveStep, TaskOK
<1>16. CASE RxFailStep(l) \/ RxLossStep(l)
  BY <1>0, <1>3, <1>16 DEF RxFailStep, RxLossStep, LinkKept, TxKept, TaskOK, Established
<1>17. CASE RxStopStep(l)
  BY <1>0, <1>3, <1>17 DEF RxStopStep, LinkKept, TxKept, TaskOK, Established
<1>18. CASE DataStep(l)
  <2>1. \A i \in DOMAIN port'[l] : port'[l][i] = End => i = Len(port'[l]) /\ ~tx[l].run
    BY <1>0, <1>18 DEF DataStep, TaskOK
  <2>2. QED
    BY <1>0, <1>3, <1>18, <2>1 DEF DataStep, LinkKept, TxKept, TaskOK, Established
<1>19. QED
  BY <1>5, <1>6, <1>7, <1>10, <1>11, <1>12, <1>13, <1>14, <1>15, <1>16, <1>17, <1>18, LinkSteps

LEMMA NextTasks ==
  ASSUME TypeOK, TypeOK', SenderOK, UnusedOK, TasksOK, LinksOrdered, [Next]_vars
  PROVE  TasksOK'
<1>1. CASE AppStep
  <2>1. LinkIds' = LinkIds /\ UNCHANGED <<link, tx, port, rx, back>>
    BY <1>1, SetupFixed DEF AppStep, linkVars
  <2>2. ASSUME NEW m \in LinkIds PROVE TaskOK(m)'
    <3>1. m - 1 \in Cells /\ cell[m - 1].ver \in Nat /\ cell[0].ver \in Nat /\ tx[m].seen \in Nat
      BY LinkEnds, LinkFields, CellTypes DEF TypeOK
    <3>2. cell[m - 1].ver <= cell'[m - 1].ver /\ cell'[m - 1].ver \in Nat
      BY <1>1, <3>1 DEF AppStep
    <3>3. TaskOK(m)
      BY DEF TasksOK
    <3>4. QED
      BY <2>1, <3>1, <3>2, <3>3 DEF TaskOK, Established, EndSent
  <2>3. QED
    BY <2>1, <2>2 DEF TasksOK
<1>2. ASSUME NEW r \in Receivers, Transport(r) PROVE TasksOK'
  <2>1. PICK l \in LinkIds :
           /\ link[l] = "unused"
           /\ link' = [link EXCEPT ![l] = "connecting"]
           /\ tx'[l].seen = cell[l - 1].ver /\ tx'[l].sending = <<>> /\ tx'[l].why = "none"
           /\ \A m \in LinkIds \ {l} : tx'[m] = tx[m] /\ rx'[m] = rx[m]
           /\ cell'[l].ver = cell[l].ver
           /\ \A g \in Cells \ {l} : cell'[g] = cell[g]
           /\ UNCHANGED <<setup, port, back>>
    BY <1>2, TransportEffect
  <2>2. LinkIds' = LinkIds
    BY <2>1, SetupFixed
  <2>3. port[l] = <<>> /\ back[l] = <<>>
    BY <2>1 DEF UnusedOK
  <2>4. ASSUME NEW m \in LinkIds
        PROVE cell'[m - 1].ver = cell[m - 1].ver /\ cell[m - 1].ver \in Nat
    BY <2>1, LinkEnds, LinkFields DEF TypeOK
  <2>5. TaskOK(l)'
    BY <2>1, <2>3, <2>4 DEF TaskOK, EndSent
  <2>6. ASSUME NEW m \in LinkIds, m # l PROVE TaskOK(m)'
    <3>1. link'[m] = link[m] /\ tx'[m] = tx[m] /\ rx'[m] = rx[m]
      BY <2>1, <2>6 DEF TypeOK
    <3>2. TaskOK(m)
      BY DEF TasksOK
    <3>3. QED
      BY <2>1, <2>4, <3>1, <3>2 DEF TaskOK, EndSent, Established
  <2>7. QED
    BY <2>2, <2>5, <2>6 DEF TasksOK
<1>3. ASSUME NEW l \in LinkIds, LinkAction(l) PROVE TasksOK'
  <2>1. LinkIds' = LinkIds
    BY <1>3, OwnSource, SetupFixed
  <2>2. TaskOK(l)'
    BY <1>3, TaskStep DEF TasksOK
  <2>3. ASSUME NEW m \in LinkIds, m # l PROVE TaskOK(m)'
    <3>1. /\ link'[m] = link[m] /\ tx'[m] = tx[m] /\ rx'[m] = rx[m]
          /\ port'[m] = port[m] /\ back'[m] = back[m]
          /\ m - 1 # l => cell'[m - 1] = cell[m - 1]
      BY <1>3, <2>3, OtherLinks
    <3>2. cell[l].ver <= cell'[l].ver /\ cell'[l].ver \in Nat
      <4>1. cell'[l].ver \in Nat
        BY <1>3, NextCell
      <4>2. QED
        BY <1>3, <4>1, LinkCellGrows DEF LinksOrdered
    <3>3. tx[m].seen \in Nat /\ cell[m - 1].ver \in Nat /\ TaskOK(m)
      BY LinkFields DEF TasksOK
    <3>4. tx[m].seen <= cell'[m - 1].ver
      <4>1. CASE m - 1 = l
        <5>1. tx[m].seen <= cell[l].ver
          BY <3>3, <4>1 DEF TaskOK
        <5>2. QED
          BY <3>2, <3>3, <4>1, <5>1
      <4>2. CASE m - 1 # l
        BY <3>1, <3>3, <4>2 DEF TaskOK
      <4>3. QED
        BY <4>1, <4>2
    <3>5. QED
      BY <3>1, <3>3, <3>4 DEF TaskOK, EndSent, Established
  <2>4. QED
    BY <2>1, <2>2, <2>3 DEF TasksOK
<1>4. QED
  BY <1>1, <1>2, <1>3, Steps

LEMMA AppendOne ==
  ASSUME NEW S, NEW p \in Seq(S), NEW s \in Seq(S), Len(s) = 1
  PROVE  /\ Len(p) \in Nat /\ DOMAIN p = 1..Len(p) /\ DOMAIN (p \o s) = 1..(Len(p) + 1)
         /\ \A i \in 1..(Len(p) + 1) : (p \o s)[i] = IF i <= Len(p) THEN p[i] ELSE s[i - Len(p)]
<1>0. /\ p \o s \in Seq(S) /\ Len(p \o s) = Len(p) + Len(s)
      /\ \A i \in 1..Len(p) + Len(s) :
           (p \o s)[i] = IF i <= Len(p) THEN p[i] ELSE s[i - Len(p)]
  BY ConcatProperties, Zenon
<1>1. Len(p) \in Nat /\ DOMAIN p = 1..Len(p) /\ Len(p \o s) = Len(p) + 1 /\ p \o s \in Seq(S)
  BY <1>0
<1>2. DOMAIN (p \o s) = 1..(Len(p) + 1)
  BY <1>1
<1>3. \A i \in 1..(Len(p) + 1) : (p \o s)[i] = IF i <= Len(p) THEN p[i] ELSE s[i - Len(p)]
  BY <1>0
<1>4. QED
  BY <1>1, <1>2, <1>3

LEMMA OrderStep ==
  ASSUME TypeOK, TypeOK', UnusedOK, NEW l \in LinkIds, LinkAction(l), TaskOK(l), LinkOrdered(l)
  PROVE  LinkOrdered(l)'
<1>0. /\ tx[l].sending \in Seq(Datum) /\ port[l] \in Seq(Datum \cup {End})
      /\ cell[l].val.n \in Nat /\ cell[l - 1].val \in Datum /\ cell[l - 1].val.n \in Nat
      /\ cell'[l - 1] = cell[l - 1]
      /\ \A d \in Datum : d # End /\ d.n \in Nat
      /\ \A i \in DOMAIN port[l] : port[l][i] # End => port[l][i].n \in Nat
      /\ tx[l].sending # <<>> => tx[l].sending[1] \in Datum /\ tx[l].sending[1].n \in Nat
      /\ link[l] # "unused"
  <2>1. /\ tx[l].sending \in Seq(Datum) /\ port[l] \in Seq(Datum \cup {End})
        /\ cell[l].val.n \in Nat /\ cell[l - 1].val \in Datum /\ cell[l - 1].val.n \in Nat
        /\ cell'[l - 1] = cell[l - 1] /\ link[l] # "unused"
    BY LinkFields, OwnSource, ActsOnUsed
  <2>2. ASSUME NEW i \in DOMAIN port[l], port[l][i] # End PROVE port[l][i].n \in Nat
    <3>1. port[l][i] \in Datum
      BY <2>1, <2>2
    <3>2. QED
      BY <3>1, DatumNotEnd
  <2>3. ASSUME tx[l].sending # <<>>
        PROVE tx[l].sending[1] \in Datum /\ tx[l].sending[1].n \in Nat
    <3>1. tx[l].sending[1] \in Datum
      BY <2>1, <2>3
    <3>2. QED
      BY <3>1, DatumNotEnd
  <2>4. QED
    BY <2>1, <2>2, <2>3, DatumNotEnd
\* The port is a part of what it was, nothing else is sent, the value of the cell is the same.
<1>1. ASSUME \/ port'[l] = port[l]
             \/ port'[l] = <<>>
             \/ \E p \in 0..Len(port[l]) : port'[l] = SubSeq(port[l], 1, p),
             tx'[l].sending \in {tx[l].sending, <<>>}, cell'[l].val.n = cell[l].val.n
      PROVE  LinkOrdered(l)'
  <2>1. CASE port'[l] = port[l]
    BY <1>0, <1>1, <2>1 DEF LinkOrdered
  <2>2. CASE port'[l] = <<>>
    BY <1>0, <1>1, <2>2 DEF LinkOrdered
  <2>3. CASE \E p \in 0..Len(port[l]) : port'[l] = SubSeq(port[l], 1, p)
    <3>1. PICK p \in 0..Len(port[l]) : port'[l] = SubSeq(port[l], 1, p)
      BY <2>3
    <3>2. \A i \in DOMAIN port'[l] : i \in DOMAIN port[l] /\ port'[l][i] = port[l][i] /\ i \in Nat
      BY <1>0, <3>1
    <3>3. QED
      BY <1>0, <1>1, <3>2 DEF LinkOrdered
  <2>4. QED
    BY <1>1, <2>1, <2>2, <2>3
\* The sending task ends.
<1>2. ASSUME port'[l] = WithEnd(l), tx'[l].sending = <<>>, cell'[l] = cell[l]
      PROVE  LinkOrdered(l)'
  <2>1. CASE port'[l] = port[l]
    BY <1>1, <1>2, <2>1
  <2>2. CASE port'[l] = Append(port[l], End)
    <3>1. \A i \in DOMAIN port'[l] : port'[l][i] # End =>
             i \in DOMAIN port[l] /\ port'[l][i] = port[l][i] /\ i \in Nat
      BY <1>0, <2>2
    <3>2. \A i, j \in DOMAIN port'[l] : i < j /\ port'[l][j] # End =>
             i \in DOMAIN port[l] /\ port'[l][i] = port[l][i]
      BY <1>0, <2>2, <3>1
    <3>3. QED
      BY <1>0, <1>2, <3>1, <3>2 DEF LinkOrdered
  <2>3. QED
    BY <1>2, <2>1, <2>2 DEF WithEnd
\* The sending task begins to send the current value.
<1>3. ASSUME port'[l] = port[l], tx[l].sending = <<>>, tx'[l].sending = <<cell[l - 1].val>>,
             cell'[l] = cell[l]
      PROVE  LinkOrdered(l)'
  <2>1. tx'[l].sending[1] = cell[l - 1].val /\ cell[l].val.n <= cell[l - 1].val.n
    BY <1>0, <1>3 DEF LinkOrdered
  <2>2. QED
    BY <1>0, <1>3, <2>1 DEF LinkOrdered
<1>4. ASSUME NEW t, TakeEffect(l, t), t.sending = <<>>, tx[l].sending = <<>>, cell'[l] = cell[l]
      PROVE  LinkOrdered(l)'
  BY <1>2, <1>3, <1>4 DEF TakeEffect, WithEnd
<1>5. CASE QuietStep(l) \/ LossStep(l) \/ TxFailStep(l) \/ NoticeStep(l) \/ FailedStep(l)
           \/ RxFailStep(l) \/ RxStopStep(l) \/ RxLossStep(l)
  BY <1>1, <1>5 DEF QuietStep, LossStep, TxFailStep, NoticeStep, FailedStep, Sent, RxFailStep,
     RxStopStep, RxLossStep, TxKept, RxKept, LinkKept, TxIdle, Val
<1>6. CASE TakeStep(l)
  BY <1>4, <1>6 DEF TakeStep, TxIdle, RxKept
<1>7. CASE CloseStep(l)
  <2> DEFINE t == [tx[l] EXCEPT !.closed = TRUE]
  <2>1. tx[l].sending = <<>> /\ t.sending = <<>> /\ cell'[l] = cell[l]
    BY <1>7, LinkTypes, ClosedState DEF CloseStep, TxIdle, RxKept
  <2>2. CASE tx[l].pending
    <3>1. TakeEffect(l, t)
      BY <1>7, <2>2 DEF CloseStep, CloseEffect
    <3> HIDE DEF t
    <3>2. QED
      BY <1>4, <2>1, <3>1
  <2>3. CASE ~tx[l].pending
    BY <1>2, <1>7, <2>1, <2>3 DEF CloseStep, CloseEffect, WithEnd
  <2>4. QED
    BY <2>2, <2>3
<1>8. CASE SentStep(l)
  <2>1. CASE port'[l] = port[l]
    BY <1>1, <1>8, <2>1 DEF SentStep, Sent, RxKept
  <2>2. CASE port'[l] = port[l] \o tx[l].sending
    <3> DEFINE s == tx[l].sending
               p == port[l]
    <3>1. /\ Len(s) = 1 /\ s \in Seq(Datum) /\ p \in Seq(Datum \cup {End})
          /\ tx'[l].sending = <<>> /\ cell'[l] = cell[l]
      BY <1>0, <1>8 DEF SentStep, Sent, RxKept, TaskOK
    <3> HIDE DEF s, p
    <3>2. /\ \A i \in DOMAIN p : i \in 1..Len(p)
          /\ \A i \in DOMAIN (p \o s) :
               \/ i \in DOMAIN p /\ (p \o s)[i] = p[i]
               \/ i = Len(p) + 1 /\ (p \o s)[i] = s[1]
          /\ Len(p) \in Nat
      <4>1. /\ Len(p) \in Nat /\ DOMAIN p = 1..Len(p) /\ DOMAIN (p \o s) = 1..(Len(p) + 1)
            /\ \A i \in 1..(Len(p) + 1) : (p \o s)[i] = IF i <= Len(p) THEN p[i] ELSE s[i - Len(p)]
        <5>1. s \in Seq(Datum \cup {End})
          <6>1. \A x \in Seq(Datum) : x \in Seq(Datum \cup {End})
            OBVIOUS
          <6>2. QED
            BY <3>1, <6>1
        <5>2. QED
          BY <3>1, <5>1, AppendOne
      <4>2. \A i \in 1..(Len(p) + 1) : i \in 1..Len(p) \/ (i = Len(p) + 1 /\ i - Len(p) = 1)
        BY <4>1
      <4>3. QED
        BY <4>1, <4>2
    <3>3. \A i \in DOMAIN p : p[i] # End
      BY <1>8 DEF SentStep, Sent, TaskOK, p
    <3>4. /\ \A i, j \in DOMAIN p : i < j => p[i].n <= p[j].n
          /\ \A i \in DOMAIN p : cell[l].val.n <= p[i].n /\ p[i].n <= cell[l - 1].val.n /\ p[i].n <= s[1].n
          /\ cell[l].val.n <= s[1].n /\ s[1].n <= cell[l - 1].val.n
      BY <1>8, <3>3 DEF LinkOrdered, SentStep, Sent, p, s
    <3>5. \A i, j \in DOMAIN (p \o s) : i < j => (p \o s)[i].n <= (p \o s)[j].n
      BY <3>2, <3>4
    <3>6. \A i \in DOMAIN (p \o s) : /\ cell[l].val.n <= (p \o s)[i].n
                                    /\ (p \o s)[i].n <= cell[l - 1].val.n
      BY <3>2, <3>4
    <3>7. port'[l] = p \o s
      BY <2>2 DEF p, s
    <3>8. link[l] # "unused" => cell[l].val.n <= cell[l - 1].val.n
      BY DEF LinkOrdered
    <3>9. QED
      BY <1>0, <3>1, <3>5, <3>6, <3>7, <3>8 DEF LinkOrdered
  <2>3. QED
    BY <1>8, <2>1, <2>2 DEF SentStep
<1>9. CASE LeaveStep(l)
  BY <1>2, <1>9 DEF LeaveStep, RxKept
<1>10. CASE DataStep(l)
  <2> DEFINE p == port[l]
  <2>1. /\ p \in Seq(Datum \cup {End}) /\ p # <<>> /\ port'[l] = Tail(p) /\ p[1] # End
        /\ cell'[l].val.n = p[1].n /\ tx'[l].sending = tx[l].sending
    BY <1>0, <1>10 DEF DataStep, LinkKept, TxKept
  <2>2. 1 \in DOMAIN p /\ \A i \in DOMAIN Tail(p) : i + 1 \in DOMAIN p /\ Tail(p)[i] = p[i + 1] /\ i + 1 > 1
    <3> HIDE DEF p
    <3> QED
      BY <2>1
  <2>3. /\ \A i, j \in DOMAIN p : i < j /\ p[j] # End => p[i].n <= p[j].n
        /\ \A i \in DOMAIN p : p[i] # End =>
             /\ p[i].n <= cell[l - 1].val.n
             /\ tx[l].sending # <<>> => p[i].n <= tx[l].sending[1].n
    BY DEF LinkOrdered
  <2> HIDE DEF p
  <2>4. /\ \A i \in DOMAIN Tail(p) : i \in Nat
        /\ \A i, j \in DOMAIN Tail(p) : i < j => i + 1 < j + 1
    BY <2>1
  <2>5. /\ \A i, j \in DOMAIN Tail(p) : i < j /\ Tail(p)[j] # End => Tail(p)[i].n <= Tail(p)[j].n
        /\ \A i \in DOMAIN Tail(p) : Tail(p)[i] # End =>
             /\ p[1].n <= Tail(p)[i].n
             /\ Tail(p)[i].n <= cell[l - 1].val.n
             /\ tx[l].sending # <<>> => Tail(p)[i].n <= tx[l].sending[1].n
    BY <2>2, <2>3, <2>4
  <2>6. QED
    BY <1>0, <2>1, <2>2, <2>3, <2>5 DEF LinkOrdered, p
<1>11. QED
  BY <1>5, <1>6, <1>7, <1>8, <1>9, <1>10, LinkSteps

\* A link is also in order after its source got a newer value.
LEMMA SourceGrows ==
  ASSUME TypeOK, NEW m \in LinkIds, LinkOrdered(m),
         link'[m] = link[m], tx'[m] = tx[m], port'[m] = port[m], cell'[m] = cell[m],
         cell[m - 1].val.n <= cell'[m - 1].val.n, cell'[m - 1].val.n \in Nat
  PROVE  LinkOrdered(m)'
<1>1. /\ cell[m].val.n \in Nat /\ cell[m - 1].val.n \in Nat
      /\ tx[m].sending \in Seq(Datum) /\ port[m] \in Seq(Datum \cup {End})
  BY LinkFields
<1>2. ASSUME NEW i \in DOMAIN port[m], port[m][i] # End PROVE port[m][i].n \in Nat
  <2>1. port[m][i] \in Datum
    BY <1>1, <1>2
  <2>2. QED
    BY <2>1, DatumNotEnd
<1>3. ASSUME tx[m].sending # <<>> PROVE tx[m].sending[1].n \in Nat
  <2>1. tx[m].sending[1] \in Datum
    BY <1>1, <1>3
  <2>2. QED
    BY <2>1, DatumNotEnd
<1>4. QED
  BY SMTT(40), <1>1, <1>2, <1>3 DEF LinkOrdered

LEMMA NextOrder ==
  ASSUME TypeOK, TypeOK', SenderOK, UnusedOK, TasksOK, LinksOrdered, [Next]_vars
  PROVE  LinksOrdered'
<1>1. CASE AppStep
  <2>1. LinkIds' = LinkIds /\ Cells' = Cells /\ UNCHANGED <<link, tx, port, rx, back>>
    BY <1>1, SetupFixed DEF AppStep, linkVars
  <2>2. ASSUME NEW m \in LinkIds PROVE LinkOrdered(m)'
    <3>1. m \in Cells \ {0} /\ m - 1 \in Cells /\ cell[m - 1].val.n \in Nat
      BY LinkEnds, LinkFields DEF TypeOK
    <3>2. cell'[m] = cell[m] /\ cell[m - 1].val.n <= cell'[m - 1].val.n
      BY <1>1, <3>1 DEF AppStep
    <3>3. cell'[m - 1].val \in Datum
      BY <2>1, <3>1 DEF TypeOK
    <3>4. LinkOrdered(m)
      BY DEF LinksOrdered
    <3>5. QED
      BY <2>1, <3>2, <3>3, <3>4, SourceGrows, DatumNotEnd
  <2>3. QED
    BY <2>1, <2>2 DEF LinksOrdered
<1>2. ASSUME NEW r \in Receivers, Transport(r) PROVE LinksOrdered'
  <2>1. PICK l \in LinkIds :
           /\ link[l] = "unused"
           /\ link' = [link EXCEPT ![l] = "connecting"]
           /\ tx'[l].sending = <<>>
           /\ \A m \in LinkIds \ {l} : tx'[m] = tx[m] /\ rx'[m] = rx[m]
           /\ cell'[l].val = cell[l - 1].val
           /\ \A g \in Cells \ {l} : cell'[g] = cell[g]
           /\ UNCHANGED <<setup, port, back>>
    BY <1>2, TransportEffect
  <2>2. LinkIds' = LinkIds
    BY <2>1, SetupFixed
  <2>3. port[l] = <<>> /\ cell[l].val.n = 0
    BY <2>1 DEF UnusedOK
  <2>4. ASSUME NEW m \in LinkIds
        PROVE  cell[m - 1].val.n <= cell'[m - 1].val.n /\ cell'[m - 1].val.n \in Nat
    <3>1. m - 1 \in Cells /\ cell[m - 1].val.n \in Nat /\ cell[l - 1].val.n \in Nat
      BY LinkEnds, LinkFields DEF TypeOK
    <3>2. QED
      BY <2>1, <2>3, <3>1
  <2>5. LinkOrdered(l)'
    <3>0. l - 1 \in Cells \ {l} /\ cell[l - 1].val.n \in Nat
      <4>1. l \in Nat /\ l - 1 \in Cells
        BY LinkEnds DEF TypeOK
      <4>2. QED
        BY <4>1, LinkFields
    <3>1. cell'[l - 1] = cell[l - 1] /\ cell[l - 1].val.n \in Nat
      BY <2>1, <3>0
    <3>2. QED
      BY <2>1, <2>3, <3>1 DEF LinkOrdered
  <2>6. ASSUME NEW m \in LinkIds, m # l PROVE LinkOrdered(m)'
    <3>1. link'[m] = link[m] /\ tx'[m] = tx[m] /\ cell'[m] = cell[m] /\ port'[m] = port[m]
      BY ZenonT(60), <2>1, <2>6, LinkEnds DEF TypeOK
    <3>2. LinkOrdered(m)
      BY DEF LinksOrdered
    <3>3. QED
      BY <2>4, <3>1, <3>2, SourceGrows
  <2>7. QED
    BY <2>2, <2>5, <2>6 DEF LinksOrdered
<1>3. ASSUME NEW l \in LinkIds, LinkAction(l) PROVE LinksOrdered'
  <2>1. LinkIds' = LinkIds
    BY <1>3, OwnSource, SetupFixed
  <2>2. LinkOrdered(l)'
    BY <1>3, OrderStep DEF TasksOK, LinksOrdered
  <2>3. ASSUME NEW m \in LinkIds, m # l PROVE LinkOrdered(m)'
    <3>1. /\ link'[m] = link[m] /\ tx'[m] = tx[m] /\ port'[m] = port[m] /\ cell'[m] = cell[m]
          /\ m - 1 # l => cell'[m - 1] = cell[m - 1]
      BY <1>3, <2>3, OtherLinks
    <3>2. cell[l].val.n <= cell'[l].val.n /\ cell'[l].val.n \in Nat
      BY <1>3, LinkCellGrows, NextCell DEF LinksOrdered
    <3>3. cell[m - 1].val.n \in Nat /\ LinkOrdered(m)
      BY LinkFields DEF LinksOrdered
    <3>4. cell[m - 1].val.n <= cell'[m - 1].val.n /\ cell'[m - 1].val.n \in Nat
      BY <3>1, <3>2, <3>3
    <3>5. QED
      BY <3>1, <3>3, <3>4, SourceGrows
  <2>4. QED
    BY <2>1, <2>2, <2>3 DEF LinksOrdered
<1>4. QED
  BY <1>1, <1>2, <1>3, Steps

\* The cell of a Receiver.
LEMMA LiveCell ==
  ASSUME TypeOK, NEW r \in Receivers, Live(r)
  PROVE  /\ recv[r].at \in Cells /\ recv[r].got \in Nat /\ cell[recv[r].at].val.n \in Nat
         /\ recv[r].at # 0 => recv[r].at \in LinkIds
<1>1. recv[r].at \in Places /\ recv[r].got \in Nat /\ recv[r].at >= 0
  BY DEF TypeOK, RecvState, Live
<1>2. recv[r].at \in Cells
  BY <1>1, SetupTypes DEF Places, Cells, TypeOK
<1>3. recv[r].at # 0 => recv[r].at \in LinkIds
  BY <1>2, SetupTypes DEF Cells, LinkIds, TypeOK
<1>4. QED
  BY <1>1, <1>2, <1>3, CellTypes

LEMMA NextReceivers ==
  ASSUME TypeOK, TypeOK', SenderOK, UnusedOK, LinksOrdered, ReceiversBehind, [Next]_vars
  PROVE  ReceiversBehind'
<1> SUFFICES ASSUME NEW q \in Receivers, Live(q)'
             PROVE  recv'[q].got <= cell'[recv'[q].at].val.n
  BY DEF ReceiversBehind
<1>1. CASE AppStep
  <2>1. \A h \in Cells : cell[h].val.n <= cell'[h].val.n /\ cell'[h].val.n \in Nat /\ cell[h].val.n \in Nat
    <3>1. Cells' = Cells
      BY <1>1, SetupFixed DEF AppStep
    <3>2. ASSUME NEW h \in Cells PROVE cell'[h].val \in Datum
      BY <3>1 DEF TypeOK
    <3>3. QED
      BY <1>1, <3>2, CellTypes, DatumNotEnd DEF AppStep
  <2>2. CASE recv'[q].at = 0 /\ recv'[q].got = cell[0].val.n
    BY <2>1, <2>2, CellTypes
  <2>3. ASSUME NEW r \in Receivers, Live(r), recv'[q].at = recv[r].at,
               recv'[q].got \in {recv[r].got, cell[recv[r].at].val.n}
        PROVE  recv'[q].got <= cell'[recv'[q].at].val.n
    <3>1. recv[r].at \in Cells /\ recv[r].got \in Nat /\ recv[r].got <= cell[recv[r].at].val.n
      BY <2>3, LiveCell DEF ReceiversBehind
    <3>2. QED
      BY <2>1, <2>3, <3>1
  <2>4. recv'[q].at # -1
    BY DEF Live
  <2>5. QED
    BY <1>1, <2>2, <2>3, <2>4 DEF AppStep, RecvFrom
<1>2. ASSUME NEW r \in Receivers, Transport(r)
      PROVE  recv'[q].got <= cell'[recv'[q].at].val.n
  <2>1. PICK l \in LinkIds :
           /\ link[l] = "unused"
           /\ cell'[l].val = cell[l - 1].val
           /\ \A g \in Cells \ {l} : cell'[g] = cell[g]
           /\ recv'[r].at = l /\ recv'[r].got = cell[l - 1].val.n
           /\ \A s \in Receivers \ {r} : recv'[s] = recv[s]
    BY ZenonT(60), <1>2, TransportEffect
  <2>2. CASE q = r
    BY <2>1, <2>2, LinkFields
  <2>3. CASE q # r
    <3>1. recv'[q] = recv[q] /\ Live(q) /\ recv[q].at # l
      BY <2>1, <2>3 DEF Live, UnusedOK
    <3>2. recv[q].at \in Cells \ {l}
      BY <3>1, LiveCell
    <3>3. QED
      BY <2>1, <3>1, <3>2 DEF ReceiversBehind
  <2>4. QED
    BY <2>2, <2>3
<1>3. ASSUME NEW l \in LinkIds, LinkAction(l)
      PROVE  recv'[q].got <= cell'[recv'[q].at].val.n
  <2>1. recv' = recv /\ Live(q)
    BY <1>3, OwnSource DEF Live
  <2>2. recv[q].at \in Cells /\ recv[q].got \in Nat /\ recv[q].got <= cell[recv[q].at].val.n
    BY <2>1, LiveCell DEF ReceiversBehind
  <2>3. CASE recv[q].at = l
    <3>1. cell[l].val.n <= cell'[l].val.n /\ cell[l].val.n \in Nat /\ cell'[l].val.n \in Nat
      BY <1>3, LinkFields, LinkCellGrows, NextCell DEF LinksOrdered
    <3>2. QED
      BY <2>1, <2>2, <2>3, <3>1
  <2>4. CASE recv[q].at # l
    <3>1. cell'[recv[q].at] = cell[recv[q].at]
      BY <1>3, <2>2, <2>4, LinkFrame DEF Frame
    <3>2. QED
      BY <2>1, <2>2, <3>1
  <2>5. QED
    BY <2>3, <2>4
<1>4. QED
  BY <1>1, <1>2, <1>3, Steps

LEMMA InitOrder == Init => OrderInv
<1> SUFFICES ASSUME Init PROVE OrderInv
  OBVIOUS
<1>1. TypeOK
  BY InitTypes
<1>2. SenderOK
  BY <1>1, CellTypes DEF Init, SenderOK, Val
<1>3. ASSUME NEW l \in LinkIds
      PROVE  /\ cell[l].val = Val(0, "none") /\ cell[l - 1].val = Val(0, "none") /\ cell[l - 1].ver = 0
             /\ port[l] = <<>> /\ back[l] = <<>>
             /\ tx[l] = [NoTask EXCEPT !.run = (l <= setup.up)]
             /\ rx[l] = [NoRx EXCEPT !.run = (l <= setup.up)]
             /\ link[l] = IF l <= setup.up THEN "connecting" ELSE "unused"
             /\ cell[l].val.n = 0 /\ cell[l - 1].val.n = 0
  <2>1. l \in Cells /\ l - 1 \in Cells /\ Val(0, "none").n = 0
    BY <1>1, LinkEnds DEF TypeOK, Val
  <2>2. QED
    BY <2>1 DEF Init
<1>4. ASSUME NEW l \in LinkIds
      PROVE  /\ tx[l].run = (l <= setup.up) /\ rx[l].run = (l <= setup.up)
             /\ tx[l].sending = <<>> /\ tx[l].why = "none" /\ tx[l].seen = 0
             /\ tx[l].closed = FALSE /\ tx[l].pending = FALSE
  <2>1. tx[l].run = (l <= setup.up) /\ rx[l].run = (l <= setup.up)
    BY <1>3 DEF NoTask, NoRx
  <2>2. /\ tx[l].sending = <<>> /\ tx[l].why = "none" /\ tx[l].seen = 0
        /\ tx[l].closed = FALSE /\ tx[l].pending = FALSE
    BY <1>3 DEF NoTask
  <2>3. QED
    BY <2>1, <2>2
<1>5. \A r \in Receivers : recv[r].got = 0 /\ (recv[r].at = -1 \/ recv[r].at \in 0..setup.up)
  BY <1>1, SetupTypes DEF Init, TypeOK
<1>6. setup.up \in Nat /\ \A l \in LinkIds : l \in Nat /\ l # 0
  <2>1. setup \in Setups
    BY <1>1 DEF TypeOK
  <2>2. setup.links \in Nat /\ setup.up \in 0..setup.links
    BY <2>1, SetupTypes
  <2>3. QED
    BY <2>1, <2>2, LinkEnds
<1>7. UnusedOK
  <2> SUFFICES ASSUME NEW l \in LinkIds, link[l] = "unused"
               PROVE  /\ ~tx[l].run /\ ~rx[l].run /\ tx[l].why = "none" /\ tx[l].sending = <<>>
                      /\ port[l] = <<>> /\ back[l] = <<>> /\ cell[l].val.n = 0
                      /\ \A r \in Receivers : recv[r].at # l
                      /\ l + 1 \in LinkIds => link[l + 1] = "unused"
    BY DEF UnusedOK
  <2>1. ~(l <= setup.up)
    BY <1>3
  <2>2. \A r \in Receivers : recv[r].at # l
    BY <1>5, <1>6, <2>1
  <2>3. l + 1 \in LinkIds => link[l + 1] = "unused"
    <3>1. ~(l + 1 <= setup.up)
      BY <1>6, <2>1
    <3>2. l + 1 \in LinkIds => link[l + 1] = IF l + 1 <= setup.up THEN "connecting" ELSE "unused"
      BY <1>3
    <3>3. QED
      BY <3>1, <3>2
  <2>4. ~tx[l].run /\ ~rx[l].run /\ tx[l].why = "none" /\ tx[l].sending = <<>>
    BY <1>4, <2>1
  <2>5. port[l] = <<>> /\ back[l] = <<>> /\ cell[l].val.n = 0
    BY <1>3
  <2>6. QED
    BY <2>2, <2>3, <2>4, <2>5
<1>8. TasksOK
  <2> SUFFICES ASSUME NEW l \in LinkIds PROVE TaskOK(l)
    BY DEF TasksOK
  <2>1. /\ tx[l].sending = <<>> /\ tx[l].why = "none" /\ tx[l].seen = 0 /\ cell[l - 1].ver = 0
        /\ port[l] = <<>> /\ back[l] = <<>>
    BY <1>3, <1>4
  <2>2. QED
    BY <2>1 DEF TaskOK, EndSent
<1>9. LinksOrdered
  <2> SUFFICES ASSUME NEW l \in LinkIds PROVE LinkOrdered(l)
    BY DEF LinksOrdered
  <2>1. tx[l].sending = <<>> /\ port[l] = <<>> /\ cell[l].val.n = 0 /\ cell[l - 1].val.n = 0
    BY <1>3, <1>4
  <2>2. QED
    BY <2>1 DEF LinkOrdered
<1>10. ReceiversBehind
  <2> SUFFICES ASSUME NEW r \in Receivers, Live(r) PROVE recv[r].got <= cell[recv[r].at].val.n
    BY DEF ReceiversBehind
  <2>1. cell[recv[r].at].val.n \in Nat
    BY <1>1, LiveCell
  <2>2. QED
    BY <1>5, <2>1
<1>11. QED
  BY <1>1, <1>2, <1>7, <1>8, <1>9, <1>10 DEF OrderInv

\* Element i of q, which consists of c, p, s and d, is an element of one of these parts.
PartOf(q, i, c, p, s, d) ==
    \/ i = 1 /\ q[i] = c
    \/ \E k \in 1..Len(p) : i = k + 1 /\ q[i] = p[k]
    \/ Len(s) = 1 /\ i = Len(p) + 2 /\ q[i] = s[1]
    \/ i = Len(p) + Len(s) + 2 /\ q[i] = d

LEMMA PassageParts ==
  ASSUME NEW S, NEW c \in S, NEW d \in S, NEW p \in Seq(S), NEW s \in Seq(S), Len(s) \in {0, 1},
         NEW q, q = <<c>> \o p \o s \o <<d>>, NEW i \in 1..Len(q)
  PROVE  PartOf(q, i, c, p, s, d)
<1> USE DEF PartOf
<1>1. /\ <<c>> \in Seq(S) /\ <<d>> \in Seq(S) /\ Len(<<c>>) = 1 /\ Len(<<d>>) = 1
      /\ <<c>>[1] = c /\ <<d>>[1] = d /\ Len(p) \in Nat
  OBVIOUS
<1>2. <<c>> \o p \in Seq(S) /\ Len(<<c>> \o p) = 1 + Len(p)
  BY <1>1
<1>3. <<c>> \o p \o s \in Seq(S) /\ Len(<<c>> \o p \o s) = 1 + Len(p) + Len(s)
  BY <1>1, <1>2
<1>4. Len(q) = 2 + Len(p) + Len(s)
  BY <1>1, <1>3
<1>5. \A n \in 1..Len(q) : q[n] = IF n <= 1 + Len(p) + Len(s) THEN (<<c>> \o p \o s)[n]
                                  ELSE <<d>>[n - (1 + Len(p) + Len(s))]
  BY <1>1, <1>3
<1>6. \A n \in 1..(1 + Len(p) + Len(s)) :
         (<<c>> \o p \o s)[n] = IF n <= 1 + Len(p) THEN (<<c>> \o p)[n] ELSE s[n - (1 + Len(p))]
  BY <1>1, <1>2
<1>7. \A n \in 1..(1 + Len(p)) : (<<c>> \o p)[n] = IF n <= 1 THEN c ELSE p[n - 1]
  <2>1. \A n \in 1..Len(<<c>>) + Len(p) :
           (<<c>> \o p)[n] = IF n <= Len(<<c>>) THEN <<c>>[n] ELSE p[n - Len(<<c>>)]
    BY <1>1, ConcatProperties, Zenon
  <2>2. \A n \in 1..(1 + Len(p)) : n <= 1 => n = 1
    BY <1>1
  <2>3. QED
    BY <1>1, <2>1, <2>2
<1>8. i \in 1..Len(q)
  OBVIOUS
<1>9. CASE i = 1
  BY <1>1, <1>4, <1>5, <1>6, <1>7, <1>8, <1>9
<1>10. CASE i \in 2..(1 + Len(p))
  <2>1. i - 1 \in 1..Len(p) /\ i = (i - 1) + 1
    BY <1>1, <1>10
  <2>2. q[i] = p[i - 1]
    BY <1>1, <1>4, <1>5, <1>6, <1>7, <1>8, <1>10
  <2>3. QED
    BY <2>1, <2>2
<1>11. CASE i = 2 + Len(p) /\ Len(s) = 1
  <2>1. q[i] = s[1]
    <3>1. i \in 1..(1 + Len(p) + Len(s)) /\ ~(i <= 1 + Len(p)) /\ i - (1 + Len(p)) = 1
      BY <1>1, <1>11
    <3>2. q[i] = (<<c>> \o p \o s)[i]
      BY <1>4, <1>5, <1>8, <3>1
    <3>3. (<<c>> \o p \o s)[i] = s[i - (1 + Len(p))]
      BY <1>6, <3>1
    <3>4. QED
      BY <3>1, <3>2, <3>3
  <2>2. QED
    BY <1>11, <2>1
<1>12. CASE i = Len(p) + Len(s) + 2
  <2>1. q[i] = d
    BY <1>1, <1>4, <1>5, <1>8, <1>12
  <2>2. QED
    BY <1>12, <2>1
<1>13. QED
  <2>1. \/ i = 1 \/ i \in 2..(1 + Len(p)) \/ (i = 2 + Len(p) /\ Len(s) = 1)
        \/ i = Len(p) + Len(s) + 2
    <3> DEFINE m == Len(p)
               n == Len(s)
    <3>1. m \in Nat /\ n \in {0, 1} /\ i \in 1..(2 + m + n)
      BY <1>1, <1>4, <1>8
    <3> HIDE DEF m, n
    <3>2. i = 1 \/ i \in 2..(1 + m) \/ (i = 2 + m /\ n = 1) \/ i = m + n + 2
      BY <3>1
    <3>3. QED
      BY <3>2 DEF m, n
  <2>2. QED
    BY <1>9, <1>10, <1>11, <1>12, <2>1

\* The order of the parts of a link is the order of its passage.
LEMMA PassageOrdered ==
  ASSUME TypeOK, NEW l \in LinkIds, TaskOK(l), LinkOrdered(l), link[l] # "unused",
         NEW i \in 1..Len(Passage(l)), NEW j \in 1..Len(Passage(l)), i < j, Passage(l)[j] # End
  PROVE  Passage(l)[i].n <= Passage(l)[j].n
<1> DEFINE S == Datum \cup {End}
           c == cell[l].val
           d == cell[l - 1].val
           p == port[l]
           s == tx[l].sending
           q == Passage(l)
<1>1. c \in Datum /\ d \in Datum /\ p \in Seq(S) /\ s \in Seq(Datum)
  BY LinkFields, LinkEnds, CellTypes DEF TypeOK
<1>2. s # <<>> => Len(s) = 1 /\ tx[l].run
  BY DEF TaskOK
<1>3. Len(s) \in {0, 1} /\ s \in Seq(S) /\ Len(p) \in Nat /\ c \in S /\ d \in S
  <2>1. s = <<>> => Len(s) = 0
    OBVIOUS
  <2>2. \A v \in Seq(Datum) : v \in Seq(S)
    OBVIOUS
  <2>3. QED
    BY <1>1, <1>2, <2>1, <2>2
<1>4. PartOf(q, i, c, p, s, d) /\ PartOf(q, j, c, p, s, d)
  <2>1. q = <<c>> \o p \o s \o <<d>>
    BY DEF Passage
  <2>2. i \in 1..Len(q) /\ j \in 1..Len(q)
    OBVIOUS
  <2> HIDE DEF c, d, p, s, S
  <2>3. p \in Seq(S)
    BY <1>1
  <2> HIDE DEF q
  <2>4. ASSUME NEW n \in 1..Len(q) PROVE PartOf(q, n, c, p, s, d)
    BY <1>3, <2>1, <2>3, PassageParts
  <2>5. QED
    BY <2>2, <2>4
<1> USE DEF PartOf
<1>5. \A k \in 1..Len(p) : p[k] = End \/ p[k] \in Datum
  BY <1>1
<1>6. End.n = -1 /\ \A v \in Datum : v.n \in Nat /\ v # End
  BY DatumNotEnd DEF End, Val
<1>7. Len(s) = 1 => s[1] \in Datum /\ s # <<>>
  BY <1>1
<1>8. /\ \A k, m \in 1..Len(p) : k < m /\ p[m] # End => p[k].n <= p[m].n
      /\ \A k \in 1..Len(p) : p[k] # End =>
           /\ c.n <= p[k].n /\ p[k].n <= d.n
           /\ Len(s) = 1 => p[k].n <= s[1].n
      /\ Len(s) = 1 => c.n <= s[1].n /\ s[1].n <= d.n
      /\ c.n <= d.n
  BY <1>1, <1>7 DEF LinkOrdered
<1> HIDE DEF c, d, p, s, q, S
<1>9. i \in Nat /\ j \in Nat /\ c.n \in Nat /\ d.n \in Nat /\ q[j] # End
  BY <1>1, <1>6 DEF q
<1>10. CASE i = 1 /\ q[i] = c
  BY <1>3, <1>4, <1>8, <1>9, <1>10 DEF q
<1>11. ASSUME NEW k \in 1..Len(p), i = k + 1, q[i] = p[k] PROVE q[i].n <= q[j].n
  <2>1. CASE p[k] = End
    <3>1. q[j] \in Datum
      BY <1>1, <1>4, <1>5, <1>7, <1>9
    <3>2. QED
      BY <1>6, <1>11, <2>1, <3>1
  <2>2. CASE p[k] # End
    BY <1>3, <1>4, <1>8, <1>9, <1>11, <2>2
  <2>3. QED
    BY <2>1, <2>2
<1>12. CASE Len(s) = 1 /\ i = Len(p) + 2 /\ q[i] = s[1]
  BY <1>3, <1>4, <1>8, <1>9, <1>12 DEF q
<1>13. CASE i = Len(p) + Len(s) + 2 /\ q[i] = d
  BY <1>3, <1>4, <1>8, <1>9, <1>13 DEF q
<1>14. QED
  BY <1>4, <1>10, <1>11, <1>12, <1>13 DEF q

LEMMA NextOrderInv == OrderInv /\ [Next]_vars => OrderInv'
<1> SUFFICES ASSUME OrderInv, [Next]_vars PROVE OrderInv'
  OBVIOUS
<1>1. TypeOK /\ TypeOK' /\ SenderOK /\ UnusedOK /\ TasksOK /\ LinksOrdered /\ ReceiversBehind
  BY NextTypes DEF OrderInv
<1>2. QED
  BY <1>1, NextSender, NextUnused, NextTasks, NextOrder, NextReceivers DEF OrderInv

\* A value on its way never replaces a newer one, and no Receiver has seen a value newer
\* than the one in its cell, whatever the rate limits, failures and Receivers sent on.
THEOREM ValuesNeverGoBack == Spec => []NeverBackwards
<1>1. OrderInv => NeverBackwards
  <2> SUFFICES ASSUME OrderInv PROVE NeverBackwards
    OBVIOUS
  <2>1. TypeOK /\ TasksOK /\ LinksOrdered /\ ReceiversBehind
    BY DEF OrderInv
  <2>2. ASSUME NEW l \in LinkIds, link[l] # "unused",
               NEW i \in 1..Len(Passage(l)), NEW j \in 1..Len(Passage(l)),
               i < j, Passage(l)[j] # End
        PROVE  Passage(l)[i].n <= Passage(l)[j].n
    BY <2>1, <2>2, PassageOrdered DEF TasksOK, LinksOrdered
  <2>3. QED
    BY <2>1, <2>2 DEF NeverBackwards, ReceiversBehind
<1>2. QED
  BY <1>1, InitOrder, NextOrderInv, PTL DEF Spec

-----------------------------------------------------------------------------
(* The final value *)

\* Final, for the next state.
FinalNext(v, h) ==
    \/ v.err \in Disconnecting
    \/ ~sender'.open /\ v.n = cell'[0].val.n
    \/ \E m \in Path(h) : tx'[m].why = "item"

\* A Sender that is gone does not come back, and a value that failed stays so.
FinalKept ==
    /\ sender'.open => sender.open
    /\ ~sender.open => cell'[0] = cell[0]
    /\ \A m \in LinkIds : tx[m].why = "item" => tx'[m].why = "item"

LEMMA FinalStays ==
  ASSUME TypeOK, FinalKept, NEW g \in Cells, NEW h \in Cells, g <= h, NEW v, NEW w, Alike(v, w),
         Final(v, g)
  PROVE  FinalNext(w, h)
<1>1. setup.links \in Nat
  BY SetupTypes DEF TypeOK
<1>2. \A m \in Path(g) : m \in Path(h) /\ m \in LinkIds
  BY <1>1 DEF Path, Cells, LinkIds
<1>3. CASE v.err \in Disconnecting
  BY <1>3 DEF Alike, FinalNext
<1>4. CASE ~sender.open /\ v.n = cell[0].val.n
  BY <1>4 DEF Alike, FinalNext, FinalKept
<1>5. CASE \E m \in Path(g) : tx[m].why = "item"
  BY <1>2, <1>5 DEF FinalNext, FinalKept
<1>6. QED
  BY <1>3, <1>4, <1>5 DEF Final

\* The cells that nobody writes to anymore, and the tasks that have ended, stay so.
LEMMA LinkOneWay ==
  ASSUME TypeOK, NEW l \in LinkIds, LinkAction(l), TaskOK(l)
  PROVE  /\ rx'[l].run => rx[l].run
         /\ tx'[l].run => tx[l].run
         /\ tx[l].why = "item" => tx'[l].why = "item"
         /\ cell'[l] = cell[l] \/ (rx[l].run /\ cell'[l].ver = cell[l].ver + 1)
<1>1. tx[l].run => tx[l].why = "none"
  BY DEF TaskOK
<1>2. rx'[l].run => rx[l].run
  BY LinkSteps DEF QuietStep, LossStep, TxFailStep, TakeStep, CloseStep, NoticeStep, SentStep,
     FailedStep, Sent, LeaveStep, RxFailStep, RxStopStep, DataStep, RxLossStep, RxKept
<1>3. cell'[l] = cell[l] \/ (rx[l].run /\ cell'[l].ver = cell[l].ver + 1)
  BY LinkSteps DEF QuietStep, LossStep, TxFailStep, TakeStep, CloseStep, NoticeStep, SentStep,
     FailedStep, Sent, LeaveStep, RxFailStep, RxStopStep, DataStep, RxLossStep, RxKept
<1>4. tx[l].run \/ TxKept(l)
  BY LinkSteps DEF QuietStep, LossStep, TxFailStep, TakeStep, CloseStep, NoticeStep, SentStep,
     FailedStep, Sent, LeaveStep, RxFailStep, RxStopStep, DataStep, RxLossStep, LinkKept, TxIdle
<1>5. QED
  BY <1>1, <1>2, <1>3, <1>4 DEF TxKept

LEMMA LinkFinalKept ==
  ASSUME TypeOK, NEW l \in LinkIds, LinkAction(l), TaskOK(l)
  PROVE  FinalKept
<1>1. cell'[0] = cell[0] /\ sender' = sender
  <2>1. 0 \in Cells \ {l}
    BY LinkEnds DEF TypeOK
  <2>2. QED
    BY <2>1, LinkFrame DEF Frame
<1>2. ASSUME NEW m \in LinkIds, tx[m].why = "item" PROVE tx'[m].why = "item"
  BY <1>2, LinkOneWay, OtherLinks
<1>3. QED
  BY <1>1, <1>2 DEF FinalKept

\* The cell that a running link takes its values from is final when nobody feeds it.
LEMMA SourceFinal ==
  ASSUME TypeOK, UnusedOK, LinksFinal, NEW l \in LinkIds, link[l] # "unused", tx[l].run,
         ~Fed(l - 1)
  PROVE  Final(cell[l - 1].val, l - 1)
<1>1. CASE l - 1 = 0
  BY <1>1 DEF Fed, Final
<1>2. CASE l - 1 # 0
  <2>1. l - 1 \in LinkIds /\ (l - 1) + 1 = l /\ l \in Nat
    BY <1>2, LinkEnds DEF TypeOK
  <2>2. link[l - 1] # "unused"
    BY <2>1 DEF UnusedOK
  <2>3. Watched(l - 1)
    <3>1. l - 1 < setup.links
      BY SetupTypes DEF TypeOK, LinkIds
    <3>2. QED
      BY <2>1, <3>1 DEF Watched
  <2>4. QED
    BY <1>2, <2>1, <2>2, <2>3 DEF LinksFinal, LinkFinal, CellIsFinal, Fed
<1>3. QED
  BY <1>1, <1>2

\* The last element of what is in a port.
LEMMA LastOf ==
  ASSUME NEW S, NEW p \in Seq(S)
  PROVE  /\ Len(p) \in Nat /\ (p # <<>> <=> Len(p) > 0)
         /\ \A v \in S : /\ Append(p, v) # <<>> /\ Len(Append(p, v)) = Len(p) + 1
                         /\ Append(p, v)[Len(p) + 1] = v
                         /\ \A i \in 1..Len(p) : Append(p, v)[i] = p[i]
         /\ p # <<>> => /\ Head(p) = p[1] /\ Len(Tail(p)) = Len(p) - 1
                        /\ \A i \in 1..(Len(p) - 1) : Tail(p)[i] = p[i + 1]
                        /\ Tail(p) \in Seq(S)
  OBVIOUS

\* What the properties of a link need of its state.
LEMMA FinalFields ==
  ASSUME TypeOK, UnusedOK, NEW l \in LinkIds, LinkAction(l)
  PROVE  /\ tx[l].sending \in Seq(Datum) /\ port[l] \in Seq(Datum \cup {End})
         /\ cell'[l - 1] = cell[l - 1] /\ Fed(l - 1)' = Fed(l - 1)
         /\ link[l] # "unused" /\ sender' = sender /\ l \in Cells /\ l - 1 \in Cells
         /\ l - 1 <= l /\ l <= l
<1>1. l \in Nat /\ l \in Cells /\ l - 1 \in Cells /\ (l - 1 # 0 => l - 1 \in LinkIds)
  BY LinkEnds DEF TypeOK
<1>2. l - 1 # l /\ l - 1 <= l /\ l <= l
  BY <1>1
<1>3. cell'[l - 1] = cell[l - 1] /\ sender' = sender
  BY OwnSource
<1>4. l - 1 # 0 => rx'[l - 1] = rx[l - 1]
  BY <1>1, <1>2, OtherLinks
<1>5. Fed(l - 1)' = Fed(l - 1)
  BY <1>3, <1>4 DEF Fed
<1>6. QED
  BY <1>1, <1>2, <1>3, <1>5, LinkFields, ActsOnUsed

LEMMA LatestStep ==
  ASSUME TypeOK, UnusedOK, NEW l \in LinkIds, LinkAction(l), TaskOK(l), LatestIsCurrent(l)
  PROVE  LatestIsCurrent(l)'
<1> SUFFICES ASSUME Caught(l)' PROVE Alike(Latest(l)', cell'[l - 1].val)
  BY DEF LatestIsCurrent, Alike
<1>0. /\ tx[l].sending \in Seq(Datum) /\ port[l] \in Seq(Datum \cup {End})
      /\ cell'[l - 1] = cell[l - 1]
  BY FinalFields
<1>1. CASE QuietStep(l)
  <2>1. Caught(l) /\ Latest(l)' = Latest(l)
    BY <1>0, <1>1 DEF QuietStep, TxKept, Caught, Latest
  <2>2. QED
    BY <1>0, <2>1 DEF LatestIsCurrent
<1>2. CASE LossStep(l) \/ TxFailStep(l) \/ NoticeStep(l) \/ FailedStep(l) \/ LeaveStep(l)
           \/ RxFailStep(l) \/ RxStopStep(l) \/ RxLossStep(l)
  BY <1>2 DEF LossStep, TxFailStep, NoticeStep, FailedStep, Sent, LeaveStep, RxFailStep,
              RxStopStep, RxLossStep, RxKept, Caught
<1>3. ASSUME tx'[l].sending = <<cell[l - 1].val>> PROVE Alike(Latest(l)', cell'[l - 1].val)
  BY <1>0, <1>3 DEF Latest, Alike
<1>4. CASE TakeStep(l) \/ CloseStep(l)
  BY <1>3, <1>4 DEF TakeStep, CloseStep, CloseEffect, TakeEffect, Caught
<1>5. CASE SentStep(l)
  <2>1. Caught(l) /\ Latest(l) = tx[l].sending[1] /\ Len(tx[l].sending) = 1
    BY <1>0, <1>5 DEF SentStep, Sent, RxKept, Caught, Latest, TaskOK
  <2>2. port'[l] = port[l] \o tx[l].sending /\ tx'[l].sending = <<>>
    BY <1>5, <2>1 DEF SentStep, Sent, Caught
  <2>3. Latest(l)' = tx[l].sending[1]
    <3> DEFINE s == tx[l].sending
               p == port[l]
    <3>1. s \in Seq(Datum \cup {End}) /\ p \in Seq(Datum \cup {End}) /\ Len(s) = 1
      <4>1. s \in Seq(Datum \cup {End})
        BY <1>0, SeqMonotonic
      <4>2. QED
        BY <1>0, <2>1, <4>1
    <3> HIDE DEF s, p
    <3>2. /\ Len(p) \in Nat /\ DOMAIN (p \o s) = 1..(Len(p) + 1)
          /\ \A i \in 1..(Len(p) + 1) : (p \o s)[i] = IF i <= Len(p) THEN p[i] ELSE s[i - Len(p)]
      BY <3>1, AppendOne
    <3>3. Len(p \o s) = Len(p) + 1 /\ p \o s # <<>>
      <4>1. Len(p \o s) = Len(p) + Len(s) /\ p \o s \in Seq(Datum \cup {End})
        BY <3>1, ConcatProperties, Zenon
      <4>2. QED
        BY <3>1, <3>2, <4>1
    <3>4. (p \o s)[Len(p \o s)] = s[1]
      BY <3>2, <3>3
    <3>5. QED
      BY <2>2, <3>3, <3>4 DEF Latest, s, p
  <2>4. QED
    BY <1>0, <2>1, <2>3 DEF LatestIsCurrent
<1>6. CASE DataStep(l)
  <2>1. Caught(l) /\ tx'[l].sending = tx[l].sending
    BY <1>0, <1>6 DEF DataStep, LinkKept, TxKept, Caught
  <2>2. Alike(Latest(l), cell[l - 1].val)
    BY <2>1 DEF LatestIsCurrent
  <2>3. Latest(l)' = Latest(l) \/ Alike(Latest(l)', Latest(l))
    <3> DEFINE p == port[l]
    <3>1. p \in Seq(Datum \cup {End}) /\ p # <<>> /\ port'[l] = Tail(p)
      BY <1>0, <1>6 DEF DataStep
    <3>2. CASE tx[l].sending # <<>>
      BY <2>1, <3>2 DEF Latest
    <3>3. CASE tx[l].sending = <<>> /\ Tail(p) # <<>>
      <4>1. Tail(p)[Len(Tail(p))] = p[Len(p)]
        <5> HIDE DEF p
        <5> QED
          BY <3>1, <3>3
      <4>2. QED
        BY <2>1, <3>1, <3>3, <4>1 DEF Latest
    <3>4. CASE tx[l].sending = <<>> /\ Tail(p) = <<>>
      <4>1. Head(p) = p[Len(p)]
        <5> HIDE DEF p
        <5>1. Len(Tail(p)) = 0 /\ Len(Tail(p)) = Len(p) - 1 /\ Len(p) \in Nat /\ Head(p) = p[1]
          BY <3>1, <3>4, LastOf
        <5>2. Len(p) = 1
          BY <5>1
        <5>3. QED
          BY <5>1, <5>2
      <4>2. Latest(l)' = cell'[l].val /\ Latest(l) = Head(p)
        BY <2>1, <3>1, <3>4, <4>1 DEF Latest
      <4>3. QED
        BY <1>6, <4>2 DEF DataStep, Alike
    <3>5. QED
      BY <3>2, <3>3, <3>4
  <2>4. QED
    BY <1>0, <2>2, <2>3 DEF Alike
<1>7. QED
  BY <1>1, <1>2, <1>4, <1>5, <1>6, LinkSteps

LEMMA ClosingStep ==
  ASSUME TypeOK, UnusedOK, NEW l \in LinkIds, LinkAction(l), TaskOK(l), ClosingIsFinal(l)
  PROVE  ClosingIsFinal(l)'
<1> SUFFICES ASSUME tx'[l].run, tx'[l].closed, rx'[l].run, link'[l] \in {"connecting", "up"}
             PROVE  Caught(l)' /\ ~Fed(l - 1)'
  BY DEF ClosingIsFinal
<1>0. /\ cell'[l - 1] = cell[l - 1] /\ Fed(l - 1)' = Fed(l - 1)
  BY FinalFields
<1>1. CASE QuietStep(l)
  BY <1>0, <1>1 DEF QuietStep, TxKept, Caught, ClosingIsFinal
<1>2. CASE LossStep(l) \/ TxFailStep(l) \/ NoticeStep(l) \/ FailedStep(l) \/ LeaveStep(l)
           \/ RxFailStep(l) \/ RxStopStep(l) \/ RxLossStep(l)
  BY <1>2 DEF LossStep, TxFailStep, NoticeStep, FailedStep, Sent, LeaveStep, RxFailStep,
              RxStopStep, RxLossStep, RxKept, TxIdle
<1>3. CASE TakeStep(l)
  BY <1>3 DEF TakeStep, TakeEffect, TxIdle
<1>4. CASE CloseStep(l)
  <2>1. cell[l - 1].ver = tx[l].seen /\ ~Fed(l - 1) /\ link'[l] = link[l] /\ rx'[l].run = rx[l].run
    BY <1>4 DEF CloseStep, RxKept, TaskOK
  <2>2. tx'[l].seen = cell[l - 1].ver /\ tx'[l].sending # <<>>
    <3>1. tx'[l].sending = <<cell[l - 1].val>> /\ tx'[l].seen = cell[l - 1].ver
      BY <1>4 DEF CloseStep, CloseEffect, TakeEffect
    <3>2. QED
      BY <3>1
  <2>3. QED
    BY <1>0, <2>1, <2>2 DEF Caught
<1>5. CASE SentStep(l)
  BY <1>0, <1>5 DEF SentStep, Sent, RxKept, Caught, ClosingIsFinal
<1>6. CASE DataStep(l)
  BY <1>0, <1>6 DEF DataStep, LinkKept, TxKept, Caught, ClosingIsFinal
<1>7. QED
  BY <1>1, <1>2, <1>3, <1>4, <1>5, <1>6, LinkSteps

LEMMA CellStep ==
  ASSUME TypeOK, UnusedOK, NEW l \in LinkIds, LinkAction(l), TaskOK(l), EndIsFinal(l),
         CellIsFinal(l)
  PROVE  CellIsFinal(l)'
<1>0. /\ port[l] \in Seq(Datum \cup {End}) /\ link[l] # "unused" /\ l \in Cells /\ l <= l
  BY FinalFields
<1>1. Watched(l)' => Watched(l)
  <2>1. recv' = recv /\ setup' = setup
    BY OwnSource
  <2>2. l < setup.links => tx'[l + 1] = tx[l + 1]
    <3>1. l \in Nat /\ (l < setup.links => l + 1 \in LinkIds)
      BY LinkEnds DEF TypeOK
    <3>2. l + 1 # l
      BY <3>1
    <3>3. QED
      BY <3>1, <3>2, OtherLinks
  <2>3. QED
    BY <2>1, <2>2 DEF Watched
<1>2. ASSUME NEW v, Final(v, l), NEW w, Alike(v, w) PROVE FinalNext(w, l)
  BY <1>0, <1>2, LinkFinalKept, FinalStays
<1> SUFFICES ASSUME ~rx'[l].run, Watched(l)' PROVE FinalNext(cell'[l].val, l)
  BY DEF CellIsFinal, Final, FinalNext
<1>3. ASSUME cell'[l].val.err \in Disconnecting PROVE FinalNext(cell'[l].val, l)
  BY <1>3 DEF FinalNext
<1>4. ASSUME cell'[l] = cell[l], Final(cell[l].val, l) PROVE FinalNext(cell'[l].val, l)
  BY <1>2, <1>4 DEF Alike
<1>5. CASE cell'[l] = cell[l] /\ rx'[l].run = rx[l].run
  BY <1>0, <1>1, <1>4, <1>5 DEF CellIsFinal
<1>6. CASE RxFailStep(l) \/ RxLossStep(l)
  BY <1>1, <1>3, <1>6 DEF RxFailStep, RxLossStep, Val, Disconnecting
<1>7. CASE RxStopStep(l)
  <2>1. port[l] # <<>> /\ Head(port[l]) = End /\ cell'[l] = cell[l]
    BY <1>1, <1>7 DEF RxStopStep
  <2>2. Len(port[l]) = 1 /\ port[l][1] = End
    <3>1. 1 \in DOMAIN port[l] /\ port[l][1] = End
      BY <1>0, <2>1
    <3>2. 1 = Len(port[l])
      BY <3>1 DEF TaskOK
    <3>3. QED
      BY <3>1, <3>2
  <2>3. Before(l) = cell[l].val
    BY <2>2 DEF Before
  <2>4. QED
    BY <1>4, <2>1, <2>2, <2>3 DEF EndIsFinal
<1>8. QED
  BY <1>5, <1>6, <1>7, LinkSteps
     DEF QuietStep, LossStep, TxFailStep, TakeStep, CloseStep, NoticeStep, SentStep, FailedStep,
         Sent, LeaveStep, DataStep, RxKept

\* The end that the sending task leaves behind follows the final value.
LEMMA EndAppended ==
  ASSUME TypeOK, UnusedOK, LinksFinal, NEW l \in LinkIds, LinkAction(l), TaskOK(l),
         tx[l].run, tx[l].sending = <<>>, RxKept(l), port'[l] = WithEnd(l),
         link[l] = "up" /\ rx[l].run => Caught(l) /\ ~Fed(l - 1)
  PROVE  EndIsFinal(l)'
<1>0. /\ port[l] \in Seq(Datum \cup {End}) /\ link[l] # "unused"
      /\ l \in Cells /\ l - 1 \in Cells /\ l - 1 <= l
  BY FinalFields
<1>1. CASE link[l] = "up" /\ rx[l].run
  <2>1. Final(cell[l - 1].val, l - 1)
    BY <1>0, <1>1, SourceFinal
  <2>2. Alike(Latest(l), cell[l - 1].val)
    BY <1>1 DEF LinksFinal, LinkFinal, LatestIsCurrent
  <2>3. FinalNext(Latest(l), l)
    <3>1. Alike(cell[l - 1].val, Latest(l))
      BY <2>2 DEF Alike
    <3>2. QED
      BY <1>0, <2>1, <3>1, LinkFinalKept, FinalStays
  <2>4. Before(l)' = Latest(l)
    <3> DEFINE p == port[l]
    <3>1. p \in Seq(Datum \cup {End}) /\ port'[l] = Append(p, End)
      BY <1>0, <1>1 DEF WithEnd
    <3>2. cell'[l] = cell[l]
      BY DEF RxKept
    <3>3. Latest(l) = IF p # <<>> THEN p[Len(p)] ELSE cell[l].val
      BY DEF Latest
    <3>4. Before(l)' = IF Len(Append(p, End)) = 1 THEN cell[l].val
                       ELSE Append(p, End)[Len(Append(p, End)) - 1]
      BY <3>1, <3>2 DEF Before
    <3> HIDE DEF p
    <3>5. /\ Len(p) \in Nat /\ (p # <<>> <=> Len(p) > 0) /\ Len(Append(p, End)) = Len(p) + 1
          /\ \A i \in 1..Len(p) : Append(p, End)[i] = p[i]
      BY <3>1, LastOf
    <3>6. QED
      BY <3>3, <3>4, <3>5
  <2>5. FinalNext(Before(l)', l)
    BY <2>3, <2>4
  <2>6. QED
    BY <2>5 DEF EndIsFinal, Final, FinalNext
<1>2. CASE ~(link[l] = "up" /\ rx[l].run)
  <2>1. port'[l] = port[l]
    BY <1>2 DEF WithEnd
  <2>2. \A i \in DOMAIN port[l] : port[l][i] # End
    BY DEF TaskOK
  <2>3. port[l] # <<>> => Len(port[l]) \in DOMAIN port[l]
    BY <1>0
  <2>4. QED
    BY <2>1, <2>2, <2>3 DEF EndIsFinal
<1>3. QED
  BY <1>1, <1>2

LEMMA EndStep ==
  ASSUME TypeOK, TypeOK', UnusedOK, LinksFinal, NEW l \in LinkIds, LinkAction(l), TaskOK(l)
  PROVE  EndIsFinal(l)'
<1>0. /\ port[l] \in Seq(Datum \cup {End}) /\ link[l] # "unused"
      /\ l \in Cells /\ l - 1 \in Cells /\ l - 1 <= l /\ l <= l
  BY FinalFields
<1>1. TaskOK(l)' /\ EndIsFinal(l) /\ LatestIsCurrent(l) /\ ClosingIsFinal(l)
  BY TaskStep DEF LinksFinal, LinkFinal
<1>2. ASSUME NEW v, Final(v, l), NEW w, Alike(v, w) PROVE FinalNext(w, l)
  BY <1>0, <1>2, LinkFinalKept, FinalStays
<1>3. ASSUME FinalNext(Before(l)', l) PROVE EndIsFinal(l)'
  BY <1>3 DEF EndIsFinal, Final, FinalNext
<1>4. CASE tx'[l].run
  <2>1. port'[l] \in Seq(Datum \cup {End})
    <3>1. LinkIds' = LinkIds
      BY OwnSource, SetupFixed
    <3>2. QED
      BY <3>1 DEF TypeOK
  <2>2. port'[l] # <<>> => Len(port'[l]) \in DOMAIN port'[l]
    BY <2>1
  <2>3. QED
    BY <1>1, <1>4, <2>2 DEF EndIsFinal, TaskOK
\* The port and the cell are the same.
<1>5. ASSUME port'[l] = port[l], cell'[l] = cell[l] PROVE EndIsFinal(l)'
  <2>1. Before(l)' = Before(l)
    BY <1>5 DEF Before
  <2>2. CASE port[l] # <<>> /\ port[l][Len(port[l])] = End
    <3>1. Final(Before(l), l) /\ Alike(Before(l), Before(l))
      BY <1>1, <2>2 DEF EndIsFinal, Alike
    <3>2. QED
      BY <1>2, <1>3, <2>1, <3>1
  <2>3. CASE ~(port[l] # <<>> /\ port[l][Len(port[l])] = End)
    BY <1>5, <2>3 DEF EndIsFinal
  <2>4. QED
    BY <2>2, <2>3
<1>6. CASE QuietStep(l) \/ TxFailStep(l)
  BY <1>5, <1>6 DEF QuietStep, TxFailStep, RxKept
<1>7. CASE LossStep(l)
  <2>1. PICK n \in 0..Len(port[l]) : port'[l] = SubSeq(port[l], 1, n)
    BY <1>7 DEF LossStep
  <2>2. CASE port'[l] = port[l]
    BY <1>5, <1>7, <2>2 DEF LossStep
  <2>3. CASE port'[l] # port[l]
    <3> DEFINE p == port[l]
    <3>1. p \in Seq(Datum \cup {End}) /\ n \in 0..Len(p) /\ port'[l] = SubSeq(p, 1, n)
          /\ SubSeq(p, 1, n) # p /\ \A i \in DOMAIN p : p[i] = End => i = Len(p)
      BY <1>0, <2>1, <2>3 DEF TaskOK
    <3> HIDE DEF p
    <3>2. n # Len(p)
      BY <3>1
    <3>3. SubSeq(p, 1, n) # <<>> => SubSeq(p, 1, n)[Len(SubSeq(p, 1, n))] # End
      BY <3>1, <3>2
    <3>4. QED
      BY <3>1, <3>3 DEF EndIsFinal
  <2>4. QED
    BY <2>2, <2>3
\* A value that cannot be sent ends the channel.
<1>8. ASSUME tx'[l].why = "item" PROVE EndIsFinal(l)'
  <2>1. l \in Path(l)
    <3>1. l \in Nat /\ l # 0
      BY LinkEnds DEF TypeOK
    <3>2. QED
      BY <3>1 DEF Path
  <2>2. QED
    BY <1>3, <1>8, <2>1 DEF FinalNext
<1>9. CASE TakeStep(l)
  BY <1>4, <1>8, <1>9 DEF TakeStep, TakeEffect, TxIdle
<1>10. CASE CloseStep(l)
  <2>1. tx[l].run /\ tx[l].sending = <<>> /\ RxKept(l)
    BY <1>10 DEF CloseStep, TxIdle
  <2>2. CASE tx[l].pending
    <3> DEFINE t == [tx[l] EXCEPT !.closed = TRUE]
    <3>1. TakeEffect(l, t) /\ t.run = tx[l].run
      BY <1>10, <2>2, LinkTypes, ClosedState DEF CloseStep, CloseEffect
    <3> HIDE DEF t
    <3>2. tx'[l].why = "item" \/ tx'[l].run
      BY <2>1, <3>1 DEF TakeEffect
    <3>3. QED
      BY <1>4, <1>8, <3>2
  <2>3. CASE ~tx[l].pending
    <3>1. port'[l] = WithEnd(l)
      BY <1>10, <2>3 DEF CloseStep, CloseEffect, WithEnd
    <3>2. link[l] = "up" /\ rx[l].run => Caught(l) /\ ~Fed(l - 1)
      BY <1>10, <2>1, <2>3 DEF CloseStep, Caught, TaskOK
    <3>3. QED
      BY <2>1, <3>1, <3>2, EndAppended
  <2>4. QED
    BY <2>2, <2>3
<1>11. CASE LeaveStep(l)
  <2>1. /\ tx[l].run /\ tx[l].closed /\ tx[l].sending = <<>> /\ RxKept(l) /\ port'[l] = WithEnd(l)
    BY <1>11 DEF LeaveStep
  <2>2. link[l] = "up" /\ rx[l].run => Caught(l) /\ ~Fed(l - 1)
    BY <1>1, <2>1 DEF ClosingIsFinal
  <2>3. QED
    BY <2>1, <2>2, EndAppended
<1>12. CASE NoticeStep(l) \/ SentStep(l) \/ FailedStep(l)
  BY <1>4, <1>12 DEF NoticeStep, SentStep, FailedStep, Sent, TxIdle
\* The error in the place of the value is final.
<1>13. CASE RxFailStep(l) \/ RxLossStep(l)
  <2>1. port'[l] = port[l]
    BY <1>13 DEF RxFailStep, RxLossStep
  <2>2. CASE cell'[l] = cell[l]
    BY <1>5, <2>1, <2>2
  <2>3. CASE cell'[l] # cell[l]
    <3>1. cell'[l].val.err \in Disconnecting
      BY <1>13, <2>3 DEF RxFailStep, RxLossStep, Val, Disconnecting
    <3>2. CASE Len(port[l]) = 1
      <4>1. Before(l)' = cell'[l].val
        BY <2>1, <3>2 DEF Before
      <4>2. QED
        BY <1>3, <3>1, <4>1 DEF FinalNext
    <3>3. CASE Len(port[l]) # 1
      <4>1. Before(l)' = Before(l) /\ Alike(Before(l), Before(l))
        BY <2>1, <3>3 DEF Before, Alike
      <4>2. CASE port[l] # <<>> /\ port[l][Len(port[l])] = End
        BY <1>1, <1>2, <1>3, <4>1, <4>2 DEF EndIsFinal
      <4>3. CASE ~(port[l] # <<>> /\ port[l][Len(port[l])] = End)
        BY <2>1, <4>3 DEF EndIsFinal
      <4>4. QED
        BY <4>2, <4>3
    <3>4. QED
      BY <3>2, <3>3
  <2>4. QED
    BY <2>2, <2>3
<1>14. CASE RxStopStep(l)
  BY <1>14 DEF RxStopStep, EndIsFinal
<1>15. CASE DataStep(l)
  <2> DEFINE p == port[l]
  <2>1. /\ p \in Seq(Datum \cup {End}) /\ p # <<>> /\ port'[l] = Tail(p) /\ Head(p) # End
        /\ Alike(Head(p), cell'[l].val)
    BY <1>0, <1>15 DEF DataStep, Alike
  <2>2. CASE Tail(p) # <<>> /\ Tail(p)[Len(Tail(p))] = End
    <3>1. p[Len(p)] = End /\ Len(p) # 1 /\ Len(p) \in Nat /\ Len(Tail(p)) = Len(p) - 1
          /\ Head(p) = p[1]
      <4> HIDE DEF p
      <4>1. /\ Len(p) \in Nat /\ Len(Tail(p)) = Len(p) - 1 /\ Tail(p) \in Seq(Datum \cup {End})
            /\ \A i \in 1..(Len(p) - 1) : Tail(p)[i] = p[i + 1]
            /\ Head(p) = p[1]
        BY <2>1, LastOf
      <4>2. Len(Tail(p)) > 0
        BY <2>2, <4>1
      <4>3. Len(p) - 1 \in 1..(Len(p) - 1) /\ (Len(p) - 1) + 1 = Len(p) /\ Len(p) # 1
        <5> DEFINE k == Len(p)
        <5>1. k \in Nat /\ k - 1 > 0
          BY <4>1, <4>2
        <5> HIDE DEF k
        <5>2. k - 1 \in 1..(k - 1) /\ (k - 1) + 1 = k /\ k # 1
          BY <5>1
        <5>3. QED
          BY <5>2 DEF k
      <4>4. QED
        BY <2>2, <4>1, <4>3
    <3>2. Final(Before(l), l) /\ Before(l) = p[Len(p) - 1]
      BY <1>1, <2>1, <3>1 DEF EndIsFinal, Before
    <3>3. Alike(Before(l), Before(l)')
      <4>1. CASE Len(p) = 2
        <5>1. Before(l)' = cell'[l].val
          BY <2>1, <3>1, <4>1 DEF Before
        <5>2. Before(l) = Head(p)
          BY <3>1, <3>2, <4>1
        <5>3. QED
          BY <2>1, <5>1, <5>2
      <4>2. CASE Len(p) # 2
        <5>1. Before(l)' = Tail(p)[Len(Tail(p)) - 1]
          <6>1. Len(Tail(p)) # 1
            BY <3>1, <4>2
          <6>2. QED
            BY <2>1, <6>1 DEF Before
        <5>2. Tail(p)[Len(Tail(p)) - 1] = p[Len(p) - 1]
          <6> HIDE DEF p
          <6>1. \A i \in 1..(Len(p) - 1) : Tail(p)[i] = p[i + 1]
            BY <2>1, LastOf
          <6>2. p # <<>> <=> Len(p) > 0
            BY <2>1, LastOf
          <6>3. Len(p) - 2 \in 1..(Len(p) - 1) /\ (Len(p) - 2) + 1 = Len(p) - 1
                /\ Len(Tail(p)) - 1 = Len(p) - 2
            BY <2>1, <3>1, <4>2, <6>2
          <6>4. QED
            BY <6>1, <6>3
        <5>3. QED
          BY <3>2, <5>1, <5>2 DEF Alike
      <4>3. QED
        BY <4>1, <4>2
    <3>4. QED
      BY <1>2, <1>3, <3>2, <3>3
  <2>3. CASE ~(Tail(p) # <<>> /\ Tail(p)[Len(Tail(p))] = End)
    BY <2>1, <2>3 DEF EndIsFinal
  <2>4. QED
    BY <2>2, <2>3
<1>16. QED
  BY <1>6, <1>7, <1>9, <1>10, <1>11, <1>12, <1>13, <1>14, <1>15, LinkSteps

\* A link that a step does not belong to.
LEMMA SameLinkFinal ==
  ASSUME TypeOK, FinalKept, NEW m \in LinkIds, LinkFinal(m), TaskOK(m),
         link'[m] = link[m], tx'[m] = tx[m], rx'[m] = rx[m], port'[m] = port[m], cell'[m] = cell[m],
         \/ cell'[m - 1] = cell[m - 1]
         \/ Fed(m - 1) /\ cell'[m - 1].ver = cell[m - 1].ver + 1
         \/ ~tx[m].run,
         tx[m].run /\ Fed(m - 1)' => Fed(m - 1),
         Watched(m)' => Watched(m)
  PROVE  LinkFinal(m)'
<1>0. m \in Cells /\ m <= m /\ tx[m].seen \in Nat /\ cell[m - 1].ver \in Nat
  <2>1. m \in Cells /\ m \in Nat
    BY LinkEnds DEF TypeOK
  <2>2. QED
    BY <2>1, LinkFields
<1>1. ASSUME NEW v, Final(v, m) PROVE FinalNext(v, m)
  <2>1. Alike(v, v)
    BY DEF Alike
  <2>2. QED
    BY <1>0, <1>1, <2>1, FinalStays
<1>2. EndIsFinal(m)'
  <2>1. Before(m)' = Before(m)
    BY DEF Before
  <2>2. CASE port[m] # <<>> /\ port[m][Len(port[m])] = End
    <3>1. FinalNext(Before(m), m)
      BY <1>1, <2>2 DEF LinkFinal, EndIsFinal
    <3>2. QED
      BY <2>1, <3>1 DEF EndIsFinal, Final, FinalNext
  <2>3. CASE ~(port[m] # <<>> /\ port[m][Len(port[m])] = End)
    BY <2>3 DEF EndIsFinal
  <2>4. QED
    BY <2>2, <2>3
<1>3. CellIsFinal(m)'
  <2>1. CASE link[m] # "unused" /\ ~rx[m].run /\ Watched(m)
    <3>1. FinalNext(cell[m].val, m)
      BY <1>1, <2>1 DEF LinkFinal, CellIsFinal
    <3>2. QED
      BY <3>1 DEF CellIsFinal, Final, FinalNext
  <2>2. CASE ~(link[m] # "unused" /\ ~rx[m].run /\ Watched(m))
    BY <2>2 DEF CellIsFinal
  <2>3. QED
    BY <2>1, <2>2
<1>4. CASE ~tx[m].run
  BY <1>2, <1>3, <1>4 DEF LinkFinal, LatestIsCurrent, ClosingIsFinal, Caught
<1>5. CASE tx[m].run /\ cell'[m - 1] = cell[m - 1]
  <2>1. Caught(m)' = Caught(m) /\ Latest(m)' = Latest(m)
    BY <1>5 DEF Caught, Latest
  <2>2. LatestIsCurrent(m)'
    BY <1>5, <2>1 DEF LinkFinal, LatestIsCurrent, Alike
  <2>3. ClosingIsFinal(m)'
    BY <1>5, <2>1 DEF LinkFinal, ClosingIsFinal
  <2>4. QED
    BY <1>2, <1>3, <2>2, <2>3 DEF LinkFinal
<1>6. CASE tx[m].run /\ Fed(m - 1) /\ cell'[m - 1].ver = cell[m - 1].ver + 1
  <2>1. tx[m].seen <= cell[m - 1].ver
    BY DEF TaskOK
  <2>2. ~Caught(m)'
    BY <1>0, <1>6, <2>1 DEF Caught
  <2>3. ~(tx[m].closed /\ rx[m].run /\ link[m] \in {"connecting", "up"})
    BY <1>6 DEF LinkFinal, ClosingIsFinal
  <2>4. QED
    BY <1>2, <1>3, <2>2, <2>3 DEF LinkFinal, LatestIsCurrent, ClosingIsFinal
<1>7. QED
  BY <1>4, <1>5, <1>6

LEMMA NextLinksFinal ==
  ASSUME OrderInv, OrderInv', FinalInv, [Next]_vars
  PROVE  LinksFinal'
<1>0. /\ TypeOK /\ TypeOK' /\ SenderOK /\ UnusedOK /\ TasksOK /\ LinksFinal
      /\ \A l \in LinkIds : TaskOK(l) /\ LinkFinal(l)
  BY DEF OrderInv, FinalInv, TasksOK, LinksFinal
<1>1. CASE AppStep
  <2>1. LinkIds' = LinkIds /\ UNCHANGED <<setup, link, tx, port, rx, back>>
    BY <1>1, SetupFixed DEF AppStep, linkVars
  <2>2. FinalKept
    BY <1>1, <2>1 DEF AppStep, FinalKept
  <2>3. ASSUME NEW m \in LinkIds PROVE LinkFinal(m)'
    <3>1. m \in Nat /\ m # 0 /\ m \in Cells \ {0} /\ m - 1 \in Cells
      BY <1>0, LinkEnds DEF TypeOK
    <3>2. cell'[m] = cell[m]
      BY <1>1, <3>1 DEF AppStep
    <3>3. cell'[m - 1] = cell[m - 1] \/ (Fed(m - 1) /\ cell'[m - 1].ver = cell[m - 1].ver + 1)
      <4>1. CASE m - 1 = 0
        BY <1>1, <4>1 DEF AppStep, Fed
      <4>2. CASE m - 1 # 0
        BY <1>1, <3>1, <4>2 DEF AppStep
      <4>3. QED
        BY <4>1, <4>2
    <3>4. Fed(m - 1)' => Fed(m - 1)
      BY <1>1, <2>1 DEF AppStep, Fed
    <3>5. Watched(m)' => Watched(m)
      <4>1. ASSUME NEW q \in Receivers, recv'[q].at = m
            PROVE \E r \in Receivers : recv[r].at = m
        <5>1. recv'[q].at # -1 /\ recv'[q].at # 0
          BY <3>1, <4>1
        <5>2. QED
          BY <1>1, <4>1, <5>1 DEF AppStep, RecvFrom
      <4>2. QED
        BY <2>1, <4>1 DEF Watched
    <3>6. QED
      BY <1>0, <2>1, <2>2, <3>2, <3>3, <3>4, <3>5, SameLinkFinal
  <2>4. QED
    BY <2>1, <2>3 DEF LinksFinal
<1>2. ASSUME NEW r \in Receivers, Transport(r) PROVE LinksFinal'
  <2>1. PICK l \in LinkIds :
           /\ recv[r].at = l - 1 /\ link[l] = "unused"
           /\ link' = [link EXCEPT ![l] = "connecting"]
           /\ tx'[l].closed = FALSE /\ tx'[l].sending = <<>> /\ tx'[l].why = "none"
           /\ \A m \in LinkIds \ {l} : tx'[m] = tx[m] /\ rx'[m] = rx[m]
           /\ rx'[l].run = TRUE
           /\ cell'[l].val = cell[l - 1].val
           /\ \A g \in Cells \ {l} : cell'[g] = cell[g]
           /\ recv'[r].at = l
           /\ \A s \in Receivers \ {r} : recv'[s] = recv[s]
           /\ UNCHANGED <<setup, sender, port>>
    BY <1>0, <1>2, TransportEffect
  <2>2. LinkIds' = LinkIds /\ l \in Nat /\ l # 0 /\ l - 1 \in Cells /\ l - 1 # l /\ 0 \in Cells \ {l}
    <3>1. l \in Nat /\ l # 0 /\ l - 1 \in Cells /\ 0 \in Cells
      BY <1>0, LinkEnds DEF TypeOK
    <3>2. QED
      BY <2>1, <3>1, SetupFixed
  <2>3. tx[l].why = "none" /\ port[l] = <<>> /\ (l + 1 \in LinkIds => ~tx[l + 1].run)
    BY <1>0, <2>1 DEF UnusedOK
  <2>4. FinalKept
    BY <2>1, <2>2, <2>3 DEF FinalKept
  <2>5. LinkFinal(l)'
    <3>1. cell'[l - 1] = cell[l - 1] /\ port'[l] = <<>>
      BY <2>1, <2>2, <2>3
    <3>2. Latest(l)' = cell[l - 1].val
      BY <2>1, <3>1 DEF Latest
    <3>3. LatestIsCurrent(l)'
      BY <3>1, <3>2 DEF LatestIsCurrent, Alike
    <3>4. ClosingIsFinal(l)' /\ EndIsFinal(l)' /\ CellIsFinal(l)'
      BY <2>1, <3>1 DEF ClosingIsFinal, EndIsFinal, CellIsFinal
    <3>5. QED
      BY <3>3, <3>4 DEF LinkFinal
  <2>6. ASSUME NEW m \in LinkIds, m # l PROVE LinkFinal(m)'
    <3>1. m \in Nat /\ m # 0 /\ m \in Cells \ {l} /\ m - 1 \in Cells
          /\ (m - 1 # 0 => m - 1 \in LinkIds) /\ (m < setup.links => m + 1 \in LinkIds)
      BY <1>0, <2>6, LinkEnds DEF TypeOK
    <3>2. /\ link'[m] = link[m] /\ tx'[m] = tx[m] /\ rx'[m] = rx[m] /\ port'[m] = port[m]
          /\ cell'[m] = cell[m]
      BY <1>0, <2>1, <2>6, <3>1 DEF TypeOK
    <3>3. CASE m - 1 = l
      <4>1. ~tx[m].run
        <5>1. m = l + 1
          BY <2>2, <3>1, <3>3
        <5>2. QED
          BY <2>3, <5>1
      <4>2. Watched(m)' => Watched(m)
        <5>1. m < setup.links => tx'[m + 1] = tx[m + 1]
          <6>1. m + 1 # l
            BY <2>2, <3>1, <3>3
          <6>2. QED
            BY <2>1, <3>1, <6>1
        <5>2. \A q \in Receivers : recv'[q].at = m => recv[q].at = m
          BY <2>1, <2>6
        <5>3. QED
          BY <2>1, <5>1, <5>2 DEF Watched
      <4>3. QED
        BY <1>0, <2>4, <3>2, <4>1, <4>2, SameLinkFinal
    <3>4. CASE m - 1 # l
      <4>1. cell'[m - 1] = cell[m - 1]
        BY <2>1, <3>1, <3>4
      <4>2. Fed(m - 1)' => Fed(m - 1)
        BY <2>1, <3>1, <3>4 DEF Fed
      <4>3. Watched(m)' => Watched(m)
        <5>1. \A q \in Receivers : recv'[q].at = m => recv[q].at = m
          BY <2>1, <2>6
        <5>2. CASE m = l - 1
          BY <2>1, <5>2 DEF Watched
        <5>3. CASE m # l - 1
          <6>1. m + 1 # l
            BY <2>2, <3>1, <5>3
          <6>2. m < setup.links => tx'[m + 1] = tx[m + 1]
            BY <2>1, <3>1, <6>1
          <6>3. QED
            BY <2>1, <5>1, <6>2 DEF Watched
        <5>4. QED
          BY <5>2, <5>3
      <4>4. QED
        BY <1>0, <2>4, <3>2, <4>1, <4>2, <4>3, SameLinkFinal
    <3>5. QED
      BY <3>3, <3>4
  <2>7. QED
    BY <2>2, <2>5, <2>6 DEF LinksFinal
<1>3. ASSUME NEW l \in LinkIds, LinkAction(l) PROVE LinksFinal'
  <2>1. LinkIds' = LinkIds /\ UNCHANGED <<setup, sender, recv>>
    BY <1>0, <1>3, OwnSource, SetupFixed
  <2>2. FinalKept
    BY <1>0, <1>3, LinkFinalKept
  <2>3. LinkFinal(l)'
    BY <1>0, <1>3, LatestStep, ClosingStep, EndStep, CellStep DEF LinkFinal
  <2>4. ASSUME NEW m \in LinkIds, m # l PROVE LinkFinal(m)'
    <3>1. m \in Nat /\ m # 0 /\ l \in Nat
          /\ (m - 1 # 0 => m - 1 \in LinkIds) /\ (m < setup.links => m + 1 \in LinkIds)
      BY <1>0, LinkEnds DEF TypeOK
    <3>2. /\ link'[m] = link[m] /\ tx'[m] = tx[m] /\ rx'[m] = rx[m]
          /\ port'[m] = port[m] /\ cell'[m] = cell[m]
          /\ m - 1 # l => cell'[m - 1] = cell[m - 1]
      BY <1>0, <1>3, <2>4, OtherLinks
    <3>3. /\ rx'[l].run => rx[l].run
          /\ tx'[l].run => tx[l].run
          /\ cell'[l] = cell[l] \/ (rx[l].run /\ cell'[l].ver = cell[l].ver + 1)
      BY <1>0, <1>3, LinkOneWay
    <3>4. cell'[m - 1] = cell[m - 1] \/ (Fed(m - 1) /\ cell'[m - 1].ver = cell[m - 1].ver + 1)
      <4>1. CASE m - 1 = l
        <5>1. m - 1 # 0
          BY <1>0, <4>1, LinkEnds DEF TypeOK
        <5>2. QED
          BY <3>3, <4>1, <5>1 DEF Fed
      <4>2. CASE m - 1 # l
        BY <3>2, <4>2
      <4>3. QED
        BY <4>1, <4>2
    <3>5. Fed(m - 1)' => Fed(m - 1)
      <4>1. CASE m - 1 = l \/ m - 1 = 0
        BY <2>1, <3>3, <4>1 DEF Fed
      <4>2. CASE m - 1 # l /\ m - 1 # 0
        BY <1>0, <1>3, <3>1, <4>2, OtherLinks DEF Fed
      <4>3. QED
        BY <4>1, <4>2
    <3>6. Watched(m)' => Watched(m)
      <4>1. m < setup.links /\ tx'[m + 1].run => tx[m + 1].run
        <5>1. CASE m + 1 = l
          BY <3>3, <5>1
        <5>2. CASE m + 1 # l
          BY <1>0, <1>3, <3>1, <5>2, OtherLinks
        <5>3. QED
          BY <5>1, <5>2
      <4>2. QED
        BY <2>1, <4>1 DEF Watched
    <3>7. QED
      BY <1>0, <2>2, <3>2, <3>4, <3>5, <3>6, SameLinkFinal
  <2>5. QED
    BY <2>1, <2>3, <2>4 DEF LinksFinal
<1>4. QED
  BY <1>0, <1>1, <1>2, <1>3, Steps

LEMMA NextReceiversFinal ==
  ASSUME OrderInv, FinalInv, [Next]_vars
  PROVE  ReceiversFinal'
<1>0. TypeOK /\ SenderOK /\ UnusedOK /\ \A l \in LinkIds : TaskOK(l)
  BY DEF OrderInv, TasksOK
<1> SUFFICES ASSUME NEW q \in Receivers, Live(q)', recv'[q].ended = "closed"
             PROVE  ~Fed(recv[q].at)' /\ cell'[recv'[q].at].val.err \notin Disconnecting
  BY DEF ReceiversFinal, Fed
\* A Receiver whose cell was final before the step.
<1>1. ASSUME NEW r \in Receivers, Live(r), recv'[q].at = recv[r].at,
             \/ recv[r].ended = "closed"
             \/ ~Fed(recv[r].at) /\ cell[recv[r].at].val.err \notin Disconnecting
      PROVE  /\ ~Fed(recv[r].at) /\ cell[recv[r].at].val.err \notin Disconnecting
             /\ recv[r].at \in Cells /\ (recv[r].at # 0 => recv[r].at \in LinkIds)
  BY <1>0, <1>1, LiveCell DEF FinalInv, ReceiversFinal
<1>2. CASE AppStep
  <2>1. PICK r \in Receivers :
          /\ Live(r) /\ recv'[q].at = recv[r].at
          /\ \/ recv[r].ended = "closed"
             \/ ~Fed(recv[r].at) /\ cell[recv[r].at].val.err \notin Disconnecting
    <3>1. recv'[q].at # -1
      BY DEF Live
    <3>2. RecvFrom(q)
      BY <1>2 DEF AppStep
    <3>3. QED
      BY <3>1, <3>2 DEF RecvFrom
  <2>2. /\ ~Fed(recv[r].at) /\ cell[recv[r].at].val.err \notin Disconnecting
        /\ recv[r].at \in Cells
    BY <1>1, <2>1
  <2>3. cell'[recv[r].at] = cell[recv[r].at]
    BY <1>2, <2>2 DEF AppStep, Fed
  <2>4. ~Fed(recv[q].at)'
    BY <1>2, <2>1, <2>2 DEF AppStep, Fed, linkVars
  <2>5. QED
    BY <2>1, <2>2, <2>3, <2>4
<1>3. ASSUME NEW r \in Receivers, Transport(r)
      PROVE  ~Fed(recv[q].at)' /\ cell'[recv'[q].at].val.err \notin Disconnecting
  <2>1. PICK l \in LinkIds :
           /\ link[l] = "unused"
           /\ \A m \in LinkIds \ {l} : tx'[m] = tx[m] /\ rx'[m] = rx[m]
           /\ \A g \in Cells \ {l} : cell'[g] = cell[g]
           /\ recv'[r].at = l /\ recv'[r].ended = "no"
           /\ \A s \in Receivers \ {r} : recv'[s] = recv[s]
           /\ sender' = sender
    BY <1>0, <1>3, TransportEffect
  <2>2. recv'[q] = recv[q] /\ Live(q)
    <3>1. q # r
      BY <2>1
    <3>2. QED
      BY <2>1, <3>1 DEF Live
  <2>3. recv[q].at # l
    BY <1>0, <2>1 DEF UnusedOK
  <2>4. /\ ~Fed(recv[q].at) /\ cell[recv[q].at].val.err \notin Disconnecting
        /\ recv[q].at \in Cells /\ (recv[q].at # 0 => recv[q].at \in LinkIds)
    BY <1>1, <2>2
  <2>5. QED
    BY <2>1, <2>2, <2>3, <2>4 DEF Fed
<1>4. ASSUME NEW l \in LinkIds, LinkAction(l)
      PROVE  ~Fed(recv[q].at)' /\ cell'[recv'[q].at].val.err \notin Disconnecting
  <2>1. UNCHANGED <<sender, recv>> /\ Live(q)
    BY <1>0, <1>4, OwnSource DEF Live
  <2>2. /\ ~Fed(recv[q].at) /\ cell[recv[q].at].val.err \notin Disconnecting
        /\ recv[q].at \in Cells /\ (recv[q].at # 0 => recv[q].at \in LinkIds)
    BY <1>1, <2>1
  <2>3. CASE recv[q].at = l
    <3>1. l # 0
      BY <1>0, LinkEnds DEF TypeOK
    <3>2. ~rx[l].run
      BY <2>2, <2>3, <3>1 DEF Fed
    <3>3. cell'[l] = cell[l] /\ ~rx'[l].run
      BY <1>0, <1>4, <3>2, LinkOneWay
    <3>4. QED
      BY <2>1, <2>2, <2>3, <3>1, <3>3 DEF Fed
  <2>4. CASE recv[q].at # l
    <3>1. Frame(l)
      BY <1>0, <1>4, LinkFrame
    <3>2. QED
      BY <2>1, <2>2, <2>4, <3>1 DEF Fed, Frame
  <2>5. QED
    BY <2>3, <2>4
<1>5. QED
  BY <1>0, <1>2, <1>3, <1>4, Steps

LEMMA InitFinal == Init => FinalInv
<1> SUFFICES ASSUME Init PROVE FinalInv
  OBVIOUS
<1>1. TypeOK
  BY InitTypes
<1>2. ASSUME NEW l \in LinkIds PROVE LinkFinal(l)
  <2>1. /\ cell[l].val = Val(0, "none") /\ cell[l - 1].val = Val(0, "none") /\ port[l] = <<>>
        /\ tx[l] = [NoTask EXCEPT !.run = (l <= setup.up)]
        /\ rx[l] = [NoRx EXCEPT !.run = (l <= setup.up)]
        /\ link[l] = IF l <= setup.up THEN "connecting" ELSE "unused"
    <3>1. l \in Cells /\ l - 1 \in Cells
      BY <1>1, LinkEnds DEF TypeOK
    <3>2. QED
      BY <3>1 DEF Init
  <2>2. rx[l].run = (l <= setup.up)
    BY <2>1 DEF NoRx
  <2>3. tx[l].sending = <<>> /\ tx[l].closed = FALSE
    BY <2>1 DEF NoTask
  <2>4. LatestIsCurrent(l)
    BY <2>1, <2>3 DEF LatestIsCurrent, Latest, Alike
  <2>5. ClosingIsFinal(l) /\ EndIsFinal(l) /\ CellIsFinal(l)
    BY <2>1, <2>2, <2>3 DEF ClosingIsFinal, EndIsFinal, CellIsFinal
  <2>6. QED
    BY <2>4, <2>5 DEF LinkFinal
<1>3. ReceiversFinal
  BY DEF Init, ReceiversFinal
<1>4. QED
  BY <1>2, <1>3 DEF FinalInv, LinksFinal

\* A Receiver that is told that the channel is closed has the final value of the Sender,
\* unless a value could not be sent: neither a lost connection nor a value held back by a
\* rate limit can look like the end.
THEOREM ClosedShowsFinal == Spec => []ClosedMeansFinal
<1>1. IInv => ClosedMeansFinal
  <2> SUFFICES ASSUME IInv, NEW r \in Receivers, Live(r), recv[r].ended = "closed"
               PROVE  \/ ~sender.open /\ cell[recv[r].at].val.n = cell[0].val.n
                      \/ \E l \in Path(recv[r].at) : tx[l].why = "item"
    BY DEF ClosedMeansFinal
  <2>1. TypeOK /\ UnusedOK /\ LinksFinal /\ ReceiversFinal
    BY DEF IInv, OrderInv, FinalInv
  <2>2. ~Fed(recv[r].at) /\ cell[recv[r].at].val.err \notin Disconnecting
    BY <2>1 DEF ReceiversFinal
  <2>3. CASE recv[r].at = 0
    BY <2>2, <2>3 DEF Fed
  <2>4. CASE recv[r].at # 0
    <3>1. recv[r].at \in LinkIds /\ Watched(recv[r].at)
      BY <2>1, <2>4, LiveCell DEF Watched
    <3>2. link[recv[r].at] # "unused"
      BY <2>1, <3>1 DEF UnusedOK
    <3>3. Final(cell[recv[r].at].val, recv[r].at)
      BY <2>1, <2>2, <2>4, <3>1, <3>2 DEF LinksFinal, LinkFinal, CellIsFinal, Fed
    <3>4. QED
      BY <2>2, <3>3 DEF Final
  <2>5. QED
    BY <2>3, <2>4
<1>2. Init => IInv
  BY InitOrder, InitFinal DEF IInv
<1>3. IInv /\ [Next]_vars => IInv'
  <2> SUFFICES ASSUME IInv, [Next]_vars PROVE IInv'
    OBVIOUS
  <2>1. OrderInv /\ FinalInv /\ OrderInv'
    BY NextOrderInv DEF IInv
  <2>2. LinksFinal' /\ ReceiversFinal'
    BY <2>1, NextLinksFinal, NextReceiversFinal
  <2>3. QED
    BY <2>1, <2>2 DEF IInv, FinalInv
<1>4. QED
  BY <1>1, <1>2, <1>3, PTL DEF Spec
=============================================================================
