----------------------------- MODULE Rtc_proofs -----------------------------
(***************************************************************************)
(* Remote calls take effect in the order in which a client made them, a    *)
(* failed call stops the server before anything else is started, and what  *)
(* the callers and the serve function are told is what happened, for every *)
(* server, every number of calls and clients and every course of faults.   *)
(***************************************************************************)
EXTENDS Rtc, FiniteSetTheorems, TLAPS

CallType ==
    [Calls -> {"new", "waiting", "cancelled", "ok", "err", "Dropped", "Failed", "NotServed", "Connect"}]
TaskType == [Calls -> {"none", "queued", "started", "used", "failed", "sending", "unsent", "done"}]
ResultType == [Calls -> {None, "ok", "err"}]
ResponseType == [Calls -> {None, "dropped", "rejected", "ok", "err"}]
ErrorType == {"CallFailed", "ResponseSend"}
FwType ==
    [pc : {"none", "new", "pending", "reserve", "recv", "send", "ended"}, req : Calls \cup {None}]
SvType ==
    [pc : {"select", "received", "admitted", "inline", "drain", "returned"},
     req : Calls \cup {None},
     res : {None, "Ok", "CallFailed", "ResponseSend", "Monitor"}]
MonitorType == [failures : Nat, recent : Nat]

TypeOK ==
    /\ setup \in Setups
    /\ call \in CallType
    /\ link \in BOOLEAN /\ provider \in BOOLEAN
    /\ wire \in Seq(Made) /\ queue \in Seq(Made)
    /\ begun \in Seq(Made) /\ effects \in Seq(Calls)
    /\ errors \in Seq(ErrorType)
    /\ fw \in FwType /\ fw.req \in Made \cup {None} /\ (fw.pc = "send" <=> fw.req # None)
    /\ ~setup.pipelined => fw.pc = "none"
    /\ sv \in SvType /\ sv.req \in Made \cup {None}
    /\ task \in TaskType
    /\ result \in ResultType
    /\ response \in ResponseType
    /\ monitor \in MonitorType

\* The serve function holds a request and has a result only where it should.
HoldersOK ==
    /\ sv.pc \in {"select", "drain", "returned"} => sv.req = None
    /\ sv.pc = "inline" => sv.req # None
    /\ Serving => sv.res = None

----------------------------------------------------------------------------
(* The way of a request: from the clients to the method that serves it *)

\* Two calls of one client are in the order in which they were made.
Before(by, c, d) == by[c] = by[d] => c < d
InOrder(by, s) == \A i, j \in 1..Len(s) : i < j => Before(by, s[i], s[j])
Precede(by, cs, ds) == \A c \in cs, d \in ds : Before(by, c, d)

\* The request that serve has received and not yet dispatched.
Held == IF sv.pc \in {"received", "admitted"} THEN {sv.req} \ {None} ELSE {}
\* The request that the forwarding task has received and not yet sent.
InForward == {fw.req} \ {None}

\* Requests that have not been dispatched.
Requests == Held \cup ToSet(queue) \cup InForward \cup ToSet(wire)

\* Requests stay in order, within and between the places where they wait, and no place
\* holds a request that another one holds.
RequestsInOrder ==
    /\ InOrder(setup.by, begun) /\ InOrder(setup.by, queue) /\ InOrder(setup.by, wire)
    /\ Precede(setup.by, ToSet(begun), Requests)
    /\ Precede(setup.by, Held, ToSet(queue) \cup InForward \cup ToSet(wire))
    /\ Precede(setup.by, ToSet(queue), InForward \cup ToSet(wire))
    /\ Precede(setup.by, InForward, ToSet(wire))

\* The caller has been told that its call was not accepted.
ToldRefused(c) == call[c] \in {"NotServed", "Connect"}

\* Requests are those of calls that were made and accepted, in order; the caller learns
\* that one was rejected while its error still waits for serve.
RequestsMade ==
    /\ \A c \in ToSet(begun) \cup Requests :
         call[c] # "new" /\ (ToldRefused(c) => c \in setup.garbled)
    /\ \A c, d \in Made :
         c < d /\ setup.by[c] = setup.by[d] /\ call[c] = "new" => call[d] = "new"

----------------------------------------------------------------------------
(* Processing of the calls that have been dispatched *)

\* Where a call is processed inline, serve waits for it.
TasksFollowServe ==
    /\ \A c \in Calls : task[c] # "none" <=> c \in ToSet(begun)
    /\ \A c \in Calls : task[c] = "queued" => setup.server = "RFn"
    /\ \A c \in ToSet(begun) : setup.kind[c] \in Served /\ c \notin setup.garbled
    /\ sv.pc = "admitted" => sv.req \notin setup.garbled
    /\ \A c \in ToSet(begun) :
         Inline(c) /\ task[c] \in {"queued", "started", "used", "failed"} =>
           sv.pc = "inline" /\ sv.req = c
    /\ sv.pc = "inline" => begun # <<>> /\ begun[Len(begun)] = sv.req

\* Results come from methods that have used the target.
ResultsFollowEffects ==
    /\ \A c \in ToSet(effects) : task[c] \in {"used", "failed", "sending", "unsent", "done"}
    /\ \A c \in Calls :
         /\ task[c] = "used" => c \in ToSet(effects)
         /\ result[c] # None =>
              c \in ToSet(effects) /\ task[c] \in {"failed", "sending", "unsent", "done"}
         /\ task[c] \in {"failed", "sending", "unsent"} => result[c] # None

\* A call that has not used the target yet is only overtaken by one like it.
OvertakenInTasks ==
    \A c, d \in ToSet(begun) :
      task[c] \in {"queued", "started"} /\ setup.by[c] = setup.by[d] /\ c < d =>
        ~Inline(c) /\ setup.kind[c] = "Ref" /\ setup.kind[d] = "Ref"

\* A call that has failed inline and stops the server keeps serve from going on.
FailureBlocks ==
    \A c \in ToSet(begun) :
      result[c] = "err" /\ c \in setup.stop /\ Inline(c) =>
        /\ begun[Len(begun)] = c
        /\ \/ sv.pc = "inline" /\ sv.req = c /\ task[c] = "failed"
           \/ sv.pc = "select" /\ errors # <<>>
           \/ sv.pc \in {"drain", "returned"}

\* Why a call that was made is never answered by its method.
LossHasCause(c) ==
    \/ setup.kind[c] \notin Served \/ c \in setup.large \/ ~link
    \/ c \notin ToSet(begun) \cup Requests /\ (~Serving \/ ~Accepting)

\* Why the connection for a response is rejected.
RejectionHasCause(c) ==
    \/ c \in setup.garbled
    \/ c \notin ToSet(begun) \cup Requests /\ ~Accepting

\* Responses come from results, and nothing is dropped or rejected without a cause.
ResponsesHaveCause ==
    \A c \in Calls :
      /\ call[c] = "new" => response[c] = None
      /\ c \in Requests => response[c] \in {None, "rejected"}
      /\ response[c] \in {"ok", "err"} => response[c] = result[c] /\ task[c] = "done"
      /\ response[c] = "dropped" => LossHasCause(c) \/ call[c] = "cancelled"
      /\ response[c] = "rejected" => RejectionHasCause(c)
      /\ task[c] \in {"queued", "started", "used", "failed", "sending"} => response[c] = None

\* Callers are told what the responses say.
CallersTold ==
    \A c \in Made :
      /\ call[c] \in {"ok", "err"} => response[c] = call[c]
      /\ ToldRefused(c) => ~Accepting \/ c \in setup.garbled
      /\ call[c] = "Failed" => ~link
      /\ call[c] = "Dropped" => LossHasCause(c)
      /\ task[c] = "done" /\ result[c] = None =>
           Cancellable(c) /\ (call[c] = "cancelled" \/ ~link)

----------------------------------------------------------------------------
(* What serve returns *)

\* Serve learns of every failure that stops it and of every response that was not
\* sent, unless it has returned with another error.
Noticed == errors # <<>> \/ (sv.pc = "returned" /\ sv.res # "Ok")

FailuresNoticed ==
    ~IsFunction => \A c \in ToSet(begun) :
      /\ result[c] = "err" /\ c \in setup.stop => task[c] = "failed" \/ Noticed
      /\ response[c] = "dropped" =>
           call[c] = "cancelled" \/ ~link \/ task[c] = "unsent" \/ Noticed

\* Errors have their cause.
CauseOf(e) ==
    /\ e = "CallFailed" => \E c \in setup.stop : c \in Calls /\ result[c] = "err"
    /\ e = "ResponseSend" => \E c \in setup.large : c \in Calls /\ result[c] # None

ErrorsHaveCause ==
    /\ \A c \in Calls :
         /\ task[c] = "failed" => result[c] = "err" /\ c \in setup.stop
         /\ task[c] = "unsent" => c \in setup.large
    /\ \A e \in ToSet(errors) : CauseOf(e)
    /\ CauseOf(sv.res)

\* Requests that could not be decoded have been received.
Undecoded == {c \in Made \cap setup.garbled : call[c] # "new" /\ c \notin Requests}

FailuresCounted ==
    /\ monitor.failures <= Cardinality(Undecoded)
    /\ sv.res = "Monitor" => Cardinality(Undecoded) > setup.tolerate

\* Serve only returns Ok when nothing is left to do and no error is left to report.
OkMeansIdle ==
    /\ ~IsFunction => provider
    /\ sv.res = "Ok" /\ ~IsFunction => Active = {} /\ errors = <<>>

----------------------------------------------------------------------------
(* Sequences of requests *)

\* What Append and Tail do to the elements of a sequence (queues of the request channel).
LEMMA ToSetFacts ==
    ASSUME NEW S, NEW s \in Seq(S)
    PROVE  /\ ToSet(s) \subseteq S
           /\ \A i \in 1..Len(s) : s[i] \in ToSet(s)
           /\ \A e \in ToSet(s) : \E i \in 1..Len(s) : s[i] = e
           /\ s = <<>> <=> ToSet(s) = {}
<1>1. DOMAIN s = 1..Len(s) /\ Len(s) \in Nat /\ \A i \in 1..Len(s) : s[i] \in S
  OBVIOUS
<1>2. ToSet(s) = {s[i] : i \in 1..Len(s)}
  BY <1>1 DEF ToSet
<1>3. \A i \in 1..Len(s) : s[i] \in ToSet(s)
  BY <1>2
<1>4. s # <<>> => 1 \in 1..Len(s)
  OBVIOUS
<1>5. s = <<>> => 1..Len(s) = {}
  OBVIOUS
<1> QED  BY <1>1, <1>2, <1>3, <1>4, <1>5

LEMMA AppendFacts ==
    ASSUME NEW S, NEW s \in Seq(S), NEW e \in S
    PROVE  Append(s, e) \in Seq(S) /\ ToSet(Append(s, e)) = ToSet(s) \cup {e}
<1> DEFINE t == Append(s, e)
<1>1. t \in Seq(S) /\ Len(t) = Len(s) + 1 /\ t[Len(s) + 1] = e /\ Len(s) \in Nat
  OBVIOUS
<1>2. \A i \in 1..Len(s) : t[i] = s[i]
  OBVIOUS
<1>3. /\ \A i \in 1..Len(t) : t[i] \in ToSet(t)
      /\ \A d \in ToSet(t) : \E i \in 1..Len(t) : t[i] = d
  BY <1>1, ToSetFacts
<1> HIDE DEF t
<1>4. ASSUME NEW d \in ToSet(t) PROVE d \in ToSet(s) \cup {e}
  <2>1. PICK i \in 1..Len(t) : t[i] = d
    BY <1>3
  <2> QED  BY <2>1, <1>1, <1>2, ToSetFacts
<1>5. ASSUME NEW d \in ToSet(s) PROVE d \in ToSet(t)
  <2>1. PICK i \in 1..Len(s) : s[i] = d
    BY ToSetFacts
  <2> QED  BY <2>1, <1>1, <1>2, <1>3
<1>6. e \in ToSet(t)
  BY <1>1, <1>3
<1> QED  BY <1>1, <1>4, <1>5, <1>6 DEF t

LEMMA TailFacts ==
    ASSUME NEW S, NEW s \in Seq(S), s # <<>>
    PROVE  /\ Head(s) \in S /\ Tail(s) \in Seq(S)
           /\ ToSet(s) = {Head(s)} \cup ToSet(Tail(s))
<1>1. Head(s) \in S /\ Tail(s) \in Seq(S)
  OBVIOUS
<1>2. ASSUME NEW e \in ToSet(s) PROVE e \in {Head(s)} \cup ToSet(Tail(s))
  <2>1. PICK i \in 1..Len(s) : s[i] = e
    BY <1>2 DEF ToSet
  <2>2. CASE i = 1
    BY <2>1, <2>2
  <2>3. CASE i # 1
    <3>1. i - 1 \in 1..Len(Tail(s)) /\ Tail(s)[i - 1] = e
      BY <2>1, <2>3
    <3> QED  BY <3>1, <1>1, ToSetFacts
  <2> QED  BY <2>2, <2>3
<1>3. ASSUME NEW e \in {Head(s)} \cup ToSet(Tail(s)) PROVE e \in ToSet(s)
  <2>1. CASE e = Head(s)
    BY <2>1 DEF ToSet
  <2>2. CASE e \in ToSet(Tail(s))
    <3>1. PICK i \in 1..Len(Tail(s)) : Tail(s)[i] = e
      BY <1>1, <2>2 DEF ToSet
    <3>2. i + 1 \in 1..Len(s) /\ s[i + 1] = e
      BY <3>1
    <3> QED  BY <3>2 DEF ToSet
  <2> QED  BY <1>3, <2>1, <2>2
<1> QED  BY <1>1, <1>2, <1>3

LEMMA EmptyFacts == ASSUME NEW S PROVE <<>> \in Seq(S) /\ ToSet(<<>>) = {}
  BY DEF ToSet

\* A request that comes after all others keeps a queue in order, and its head comes
\* before the others.
LEMMA InOrderAppend ==
    ASSUME NEW S, NEW s \in Seq(S), NEW e \in S, NEW by,
           InOrder(by, s), Precede(by, ToSet(s), {e})
    PROVE  InOrder(by, Append(s, e))
<1> DEFINE t == Append(s, e)
<1>1. t \in Seq(S) /\ Len(t) = Len(s) + 1 /\ t[Len(s) + 1] = e
  OBVIOUS
<1>2. \A i \in 1..Len(s) : t[i] = s[i] /\ s[i] \in ToSet(s)
  BY ToSetFacts
<1> HIDE DEF t
<1>3. InOrder(by, t)
  BY <1>1, <1>2 DEF InOrder, Precede
<1> QED  BY <1>3 DEF t

LEMMA InOrderTail ==
    ASSUME NEW S, NEW s \in Seq(S), s # <<>>, NEW by, InOrder(by, s)
    PROVE  InOrder(by, Tail(s)) /\ Precede(by, {Head(s)}, ToSet(Tail(s)))
<1> DEFINE t == Tail(s)
<1>1. t \in Seq(S) /\ Len(t) = Len(s) - 1 /\ Head(s) = s[1] /\ Len(s) \in Nat /\ Len(s) >= 1
  OBVIOUS
<1>2. \A i \in 1..Len(t) : t[i] = s[i + 1]
  OBVIOUS
<1>3. \A e \in ToSet(t) : \E i \in 1..Len(t) : t[i] = e
  BY <1>1, ToSetFacts
<1> HIDE DEF t
<1>4. InOrder(by, t)
  BY SMTT(40), <1>1, <1>2 DEF InOrder
<1>5. ASSUME NEW e \in ToSet(t) PROVE Before(by, Head(s), e)
  <2>1. PICK i \in 1..Len(t) : t[i] = e
    BY <1>3
  <2> QED  BY <2>1, <1>1, <1>2 DEF InOrder
<1> QED  BY <1>4, <1>5 DEF Precede, t

LEMMA EmptyInOrder == ASSUME NEW by PROVE InOrder(by, <<>>)
  BY DEF InOrder

----------------------------------------------------------------------------
(* Types *)

\* What the assumption says of the setup in use.
LEMMA SetupFacts ==
    ASSUME setup \in Setups
    PROVE  /\ Made \subseteq Calls /\ Calls \subseteq Nat /\ None \notin Calls
           /\ None \notin {"ok", "err", "dropped", "rejected"}
           /\ None \notin {"Ok", "CallFailed", "ResponseSend", "Monitor"}
           /\ \A c \in Made : setup.kind[c] \in {"Value", "Ref", "RefMut"}
           /\ setup.tolerate \in Nat
           /\ "provider" \in setup.faults => IsFunction
           /\ setup.server \in {"Server", "ServerRef", "ServerRefMut", "ServerShared",
                                "ServerSharedMut", "RFn", "RFnMut", "RFnOnce"}
  BY RtcAssumption DEF Made, IsFunction


\* Dropping responders keeps the responses there are.
LEMMA DroppedFacts ==
    ASSUME response \in ResponseType, NEW cs
    PROVE  /\ Dropped(cs) \in ResponseType
           /\ \A c \in Calls : Dropped(cs)[c] =
                IF c \in cs /\ response[c] = None THEN "dropped" ELSE response[c]
  BY DEF Dropped, ResponseType

\* So does rejecting them.
LEMMA RejectedFacts ==
    ASSUME response \in ResponseType, NEW cs
    PROVE  /\ Rejected(cs) \in ResponseType
           /\ \A c \in Calls : Rejected(cs)[c] =
                IF c \in cs /\ response[c] = None THEN "rejected" ELSE response[c]
  BY DEF Rejected, ResponseType

\* Of the requests that nobody receives any more, each is rejected or dropped.
LEMMA DiscardFacts ==
    ASSUME TypeOK, Discard
    PROVE  /\ response' \in ResponseType
           /\ \A c \in Calls :
                \/ response'[c] = response[c]
                \/ /\ c \in ToSet(wire) /\ response[c] = None
                   /\ response'[c] \in {"dropped", "rejected"}
<1>1. PICK n \in 0..Len(wire) :
        response' = [c \in Calls |-> IF c \in ToSet(SubSeq(wire, 1, n))
                                     THEN Rejected(ToSet(SubSeq(wire, 1, n)))[c]
                                     ELSE Dropped(ToSet(wire))[c]]
  BY DEF Discard
<1> DEFINE sent == SubSeq(wire, 1, n)
<1>2. wire \in Seq(Made) /\ response \in ResponseType
  BY DEF TypeOK
<1>3. /\ sent \in Seq(Made) /\ Len(sent) = n
      /\ \A i \in 1..n : sent[i] = wire[i]
  BY <1>1, <1>2
<1>4. ToSet(sent) \subseteq ToSet(wire)
  <2> HIDE DEF sent
  <2> SUFFICES ASSUME NEW e \in ToSet(sent) PROVE e \in ToSet(wire)
      OBVIOUS
  <2>1. PICK i \in 1..n : wire[i] = e
    BY <1>3, ToSetFacts
  <2>2. i \in 1..Len(wire)
    BY <1>1, <1>2
  <2> QED  BY <1>2, <2>1, <2>2, ToSetFacts
<1> HIDE DEF sent
<1>5. response' = [c \in Calls |-> IF c \in ToSet(sent) THEN Rejected(ToSet(sent))[c]
                                                        ELSE Dropped(ToSet(wire))[c]]
  BY <1>1 DEF sent
<1>6. /\ Rejected(ToSet(sent)) \in ResponseType /\ Dropped(ToSet(wire)) \in ResponseType
      /\ \A c \in Calls :
           /\ Rejected(ToSet(sent))[c] =
                IF c \in ToSet(sent) /\ response[c] = None THEN "rejected" ELSE response[c]
           /\ Dropped(ToSet(wire))[c] =
                IF c \in ToSet(wire) /\ response[c] = None THEN "dropped" ELSE response[c]
  BY <1>2, DroppedFacts, RejectedFacts
<1>7. response' \in ResponseType
  BY <1>5, <1>6 DEF ResponseType
<1> QED  BY <1>4, <1>5, <1>6, <1>7

\* What a Call that is ready tells the caller.
LEMMA OutcomesFacts ==
    ASSUME TypeOK, NEW c \in Calls, NEW o \in Outcomes(c)
    PROVE  \/ o = "Failed" /\ ~link
           \/ o = "Dropped" /\ response[c] = "dropped"
           \/ o \in {"NotServed", "Connect"} /\ response[c] = "rejected"
           \/ o \in {"ok", "err"} /\ response[c] = o
<1>1. /\ response[c] \in {None, "dropped", "rejected", "ok", "err"}
      /\ None \notin {"ok", "err", "dropped", "rejected"}
  BY SetupFacts DEF TypeOK, ResponseType
<1>2. CASE o \in {e \in {"Failed"} : ~link}
  BY <1>2
<1>3. CASE o \notin {e \in {"Failed"} : ~link}
  <2>1. CASE response[c] = None
    BY <1>1, <1>3, <2>1 DEF Outcomes
  <2>2. CASE response[c] = "dropped"
    BY <1>1, <1>3, <2>2 DEF Outcomes
  <2>3. CASE response[c] = "rejected"
    BY <1>1, <1>3, <2>3 DEF Outcomes
  <2>4. CASE response[c] \in {"ok", "err"}
    BY <1>1, <1>3, <2>4 DEF Outcomes
  <2> QED  BY <1>1, <2>1, <2>2, <2>3, <2>4
<1> QED  BY <1>2, <1>3

\* What the steps of serve do to its state.
LEMMA ReceiveFacts ==
    ASSUME TypeOK, ReceiveRequest
    PROVE  /\ sv' \in SvType /\ sv'.pc = "received" /\ sv'.res = sv.res
           /\ \/ queue # <<>> /\ sv'.req = Head(queue) /\ queue' = Tail(queue)
              \/ queue = <<>> /\ sv'.req = None /\ queue' = queue
<1> USE DEF TypeOK
<1>1. CASE queue # <<>>
  <2>1. Head(queue) \in Calls
    BY <1>1, SetupFacts
  <2>2. sv' = [sv EXCEPT !.pc = "received", !.req = Head(queue)] /\ queue' = Tail(queue)
    BY <1>1 DEF ReceiveRequest
  <2> QED  BY <1>1, <2>1, <2>2 DEF SvType
<1>2. CASE queue = <<>>
  <2>1. sv' = [sv EXCEPT !.pc = "received", !.req = None] /\ queue' = queue
    BY <1>2 DEF ReceiveRequest
  <2> QED  BY <1>2, <2>1 DEF SvType
<1> QED  BY <1>1, <1>2

LEMMA PreDispatchFacts ==
    ASSUME TypeOK, PreDispatch
    PROVE  sv' \in SvType /\ sv'.pc = "admitted" /\ sv'.req = sv.req /\ sv'.res = sv.res
  BY DEF TypeOK, PreDispatch, SvType

LEMMA DispatchInlineFacts ==
    ASSUME TypeOK, NEW c \in Calls, DispatchInline(c)
    PROVE  sv' \in SvType /\ sv'.pc = "inline" /\ sv'.req = sv.req /\ sv'.res = sv.res
  BY DEF TypeOK, DispatchInline, SvType

LEMMA DispatchSpawnedFacts ==
    ASSUME TypeOK, NEW c \in Calls, DispatchSpawned(c)
    PROVE  sv' \in SvType /\ sv'.pc = "select" /\ sv'.req = None /\ sv'.res = sv.res
  BY DEF TypeOK, DispatchSpawned, SvType

LEMMA IgnoreFacts ==
    ASSUME TypeOK, NEW c \in Calls, IgnoreRequest(c)
    PROVE  sv' \in SvType /\ sv'.pc = "select" /\ sv'.req = None /\ sv'.res = sv.res
  BY DEF TypeOK, IgnoreRequest, SvType

\* Returning drops the request receiver with the requests that are left.
LEMMA ReturnFacts ==
    ASSUME response \in ResponseType,
           NEW res \in {"Ok", "CallFailed", "ResponseSend", "Monitor"}, Return(res)
    PROVE  /\ sv' \in SvType
           /\ sv'.pc = "returned" /\ sv'.req = None /\ sv'.res = res
           /\ queue' = <<>>
           /\ response' \in ResponseType
           /\ \A c \in Calls : response'[c] =
                IF c \in ToSet(queue) \cup ({sv.req} \ {None}) /\ response[c] = None
                THEN "dropped" ELSE response[c]
<1>1. sv' \in SvType /\ sv'.pc = "returned" /\ sv'.req = None /\ sv'.res = res
  BY DEF Return, SvType
<1> QED  BY <1>1, DroppedFacts DEF Return

LEMMA ServeFailsFacts ==
    ASSUME TypeOK, ServeFails
    PROVE  Head(errors) \in ErrorType /\ Return(Head(errors)) /\ errors' \in Seq(ErrorType)
  BY DEF TypeOK, ServeFails

LEMMA EndOfRequestsFacts ==
    ASSUME TypeOK, EndOfRequests
    PROVE  \/ IsFunction /\ Return("Ok")
           \/ /\ ~IsFunction /\ queue' = queue /\ response' = response
              /\ sv' \in SvType /\ sv'.pc = "drain" /\ sv'.req = None /\ sv'.res = sv.res
  BY DEF TypeOK, EndOfRequests, SvType

LEMMA DrainFacts ==
    ASSUME TypeOK, Drain
    PROVE  \/ /\ errors # <<>> /\ Head(errors) \in ErrorType /\ Return(Head(errors))
              /\ errors' = Tail(errors) /\ errors' \in Seq(ErrorType)
           \/ errors = <<>> /\ Active = {} /\ Return("Ok") /\ errors' = errors
<1>1. CASE errors # <<>>
  <2>1. Head(errors) \in ErrorType /\ Tail(errors) \in Seq(ErrorType)
    BY <1>1 DEF TypeOK
  <2> QED  BY <1>1, <2>1 DEF Drain
<1>2. CASE errors = <<>>
  BY <1>2 DEF Drain
<1> QED  BY <1>1, <1>2

\* A request that cannot be decoded is skipped, or serve returns.
LEMMA UndecodableFacts ==
    ASSUME TypeOK, NEW c \in Calls, Undecodable(c)
    PROVE  /\ sv.pc = "received" /\ sv.req = c /\ c \in setup.garbled
           /\ monitor' \in MonitorType /\ monitor'.failures \in {monitor.failures + 1, 1}
           /\ \/ ~IsFunction /\ monitor'.failures > setup.tolerate /\ Return("Monitor")
              \/ /\ sv' \in SvType /\ sv'.pc = "select" /\ sv'.req = None /\ sv'.res = sv.res
                 /\ queue' = queue /\ response' = response
<1>1. monitor' \in MonitorType /\ monitor'.failures \in {monitor.failures + 1, 1}
  <2>1. PICK n \in {monitor.failures + 1, 1} : monitor' = [monitor EXCEPT !.failures = n]
    BY DEF Undecodable
  <2>2. monitor \in MonitorType /\ n \in Nat
    BY <2>1 DEF TypeOK, MonitorType
  <2> QED  BY <2>1, <2>2 DEF MonitorType
<1>2. CASE ~IsFunction /\ monitor'.failures > setup.tolerate
  BY <1>1, <1>2 DEF Undecodable
<1>3. CASE ~(~IsFunction /\ monitor'.failures > setup.tolerate)
  <2>1. sv' = [sv EXCEPT !.pc = "select", !.req = None] /\ queue' = queue /\ response' = response
    BY <1>3 DEF Undecodable
  <2> QED  BY <1>1, <2>1 DEF Undecodable, TypeOK, SvType
<1> QED  BY <1>2, <1>3

\* The request receiver skips one, or forwarding ends.
LEMMA ForwardUndecodableFacts ==
    ASSUME TypeOK, ForwardUndecodable
    PROVE  /\ wire # <<>> /\ Head(wire) \in Made \cap setup.garbled
           /\ wire' = Tail(wire) /\ wire' \in Seq(Made)
           /\ ToSet(wire) = {Head(wire)} \cup ToSet(wire')
           /\ monitor' \in MonitorType /\ monitor'.failures \in {monitor.failures + 1, 1}
           /\ fw' \in FwType /\ fw.pc = "recv" /\ fw'.pc \in {"recv", "ended"} /\ fw'.req = fw.req
           /\ response' = Rejected({Head(wire)} \cap setup.garbled)
<1>1. monitor' \in MonitorType /\ monitor'.failures \in {monitor.failures + 1, 1}
  <2>1. PICK n \in {monitor.failures + 1, 1} : monitor' = [monitor EXCEPT !.failures = n]
    BY DEF ForwardUndecodable
  <2>2. monitor \in MonitorType /\ n \in Nat
    BY <2>1 DEF TypeOK, MonitorType
  <2> QED  BY <2>1, <2>2 DEF MonitorType
<1>2. fw' \in FwType /\ fw.pc = "recv" /\ fw'.pc \in {"recv", "ended"} /\ fw'.req = fw.req
  <2>1. fw \in FwType /\ fw.pc = "recv" /\ fw' \in {[fw EXCEPT !.pc = "ended"], fw}
    BY DEF ForwardUndecodable, TypeOK
  <2> QED  BY <2>1 DEF FwType
<1>3. /\ wire # <<>> /\ wire \in Seq(Made) /\ wire' = Tail(wire) /\ Head(wire) \in setup.garbled
      /\ response' = Rejected({Head(wire)} \cap setup.garbled)
  BY DEF ForwardUndecodable, RejectedIfGarbled, TypeOK
<1> QED  BY <1>1, <1>2, <1>3, TailFacts

LEMMA MonitorFacts ==
    ASSUME TypeOK, PreDispatch \/ WindowElapses
    PROVE  monitor' \in MonitorType /\ monitor'.failures = monitor.failures
  BY DEF TypeOK, PreDispatch, WindowElapses, MonitorType

\* What an inline call that has been processed does to serve.
LEMMA ProcessedFacts ==
    ASSUME sv \in SvType, NEW c, Processed(c)
    PROVE  /\ sv' \in SvType /\ sv'.req \in {sv.req, None}
           /\ sv.pc = "inline" /\ sv.req = c =>
                /\ sv'.pc \in {"select", "drain", "returned"} /\ sv'.req = None
                /\ sv'.pc = "returned" => IsFunction
                /\ sv'.res = sv.res
           /\ ~(sv.pc = "inline" /\ sv.req = c) => sv' = sv
<1>1. CASE sv.pc = "inline" /\ sv.req = c
  <2>1. PICK p \in {"select", "drain", "returned"} :
          sv' = [sv EXCEPT !.pc = p, !.req = None] /\ (p = "returned" => IsFunction)
    BY <1>1 DEF Processed
  <2> QED  BY <1>1, <2>1 DEF SvType
<1>2. CASE ~(sv.pc = "inline" /\ sv.req = c)
  BY <1>2 DEF Processed
<1> QED  BY <1>1, <1>2

\* Errors that are reported.
LEMMA ReportFacts ==
    ASSUME errors \in Seq(ErrorType), NEW e \in ErrorType, Report(e)
    PROVE  errors' \in Seq(ErrorType)
  BY DEF Report

\* Each action keeps the types.
LEMMA TypesPreserved == TypeOK /\ [Next]_vars => TypeOK'
<1> SUFFICES ASSUME TypeOK, [Next]_vars PROVE TypeOK'
    OBVIOUS
<1>1. ASSUME NEW c \in Made, StartCall(c) PROVE TypeOK'
  <2>1. call' \in CallType
    BY <1>1, SetupFacts DEF TypeOK, StartCall, CallType
  <2>2. CASE link
    <3>1. wire' = Append(wire, c) /\ response' = response
      BY <1>1, <2>2 DEF StartCall
    <3>2. wire' \in Seq(Made)
      BY <3>1, AppendFacts DEF TypeOK
    <3> QED
      BY <1>1, <2>1, <3>1, <3>2
         DEF TypeOK, StartCall, Made, clientVars, forwardVars, serverVars, taskVars
  <2>3. CASE ~link
    <3>1. response' = Dropped({c}) /\ wire' = wire
      BY <1>1, <2>3 DEF StartCall
    <3>2. response' \in ResponseType
      BY <3>1, DroppedFacts DEF TypeOK
    <3> QED
      BY <1>1, <2>1, <3>1, <3>2
         DEF TypeOK, StartCall, Made, clientVars, forwardVars, serverVars, taskVars
  <2> QED  BY <2>2, <2>3
<1>2. ASSUME NEW c \in Made, CallRefused(c) PROVE TypeOK'
  <2>1. call' \in CallType
    BY <1>2, SetupFacts DEF TypeOK, CallRefused, CallType, SendErrors
  <2> QED
    BY <1>2, <2>1 DEF TypeOK, CallRefused, Made, clientVars, forwardVars, serverVars, taskVars
<1>3. ASSUME NEW c \in Made, CallReturns(c) PROVE TypeOK'
  <2>1. call' \in CallType
    <3>1. c \in Calls /\ \E o \in Outcomes(c) : call' = [call EXCEPT ![c] = o]
      BY <1>3, SetupFacts DEF TypeOK, CallReturns
    <3>2. \A o \in Outcomes(c) : o \in {"Failed", "Dropped", "NotServed", "Connect", "ok", "err"}
      BY <3>1, OutcomesFacts
    <3> QED  BY <3>1, <3>2 DEF TypeOK, CallType
  <2> QED
    BY <1>3, <2>1 DEF TypeOK, CallReturns, Made, clientVars, forwardVars, serverVars, taskVars
<1>4. ASSUME NEW c \in Made, CancelCall(c) PROVE TypeOK'
  <2>1. call' \in CallType
    BY <1>4, SetupFacts DEF TypeOK, CancelCall, CallType
  <2> QED
    BY <1>4, <2>1 DEF TypeOK, CancelCall, Made, clientVars, forwardVars, serverVars, taskVars
<1>5. ASSUME NEW k \in Clients, DropClient(k) PROVE TypeOK'
  BY <1>5 DEF TypeOK, Made, clientVars, forwardVars, serverVars, taskVars, DropClient
<1>6. ASSUME Lose PROVE TypeOK'
  <2>1. wire' \in Seq(Made)
    BY <1>6, SetupFacts DEF TypeOK, Lose
  <2> QED
    BY <1>6, <2>1 DEF TypeOK, Lose, Made, clientVars, forwardVars, serverVars, taskVars
<1>7. ASSUME WindowElapses PROVE TypeOK'
  <2>1. monitor' \in MonitorType
    BY <1>7, SetupFacts, MonitorFacts DEF TypeOK, WindowElapses, MonitorType
  <2> QED
    BY <1>7, <2>1 DEF TypeOK, WindowElapses, Made, clientVars, forwardVars, serverVars, taskVars
<1>8. ASSUME DropProvider PROVE TypeOK'
  BY <1>8 DEF TypeOK, Made, clientVars, forwardVars, serverVars, taskVars, DropProvider
<1>9. ASSUME Transfer PROVE TypeOK'
  <2>1. wire' \in Seq(Made)
    BY <1>9, SetupFacts DEF TypeOK, Transfer
  <2>2. queue' \in Seq(Made)
    BY <1>9, SetupFacts DEF TypeOK, Transfer
  <2>3. response' \in ResponseType
    BY <1>9, RejectedFacts DEF TypeOK, Transfer, RejectedIfGarbled
  <2> QED
    BY <1>9, <2>1, <2>2, <2>3
       DEF TypeOK, Transfer, Made, clientVars, forwardVars, serverVars, taskVars
<1>10. ASSUME Discard PROVE TypeOK'
  <2>1. wire' \in Seq(Made)
    BY <1>10, SetupFacts DEF TypeOK, Discard
  <2>2. response' \in ResponseType
    BY <1>10, DiscardFacts
  <2> QED
    BY <1>10, <2>1, <2>2
       DEF TypeOK, Discard, Made, clientVars, forwardVars, serverVars, taskVars
<1>11. ASSUME HandOver PROVE TypeOK'
  <2>1. /\ fw' \in FwType /\ fw'.req \in Made \cup {None} /\ (fw'.pc = "send" <=> fw'.req # None)
        /\ fw'.pc # "none" /\ fw.pc # "none"
    BY <1>11, SetupFacts DEF TypeOK, HandOver, FwType
  <2> QED
    BY <1>11, <2>1 DEF TypeOK, HandOver, Made, clientVars, forwardVars, serverVars, taskVars
<1>12. ASSUME Attach PROVE TypeOK'
  <2>1. /\ fw' \in FwType /\ fw'.req \in Made \cup {None} /\ (fw'.pc = "send" <=> fw'.req # None)
        /\ fw'.pc # "none" /\ fw.pc # "none"
    BY <1>12, SetupFacts DEF TypeOK, Attach, FwType
  <2> QED
    BY <1>12, <2>1 DEF TypeOK, Attach, Made, clientVars, forwardVars, serverVars, taskVars
<1>13. ASSUME Reserve PROVE TypeOK'
  <2>1. /\ fw' \in FwType /\ fw'.req \in Made \cup {None} /\ (fw'.pc = "send" <=> fw'.req # None)
        /\ fw'.pc # "none" /\ fw.pc # "none"
    BY <1>13, SetupFacts DEF TypeOK, Reserve, FwType
  <2> QED
    BY <1>13, <2>1 DEF TypeOK, Reserve, Made, clientVars, forwardVars, serverVars, taskVars
<1>14. ASSUME ForwardRecv PROVE TypeOK'
  <2>1. /\ fw' \in FwType /\ fw'.req \in Made \cup {None} /\ (fw'.pc = "send" <=> fw'.req # None)
        /\ fw'.pc # "none" /\ fw.pc # "none"
    BY <1>14, SetupFacts DEF TypeOK, ForwardRecv, FwType
  <2>2. wire' \in Seq(Made)
    BY <1>14, SetupFacts DEF TypeOK, ForwardRecv
  <2> QED
    BY <1>14, <2>1, <2>2
       DEF TypeOK, ForwardRecv, Made, clientVars, forwardVars, serverVars, taskVars
<1>15. ASSUME ForwardClosed PROVE TypeOK'
  <2>1. /\ fw' \in FwType /\ fw'.req \in Made \cup {None} /\ (fw'.pc = "send" <=> fw'.req # None)
        /\ fw'.pc # "none" /\ fw.pc # "none"
    BY <1>15, SetupFacts DEF TypeOK, ForwardClosed, FwType
  <2> QED
    BY <1>15, <2>1
       DEF TypeOK, ForwardClosed, Made, clientVars, forwardVars, serverVars, taskVars
<1>16. ASSUME ForwardDone PROVE TypeOK'
  <2>1. /\ fw' \in FwType /\ fw'.req \in Made \cup {None} /\ (fw'.pc = "send" <=> fw'.req # None)
        /\ fw'.pc # "none" /\ fw.pc # "none"
    BY <1>16, SetupFacts DEF TypeOK, ForwardDone, FwType
  <2> QED
    BY <1>16, <2>1 DEF TypeOK, ForwardDone, Made, clientVars, forwardVars, serverVars, taskVars
<1>17. ASSUME ForwardSend PROVE TypeOK'
  <2>1. fw' \in FwType /\ fw'.req = None /\ fw'.pc \notin {"send", "none"} /\ fw.pc = "send"
    BY <1>17 DEF ForwardSend, FwType
  <2>2. fw.req \in Made
    BY <1>17 DEF ForwardSend, TypeOK
  <2>3. CASE Serving
    <3>1. queue' = Append(queue, fw.req) /\ response' = response
      BY <1>17, <2>3 DEF ForwardSend
    <3>2. queue' \in Seq(Made)
      BY <2>2, <3>1, AppendFacts DEF TypeOK
    <3> QED
      BY <1>17, <2>1, <3>1, <3>2
         DEF TypeOK, ForwardSend, Made, clientVars, forwardVars, serverVars, taskVars
  <2>4. CASE ~Serving
    <3>1. response' = Dropped({fw.req}) /\ queue' = queue
      BY <1>17, <2>4 DEF ForwardSend
    <3>2. response' \in ResponseType
      BY <3>1, DroppedFacts DEF TypeOK
    <3> QED
      BY <1>17, <2>1, <3>1, <3>2
         DEF TypeOK, ForwardSend, Made, clientVars, forwardVars, serverVars, taskVars
  <2> QED  BY <2>3, <2>4
<1>18. ASSUME ServeFails PROVE TypeOK'
  <2>1. /\ sv' \in SvType /\ sv'.req \in Made \cup {None}
        /\ queue' \in Seq(Made) /\ response' \in ResponseType
    BY <1>18, SetupFacts, ReturnFacts, EmptyFacts, ServeFailsFacts DEF TypeOK, ErrorType
  <2>2. errors' \in Seq(ErrorType)
    BY <1>18, SetupFacts, ServeFailsFacts DEF TypeOK, ErrorType
  <2> QED
    BY <1>18, <2>1, <2>2
       DEF TypeOK, ServeFails, Made, clientVars, forwardVars, serverVars, taskVars
<1>19. ASSUME Terminate PROVE TypeOK'
  <2>1. /\ sv' \in SvType /\ sv'.req \in Made \cup {None}
        /\ queue' \in Seq(Made) /\ response' \in ResponseType
    BY <1>19, SetupFacts, ReturnFacts, EmptyFacts DEF TypeOK, Terminate, ErrorType
  <2> QED
    BY <1>19, <2>1 DEF TypeOK, Terminate, Made, clientVars, forwardVars, serverVars, taskVars
<1>20. ASSUME ReceiveRequest PROVE TypeOK'
  <2>1. sv' \in SvType /\ sv'.req \in Made \cup {None}
    BY <1>20, SetupFacts, ReceiveFacts, TailFacts DEF TypeOK
  <2>2. queue' \in Seq(Made)
    <3>1. queue' = queue \/ (queue # <<>> /\ queue' = Tail(queue))
      BY <1>20, ReceiveFacts
    <3> QED  BY <3>1, TailFacts DEF TypeOK
  <2>3. /\ setup' = setup /\ call' = call /\ link' = link /\ provider' = provider /\ wire' = wire
        /\ begun' = begun /\ effects' = effects /\ errors' = errors /\ fw' = fw /\ task' = task
        /\ result' = result /\ response' = response /\ monitor' = monitor
    BY <1>20 DEF ReceiveRequest, clientVars, forwardVars, taskVars
  <2> QED  BY <2>1, <2>2, <2>3 DEF TypeOK, Made
<1>21. ASSUME PreDispatch PROVE TypeOK'
  <2>1. sv' \in SvType /\ sv'.req \in Made \cup {None}
    BY <1>21, SetupFacts, PreDispatchFacts DEF TypeOK, PreDispatch
  <2>2. monitor' \in MonitorType
    BY <1>21, SetupFacts, MonitorFacts DEF TypeOK, PreDispatch, MonitorType
  <2> QED
    BY <1>21, <2>1, <2>2
       DEF TypeOK, PreDispatch, Made, Begin, clientVars, forwardVars, serverVars, taskVars
<1>22. ASSUME EndOfRequests PROVE TypeOK'
  <2>1. /\ sv' \in SvType /\ sv'.req \in Made \cup {None}
        /\ queue' \in Seq(Made) /\ response' \in ResponseType
    BY <1>22, SetupFacts, ReturnFacts, EmptyFacts, EndOfRequestsFacts DEF TypeOK, ErrorType
  <2> QED
    BY <1>22, <2>1
       DEF TypeOK, EndOfRequests, Made, clientVars, forwardVars, serverVars, taskVars
<1>23. ASSUME Drain PROVE TypeOK'
  <2>1. /\ sv' \in SvType /\ sv'.req \in Made \cup {None}
        /\ queue' \in Seq(Made) /\ response' \in ResponseType
    BY <1>23, SetupFacts, ReturnFacts, EmptyFacts, DrainFacts DEF TypeOK, ErrorType
  <2>2. errors' \in Seq(ErrorType)
    BY <1>23, SetupFacts, DrainFacts DEF TypeOK, ErrorType
  <2> QED
    BY <1>23, <2>1, <2>2 DEF TypeOK, Drain, Made, clientVars, forwardVars, serverVars, taskVars
<1>24. ASSUME NEW c \in Calls, DispatchInline(c) PROVE TypeOK'
  <2>1. sv' \in SvType /\ sv'.req \in Made \cup {None}
    BY <1>24, SetupFacts, DispatchInlineFacts DEF TypeOK, DispatchInline
  <2>2. task' \in TaskType
    BY <1>24, SetupFacts DEF TypeOK, DispatchInline, TaskType, Begin
  <2>3. begun' \in Seq(Made)
    BY <1>24, SetupFacts DEF TypeOK, DispatchInline, Begin, Dispatchable
  <2> QED
    BY <1>24, <2>1, <2>2, <2>3
       DEF TypeOK, DispatchInline, Made, Begin, clientVars, forwardVars, serverVars, taskVars
<1>25. ASSUME NEW c \in Calls, DispatchSpawned(c) PROVE TypeOK'
  <2>1. sv' \in SvType /\ sv'.req \in Made \cup {None}
    BY <1>25, SetupFacts, DispatchSpawnedFacts DEF TypeOK, DispatchSpawned
  <2>2. task' \in TaskType
    BY <1>25, SetupFacts DEF TypeOK, DispatchSpawned, TaskType, Begin
  <2>3. begun' \in Seq(Made)
    BY <1>25, SetupFacts DEF TypeOK, DispatchSpawned, Begin, Dispatchable
  <2> QED
    BY <1>25, <2>1, <2>2, <2>3
       DEF TypeOK, DispatchSpawned, Made, Begin, clientVars, forwardVars, serverVars, taskVars
<1>26. ASSUME NEW c \in Calls, IgnoreRequest(c) PROVE TypeOK'
  <2>1. sv' \in SvType /\ sv'.req \in Made \cup {None}
    BY <1>26, SetupFacts, IgnoreFacts DEF TypeOK, IgnoreRequest
  <2>2. response' \in ResponseType
    BY <1>26, SetupFacts, DroppedFacts DEF TypeOK, IgnoreRequest, ResponseType
  <2> QED
    BY <1>26, <2>1, <2>2
       DEF TypeOK, IgnoreRequest, Made, clientVars, forwardVars, serverVars, taskVars
<1>27. ASSUME NEW c \in Calls, Undecodable(c) PROVE TypeOK'
  <2>1. monitor' \in MonitorType
    BY <1>27, UndecodableFacts
  <2>2. CASE Return("Monitor")
    <3>1. /\ sv' \in SvType /\ sv'.req = None
          /\ queue' \in Seq(Made) /\ response' \in ResponseType
      BY <2>2, ReturnFacts, EmptyFacts DEF TypeOK
    <3> QED
      BY <1>27, <2>1, <3>1 DEF TypeOK, Undecodable, Made, clientVars, forwardVars, taskVars
  <2>3. CASE sv' \in SvType /\ sv'.req = None /\ queue' = queue /\ response' = response
    BY <1>27, <2>1, <2>3 DEF TypeOK, Undecodable, Made, clientVars, forwardVars, taskVars
  <2> QED  BY <1>27, <2>2, <2>3, UndecodableFacts
<1>28. ASSUME NEW c \in Calls, AcquirePermit(c) PROVE TypeOK'
  <2>1. task' \in TaskType
    BY <1>28, SetupFacts DEF TypeOK, AcquirePermit, TaskType
  <2> QED
    BY <1>28, <2>1
       DEF TypeOK, AcquirePermit, Made, clientVars, forwardVars, serverVars, taskVars
<1>29. ASSUME NEW c \in Calls, UseTarget(c) PROVE TypeOK'
  <2>1. task' \in TaskType
    BY <1>29, SetupFacts DEF TypeOK, UseTarget, TaskType
  <2>2. effects' \in Seq(Calls)
    BY <1>29, SetupFacts, AppendFacts DEF TypeOK, UseTarget
  <2> QED
    BY <1>29, <2>1, <2>2
       DEF TypeOK, UseTarget, Made, clientVars, forwardVars, serverVars, taskVars
<1>30. ASSUME NEW c \in Calls, MethodReturns(c) PROVE TypeOK'
  <2>1. task' \in TaskType
    BY <1>30, SetupFacts DEF TypeOK, MethodReturns, TaskType
  <2>2. result' \in ResultType
    BY <1>30, SetupFacts DEF TypeOK, MethodReturns, ResultType
  <2>3. sv' \in SvType /\ sv'.req \in Made \cup {None}
    BY <1>30, SetupFacts, ProcessedFacts DEF TypeOK, MethodReturns
  <2> QED
    BY <1>30, <2>1, <2>2, <2>3
       DEF TypeOK, MethodReturns, Made, clientVars, forwardVars, serverVars, taskVars
<1>31. ASSUME NEW c \in Calls, ReportFailure(c) PROVE TypeOK'
  <2>1. task' \in TaskType
    BY <1>31, SetupFacts DEF TypeOK, ReportFailure, TaskType
  <2>2. sv' \in SvType /\ sv'.req \in Made \cup {None}
    BY <1>31, SetupFacts, ProcessedFacts DEF TypeOK, ReportFailure
  <2>3. errors' \in Seq(ErrorType)
    BY <1>31, SetupFacts, ReportFacts DEF TypeOK, ReportFailure, ErrorType
  <2> QED
    BY <1>31, <2>1, <2>2, <2>3
       DEF TypeOK, ReportFailure, Made, clientVars, forwardVars, serverVars, taskVars
<1>32. ASSUME NEW c \in Calls, SendResponse(c) PROVE TypeOK'
  <2>1. task' \in TaskType
    BY <1>32 DEF TypeOK, SendResponse, TaskType
  <2>2. CASE c \in setup.large /\ link
    <3>1. response' \in ResponseType
      BY <1>32, <2>2, DroppedFacts DEF TypeOK, SendResponse
    <3> QED
      BY <1>32, <2>1, <3>1 DEF TypeOK, SendResponse, Made, clientVars, forwardVars, serverVars
  <2>3. CASE ~(c \in setup.large /\ link)
    <3>1. response' = [response EXCEPT ![c] = result[c]]
      BY <1>32, <2>3 DEF SendResponse
    <3>2. result[c] \in {None, "ok", "err"}
      BY DEF TypeOK, ResultType
    <3>3. response' \in ResponseType
      BY <3>1, <3>2 DEF TypeOK, ResponseType
    <3> QED
      BY <1>32, <2>1, <3>3 DEF TypeOK, SendResponse, Made, clientVars, forwardVars, serverVars
  <2> QED  BY <2>2, <2>3
<1>33. ASSUME NEW c \in Calls, ReportUnsent(c) PROVE TypeOK'
  <2>1. task' \in TaskType
    BY <1>33, SetupFacts DEF TypeOK, ReportUnsent, TaskType
  <2>2. errors' \in Seq(ErrorType)
    BY <1>33, SetupFacts, ReportFacts DEF TypeOK, ReportUnsent, ErrorType
  <2> QED
    BY <1>33, <2>1, <2>2
       DEF TypeOK, ReportUnsent, Made, clientVars, forwardVars, serverVars, taskVars
<1>34. ASSUME NEW c \in Calls, CancelMethod(c) PROVE TypeOK'
  <2>1. task' \in TaskType
    BY <1>34, SetupFacts DEF TypeOK, CancelMethod, TaskType
  <2>2. response' \in ResponseType
    BY <1>34, SetupFacts, DroppedFacts DEF TypeOK, CancelMethod, ResponseType
  <2>3. sv' \in SvType /\ sv'.req \in Made \cup {None}
    BY <1>34, SetupFacts, ProcessedFacts DEF TypeOK, CancelMethod
  <2> QED
    BY <1>34, <2>1, <2>2, <2>3
       DEF TypeOK, CancelMethod, Made, clientVars, forwardVars, serverVars, taskVars
<1>35. ASSUME ForwardUndecodable PROVE TypeOK'
  <2>1. response' \in ResponseType
    BY <1>35, RejectedFacts, ForwardUndecodableFacts DEF TypeOK
  <2>2. /\ fw' \in FwType /\ fw'.req \in Made \cup {None} /\ (fw'.pc = "send" <=> fw'.req # None)
        /\ fw'.pc # "none" /\ fw.pc # "none"
    BY <1>35, ForwardUndecodableFacts DEF TypeOK
  <2>3. monitor' \in MonitorType /\ wire' \in Seq(Made)
    BY <1>35, ForwardUndecodableFacts
  <2> QED
    BY <1>35, <2>1, <2>2, <2>3 DEF TypeOK, ForwardUndecodable, Made, clientVars, taskVars
<1>36. CASE UNCHANGED vars
  BY <1>36 DEF TypeOK, Made, vars, clientVars, forwardVars, serverVars, taskVars
<1> QED
  BY <1>1, <1>2, <1>3, <1>4, <1>5, <1>6, <1>7, <1>8, <1>9, <1>10, <1>11, <1>12, <1>13, <1>14,
      <1>15, <1>16, <1>17, <1>18, <1>19, <1>20, <1>21, <1>22, <1>23, <1>24, <1>25, <1>26, <1>27,
      <1>28, <1>29, <1>30, <1>31, <1>32, <1>33, <1>34, <1>35, <1>36
     DEF Next, Forward, ServeStep, CallStep

LEMMA InitTypes == Init => TypeOK
  BY SetupFacts, EmptyFacts
     DEF Init, TypeOK, CallType, TaskType, ResultType, ResponseType, ErrorType, FwType, SvType,
         MonitorType, Made

\* Every variable has its type, and every request, wherever it waits (request channel,
\* forwarding task, serve loop), is that of a call that is made.
THEOREM Types == Spec => []TypeOK
  BY InitTypes, TypesPreserved, PTL DEF Spec

----------------------------------------------------------------------------
(* Steps by what they leave alone *)

\* Steps of the clients, of the request channel and of the forwarding task, and of time.
OutsideStep ==
    \/ \E c \in Made : StartCall(c) \/ CallRefused(c) \/ CallReturns(c) \/ CancelCall(c)
    \/ \E k \in Clients : DropClient(k)
    \/ Lose \/ WindowElapses \/ DropProvider \/ Transfer \/ Discard \/ Forward

\* Clients, request channel, forwarding task and time leave serve, the tasks and their
\* results alone.
LEMMA OutsideFrame ==
    ASSUME OutsideStep
    PROVE  /\ setup' = setup /\ sv' = sv /\ errors' = errors /\ task' = task
           /\ result' = result /\ begun' = begun /\ effects' = effects
  BY DEF OutsideStep, StartCall, CallRefused, CallReturns, CancelCall, DropClient, Lose,
         WindowElapses, DropProvider, Transfer, Discard, Forward, HandOver, Attach, Reserve,
         ForwardRecv, ForwardUndecodable, ForwardClosed, ForwardDone, ForwardSend, clientVars, forwardVars,
         serverVars, taskVars

\* Steps of a call that has been dispatched.
TaskStep(c) == CallStep(c) \/ CancelMethod(c)

\* A call that is processed changes nothing outside of the server, and of serve at most
\* that it waits for the call.
LEMMA TaskFrame ==
    ASSUME TypeOK, NEW c \in Calls, TaskStep(c)
    PROVE  /\ setup' = setup /\ call' = call /\ clients' = clients /\ link' = link
           /\ wire' = wire /\ fw' = fw /\ queue' = queue /\ provider' = provider
           /\ monitor' = monitor /\ begun' = begun
           /\ sv' \in SvType
           /\ \/ sv' = sv
              \/ /\ sv.pc = "inline" /\ sv.req = c /\ sv'.req = None /\ sv'.res = sv.res
                 /\ sv'.pc \in {"select", "drain", "returned"}
                 /\ sv'.pc = "returned" => IsFunction
<1>1. /\ setup' = setup /\ call' = call /\ clients' = clients /\ link' = link
      /\ wire' = wire /\ fw' = fw /\ queue' = queue /\ provider' = provider
      /\ monitor' = monitor /\ begun' = begun
      /\ sv' = sv \/ Processed(c)
  BY DEF TaskStep, CallStep, AcquirePermit, UseTarget, MethodReturns, ReportFailure,
         SendResponse, ReportUnsent, CancelMethod, clientVars, forwardVars, serverVars
<1>2. sv \in SvType
  BY DEF TypeOK
<1>3. CASE sv' = sv
  BY <1>1, <1>2, <1>3
<1>4. CASE Processed(c)
  BY <1>1, <1>2, <1>4, ProcessedFacts
<1> QED  BY <1>1, <1>3, <1>4

----------------------------------------------------------------------------
(* Requests stay in order *)

\* Serve keeps a request only from receiving it until it is processed or dropped.
LEMMA HoldersPreserved == TypeOK /\ HoldersOK /\ [Next]_vars => HoldersOK'
<1> SUFFICES ASSUME TypeOK, HoldersOK, [Next]_vars PROVE HoldersOK'
    OBVIOUS
<1>1. ASSUME OutsideStep PROVE HoldersOK'
  BY <1>1, OutsideFrame DEF HoldersOK, Serving
<1>2. ASSUME ServeFails PROVE HoldersOK'
  BY <1>2, ReturnFacts, ServeFailsFacts DEF TypeOK, HoldersOK, Serving, ErrorType, ServeFails
<1>3. ASSUME Terminate PROVE HoldersOK'
  BY <1>3, ReturnFacts DEF TypeOK, HoldersOK, Serving, Terminate
<1>4. ASSUME ReceiveRequest PROVE HoldersOK'
  BY <1>4, ReceiveFacts DEF TypeOK, HoldersOK, Serving, ReceiveRequest
<1>5. ASSUME PreDispatch PROVE HoldersOK'
  BY <1>5, PreDispatchFacts DEF TypeOK, HoldersOK, Serving, PreDispatch
<1>6. ASSUME EndOfRequests PROVE HoldersOK'
  BY <1>6, ReturnFacts, EndOfRequestsFacts DEF TypeOK, HoldersOK, Serving, EndOfRequests
<1>7. ASSUME Drain PROVE HoldersOK'
  BY <1>7, ReturnFacts, DrainFacts DEF TypeOK, HoldersOK, Serving, ErrorType, Drain
<1>8. ASSUME NEW c \in Calls, DispatchInline(c) PROVE HoldersOK'
  BY <1>8, DispatchInlineFacts, SetupFacts
     DEF TypeOK, HoldersOK, Serving, DispatchInline, Dispatchable
<1>9. ASSUME NEW c \in Calls, DispatchSpawned(c) PROVE HoldersOK'
  BY <1>9, DispatchSpawnedFacts DEF TypeOK, HoldersOK, Serving, DispatchSpawned, Dispatchable
<1>10. ASSUME NEW c \in Calls, IgnoreRequest(c) PROVE HoldersOK'
  BY <1>10, IgnoreFacts DEF TypeOK, HoldersOK, Serving, IgnoreRequest
<1>11. ASSUME NEW c \in Calls, Undecodable(c) PROVE HoldersOK'
  BY <1>11, ReturnFacts, UndecodableFacts DEF TypeOK, HoldersOK, Serving, Undecodable
<1>12. ASSUME NEW c \in Calls, TaskStep(c) PROVE HoldersOK'
  BY <1>12, TaskFrame DEF HoldersOK, Serving
<1>13. CASE UNCHANGED vars
  BY <1>13 DEF TypeOK, HoldersOK, Serving, vars, clientVars, forwardVars, serverVars, taskVars
<1> QED
  BY <1>1, <1>2, <1>3, <1>4, <1>5, <1>6, <1>7, <1>8, <1>9, <1>10, <1>11, <1>12, <1>13
     DEF Next, OutsideStep, ServeStep, TaskStep

LEMMA HeldFacts ==
    /\ sv.pc \in {"received", "admitted"} => Held = {sv.req} \ {None}
    /\ sv.pc \notin {"received", "admitted"} => Held = {}
    /\ sv'.pc \in {"received", "admitted"} => Held' = {sv'.req} \ {None}
    /\ sv'.pc \notin {"received", "admitted"} => Held' = {}
  BY DEF Held

\* Only a call that is started becomes a request, and only a request is dispatched.
RequestsMove ==
    /\ \A d \in Requests' : d \in Requests \/ (d \in Made /\ StartCall(d))
    /\ \A d \in ToSet(begun') : d \in ToSet(begun) \cup Requests

\* Dropping requests keeps the others in order.
LEMMA FewerInOrder ==
    ASSUME RequestsInOrder, setup' = setup, begun' = begun, Held' \subseteq Held,
           queue' = queue \/ (InOrder(setup.by, queue') /\ ToSet(queue') \subseteq ToSet(queue)),
           fw'.req = fw.req \/ fw'.req = None,
           wire' = wire \/ (InOrder(setup.by, wire') /\ ToSet(wire') \subseteq ToSet(wire))
    PROVE  RequestsInOrder' /\ RequestsMove
<1>1. /\ ToSet(queue') \subseteq ToSet(queue) /\ ToSet(wire') \subseteq ToSet(wire)
      /\ InForward' \subseteq InForward
  BY DEF InForward
<1>2. /\ InOrder(setup.by, begun) /\ InOrder(setup.by, queue') /\ InOrder(setup.by, wire')
  BY DEF RequestsInOrder
<1>3. Requests' \subseteq Requests
  BY <1>1 DEF Requests
<1> HIDE DEF Held, InForward, InOrder, ToSet
<1> QED  BY <1>1, <1>2, <1>3 DEF RequestsInOrder, RequestsMove, Precede, Requests

\* A request moves to the end of the next place on its way, is dispatched or dropped; it
\* never moves back and is never duplicated.
LEMMA OrderPreserved ==
    TypeOK /\ RequestsInOrder /\ RequestsMade /\ [Next]_vars
      => RequestsInOrder' /\ RequestsMove
<1> SUFFICES ASSUME TypeOK, RequestsInOrder, RequestsMade, [Next]_vars
             PROVE RequestsInOrder' /\ RequestsMove
    OBVIOUS
<1>1. ASSUME NEW c \in Made, StartCall(c) PROVE RequestsInOrder' /\ RequestsMove
  <2> USE DEF TypeOK
  <2>1. /\ setup' = setup /\ begun' = begun /\ queue' = queue /\ fw' = fw /\ sv' = sv
        /\ call[c] = "new"
    BY <1>1 DEF StartCall, MayStart, serverVars, taskVars
  <2>2. Held' = Held /\ InForward' = InForward
    BY <2>1 DEF Held, InForward
  <2>3. ASSUME NEW d \in ToSet(begun) \cup Requests PROVE Before(setup.by, d, c)
    <3>1. d \in Made
      BY ToSetFacts DEF Requests, Held, InForward
    <3>2. call[d] # "new"
      BY DEF RequestsMade
    <3> QED  BY <2>1, <3>1, <3>2, SetupFacts DEF RequestsMade, Before
  <2>4. CASE link
    <3>0. wire' = Append(wire, c)
      BY <1>1, <2>4 DEF StartCall
    <3>1. wire' = Append(wire, c) /\ ToSet(wire') = ToSet(wire) \cup {c}
      BY <3>0, AppendFacts
    <3>2. Precede(setup.by, ToSet(wire), {c})
      BY <2>3 DEF Precede, Requests
    <3>3. InOrder(setup.by, wire')
      BY <3>1, <3>2, InOrderAppend DEF RequestsInOrder
    <3> QED
      BY <1>1, <2>1, <2>2, <2>3, <3>1, <3>3
         DEF RequestsInOrder, RequestsMove, Requests, Precede
  <2>5. CASE ~link
    <3>1. wire' = wire
      BY <1>1, <2>5 DEF StartCall
    <3> QED  BY <2>1, <2>2, <3>1, FewerInOrder
  <2> QED  BY <2>4, <2>5
<1>2. ASSUME \/ \E c \in Made : CallRefused(c) \/ CallReturns(c) \/ CancelCall(c)
             \/ \E k \in Clients : DropClient(k)
             \/ WindowElapses \/ DropProvider
      PROVE  RequestsInOrder' /\ RequestsMove
  <2>1. Held' = Held
    BY <1>2
       DEF CallRefused, CallReturns, CancelCall, DropClient, WindowElapses, DropProvider, Held,
           serverVars
  <2> QED
    BY <1>2, <2>1, FewerInOrder
       DEF CallRefused, CallReturns, CancelCall, DropClient, WindowElapses, DropProvider,
           clientVars, forwardVars, serverVars, taskVars
<1>3. ASSUME Lose PROVE RequestsInOrder' /\ RequestsMove
  <2>1. InOrder(setup.by, wire') /\ ToSet(wire') \subseteq ToSet(wire)
    BY <1>3, EmptyFacts, EmptyInOrder DEF Lose
  <2>2. Held' = Held
    BY <1>3 DEF Lose, Held, serverVars
  <2> QED  BY <1>3, <2>1, <2>2, FewerInOrder DEF Lose, serverVars, taskVars
<1>4. ASSUME Transfer PROVE RequestsInOrder' /\ RequestsMove
  <2>1. /\ wire # <<>> /\ wire' = Tail(wire) /\ queue' = Append(queue, Head(wire))
        /\ setup' = setup /\ begun' = begun /\ sv' = sv /\ fw' = fw
    BY <1>4 DEF Transfer, taskVars
  <2>2. Held' = Held /\ InForward' = {} /\ InForward = {}
    BY <1>4, <2>1 DEF Held, InForward, Transfer, TypeOK
  <2>3. /\ ToSet(wire) = {Head(wire)} \cup ToSet(wire') /\ Head(wire) \in Made
        /\ ToSet(queue') = ToSet(queue) \cup {Head(wire)}
    BY <2>1, TailFacts, AppendFacts DEF TypeOK
  <2>4. InOrder(setup.by, wire') /\ Precede(setup.by, {Head(wire)}, ToSet(wire'))
    BY <2>1, InOrderTail DEF TypeOK, RequestsInOrder
  <2>5. Precede(setup.by, ToSet(queue), {Head(wire)})
    BY <2>3 DEF RequestsInOrder, Precede
  <2>6. InOrder(setup.by, queue')
    BY <2>1, <2>3, <2>5, InOrderAppend DEF TypeOK, RequestsInOrder
  <2> QED  BY <2>1, <2>2, <2>3, <2>4, <2>6 DEF RequestsInOrder, RequestsMove, Requests, Precede
<1>5. ASSUME Discard PROVE RequestsInOrder' /\ RequestsMove
  <2>1. InOrder(setup.by, wire') /\ ToSet(wire') \subseteq ToSet(wire)
    BY <1>5, EmptyFacts, EmptyInOrder DEF Discard
  <2>2. Held' = Held
    BY <1>5 DEF Discard, Held, serverVars
  <2> QED  BY <1>5, <2>1, <2>2, FewerInOrder DEF Discard, serverVars, taskVars
<1>6. ASSUME HandOver \/ Attach \/ Reserve \/ ForwardClosed \/ ForwardDone
      PROVE RequestsInOrder' /\ RequestsMove
  <2>1. fw'.req = fw.req
    BY <1>6 DEF HandOver, Attach, Reserve, ForwardClosed, ForwardDone, TypeOK, FwType
  <2>2. Held' = Held
    BY <1>6 DEF HandOver, Attach, Reserve, ForwardClosed, ForwardDone, Held, serverVars
  <2> QED
    BY <1>6, <2>1, <2>2, FewerInOrder
       DEF HandOver, Attach, Reserve, ForwardClosed, ForwardDone, serverVars, taskVars
<1>7. ASSUME ForwardRecv PROVE RequestsInOrder' /\ RequestsMove
  <2>1. /\ wire # <<>> /\ wire' = Tail(wire) /\ fw' = [pc |-> "send", req |-> Head(wire)]
        /\ setup' = setup /\ begun' = begun /\ sv' = sv /\ queue' = queue
    BY <1>7 DEF ForwardRecv, serverVars, taskVars
  <2>2. ToSet(wire) = {Head(wire)} \cup ToSet(wire') /\ Head(wire) \in Made
    BY <2>1, TailFacts DEF TypeOK
  <2>3. Held' = Held /\ InForward' = {Head(wire)} /\ InForward = {}
    BY <1>7, <2>1, <2>2, SetupFacts DEF Held, InForward, ForwardRecv, TypeOK
  <2>4. InOrder(setup.by, wire') /\ Precede(setup.by, {Head(wire)}, ToSet(wire'))
    BY <2>1, InOrderTail DEF TypeOK, RequestsInOrder
  <2> QED  BY <2>1, <2>2, <2>3, <2>4 DEF RequestsInOrder, RequestsMove, Requests, Precede
<1>8. ASSUME ForwardSend PROVE RequestsInOrder' /\ RequestsMove
  <2>1. /\ setup' = setup /\ begun' = begun /\ sv' = sv /\ wire' = wire
        /\ fw'.req = None /\ fw.req \in Made
    BY <1>8 DEF ForwardSend, taskVars, TypeOK
  <2>2. Held' = Held /\ InForward' = {} /\ InForward = {fw.req}
    BY <2>1, SetupFacts DEF Held, InForward, TypeOK
  <2>3. CASE Serving
    <3>0. queue' = Append(queue, fw.req)
      BY <1>8, <2>3 DEF ForwardSend
    <3>1. queue' = Append(queue, fw.req) /\ ToSet(queue') = ToSet(queue) \cup {fw.req}
      BY <2>1, <3>0, AppendFacts DEF TypeOK
    <3>2. Precede(setup.by, ToSet(queue), {fw.req})
      BY <2>2 DEF RequestsInOrder, Precede
    <3>3. InOrder(setup.by, queue')
      BY <2>1, <3>1, <3>2, InOrderAppend DEF TypeOK, RequestsInOrder
    <3> QED  BY <2>1, <2>2, <3>1, <3>3 DEF RequestsInOrder, RequestsMove, Requests, Precede
  <2>4. CASE ~Serving
    <3>1. queue' = queue
      BY <1>8, <2>4 DEF ForwardSend
    <3> QED  BY <2>1, <2>2, <3>1, FewerInOrder
  <2> QED  BY <2>3, <2>4
<1>9. ASSUME ServeFails PROVE RequestsInOrder' /\ RequestsMove
  <2>1. PICK res \in {"Ok", "CallFailed", "ResponseSend", "Monitor"} : Return(res)
    BY <1>9, ServeFailsFacts DEF ErrorType
  <2>2. sv'.pc = "returned" /\ queue' = <<>>
    BY <2>1, ReturnFacts DEF TypeOK
  <2>3. Held' \subseteq Held
    BY <2>2, HeldFacts
  <2>4. InOrder(setup.by, queue') /\ ToSet(queue') \subseteq ToSet(queue)
    BY <2>2, EmptyFacts, EmptyInOrder
  <2> QED  BY <1>9, <2>3, <2>4, FewerInOrder DEF ServeFails, clientVars, forwardVars, taskVars
<1>10. ASSUME Terminate PROVE RequestsInOrder' /\ RequestsMove
  <2>1. PICK res \in {"Ok", "CallFailed", "ResponseSend", "Monitor"} : Return(res)
    BY <1>10 DEF Terminate
  <2>2. sv'.pc = "returned" /\ queue' = <<>>
    BY <2>1, ReturnFacts DEF TypeOK
  <2>3. Held' \subseteq Held
    BY <2>2, HeldFacts
  <2>4. InOrder(setup.by, queue') /\ ToSet(queue') \subseteq ToSet(queue)
    BY <2>2, EmptyFacts, EmptyInOrder
  <2> QED  BY <1>10, <2>3, <2>4, FewerInOrder DEF Terminate, clientVars, forwardVars, taskVars
<1>11. ASSUME ReceiveRequest PROVE RequestsInOrder' /\ RequestsMove
  <2>1. /\ setup' = setup /\ begun' = begun /\ wire' = wire /\ fw' = fw
        /\ sv.pc = "select"
    BY <1>11 DEF ReceiveRequest, forwardVars, taskVars
  <2>2. Held = {} /\ Held' = {sv'.req} \ {None} /\ InForward' = InForward
    BY <1>11, <2>1, HeldFacts, ReceiveFacts DEF InForward
  <2>3. CASE queue # <<>>
    <3>1. sv'.req = Head(queue) /\ queue' = Tail(queue)
      BY <1>11, <2>3, ReceiveFacts
    <3>2. ToSet(queue) = {Head(queue)} \cup ToSet(queue') /\ Head(queue) \in Made
      BY <2>3, <3>1, TailFacts DEF TypeOK
    <3>3. InOrder(setup.by, queue') /\ Precede(setup.by, {Head(queue)}, ToSet(queue'))
      BY <2>3, <3>1, InOrderTail DEF TypeOK, RequestsInOrder
    <3> QED  BY <2>1, <2>2, <3>1, <3>2, <3>3 DEF RequestsInOrder, RequestsMove, Requests, Precede
  <2>4. CASE queue = <<>>
    <3>1. sv'.req = None /\ queue' = queue
      BY <1>11, <2>4, ReceiveFacts
    <3> QED  BY <2>1, <2>2, <3>1, FewerInOrder
  <2> QED  BY <2>3, <2>4
<1>12. ASSUME PreDispatch PROVE RequestsInOrder' /\ RequestsMove
  <2>1. Held' = Held
    BY <1>12, PreDispatchFacts DEF PreDispatch, Held
  <2> QED  BY <1>12, <2>1, FewerInOrder DEF PreDispatch, forwardVars, taskVars
<1>13. ASSUME EndOfRequests PROVE RequestsInOrder' /\ RequestsMove
  <2>1. Held = {}
    BY <1>13 DEF EndOfRequests, Held
  <2>2. CASE Return("Ok")
    <3>1. sv'.pc = "returned" /\ queue' = <<>>
      BY <2>2, ReturnFacts DEF TypeOK
    <3>2. Held' \subseteq Held /\ InOrder(setup.by, queue') /\ ToSet(queue') \subseteq ToSet(queue)
      BY <3>1, HeldFacts, EmptyFacts, EmptyInOrder
    <3> QED  BY <1>13, <3>2, FewerInOrder DEF EndOfRequests, forwardVars, taskVars
  <2>3. CASE sv'.pc = "drain" /\ queue' = queue
    <3>1. Held' \subseteq Held
      BY <2>3, HeldFacts
    <3> QED  BY <1>13, <2>3, <3>1, FewerInOrder DEF EndOfRequests, forwardVars, taskVars
  <2> QED  BY <1>13, <2>2, <2>3, EndOfRequestsFacts
<1>14. ASSUME Drain PROVE RequestsInOrder' /\ RequestsMove
  <2>1. PICK res \in {"Ok", "CallFailed", "ResponseSend", "Monitor"} : Return(res)
    BY <1>14, DrainFacts DEF ErrorType
  <2>2. sv'.pc = "returned" /\ queue' = <<>>
    BY <2>1, ReturnFacts DEF TypeOK
  <2>3. Held' \subseteq Held
    BY <2>2, HeldFacts
  <2>4. InOrder(setup.by, queue') /\ ToSet(queue') \subseteq ToSet(queue)
    BY <2>2, EmptyFacts, EmptyInOrder
  <2> QED  BY <1>14, <2>3, <2>4, FewerInOrder DEF Drain, clientVars, forwardVars, taskVars
<1>15. ASSUME NEW c \in Calls, DispatchInline(c) PROVE RequestsInOrder' /\ RequestsMove
  <2>1. sv.pc = "admitted" /\ sv.req = c /\ c \in Made
    BY <1>15, SetupFacts DEF TypeOK, DispatchInline, Dispatchable
  <2>2. Held = {c} /\ Held' = {}
    BY <1>15, <2>1, HeldFacts, DispatchInlineFacts, SetupFacts DEF TypeOK
  <2>3. /\ begun' = Append(begun, c) /\ ToSet(begun') = ToSet(begun) \cup {c}
        /\ setup' = setup /\ queue' = queue /\ fw' = fw /\ wire' = wire
    BY <1>15, <2>1, AppendFacts DEF TypeOK, DispatchInline, Begin, forwardVars
  <2>4. Precede(setup.by, ToSet(begun), {c})
    BY <2>2 DEF RequestsInOrder, RequestsMove, Requests, Precede
  <2>5. InOrder(setup.by, begun')
    BY <2>1, <2>3, <2>4, InOrderAppend DEF TypeOK, RequestsInOrder
  <2> QED
    BY <2>2, <2>3, <2>5 DEF RequestsInOrder, RequestsMove, Requests, InForward, Precede
<1>16. ASSUME NEW c \in Calls, DispatchSpawned(c) PROVE RequestsInOrder' /\ RequestsMove
  <2>1. sv.pc = "admitted" /\ sv.req = c /\ c \in Made
    BY <1>16, SetupFacts DEF TypeOK, DispatchSpawned, Dispatchable
  <2>2. Held = {c} /\ Held' = {}
    BY <1>16, <2>1, HeldFacts, DispatchSpawnedFacts, SetupFacts DEF TypeOK
  <2>3. /\ begun' = Append(begun, c) /\ ToSet(begun') = ToSet(begun) \cup {c}
        /\ setup' = setup /\ queue' = queue /\ fw' = fw /\ wire' = wire
    BY <1>16, <2>1, AppendFacts DEF TypeOK, DispatchSpawned, Begin, forwardVars
  <2>4. Precede(setup.by, ToSet(begun), {c})
    BY <2>2 DEF RequestsInOrder, RequestsMove, Requests, Precede
  <2>5. InOrder(setup.by, begun')
    BY <2>1, <2>3, <2>4, InOrderAppend DEF TypeOK, RequestsInOrder
  <2> QED
    BY <2>2, <2>3, <2>5 DEF RequestsInOrder, RequestsMove, Requests, InForward, Precede
<1>17. ASSUME NEW c \in Calls, IgnoreRequest(c) PROVE RequestsInOrder' /\ RequestsMove
  <2>1. Held' \subseteq Held
    BY <1>17, HeldFacts, IgnoreFacts
  <2> QED  BY <1>17, <2>1, FewerInOrder DEF IgnoreRequest, forwardVars, taskVars
<1>18. ASSUME NEW c \in Calls, Undecodable(c) PROVE RequestsInOrder' /\ RequestsMove
  <2>1. CASE Return("Monitor")
    <3>1. sv'.pc = "returned" /\ queue' = <<>>
      BY <2>1, ReturnFacts DEF TypeOK
    <3>2. Held' \subseteq Held /\ InOrder(setup.by, queue') /\ ToSet(queue') \subseteq ToSet(queue)
      BY <3>1, HeldFacts, EmptyFacts, EmptyInOrder
    <3> QED  BY <1>18, <3>2, FewerInOrder DEF Undecodable, forwardVars, taskVars
  <2>2. CASE sv'.pc = "select" /\ queue' = queue
    <3>1. Held' \subseteq Held
      BY <2>2, HeldFacts
    <3> QED  BY <1>18, <2>2, <3>1, FewerInOrder DEF Undecodable, forwardVars, taskVars
  <2> QED  BY <1>18, <2>1, <2>2, UndecodableFacts
<1>19. ASSUME NEW c \in Calls, TaskStep(c) PROVE RequestsInOrder' /\ RequestsMove
  <2>1. Held' = Held
    BY <1>19, TaskFrame, HeldFacts
  <2> QED  BY <1>19, <2>1, TaskFrame, FewerInOrder
<1>20. ASSUME ForwardUndecodable PROVE RequestsInOrder' /\ RequestsMove
  <2>1. wire # <<>> /\ wire' = Tail(wire) /\ ToSet(wire') \subseteq ToSet(wire) /\ fw'.req = fw.req
    BY <1>20, ForwardUndecodableFacts
  <2>2. InOrder(setup.by, wire')
    BY <2>1, InOrderTail DEF TypeOK, RequestsInOrder
  <2>3. setup' = setup /\ begun' = begun /\ Held' = Held /\ queue' = queue
    BY <1>20 DEF ForwardUndecodable, Held, taskVars
  <2> QED  BY <2>1, <2>2, <2>3, FewerInOrder
<1>21. CASE UNCHANGED vars
  BY <1>21
     DEF RequestsInOrder, RequestsMove, Requests, Held, InForward, vars, clientVars,
        forwardVars, serverVars, taskVars
<1> QED
  BY <1>1, <1>2, <1>3, <1>4, <1>5, <1>6, <1>7, <1>8, <1>9, <1>10, <1>11, <1>12, <1>13, <1>14,
      <1>15, <1>16, <1>17, <1>18, <1>19, <1>20, <1>21 DEF Next, Forward, ServeStep, TaskStep

----------------------------------------------------------------------------
(* What stays as it is *)

\* What becomes of a call.
LEMMA CallMoves ==
    ASSUME TypeOK, [Next]_vars, NEW d \in Calls
    PROVE  \/ call'[d] = call[d]
           \/ d \in Made /\ StartCall(d) /\ MayStart(d) /\ call'[d] = "waiting"
           \/ d \in Made /\ CallRefused(d) /\ MayStart(d) /\ call'[d] \in SendErrors
           \/ d \in Made /\ call[d] = "waiting" /\ call'[d] \in Outcomes(d)
           \/ call[d] = "waiting" /\ call'[d] = "cancelled"
<1> USE DEF TypeOK, CallType
<1>1. ASSUME NEW c \in Made, StartCall(c) \/ CallRefused(c) \/ CallReturns(c) \/ CancelCall(c)
      PROVE  \/ call'[d] = call[d]
             \/ d \in Made /\ StartCall(d) /\ MayStart(d) /\ call'[d] = "waiting"
             \/ d \in Made /\ CallRefused(d) /\ MayStart(d) /\ call'[d] \in SendErrors
             \/ d \in Made /\ call[d] = "waiting" /\ call'[d] \in Outcomes(d)
             \/ call[d] = "waiting" /\ call'[d] = "cancelled"
  <2>1. CASE StartCall(c)
    BY <2>1 DEF StartCall
  <2>2. CASE CallRefused(c)
    BY <2>2 DEF CallRefused
  <2>3. CASE CallReturns(c)
    BY <2>3 DEF CallReturns
  <2>4. CASE CancelCall(c)
    BY <2>4 DEF CancelCall
  <2> QED  BY <1>1, <2>1, <2>2, <2>3, <2>4
<1>2. ASSUME NEW c \in Calls, TaskStep(c) PROVE call' = call
  BY <1>2, TaskFrame
<1>3. ASSUME \/ \E k \in Clients : DropClient(k)
             \/ Lose \/ WindowElapses \/ DropProvider \/ Transfer \/ Discard \/ Forward
             \/ ServeStep \/ UNCHANGED vars
      PROVE  call' = call
  BY <1>3
     DEF DropClient, Lose, WindowElapses, DropProvider, Transfer, Discard, Forward, HandOver,
         Attach, Reserve, ForwardRecv, ForwardUndecodable, ForwardClosed, ForwardDone,
         ForwardSend, ServeStep,
         ServeFails, Terminate, ReceiveRequest, PreDispatch, EndOfRequests, Drain,
         DispatchInline, DispatchSpawned, Begin, IgnoreRequest, Undecodable, vars, clientVars
<1> QED  BY <1>1, <1>2, <1>3 DEF Next, TaskStep

\* The connection is not restored, and serve and the forwarding task do not start anew.
LEMMA StableFacts ==
    ASSUME TypeOK, [Next]_vars
    PROVE  /\ setup' = setup
           /\ ~link => ~link'
           /\ ~Serving => sv' = sv /\ ~Serving'
           /\ fw.pc = "ended" => fw'.pc = "ended"
           /\ ~Accepting => ~Accepting'
<1>1. ASSUME NEW c \in Calls, TaskStep(c)
      PROVE  setup' = setup /\ link' = link /\ fw' = fw /\ (sv.pc = "returned" => sv' = sv)
  BY <1>1, TaskFrame
<1>2. ASSUME OutsideStep
      PROVE  setup' = setup /\ sv' = sv /\ (~link => ~link') /\ (fw.pc = "ended" => fw' = fw)
  <2>1. setup' = setup /\ sv' = sv
    BY <1>2, OutsideFrame
  <2>2. link' = link \/ link' = FALSE
    BY <1>2
       DEF OutsideStep, StartCall, CallRefused, CallReturns, CancelCall, DropClient, Lose,
           WindowElapses, DropProvider, Transfer, Discard, Forward, HandOver, Attach, Reserve,
           ForwardRecv, ForwardUndecodable, ForwardClosed, ForwardDone, ForwardSend, clientVars,
           forwardVars
  <2>3. fw' = fw \/ fw.pc # "ended"
    BY <1>2
       DEF OutsideStep, StartCall, CallRefused, CallReturns, CancelCall, DropClient, Lose,
           WindowElapses, DropProvider, Transfer, Discard, Forward, HandOver, Attach, Reserve,
           ForwardRecv, ForwardUndecodable, ForwardClosed, ForwardDone, ForwardSend, clientVars,
           forwardVars
  <2> QED  BY <2>1, <2>2, <2>3
<1>3. ASSUME ServeStep
      PROVE  setup' = setup /\ link' = link /\ fw' = fw /\ sv.pc # "returned"
  BY <1>3
     DEF ServeStep, ServeFails, Terminate, ReceiveRequest, PreDispatch, EndOfRequests, Drain,
         DispatchInline, DispatchSpawned, Dispatchable, Begin, IgnoreRequest, Undecodable,
         clientVars, forwardVars
<1>4. ASSUME UNCHANGED vars
      PROVE  setup' = setup /\ link' = link /\ fw' = fw /\ sv' = sv
  BY <1>4 DEF vars, clientVars, forwardVars, serverVars
<1>5. /\ setup' = setup /\ (~link => ~link') /\ (~Serving => sv' = sv /\ ~Serving')
      /\ fw.pc = "ended" => fw'.pc = "ended"
  BY <1>1, <1>2, <1>3, <1>4 DEF Next, OutsideStep, TaskStep, Serving
<1> QED  BY <1>5 DEF Accepting

\* Requests belong to calls that were made, and a client makes its calls in order.
LEMMA MadePreserved ==
    TypeOK /\ RequestsInOrder /\ RequestsMade /\ ResponsesHaveCause /\ [Next]_vars => RequestsMade'
<1> SUFFICES ASSUME TypeOK, RequestsInOrder, RequestsMade, ResponsesHaveCause, [Next]_vars
             PROVE  RequestsMade'
    OBVIOUS
<1>1. setup' = setup /\ Made' = Made /\ Made \subseteq Calls /\ Calls \subseteq Nat
  BY StableFacts, SetupFacts DEF TypeOK, Made
<1>2. ASSUME NEW d \in Calls
      PROVE  /\ call'[d] = "new" => call[d] = "new"
             /\ call[d] = "new" /\ call'[d] # "new" => MayStart(d)
             /\ StartCall(d) => call'[d] = "waiting"
             /\ ToldRefused(d)' => ToldRefused(d) \/ call[d] = "new" \/ response[d] = "rejected"
  <2>1. StartCall(d) => call'[d] = "waiting"
    BY DEF StartCall, TypeOK, CallType
  <2>2. call'[d] = call[d] \/ MayStart(d)
        \/ (call[d] = "waiting" /\ (call'[d] = "cancelled" \/ call'[d] \in Outcomes(d)))
    BY CallMoves
  <2>3. ASSUME call'[d] \in Outcomes(d)
        PROVE  call'[d] # "new" /\ (ToldRefused(d)' => response[d] = "rejected")
    BY <2>3, OutcomesFacts DEF ToldRefused
  <2> QED  BY <2>1, <2>2, <2>3 DEF MayStart, ToldRefused
<1>3. ASSUME NEW c \in ToSet(begun') \cup Requests'
      PROVE  call'[c] # "new" /\ (ToldRefused(c)' => c \in setup'.garbled)
  <2>1. c \in Made
    BY ToSetFacts, TypesPreserved, <1>1 DEF Requests, Held, InForward, TypeOK
  <2>2. CASE StartCall(c)
    BY <1>1, <1>2, <2>1, <2>2 DEF ToldRefused
  <2>3. CASE c \in ToSet(begun) \cup Requests
    <3>1. call[c] # "new" /\ (ToldRefused(c) => c \in setup.garbled)
      BY <2>3 DEF RequestsMade
    <3>2. response[c] = "rejected" => c \in setup.garbled
      BY <1>1, <2>1, <2>3 DEF ResponsesHaveCause, RejectionHasCause
    <3> QED  BY <1>1, <1>2, <2>1, <3>1, <3>2
  <2> QED  BY <2>2, <2>3, OrderPreserved DEF RequestsMove
<1>4. ASSUME NEW c \in Made, NEW d \in Made, c < d, setup.by[c] = setup.by[d], call'[c] = "new"
      PROVE  call'[d] = "new"
  <2>1. call[c] = "new" /\ call[d] = "new"
    BY <1>1, <1>2, <1>4 DEF RequestsMade
  <2> QED  BY <1>1, <1>2, <1>4, <2>1 DEF MayStart
<1> QED  BY <1>1, <1>3, <1>4 DEF RequestsMade

----------------------------------------------------------------------------
(* What the steps of serve and of a call do *)

\* Steps in which serve decides what to do and starts no method.
DecideStep ==
    \/ ServeFails \/ Terminate \/ ReceiveRequest \/ PreDispatch \/ EndOfRequests \/ Drain
    \/ \E c \in Calls : IgnoreRequest(c) \/ Undecodable(c)

\* Where serve receives, decides and returns, it leaves the tasks alone.
LEMMA DecideFrame ==
    ASSUME TypeOK, DecideStep
    PROVE  /\ setup' = setup /\ call' = call /\ link' = link /\ task' = task
           /\ result' = result /\ begun' = begun /\ effects' = effects
           /\ wire' = wire /\ fw' = fw /\ provider' = provider
           /\ sv.pc \in {"select", "received", "admitted", "drain"}
           /\ sv'.pc \in {"select", "received", "admitted", "drain", "returned"}
           /\ sv'.pc = "admitted" => sv'.req \notin setup.garbled
<1>1. /\ setup' = setup /\ call' = call /\ link' = link /\ task' = task
      /\ result' = result /\ begun' = begun /\ effects' = effects
      /\ wire' = wire /\ fw' = fw /\ provider' = provider
      /\ sv.pc \in {"select", "received", "admitted", "drain"}
  BY DEF DecideStep, ServeFails, Terminate, ReceiveRequest, PreDispatch, EndOfRequests, Drain,
         IgnoreRequest, Undecodable, clientVars, forwardVars, taskVars
<1>2. CASE \E res : Return(res)
  <2>1. sv'.pc = "returned"
    BY <1>2 DEF Return
  <2> QED  BY <1>1, <2>1
<1>3. CASE ReceiveRequest
  BY <1>1, <1>3, ReceiveFacts
<1>4. CASE PreDispatch
  BY <1>1, <1>4, PreDispatchFacts DEF PreDispatch
<1>5. CASE EndOfRequests
  BY <1>1, <1>2, <1>5, EndOfRequestsFacts
<1>6. ASSUME NEW c \in Calls, IgnoreRequest(c) PROVE sv'.pc = "select"
  BY <1>6, IgnoreFacts
<1>7. ASSUME NEW c \in Calls, Undecodable(c) PROVE sv'.pc = "select" \/ \E res : Return(res)
  BY <1>7, UndecodableFacts
<1>8. CASE ServeFails \/ Terminate \/ Drain
  BY <1>2, <1>8 DEF ServeFails, Terminate, Drain
<1> QED  BY <1>1, <1>2, <1>3, <1>4, <1>5, <1>6, <1>7, <1>8 DEF DecideStep

\* A dispatched request is started as the last one, before which it was with serve only.
LEMMA BeginFacts ==
    ASSUME TypeOK, NEW c \in Calls, DispatchInline(c) \/ DispatchSpawned(c)
    PROVE  /\ setup' = setup /\ call' = call /\ link' = link /\ result' = result
           /\ response' = response /\ effects' = effects /\ errors' = errors
           /\ provider' = provider /\ monitor' = monitor
           /\ sv.pc = "admitted" /\ sv.req = c /\ setup.kind[c] \in Served /\ c \in Made
           /\ c \in Held
           /\ begun' = Append(begun, c) /\ ToSet(begun') = ToSet(begun) \cup {c}
           /\ begun' # <<>> /\ begun'[Len(begun')] = c
           /\ task'[c] \in {"queued", "started"} /\ (task'[c] = "queued" => setup.server = "RFn")
           /\ \A d \in Calls \ {c} : task'[d] = task[d]
<1>1. /\ sv.pc = "admitted" /\ sv.req = c /\ setup.kind[c] \in Served /\ Begin(c)
  BY DEF DispatchInline, DispatchSpawned, Dispatchable
<1>2. c \in Made /\ c \in Held
  BY <1>1, SetupFacts DEF TypeOK, Held
<1>3. /\ task'[c] \in {"queued", "started"} /\ (task'[c] = "queued" => setup.server = "RFn")
      /\ \A d \in Calls \ {c} : task'[d] = task[d]
  BY <1>1 DEF Begin, TypeOK, TaskType
<1>4. begun' = Append(begun, c) /\ begun \in Seq(Made)
  BY <1>1 DEF Begin, TypeOK
<1>5. /\ ToSet(begun') = ToSet(begun) \cup {c}
      /\ begun' # <<>> /\ begun'[Len(begun')] = c
  BY <1>2, <1>4, AppendFacts
<1> QED  BY <1>1, <1>2, <1>3, <1>4, <1>5 DEF Begin, clientVars

\* What a step of a call leaves alone.
OthersKept(c) ==
    \A d \in Calls \ {c} : task'[d] = task[d] /\ result'[d] = result[d] /\ response'[d] = response[d]

\* What each step of a call does to its task, its result and its response.
LEMMA AcquireFacts ==
    ASSUME TypeOK, NEW c \in Calls, AcquirePermit(c)
    PROVE  /\ OthersKept(c) /\ task[c] = "queued" /\ task'[c] = "started"
           /\ result' = result /\ response' = response /\ effects' = effects
           /\ sv' = sv /\ errors' = errors
  BY DEF AcquirePermit, TypeOK, TaskType, OthersKept, serverVars

LEMMA UseFacts ==
    ASSUME TypeOK, NEW c \in Calls, UseTarget(c)
    PROVE  /\ OthersKept(c) /\ task[c] = "started" /\ task'[c] = "used"
           /\ result' = result /\ response' = response
           /\ effects' = Append(effects, c) /\ ToSet(effects') = ToSet(effects) \cup {c}
           /\ sv' = sv /\ errors' = errors
<1>1. /\ OthersKept(c) /\ task[c] = "started" /\ task'[c] = "used"
      /\ result' = result /\ response' = response /\ effects' = Append(effects, c)
      /\ sv' = sv /\ errors' = errors
  BY DEF UseTarget, TypeOK, TaskType, OthersKept, serverVars
<1> QED  BY <1>1, AppendFacts DEF TypeOK

LEMMA MethodReturnsFacts ==
    ASSUME TypeOK, NEW c \in Calls, MethodReturns(c)
    PROVE  /\ OthersKept(c) /\ task[c] = "used" /\ result'[c] \in {"ok", "err"}
           /\ response' = response /\ effects' = effects /\ errors' = errors
           /\ \/ /\ task'[c] = "failed" /\ result'[c] = "err" /\ c \in setup.stop /\ sv' = sv
              \/ /\ task'[c] = "sending" /\ (result'[c] = "err" => c \notin setup.stop)
                 /\ Processed(c)
<1>1. PICK r \in {"ok", "err"} :
        /\ result' = [result EXCEPT ![c] = r]
        /\ IF r = "err" /\ c \in setup.stop
           THEN task' = [task EXCEPT ![c] = "failed"] /\ UNCHANGED sv
           ELSE task' = [task EXCEPT ![c] = "sending"] /\ Processed(c)
  BY DEF MethodReturns
<1>2. result'[c] = r /\ \A d \in Calls \ {c} : result'[d] = result[d]
  BY <1>1 DEF TypeOK, ResultType
<1>3. \E t : task' = [task EXCEPT ![c] = t]
  BY <1>1
<1>4. \A d \in Calls \ {c} : task'[d] = task[d]
  BY <1>3 DEF TypeOK, TaskType
<1>5. /\ task[c] = "used" /\ response' = response /\ effects' = effects /\ errors' = errors
  BY DEF MethodReturns
<1>6. CASE r = "err" /\ c \in setup.stop
  <2>1. task'[c] = "failed" /\ sv' = sv
    BY <1>1, <1>6 DEF TypeOK, TaskType
  <2> QED  BY <1>2, <1>4, <1>5, <1>6, <2>1 DEF OthersKept
<1>7. CASE ~(r = "err" /\ c \in setup.stop)
  <2>1. task'[c] = "sending" /\ Processed(c)
    BY <1>1, <1>7 DEF TypeOK, TaskType
  <2> QED  BY <1>2, <1>4, <1>5, <1>7, <2>1 DEF OthersKept
<1> QED  BY <1>6, <1>7

LEMMA ReportFailureFacts ==
    ASSUME TypeOK, NEW c \in Calls, ReportFailure(c)
    PROVE  /\ OthersKept(c) /\ task[c] = "failed" /\ task'[c] = "sending"
           /\ result' = result /\ response' = response /\ effects' = effects
           /\ Report("CallFailed") /\ Processed(c)
  BY DEF ReportFailure, TypeOK, TaskType, OthersKept

LEMMA SendResponseFacts ==
    ASSUME TypeOK, NEW c \in Calls, SendResponse(c)
    PROVE  /\ OthersKept(c) /\ task[c] = "sending"
           /\ result' = result /\ effects' = effects /\ sv' = sv /\ errors' = errors
           /\ \/ /\ c \in setup.large /\ link
                 /\ task'[c] = IF IsFunction THEN "done" ELSE "unsent"
                 /\ response'[c] = IF response[c] = None THEN "dropped" ELSE response[c]
              \/ task'[c] = "done" /\ response'[c] = result[c]
<1>1. task[c] = "sending" /\ result' = result /\ effects' = effects /\ sv' = sv /\ errors' = errors
  BY DEF SendResponse, serverVars
<1>2. CASE c \in setup.large /\ link
  <2>1. /\ task' = [task EXCEPT ![c] = IF IsFunction THEN "done" ELSE "unsent"]
        /\ response' = Dropped({c})
    BY <1>2 DEF SendResponse
  <2>2. /\ task'[c] = IF IsFunction THEN "done" ELSE "unsent"
        /\ \A d \in Calls \ {c} : task'[d] = task[d]
    BY <2>1 DEF TypeOK, TaskType
  <2>3. /\ response'[c] = IF response[c] = None THEN "dropped" ELSE response[c]
        /\ \A d \in Calls \ {c} : response'[d] = response[d]
    BY <2>1, DroppedFacts DEF TypeOK
  <2> QED  BY <1>1, <1>2, <2>2, <2>3 DEF OthersKept
<1>3. CASE ~(c \in setup.large /\ link)
  <2>1. /\ task' = [task EXCEPT ![c] = "done"]
        /\ response' = [response EXCEPT ![c] = result[c]]
    BY <1>3 DEF SendResponse
  <2>2. /\ task'[c] = "done" /\ \A d \in Calls \ {c} : task'[d] = task[d]
    BY <2>1 DEF TypeOK, TaskType
  <2>3. /\ response'[c] = result[c] /\ \A d \in Calls \ {c} : response'[d] = response[d]
    BY <2>1 DEF TypeOK, ResponseType
  <2> QED  BY <1>1, <2>2, <2>3 DEF OthersKept
<1> QED  BY <1>2, <1>3

LEMMA ReportUnsentFacts ==
    ASSUME TypeOK, NEW c \in Calls, ReportUnsent(c)
    PROVE  /\ OthersKept(c) /\ task[c] = "unsent" /\ task'[c] = "done"
           /\ result' = result /\ response' = response /\ effects' = effects
           /\ sv' = sv /\ Report("ResponseSend")
  BY DEF ReportUnsent, TypeOK, TaskType, OthersKept

LEMMA CancelMethodFacts ==
    ASSUME TypeOK, NEW c \in Calls, CancelMethod(c)
    PROVE  /\ OthersKept(c) /\ task[c] \in {"started", "used"} /\ task'[c] = "done"
           /\ Cancellable(c) /\ (call[c] = "cancelled" \/ ~link)
           /\ response'[c] = (IF response[c] = None THEN "dropped" ELSE response[c])
           /\ result' = result /\ effects' = effects /\ errors' = errors /\ Processed(c)
<1>1. \A d \in Calls : response'[d] =
        IF d \in {c} /\ response[d] = None THEN "dropped" ELSE response[d]
  BY DroppedFacts DEF CancelMethod, TypeOK
<1>2. /\ task[c] \in {"started", "used"} /\ task'[c] = "done"
      /\ \A d \in Calls \ {c} : task'[d] = task[d]
  BY DEF CancelMethod, TypeOK, TaskType
<1>3. /\ Cancellable(c) /\ (call[c] = "cancelled" \/ ~link)
      /\ result' = result /\ effects' = effects /\ errors' = errors /\ Processed(c)
  BY DEF CancelMethod
<1> QED  BY <1>1, <1>2, <1>3 DEF OthersKept

\* Steps after a method has used the target or been cancelled.
LaterStep(c) ==
    \/ MethodReturns(c) \/ ReportFailure(c) \/ SendResponse(c) \/ ReportUnsent(c)
    \/ CancelMethod(c)

LEMMA LaterFacts ==
    ASSUME TypeOK, NEW c \in Calls, LaterStep(c)
    PROVE  /\ OthersKept(c) /\ effects' = effects /\ begun' = begun
           /\ task[c] \in {"started", "used", "failed", "sending", "unsent"}
           /\ task'[c] \in {"failed", "sending", "unsent", "done"}
           /\ task'[c] = "failed" => task[c] = "used"
<1>1. begun' = begun
  BY TaskFrame DEF LaterStep, TaskStep, CallStep
<1>2. CASE MethodReturns(c)
  BY <1>1, <1>2, MethodReturnsFacts
<1>3. CASE ReportFailure(c)
  BY <1>1, <1>3, ReportFailureFacts
<1>4. CASE SendResponse(c)
  BY <1>1, <1>4, SendResponseFacts
<1>5. CASE ReportUnsent(c)
  BY <1>1, <1>5, ReportUnsentFacts
<1>6. CASE CancelMethod(c)
  BY <1>1, <1>6, CancelMethodFacts
<1> QED  BY <1>2, <1>3, <1>4, <1>5, <1>6 DEF LaterStep

----------------------------------------------------------------------------
(* Calls that are processed inline keep serve *)

\* What depends on the setup alone does not change.
LEMMA SetupFrame ==
    ASSUME setup' = setup
    PROVE  /\ Made' = Made /\ Served' = Served /\ IsFunction' = IsFunction
           /\ \A c : Inline(c)' = Inline(c) /\ Cancellable(c)' = Cancellable(c)
  BY DEF Made, Served, IsFunction, Inline, Concurrent, Cancellable

\* A request is not one of the calls that have been dispatched.
LEMMA RequestsAreNew ==
    ASSUME TypeOK, RequestsInOrder, NEW c \in Requests
    PROVE  c \notin ToSet(begun)
<1>1. c \in Made
  BY ToSetFacts DEF Requests, Held, InForward, TypeOK
<1> QED  BY <1>1, SetupFacts DEF RequestsInOrder, Precede, Before, TypeOK

\* A call has a task once it was dispatched, and while it is processed inline serve waits.
LEMMA TasksPreserved ==
    TypeOK /\ HoldersOK /\ TasksFollowServe /\ [Next]_vars => TasksFollowServe'
<1> SUFFICES ASSUME TypeOK, HoldersOK, TasksFollowServe, [Next]_vars PROVE TasksFollowServe'
    OBVIOUS
<1>0. /\ setup' = setup /\ Served' = Served /\ \A d : Inline(d)' = Inline(d)
      /\ ToSet(begun) \subseteq Calls
  BY StableFacts, SetupFrame, ToSetFacts, SetupFacts DEF TypeOK
<1>1. ASSUME OutsideStep PROVE TasksFollowServe'
  BY <1>1, <1>0, OutsideFrame DEF TasksFollowServe
<1>2. ASSUME DecideStep PROVE TasksFollowServe'
  BY <1>2, <1>0, DecideFrame DEF TasksFollowServe
<1>3. ASSUME NEW c \in Calls, DispatchInline(c) PROVE TasksFollowServe'
  BY <1>3, <1>0, BeginFacts, DispatchInlineFacts DEF TasksFollowServe, DispatchInline
<1>4. ASSUME NEW c \in Calls, DispatchSpawned(c) PROVE TasksFollowServe'
  BY <1>4, <1>0, BeginFacts, DispatchSpawnedFacts DEF TasksFollowServe, DispatchSpawned
<1>5. ASSUME NEW c \in Calls, AcquirePermit(c) PROVE TasksFollowServe'
  BY ZenonT(60), <1>5, <1>0, AcquireFacts, TaskFrame
     DEF TasksFollowServe, OthersKept, TaskStep, CallStep, TypeOK
<1>6. ASSUME NEW c \in Calls, UseTarget(c) PROVE TasksFollowServe'
  BY ZenonT(60), <1>6, <1>0, UseFacts, TaskFrame
     DEF TasksFollowServe, OthersKept, TaskStep, CallStep, TypeOK
<1>7. ASSUME NEW c \in Calls, MethodReturns(c) PROVE TasksFollowServe'
  <2>1. /\ begun' = begun /\ task[c] = "used" /\ OthersKept(c)
        /\ sv' = sv \/ sv'.pc \in {"select", "drain", "returned"}
    BY <1>7, TaskFrame, MethodReturnsFacts DEF TaskStep, CallStep
  <2>2. CASE task'[c] = "failed" /\ sv' = sv
    BY <1>0, <2>1, <2>2 DEF TasksFollowServe, OthersKept
  <2>3. CASE task'[c] = "sending" /\ Processed(c)
    <3>1. ~(sv.pc = "inline" /\ sv.req = c) => sv' = sv
      BY <2>3, ProcessedFacts DEF TypeOK
    <3> QED  BY <1>0, <2>1, <2>3, <3>1 DEF TasksFollowServe, OthersKept
  <2> QED  BY <1>7, <2>2, <2>3, MethodReturnsFacts
<1>8. ASSUME NEW c \in Calls, ReportFailure(c) PROVE TasksFollowServe'
  BY SMTT(40), <1>8, <1>0, ReportFailureFacts, ProcessedFacts, TaskFrame
     DEF TasksFollowServe, OthersKept, TaskStep, CallStep, TypeOK
<1>9. ASSUME NEW c \in Calls, SendResponse(c) PROVE TasksFollowServe'
  BY ZenonT(60), <1>9, <1>0, SendResponseFacts, TaskFrame
     DEF TasksFollowServe, OthersKept, TaskStep, CallStep, TypeOK
<1>10. ASSUME NEW c \in Calls, ReportUnsent(c) PROVE TasksFollowServe'
  BY ZenonT(60), <1>10, <1>0, ReportUnsentFacts, TaskFrame
     DEF TasksFollowServe, OthersKept, TaskStep, CallStep, TypeOK
<1>11. ASSUME NEW c \in Calls, CancelMethod(c) PROVE TasksFollowServe'
  <2>1. /\ begun' = begun /\ task[c] \in {"started", "used"} /\ OthersKept(c) /\ task'[c] = "done"
        /\ sv' = sv \/ sv'.pc \in {"select", "drain", "returned"}
    BY <1>11, TaskFrame, CancelMethodFacts DEF TaskStep
  <2>2. ~(sv.pc = "inline" /\ sv.req = c) => sv' = sv
    BY <1>11, CancelMethodFacts, ProcessedFacts DEF TypeOK
  <2> QED  BY <1>0, <2>1, <2>2 DEF TasksFollowServe, OthersKept
<1>12. ASSUME UNCHANGED vars PROVE TasksFollowServe'
  BY <1>12, <1>0 DEF TasksFollowServe, vars, clientVars, forwardVars, serverVars, taskVars
<1> QED
  BY <1>1, <1>2, <1>3, <1>4, <1>5, <1>6, <1>7, <1>8, <1>9, <1>10, <1>11, <1>12
     DEF Next, OutsideStep, ServeStep, DecideStep, CallStep
\* A method returns after it has used the target.
LEMMA ResultsPreserved ==
    TypeOK /\ RequestsInOrder /\ TasksFollowServe /\ ResultsFollowEffects /\ [Next]_vars
      => ResultsFollowEffects'
<1> SUFFICES ASSUME TypeOK, RequestsInOrder, TasksFollowServe, ResultsFollowEffects, [Next]_vars
             PROVE ResultsFollowEffects'
    OBVIOUS
<1>0. ToSet(effects) \subseteq Calls /\ ToSet(begun) \subseteq Calls /\ None \notin {"ok", "err"}
  BY ToSetFacts, SetupFacts DEF TypeOK
<1>1. ASSUME OutsideStep PROVE ResultsFollowEffects'
  BY <1>1, <1>0, OutsideFrame DEF ResultsFollowEffects
<1>2. ASSUME DecideStep PROVE ResultsFollowEffects'
  BY <1>2, <1>0, DecideFrame DEF ResultsFollowEffects
<1>3. ASSUME NEW c \in Calls, DispatchInline(c) \/ DispatchSpawned(c)
      PROVE ResultsFollowEffects'
  <2>1. task[c] = "none"
    BY <1>3, RequestsAreNew, BeginFacts DEF TasksFollowServe, Requests
  <2> QED  BY <1>3, <1>0, <2>1, BeginFacts DEF ResultsFollowEffects
<1>4. ASSUME NEW c \in Calls, AcquirePermit(c) PROVE ResultsFollowEffects'
  BY <1>4, <1>0, AcquireFacts, TaskFrame
     DEF ResultsFollowEffects, OthersKept, TaskStep, CallStep, TypeOK
<1>5. ASSUME NEW c \in Calls, UseTarget(c) PROVE ResultsFollowEffects'
  <2>1. /\ OthersKept(c) /\ task[c] = "started" /\ task'[c] = "used" /\ result' = result
        /\ ToSet(effects') = ToSet(effects) \cup {c}
    BY <1>5, UseFacts
  <2> QED  BY <1>0, <2>1 DEF ResultsFollowEffects, OthersKept
<1>6. ASSUME NEW c \in Calls, MethodReturns(c) PROVE ResultsFollowEffects'
  BY ZenonT(60), <1>6, <1>0, MethodReturnsFacts, ProcessedFacts, TaskFrame
     DEF ResultsFollowEffects, OthersKept, TaskStep, CallStep, TypeOK
<1>7. ASSUME NEW c \in Calls, ReportFailure(c) PROVE ResultsFollowEffects'
  BY ZenonT(60), <1>7, <1>0, ReportFailureFacts, ProcessedFacts, TaskFrame
     DEF ResultsFollowEffects, OthersKept, TaskStep, CallStep, TypeOK
<1>8. ASSUME NEW c \in Calls, SendResponse(c) PROVE ResultsFollowEffects'
  BY <1>8, <1>0, SendResponseFacts, TaskFrame
     DEF ResultsFollowEffects, OthersKept, TaskStep, CallStep, TypeOK
<1>9. ASSUME NEW c \in Calls, ReportUnsent(c) PROVE ResultsFollowEffects'
  BY <1>9, <1>0, ReportUnsentFacts, TaskFrame
     DEF ResultsFollowEffects, OthersKept, TaskStep, CallStep, TypeOK
<1>10. ASSUME NEW c \in Calls, CancelMethod(c) PROVE ResultsFollowEffects'
  BY ZenonT(60), <1>10, <1>0, CancelMethodFacts, ProcessedFacts, TaskFrame
     DEF ResultsFollowEffects, OthersKept, TaskStep, CallStep, TypeOK
<1>11. ASSUME UNCHANGED vars PROVE ResultsFollowEffects'
  BY <1>11, <1>0 DEF ResultsFollowEffects, vars, clientVars, forwardVars, serverVars, taskVars
<1> QED
  BY <1>1, <1>2, <1>3, <1>4, <1>5, <1>6, <1>7, <1>8, <1>9, <1>10, <1>11
     DEF Next, OutsideStep, ServeStep, DecideStep, CallStep

----------------------------------------------------------------------------
(* Calls take effect in order *)

\* Only calls by reference are processed on tasks of their own, and a server that runs
\* them so has no methods that take the target by value.
LEMMA KindFacts ==
    ASSUME setup \in Setups, NEW c \in Made, setup.kind[c] \in Served
    PROVE  /\ ~Inline(c) => setup.kind[c] = "Ref"
           /\ setup.server = "RFn" => setup.kind[c] = "Ref"
           /\ setup.kind[c] = "Value" => \A d : Inline(d)
<1> USE SetupFacts
<1>1. setup.kind[c] = "Value" => ~Concurrent
  <2>1. CASE setup.server = "ServerShared"
    BY <2>1 DEF Served
  <2>2. CASE setup.server = "ServerSharedMut"
    BY <2>2 DEF Served
  <2>3. CASE setup.server = "RFn"
    BY <2>3 DEF Served
  <2> QED  BY <2>1, <2>2, <2>3 DEF Concurrent
<1>2. setup.server = "RFn" => setup.kind[c] = "Ref"
  BY DEF Served
<1> QED  BY <1>1, <1>2 DEF Inline

\* While a method has the target mutably or by value nothing else has it.
Exclusive ==
    \A c, d \in Calls :
      /\ task[c] \in {"started", "used", "failed"} /\ task[d] \in {"started", "used", "failed"}
      /\ setup.kind[c] # "Ref"
      => d = c

\* A call that is dispatched is alone with the target unless it only reads, and then
\* no call that is being processed will write.
LEMMA DispatchExclusive ==
    ASSUME TypeOK, HoldersOK, TasksFollowServe, NEW c \in Calls,
           DispatchInline(c) \/ DispatchSpawned(c),
           NEW d \in Calls, task[d] \in {"queued", "started", "used", "failed"}
    PROVE  /\ ~Inline(d) /\ setup.kind[d] = "Ref"
           /\ setup.kind[c] # "Ref" => FALSE
<1>1. /\ sv.pc = "admitted" /\ setup.kind[c] \in Served /\ c \in Made
  BY BeginFacts
<1>2. d \in ToSet(begun) /\ d \in Made /\ setup.kind[d] \in Served /\ ~Inline(d)
  BY <1>1, ToSetFacts DEF TasksFollowServe, TypeOK
<1>3. setup.kind[d] = "Ref"
  BY <1>2, KindFacts DEF TypeOK
<1>4. ASSUME setup.kind[c] # "Ref" PROVE FALSE
  <2>1. setup.kind[c] = "RefMut" /\ Inline(c)
    BY <1>1, <1>2, <1>4, KindFacts, SetupFacts DEF TypeOK
  <2>2. Spawned = {}
    BY <2>1 DEF DispatchInline, DispatchSpawned
  <2>3. task[d] = "queued"
    BY <1>1, <2>2 DEF Spawned, Dispatched
  <2> QED  BY <1>1, <1>4, <2>3, KindFacts DEF TasksFollowServe, TypeOK
<1> QED  BY <1>2, <1>3, <1>4

\* A write waits until nothing else is dispatched, and nothing is dispatched during it.
LEMMA ExclusivePreserved ==
    TypeOK /\ HoldersOK /\ TasksFollowServe /\ Exclusive /\ [Next]_vars => Exclusive'
<1> SUFFICES ASSUME TypeOK, HoldersOK, TasksFollowServe, Exclusive, [Next]_vars PROVE Exclusive'
    OBVIOUS
<1>0. /\ setup' = setup /\ Served' = Served /\ \A d : Inline(d)' = Inline(d)
      /\ ToSet(begun) \subseteq Made /\ Made \subseteq Calls /\ Calls \subseteq Nat
  BY StableFacts, SetupFrame, ToSetFacts, SetupFacts DEF TypeOK
<1>1. ASSUME OutsideStep PROVE Exclusive'
  BY <1>1, <1>0, OutsideFrame DEF Exclusive
<1>2. ASSUME DecideStep PROVE Exclusive'
  BY <1>2, <1>0, DecideFrame DEF Exclusive
<1>3. ASSUME NEW c \in Calls, DispatchInline(c) \/ DispatchSpawned(c) PROVE Exclusive'
  <2>1. \A d \in Calls \ {c} : task'[d] = task[d]
    BY <1>3, BeginFacts
  <2>2. ASSUME NEW d \in Calls \ {c}, task[d] \in {"started", "used", "failed"}
        PROVE  setup.kind[d] = "Ref" /\ setup.kind[c] = "Ref"
    BY <1>3, <2>2, DispatchExclusive
  <2> QED  BY <1>0, <2>1, <2>2 DEF Exclusive
<1>4. ASSUME NEW c \in Calls, AcquirePermit(c) PROVE Exclusive'
  <2>1. OthersKept(c) /\ task[c] = "queued" /\ task'[c] = "started"
    BY <1>4, AcquireFacts
  <2>2. ASSUME NEW d \in Calls, task[d] # "none" PROVE setup.kind[d] = "Ref"
    BY <1>0, <2>1, <2>2, KindFacts DEF TasksFollowServe, TypeOK
  <2> QED  BY <1>0, <2>1, <2>2 DEF Exclusive, OthersKept
<1>5. ASSUME NEW c \in Calls, UseTarget(c) PROVE Exclusive'
  BY SMTT(40), <1>5, <1>0, UseFacts, TaskFrame DEF Exclusive, OthersKept, TaskStep, CallStep, TypeOK
<1>6. ASSUME NEW c \in Calls, LaterStep(c) PROVE Exclusive'
  <2>1. /\ OthersKept(c) /\ task'[c] \in {"failed", "sending", "unsent", "done"}
        /\ task'[c] = "failed" => task[c] = "used"
    BY <1>6, LaterFacts
  <2>2. \A d \in Calls : task'[d] \in {"started", "used", "failed"}
                            => task[d] \in {"started", "used", "failed"}
    BY <2>1 DEF OthersKept
  <2> QED  BY <1>0, <2>2 DEF Exclusive
<1>7. ASSUME UNCHANGED vars PROVE Exclusive'
  BY <1>7, <1>0 DEF Exclusive, vars, clientVars, forwardVars, serverVars, taskVars
<1> QED
  BY <1>1, <1>2, <1>3, <1>4, <1>5, <1>6, <1>7
     DEF Next, OutsideStep, ServeStep, DecideStep, CallStep, LaterStep
\* Only calls by reference on tasks of their own wait while later calls are dispatched.
LEMMA OvertakenPreserved ==
    TypeOK /\ HoldersOK /\ RequestsInOrder /\ TasksFollowServe /\ OvertakenInTasks /\ [Next]_vars
      => OvertakenInTasks'
<1> SUFFICES ASSUME TypeOK, HoldersOK, RequestsInOrder, TasksFollowServe, OvertakenInTasks,
    [Next]_vars
             PROVE OvertakenInTasks'
    OBVIOUS
<1>0. /\ setup' = setup /\ Served' = Served /\ \A d : Inline(d)' = Inline(d)
      /\ ToSet(begun) \subseteq Made /\ Made \subseteq Calls /\ Calls \subseteq Nat
  BY StableFacts, SetupFrame, ToSetFacts, SetupFacts DEF TypeOK
<1>1. ASSUME OutsideStep PROVE OvertakenInTasks'
  BY <1>1, <1>0, OutsideFrame DEF OvertakenInTasks
<1>2. ASSUME DecideStep PROVE OvertakenInTasks'
  BY <1>2, <1>0, DecideFrame DEF OvertakenInTasks
<1>3. ASSUME NEW c \in Calls, DispatchInline(c) \/ DispatchSpawned(c) PROVE OvertakenInTasks'
  <2>1. /\ \A d \in Calls \ {c} : task'[d] = task[d]
        /\ ToSet(begun') = ToSet(begun) \cup {c} /\ c \in Held /\ c \in Made
    BY <1>3, BeginFacts
  <2>2. ASSUME NEW d \in ToSet(begun) PROVE Before(setup.by, d, c)
    BY <2>1, <2>2 DEF RequestsInOrder, Precede, Requests
  <2>3. ASSUME NEW d \in ToSet(begun), task[d] \in {"queued", "started"}
        PROVE  ~Inline(d) /\ setup.kind[d] = "Ref" /\ setup.kind[c] = "Ref"
    BY <1>3, <1>0, <2>3, DispatchExclusive
  <2>4. ASSUME NEW a \in ToSet(begun'), NEW b \in ToSet(begun'),
               task'[a] \in {"queued", "started"}, setup.by[a] = setup.by[b], a < b
        PROVE  ~Inline(a) /\ setup.kind[a] = "Ref" /\ setup.kind[b] = "Ref"
    <3>0. a \in Nat /\ b \in Nat
      BY <1>0, <2>1, <2>4
    <3>1. a # b /\ a \in Nat /\ b \in Nat
      BY <2>4, <3>0
    <3>2. CASE a = c
      BY <1>0, <2>1, <2>2, <2>4, <3>1, <3>2 DEF Before
    <3>3. CASE b = c
      BY <1>0, <2>1, <2>3, <2>4, <3>1, <3>3
    <3>4. CASE a # c /\ b # c
      BY <1>0, <2>1, <2>4, <3>4 DEF OvertakenInTasks
    <3> QED  BY <3>2, <3>3, <3>4
  <2> QED  BY <1>0, <2>4 DEF OvertakenInTasks
<1>4. ASSUME NEW c \in Calls, AcquirePermit(c) PROVE OvertakenInTasks'
  <2>1. OthersKept(c) /\ task[c] = "queued" /\ begun' = begun
    BY <1>4, AcquireFacts, TaskFrame DEF TaskStep, CallStep
  <2>2. \A d \in ToSet(begun) :
          task'[d] \in {"queued", "started"} => task[d] \in {"queued", "started"}
    BY <1>0, <2>1 DEF OthersKept
  <2> QED  BY <1>0, <2>1, <2>2 DEF OvertakenInTasks
<1>5. ASSUME NEW c \in Calls, UseTarget(c) PROVE OvertakenInTasks'
  BY <1>5, <1>0, UseFacts, TaskFrame
     DEF OvertakenInTasks, OthersKept, TaskStep, CallStep, TypeOK
<1>6. ASSUME NEW c \in Calls, LaterStep(c) PROVE OvertakenInTasks'
  BY <1>6, <1>0, LaterFacts DEF OvertakenInTasks, OthersKept
<1>7. ASSUME UNCHANGED vars PROVE OvertakenInTasks'
  BY <1>7, <1>0 DEF OvertakenInTasks, vars, clientVars, forwardVars, serverVars, taskVars
<1> QED
  BY <1>1, <1>2, <1>3, <1>4, <1>5, <1>6, <1>7
     DEF Next, OutsideStep, ServeStep, DecideStep, CallStep, LaterStep

\* Calls take effect in the order in which they were made.
EffectsInOrder ==
    \A i, j \in 1..Len(effects) :
      i < j /\ effects[j] < effects[i] /\ setup.by[effects[i]] = setup.by[effects[j]]
        => /\ ~Inline(effects[j])
           /\ setup.kind[effects[i]] = "Ref" /\ setup.kind[effects[j]] = "Ref"

\* The target is used by a call that no earlier call still has to precede.
LEMMA EffectsPreserved ==
    TypeOK /\ TasksFollowServe /\ ResultsFollowEffects /\ OvertakenInTasks /\ EffectsInOrder /\ [Next]_vars
      => EffectsInOrder'
<1> SUFFICES ASSUME TypeOK, TasksFollowServe, ResultsFollowEffects, OvertakenInTasks,
    EffectsInOrder, [Next]_vars
             PROVE EffectsInOrder'
    OBVIOUS
<1>0. /\ setup' = setup /\ Served' = Served /\ \A d : Inline(d)' = Inline(d)
      /\ ToSet(begun) \subseteq Made /\ Made \subseteq Calls /\ Calls \subseteq Nat
  BY StableFacts, SetupFrame, ToSetFacts, SetupFacts DEF TypeOK
<1>1. ASSUME OutsideStep PROVE EffectsInOrder'
  BY <1>1, <1>0, OutsideFrame DEF EffectsInOrder
<1>2. ASSUME DecideStep PROVE EffectsInOrder'
  BY <1>2, <1>0, DecideFrame DEF EffectsInOrder
<1>3. ASSUME NEW c \in Calls, DispatchInline(c) \/ DispatchSpawned(c) PROVE EffectsInOrder'
  BY <1>3, <1>0, BeginFacts DEF EffectsInOrder
<1>4. ASSUME NEW c \in Calls, AcquirePermit(c) PROVE EffectsInOrder'
  <2>1. effects' = effects
    BY <1>4, AcquireFacts
  <2> QED  BY <1>0, <2>1 DEF EffectsInOrder
<1>5. ASSUME NEW c \in Calls, UseTarget(c) PROVE EffectsInOrder'
  <2>1. task[c] = "started" /\ effects' = Append(effects, c) /\ c \in ToSet(begun)
    BY <1>5, UseFacts DEF TasksFollowServe
  <2>2. /\ Len(effects') = Len(effects) + 1 /\ effects'[Len(effects) + 1] = c /\ Len(effects) \in Nat
        /\ \A i \in 1..Len(effects) : effects'[i] = effects[i]
    BY <2>1 DEF TypeOK
  <2>3. ASSUME NEW i \in 1..Len(effects), c < effects[i], setup.by[effects[i]] = setup.by[c]
        PROVE  ~Inline(c) /\ setup.kind[effects[i]] = "Ref" /\ setup.kind[c] = "Ref"
    <3>1. effects[i] \in ToSet(effects) /\ effects[i] \in Calls
      BY ToSetFacts DEF TypeOK
    <3>2. effects[i] \in ToSet(begun)
      BY <3>1 DEF ResultsFollowEffects, TasksFollowServe
    <3> QED  BY <2>1, <2>3, <3>2 DEF OvertakenInTasks
  <2> QED  BY <1>0, <2>2, <2>3 DEF EffectsInOrder
<1>6. ASSUME NEW c \in Calls, LaterStep(c) PROVE EffectsInOrder'
  BY <1>6, <1>0, LaterFacts DEF EffectsInOrder, OthersKept
<1>7. ASSUME UNCHANGED vars PROVE EffectsInOrder'
  BY <1>7, <1>0 DEF EffectsInOrder, vars, clientVars, forwardVars, serverVars, taskVars
<1> QED
  BY <1>1, <1>2, <1>3, <1>4, <1>5, <1>6, <1>7
     DEF Next, OutsideStep, ServeStep, DecideStep, CallStep, LaterStep

----------------------------------------------------------------------------
(* A failed call stops serve *)

\* After a failure that stops the server, serve neither receives nor dispatches.
LEMMA FailurePreserved ==
    TypeOK /\ HoldersOK /\ RequestsInOrder /\ TasksFollowServe /\ ResultsFollowEffects /\ FailureBlocks /\ [Next]_vars
      => FailureBlocks'
<1> SUFFICES ASSUME TypeOK, HoldersOK, RequestsInOrder, TasksFollowServe, ResultsFollowEffects,
    FailureBlocks, [Next]_vars
             PROVE FailureBlocks'
    OBVIOUS
<1>0. /\ setup' = setup /\ Served' = Served /\ \A d : Inline(d)' = Inline(d)
      /\ ToSet(begun) \subseteq Made /\ Made \subseteq Calls /\ Calls \subseteq Nat
  BY StableFacts, SetupFrame, ToSetFacts, SetupFacts DEF TypeOK
<1>1. ASSUME OutsideStep PROVE FailureBlocks'
  BY <1>1, <1>0, OutsideFrame DEF FailureBlocks
<1>2. ASSUME DecideStep PROVE FailureBlocks'
  <2>1. /\ begun' = begun /\ result' = result /\ task' = task /\ sv.pc # "inline"
        /\ sv.pc \in {"drain", "select"} => sv.req = None
    BY <1>2, DecideFrame DEF HoldersOK
  <2>2. ASSUME (sv.pc = "select" /\ errors # <<>>) \/ sv.pc \in {"drain", "returned"}
        PROVE  sv'.pc = "returned"
    <3>1. \E res : Return(res)
      BY <1>2, <2>2, DrainFacts
         DEF DecideStep, ServeFails, Terminate, ReceiveRequest, PreDispatch, EndOfRequests,
             IgnoreRequest, Undecodable
    <3> QED  BY <3>1 DEF Return
  <2> QED  BY <1>0, <2>1, <2>2 DEF FailureBlocks
<1>3. ASSUME NEW c \in Calls, DispatchInline(c) \/ DispatchSpawned(c) PROVE FailureBlocks'
  <2>1. ASSUME NEW d \in ToSet(begun), result[d] = "err", d \in setup.stop, Inline(d)
        PROVE FALSE
    BY <1>3, <2>1, BeginFacts DEF FailureBlocks
  <2>2. result' = result /\ ToSet(begun') = ToSet(begun) \cup {c} /\ c \in Held
    BY <1>3, BeginFacts
  <2>3. result[c] # "err"
    <3>1. task[c] = "none"
      BY <1>3, <2>2, RequestsAreNew DEF Requests, TasksFollowServe
    <3> QED  BY <3>1, SetupFacts DEF ResultsFollowEffects, TypeOK
  <2> QED  BY <1>0, <2>1, <2>2, <2>3 DEF FailureBlocks
<1>4. ASSUME NEW c \in Calls, AcquirePermit(c) PROVE FailureBlocks'
  <2>1. /\ begun' = begun /\ OthersKept(c) /\ task[c] = "queued" /\ result' = result /\ sv' = sv
        /\ errors' = errors
    BY <1>4, TaskFrame, AcquireFacts DEF TaskStep, CallStep
  <2> QED  BY <1>0, <2>1 DEF FailureBlocks, OthersKept
<1>5. ASSUME NEW c \in Calls, UseTarget(c) PROVE FailureBlocks'
  <2>1. /\ begun' = begun /\ OthersKept(c) /\ task[c] = "started" /\ result' = result /\ sv' = sv
        /\ errors' = errors
    BY <1>5, TaskFrame, UseFacts DEF TaskStep, CallStep
  <2> QED  BY <1>0, <2>1 DEF FailureBlocks, OthersKept
<1>6. ASSUME NEW c \in Calls, MethodReturns(c) PROVE FailureBlocks'
  <2>1. /\ begun' = begun /\ OthersKept(c) /\ task[c] = "used" /\ errors' = errors
        /\ c \in ToSet(begun)
    BY <1>6, TaskFrame, MethodReturnsFacts DEF TaskStep, CallStep, TasksFollowServe
  <2>2. CASE task'[c] = "failed" /\ sv' = sv
    <3>1. Inline(c) => sv.pc = "inline" /\ sv.req = c /\ begun[Len(begun)] = c
      BY <2>1 DEF TasksFollowServe
    <3>2. ASSUME NEW d \in ToSet(begun), d # c, result[d] = "err", d \in setup.stop, Inline(d)
          PROVE  task'[d] = task[d] /\ result'[d] = result[d]
      BY <1>0, <2>1, <3>2 DEF OthersKept
    <3> QED  BY <1>0, <2>1, <2>2, <3>1 DEF FailureBlocks, OthersKept
  <2>3. CASE task'[c] = "sending" /\ (result'[c] = "err" => c \notin setup.stop) /\ Processed(c)
    <3>1. /\ sv.pc = "inline" /\ sv.req = c => sv'.pc \in {"select", "drain", "returned"}
          /\ ~(sv.pc = "inline" /\ sv.req = c) => sv' = sv
      BY <2>3, ProcessedFacts DEF TypeOK
    <3>2. ASSUME NEW d \in ToSet(begun), result'[d] = "err", d \in setup.stop, Inline(d)
          PROVE  /\ d # c /\ result[d] = "err" /\ task'[d] = task[d]
                 /\ ~(sv.pc = "inline" /\ sv.req = c)
      <4>1. d # c /\ result[d] = "err" /\ task'[d] = task[d]
        BY <1>0, <2>1, <2>3, <3>2 DEF OthersKept
      <4> QED  BY <3>2, <4>1 DEF FailureBlocks
    <3> QED  BY <1>0, <2>1, <3>1, <3>2 DEF FailureBlocks
  <2> QED  BY <1>6, <2>2, <2>3, MethodReturnsFacts
<1>7. ASSUME NEW c \in Calls, ReportFailure(c) PROVE FailureBlocks'
  <2>1. /\ begun' = begun /\ OthersKept(c) /\ task[c] = "failed" /\ result' = result
        /\ c \in ToSet(begun)
    BY <1>7, TaskFrame, ReportFailureFacts DEF TaskStep, CallStep, TasksFollowServe
  <2>2. /\ sv.pc = "inline" /\ sv.req = c => sv'.pc \in {"select", "drain", "returned"}
        /\ ~(sv.pc = "inline" /\ sv.req = c) => sv' = sv
    BY <1>7, ReportFailureFacts, ProcessedFacts DEF TypeOK
  <2>3. Serving => errors' # <<>>
    BY <1>7, ReportFailureFacts, AppendFacts DEF Report, TypeOK, ErrorType
  <2>4. ASSUME NEW d \in ToSet(begun), result[d] = "err", d \in setup.stop, Inline(d)
        PROVE  /\ begun[Len(begun)] = d
               /\ \/ sv'.pc = "inline" /\ sv'.req = d /\ task'[d] = "failed"
                  \/ sv'.pc = "select" /\ errors' # <<>>
                  \/ sv'.pc \in {"drain", "returned"}
    <3>1. CASE sv.pc = "inline" /\ sv.req = c
      BY <2>2, <2>3, <2>4, <3>1 DEF FailureBlocks, Serving
    <3>2. CASE ~(sv.pc = "inline" /\ sv.req = c)
      <4>1. sv.pc = "inline" /\ sv.req = d => d # c
        BY <3>2
      <4> QED  BY <1>0, <2>1, <2>2, <2>3, <2>4, <3>2, <4>1 DEF FailureBlocks, OthersKept, Serving
    <3> QED  BY <3>1, <3>2
  <2> QED  BY <1>0, <2>1, <2>4 DEF FailureBlocks
<1>8. ASSUME NEW c \in Calls, SendResponse(c) PROVE FailureBlocks'
  <2>1. /\ begun' = begun /\ OthersKept(c) /\ task[c] = "sending" /\ result' = result /\ sv' = sv
        /\ errors' = errors
    BY <1>8, TaskFrame, SendResponseFacts DEF TaskStep, CallStep
  <2> QED  BY <1>0, <2>1 DEF FailureBlocks, OthersKept
<1>9. ASSUME NEW c \in Calls, ReportUnsent(c) PROVE FailureBlocks'
  <2>1. /\ begun' = begun /\ OthersKept(c) /\ task[c] = "unsent" /\ result' = result /\ sv' = sv
    BY <1>9, TaskFrame, ReportUnsentFacts DEF TaskStep, CallStep
  <2>2. errors # <<>> => errors' # <<>>
    BY <1>9, ReportUnsentFacts DEF Report, TypeOK, ErrorType
  <2> QED  BY <1>0, <2>1, <2>2 DEF FailureBlocks, OthersKept
<1>10. ASSUME NEW c \in Calls, CancelMethod(c) PROVE FailureBlocks'
  <2>1. /\ begun' = begun /\ OthersKept(c) /\ task[c] \in {"started", "used"} /\ result' = result
        /\ errors' = errors
    BY <1>10, TaskFrame, CancelMethodFacts DEF TaskStep
  <2>2. ~(sv.pc = "inline" /\ sv.req = c) => sv' = sv
    BY <1>10, CancelMethodFacts, ProcessedFacts DEF TypeOK
  <2>3. ASSUME NEW d \in ToSet(begun), result[d] = "err", d \in setup.stop, Inline(d)
        PROVE  ~(sv.pc = "inline" /\ sv.req = c) /\ (task[d] = "failed" => task'[d] = "failed")
    BY <1>0, <2>1, <2>3 DEF FailureBlocks, OthersKept
  <2> QED  BY <1>0, <2>1, <2>2, <2>3 DEF FailureBlocks
<1>11. ASSUME UNCHANGED vars PROVE FailureBlocks'
  BY <1>11, <1>0 DEF FailureBlocks, vars, clientVars, forwardVars, serverVars, taskVars
<1> QED
  BY <1>1, <1>2, <1>3, <1>4, <1>5, <1>6, <1>7, <1>8, <1>9, <1>10, <1>11
     DEF Next, OutsideStep, ServeStep, DecideStep, CallStep

----------------------------------------------------------------------------
(* Callers are told what happened *)

Pending == {"queued", "started", "used", "failed", "sending"}

\* What becomes of the task and of the result of a call.
TaskMoves(d) ==
    /\ task[d] = "done" => task'[d] = "done"
    /\ result'[d] = result[d] \/ task[d] = "used"
    /\ task'[d] = "done" /\ task[d] # "done" =>
         \/ task[d] \in {"sending", "unsent"}
         \/ Cancellable(d) /\ call' = call /\ link' = link /\ (call[d] = "cancelled" \/ ~link)
    /\ task'[d] \in Pending /\ task[d] \notin Pending => d \in Requests /\ d \notin setup.garbled

LEMMA TaskMovesFacts ==
    ASSUME TypeOK, RequestsInOrder, TasksFollowServe, [Next]_vars, NEW d \in Calls
    PROVE  TaskMoves(d)
<1> USE DEF TaskMoves, Pending
<1>1. ASSUME OutsideStep PROVE TaskMoves(d)
  BY <1>1, OutsideFrame
<1>2. ASSUME DecideStep PROVE TaskMoves(d)
  BY <1>2, DecideFrame
<1>3. ASSUME NEW c \in Calls, DispatchInline(c) \/ DispatchSpawned(c) PROVE TaskMoves(d)
  <2>1. c \in Requests /\ task[c] = "none" /\ c \notin setup.garbled
    BY <1>3, BeginFacts, RequestsAreNew DEF Requests, TasksFollowServe
  <2> QED  BY <1>3, <2>1, BeginFacts
<1>4. ASSUME NEW c \in Calls, AcquirePermit(c) PROVE TaskMoves(d)
  BY <1>4, AcquireFacts DEF OthersKept
<1>5. ASSUME NEW c \in Calls, UseTarget(c) PROVE TaskMoves(d)
  BY <1>5, UseFacts DEF OthersKept
<1>6. ASSUME NEW c \in Calls, MethodReturns(c) PROVE TaskMoves(d)
  BY <1>6, MethodReturnsFacts DEF OthersKept
<1>7. ASSUME NEW c \in Calls, ReportFailure(c) PROVE TaskMoves(d)
  BY <1>7, ReportFailureFacts DEF OthersKept
<1>8. ASSUME NEW c \in Calls, SendResponse(c) PROVE TaskMoves(d)
  BY <1>8, SendResponseFacts DEF OthersKept
<1>9. ASSUME NEW c \in Calls, ReportUnsent(c) PROVE TaskMoves(d)
  BY <1>9, ReportUnsentFacts DEF OthersKept
<1>10. ASSUME NEW c \in Calls, CancelMethod(c) PROVE TaskMoves(d)
  BY <1>10, CancelMethodFacts, TaskFrame DEF OthersKept, TaskStep
<1>11. ASSUME UNCHANGED vars PROVE TaskMoves(d)
  BY <1>11 DEF vars, taskVars
<1> QED
  BY <1>1, <1>2, <1>3, <1>4, <1>5, <1>6, <1>7, <1>8, <1>9, <1>10, <1>11
     DEF Next, OutsideStep, ServeStep, DecideStep, CallStep

\* A request is in one place.
LEMMA PlacesApart ==
    ASSUME TypeOK, RequestsInOrder
    PROVE  /\ Held \cap (ToSet(queue) \cup InForward \cup ToSet(wire)) = {}
           /\ ToSet(queue) \cap (InForward \cup ToSet(wire)) = {}
           /\ InForward \cap ToSet(wire) = {}
<1>1. Requests \subseteq Nat
  BY ToSetFacts, SetupFacts DEF Requests, Held, InForward, TypeOK
<1>2. \A c \in Requests : ~Before(setup.by, c, c)
  BY <1>1 DEF Before
<1> QED  BY <1>2 DEF RequestsInOrder, Precede, Requests

\* The response of a call that is dropped.
DropMoves(d) ==
    /\ response[d] = None /\ response'[d] = "dropped"
    /\ d \notin Requests' /\ call'[d] # "new" /\ task'[d] \notin Pending
    /\ LossHasCause(d)' \/ call'[d] = "cancelled"
    /\ d \in ToSet(begun') => call'[d] = "cancelled" \/ ~link' \/ task'[d] = "unsent" \/ IsFunction

\* The response of a call that is rejected.
RejectMoves(d) ==
    /\ response[d] = None /\ response'[d] = "rejected"
    /\ call'[d] # "new" /\ task'[d] \notin Pending
    /\ RejectionHasCause(d)'

ResponseMoves(d) ==
    \/ response'[d] = response[d] \/ RejectMoves(d)
    \/ task[d] = "sending" /\ task'[d] = "done" /\ response'[d] = result[d] /\ result' = result
    \/ DropMoves(d)

LEMMA ResponseMovesFacts ==
    ASSUME TypeOK, HoldersOK, RequestsInOrder, RequestsMade, TasksFollowServe, [Next]_vars,
           NEW d \in Calls
    PROVE  ResponseMoves(d)
<1>0. /\ setup' = setup /\ Served' = Served /\ (~link => ~link')
      /\ (~Serving => ~Serving') /\ (~Accepting => ~Accepting')
      /\ ToSet(begun) \subseteq Calls /\ response' \in ResponseType
  BY StableFacts, SetupFrame, ToSetFacts, SetupFacts, TypesPreserved DEF TypeOK
<1>a. /\ \A c \in ToSet(begun) \cup Requests : call[c] # "new" /\ c \in Made
      /\ \A c \in Requests : c \notin ToSet(begun) /\ (c \in Calls => task[c] = "none")
  BY RequestsAreNew, ToSetFacts
     DEF RequestsMade, TasksFollowServe, Requests, Held, InForward, TypeOK
<1>b. RequestsMove
  BY OrderPreserved
<1> DEFINE dropped(cs) == \A c \in Calls : response'[c] =
             IF c \in cs /\ response[c] = None THEN "dropped" ELSE response[c]
<1>1. ASSUME NEW c \in Made, StartCall(c) PROVE ResponseMoves(d)
  <2>1. CASE link
    BY <1>1, <2>1 DEF StartCall, ResponseMoves
  <2>2. CASE ~link
    <3>1. /\ dropped({c}) /\ call[c] = "new" /\ wire' = wire /\ fw' = fw /\ sv' = sv
          /\ queue' = queue /\ task' = task /\ begun' = begun
      BY <1>1, <2>2, DroppedFacts DEF StartCall, MayStart, TypeOK, serverVars, taskVars
    <3>2. call'[c] = "waiting" /\ c \in Calls
      BY <1>1, SetupFacts DEF StartCall, TypeOK, CallType
    <3>3. Requests' = Requests
      BY <3>1 DEF Requests, Held, InForward
    <3>4. c \notin ToSet(begun) \cup Requests /\ task[c] = "none"
      BY <1>a, <3>1, <3>2 DEF TasksFollowServe
    <3>5. LossHasCause(c)'
      BY <1>0, <2>2 DEF LossHasCause
    <3> QED  BY <3>1, <3>2, <3>3, <3>4, <3>5 DEF ResponseMoves, DropMoves, Pending
  <2> QED  BY <2>1, <2>2
<1>2. ASSUME Discard PROVE ResponseMoves(d)
  <2>1. /\ wire' = <<>> /\ ~Accepting /\ call' = call /\ task' = task
        /\ queue' = queue /\ fw' = fw /\ sv' = sv /\ begun' = begun
    BY <1>2 DEF Discard, clientVars, serverVars, taskVars
  <2>2. ASSUME d \in ToSet(wire)
        PROVE  d \notin Requests' /\ LossHasCause(d)' /\ RejectionHasCause(d)'
    <3>1. d \notin Requests'
      BY <2>1, <2>2, PlacesApart, EmptyFacts DEF Requests, Held, InForward
    <3>2. d \notin ToSet(begun')
      BY <1>a, <2>1, <2>2 DEF Requests
    <3> QED  BY <1>0, <2>1, <3>1, <3>2 DEF LossHasCause, RejectionHasCause
  <2>3. ToSet(wire) \subseteq Requests
    BY DEF Requests
  <2>4. CASE response'[d] = response[d]
    BY <2>4 DEF ResponseMoves
  <2>5. CASE /\ d \in ToSet(wire) /\ response[d] = None
             /\ response'[d] \in {"dropped", "rejected"}
    BY <1>a, <2>1, <2>2, <2>3, <2>5 DEF ResponseMoves, DropMoves, RejectMoves, Pending
  <2> QED  BY <1>2, <2>4, <2>5, DiscardFacts
<1>3. ASSUME ForwardSend PROVE ResponseMoves(d)
  <2>1. CASE Serving
    BY <1>3, <2>1 DEF ForwardSend, ResponseMoves
  <2>2. CASE ~Serving
    <3>0. PICK c \in Made : c = fw.req
      BY <1>3 DEF ForwardSend, TypeOK
    <3>1. /\ dropped({c}) /\ fw'.req = None /\ call' = call /\ task' = task
          /\ queue' = queue /\ wire' = wire /\ sv' = sv /\ begun' = begun
      BY <1>3, <2>2, <3>0, DroppedFacts DEF ForwardSend, TypeOK, clientVars, taskVars
    <3>2. c \in InForward /\ InForward \subseteq Requests
      BY <3>0, SetupFacts DEF InForward, Requests, TypeOK
    <3>3. c \notin Requests'
      BY <3>1, <3>2, PlacesApart DEF Requests, Held, InForward
    <3>4. LossHasCause(c)'
      BY <1>0, <1>a, <2>2, <3>1, <3>2, <3>3 DEF LossHasCause
    <3> QED  BY <1>a, <3>1, <3>2, <3>3, <3>4 DEF ResponseMoves, DropMoves, Pending
  <2> QED  BY <2>1, <2>2
<1>4. ASSUME NEW res \in {"Ok", "CallFailed", "ResponseSend", "Monitor"}, Return(res),
             call' = call, task' = task, begun' = begun, fw' = fw, wire' = wire,
             sv.req = None \/ (sv.req \in setup.garbled /\ sv.pc = "received")
      PROVE  ResponseMoves(d)
  <2>1. /\ dropped(ToSet(queue) \cup ({sv.req} \ {None})) /\ queue' = <<>>
        /\ sv'.pc = "returned" /\ sv'.req = None
    BY <1>4, ReturnFacts DEF TypeOK
  <2>2. Requests' = InForward \cup ToSet(wire) /\ ~Serving'
    BY <1>4, <2>1, HeldFacts, EmptyFacts DEF Requests, InForward, Serving
  <2>3. {sv.req} \ {None} \subseteq Held
    BY <1>4 DEF Held
  <2>4. ASSUME d \in ToSet(queue) \cup ({sv.req} \ {None})
        PROVE  d \in Requests /\ d \notin Requests' /\ LossHasCause(d)'
    <3>1. d \in Requests
      BY <2>3, <2>4 DEF Requests
    <3>2. d \notin Requests'
      BY <2>2, <2>3, <2>4, PlacesApart
    <3>3. d \notin ToSet(begun')
      BY <1>4, <1>a, <3>1
    <3> QED  BY <2>2, <3>1, <3>2, <3>3 DEF LossHasCause
  <2> QED  BY <1>4, <1>a, <2>1, <2>4 DEF ResponseMoves, DropMoves, Pending
<1>5. ASSUME NEW c \in Calls, sv.pc \in {"received", "admitted"}, sv.req = c,
             response' = Dropped({c}), sv'.pc = "select", setup.kind[c] \notin Served,
             call' = call, task' = task, queue' = queue, fw' = fw, wire' = wire, begun' = begun
      PROVE  ResponseMoves(d)
  <2>1. dropped({c})
    BY <1>5, DroppedFacts DEF TypeOK
  <2>2. c \in Held /\ Held \subseteq Requests /\ c # None
    BY <1>5, SetupFacts DEF Held, Requests, TypeOK
  <2>3. c \notin Requests'
    BY <1>5, <2>2, PlacesApart, HeldFacts DEF Requests, InForward
  <2>4. LossHasCause(c)'
    BY <1>0, <1>5 DEF LossHasCause
  <2> QED  BY <1>5, <1>a, <2>1, <2>2, <2>3, <2>4 DEF ResponseMoves, DropMoves, Pending
<1>6. ASSUME DecideStep PROVE ResponseMoves(d)
  <2>0. call' = call /\ task' = task /\ begun' = begun /\ fw' = fw /\ wire' = wire
    BY <1>6, DecideFrame
  <2>1. CASE ServeFails
    <3>1. sv.req = None
      BY <2>1 DEF ServeFails, HoldersOK
    <3>2. \E res \in {"Ok", "CallFailed", "ResponseSend", "Monitor"} : Return(res)
      BY <2>1, ServeFailsFacts DEF ErrorType
    <3> QED  BY <1>4, <2>0, <3>1, <3>2
  <2>2. CASE Terminate
    <3>1. sv.req = None
      BY <2>2 DEF Terminate, HoldersOK
    <3>2. \E res \in {"Ok", "CallFailed", "ResponseSend", "Monitor"} : Return(res)
      BY <2>2 DEF Terminate
    <3> QED  BY <1>4, <2>0, <3>1, <3>2
  <2>3. CASE ReceiveRequest \/ PreDispatch
    BY <2>3 DEF ReceiveRequest, PreDispatch, ResponseMoves
  <2>4. CASE EndOfRequests
    <3>1. sv.req = None
      BY <2>4 DEF EndOfRequests
    <3>2. CASE Return("Ok")
      BY <1>4, <2>0, <3>1, <3>2
    <3>3. CASE response' = response
      BY <3>3 DEF ResponseMoves
    <3> QED  BY <2>4, <3>2, <3>3, EndOfRequestsFacts
  <2>5. CASE Drain
    <3>1. sv.req = None
      BY <2>5 DEF Drain, HoldersOK
    <3>2. \E res \in {"Ok", "CallFailed", "ResponseSend", "Monitor"} : Return(res)
      BY <2>5, DrainFacts DEF ErrorType
    <3> QED  BY <1>4, <2>0, <3>1, <3>2
  <2>6. ASSUME NEW c \in Calls, IgnoreRequest(c) PROVE ResponseMoves(d)
    <3>1. sv'.pc = "select"
      BY <2>6, IgnoreFacts
    <3> QED  BY <1>5, <2>0, <2>6, <3>1 DEF IgnoreRequest
  <2>7. ASSUME NEW c \in Calls, Undecodable(c) PROVE ResponseMoves(d)
    <3>1. sv.pc = "received" /\ sv.req = c /\ c \in setup.garbled
      BY <2>7, UndecodableFacts
    <3>2. CASE Return("Monitor")
      BY <1>4, <2>0, <3>1, <3>2
    <3>3. CASE response' = response
      BY <3>3 DEF ResponseMoves
    <3> QED  BY <2>7, <3>2, <3>3, UndecodableFacts
  <2> QED  BY <1>6, <2>1, <2>2, <2>3, <2>4, <2>5, <2>6, <2>7 DEF DecideStep
<1>7. ASSUME NEW c \in Calls, TaskStep(c) PROVE ResponseMoves(d)
  <2>0. /\ call' = call /\ begun' = begun /\ link' = link
        /\ task[c] # "none" => c \in ToSet(begun) /\ c \notin Requests'
    <3>1. call' = call /\ begun' = begun /\ link' = link
      BY <1>7, TaskFrame
    <3>2. ASSUME c \in ToSet(begun) PROVE c \notin Requests' 
      BY <1>7, <1>a, <1>b, <3>2 DEF RequestsMove, StartCall, MayStart
    <3> QED  BY <3>1, <3>2 DEF TasksFollowServe
  <2>1. CASE SendResponse(c)
    <3>1. /\ task[c] = "sending" /\ task'[c] \in {"done", "unsent"} /\ result' = result
          /\ d # c => response'[d] = response[d]
      BY <2>1, SendResponseFacts DEF OthersKept
    <3>2. CASE task'[c] = "done" /\ response'[c] = result[c]
      BY <3>1, <3>2 DEF ResponseMoves
    <3>3. CASE /\ c \in setup.large /\ task'[c] = (IF IsFunction THEN "done" ELSE "unsent")
               /\ response'[c] = IF response[c] = None THEN "dropped" ELSE response[c]
      <4>1. LossHasCause(c)'
        BY <1>0, <3>3 DEF LossHasCause
      <4> QED  BY <1>a, <2>0, <3>1, <3>3, <4>1 DEF ResponseMoves, DropMoves, Pending
    <3> QED  BY <2>1, <3>2, <3>3, SendResponseFacts
  <2>2. CASE CancelMethod(c)
    <3>1. /\ task[c] \in {"started", "used"} /\ task'[c] = "done"
          /\ call[c] = "cancelled" \/ ~link
          /\ d # c => response'[d] = response[d]
          /\ response'[c] = (IF response[c] = None THEN "dropped" ELSE response[c])
      BY <2>2, CancelMethodFacts DEF OthersKept
    <3>2. call'[c] = "cancelled" \/ LossHasCause(c)'
      BY <2>0, <3>1 DEF LossHasCause
    <3> QED  BY <1>a, <2>0, <3>1, <3>2 DEF ResponseMoves, DropMoves, Pending
  <2>3. CASE ~SendResponse(c) /\ ~CancelMethod(c)
    BY <1>7, <2>3
       DEF TaskStep, CallStep, AcquirePermit, UseTarget, MethodReturns, ReportFailure,
           ReportUnsent, ResponseMoves
  <2> QED  BY <2>1, <2>2, <2>3
<1>8. ASSUME \/ \E c \in Made : CallRefused(c) \/ CallReturns(c) \/ CancelCall(c)
             \/ \E k \in Clients : DropClient(k)
             \/ Lose \/ WindowElapses \/ DropProvider
             \/ HandOver \/ Attach \/ Reserve \/ ForwardRecv \/ ForwardClosed \/ ForwardDone
             \/ \E c \in Calls : DispatchInline(c) \/ DispatchSpawned(c)
             \/ UNCHANGED vars
      PROVE  ResponseMoves(d)
  BY <1>8
     DEF CallRefused, CallReturns, CancelCall, DropClient, Lose, WindowElapses, DropProvider,
         HandOver, Attach, Reserve, ForwardRecv, ForwardClosed, ForwardDone, DispatchInline,
         DispatchSpawned, Begin, ResponseMoves, vars
<1>9. ASSUME Transfer \/ ForwardUndecodable PROVE ResponseMoves(d)
  <2>1. /\ response' = Rejected({Head(wire)} \cap setup.garbled) /\ wire # <<>>
        /\ call' = call /\ task' = task
    BY <1>9 DEF Transfer, ForwardUndecodable, RejectedIfGarbled, clientVars, taskVars
  <2>2. Head(wire) \in Requests
    BY <2>1, TailFacts DEF Requests, TypeOK
  <2>3. CASE response'[d] = response[d]
    BY <2>3 DEF ResponseMoves
  <2>4. CASE d = Head(wire) /\ d \in setup.garbled /\ response[d] = None /\ response'[d] = "rejected"
    BY <1>0, <1>a, <2>1, <2>2, <2>4 DEF ResponseMoves, RejectMoves, RejectionHasCause, Pending
  <2> QED  BY <2>1, <2>3, <2>4, RejectedFacts DEF TypeOK
<1> QED
  BY <1>1, <1>2, <1>3, <1>6, <1>7, <1>8, <1>9
     DEF Next, Forward, ServeStep, DecideStep, TaskStep

\* A cause does not go away.
LEMMA CauseStays ==
    ASSUME TypeOK, RequestsInOrder, RequestsMade, [Next]_vars, NEW d \in Calls,
           ~StartCall(d)
    PROVE  /\ LossHasCause(d) => LossHasCause(d)'
           /\ RejectionHasCause(d) => RejectionHasCause(d)'
<1>1. /\ setup' = setup /\ Served' = Served /\ (~link => ~link')
      /\ (~Serving => ~Serving') /\ (~Accepting => ~Accepting')
  BY StableFacts, SetupFrame
<1>2. RequestsMove
  BY OrderPreserved
<1> QED  BY <1>1, <1>2 DEF LossHasCause, RejectionHasCause, RequestsMove

\* A response is given by the method or dropped for a cause, and a cause remains one.
LEMMA ResponsesPreserved ==
    TypeOK /\ HoldersOK /\ RequestsInOrder /\ RequestsMade /\ TasksFollowServe
      /\ ResponsesHaveCause /\ [Next]_vars => ResponsesHaveCause'
<1> SUFFICES ASSUME TypeOK, HoldersOK, RequestsInOrder, RequestsMade, TasksFollowServe,
                    ResponsesHaveCause, [Next]_vars, NEW d \in Calls
             PROVE  /\ call'[d] = "new" => response'[d] = None
                    /\ d \in Requests' => response'[d] \in {None, "rejected"}
                    /\ response'[d] \in {"ok", "err"} => response'[d] = result'[d] /\ task'[d] = "done"
                    /\ response'[d] = "dropped" => LossHasCause(d)' \/ call'[d] = "cancelled"
                    /\ response'[d] = "rejected" => RejectionHasCause(d)'
                    /\ task'[d] \in Pending => response'[d] = None
    BY DEF ResponsesHaveCause, Pending
<1>0. None \notin {"ok", "err", "dropped", "rejected"}
  BY SetupFacts DEF TypeOK
<1>1. /\ call[d] = "new" => response[d] = None
      /\ d \in Requests => response[d] \in {None, "rejected"}
      /\ response[d] \in {"ok", "err"} => response[d] = result[d] /\ task[d] = "done"
      /\ response[d] = "dropped" => LossHasCause(d) \/ call[d] = "cancelled"
      /\ response[d] = "rejected" => RejectionHasCause(d)
      /\ task[d] \in Pending => response[d] = None
  BY DEF ResponsesHaveCause, Pending
<1>2. /\ call'[d] = "new" => call[d] = "new"
      /\ StartCall(d) => call[d] = "new" /\ call'[d] = "waiting"
      /\ call[d] = "cancelled" => call'[d] = "cancelled"
      /\ d \in Requests' => d \in Requests \/ call[d] = "new"
  <2>1. \A o \in Outcomes(d) : o # "new"
    BY OutcomesFacts
  <2>2. StartCall(d) => call[d] = "new" /\ call'[d] = "waiting"
    BY DEF StartCall, MayStart, TypeOK, CallType
  <2>3. /\ call'[d] = "new" => call[d] = "new"
        /\ call[d] = "cancelled" => call'[d] = "cancelled"
    BY <2>1, CallMoves DEF MayStart, SendErrors
  <2>4. d \in Requests' => d \in Requests \/ StartCall(d)
    BY OrderPreserved DEF RequestsMove
  <2> QED  BY <2>2, <2>3, <2>4
<1>3. TaskMoves(d)
  BY TaskMovesFacts
<1>4. CASE response'[d] = response[d]
  <2>1. response[d] # None => call[d] # "new"
    BY <1>1
  <2>2. response[d] = "dropped" => LossHasCause(d)' \/ call'[d] = "cancelled"
    BY <1>0, <1>1, <1>2, <2>1, CauseStays
  <2>3. response[d] = "rejected" => RejectionHasCause(d)'
    BY <1>0, <1>1, <1>2, <2>1, CauseStays
  <2>4. ASSUME task'[d] \in Pending PROVE response[d] = None
    <3>1. CASE task[d] \in Pending
      BY <1>1, <3>1
    <3>2. CASE task[d] \notin Pending
      BY <1>1, <1>3, <2>4, <3>2 DEF TaskMoves, RejectionHasCause
    <3> QED  BY <3>1, <3>2
  <2> QED  BY <1>0, <1>1, <1>2, <1>3, <1>4, <2>1, <2>2, <2>3, <2>4 DEF TaskMoves, Pending
<1>5. CASE task[d] = "sending" /\ task'[d] = "done" /\ response'[d] = result[d] /\ result' = result
  <2>1. d \in ToSet(begun)
    BY <1>5 DEF TasksFollowServe
  <2>2. call[d] # "new" /\ d \notin Requests
    BY <2>1, RequestsAreNew DEF RequestsMade
  <2>3. result[d] \in {None, "ok", "err"}
    BY DEF TypeOK, ResultType
  <2> QED  BY <1>0, <1>2, <1>5, <2>2, <2>3 DEF Pending
<1>6. CASE DropMoves(d)
  BY <1>0, <1>6 DEF DropMoves
<1>7. CASE RejectMoves(d)
  BY <1>0, <1>7 DEF RejectMoves
<1> QED  BY <1>4, <1>5, <1>6, <1>7, ResponseMovesFacts DEF ResponseMoves

\* A caller is told the response, or that the connection or the server is gone.
LEMMA CallersPreserved ==
    TypeOK /\ HoldersOK /\ RequestsInOrder /\ RequestsMade /\ TasksFollowServe
      /\ ResultsFollowEffects /\ ResponsesHaveCause /\ CallersTold /\ [Next]_vars => CallersTold'
<1> SUFFICES ASSUME TypeOK, HoldersOK, RequestsInOrder, RequestsMade, TasksFollowServe,
                    ResultsFollowEffects, ResponsesHaveCause, CallersTold, [Next]_vars
             PROVE  CallersTold'
    OBVIOUS
<1>0. /\ setup' = setup /\ Made' = Made /\ Made \subseteq Calls /\ (~link => ~link')
      /\ (~Accepting => ~Accepting') /\ None \notin {"ok", "err", "dropped", "rejected"}
      /\ \A d : Cancellable(d)' = Cancellable(d)
  BY StableFacts, SetupFrame, SetupFacts DEF TypeOK
<1> SUFFICES ASSUME NEW d \in Made
             PROVE  /\ call'[d] \in {"ok", "err"} => response'[d] = call'[d]
                    /\ ToldRefused(d)' => ~Accepting' \/ d \in setup.garbled
                    /\ call'[d] = "Failed" => ~link'
                    /\ call'[d] = "Dropped" => LossHasCause(d)'
                    /\ task'[d] = "done" /\ result'[d] = None =>
                         Cancellable(d) /\ (call'[d] = "cancelled" \/ ~link')
    BY <1>0 DEF CallersTold
<1>1. /\ d \in Calls /\ TaskMoves(d) /\ ResponseMoves(d)
      /\ response[d] \in {None, "dropped", "rejected", "ok", "err"}
  BY <1>0, TaskMovesFacts, ResponseMovesFacts DEF TypeOK, ResponseType
<1>2. response[d] \in {"ok", "err"} => response'[d] = response[d]
  <2>1. response[d] \in {"ok", "err"} => task[d] = "done"
    BY <1>1 DEF ResponsesHaveCause
  <2> QED  BY <1>0, <1>1, <2>1 DEF ResponseMoves, DropMoves, RejectMoves
<1>3. StartCall(d) => call'[d] = "waiting" /\ call[d] = "new"
  BY <1>1 DEF StartCall, MayStart, TypeOK, CallType
<1>4. call[d] = "cancelled" => call'[d] = "cancelled"
  BY <1>1, CallMoves DEF MayStart
<1>5. task'[d] = "done" /\ result'[d] = None =>
        Cancellable(d) /\ (call'[d] = "cancelled" \/ ~link')
  <2>1. CASE task[d] = "done"
    BY <1>0, <1>1, <1>4, <2>1 DEF TaskMoves, CallersTold
  <2>2. CASE task[d] \in {"sending", "unsent"}
    BY <1>1, <2>2 DEF TaskMoves, ResultsFollowEffects
  <2>3. CASE task[d] \notin {"done", "sending", "unsent"}
    BY <1>0, <1>1, <2>3 DEF TaskMoves
  <2> QED  BY <2>1, <2>2, <2>3
<1>6. CASE call'[d] = call[d]
  <2>1. call[d] = "Dropped" => LossHasCause(d)'
    BY <1>1, <1>3, <1>6, CauseStays DEF CallersTold
  <2> QED  BY <1>0, <1>2, <1>5, <1>6, <2>1 DEF CallersTold, ToldRefused
<1>7. CASE call'[d] \in {"waiting", "cancelled"}
  BY <1>5, <1>7 DEF ToldRefused
<1>8. CASE CallRefused(d) /\ MayStart(d) /\ call'[d] \in SendErrors
  <2>1. call'[d] \in {"Dropped", "NotServed", "Failed"}
    BY <1>8 DEF SendErrors
  <2>2. call'[d] = "NotServed" => ~Accepting
    BY <1>8 DEF SendErrors
  <2>3. call'[d] = "Failed" => ~link
    BY <1>8 DEF SendErrors
  <2>4. ASSUME call'[d] = "Dropped" PROVE LossHasCause(d)'
    <3>1. ~Accepting \/ ~link
      BY <1>8, <2>4 DEF SendErrors
    <3>2. d \notin ToSet(begun) \cup Requests
      BY <1>8 DEF RequestsMade, MayStart
    <3>3. LossHasCause(d) /\ ~StartCall(d)
      BY <1>3, <2>4, <3>1, <3>2 DEF LossHasCause
    <3> QED  BY <1>1, <3>3, CauseStays
  <2> QED  BY <1>0, <1>5, <2>1, <2>2, <2>3, <2>4 DEF ToldRefused
<1>9. CASE call[d] = "waiting" /\ call'[d] \in Outcomes(d)
  <2>1. /\ call'[d] \in {"ok", "err"} => response[d] = call'[d]
        /\ call'[d] = "Dropped" => response[d] = "dropped"
        /\ call'[d] = "Failed" => ~link
        /\ ToldRefused(d)' => response[d] = "rejected"
    BY <1>1, <1>9, OutcomesFacts DEF ToldRefused
  <2>2. ASSUME call'[d] = "Dropped" PROVE LossHasCause(d)'
    <3>1. LossHasCause(d)
      BY <1>1, <1>9, <2>1, <2>2 DEF ResponsesHaveCause
    <3> QED  BY <1>1, <1>3, <1>9, <3>1, CauseStays
  <2>3. ToldRefused(d)' => ~Accepting' \/ d \in setup.garbled
    BY <1>0, <1>1, <2>1 DEF ResponsesHaveCause, RejectionHasCause
  <2> QED  BY <1>0, <1>2, <1>5, <2>1, <2>2, <2>3
<1> QED  BY <1>1, <1>6, <1>7, <1>8, <1>9, CallMoves

----------------------------------------------------------------------------
(* What serve returns is true *)

\* Where the result of serve comes from, and what happens to the errors.
ResultMoves ==
    \/ sv'.res = sv.res /\ errors' = errors
    \/ sv'.res = sv.res /\ \E c \in Calls : ReportFailure(c) \/ ReportUnsent(c)
    \/ /\ sv'.pc = "returned" /\ task' = task /\ result' = result
       /\ \/ errors # <<>> /\ sv'.res = Head(errors) /\ errors' = Tail(errors)
          \/ sv'.res = "Ok" /\ errors' = errors /\ (IsFunction \/ ~provider)
          \/ sv'.res = "Ok" /\ errors' = errors /\ errors = <<>> /\ Active = {}
          \/ /\ sv'.res = "Monitor" /\ errors' = errors
             /\ \E c \in Calls : Undecodable(c) /\ monitor'.failures > setup.tolerate

\* Serve returns with a reported error, for the monitor, or with nothing left to do.
LEMMA ResultMovesFacts ==
    ASSUME TypeOK, [Next]_vars
    PROVE  ResultMoves
<1>1. ASSUME OutsideStep PROVE ResultMoves
  BY <1>1, OutsideFrame DEF ResultMoves
<1>2. ASSUME DecideStep PROVE ResultMoves
  <2>0. task' = task /\ result' = result
    BY <1>2, DecideFrame
  <2>1. CASE ServeFails
    <3>1. sv'.pc = "returned" /\ sv'.res = Head(errors)
      BY <2>1, ServeFailsFacts, ReturnFacts DEF ErrorType, TypeOK
    <3> QED  BY <2>0, <2>1, <3>1 DEF ServeFails, ResultMoves
  <2>2. CASE Terminate
    <3>1. sv'.pc = "returned" /\ sv'.res = "Ok"
      BY <2>2, ReturnFacts DEF Terminate, TypeOK
    <3> QED  BY <2>0, <2>2, <3>1 DEF Terminate, ResultMoves
  <2>3. CASE ReceiveRequest
    BY <2>3, ReceiveFacts DEF ReceiveRequest, ResultMoves
  <2>4. CASE PreDispatch
    BY <2>4, PreDispatchFacts DEF PreDispatch, ResultMoves
  <2>5. CASE EndOfRequests
    <3>1. errors' = errors
      BY <2>5 DEF EndOfRequests
    <3>2. CASE IsFunction /\ Return("Ok")
      <4>1. sv'.pc = "returned" /\ sv'.res = "Ok"
        BY <3>2, ReturnFacts DEF TypeOK
      <4> QED  BY <2>0, <3>1, <3>2, <4>1 DEF ResultMoves
    <3>3. CASE sv'.res = sv.res
      BY <3>1, <3>3 DEF ResultMoves
    <3> QED  BY <2>5, <3>2, <3>3, EndOfRequestsFacts
  <2>6. CASE Drain
    <3>1. CASE Head(errors) \in ErrorType /\ Return(Head(errors)) /\ errors # <<>> /\ errors' = Tail(errors)
      <4>1. sv'.pc = "returned" /\ sv'.res = Head(errors)
        BY <3>1, ReturnFacts DEF ErrorType, TypeOK
      <4> QED  BY <2>0, <3>1, <4>1 DEF ResultMoves
    <3>2. CASE errors = <<>> /\ Active = {} /\ Return("Ok") /\ errors' = errors
      <4>1. sv'.pc = "returned" /\ sv'.res = "Ok"
        BY <3>2, ReturnFacts DEF TypeOK
      <4> QED  BY <2>0, <3>2, <4>1 DEF ResultMoves
    <3> QED  BY <2>6, <3>1, <3>2, DrainFacts
  <2>7. ASSUME NEW c \in Calls, IgnoreRequest(c) PROVE ResultMoves
    BY <2>7, IgnoreFacts DEF IgnoreRequest, ResultMoves
  <2>8. ASSUME NEW c \in Calls, Undecodable(c) PROVE ResultMoves
    <3>1. errors' = errors
      BY <2>8 DEF Undecodable
    <3>2. CASE monitor'.failures > setup.tolerate /\ Return("Monitor")
      <4>1. sv'.pc = "returned" /\ sv'.res = "Monitor"
        BY <3>2, ReturnFacts DEF TypeOK
      <4> QED  BY <2>0, <2>8, <3>1, <3>2, <4>1 DEF ResultMoves
    <3>3. CASE sv'.res = sv.res
      BY <3>1, <3>3 DEF ResultMoves
    <3> QED  BY <2>8, <3>2, <3>3, UndecodableFacts
  <2> QED  BY <1>2, <2>1, <2>2, <2>3, <2>4, <2>5, <2>6, <2>7, <2>8 DEF DecideStep
<1>3. ASSUME NEW c \in Calls, DispatchInline(c) PROVE ResultMoves
  BY <1>3, BeginFacts, DispatchInlineFacts DEF ResultMoves
<1>4. ASSUME NEW c \in Calls, DispatchSpawned(c) PROVE ResultMoves
  BY <1>4, BeginFacts, DispatchSpawnedFacts DEF ResultMoves
<1>5. ASSUME NEW c \in Calls, TaskStep(c) PROVE ResultMoves
  <2>1. sv'.res = sv.res
    BY <1>5, TaskFrame
  <2>2. errors' = errors \/ ReportFailure(c) \/ ReportUnsent(c)
    BY <1>5
       DEF TaskStep, CallStep, AcquirePermit, UseTarget, MethodReturns, SendResponse,
           CancelMethod, serverVars
  <2> QED  BY <2>1, <2>2 DEF ResultMoves
<1>6. ASSUME UNCHANGED vars PROVE ResultMoves
  BY <1>6 DEF ResultMoves, vars, serverVars
<1> QED
  BY <1>1, <1>2, <1>3, <1>4, <1>5, <1>6
     DEF Next, OutsideStep, ServeStep, DecideStep, TaskStep

\* Nothing is started or reported after serve has returned Ok.
LEMMA IdlePreserved == TypeOK /\ HoldersOK /\ OkMeansIdle /\ [Next]_vars => OkMeansIdle'
<1> SUFFICES ASSUME TypeOK, HoldersOK, OkMeansIdle, [Next]_vars PROVE OkMeansIdle'
    OBVIOUS
<1>0. setup' = setup /\ IsFunction' = IsFunction /\ None # "Ok"
  BY StableFacts, SetupFrame, SetupFacts DEF TypeOK
<1>1. ASSUME ~IsFunction PROVE provider'
  <2>1. provider' = provider \/ DropProvider
    BY TaskFrame, DecideFrame, BeginFacts
       DEF Next, ServeStep, DecideStep, TaskStep, StartCall, CallRefused, CallReturns,
           CancelCall, DropClient, Lose, WindowElapses, Transfer, Discard, Forward, HandOver,
           Attach, Reserve, ForwardRecv, ForwardUndecodable, ForwardClosed, ForwardDone,
           ForwardSend, vars,
           serverVars
  <2>2. ~DropProvider
    BY <1>1, SetupFacts DEF DropProvider, TypeOK
  <2> QED  BY <1>1, <2>1, <2>2 DEF OkMeansIdle
<1>2. ASSUME sv'.res = "Ok", ~IsFunction PROVE Active' = {} /\ errors' = <<>>
  <2>1. CASE Serving
    <3>1. sv'.res # sv.res
      BY <1>0, <1>2, <2>1 DEF HoldersOK
    <3>2. errors # <<>> => Head(errors) # "Ok"
      BY DEF TypeOK, ErrorType
    <3>3. task' = task /\ Active = {} /\ errors' = <<>>
      BY <1>2, <3>1, <3>2, ResultMovesFacts DEF ResultMoves, OkMeansIdle
    <3> QED  BY <3>3 DEF Active
  <2>2. CASE ~Serving
    <3>1. (\A d \in Calls : task[d] \in {"none", "done"}) /\ errors = <<>>
      <4>1. sv' = sv
        BY <2>2, StableFacts
      <4> QED  BY <1>2, <4>1 DEF OkMeansIdle, Active
    <3>2. task' = task
      <4>1. ASSUME NEW c \in Calls, DispatchInline(c) \/ DispatchSpawned(c) PROVE FALSE
        BY <2>2, <4>1, BeginFacts DEF Serving
      <4>2. ASSUME NEW c \in Calls, TaskStep(c) PROVE FALSE
        BY <3>1, <4>2
           DEF TaskStep, CallStep, AcquirePermit, UseTarget, MethodReturns, ReportFailure,
               SendResponse, ReportUnsent, CancelMethod
      <4>3. OutsideStep \/ DecideStep \/ UNCHANGED vars
        BY <4>1, <4>2 DEF Next, OutsideStep, ServeStep, DecideStep, TaskStep
      <4> QED  BY <4>3, OutsideFrame, DecideFrame DEF vars, taskVars
    <3>3. errors' = <<>>
      BY <3>1, ResultMovesFacts DEF ResultMoves, ReportFailure, ReportUnsent
    <3> QED  BY <3>1, <3>2, <3>3 DEF Active
  <2> QED  BY <2>1, <2>2
<1> QED  BY <1>0, <1>1, <1>2 DEF OkMeansIdle

\* An error that has been reported is not forgotten.
LEMMA NoticedStays ==
    ASSUME TypeOK, [Next]_vars, Noticed
    PROVE  Noticed'
<1>1. CASE sv.pc = "returned" /\ sv.res # "Ok"
  <2>1. sv' = sv
    BY <1>1, StableFacts DEF Serving
  <2> QED  BY <1>1, <2>1 DEF Noticed
<1>2. CASE errors # <<>>
  <2>1. Head(errors) \in ErrorType /\ Head(errors) # "Ok"
    BY <1>2 DEF TypeOK, ErrorType
  <2>2. ASSUME NEW c \in Calls, ReportFailure(c) \/ ReportUnsent(c) PROVE errors' # <<>>
    BY <1>2, <2>2 DEF ReportFailure, ReportUnsent, Report, TypeOK, ErrorType
  <2>3. sv'.pc = "returned" /\ sv'.res = Head(errors) => Noticed'
    BY <2>1 DEF Noticed
  <2>4. errors' # <<>> => Noticed'
    BY DEF Noticed
  <2> QED  BY <1>2, <2>2, <2>3, <2>4, ResultMovesFacts DEF ResultMoves
<1> QED  BY <1>1, <1>2 DEF Noticed

\* A report reaches serve, or serve has returned with an error.
LEMMA ReportNoticed ==
    ASSUME TypeOK, OkMeansIdle, ~IsFunction, NEW c \in Calls, task[c] \in {"failed", "unsent"},
           NEW e \in ErrorType, Report(e), sv' = sv \/ Serving
    PROVE  Noticed'
<1>1. CASE Serving
  <2>1. errors' # <<>>
    BY <1>1 DEF Report, TypeOK
  <2> QED  BY <2>1 DEF Noticed
<1>2. CASE ~Serving
  <2>1. sv.res # "Ok"
    BY DEF OkMeansIdle, Active
  <2> QED  BY <1>2, <2>1 DEF Noticed, Serving
<1> QED  BY <1>1, <1>2

\* Only its own steps change a call that has been dispatched.
LEMMA OwnSteps ==
    ASSUME TypeOK, RequestsInOrder, [Next]_vars, NEW d \in ToSet(begun), d \in Calls
    PROVE  TaskStep(d) \/ (task'[d] = task[d] /\ result'[d] = result[d])
<1>1. ASSUME NEW c \in Calls, TaskStep(c), c # d
      PROVE  task'[d] = task[d] /\ result'[d] = result[d]
  BY <1>1, AcquireFacts, UseFacts, LaterFacts DEF TaskStep, CallStep, LaterStep, OthersKept
<1>2. ASSUME NEW c \in Calls, DispatchInline(c) \/ DispatchSpawned(c)
      PROVE  task'[d] = task[d] /\ result'[d] = result[d]
  <2>1. c # d
    BY <1>2, BeginFacts, RequestsAreNew DEF Requests
  <2> QED  BY <1>2, <2>1, BeginFacts
<1>3. ASSUME OutsideStep \/ DecideStep \/ UNCHANGED vars
      PROVE  task'[d] = task[d] /\ result'[d] = result[d]
  BY <1>3, OutsideFrame, DecideFrame DEF vars, taskVars
<1> QED  BY <1>1, <1>2, <1>3 DEF Next, OutsideStep, ServeStep, DecideStep, TaskStep

\* A failure is reported before its task ends, and serve cannot return Ok meanwhile.
LEMMA NoticesPreserved ==
    TypeOK /\ HoldersOK /\ RequestsInOrder /\ RequestsMade /\ TasksFollowServe
      /\ ResultsFollowEffects /\ ResponsesHaveCause /\ OkMeansIdle /\ FailuresNoticed
      /\ [Next]_vars => FailuresNoticed'
<1> SUFFICES ASSUME TypeOK, HoldersOK, RequestsInOrder, RequestsMade, TasksFollowServe,
                    ResultsFollowEffects, ResponsesHaveCause, OkMeansIdle, FailuresNoticed,
                    [Next]_vars
             PROVE  FailuresNoticed'
    OBVIOUS
<1>s. setup' = setup /\ IsFunction' = IsFunction
  BY StableFacts, SetupFrame
<1> SUFFICES ASSUME ~IsFunction, NEW d \in ToSet(begun')
             PROVE  /\ result'[d] = "err" /\ d \in setup.stop => task'[d] = "failed" \/ Noticed'
                    /\ response'[d] = "dropped" =>
                         call'[d] = "cancelled" \/ ~link' \/ task'[d] = "unsent" \/ Noticed'
    BY <1>s DEF FailuresNoticed
<1>0. d \in Calls /\ None \notin {"ok", "err", "dropped", "rejected"}
  BY TypesPreserved, StableFacts, SetupFrame, ToSetFacts, SetupFacts DEF TypeOK
<1>1. CASE d \notin ToSet(begun)
  <2>1. task[d] = "none" /\ d \in Requests
    BY <1>0, <1>1, OrderPreserved DEF TasksFollowServe, RequestsMove
  <2>2. result[d] = None /\ response[d] \in {None, "rejected"}
    BY <1>0, <2>1 DEF ResultsFollowEffects, ResponsesHaveCause
  <2>3. result'[d] = None
    BY <1>0, <2>1, <2>2, TaskMovesFacts DEF TaskMoves
  <2> QED
    BY <1>0, <2>1, <2>2, <2>3, ResponseMovesFacts DEF ResponseMoves, DropMoves, RejectMoves
<1>2. CASE d \in ToSet(begun)
  <2>1. ASSUME result'[d] = "err", d \in setup.stop PROVE task'[d] = "failed" \/ Noticed'
    <3>1. CASE Noticed
      BY <3>1, NoticedStays
    <3>2. CASE ~Noticed /\ result[d] = "err"
      <4>1. task[d] = "failed"
        BY <1>2, <2>1, <3>2 DEF FailuresNoticed
      <4>2. CASE ReportFailure(d)
        <5>1. sv' = sv \/ Serving
          BY <1>0, <4>2, TaskFrame DEF TaskStep, CallStep, Serving
        <5> QED  BY <1>0, <4>1, <4>2, <5>1, ReportNoticed DEF ReportFailure, ErrorType
      <4>3. CASE ~ReportFailure(d)
        <5>1. ~TaskStep(d)
          BY <4>1, <4>3
             DEF TaskStep, CallStep, AcquirePermit, UseTarget, MethodReturns, SendResponse,
                 ReportUnsent, CancelMethod
        <5> QED  BY <1>0, <1>2, <4>1, <5>1, OwnSteps
      <4> QED  BY <4>2, <4>3
    <3>3. CASE result[d] # "err"
      <4>1. task[d] = "used" /\ result[d] # result'[d]
        BY <1>0, <2>1, <3>3, TaskMovesFacts DEF TaskMoves
      <4>2. MethodReturns(d)
        <5>1. TaskStep(d)
          BY <1>0, <1>2, <4>1, OwnSteps
        <5> QED
          BY <4>1, <5>1
             DEF TaskStep, CallStep, AcquirePermit, UseTarget, ReportFailure, SendResponse,
                 ReportUnsent, CancelMethod
      <4> QED  BY <1>0, <2>1, <4>2, MethodReturnsFacts
    <3> QED  BY <3>1, <3>2, <3>3
  <2>2. ASSUME response'[d] = "dropped"
        PROVE  call'[d] = "cancelled" \/ ~link' \/ task'[d] = "unsent" \/ Noticed'
    <3>1. CASE Noticed
      BY <3>1, NoticedStays
    <3>2. CASE DropMoves(d)
      BY <3>2 DEF DropMoves
    <3>3. CASE ~Noticed /\ response[d] = "dropped"
      <4>1. call[d] = "cancelled" \/ ~link \/ task[d] = "unsent"
        BY <1>2, <3>3 DEF FailuresNoticed
      <4>2. CASE call[d] = "cancelled"
        <5>1. call'[d] = "cancelled"
          BY <1>0, <4>2, CallMoves DEF MayStart
        <5> QED  BY <5>1
      <4>3. CASE ~link
        BY <4>3, StableFacts
      <4>4. CASE task[d] = "unsent" /\ task'[d] # "unsent"
        <5>1. ReportUnsent(d)
          <6>1. TaskStep(d)
            BY <1>0, <1>2, <4>4, OwnSteps
          <6> QED
            BY <4>4, <6>1
               DEF TaskStep, CallStep, AcquirePermit, UseTarget, MethodReturns, ReportFailure,
                   SendResponse, CancelMethod
        <5> QED  BY <1>0, <4>4, <5>1, ReportNoticed DEF ReportUnsent, ErrorType
      <4> QED  BY <4>1, <4>2, <4>3, <4>4
    <3>4. CASE response'[d] = result[d] /\ result' = result
      <4>1. result[d] \in {None, "ok", "err"}
        BY <1>0 DEF TypeOK, ResultType
      <4> QED  BY <1>0, <2>2, <3>4, <4>1
    <3> QED  BY <1>0, <2>2, <3>1, <3>2, <3>3, <3>4, ResponseMovesFacts DEF ResponseMoves, RejectMoves
  <2> QED  BY <2>1, <2>2
<1> QED  BY <1>1, <1>2

\* Only failed calls and responses that are too large are reported.
LEMMA ErrorsPreserved ==
    TypeOK /\ HoldersOK /\ RequestsInOrder /\ TasksFollowServe /\ ResultsFollowEffects
      /\ ErrorsHaveCause /\ [Next]_vars => ErrorsHaveCause'
<1> SUFFICES ASSUME TypeOK, HoldersOK, RequestsInOrder, TasksFollowServe, ResultsFollowEffects,
                    ErrorsHaveCause, [Next]_vars
             PROVE  ErrorsHaveCause'
    OBVIOUS
<1>0. setup' = setup /\ None \notin {"ok", "err", "Ok", "CallFailed", "ResponseSend", "Monitor"}
  BY StableFacts, SetupFacts DEF TypeOK
<1>1. \A d \in Calls : result[d] # None => result'[d] = result[d]
  BY TaskMovesFacts DEF TaskMoves, ResultsFollowEffects
<1>2. \A e : CauseOf(e) => CauseOf(e)'
  BY <1>0, <1>1 DEF CauseOf
<1>3. ASSUME NEW d \in Calls
      PROVE  /\ task'[d] = "failed" => result'[d] = "err" /\ d \in setup.stop
             /\ task'[d] = "unsent" => d \in setup.large
  <2>1. CASE d \notin ToSet(begun)
    <3>1. task[d] = "none"
      BY <2>1 DEF TasksFollowServe
    <3>2. ASSUME NEW c \in Calls, TaskStep(c) PROVE task'[d] = task[d]
      <4>1. c # d
        BY <3>1, <3>2
           DEF TaskStep, CallStep, AcquirePermit, UseTarget, MethodReturns, ReportFailure,
               SendResponse, ReportUnsent, CancelMethod
      <4> QED
        BY <3>2, <4>1, AcquireFacts, UseFacts, LaterFacts
           DEF TaskStep, CallStep, LaterStep, OthersKept
    <3>3. ASSUME NEW c \in Calls, DispatchInline(c) \/ DispatchSpawned(c)
          PROVE  task'[d] \in {"none", "queued", "started"}
      BY <3>1, <3>3, BeginFacts
    <3>4. ASSUME OutsideStep \/ DecideStep \/ UNCHANGED vars PROVE task' = task
      BY <3>4, OutsideFrame, DecideFrame DEF vars, taskVars
    <3> QED
      BY <3>1, <3>2, <3>3, <3>4 DEF Next, OutsideStep, ServeStep, DecideStep, TaskStep
  <2>2. CASE d \in ToSet(begun) /\ task'[d] = task[d] /\ result'[d] = result[d]
    BY <2>2 DEF ErrorsHaveCause
  <2>3. CASE TaskStep(d)
    <3>1. CASE MethodReturns(d)
      BY <3>1, MethodReturnsFacts
    <3>2. CASE SendResponse(d)
      BY <3>2, SendResponseFacts
    <3>3. CASE AcquirePermit(d) \/ UseTarget(d) \/ ReportFailure(d) \/ ReportUnsent(d) \/ CancelMethod(d)
      BY <3>3, AcquireFacts, UseFacts, ReportFailureFacts, ReportUnsentFacts, CancelMethodFacts
    <3> QED  BY <2>3, <3>1, <3>2, <3>3 DEF TaskStep, CallStep
  <2> QED  BY <2>1, <2>2, <2>3, OwnSteps
<1>4. \A e : e \notin ErrorType => CauseOf(e)'
  BY DEF CauseOf, ErrorType
<1>5. CASE sv'.res = sv.res /\ errors' = errors
  BY <1>0, <1>2, <1>3, <1>5 DEF ErrorsHaveCause
<1>6. ASSUME sv'.res = sv.res, NEW c \in Calls, ReportFailure(c) \/ ReportUnsent(c)
      PROVE  ErrorsHaveCause'
  <2>1. PICK e \in ErrorType : Report(e) /\ CauseOf(e)
    <3>1. CASE ReportFailure(c)
      <4>1. CauseOf("CallFailed")
        BY <3>1 DEF ReportFailure, ErrorsHaveCause, CauseOf
      <4> QED  BY <3>1, <4>1 DEF ReportFailure, ErrorType
    <3>2. CASE ReportUnsent(c)
      <4>1. CauseOf("ResponseSend")
        BY <3>2 DEF ReportUnsent, ErrorsHaveCause, ResultsFollowEffects, CauseOf
      <4> QED  BY <3>2, <4>1 DEF ReportUnsent, ErrorType
    <3> QED  BY <1>6, <3>1, <3>2
  <2>2. ToSet(errors') \subseteq ToSet(errors) \cup {e}
    <3>1. CASE errors' = errors
      BY <3>1
    <3>2. CASE errors' = Append(errors, e)
      BY <3>2, AppendFacts DEF TypeOK
    <3> QED  BY <2>1, <3>1, <3>2 DEF Report
  <2> QED  BY <1>0, <1>2, <1>3, <1>6, <2>1, <2>2 DEF ErrorsHaveCause
<1>7. CASE errors # <<>> /\ sv'.res = Head(errors) /\ errors' = Tail(errors)
  <2>1. ToSet(errors) = {Head(errors)} \cup ToSet(errors')
    BY <1>7, TailFacts DEF TypeOK
  <2> QED  BY <1>0, <1>2, <1>3, <1>7, <2>1 DEF ErrorsHaveCause
<1>8. CASE sv'.res \in {"Ok", "Monitor"} /\ errors' = errors
  BY <1>0, <1>2, <1>3, <1>4, <1>8 DEF ErrorsHaveCause, ErrorType
<1> QED  BY <1>5, <1>6, <1>7, <1>8, ResultMovesFacts DEF ResultMoves

\* A request that could not be decoded stays one.
LEMMA UndecodedFacts ==
    ASSUME TypeOK, RequestsInOrder, RequestsMade, [Next]_vars
    PROVE  /\ Undecoded \subseteq Undecoded' /\ IsFiniteSet(Undecoded) /\ IsFiniteSet(Undecoded')
           /\ Cardinality(Undecoded) \in Nat /\ Cardinality(Undecoded') \in Nat
           /\ Cardinality(Undecoded) <= Cardinality(Undecoded')
<1>0. setup' = setup /\ Made' = Made /\ Made \subseteq Calls
  BY StableFacts, SetupFrame, SetupFacts DEF TypeOK
<1>1. Undecoded \subseteq Calls /\ Undecoded' \subseteq Calls
  BY <1>0 DEF Undecoded
<1>2. IsFiniteSet(Calls)
  BY RtcAssumption
<1>3. ASSUME NEW c \in Undecoded PROVE c \in Undecoded'
  <2>1. c \in Made /\ c \in Calls /\ c \in setup.garbled /\ call[c] # "new" /\ c \notin Requests
    BY <1>0, <1>3 DEF Undecoded
  <2>2. \A o \in Outcomes(c) : o # "new"
    BY <2>1, OutcomesFacts
  <2>3. call'[c] # "new"
    BY <2>1, <2>2, CallMoves DEF MayStart
  <2>4. c \notin Requests'
    BY <2>1, OrderPreserved DEF RequestsMove, StartCall, MayStart
  <2> QED  BY <1>0, <2>1, <2>3, <2>4 DEF Undecoded
<1>4. IsFiniteSet(Undecoded) /\ IsFiniteSet(Undecoded')
  BY <1>1, <1>2, FS_Subset
<1>5. Cardinality(Undecoded) <= Cardinality(Undecoded')
  BY <1>3, <1>4, FS_Subset
<1> QED  BY <1>3, <1>4, <1>5, FS_CardinalityType

\* Each failure that the monitor counts is a further request that was received.
LEMMA CountPreserved ==
    TypeOK /\ HoldersOK /\ RequestsInOrder /\ RequestsMade /\ FailuresCounted /\ [Next]_vars
      => FailuresCounted'
<1> SUFFICES ASSUME TypeOK, HoldersOK, RequestsInOrder, RequestsMade, FailuresCounted,
                    [Next]_vars
             PROVE  FailuresCounted'
    OBVIOUS
<1>0. setup' = setup /\ Made' = Made /\ setup.tolerate \in Nat
  BY StableFacts, SetupFrame, SetupFacts DEF TypeOK
<1>1. monitor.failures \in Nat /\ monitor'.failures \in Nat
  BY TypesPreserved DEF TypeOK, MonitorType
<1>a. ASSUME NEW c \in Made, c \in Requests, c \notin Requests', c \in setup.garbled, call' = call,
             monitor'.failures \in {monitor.failures + 1, 1}
      PROVE  monitor'.failures <= Cardinality(Undecoded')
  <2>1. c \notin Undecoded /\ call[c] # "new"
    BY <1>a DEF Undecoded, RequestsMade
  <2>2. c \in Undecoded'
    BY <1>0, <1>a, <2>1 DEF Undecoded
  <2>3. Cardinality(Undecoded \cup {c}) = Cardinality(Undecoded) + 1 /\ IsFiniteSet(Undecoded \cup {c})
    BY <2>1, UndecodedFacts, FS_AddElement
  <2>4. Cardinality(Undecoded \cup {c}) <= Cardinality(Undecoded')
    BY <2>2, UndecodedFacts, FS_Subset
  <2> QED  BY <1>1, <1>a, <2>3, <2>4, UndecodedFacts DEF FailuresCounted
<1>2. ASSUME NEW c \in Calls, Undecodable(c) PROVE monitor'.failures <= Cardinality(Undecoded')
  <2>1. c \in Held /\ c \in Made /\ c \in setup.garbled /\ call' = call
    BY <1>2, UndecodableFacts, SetupFacts DEF Held, TypeOK, Undecodable, clientVars
  <2>2. c \notin Requests'
    <3>1. sv'.pc \in {"select", "returned"} /\ (queue' = queue \/ queue' = <<>>)
      BY <1>2, UndecodableFacts, ReturnFacts DEF TypeOK
    <3>2. Requests' \subseteq ToSet(queue) \cup InForward \cup ToSet(wire)
      BY <1>2, <3>1, HeldFacts, EmptyFacts DEF Requests, InForward, Undecodable, forwardVars
    <3> QED  BY <2>1, <3>2, PlacesApart
  <2>3. monitor'.failures \in {monitor.failures + 1, 1}
    BY <1>2, UndecodableFacts
  <2> QED  BY <1>a, <2>1, <2>2, <2>3 DEF Requests
<1>b. ASSUME ForwardUndecodable PROVE monitor'.failures <= Cardinality(Undecoded')
  <2>1. PICK c \in Made : c = Head(wire)
    BY <1>b, ForwardUndecodableFacts
  <2>2. /\ wire # <<>> /\ wire' = Tail(wire) /\ c \in setup.garbled /\ c \in ToSet(wire)
        /\ monitor'.failures \in {monitor.failures + 1, 1} /\ fw'.req = fw.req
    BY <1>b, <2>1, ForwardUndecodableFacts
  <2>3. call' = call /\ queue' = queue /\ sv' = sv
    BY <1>b DEF ForwardUndecodable, clientVars
  <2>4. c \notin ToSet(wire')
    <3>1. Precede(setup.by, {c}, ToSet(wire'))
      BY <2>1, <2>2, InOrderTail DEF TypeOK, RequestsInOrder
    <3>2. ~Before(setup.by, c, c)
      BY <2>1, SetupFacts DEF Before, TypeOK
    <3> QED  BY <3>1, <3>2 DEF Precede
  <2>5. c \notin Held \cup ToSet(queue) \cup InForward
    BY <2>2, PlacesApart
  <2>6. c \notin Requests'
    BY <2>2, <2>3, <2>4, <2>5 DEF Requests, Held, InForward
  <2> QED  BY <1>a, <2>2, <2>3, <2>6 DEF Requests
<1>3. ASSUME ~ForwardUndecodable, ~\E c \in Calls : Undecodable(c)
      PROVE  monitor'.failures = monitor.failures
  BY <1>3, MonitorFacts, TaskFrame, BeginFacts
     DEF Next, ServeStep, TaskStep, StartCall, CallRefused, CallReturns, CancelCall, DropClient,
         Lose, DropProvider, Transfer, Discard, Forward, HandOver, Attach, Reserve, ForwardRecv,
         ForwardClosed, ForwardDone, ForwardSend, ServeFails, Terminate, ReceiveRequest,
         EndOfRequests, Drain, IgnoreRequest, vars, serverVars
<1>4. monitor'.failures <= Cardinality(Undecoded')
  BY <1>1, <1>2, <1>b, <1>3, UndecodedFacts DEF FailuresCounted
<1>5. ASSUME sv'.res = "Monitor" PROVE Cardinality(Undecoded') > setup.tolerate
  <2>1. CASE sv.res = "Monitor"
    BY <1>0, <2>1, UndecodedFacts DEF FailuresCounted
  <2>2. CASE sv.res # "Monitor"
    <3>1. errors # <<>> => Head(errors) # "Monitor"
      BY DEF TypeOK, ErrorType
    <3>2. monitor'.failures > setup.tolerate
      BY <1>5, <2>2, <3>1, ResultMovesFacts DEF ResultMoves
    <3> QED  BY <1>0, <1>1, <1>4, <3>2, UndecodedFacts
  <2> QED  BY <2>1, <2>2
<1> QED  BY <1>0, <1>4, <1>5 DEF FailuresCounted

----------------------------------------------------------------------------
(* The inductive invariant and what follows from it *)

IInv ==
    /\ TypeOK /\ HoldersOK
    /\ RequestsInOrder /\ RequestsMade
    /\ TasksFollowServe /\ ResultsFollowEffects
    /\ Exclusive /\ OvertakenInTasks /\ EffectsInOrder
    /\ FailureBlocks
    /\ ResponsesHaveCause /\ CallersTold
    /\ OkMeansIdle /\ FailuresNoticed /\ ErrorsHaveCause /\ FailuresCounted

\* The invariant holds at the start, is kept by every step, and so holds always.
LEMMA InitIInv == Init => IInv
<1> SUFFICES ASSUME Init PROVE IInv
    OBVIOUS
<1>1. /\ setup \in Setups /\ link = TRUE /\ provider = TRUE
      /\ wire = <<>> /\ queue = <<>> /\ errors = <<>> /\ begun = <<>> /\ effects = <<>>
      /\ fw.req = None /\ fw.pc # "ended"
      /\ sv.pc = "select" /\ sv.req = None /\ sv.res = None
      /\ monitor.failures = 0
  BY DEF Init
<1>2. \A c \in Calls :
        call[c] = "new" /\ task[c] = "none" /\ result[c] = None /\ response[c] = None
  BY DEF Init
<1>3. /\ Made \subseteq Calls
      /\ None \notin {"ok", "err", "dropped", "rejected"}
      /\ None \notin {"Ok", "CallFailed", "ResponseSend", "Monitor"}
      /\ setup.tolerate \in Nat
  BY <1>1, SetupFacts
<1>4. /\ ToSet(wire) = {} /\ ToSet(queue) = {} /\ ToSet(begun) = {} /\ ToSet(effects) = {}
      /\ ToSet(errors) = {} /\ Held = {} /\ InForward = {} /\ Requests = {}
  BY <1>1, EmptyFacts DEF Held, InForward, Requests
<1>5. TypeOK
  BY InitTypes
<1>6. HoldersOK
  BY <1>1 DEF HoldersOK
<1>7. RequestsInOrder
  BY <1>1, <1>4, EmptyInOrder DEF RequestsInOrder, Precede
<1>8. RequestsMade
  BY <1>2, <1>3, <1>4 DEF RequestsMade
<1>9. TasksFollowServe
  BY <1>1, <1>2, <1>4 DEF TasksFollowServe
<1>10. ResultsFollowEffects
  BY <1>2, <1>4 DEF ResultsFollowEffects
<1>11. Exclusive /\ OvertakenInTasks /\ FailureBlocks
  BY <1>2, <1>4 DEF Exclusive, OvertakenInTasks, FailureBlocks
<1>12. EffectsInOrder
  BY <1>1 DEF EffectsInOrder
<1>13. ResponsesHaveCause
  BY <1>2, <1>3, <1>4 DEF ResponsesHaveCause
<1>14. CallersTold
  BY <1>2, <1>3 DEF CallersTold, ToldRefused
<1>15. OkMeansIdle
  BY <1>1, <1>3 DEF OkMeansIdle
<1>16. FailuresNoticed
  BY <1>4 DEF FailuresNoticed
<1>17. ErrorsHaveCause
  BY <1>1, <1>2, <1>3, <1>4 DEF ErrorsHaveCause, CauseOf
<1>18. FailuresCounted
  <2>1. Undecoded = {}
    BY <1>2, <1>3 DEF Undecoded
  <2>2. Cardinality(Undecoded) = 0
    BY <2>1, FS_EmptySet
  <2> QED  BY <1>1, <1>3, <2>2 DEF FailuresCounted
<1> QED
  BY <1>5, <1>6, <1>7, <1>8, <1>9, <1>10, <1>11, <1>12, <1>13, <1>14, <1>15, <1>16, <1>17, <1>18
     DEF IInv

LEMMA NextIInv == IInv /\ [Next]_vars => IInv'
<1> SUFFICES ASSUME IInv, [Next]_vars PROVE IInv'
    OBVIOUS
<1> USE DEF IInv
<1>1. TypeOK' /\ HoldersOK'
  BY TypesPreserved, HoldersPreserved
<1>2. RequestsInOrder' /\ RequestsMade'
  BY OrderPreserved, MadePreserved
<1>3. TasksFollowServe' /\ ResultsFollowEffects'
  BY TasksPreserved, ResultsPreserved
<1>4. Exclusive' /\ OvertakenInTasks' /\ EffectsInOrder'
  BY ExclusivePreserved, OvertakenPreserved, EffectsPreserved
<1>5. FailureBlocks'
  BY FailurePreserved
<1>6. ResponsesHaveCause' /\ CallersTold'
  BY ResponsesPreserved, CallersPreserved
<1>7. OkMeansIdle' /\ FailuresNoticed'
  BY IdlePreserved, NoticesPreserved
<1>8. ErrorsHaveCause' /\ FailuresCounted'
  BY ErrorsPreserved, CountPreserved
<1> QED  BY <1>1, <1>2, <1>3, <1>4, <1>5, <1>6, <1>7, <1>8

LEMMA AlwaysIInv == Spec => []IInv
  BY InitIInv, NextIInv, PTL DEF Spec

\* Whatever the server, its parallelism and its monitors, and whether requests are
\* forwarded or not: the calls of a client use the target in the order in which they
\* were made, except that a call by reference on a task of its own may be overtaken by
\* others like it, and a method that has the target mutably or by value has it alone
\* (the dispatch of the serve functions, their permits and locks, ReqReceiver::forward).
THEOREM CallsTakeEffectInOrder == Spec => []CallsInOrder
<1>1. IInv => CallsInOrder
  <2> SUFFICES ASSUME IInv PROVE CallsInOrder
      OBVIOUS
  <2>1. DOMAIN effects = 1..Len(effects)
    BY DEF IInv, TypeOK
  <2>2. ASSUME NEW i \in DOMAIN effects, NEW j \in DOMAIN effects,
               i < j, effects[j] < effects[i], setup.by[effects[i]] = setup.by[effects[j]]
        PROVE  /\ ~Inline(effects[j])
               /\ setup.kind[effects[i]] = "Ref" /\ setup.kind[effects[j]] = "Ref"
    BY <2>1, <2>2 DEF IInv, EffectsInOrder
  <2>3. ASSUME NEW c \in Dispatched, setup.kind[c] # "Ref" PROVE Dispatched = {c}
    BY <2>3 DEF IInv, Exclusive, Dispatched
  <2> QED  BY <2>2, <2>3 DEF CallsInOrder
<1> QED  BY <1>1, AlwaysIInv, PTL

\* Once a call that is processed inline and stops the server on an error has failed,
\* nothing is started any more: the error is in the channel before serve selects again,
\* and the select is biased towards it (complete_call and the serve loops).
THEOREM FailedCallStopsServing == Spec => []FailureStopsServing
<1>1. IInv => FailureStopsServing
  <2> SUFFICES ASSUME IInv PROVE FailureStopsServing
      OBVIOUS
  <2> SUFFICES ASSUME NEW i \in DOMAIN begun, result[begun[i]] = "err",
                      begun[i] \in setup.stop, Inline(begun[i])
               PROVE  i = Len(begun)
      BY DEF FailureStopsServing
  <2>1. /\ begun \in Seq(Made) /\ Len(begun) \in Nat /\ DOMAIN begun = 1..Len(begun)
        /\ Made \subseteq Nat
    BY SetupFacts DEF IInv, TypeOK
  <2>2. begun[i] \in ToSet(begun) /\ begun[i] \in Nat
    BY <2>1, ToSetFacts
  <2>3. begun[Len(begun)] = begun[i]
    BY <2>2 DEF IInv, FailureBlocks
  <2>4. i < Len(begun) => begun[i] < begun[Len(begun)]
    BY <2>1, <2>3 DEF IInv, RequestsInOrder, InOrder, Before
  <2> QED  BY <2>1, <2>2, <2>3, <2>4
<1> QED  BY <1>1, AlwaysIInv, PTL

\* What a caller is told is what happened: a value or an error is that of the method,
\* which has used the target; NotServed and Connect mean that the method was not started,
\* because nobody receives requests any more or this one could not be decoded; every
\* other loss has its cause, and a method without a result was dropped because nobody
\* waited for it and it allowed that (Client calls, complete_call, ports of requests
\* that cannot be decoded, responders that are dropped with the request receiver).
THEOREM OutcomesTold == Spec => []OutcomesHaveCause
<1>1. IInv => OutcomesHaveCause
  <2> SUFFICES ASSUME IInv, NEW c \in Made
               PROVE  /\ call[c] \in {"ok", "err"} => result[c] = call[c] /\ c \in ToSet(effects)
                      /\ ToldRefused(c) =>
                           c \notin ToSet(begun) /\ (~Accepting \/ c \in setup.garbled)
                      /\ call[c] = "Failed" => ~link
                      /\ call[c] = "Dropped" =>
                           \/ setup.kind[c] \notin Served \/ c \in setup.large \/ ~link
                           \/ c \notin ToSet(begun) /\ (~Serving \/ ~Accepting)
                      /\ task[c] = "done" /\ result[c] = None =>
                           Cancellable(c) /\ (call[c] = "cancelled" \/ ~link)
      BY DEF OutcomesHaveCause, ToldRefused
  <2>0. c \in Calls /\ None \notin {"ok", "err"}
    BY SetupFacts DEF IInv, TypeOK
  <2>1. ASSUME call[c] \in {"ok", "err"} PROVE result[c] = call[c] /\ c \in ToSet(effects)
    <3>1. response[c] = call[c]
      BY <2>1 DEF IInv, CallersTold
    <3>2. response[c] = result[c]
      BY <2>0, <2>1, <3>1 DEF IInv, ResponsesHaveCause
    <3> QED  BY <2>0, <2>1, <3>1, <3>2 DEF IInv, ResultsFollowEffects
  <2>2. ToldRefused(c) => c \notin ToSet(begun) /\ (~Accepting \/ c \in setup.garbled)
    BY DEF IInv, CallersTold, RequestsMade, TasksFollowServe
  <2>3. call[c] = "Failed" => ~link
    BY DEF IInv, CallersTold
  <2>4. call[c] = "Dropped" => LossHasCause(c)
    BY DEF IInv, CallersTold
  <2>5. task[c] = "done" /\ result[c] = None =>
          Cancellable(c) /\ (call[c] = "cancelled" \/ ~link)
    BY DEF IInv, CallersTold
  <2> QED  BY <2>1, <2>2, <2>3, <2>4, <2>5 DEF LossHasCause
<1> QED  BY <1>1, AlwaysIInv, PTL

\* When serve returns Ok, everything that was started is finished, no call has failed
\* in a way that stops the server, and no response was lost that the caller could have
\* received; an error that it returns has its cause, and the monitor only ends it after
\* more undecodable requests than it tolerates (serve and its drain of the error
\* channel, IncompatibleClientMonitor).
THEOREM ServeResultTold == Spec => []ServeResultIsTrue
<1>1. IInv => ServeResultIsTrue
  <2> SUFFICES ASSUME IInv PROVE ServeResultIsTrue
      OBVIOUS
  <2>1. ASSUME sv.res = "Ok", ~IsFunction
        PROVE  /\ Active = {}
               /\ \A c \in ToSet(begun) :
                    /\ result[c] = "err" => c \notin setup.stop
                    /\ response[c] = "dropped" => call[c] = "cancelled" \/ ~link
    <3>1. Active = {} /\ ~Noticed
      BY <2>1 DEF IInv, OkMeansIdle, Noticed
    <3>2. ToSet(begun) \subseteq Calls
      BY ToSetFacts, SetupFacts DEF IInv, TypeOK
    <3>3. \A c \in ToSet(begun) : task[c] \notin {"failed", "unsent"}
      BY <3>1, <3>2 DEF Active
    <3> QED  BY <2>1, <3>1, <3>3 DEF IInv, FailuresNoticed
  <2>2. sv.res = "CallFailed" => \E c \in setup.stop : result[c] = "err"
    BY DEF IInv, ErrorsHaveCause, CauseOf
  <2>3. sv.res = "ResponseSend" => \E c \in setup.large : result[c] # None
    BY DEF IInv, ErrorsHaveCause, CauseOf
  <2>4. ASSUME sv.res = "Monitor"
        PROVE  Cardinality(setup.garbled \cap {c \in Made : call[c] # "new"}) > setup.tolerate
    <3> DEFINE Seen == setup.garbled \cap {c \in Made : call[c] # "new"}
    <3>1. setup.tolerate \in Nat /\ Made \subseteq Calls
      BY SetupFacts DEF IInv, TypeOK
    <3>2. Undecoded \subseteq Seen
      BY DEF Undecoded
    <3>3. IsFiniteSet(Seen)
      BY <3>1, RtcAssumption, FS_Subset
    <3>4. Cardinality(Undecoded) <= Cardinality(Seen) /\ Cardinality(Seen) \in Nat
      BY <3>2, <3>3, FS_Subset, FS_CardinalityType
    <3>5. Cardinality(Undecoded) \in Nat
      BY <3>2, <3>3, FS_Subset, FS_CardinalityType
    <3>6. Cardinality(Undecoded) > setup.tolerate
      BY <2>4 DEF IInv, FailuresCounted
    <3> QED  BY <3>1, <3>4, <3>5, <3>6
  <2> QED  BY <2>1, <2>2, <2>3, <2>4 DEF ServeResultIsTrue
<1> QED  BY <1>1, AlwaysIInv, PTL

=============================================================================
