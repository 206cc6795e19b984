------------------------ MODULE ConnectQueue_proofs ------------------------
(***************************************************************************)
(* The credits of connection requests and the pool of reserved ports fit   *)
(* together, for every set of requests, connect_queue and max_ports.       *)
(***************************************************************************)
EXTENDS ConnectQueue, FiniteSetTheorems, TLAPS

\* A request that the server has received and not yet answered ...
Held == {"listening", "requested", "accepting", "rejecting", "deciding"}
\* ... and one that the client has sent and for which it has no answer.
Underway == Held \cup {"wire", "reply"}

\* Requests that hold a credit of the client.
Charged == {r \in Reqs : st[r] \in Underway /\ NeedsCredit(kind[r], pre[r])}

\* Requests with a reservation on its way to the pool.
Replacing == {r \in Reqs : pre[r] /\ st[r] = "deciding"}

\* Types of everything but the counters.
Tables ==
    /\ kind \in [Reqs -> {"none", "open", "ports"}]
    /\ pre \in [Reqs -> BOOLEAN]
    /\ st \in [Reqs -> Underway \cup {"idle", "open"}]
    /\ decision \in [Reqs -> {"none", "accept", "reject"}]
    /\ outstanding \subseteq Reqs
    /\ used \subseteq Reqs
    /\ acceptor \in {"idle", "reserved", "second"}
    /\ accepting \subseteq Reqs
    /\ error \in BOOLEAN

\* What the progress of a request says about the rest of the state.
Lifecycle ==
    /\ outstanding = {r \in Reqs : st[r] \in Held}
    /\ \A r \in Reqs : st[r] # "idle" => kind[r] # "none"
    /\ \A r \in Reqs : st[r] \in {"accepting", "rejecting"} => pre[r]
    /\ \A r \in accepting : st[r] = "accepting"

\* No credit, reservation or port of the pool is lost or duplicated.
Conservation ==
    /\ credits \in Nat /\ reserved \in Nat /\ pool \in 0..ConnectLimit
    /\ credits + Cardinality(Charged) = ConnectLimit
    /\ reserved = pool + Cardinality(Replacing) + (IF acceptor = "idle" THEN 0 ELSE 1)
    /\ Cardinality(used) + reserved <= MaxPorts + ConnectLimit
    /\ ~error => pool + Cardinality(FromPool) = ConnectLimit /\ FromPool \subseteq used

IInv == Tables /\ Lifecycle /\ Conservation /\ OverrunNeedsPortRequests

-----------------------------------------------------------------------------
(* Counting. *)

\* All sets of requests are finite.
LEMMA RequestsFinite ==
    ASSUME NEW S, S \subseteq Reqs
    PROVE  IsFiniteSet(S) /\ Cardinality(S) \in Nat
<1>1. IsFiniteSet(S)
  BY ConnectQueueAssumption, FS_Subset
<1>2. QED
  BY <1>1, FS_CardinalityType

\* The size of a set of requests changes with the one request that enters or leaves it.
LEMMA CountStep ==
    ASSUME NEW S, S \subseteq Reqs, NEW T, T \subseteq Reqs, NEW r \in Reqs,
           S \ {r} = T \ {r}
    PROVE  /\ Cardinality(S) \in Nat /\ Cardinality(T) \in Nat
           /\ (r \in S <=> r \in T) => Cardinality(T) = Cardinality(S)
           /\ r \in T /\ r \notin S => Cardinality(T) = Cardinality(S) + 1
           /\ r \in S /\ r \notin T => Cardinality(T) = Cardinality(S) - 1
<1>1. /\ IsFiniteSet(S) /\ Cardinality(S) \in Nat
      /\ IsFiniteSet(T) /\ Cardinality(T) \in Nat
  BY RequestsFinite
<1>2. CASE r \in S <=> r \in T
  <2>1. S = T
    BY <1>2
  <2>2. QED
    BY <1>1, <1>2, <2>1
<1>3. CASE r \in T /\ r \notin S
  <2>1. T = S \cup {r}
    BY <1>3
  <2>2. Cardinality(S \cup {r}) = Cardinality(S) + 1
    BY <1>1, <1>3, FS_AddElement
  <2>3. QED
    BY <1>1, <1>3, <2>1, <2>2
<1>4. CASE r \in S /\ r \notin T
  <2>1. S = T \cup {r}
    BY <1>4
  <2>2. Cardinality(T \cup {r}) = Cardinality(T) + 1
    BY <1>1, <1>4, FS_AddElement
  <2>3. QED
    BY <1>1, <1>4, <2>1, <2>2
<1>5. QED
  BY <1>2, <1>3, <1>4

-----------------------------------------------------------------------------
(* Types, and what a step of one request leaves alone. *)

\* A step on behalf of request r.
RequestStep(r) ==
    \/ Connect(r) \/ SendPorts(r) \/ Reply(r) \/ Close(r)
    \/ Receive(r) \/ HandleAnswer(r)
    \/ AcceptInspect(r) \/ AcceptSecond(r) \/ Inspect(r)
    \/ AcceptRequest(r) \/ RejectRequest(r) \/ RejectReserve(r)

LEMMA ConnectInit == Init => IInv
<1> SUFFICES ASSUME Init PROVE IInv
  OBVIOUS
<1> USE ConnectQueueAssumption
<1>1. Tables
  BY DEF Init, Tables, Underway
<1>2. Lifecycle
  BY DEF Init, Lifecycle, Held
<1>3. Charged = {} /\ Replacing = {} /\ FromPool = {} /\ used = {}
  BY DEF Init, Charged, Replacing, FromPool, Underway, Held
<1>4. Conservation
  BY <1>3, FS_EmptySet DEF Init, Conservation
<1>5. OverrunNeedsPortRequests
  BY DEF Init, OverrunNeedsPortRequests
<1>6. QED
  BY <1>1, <1>2, <1>4, <1>5 DEF IInv

LEMMA ConnectTables == Tables /\ [Next]_vars => Tables'
<1> SUFFICES ASSUME Tables, [Next]_vars PROVE Tables'
  OBVIOUS
<1> USE DEF Tables, To, Decide, Forget, Underway, Held, alloc, listener
<1>1. CASE AcceptReserve
  BY <1>1 DEF AcceptReserve
<1>2. CASE CancelAccept
  BY <1>2 DEF CancelAccept
<1>3. ASSUME NEW r \in Reqs, RequestStep(r) PROVE Tables'
  <2>1. CASE Connect(r)
    BY <2>1 DEF Connect, Request
  <2>2. CASE SendPorts(r)
    BY <2>2 DEF SendPorts, Request
  <2>3. CASE Reply(r)
    BY <2>3 DEF Reply
  <2>4. CASE Close(r)
    BY <2>4 DEF Close
  <2>5. CASE Receive(r)
    BY <2>5 DEF Receive
  <2>6. CASE HandleAnswer(r)
    BY <2>6 DEF HandleAnswer
  <2>7. CASE AcceptInspect(r)
    BY <2>7 DEF AcceptInspect
  <2>8. CASE AcceptSecond(r)
    BY <2>8 DEF AcceptSecond
  <2>9. CASE Inspect(r)
    BY <2>9 DEF Inspect
  <2>10. CASE AcceptRequest(r)
    BY <2>10 DEF AcceptRequest
  <2>11. CASE RejectRequest(r)
    BY <2>11 DEF RejectRequest
  <2>12. CASE RejectReserve(r)
    BY <2>12 DEF RejectReserve
  <2>13. QED
    BY <1>3, <2>1, <2>2, <2>3, <2>4, <2>5, <2>6, <2>7, <2>8, <2>9, <2>10, <2>11, <2>12
       DEF RequestStep
<1>4. CASE UNCHANGED vars
  BY <1>4 DEF vars
<1>5. QED
  BY <1>1, <1>2, <1>3, <1>4 DEF Next, RequestStep

\* A step on behalf of one request leaves every other request as it is.
LEMMA OthersUnchanged ==
    ASSUME Tables, NEW r \in Reqs, RequestStep(r), NEW q \in Reqs, q # r
    PROVE  kind'[q] = kind[q] /\ pre'[q] = pre[q] /\ st'[q] = st[q]
<1> USE DEF Tables, To, Decide, Forget
<1>1. CASE Connect(r) \/ SendPorts(r)
  BY <1>1 DEF Connect, SendPorts, Request
<1>2. CASE Reply(r) \/ Close(r)
  BY <1>2 DEF Reply, Close
<1>3. CASE Receive(r) \/ HandleAnswer(r)
  BY <1>3 DEF Receive, HandleAnswer
<1>4. CASE AcceptInspect(r) \/ AcceptSecond(r)
  BY <1>4 DEF AcceptInspect, AcceptSecond
<1>5. CASE Inspect(r) \/ AcceptRequest(r) \/ RejectRequest(r) \/ RejectReserve(r)
  BY <1>5 DEF Inspect, AcceptRequest, RejectRequest, RejectReserve
<1>6. QED
  BY <1>1, <1>2, <1>3, <1>4, <1>5 DEF RequestStep

\* The counted sets change by that request at most.
LEMMA SetsStep ==
    ASSUME Tables, NEW r \in Reqs, RequestStep(r)
    PROVE  /\ Charged \subseteq Reqs /\ Charged' \subseteq Reqs
           /\ Charged \ {r} = Charged' \ {r}
           /\ Replacing \subseteq Reqs /\ Replacing' \subseteq Reqs
           /\ Replacing \ {r} = Replacing' \ {r}
           /\ FromPool \subseteq Reqs /\ FromPool' \subseteq Reqs
           /\ FromPool \ {r} = FromPool' \ {r}
<1>1. \A q \in Reqs : q # r => kind'[q] = kind[q] /\ pre'[q] = pre[q] /\ st'[q] = st[q]
  BY OthersUnchanged
<1>2. Charged \subseteq Reqs /\ Charged' \subseteq Reqs /\ Charged \ {r} = Charged' \ {r}
  BY <1>1 DEF Charged, NeedsCredit
<1>3. /\ Replacing \subseteq Reqs /\ Replacing' \subseteq Reqs
      /\ Replacing \ {r} = Replacing' \ {r}
  BY <1>1 DEF Replacing
<1>4. FromPool \subseteq Reqs /\ FromPool' \subseteq Reqs /\ FromPool \ {r} = FromPool' \ {r}
  BY <1>1 DEF FromPool
<1>5. QED
  BY <1>2, <1>3, <1>4

\* The progress of a request determines where it is accounted for.
LEMMA ConnectLifecycle == Tables /\ Lifecycle /\ [Next]_vars => Lifecycle'
<1> SUFFICES ASSUME Tables, Lifecycle, [Next]_vars PROVE Lifecycle'
  OBVIOUS
<1> USE DEF Tables, Lifecycle, To, Decide, Forget, Held, alloc, listener
<1>1. CASE AcceptReserve
  BY <1>1 DEF AcceptReserve
<1>2. CASE CancelAccept
  BY <1>2 DEF CancelAccept
<1>3. ASSUME NEW r \in Reqs, RequestStep(r) PROVE Lifecycle'
  <2>1. CASE Connect(r) \/ SendPorts(r)
    <3>1. /\ st[r] = "idle" /\ st' = [st EXCEPT ![r] = "wire"]
          /\ UNCHANGED <<outstanding, accepting>>
      BY <2>1 DEF Connect, SendPorts, Request
    <3>2. kind'[r] # "none"
      BY <2>1 DEF Connect, SendPorts, Request
    <3>3. \A q \in Reqs : q # r => kind'[q] = kind[q] /\ pre'[q] = pre[q]
      BY <2>1 DEF Connect, SendPorts, Request
    <3>4. QED
      BY <3>1, <3>2, <3>3
  <2>3. CASE Reply(r)
    BY <2>3 DEF Reply
  <2>4. CASE Close(r)
    BY <2>4 DEF Close
  <2>5. CASE Receive(r)
    BY <2>5 DEF Receive
  <2>6. CASE HandleAnswer(r)
    BY <2>6 DEF HandleAnswer
  <2>7. CASE AcceptInspect(r)
    BY <2>7 DEF AcceptInspect
  <2>8. CASE AcceptSecond(r)
    BY <2>8 DEF AcceptSecond
  <2>9. CASE Inspect(r)
    BY <2>9 DEF Inspect
  <2>10. CASE AcceptRequest(r)
    BY <2>10 DEF AcceptRequest
  <2>11. CASE RejectRequest(r)
    BY <2>11 DEF RejectRequest
  <2>12. CASE RejectReserve(r)
    BY <2>12 DEF RejectReserve
  <2>13. QED
    BY <1>3, <2>1, <2>3, <2>4, <2>5, <2>6, <2>7, <2>8, <2>9, <2>10, <2>11, <2>12
       DEF RequestStep
<1>4. CASE UNCHANGED vars
  BY <1>4 DEF vars
<1>5. QED
  BY <1>1, <1>2, <1>3, <1>4 DEF Next, RequestStep

-----------------------------------------------------------------------------
(* Credits, reservations and ports. *)

\* How the size of each counted set changes in a step on behalf of one request.
LEMMA CountsStep ==
    ASSUME Tables, NEW r \in Reqs, RequestStep(r)
    PROVE  /\ Cardinality(Charged) \in Nat /\ Cardinality(Replacing) \in Nat
           /\ Cardinality(FromPool) \in Nat /\ Cardinality(FromPool') \in Nat
           /\ Cardinality(used) \in Nat
           /\ Cardinality(Charged') =
                Cardinality(Charged) + (IF r \in Charged' THEN 1 ELSE 0)
                                     - (IF r \in Charged THEN 1 ELSE 0)
           /\ Cardinality(Replacing') =
                Cardinality(Replacing) + (IF r \in Replacing' THEN 1 ELSE 0)
                                       - (IF r \in Replacing THEN 1 ELSE 0)
           /\ Cardinality(FromPool') =
                Cardinality(FromPool) + (IF r \in FromPool' THEN 1 ELSE 0)
                                      - (IF r \in FromPool THEN 1 ELSE 0)
           /\ Cardinality(used \cup {r}) \in Nat
           /\ Cardinality(used \cup {r}) <= Cardinality(used) + 1
           /\ Cardinality(used \ {r}) \in Nat
           /\ Cardinality(used \ {r}) <= Cardinality(used)
<1>1. /\ Cardinality(Charged) \in Nat
      /\ Cardinality(Charged') = Cardinality(Charged) + (IF r \in Charged' THEN 1 ELSE 0)
                                                      - (IF r \in Charged THEN 1 ELSE 0)
  BY SetsStep, CountStep
<1>2. /\ Cardinality(Replacing) \in Nat
      /\ Cardinality(Replacing') = Cardinality(Replacing) + (IF r \in Replacing' THEN 1 ELSE 0)
                                                          - (IF r \in Replacing THEN 1 ELSE 0)
  BY SetsStep, CountStep
<1>3. /\ Cardinality(FromPool) \in Nat /\ Cardinality(FromPool') \in Nat
      /\ Cardinality(FromPool') = Cardinality(FromPool) + (IF r \in FromPool' THEN 1 ELSE 0)
                                                        - (IF r \in FromPool THEN 1 ELSE 0)
  BY SetsStep, CountStep
<1>4. /\ Cardinality(used) \in Nat /\ Cardinality(used \cup {r}) \in Nat
      /\ Cardinality(used \cup {r}) <= Cardinality(used) + 1
  <2>1. /\ used \subseteq Reqs /\ used \cup {r} \subseteq Reqs
        /\ used \ {r} = (used \cup {r}) \ {r}
    BY DEF Tables
  <2>2. QED
    BY <2>1, CountStep
<1>5. Cardinality(used \ {r}) \in Nat /\ Cardinality(used \ {r}) <= Cardinality(used)
  <2>1. used \subseteq Reqs /\ used \ {r} \subseteq Reqs /\ used \ {r} = (used \ {r}) \ {r}
    BY DEF Tables
  <2>2. QED
    BY <2>1, CountStep
<1>6. QED
  BY <1>1, <1>2, <1>3, <1>4, <1>5

\* The pool covers every pre-connected request that the client has sent: a request
\* that arrives while the pool is empty would hold one credit more than there are.
LEMMA PoolCovers ==
    ASSUME Tables, Conservation, ~error, NEW r \in Reqs, st[r] = "wire", pre[r]
    PROVE  pool > 0
<1>1. FromPool \cup {r} \subseteq Charged /\ r \notin FromPool /\ FromPool \subseteq Reqs
  BY DEF FromPool, Charged, NeedsCredit, Underway, Held, Tables
<1>2. Charged \subseteq Reqs
  BY DEF Charged
<1>3. /\ IsFiniteSet(Charged) /\ Cardinality(Charged) \in Nat
      /\ IsFiniteSet(FromPool) /\ Cardinality(FromPool) \in Nat
  BY <1>1, <1>2, RequestsFinite
<1>4. Cardinality(FromPool \cup {r}) = Cardinality(FromPool) + 1
  BY <1>1, <1>3, FS_AddElement
<1>5. Cardinality(FromPool \cup {r}) <= Cardinality(Charged)
  BY <1>1, <1>3, FS_Subset
<1>6. QED
  BY <1>3, <1>4, <1>5, ConnectQueueAssumption DEF Conservation

\* No step loses or duplicates a credit, a reservation or a port of the pool.
LEMMA ConnectConservation ==
    Tables /\ Lifecycle /\ Conservation /\ [Next]_vars => Conservation'
<1> SUFFICES ASSUME Tables, Lifecycle, Conservation, [Next]_vars PROVE Conservation'
  OBVIOUS
<1> DEFINE C == Cardinality(Charged)
           R == Cardinality(Replacing)
           P == Cardinality(FromPool)
           U == Cardinality(used)
<1>0. /\ C \in Nat /\ R \in Nat /\ P \in Nat /\ U \in Nat
      /\ ConnectLimit \in Nat /\ MaxPorts \in Nat
  BY RequestsFinite, ConnectQueueAssumption DEF Charged, Replacing, FromPool, Tables
<1>1. CASE AcceptReserve
  <2>1. UNCHANGED <<Charged, Replacing, FromPool, credits, used, pool, error>>
    BY <1>1 DEF AcceptReserve, Charged, Replacing, FromPool
  <2>2. /\ acceptor = "idle" /\ acceptor' = "reserved" /\ reserved' = reserved + 1
        /\ U + reserved < MaxPorts + ConnectLimit
    BY <1>1 DEF AcceptReserve, Available
  <2>3. QED
    BY <1>0, <2>1, <2>2 DEF Conservation
<1>2. CASE CancelAccept
  <2>1. \A r \in Reqs : /\ st'[r] = IF r \in accepting THEN "rejecting" ELSE st[r]
                        /\ r \in accepting => st[r] = "accepting"
    BY <1>2 DEF CancelAccept, Lifecycle
  <2>2. UNCHANGED <<kind, pre, credits, used, pool, error>>
    BY <1>2 DEF CancelAccept
  <2>3. UNCHANGED <<Charged, Replacing, FromPool>>
    BY <2>1, <2>2 DEF Charged, Replacing, FromPool, Underway, Held, NeedsCredit
  <2>4. acceptor # "idle" /\ acceptor' = "idle" /\ reserved' = reserved - 1
    BY <1>2 DEF CancelAccept
  <2>5. QED
    BY <1>0, <2>2, <2>3, <2>4 DEF Conservation
<1>3. ASSUME NEW r \in Reqs, RequestStep(r) PROVE Conservation'
  <2> DEFINE In(S) == IF r \in S THEN 1 ELSE 0
  <2>0. /\ Cardinality(Charged') = C + In(Charged') - In(Charged)
        /\ Cardinality(Replacing') = R + In(Replacing') - In(Replacing)
        /\ Cardinality(FromPool') = P + In(FromPool') - In(FromPool)
        /\ Cardinality(FromPool') \in Nat
        /\ Cardinality(used \cup {r}) \in Nat /\ Cardinality(used \cup {r}) <= U + 1
        /\ Cardinality(used \ {r}) \in Nat /\ Cardinality(used \ {r}) <= U
    BY <1>3, CountsStep
  <2>p. /\ Charged' \subseteq Reqs /\ FromPool' \subseteq Reqs
        /\ FromPool \ {r} = FromPool' \ {r}
    BY <1>3, SetsStep
  <2> USE DEF To, Decide, Forget, alloc, listener, Tables
  <2>1. CASE Connect(r) \/ SendPorts(r)
    <3>1. /\ r \notin Charged /\ r \notin Replacing /\ r \notin Replacing'
          /\ r \notin FromPool /\ r \notin FromPool'
      BY <2>1 DEF Connect, SendPorts, Request, Charged, Replacing, FromPool, Underway, Held
    <3>2. credits' = credits - In(Charged') /\ (r \in Charged' => credits > 0)
      BY <2>1 DEF Connect, SendPorts, Request, Charged, NeedsCredit, Underway, Conservation
    <3>3. UNCHANGED <<used, reserved, pool, acceptor, error>>
      BY <2>1 DEF Connect, SendPorts, Request
    <3>4. QED
      BY <1>0, <2>0, <2>p, <3>1, <3>2, <3>3 DEF Conservation
  <2>2. CASE Reply(r)
    <3>1. /\ r \notin Charged' /\ r \notin Replacing /\ r \notin Replacing'
          /\ r \notin FromPool /\ r \notin FromPool'
      BY <2>2 DEF Reply, Charged, Replacing, FromPool, Underway, Held
    <3>2. credits' = credits + In(Charged)
      BY <2>2 DEF Reply, Charged, NeedsCredit, Underway, Conservation
    <3>3. UNCHANGED <<used, reserved, pool, acceptor, error>>
      BY <2>2 DEF Reply
    <3>4. QED
      BY <1>0, <2>0, <2>p, <3>1, <3>2, <3>3 DEF Conservation
  <2>3. CASE Close(r)
    <3>1. /\ r \notin Charged /\ r \notin Charged' /\ r \notin Replacing /\ r \notin Replacing'
          /\ r \notin FromPool /\ r \notin FromPool'
      BY <2>3 DEF Close, Charged, Replacing, FromPool, Underway, Held
    <3>2. used' = used \ {r} /\ UNCHANGED <<credits, reserved, pool, acceptor, error>>
      BY <2>3 DEF Close
    <3>3. QED
      BY <1>0, <2>0, <2>p, <3>1, <3>2 DEF Conservation
  <2>4. CASE Receive(r)
    <3>1. /\ r \in Charged' <=> r \in Charged
          /\ r \notin Replacing /\ r \notin Replacing' /\ r \notin FromPool
          /\ r \in FromPool' <=> pre[r]
      BY <2>4 DEF Receive, Charged, Replacing, FromPool, Underway, Held, NeedsCredit
    <3>2. UNCHANGED <<credits, acceptor>> /\ ~error
      BY <2>4 DEF Receive
    <3>3. CASE pre[r] /\ ~error'
      <4>1. pool' = pool - 1 /\ reserved' = reserved - 1 /\ used' = used \cup {r}
        BY <2>4, <3>3 DEF Receive
      <4>2. pool > 0
        BY <2>4, <3>2, <3>3, PoolCovers DEF Receive
      <4>3. QED
        BY <1>0, <2>0, <2>p, <3>1, <3>2, <3>3, <4>1, <4>2 DEF Conservation
    <3>4. CASE ~(pre[r] /\ ~error')
      <4>1. UNCHANGED <<used, reserved, pool>>
        BY <2>4, <3>4 DEF Receive
      <4>2. QED
        BY <1>0, <2>0, <2>p, <3>1, <3>2, <3>4, <4>1 DEF Conservation
    <3>5. QED
      BY <3>3, <3>4
  <2>5. CASE HandleAnswer(r)
    <3>1. /\ r \in Charged' <=> r \in Charged
          /\ r \in Replacing <=> pre[r]
          /\ r \in FromPool <=> pre[r]
          /\ r \notin Replacing' /\ r \notin FromPool'
      BY <2>5 DEF HandleAnswer, Charged, Replacing, FromPool, Underway, Held, NeedsCredit
    <3>2. /\ pool' = pool + In(FromPool) /\ ~error /\ ~error'
          /\ UNCHANGED <<credits, used, reserved, acceptor>>
      BY <2>5, <3>1 DEF HandleAnswer, Conservation
    <3>3. QED
      BY <1>0, <2>0, <2>p, <3>1, <3>2 DEF Conservation
  <2>6. CASE AcceptInspect(r)
    <3>1. /\ r \in Charged' <=> r \in Charged
          /\ r \notin Replacing /\ r \notin Replacing'
          /\ r \in FromPool' <=> r \in FromPool
      BY <2>6 DEF AcceptInspect, Charged, Replacing, FromPool, Underway, Held, NeedsCredit
    <3>2. /\ acceptor = "reserved" /\ UNCHANGED <<credits, pool, error>>
          /\ \/ acceptor' = "second" /\ UNCHANGED <<reserved, used>>
             \/ acceptor' = "idle" /\ reserved' = reserved - 1 /\ used' = used \cup {r}
      BY <2>6 DEF AcceptInspect
    <3>3. CASE acceptor' = "second" /\ UNCHANGED <<reserved, used>>
      BY <1>0, <2>0, <2>p, <3>1, <3>2, <3>3 DEF Conservation
    <3>4. CASE acceptor' = "idle" /\ reserved' = reserved - 1 /\ used' = used \cup {r}
      BY <1>0, <2>0, <2>p, <3>1, <3>2, <3>4 DEF Conservation
    <3>5. QED
      BY <3>2, <3>3, <3>4
  <2>7. CASE AcceptSecond(r)
    <3>1. st[r] = "accepting" /\ pre[r]
      BY <2>7 DEF AcceptSecond, Lifecycle
    <3>2. /\ r \in Charged' <=> r \in Charged
          /\ r \notin Replacing /\ r \in Replacing'
          /\ r \in FromPool' <=> r \in FromPool
      BY <2>7, <3>1 DEF AcceptSecond, Charged, Replacing, FromPool, Underway, Held, NeedsCredit
    <3>3. /\ acceptor = "second" /\ acceptor' = "idle"
          /\ UNCHANGED <<credits, used, reserved, pool, error>>
      BY <2>7 DEF AcceptSecond
    <3>4. QED
      BY <1>0, <2>0, <2>p, <3>2, <3>3 DEF Conservation
  <2>8. CASE Inspect(r)
    <3>1. /\ r \in Charged' <=> r \in Charged
          /\ r \notin Replacing /\ r \notin Replacing'
          /\ r \in FromPool' <=> r \in FromPool
      BY <2>8 DEF Inspect, Charged, Replacing, FromPool, Underway, Held, NeedsCredit
    <3>2. UNCHANGED <<credits, used, reserved, pool, acceptor, error>>
      BY <2>8 DEF Inspect
    <3>3. QED
      BY <1>0, <2>0, <2>p, <3>1, <3>2 DEF Conservation
  <2>9. CASE AcceptRequest(r)
    <3>1. /\ r \in Charged' <=> r \in Charged
          /\ r \notin Replacing
          /\ r \in Replacing' <=> pre[r]
          /\ r \in FromPool' <=> r \in FromPool
      BY <2>9 DEF AcceptRequest, Charged, Replacing, FromPool, Underway, Held, NeedsCredit
    <3>2. /\ U + reserved < MaxPorts + ConnectLimit
          /\ UNCHANGED <<credits, pool, acceptor, error>>
          /\ \/ pre[r] /\ reserved' = reserved + 1 /\ UNCHANGED used
             \/ ~pre[r] /\ used' = used \cup {r} /\ UNCHANGED reserved
      BY <2>9 DEF AcceptRequest, Available
    <3>3. CASE pre[r] /\ reserved' = reserved + 1 /\ UNCHANGED used
      BY <1>0, <2>0, <2>p, <3>1, <3>2, <3>3 DEF Conservation
    <3>4. CASE ~pre[r] /\ used' = used \cup {r} /\ UNCHANGED reserved
      BY <1>0, <2>0, <2>p, <3>1, <3>2, <3>4 DEF Conservation
    <3>5. QED
      BY <3>2, <3>3, <3>4
  <2>10. CASE RejectRequest(r)
    <3>1. /\ r \in Charged' <=> r \in Charged
          /\ r \notin Replacing /\ r \notin Replacing'
          /\ r \in FromPool' <=> r \in FromPool
      BY <2>10 DEF RejectRequest, Charged, Replacing, FromPool, Underway, Held, NeedsCredit
    <3>2. UNCHANGED <<credits, used, reserved, pool, acceptor, error>>
      BY <2>10 DEF RejectRequest
    <3>3. QED
      BY <1>0, <2>0, <2>p, <3>1, <3>2 DEF Conservation
  <2>11. CASE RejectReserve(r)
    <3>1. pre[r]
      BY <2>11 DEF RejectReserve, Lifecycle
    <3>2. /\ r \in Charged' <=> r \in Charged
          /\ r \notin Replacing /\ r \in Replacing'
          /\ r \in FromPool' <=> r \in FromPool
      BY <2>11, <3>1
         DEF RejectReserve, Charged, Replacing, FromPool, Underway, Held, NeedsCredit
    <3>3. /\ U + reserved < MaxPorts + ConnectLimit /\ reserved' = reserved + 1
          /\ UNCHANGED <<credits, used, pool, acceptor, error>>
      BY <2>11 DEF RejectReserve, Available
    <3>4. QED
      BY <1>0, <2>0, <2>p, <3>2, <3>3 DEF Conservation
  <2>12. QED
    BY <1>3, <2>1, <2>2, <2>3, <2>4, <2>5, <2>6, <2>7, <2>8, <2>9, <2>10, <2>11
       DEF RequestStep
<1>4. CASE UNCHANGED vars
  BY <1>4 DEF vars, Conservation, Charged, Replacing, FromPool
<1>5. QED
  BY <1>1, <1>2, <1>3, <1>4 DEF Next, RequestStep

-----------------------------------------------------------------------------
(* The theorems. *)

\* A request that ends the connection finds an ordinary request over a port among
\* the unanswered ones, and no later step answers that one.
LEMMA ConnectOverrun ==
    IInv /\ [Next]_vars => OverrunNeedsPortRequests'
<1> SUFFICES ASSUME IInv, [Next]_vars, error'
             PROVE  \E r \in outstanding' : kind'[r] = "ports" /\ ~pre'[r]
  BY DEF OverrunNeedsPortRequests
<1>1. CASE error
  <2>1. PICK q \in outstanding : kind[q] = "ports" /\ ~pre[q]
    BY <1>1 DEF IInv, OverrunNeedsPortRequests
  <2>2. q \in Reqs /\ st[q] \in Held
    BY DEF IInv, Lifecycle
  <2>3. outstanding' = outstanding
    BY <1>1 DEF Next, vars, AcceptReserve, CancelAccept, Connect, SendPorts, Request, Reply,
         Close, Receive, HandleAnswer, AcceptInspect, AcceptSecond, Inspect, AcceptRequest,
         RejectRequest, RejectReserve
  <2>4. kind'[q] = kind[q] /\ pre'[q] = pre[q]
    BY ZenonT(60), <2>2
       DEF IInv, Tables, Held, Next, vars, AcceptReserve, CancelAccept, Connect, SendPorts,
         Request, Reply, Close, Receive, HandleAnswer, AcceptInspect, AcceptSecond, Inspect,
         AcceptRequest, RejectRequest, RejectReserve, Forget
  <2>5. QED
    BY <2>1, <2>3, <2>4
<1>2. CASE ~error
  <2>1. PICK r \in Reqs : Receive(r)
    BY <1>2 DEF Next, vars, AcceptReserve, CancelAccept, Connect, SendPorts, Request, Reply,
         Close, HandleAnswer, AcceptInspect, AcceptSecond, Inspect, AcceptRequest,
         RejectRequest, RejectReserve
  <2>2. /\ outstanding' = outstanding \cup {r} /\ st[r] = "wire"
        /\ UNCHANGED <<kind, pre>> /\ (TooMany(r) \/ (pre[r] /\ pool = 0))
    BY <2>1 DEF Receive
  <2>3. TooMany(r)
    <3>1. pre[r] => pool > 0
      BY <1>2, <2>2, PoolCovers DEF IInv
    <3>2. QED
      BY <2>2, <3>1
  <2>4. kind[r] = "open" /\ Cardinality(outstanding \cup {r}) > ConnectLimit
    BY <2>3 DEF TooMany
  <2>5. SUFFICES ASSUME \A q \in outstanding' : ~(kind'[q] = "ports" /\ ~pre'[q])
                 PROVE  FALSE
    OBVIOUS
  <2>6. outstanding \cup {r} \subseteq Charged /\ Charged \subseteq Reqs
    <3>1. ASSUME NEW q \in outstanding \cup {r} PROVE q \in Charged
      <4>1. q \in Reqs /\ st[q] \in Underway /\ st[q] # "idle"
        BY <2>2 DEF IInv, Lifecycle, Held, Underway
      <4>2. kind[q] \in {"open", "ports"}
        BY <4>1 DEF IInv, Lifecycle, Tables
      <4>3. NeedsCredit(kind[q], pre[q])
        BY <2>2, <2>5, <4>2 DEF NeedsCredit
      <4>4. QED
        BY <4>1, <4>3 DEF Charged
    <3>2. QED
      BY <3>1 DEF Charged
  <2>7. /\ IsFiniteSet(Charged) /\ Cardinality(Charged) \in Nat
        /\ Cardinality(outstanding \cup {r}) <= Cardinality(Charged)
        /\ Cardinality(outstanding \cup {r}) \in Nat
    BY <2>6, RequestsFinite, FS_Subset
  <2>8. Cardinality(Charged) <= ConnectLimit
    BY <2>7, ConnectQueueAssumption DEF IInv, Conservation
  <2>9. QED
    BY <2>4, <2>7, <2>8, ConnectQueueAssumption
<1>3. QED
  BY <1>1, <1>2

LEMMA ConnectInvariant == Spec => []IInv
<1>1. IInv /\ [Next]_vars => IInv'
  BY ConnectTables, ConnectLifecycle, ConnectConservation, ConnectOverrun DEF IInv
<1>2. QED
  BY <1>1, ConnectInit, PTL DEF Spec

\* The counters of credits, reservations and pooled ports stay in their ranges: no
\* decrement of an unsigned counter in client.rs, port_allocator.rs or mux.rs wraps.
THEOREM ConnectTypes == Spec => []TypeOK
<1>1. IInv => TypeOK
  <2> SUFFICES ASSUME IInv PROVE TypeOK
    OBVIOUS
  <2>1. /\ Cardinality(Charged) \in Nat /\ Cardinality(used) \in Nat
        /\ ConnectLimit \in Nat /\ MaxPorts \in Nat
    BY RequestsFinite, ConnectQueueAssumption DEF Charged, IInv, Tables
  <2>2. credits \in 0..ConnectLimit
    BY <2>1 DEF IInv, Conservation
  <2>3. reserved \in 0..(MaxPorts + ConnectLimit)
    BY <2>1 DEF IInv, Conservation
  <2>4. QED
    BY <2>2, <2>3 DEF IInv, Conservation, Tables, TypeOK, Underway, Held
<1>2. QED
  BY <1>1, ConnectInvariant, PTL

\* The credits of the client keep its requests within the connect_queue of the server,
\* but for ordinary requests over ports, and the pool of reserved ports never runs out
\* (the OpenPort and PortData handlers of mux.rs).
THEOREM CreditsLimitRequests == Spec => []OverrunNeedsPortRequests
<1>1. IInv => OverrunNeedsPortRequests
  BY DEF IInv
<1>2. QED
  BY <1>1, ConnectInvariant, PTL

\* At most max_ports ports are open beyond those that unanswered pre-connected requests
\* hold, whichever way Listener::accept, Request::accept and Request::reject replace
\* the ports that such requests took from the pool.
THEOREM OpenPortsWithinLimit == Spec => []OpenPortsBounded
<1>1. IInv => OpenPortsBounded
  <2> SUFFICES ASSUME IInv, ~error
               PROVE  /\ Cardinality(used) + reserved <= MaxPorts + ConnectLimit
                      /\ Cardinality(used \ FromPool) <= MaxPorts
    BY DEF OpenPortsBounded
  <2>1. /\ Cardinality(used) + reserved <= MaxPorts + ConnectLimit
        /\ FromPool \subseteq used /\ used \subseteq Reqs /\ Replacing \subseteq Reqs
    BY DEF IInv, Conservation, Tables, Replacing
  <2>2. /\ IsFiniteSet(used) /\ Cardinality(used) \in Nat
        /\ Cardinality(FromPool) \in Nat /\ Cardinality(Replacing) \in Nat
    BY <2>1, RequestsFinite
  <2>3. Cardinality(used \ FromPool) = Cardinality(used) - Cardinality(FromPool)
    <3>1. used \cap FromPool = FromPool
      BY <2>1
    <3>2. QED
      BY <2>2, <3>1, FS_Difference
  <2>4. reserved >= pool /\ reserved \in Nat /\ pool \in Nat
    BY <2>2 DEF IInv, Conservation
  <2>5. pool + Cardinality(FromPool) = ConnectLimit
    BY DEF IInv, Conservation
  <2>6. QED
    BY <2>1, <2>2, <2>3, <2>4, <2>5, ConnectQueueAssumption
<1>2. QED
  BY <1>1, ConnectInvariant, PTL

\* The pool of reserved ports of the server covers the pre-connected requests that the
\* client has sent and all those that its credits still allow.
THEOREM PoolBacksCredits == Spec => []PoolCoversCredits
<1>1. IInv => PoolCoversCredits
  <2> DEFINE Wire == {r \in Reqs : pre[r] /\ st[r] = "wire"}
  <2> SUFFICES ASSUME IInv, ~error
               PROVE  pool >= credits + Cardinality(Wire)
    BY DEF PoolCoversCredits
  <2>1. /\ FromPool \subseteq Reqs /\ Wire \subseteq Reqs /\ Charged \subseteq Reqs
        /\ FromPool \cap Wire = {} /\ FromPool \cup Wire \subseteq Charged
    BY DEF FromPool, Charged, NeedsCredit, Underway, Held, IInv, Tables
  <2> HIDE DEF Wire
  <2>2. /\ IsFiniteSet(FromPool) /\ Cardinality(FromPool) \in Nat
        /\ IsFiniteSet(Wire) /\ Cardinality(Wire) \in Nat
        /\ IsFiniteSet(Charged) /\ Cardinality(Charged) \in Nat
    BY <2>1, RequestsFinite
  <2>3. Cardinality(FromPool \cup Wire) = Cardinality(FromPool) + Cardinality(Wire)
    <3>1. Cardinality(FromPool \cup Wire) = Cardinality(FromPool) + Cardinality(Wire)
                                            - Cardinality(FromPool \cap Wire)
      BY <2>2, FS_Union
    <3>2. Cardinality(FromPool \cap Wire) = 0
      BY <2>1, FS_EmptySet
    <3>3. QED
      BY <2>2, <3>1, <3>2
  <2>4. Cardinality(FromPool \cup Wire) <= Cardinality(Charged)
    BY <2>1, <2>2, FS_Subset
  <2>5. /\ pool + Cardinality(FromPool) = ConnectLimit /\ pool \in Nat
        /\ credits + Cardinality(Charged) = ConnectLimit /\ credits \in Nat
    BY DEF IInv, Conservation
  <2>6. QED
    BY <2>2, <2>3, <2>4, <2>5
<1>2. QED
  BY <1>1, ConnectInvariant, PTL
=============================================================================
