------------------------ MODULE PortAllocator_proofs ------------------------
(***************************************************************************)
(* The port allocator never exceeds its limit, never gives a number to two *)
(* owners and never reuses one early, for every limit and number range.    *)
(***************************************************************************)
EXTENDS PortAllocator, FiniteSetTheorems, TLAPS

\* All sets of numbers are finite.
LEMMA NumbersFinite ==
    ASSUME NEW S, S \subseteq Numbers
    PROVE  IsFiniteSet(S) /\ Cardinality(S) \in Nat
<1>1. IsFiniteSet(Numbers)
  BY FS_Interval, PortAllocatorAssumption DEF Numbers
<1>2. IsFiniteSet(S)
  BY <1>1, FS_Subset
<1>3. QED
  BY <1>2, FS_CardinalityType

\* Adding a number to a set of numbers, or removing one, changes its size by at most one.
LEMMA CountAdd ==
    ASSUME NEW S, S \subseteq Numbers, NEW n \in Numbers
    PROVE  /\ Cardinality(S) \in Nat
           /\ Cardinality(S \cup {n}) \in Nat
           /\ Cardinality(S \cup {n}) <= Cardinality(S) + 1
<1>1. IsFiniteSet(S) /\ Cardinality(S) \in Nat
  BY NumbersFinite
<1>2. Cardinality(S \cup {n}) = IF n \in S THEN Cardinality(S) ELSE Cardinality(S) + 1
  BY <1>1, FS_AddElement
<1>3. QED
  BY <1>1, <1>2

LEMMA CountRemove ==
    ASSUME NEW S, S \subseteq Numbers, NEW n
    PROVE  /\ Cardinality(S) \in Nat
           /\ Cardinality(S \ {n}) \in Nat
           /\ Cardinality(S \ {n}) <= Cardinality(S)
           /\ n \in S => Cardinality(S \ {n}) = Cardinality(S) - 1
<1>1. IsFiniteSet(S) /\ Cardinality(S) \in Nat
  BY NumbersFinite
<1>2. /\ IsFiniteSet(S \ {n})
      /\ Cardinality(S \ {n}) = IF n \in S THEN Cardinality(S) - 1 ELSE Cardinality(S)
  BY <1>1, FS_RemoveElement
<1>3. Cardinality(S \ {n}) \in Nat
  BY <1>2, FS_CardinalityType
<1>4. QED
  BY <1>1, <1>2, <1>3

-----------------------------------------------------------------------------

\* The part of the invariant that is about counts ...
Counts == WithinLimit /\ ReservationsHold /\ PreAllocatedBounded
\* ... and the part that is about who owns which number.
Ownership == OneOwner /\ QuarantineBounded /\ QuarantineAges

LEMMA AllocatorInit == Init => TypeOK /\ Counts /\ Ownership
<1> SUFFICES ASSUME Init PROVE TypeOK /\ Counts /\ Ownership
  OBVIOUS
<1>1. TypeOK
  BY PortAllocatorAssumption DEF Init, TypeOK, Numbers
<1>2. Counts
  BY PortAllocatorAssumption, FS_EmptySet
     DEF Init, Counts, WithinLimit, ReservationsHold, PreAllocatedBounded
<1>3. Ownership
  BY PortAllocatorAssumption
     DEF Init, Ownership, OneOwner, QuarantineBounded, QuarantineAges, Quarantined
<1>4. QED
  BY <1>1, <1>2, <1>3

LEMMA AllocatorTypes == TypeOK /\ [Next]_vars => TypeOK'
<1> SUFFICES ASSUME TypeOK, [Next]_vars PROVE TypeOK'
  OBVIOUS
<1> USE PortAllocatorAssumption DEF TypeOK
<1>1. CASE PreAllocate
  BY <1>1 DEF PreAllocate
<1>2. CASE Reserve
  BY <1>2 DEF Reserve
<1>3. CASE DropReserved
  BY <1>3 DEF DropReserved
<1>4. CASE IntoLocal
  BY <1>4 DEF IntoLocal
<1>5. ASSUME NEW n \in Numbers, AllocatePreAllocated(n) PROVE TypeOK'
  BY <1>5 DEF AllocatePreAllocated
<1>6. ASSUME NEW n \in Numbers, DropPreAllocated(n) PROVE TypeOK'
  BY <1>6 DEF DropPreAllocated
<1>7. ASSUME NEW n \in Numbers, IntoRemote(n) PROVE TypeOK'
  BY <1>7 DEF IntoRemote
<1>8. ASSUME NEW n \in Numbers, DropLocal(n) PROVE TypeOK'
  <2>1. Append(quarantine, n) \in Seq(Numbers) /\ Append(quarantine, n) # <<>>
    BY <1>8
  <2>2. Tail(Append(quarantine, n)) \in Seq(Numbers)
    BY <2>1
  <2>3. quarantine' \in Seq(Numbers)
    BY <1>8, <2>1, <2>2 DEF DropLocal, Aged
  <2>4. age' \in [Numbers -> 0..(Limit + 1)]
    BY <1>8 DEF DropLocal, Aged
  <2>5. QED
    BY <1>8, <2>3, <2>4 DEF DropLocal, Aged
<1>9. ASSUME NEW n \in Numbers, DropRemote(n) PROVE TypeOK'
  BY <1>9 DEF DropRemote
<1>10. CASE UNCHANGED vars
  BY <1>10 DEF vars
<1>11. QED
  BY <1>1, <1>2, <1>3, <1>4, <1>5, <1>6, <1>7, <1>8, <1>9, <1>10 DEF Next

\* Reservations and allocations never exceed the limit.
LEMMA AllocatorCounts == TypeOK /\ Counts /\ [Next]_vars => Counts'
<1> SUFFICES ASSUME TypeOK, Counts, [Next]_vars PROVE Counts'
  OBVIOUS
<1> DEFINE L == Cardinality(localUsed)
           R == Cardinality(remoteUsed)
           P == Cardinality(preAllocated)
<1>0. /\ L \in Nat /\ R \in Nat /\ P \in Nat /\ reserved \in Nat /\ Limit \in Nat
      /\ L + R + reserved <= Limit /\ P <= PreLimit /\ PreLimit \in Nat /\ ~panicked
  BY NumbersFinite, PortAllocatorAssumption
     DEF TypeOK, Counts, WithinLimit, ReservationsHold, PreAllocatedBounded
<1> USE DEF Counts, WithinLimit, ReservationsHold, PreAllocatedBounded, Available
<1>1. CASE PreAllocate
  <2>1. PICK n \in Numbers : preAllocated' = preAllocated \cup {n}
    BY <1>1 DEF PreAllocate
  <2>2. P < PreLimit /\ UNCHANGED <<localUsed, remoteUsed, reserved, panicked>>
    BY <1>1 DEF PreAllocate
  <2>3. Cardinality(preAllocated') \in Nat /\ Cardinality(preAllocated') <= P + 1
    BY <2>1, CountAdd DEF TypeOK
  <2>4. QED
    BY <1>0, <2>2, <2>3
<1>2. CASE Reserve
  BY <1>0, <1>2 DEF Reserve
<1>3. CASE DropReserved
  BY <1>0, <1>3 DEF DropReserved
<1>4. CASE IntoLocal
  <2>1. PICK n \in Numbers : localUsed' = localUsed \cup {n}
    BY <1>4 DEF IntoLocal
  <2>2. /\ reserved > 0 /\ reserved' = reserved - 1
        /\ panicked' = (panicked \/ ~(L + R + (reserved - 1) < Limit))
        /\ UNCHANGED <<preAllocated, remoteUsed>>
    BY <1>4 DEF IntoLocal
  <2>3. Cardinality(localUsed') \in Nat /\ Cardinality(localUsed') <= L + 1
    BY <2>1, CountAdd DEF TypeOK
  <2>4. ~panicked'
    <3>1. L + R + (reserved - 1) < Limit
      BY <1>0, <2>2
    <3>2. QED
      BY <1>0, <2>2, <3>1, Zenon
  <2>5. QED
    BY <1>0, <2>2, <2>3, <2>4
<1>5. ASSUME NEW n \in Numbers, AllocatePreAllocated(n) PROVE Counts'
  <2>1. Cardinality(localUsed') \in Nat /\ Cardinality(localUsed') <= L + 1
    BY <1>5, CountAdd DEF AllocatePreAllocated, TypeOK
  <2>2. Cardinality(preAllocated') \in Nat /\ Cardinality(preAllocated') <= P
    BY <1>5, CountRemove DEF AllocatePreAllocated, TypeOK
  <2>3. L + R + reserved < Limit /\ UNCHANGED <<remoteUsed, reserved, panicked>>
    BY <1>5 DEF AllocatePreAllocated
  <2>4. QED
    BY <1>0, <2>1, <2>2, <2>3
<1>6. ASSUME NEW n \in Numbers, DropPreAllocated(n) PROVE Counts'
  <2>1. Cardinality(preAllocated') \in Nat /\ Cardinality(preAllocated') <= P
    BY <1>6, CountRemove DEF DropPreAllocated, TypeOK
  <2>2. QED
    BY <1>0, <1>6, <2>1 DEF DropPreAllocated
<1>7. ASSUME NEW n \in Numbers, IntoRemote(n) PROVE Counts'
  <2>1. Cardinality(remoteUsed') \in Nat /\ Cardinality(remoteUsed') <= R + 1
    BY <1>7, CountAdd DEF IntoRemote, TypeOK
  <2>2. /\ reserved > 0 /\ reserved' = reserved - 1
        /\ panicked' = (panicked \/ ~(L + R + (reserved - 1) < Limit))
        /\ UNCHANGED <<preAllocated, localUsed>>
    BY <1>7 DEF IntoRemote
  <2>3. ~panicked'
    <3>1. L + R + (reserved - 1) < Limit
      BY <1>0, <2>2
    <3>2. QED
      BY <1>0, <2>2, <3>1, Zenon
  <2>4. QED
    BY <1>0, <2>1, <2>2, <2>3
<1>8. ASSUME NEW n \in Numbers, DropLocal(n) PROVE Counts'
  <2>1. Cardinality(localUsed') \in Nat /\ Cardinality(localUsed') <= L
    BY <1>8, CountRemove DEF DropLocal, TypeOK
  <2>2. QED
    BY <1>0, <1>8, <2>1 DEF DropLocal
<1>9. ASSUME NEW n \in Numbers, DropRemote(n) PROVE Counts'
  <2>1. Cardinality(remoteUsed') \in Nat /\ Cardinality(remoteUsed') <= R
    BY <1>9, CountRemove DEF DropRemote, TypeOK
  <2>2. QED
    BY <1>0, <1>9, <2>1 DEF DropRemote
<1>10. CASE UNCHANGED vars
  BY <1>10 DEF vars
<1>11. QED
  BY <1>1, <1>2, <1>3, <1>4, <1>5, <1>6, <1>7, <1>8, <1>9, <1>10 DEF Next

-----------------------------------------------------------------------------

\* What AllocatedLocalPort::drop does to the quarantine: the number goes to its end,
\* and the oldest number leaves when it is full.
LEMMA QuarantineStep ==
    ASSUME TypeOK, QuarantineBounded, NEW n \in Numbers, DropLocal(n)
    PROVE  LET k == Len(quarantine) IN
           \/ /\ k <= Limit
              /\ Len(quarantine') = k + 1
              /\ \A i \in 1..k : quarantine'[i] = quarantine[i]
              /\ quarantine'[k + 1] = n
           \/ /\ k = Limit + 1
              /\ Len(quarantine') = k
              /\ \A i \in 1..(k - 1) : quarantine'[i] = quarantine[i + 1]
              /\ quarantine'[k] = n
<1> DEFINE k == Len(quarantine)
           q == Append(quarantine, n)
<1>1. /\ q \in Seq(Numbers) /\ Len(q) = k + 1 /\ q[k + 1] = n /\ k \in Nat
      /\ \A i \in 1..k : q[i] = quarantine[i]
  BY DEF TypeOK
<1>2. /\ Tail(q) \in Seq(Numbers) /\ Len(Tail(q)) = k
      /\ \A i \in 1..k : Tail(q)[i] = q[i + 1]
  BY <1>1
<1>3. quarantine' = IF k + 1 > Limit + 1 THEN Tail(q) ELSE q
  BY <1>1 DEF DropLocal
<1>4. k <= Limit + 1 /\ Limit \in Nat
  BY PortAllocatorAssumption DEF QuarantineBounded
<1>5. CASE k <= Limit
  BY <1>1, <1>3, <1>4, <1>5
<1>6. CASE k = Limit + 1
  <2>1. quarantine' = Tail(q)
    BY <1>3, <1>4, <1>6
  <2>2. Len(quarantine') = k /\ quarantine'[k] = n
    BY <1>1, <1>2, <1>4, <1>6, <2>1
  <2>3. \A i \in 1..(k - 1) : quarantine'[i] = quarantine[i + 1]
    BY <1>1, <1>2, <1>4, <1>6, <2>1
  <2>4. QED
    BY <1>6, <2>2, <2>3
<1>7. QED
  BY <1>1, <1>4, <1>5, <1>6

\* No step gives a number a second owner or lets one out of the quarantine early.
LEMMA AllocatorOwnership == TypeOK /\ Ownership /\ [Next]_vars => Ownership'
<1> SUFFICES ASSUME TypeOK, Ownership, [Next]_vars PROVE Ownership'
  OBVIOUS
<1> USE PortAllocatorAssumption
<1>1. CASE PreAllocate
  <2>1. PICK n \in Numbers : ~Taken(n) /\ preAllocated' = preAllocated \cup {n}
    BY <1>1 DEF PreAllocate, IsNextFree
  <2>2. UNCHANGED <<localUsed, quarantine, age>>
    BY <1>1 DEF PreAllocate
  <2>3. QED
    BY <2>1, <2>2 DEF Taken, Ownership, OneOwner, QuarantineBounded, QuarantineAges, Quarantined
<1>2. CASE Reserve
  BY <1>2 DEF Reserve, Ownership, OneOwner, QuarantineBounded, QuarantineAges, Quarantined
<1>3. CASE DropReserved
  BY <1>3 DEF DropReserved, Ownership, OneOwner, QuarantineBounded, QuarantineAges, Quarantined
<1>4. CASE IntoLocal
  BY <1>4 DEF IntoLocal, IsNextFree, Taken, TypeOK,
              Ownership, OneOwner, QuarantineBounded, QuarantineAges, Quarantined
<1>5. ASSUME NEW n \in Numbers, AllocatePreAllocated(n) PROVE Ownership'
  BY <1>5 DEF AllocatePreAllocated, TypeOK,
              Ownership, OneOwner, QuarantineBounded, QuarantineAges, Quarantined
<1>6. ASSUME NEW n \in Numbers, DropPreAllocated(n) PROVE Ownership'
  BY <1>6 DEF DropPreAllocated, TypeOK,
              Ownership, OneOwner, QuarantineBounded, QuarantineAges, Quarantined
<1>7. ASSUME NEW n \in Numbers, IntoRemote(n) PROVE Ownership'
  BY <1>7 DEF IntoRemote, Ownership, OneOwner, QuarantineBounded, QuarantineAges, Quarantined
<1>8. ASSUME NEW n \in Numbers, DropLocal(n) PROVE Ownership'
  <2> DEFINE k == Len(quarantine)
             m == Len(quarantine')
             q == quarantine
             r == quarantine'
  <2>a. /\ k \in Nat /\ Limit \in Nat /\ k <= Limit + 1
        /\ \A i \in 1..k : q[i] \in Numbers
    BY DEF TypeOK, Ownership, QuarantineBounded
  <2>b. \A i \in 1..k : q[i] \in Quarantined
    BY DEF Quarantined
  <2>c. /\ n \in localUsed /\ n \notin preAllocated
        /\ \A i \in 1..k : q[i] # n /\ q[i] \notin localUsed /\ q[i] \notin preAllocated
        /\ \A i, j \in 1..k : i # j => q[i] # q[j]
        /\ localUsed \cap preAllocated = {}
    BY <1>8, <2>b DEF DropLocal, Ownership, OneOwner
  <2>d. /\ \A i \in 1..k : age[q[i]] = k - i
        /\ \A x \in Numbers : (\A i \in 1..k : q[i] # x) => age[x] = Limit + 1
    BY DEF Ownership, QuarantineAges, Quarantined
  <2>1. /\ k \in Nat /\ Limit \in Nat /\ k <= Limit + 1
        /\ \A i \in 1..k : q[i] \in Numbers
        /\ n \in localUsed /\ n \notin preAllocated
        /\ \A i \in 1..k : q[i] # n /\ q[i] \notin localUsed /\ q[i] \notin preAllocated
        /\ \A i, j \in 1..k : i # j => q[i] # q[j]
        /\ \A i \in 1..k : age[q[i]] = k - i
        /\ \A x \in Numbers : (\A i \in 1..k : q[i] # x) => age[x] = Limit + 1
        /\ localUsed \cap preAllocated = {}
    BY <2>a, <2>c, <2>d
  <2>2. /\ localUsed' = localUsed \ {n} /\ preAllocated' = preAllocated
        /\ \A x \in Numbers : age'[x] = IF x = n THEN 0
                                        ELSE IF age[x] <= Limit THEN age[x] + 1 ELSE age[x]
    BY <1>8 DEF DropLocal, Aged
  <2>3. \/ /\ k <= Limit /\ m = k + 1 /\ r[k + 1] = n
           /\ \A i \in 1..k : r[i] = q[i]
        \/ /\ k = Limit + 1 /\ m = k /\ r[k] = n
           /\ \A i \in 1..(k - 1) : r[i] = q[i + 1]
    BY <1>8, QuarantineStep DEF Ownership
  <2>4. m \in Nat /\ m <= Limit + 1
    BY <2>1, <2>3
  <2> HIDE DEF k, m, q, r
  <2>5. \A i, j \in 1..m : i # j => r[i] # r[j]
    BY <2>1, <2>3
  <2>6. \A i \in 1..m : r[i] \notin localUsed' /\ r[i] \notin preAllocated'
    BY <2>1, <2>2, <2>3
  <2>7. \A i \in 1..m : age'[r[i]] = m - i
    BY <2>1, <2>2, <2>3
  <2>8. \A x \in Numbers : (\A i \in 1..m : r[i] # x) => age'[x] = Limit + 1
    <3> SUFFICES ASSUME NEW x \in Numbers, \A i \in 1..m : r[i] # x
                 PROVE  age'[x] = Limit + 1
      OBVIOUS
    <3>1. x # n
      BY <2>1, <2>3
    <3>2. CASE \A i \in 1..k : q[i] # x
      BY <2>1, <2>2, <3>1, <3>2
    <3>3. CASE \E i \in 1..k : q[i] = x
      <4>1. PICK i \in 1..k : q[i] = x
        BY <3>3
      <4>2. k = Limit + 1 /\ i = 1
        BY <2>1, <2>3, <4>1
      <4>3. QED
        BY <2>1, <2>2, <3>1, <4>1, <4>2
    <3>4. QED
      BY <3>2, <3>3
  <2>9. localUsed' \cap preAllocated' = {}
    BY <2>1, <2>2
  <2>10. OneOwner'
    BY <2>5, <2>6, <2>9 DEF OneOwner, Quarantined, m, r
  <2>11. QuarantineBounded'
    BY <2>4 DEF QuarantineBounded, m
  <2>12. QuarantineAges'
    <3>1. \A i \in 1..Len(quarantine') : age'[quarantine'[i]] = Len(quarantine') - i
      BY <2>7 DEF m, r
    <3>2. \A x \in Numbers : x \notin Quarantined' => age'[x] = Limit + 1
      BY <2>8 DEF Quarantined, m, r
    <3>3. QED
      BY <3>1, <3>2 DEF QuarantineAges
  <2>13. QED
    BY <2>10, <2>11, <2>12 DEF Ownership
<1>9. ASSUME NEW n \in Numbers, DropRemote(n) PROVE Ownership'
  BY <1>9 DEF DropRemote, Ownership, OneOwner, QuarantineBounded, QuarantineAges, Quarantined
<1>10. CASE UNCHANGED vars
  BY <1>10 DEF vars, Ownership, OneOwner, QuarantineBounded, QuarantineAges, Quarantined
<1>11. QED
  BY <1>1, <1>2, <1>3, <1>4, <1>5, <1>6, <1>7, <1>8, <1>9, <1>10 DEF Next

\* The inductive invariant holds in every reachable state.
LEMMA AllocatorInvariant == Spec => []IInv
<1> DEFINE J == TypeOK /\ Counts /\ Ownership
<1>1. Init => J
  BY AllocatorInit
<1>2. J /\ [Next]_vars => J'
  BY AllocatorTypes, AllocatorCounts, AllocatorOwnership
<1>3. J => IInv
  BY DEF IInv, Counts, Ownership
<1>4. QED
  BY <1>1, <1>2, <1>3, PTL DEF Spec

\* No more ports are allocated and reserved than the configuration allows.
THEOREM PortsWithinLimit == Spec => []WithinLimit
<1>1. IInv => WithinLimit
  BY DEF IInv
<1>2. QED
  BY <1>1, AllocatorInvariant, PTL

\* The unwraps in ReservedPort::into_local and into_remote never fail.
THEOREM ReservationsNeverFail == Spec => []ReservationsHold
<1>1. IInv => ReservationsHold
  BY DEF IInv
<1>2. QED
  BY <1>1, AllocatorInvariant, PTL

\* A local port number never has two owners.
THEOREM PortNumbersUnique == Spec => []OneOwner
<1>1. IInv => OneOwner
  BY DEF IInv
<1>2. QED
  BY <1>1, AllocatorInvariant, PTL

\* A local port number rests while limit + 1 further ports are closed.
THEOREM PortNumbersRest == Spec => []NoEarlyReuse
<1>1. IInv => NoEarlyReuse
  BY DEF IInv, TypeOK, OneOwner, QuarantineAges, NoEarlyReuse
<1>2. QED
  BY <1>1, AllocatorInvariant, PTL

\* The search loops in try_allocate_local and try_pre_allocate_local terminate: used,
\* pre-allocated and quarantined numbers together are fewer than all numbers, which
\* is what the upper bound on max_ports in Cfg::check is for.
THEOREM PortNumberFound == Spec => []NumberAvailable
<1>1. IInv => NumberAvailable
  <2> SUFFICES ASSUME IInv, ~NumberAvailable PROVE FALSE
    OBVIOUS
  <2> DEFINE k == Len(quarantine)
             A == localUsed \cup preAllocated
  <2>1. k \in Nat /\ k <= Limit + 1 /\ quarantine \in [1..k -> Numbers]
    BY PortAllocatorAssumption DEF IInv, TypeOK, QuarantineBounded
  <2>2. Quarantined \subseteq Numbers
    BY <2>1 DEF Quarantined
  <2>3. Cardinality(Quarantined) <= k
    <3>1. quarantine \in Surjection(1..k, Quarantined)
      BY <2>1 DEF Surjection, Quarantined
    <3>2. ExistsSurjection(1..k, Quarantined)
      BY <3>1 DEF ExistsSurjection
    <3>3. QED
      BY <2>1, <3>2, FS_SurjCardinalityBound
  <2>4. /\ IsFiniteSet(localUsed) /\ Cardinality(localUsed) \in Nat
        /\ IsFiniteSet(preAllocated) /\ Cardinality(preAllocated) \in Nat
        /\ IsFiniteSet(Quarantined) /\ Cardinality(Quarantined) \in Nat
        /\ Cardinality(remoteUsed) \in Nat
    BY <2>2, NumbersFinite DEF IInv, TypeOK
  <2>5. /\ IsFiniteSet(A) /\ Cardinality(A) \in Nat
        /\ Cardinality(A) <= Cardinality(localUsed) + Cardinality(preAllocated)
    <3>1. /\ Cardinality(A) = Cardinality(localUsed) + Cardinality(preAllocated)
                              - Cardinality(localUsed \cap preAllocated)
          /\ IsFiniteSet(A)
      BY <2>4, FS_Union
    <3>2. Cardinality(localUsed \cap preAllocated) \in Nat
      BY NumbersFinite DEF IInv, TypeOK
    <3>3. QED
      BY <2>4, <3>1, <3>2, FS_CardinalityType
  <2>6. Cardinality(A \cup Quarantined) <= Cardinality(A) + Cardinality(Quarantined)
    <3>1. Cardinality(A \cup Quarantined) = Cardinality(A) + Cardinality(Quarantined)
                                            - Cardinality(A \cap Quarantined)
      BY <2>4, <2>5, FS_Union
    <3>2. Cardinality(A \cap Quarantined) \in Nat
      BY <2>2, NumbersFinite DEF IInv, TypeOK
    <3>3. QED
      BY <2>4, <2>5, <3>1, <3>2
  <2>7. A \cup Quarantined = Numbers
    BY <2>2 DEF NumberAvailable, Taken, IInv, TypeOK
  <2>8. Cardinality(Numbers) = Modulus
    BY FS_Interval, PortAllocatorAssumption DEF Numbers
  <2>9. /\ Cardinality(localUsed) <= Limit /\ Cardinality(preAllocated) <= PreLimit
        /\ Limit \in Nat /\ PreLimit \in Nat /\ 2 * Limit + PreLimit + 1 < Modulus
    BY <2>4, PortAllocatorAssumption DEF IInv, TypeOK, WithinLimit, PreAllocatedBounded
  <2>10. Modulus <= Limit + PreLimit + (Limit + 1)
    <3>1. Modulus <= Cardinality(A) + Cardinality(Quarantined)
      BY <2>6, <2>7, <2>8
    <3>2. Cardinality(Quarantined) <= Limit + 1
      BY <2>1, <2>3, <2>4, <2>9
    <3>3. Cardinality(A) <= Limit + PreLimit
      BY <2>4, <2>5, <2>9
    <3> HIDE DEF A
    <3>4. QED
      BY <2>4, <2>5, <2>9, <3>1, <3>2, <3>3, PortAllocatorAssumption
  <2>11. QED
    BY <2>9, <2>10, PortAllocatorAssumption
<1>2. QED
  BY <1>1, AllocatorInvariant, PTL
=============================================================================
