------------------------- MODULE CreditFlow_proofs -------------------------
(***************************************************************************)
(* CreditFlow implements the pool of port credits, for every port, and the *)
(* pool of global credits, so that two endpoints that follow the code      *)
(* never break a connection over flow control: for every number of ports,  *)
(* every buffer, chunk and queue size, and whatever the applications do.   *)
(***************************************************************************)
EXTENDS CreditFlow, FiniteSetTheorems, WellFoundedInduction, TLAPS

----------------------------------------------------------------------------
(* Induction over the natural numbers, for sets of them *)

\* Every set of naturals that is not empty has a least element.
LEMMA LeastNumber ==
    ASSUME NEW T, T \subseteq Nat, T # {}
    PROVE  \E x \in T : \A y \in T : x <= y
<1> DEFINE R == {ss \in Nat \X Nat : ss[1] < ss[2]}
<1>1. IsWellFoundedOn(R, Nat)
  BY NatLessThanWellFounded DEF OpToRel
<1>2. PICK x \in T : \A y \in T : ~(<<y, x>> \in R)
  <2> HIDE DEF R
  <2> QED  BY <1>1, WFMin
<1>3. ASSUME NEW y \in T PROVE x <= y
  <2>1. x \in Nat /\ y \in Nat
    OBVIOUS
  <2>2. ~(y < x)
    BY <1>2, <2>1
  <2> QED  BY <2>1, <2>2
<1> QED  BY <1>3

\* A set that contains 0 and with a number the next one contains all.
LEMMA Induction ==
    ASSUME NEW S, 0 \in S, \A n \in Nat : n \in S => n + 1 \in S
    PROVE  Nat \subseteq S
<1> SUFFICES ASSUME Nat \ S # {} PROVE FALSE
    OBVIOUS
<1>1. PICK x \in Nat \ S : \A y \in Nat \ S : x <= y
  BY LeastNumber
<1>2. x # 0 /\ x - 1 \in Nat /\ ~(x <= x - 1)
  OBVIOUS
<1>3. x - 1 \in S
  BY <1>1, <1>2
<1> QED  BY <1>2, <1>3

----------------------------------------------------------------------------
(* Sums of sequences: what the recursive definition computes *)

\* g has the sums of the first numbers of s.
IsSums(g, s, n) ==
    g \in [0..n -> Nat] /\ g[0] = 0 /\ \A i \in 1..n : g[i] = g[i - 1] + s[i]

\* There are sums of the beginnings of every sequence of naturals.
LEMMA SumsExist ==
    ASSUME NEW s \in Seq(Nat)
    PROVE  \E g : IsSums(g, s, Len(s))
<1> DEFINE S == {n \in Nat : n <= Len(s) => \E g : IsSums(g, s, n)}
<1>1. 0 \in S
  <2> DEFINE g == [i \in 0..0 |-> 0]
  <2>1. IsSums(g, s, 0)
    BY DEF IsSums
  <2> QED  BY <2>1
<1>2. ASSUME NEW n \in Nat, n \in S PROVE n + 1 \in S
  <2> SUFFICES ASSUME n + 1 <= Len(s) PROVE \E g : IsSums(g, s, n + 1)
      OBVIOUS
  <2>1. PICK g : IsSums(g, s, n)
    BY <1>2
  <2> DEFINE h == [i \in 0..(n + 1) |-> IF i = n + 1 THEN g[n] + s[n + 1] ELSE g[i]]
  <2>2. s[n + 1] \in Nat /\ g[n] \in Nat
    BY <2>1 DEF IsSums
  <2>3. h \in [0..(n + 1) -> Nat] /\ h[0] = 0
    BY <2>1, <2>2 DEF IsSums
  <2>4. ASSUME NEW i \in 1..(n + 1) PROVE h[i] = h[i - 1] + s[i]
    <3>1. i \in 0..(n + 1) /\ i - 1 \in 0..(n + 1) /\ i - 1 # n + 1
      OBVIOUS
    <3>2. CASE i = n + 1
      BY <3>1, <3>2
    <3>3. CASE i \in 1..n
      BY <2>1, <3>1, <3>3 DEF IsSums
    <3> QED  BY <3>2, <3>3
  <2>5. IsSums(h, s, n + 1)
    BY <2>3, <2>4 DEF IsSums
  <2> QED  BY <2>5
<1> HIDE DEF S
<1>3. Nat \subseteq S
  BY <1>1, <1>2, Induction
<1> QED  BY <1>3 DEF S

\* The recursive function of Sums is defined everywhere and meets its equation.
LEMMA SumsFacts ==
    ASSUME NEW s \in Seq(Nat)
    PROVE  IsSums(Sums(s), s, Len(s))
<1> DEFINE F(g) == [i \in 0..Len(s) |-> IF i = 0 THEN 0 ELSE g[i - 1] + s[i]]
<1>1. PICK g : IsSums(g, s, Len(s))
  BY SumsExist
<1>2. g = F(g)
  BY <1>1 DEF IsSums
<1>3. Sums(s) = F(Sums(s))
  <2>1. Sums(s) = CHOOSE h : h = F(h)
    BY DEF Sums
  <2> HIDE DEF F
  <2> QED  BY <1>2, <2>1
<1> DEFINE f == Sums(s)
<1> HIDE DEF f
<1>4. f = F(f)
  BY <1>3 DEF f
<1>5. f[0] = 0 /\ \A i \in 1..Len(s) : f[i] = f[i - 1] + s[i]
  BY SMTT(40), <1>4
<1>6. \A i \in 0..Len(s) : f[i] \in Nat
  <2> DEFINE S == {n \in Nat : n <= Len(s) => f[n] \in Nat}
  <2>1. 0 \in S
    BY <1>5
  <2>2. \A n \in Nat : n \in S => n + 1 \in S
    BY SMTT(40), <1>5
  <2> HIDE DEF S
  <2>3. Nat \subseteq S
    BY <2>1, <2>2, Induction
  <2> QED  BY <2>3 DEF S
<1> QED  BY <1>4, <1>5, <1>6 DEF IsSums, f

\* One step of the sums.
LEMMA SumsAt ==
    ASSUME NEW s \in Seq(Nat), NEW k \in 1..Len(s)
    PROVE  /\ Sums(s)[k] = Sums(s)[k - 1] + s[k]
           /\ Sums(s)[k] \in Nat /\ Sums(s)[k - 1] \in Nat /\ s[k] \in Nat
<1> DEFINE f == Sums(s)
<1>1. IsSums(f, s, Len(s))
  BY SumsFacts
<1> HIDE DEF f
<1>2. k \in 0..Len(s) /\ k - 1 \in 0..Len(s) /\ s[k] \in Nat
  OBVIOUS
<1>3. f[k] = f[k - 1] + s[k] /\ f[k] \in Nat /\ f[k - 1] \in Nat
  BY <1>1, <1>2 DEF IsSums
<1> QED  BY <1>2, <1>3 DEF f

\* The sums are naturals and start at 0.
LEMMA SumsNat ==
    ASSUME NEW s \in Seq(Nat)
    PROVE  Sums(s)[0] = 0 /\ Len(s) \in Nat /\ \A k \in 0..Len(s) : Sums(s)[k] \in Nat
  BY SumsFacts DEF IsSums

\* Equal stretches of two sequences have equal sums.
Stretch(s, a, t, b, m) == \A i \in 1..m : s[a + i] = t[b + i]

\* Where two sequences agree, their sums grow by the same amount.
LEMMA SameStretch ==
    ASSUME NEW s \in Seq(Nat), NEW t \in Seq(Nat), NEW a \in Nat, NEW b \in Nat, NEW m \in Nat,
           Stretch(s, a, t, b, m), NEW x \in Nat, NEW y \in Nat, x = a + m, y = b + m,
           x <= Len(s), y <= Len(t)
    PROVE  Sums(s)[x] - Sums(s)[a] = Sums(t)[y] - Sums(t)[b]
<1> DEFINE f == Sums(s)
           g == Sums(t)
<1> DEFINE S == {n \in Nat : n <= m => f[a + n] - f[a] = g[b + n] - g[b]}
<1>2. f[a] \in Nat /\ g[b] \in Nat
  <2>1. a \in 0..Len(s) /\ b \in 0..Len(t)
    OBVIOUS
  <2> QED  BY <2>1, SumsNat
<1>3. 0 \in S
  BY <1>2
<1>4. ASSUME NEW n \in Nat, n \in S PROVE n + 1 \in S
  <2> SUFFICES ASSUME n + 1 <= m PROVE f[a + (n + 1)] - f[a] = g[b + (n + 1)] - g[b]
      OBVIOUS
  <2>0. n + 1 \in 1..m
    OBVIOUS
  <2>1. f[a + n] - f[a] = g[b + n] - g[b]
    BY <1>4
  <2>2. s[a + (n + 1)] = t[b + (n + 1)]
    BY <2>0 DEF Stretch
  <2>3. f[a + (n + 1)] = f[a + n] + s[a + (n + 1)] /\ f[a + n] \in Nat /\ s[a + (n + 1)] \in Nat
    <3> DEFINE k == a + (n + 1)
    <3>1. k \in 1..Len(s) /\ k - 1 \in 0..Len(s) /\ k - 1 = a + n
      OBVIOUS
    <3> HIDE DEF k
    <3>2. f[k] = f[k - 1] + s[k] /\ f[k - 1] \in Nat /\ s[k] \in Nat
      BY <3>1, SumsAt
    <3> QED  BY <3>1, <3>2 DEF k
  <2>4. g[b + (n + 1)] = g[b + n] + t[b + (n + 1)] /\ g[b + n] \in Nat /\ t[b + (n + 1)] \in Nat
    <3> DEFINE k == b + (n + 1)
    <3>1. k \in 1..Len(t) /\ k - 1 \in 0..Len(t) /\ k - 1 = b + n
      OBVIOUS
    <3> HIDE DEF k
    <3>2. g[k] = g[k - 1] + t[k] /\ g[k - 1] \in Nat /\ t[k] \in Nat
      BY <3>1, SumsAt
    <3> QED  BY <3>1, <3>2 DEF k
  <2> HIDE <1>4
  <2> DEFINE u == f[a + n]
             v == g[b + n]
             w == s[a + (n + 1)]
             fx == f[a + (n + 1)]
             gy == g[b + (n + 1)]
             fa == f[a]
             gb == g[b]
  <2>5. u - fa = v - gb /\ fx = u + w /\ gy = v + w
    BY <2>1, <2>2, <2>3, <2>4
  <2>6. u \in Nat /\ v \in Nat /\ w \in Nat /\ fa \in Nat /\ gb \in Nat
    BY <1>2, <2>3, <2>4
  <2>7. fx - fa = gy - gb
    <3> HIDE DEF u, v, w, fx, gy, fa, gb
    <3> QED  BY <2>5, <2>6
  <2> QED  BY <2>7
<1> HIDE DEF S
<1>5. Nat \subseteq S
  BY <1>3, <1>4, Induction
<1> QED  BY <1>5 DEF S, f, g

\* Totals of sequences: of the empty one, and of what Append, Tail and \o make.
LEMMA TotalType == ASSUME NEW s \in Seq(Nat) PROVE Total(s) \in Nat
<1>1. Len(s) \in 0..Len(s)
  OBVIOUS
<1> QED  BY <1>1, SumsNat DEF Total

LEMMA TotalEmpty == Total(<<>>) = 0
<1>1. <<>> \in Seq(Nat) /\ Len(<<>>) = 0
  OBVIOUS
<1> QED  BY <1>1, SumsNat DEF Total

LEMMA TotalAppend ==
    ASSUME NEW s \in Seq(Nat), NEW e \in Nat
    PROVE  Total(Append(s, e)) = Total(s) + e
<1> DEFINE t == Append(s, e)
           n == Len(s)
<1>1. /\ t \in Seq(Nat) /\ Len(t) = n + 1 /\ n \in Nat /\ t[n + 1] = e /\ n = 0 + n
      /\ n <= Len(s) /\ n <= Len(t)
  OBVIOUS
<1>0. Stretch(s, 0, t, 0, n)
  BY DEF Stretch
<1> HIDE DEF t
<1>2. Sums(s)[n] - Sums(s)[0] = Sums(t)[n] - Sums(t)[0]
  BY <1>0, <1>1, SameStretch
<1>3. /\ Sums(s)[0] = 0 /\ Sums(t)[0] = 0 /\ Sums(s)[n] \in Nat /\ Sums(t)[n] \in Nat
  BY <1>1, SumsNat
<1>4. Sums(t)[n + 1] = Sums(t)[(n + 1) - 1] + t[n + 1]
  BY SMTT(40), <1>1, SumsAt
<1>5. (n + 1) - 1 = n
  BY <1>1
<1>6. Sums(t)[n] = Sums(s)[n]
  BY <1>2, <1>3, <1>5
<1> QED  BY <1>1, <1>4, <1>5, <1>6 DEF Total, t

LEMMA TotalTail ==
    ASSUME NEW s \in Seq(Nat), s # <<>>
    PROVE  Total(s) = Head(s) + Total(Tail(s)) /\ Head(s) \in Nat /\ Tail(s) \in Seq(Nat)
<1> DEFINE t == Tail(s)
           n == Len(t)
<1>1. /\ t \in Seq(Nat) /\ Len(s) = n + 1 /\ n \in Nat /\ Head(s) = s[1] /\ s[1] \in Nat
      /\ n = 0 + n /\ n + 1 = 1 + n
  OBVIOUS
<1>0. Stretch(s, 1, t, 0, n)
  BY DEF Stretch
<1> HIDE DEF t
<1>2. Sums(s)[n + 1] - Sums(s)[1] = Sums(t)[n] - Sums(t)[0]
  BY SMTT(40), <1>0, <1>1, SameStretch
<1>3. Sums(t)[0] = 0 /\ Sums(s)[0] = 0 /\ Sums(t)[n] \in Nat /\ Sums(s)[n + 1] \in Nat
  BY <1>1, SumsNat
<1>4. Sums(s)[1] = Sums(s)[1 - 1] + s[1]
  BY <1>1, SumsAt
<1>5. 1 - 1 = 0
  OBVIOUS
<1>6. Sums(s)[1] = s[1]
  BY <1>1, <1>3, <1>4, <1>5
<1>7. Sums(s)[n + 1] = s[1] + Sums(t)[n]
  BY <1>1, <1>2, <1>3, <1>5, <1>6
<1> QED  BY <1>1, <1>7 DEF Total, t

LEMMA TotalConcat ==
    ASSUME NEW s \in Seq(Nat), NEW t \in Seq(Nat)
    PROVE  Total(s \o t) = Total(s) + Total(t)
<1> DEFINE u == s \o t
           m == Len(s)
           n == Len(t)
<1>1. /\ u \in Seq(Nat) /\ Len(u) = m + n /\ m \in Nat /\ n \in Nat
      /\ n = 0 + n /\ m = 0 + m /\ m + n \in Nat /\ m <= Len(s) /\ m <= Len(u)
      /\ m + n <= Len(u) /\ n <= Len(t)
  OBVIOUS
<1>0. Stretch(s, 0, u, 0, m) /\ Stretch(u, m, t, 0, n)
  BY DEF Stretch
<1> HIDE DEF u
<1>2. Sums(s)[m] - Sums(s)[0] = Sums(u)[m] - Sums(u)[0]
  <2> HIDE DEF m, n
  <2> QED  BY <1>0, <1>1, SameStretch
<1>3. Sums(u)[m + n] - Sums(u)[m] = Sums(t)[n] - Sums(t)[0]
  BY <1>0, <1>1, SameStretch
<1>4. Sums(t)[0] = 0 /\ Sums(s)[0] = 0 /\ Sums(u)[0] = 0
  BY <1>1, SumsNat
<1>5. Sums(t)[n] \in Nat /\ Sums(s)[m] \in Nat /\ Sums(u)[m] \in Nat /\ Sums(u)[m + n] \in Nat
  <2>1. n \in 0..Len(t) /\ m \in 0..Len(s) /\ m \in 0..Len(u) /\ m + n \in 0..Len(u)
    BY <1>1
  <2> QED  BY <1>1, <2>1, SumsNat
<1>7. Sums(u)[m] = Sums(s)[m]
  BY <1>2, <1>4, <1>5
<1>8. Sums(u)[m + n] = Sums(s)[m] + Sums(t)[n]
  BY <1>3, <1>4, <1>5, <1>7
<1> QED  BY <1>1, <1>8 DEF Total, u

LEMMA PastIndex ==
    ASSUME NEW n \in Nat, NEW k \in 1..n, NEW i \in 1..(n - k)
    PROVE  k + i \in 1..n /\ k + i # k
OBVIOUS

\* Changing one number changes the sum by the difference.
LEMMA TotalUpdate ==
    ASSUME NEW s \in Seq(Nat), NEW t \in Seq(Nat), Len(s) = Len(t), NEW k \in 1..Len(s),
           \A i \in 1..Len(s) : i # k => s[i] = t[i]
    PROVE  Total(t) + s[k] = Total(s) + t[k]
<1> DEFINE n == Len(s)
           a == k - 1
           m == Len(s) - k
<1>1. n \in Nat /\ a \in Nat /\ m \in Nat /\ k \in Nat /\ a = 0 + a /\ n = k + m
  OBVIOUS
<1>2. Sums(s)[a] - Sums(s)[0] = Sums(t)[a] - Sums(t)[0]
  <2>1. Stretch(s, 0, t, 0, a)
    BY DEF Stretch
  <2>2. a <= Len(s) /\ a <= Len(t)
    OBVIOUS
  <2> HIDE DEF a
  <2> QED  BY <1>1, <2>1, <2>2, SameStretch
<1>3. Sums(s)[n] - Sums(s)[k] = Sums(t)[n] - Sums(t)[k]
  <2>1. Stretch(s, k, t, k, m)
    <3> SUFFICES ASSUME NEW i \in 1..m PROVE s[k + i] = t[k + i]
        BY DEF Stretch
    <3>1. k + i \in 1..Len(s) /\ k + i # k
      BY PastIndex
    <3> QED  BY <3>1
  <2>2. n <= Len(s) /\ n <= Len(t)
    OBVIOUS
  <2> HIDE DEF m, n, a
  <2> QED  BY <1>1, <2>1, <2>2, SameStretch
<1>4. /\ Sums(s)[k] = Sums(s)[a] + s[k] /\ Sums(t)[k] = Sums(t)[a] + t[k]
      /\ Sums(s)[a] \in Nat /\ Sums(t)[a] \in Nat /\ s[k] \in Nat /\ t[k] \in Nat
  BY SumsAt
<1>5. Sums(s)[0] = 0 /\ Sums(t)[0] = 0 /\ Sums(s)[n] \in Nat /\ Sums(t)[n] \in Nat
  BY <1>1, SumsNat
<1>6. Sums(s)[a] = Sums(t)[a]
  BY <1>1, <1>2, <1>4, <1>5
<1> HIDE DEF n, a, m
<1>7. Sums(t)[n] + s[k] = Sums(s)[n] + t[k]
  <2> DEFINE sn == Sums(s)[n]
             tn == Sums(t)[n]
             sk == Sums(s)[k]
             tk == Sums(t)[k]
             sa == Sums(s)[a]
             u == s[k]
             v == t[k]
  <2>1. /\ sn - sk = tn - tk /\ sk = sa + u /\ tk = sa + v
        /\ sn \in Nat /\ tn \in Nat /\ sa \in Nat /\ u \in Nat /\ v \in Nat
    BY <1>3, <1>4, <1>5, <1>6
  <2>2. tn + u = sn + v
    <3> HIDE DEF sn, tn, sk, tk, sa, u, v
    <3> QED  BY <2>1
  <2> QED  BY <2>2
<1> QED  BY <1>7 DEF Total, n

\* No number exceeds the sum.
LEMMA TotalBounds ==
    ASSUME NEW s \in Seq(Nat), NEW k \in 1..Len(s)
    PROVE  s[k] <= Total(s)
<1> DEFINE n == Len(s)
           t == [s EXCEPT ![k] = 0]
<1>1. t \in Seq(Nat) /\ Len(t) = Len(s) /\ t[k] = 0 /\ \A i \in 1..Len(s) : i # k => s[i] = t[i]
  OBVIOUS
<1> HIDE DEF t
<1>2. Total(t) + s[k] = Total(s) + t[k]
  BY <1>1, TotalUpdate
<1>3. Total(t) \in Nat /\ Total(s) \in Nat /\ s[k] \in Nat
  BY <1>1, TotalType
<1> QED  BY <1>1, <1>2, <1>3

\* A sequence of zeros adds up to zero.
LEMMA TotalZero ==
    ASSUME NEW s \in Seq(Nat), \A k \in 1..Len(s) : s[k] = 0
    PROVE  Total(s) = 0
<1> DEFINE f == Sums(s)
           S == {n \in Nat : n <= Len(s) => f[n] = 0}
<1>1. 0 \in S
  BY SumsNat
<1>2. ASSUME NEW n \in Nat, n \in S PROVE n + 1 \in S
  <2> SUFFICES ASSUME n + 1 <= Len(s) PROVE f[n + 1] = 0
      OBVIOUS
  <2> DEFINE k == n + 1
  <2>1. k \in 1..Len(s) /\ k - 1 = n
    OBVIOUS
  <2> HIDE DEF k
  <2>2. f[k] = f[k - 1] + s[k] /\ s[k] = 0
    BY <2>1, SumsAt
  <2>3. f[n] = 0
    BY <1>2
  <2> QED  BY <2>1, <2>2, <2>3 DEF k
<1> HIDE DEF S
<1>3. Nat \subseteq S
  BY <1>1, <1>2, Induction
<1> QED  BY <1>3 DEF S, Total

----------------------------------------------------------------------------
(* Credits of messages, and sums over all ports *)

PortParts(ms)   == [i \in 1..Len(ms) |-> ms[i].port]
GlobalParts(ms) == [i \in 1..Len(ms) |-> ms[i].global]

\* The credits of either kind in a sequence of messages are a sequence of naturals.
LEMMA PartsType ==
    ASSUME NEW ms \in Seq(Credits)
    PROVE  /\ PortParts(ms) \in Seq(Nat) /\ GlobalParts(ms) \in Seq(Nat)
           /\ PortAmount(ms) = Total(PortParts(ms)) /\ GlobalAmount(ms) = Total(GlobalParts(ms))
           /\ PortAmount(ms) \in Nat /\ GlobalAmount(ms) \in Nat
<1>1. \A i \in 1..Len(ms) : ms[i].port \in Nat /\ ms[i].global \in Nat
  <2>1. \A i \in 1..Len(ms) : ms[i] \in Credits
    OBVIOUS
  <2> QED  BY <2>1 DEF Credits
<1>2. PortParts(ms) \in Seq(Nat) /\ GlobalParts(ms) \in Seq(Nat)
  BY <1>1 DEF PortParts, GlobalParts
<1>3. PortAmount(ms) = Total(PortParts(ms)) /\ GlobalAmount(ms) = Total(GlobalParts(ms))
  BY DEF PortParts, GlobalParts, PortAmount, GlobalAmount
<1> QED  BY <1>2, <1>3, TotalType

\* What the operations on queues of messages do to the credits in them.
LEMMA AmountEmpty == PortAmount(<<>>) = 0 /\ GlobalAmount(<<>>) = 0
<1>1. <<>> \in Seq(Credits)
  OBVIOUS
<1>2. PortParts(<<>>) = <<>> /\ GlobalParts(<<>>) = <<>>
  BY DEF PortParts, GlobalParts
<1> QED  BY <1>1, <1>2, PartsType, TotalEmpty

LEMMA AmountAppend ==
    ASSUME NEW ms \in Seq(Credits), NEW m \in Credits
    PROVE  /\ PortAmount(Append(ms, m)) = PortAmount(ms) + m.port
           /\ GlobalAmount(Append(ms, m)) = GlobalAmount(ms) + m.global
<1> DEFINE t == Append(ms, m)
<1>1. t \in Seq(Credits) /\ m.port \in Nat /\ m.global \in Nat
  BY DEF Credits
<1>2. /\ PortParts(t) = Append(PortParts(ms), m.port)
      /\ GlobalParts(t) = Append(GlobalParts(ms), m.global)
  BY DEF PortParts, GlobalParts
<1> HIDE DEF t
<1>3. PortAmount(t) = PortAmount(ms) + m.port
  BY <1>1, <1>2, PartsType, TotalAppend
<1>4. GlobalAmount(t) = GlobalAmount(ms) + m.global
  BY <1>1, <1>2, PartsType, TotalAppend
<1> QED  BY <1>3, <1>4 DEF t

LEMMA AmountTail ==
    ASSUME NEW ms \in Seq(Credits), ms # <<>>
    PROVE  /\ Head(ms) \in Credits /\ Tail(ms) \in Seq(Credits) /\ Len(ms) = Len(Tail(ms)) + 1
           /\ Head(ms).port \in Nat /\ Head(ms).global \in Nat
           /\ PortAmount(Tail(ms)) \in Nat /\ GlobalAmount(Tail(ms)) \in Nat
           /\ PortAmount(ms) = Head(ms).port + PortAmount(Tail(ms))
           /\ GlobalAmount(ms) = Head(ms).global + GlobalAmount(Tail(ms))
<1> DEFINE t == Tail(ms)
           m == Head(ms)
<1>1. t \in Seq(Credits) /\ m \in Credits /\ m = ms[1] /\ Len(ms) = Len(t) + 1
  OBVIOUS
<1>2. m.port \in Nat /\ m.global \in Nat
  BY <1>1 DEF Credits
<1>3. /\ PortParts(t) = Tail(PortParts(ms)) /\ Head(PortParts(ms)) = m.port
      /\ PortParts(ms) # <<>>
  BY DEF PortParts
<1>4. /\ GlobalParts(t) = Tail(GlobalParts(ms)) /\ Head(GlobalParts(ms)) = m.global
      /\ GlobalParts(ms) # <<>>
  BY DEF GlobalParts
<1> HIDE DEF t, m
<1>5. PortAmount(ms) = m.port + PortAmount(t) /\ PortAmount(t) \in Nat
  BY <1>1, <1>3, PartsType, TotalTail
<1>6. GlobalAmount(ms) = m.global + GlobalAmount(t) /\ GlobalAmount(t) \in Nat
  BY <1>1, <1>4, PartsType, TotalTail
<1> QED  BY <1>1, <1>2, <1>5, <1>6 DEF t, m

LEMMA AmountConcat ==
    ASSUME NEW ms \in Seq(Credits), NEW ns \in Seq(Credits)
    PROVE  /\ PortAmount(ms \o ns) = PortAmount(ms) + PortAmount(ns)
           /\ GlobalAmount(ms \o ns) = GlobalAmount(ms) + GlobalAmount(ns)
<1> DEFINE t == ms \o ns
<1>1. t \in Seq(Credits)
  OBVIOUS
<1>2. PortParts(t) = PortParts(ms) \o PortParts(ns)
  BY DEF PortParts
<1>3. GlobalParts(t) = GlobalParts(ms) \o GlobalParts(ns)
  BY DEF GlobalParts
<1> HIDE DEF t
<1>4. PortAmount(t) = PortAmount(ms) + PortAmount(ns)
  BY <1>1, <1>2, PartsType, TotalConcat
<1>5. GlobalAmount(t) = GlobalAmount(ms) + GlobalAmount(ns)
  BY <1>1, <1>3, PartsType, TotalConcat
<1> QED  BY <1>4, <1>5 DEF t

\* PortSeq lists every port once.
LEMMA PortSeqFacts ==
    /\ Cardinality(Ports) \in Nat
    /\ PortSeq \in [1..Cardinality(Ports) -> Ports]
    /\ \A i, j \in 1..Cardinality(Ports) : PortSeq[i] = PortSeq[j] => i = j
    /\ \A p \in Ports : \E i \in 1..Cardinality(Ports) : PortSeq[i] = p
<1> DEFINE n == Cardinality(Ports)
<1>1. n \in Nat /\ ExistsBijection(1..n, Ports)
  BY CreditFlowAssumption, FS_CardinalityType
<1>2. PICK f \in Bijection(1..n, Ports) : TRUE
  BY <1>1 DEF ExistsBijection
<1>3. f \in [1..n -> Ports] /\ IsInjective(f)
  BY <1>2 DEF Bijection, Injection, IsInjective
<1>4. PortSeq \in [1..n -> Ports] /\ IsInjective(PortSeq)
  BY <1>3 DEF PortSeq, SetToSeq
<1>5. PortSeq \in Injection(1..n, Ports)
  BY <1>4 DEF Injection, IsInjective
<1>6. IsFiniteSet(Ports) /\ IsFiniteSet(1..n) /\ Cardinality(1..n) = n
  BY <1>1, CreditFlowAssumption, FS_Interval
<1>7. PortSeq \in Surjection(1..n, Ports)
  BY <1>5, <1>6, FS_Injection
<1> QED  BY <1>1, <1>4, <1>7 DEF IsInjective, Surjection

\* The numbers that SumOver adds up.
LEMMA SummandsType ==
    ASSUME NEW f \in [Ports -> Nat]
    PROVE  /\ [i \in 1..Cardinality(Ports) |-> f[PortSeq[i]]] \in Seq(Nat)
           /\ Len([i \in 1..Cardinality(Ports) |-> f[PortSeq[i]]]) = Cardinality(Ports)
  BY PortSeqFacts

\* A sum over the ports is a natural number and no less than any summand.
LEMMA SumOverType ==
    ASSUME NEW f \in [Ports -> Nat]
    PROVE  /\ SumOver(f) \in Nat
           /\ \A p \in Ports : f[p] <= SumOver(f)
           /\ (\A p \in Ports : f[p] = 0) => SumOver(f) = 0
<1> DEFINE s == [i \in 1..Cardinality(Ports) |-> f[PortSeq[i]]]
<1>1. s \in Seq(Nat) /\ Len(s) = Cardinality(Ports)
  BY SummandsType
<1>2. \A i \in 1..Cardinality(Ports) : s[i] = f[PortSeq[i]] /\ PortSeq[i] \in Ports
  BY PortSeqFacts
<1>3. SumOver(f) = Total(s)
  BY DEF SumOver
<1> HIDE DEF s
<1>4. SumOver(f) \in Nat
  BY <1>1, <1>3, TotalType
<1>5. ASSUME NEW p \in Ports PROVE f[p] <= SumOver(f)
  <2>1. PICK i \in 1..Cardinality(Ports) : PortSeq[i] = p
    BY PortSeqFacts
  <2>2. s[i] <= Total(s)
    BY <1>1, TotalBounds
  <2> QED  BY <1>2, <1>3, <2>1, <2>2
<1>6. ASSUME \A p \in Ports : f[p] = 0 PROVE SumOver(f) = 0
  BY <1>1, <1>2, <1>3, <1>6, TotalZero
<1> QED  BY <1>4, <1>5, <1>6

\* A sum changes as the one port that changes.
LEMMA SumOverUpdate ==
    ASSUME NEW f \in [Ports -> Nat], NEW g \in [Ports -> Nat], NEW p \in Ports,
           \A q \in Ports \ {p} : g[q] = f[q]
    PROVE  SumOver(g) + f[p] = SumOver(f) + g[p]
<1> DEFINE s == [i \in 1..Cardinality(Ports) |-> f[PortSeq[i]]]
           t == [i \in 1..Cardinality(Ports) |-> g[PortSeq[i]]]
<1>1. s \in Seq(Nat) /\ Len(s) = Cardinality(Ports) /\ t \in Seq(Nat) /\ Len(t) = Cardinality(Ports)
  BY SummandsType
<1>2. \A i \in 1..Cardinality(Ports) : s[i] = f[PortSeq[i]] /\ t[i] = g[PortSeq[i]] /\ PortSeq[i] \in Ports
  BY PortSeqFacts
<1>3. SumOver(f) = Total(s) /\ SumOver(g) = Total(t)
  BY DEF SumOver
<1> HIDE DEF s, t
<1>4. PICK k \in 1..Cardinality(Ports) : PortSeq[k] = p
  BY PortSeqFacts
<1>5. \A i \in 1..Cardinality(Ports) : i # k => s[i] = t[i]
  BY <1>2, <1>4, PortSeqFacts
<1>6. Total(t) + s[k] = Total(s) + t[k]
  BY SMTT(40), <1>1, <1>5, TotalUpdate
<1> QED  BY <1>2, <1>3, <1>4, <1>6

----------------------------------------------------------------------------
(* The inductive invariant *)

\* Global credits that the operations of each port hold, that are on the wire, and that
\* the receiving endpoint counts as used; lengths of the queues.
HeldGlobal == [p \in Ports |-> held[p].global + msg[p].global]
WireGlobal == [p \in Ports |-> GlobalAmount(wire[p])]
UsedGlobal == [p \in Ports |-> GlobalAmount(rxq[p]) + InHand(p)]
Queued     == [p \in Ports |-> Len(wire[p])]

\* An operation that waits for credits holds none, and no operation holds more than
\* what it has left to send.
OperationsOK ==
    \A p \in Ports :
      /\ pc[p] # "queue" => held[p] = None /\ msg[p] = None
      /\ Amount(held[p]) <= left[p]

\* The credits of a port, wherever they are, add up to its receive buffer, and the
\* returner keeps less than a batch.
PortConserved ==
    \A p \in Ports :
      /\ store[p] + (held[p].port + msg[p].port) + PortAmount(wire[p]) + used[p] + toReturn[p]
           + ret[p] + lost[p] = PortLimit
      /\ toReturn[p] < ReturnThreshold

\* What a receiver can take has been counted as used.
PortInHand(p) == IF hand # <<>> /\ hand[1].port = p THEN hand[1].msg.port ELSE 0
ReceivedUsed == \A p \in Ports : PortAmount(rxq[p]) + PortInHand(p) <= used[p]

GlobalConserved ==
    gstore + SumOver(HeldGlobal) + SumOver(WireGlobal) + gused + greleasing + gtoReturn
      + gret + glost = gtotal

GlobalUsed == gused = SumOver(UsedGlobal)

\* The queue of the multiplexer does not overflow.
QueueBound == SumOver(Queued) <= QueueCap

IInv ==
    /\ setup \in Setups /\ TypeOK
    /\ OperationsOK /\ PortConserved /\ ReceivedUsed
    /\ GlobalConserved /\ GlobalUsed /\ QueueBound
    /\ NoProtocolError

----------------------------------------------------------------------------
(* Where the credits are, as numbers, and what the invariant says of them *)

Assigned(p) == held[p].port + msg[p].port
Inflight(p) == PortAmount(wire[p])

\* The parts of the invariant that are about a single port.
OperationAt(p) ==
    /\ pc[p] # "queue" => held[p] = None /\ msg[p] = None
    /\ Amount(held[p]) <= left[p]
PortConservedAt(p) ==
    /\ store[p] + Assigned(p) + Inflight(p) + used[p] + toReturn[p] + ret[p] + lost[p] = PortLimit
    /\ toReturn[p] < ReturnThreshold
ReceivedAt(p) == PortAmount(rxq[p]) + PortInHand(p) <= used[p]

\* Three parts of the invariant, port by port.
LEMMA PartsByPort ==
    /\ OperationsOK = \A p \in Ports : OperationAt(p)
    /\ PortConserved = \A p \in Ports : PortConservedAt(p)
    /\ ReceivedUsed = \A p \in Ports : ReceivedAt(p)
  BY DEF OperationsOK, PortConserved, ReceivedUsed, OperationAt, PortConservedAt, ReceivedAt,
         Assigned, Inflight

\* What the assumption on setups says of the sizes.
LEMMA ConstantsType ==
    ASSUME setup \in Setups
    PROVE  /\ PortLimit \in Nat \ {0} /\ PortLimit \in Limits /\ ChunkSize \in Nat \ {0}
           /\ ReturnThreshold \in Nat \ {0} /\ setup.ports \subseteq Ports
           /\ setup.sizes \subseteq Sizes /\ Sizes \subseteq Nat \ {0}
           /\ setup.sends \subseteq Nat \ {0} /\ setup.connects \subseteq Nat \ {0}
           /\ setup.sets \in Nat /\ setup.throttle \in Nat
           /\ setup.connects # {} => PortLimit >= 4 /\ ChunkSize >= 4
<1>1. PortLimit \in Nat \ {0} /\ PortLimit \in Limits /\ ChunkSize \in Nat \ {0}
  BY CreditFlowAssumption DEF PortLimit, ChunkSize
<1>2. ReturnThreshold \in Nat \ {0}
  BY <1>1 DEF ReturnThreshold
<1> QED  BY <1>1, <1>2, CreditFlowAssumption DEF PortLimit, ChunkSize

\* The counters of a port are naturals.
LEMMA PortTypes ==
    ASSUME TypeOK, setup \in Setups, NEW p \in Ports
    PROVE  /\ store[p] \in Nat /\ left[p] \in Nat /\ ret[p] \in Nat /\ used[p] \in Nat
           /\ toReturn[p] \in Nat /\ lost[p] \in Nat
           /\ held[p] \in Credits /\ msg[p] \in Credits
           /\ held[p].port \in Nat /\ held[p].global \in Nat
           /\ msg[p].port \in Nat /\ msg[p].global \in Nat
           /\ wire[p] \in Seq(Credits) /\ rxq[p] \in Seq(Credits)
           /\ Assigned(p) \in Nat /\ Inflight(p) \in Nat /\ GlobalAmount(wire[p]) \in Nat
           /\ PortAmount(rxq[p]) \in Nat /\ GlobalAmount(rxq[p]) \in Nat
           /\ PortInHand(p) \in Nat /\ InHand(p) \in Nat
           /\ Len(wire[p]) \in Nat
<1>1. store \in [Ports -> 0..PortLimit] /\ left \in [Ports -> Nat] /\ ret \in [Ports -> Nat]
  BY DEF TypeOK
<1>2. used \in [Ports -> Nat] /\ toReturn \in [Ports -> Nat] /\ lost \in [Ports -> Nat]
  BY DEF TypeOK
<1>3. held \in [Ports -> Credits] /\ msg \in [Ports -> Credits]
  BY DEF TypeOK
<1>4. wire \in [Ports -> Seq(Credits)] /\ rxq \in [Ports -> Seq(Credits)]
  BY DEF TypeOK
<1>5. held[p] \in Credits /\ msg[p] \in Credits
  BY <1>3
<1>6. /\ held[p].port \in Nat /\ held[p].global \in Nat
      /\ msg[p].port \in Nat /\ msg[p].global \in Nat
  BY <1>5 DEF Credits
<1>7. wire[p] \in Seq(Credits) /\ rxq[p] \in Seq(Credits)
  BY <1>4
<1>8. /\ Inflight(p) \in Nat /\ GlobalAmount(wire[p]) \in Nat
      /\ PortAmount(rxq[p]) \in Nat /\ GlobalAmount(rxq[p]) \in Nat
  BY <1>7, PartsType DEF Inflight
<1>9. PortInHand(p) \in Nat /\ InHand(p) \in Nat
  <2>1. hand \in Seq([port : Ports, msg : Credits, tried : BOOLEAN])
    BY DEF TypeOK
  <2>2. ASSUME hand # <<>> PROVE hand[1].msg \in Credits
    <3> DEFINE R == [port : Ports, msg : Credits, tried : BOOLEAN]
    <3>1. ASSUME NEW T, hand \in Seq(T) PROVE hand[1] \in T
      BY <2>2, <3>1
    <3>2. hand[1] \in R
      BY <2>1, <3>1
    <3> QED  BY <3>2
  <2>3. ASSUME hand # <<>> PROVE hand[1].msg.port \in Nat /\ hand[1].msg.global \in Nat
    BY <2>2, <2>3 DEF Credits
  <2> QED  BY <2>3 DEF PortInHand, InHand
<1>10. store[p] \in Nat
  BY <1>1, ConstantsType
<1>11. Len(wire[p]) \in Nat
  BY <1>7
<1>12. Assigned(p) \in Nat
  BY <1>6 DEF Assigned
<1>13. /\ left[p] \in Nat /\ ret[p] \in Nat /\ used[p] \in Nat /\ toReturn[p] \in Nat
       /\ lost[p] \in Nat
  BY <1>1, <1>2
<1> QED  BY <1>5, <1>6, <1>7, <1>8, <1>9, <1>10, <1>11, <1>12, <1>13

\* The global counters and the summands of the global sums are naturals.
LEMMA GlobalTypes ==
    ASSUME TypeOK, setup \in Setups
    PROVE  /\ gstore \in Nat /\ gret \in Nat /\ gused \in Nat /\ greleasing \in Nat
           /\ gtoReturn \in Nat /\ gtotal \in Nat /\ glost \in Nat
           /\ HeldGlobal \in [Ports -> Nat] /\ WireGlobal \in [Ports -> Nat]
           /\ UsedGlobal \in [Ports -> Nat] /\ Queued \in [Ports -> Nat]
           /\ SumOver(HeldGlobal) \in Nat /\ SumOver(WireGlobal) \in Nat
           /\ SumOver(UsedGlobal) \in Nat /\ SumOver(Queued) \in Nat
<1>1. /\ gstore \in Nat /\ gret \in Nat /\ gused \in Nat /\ greleasing \in Nat
      /\ gtoReturn \in Nat /\ gtotal \in Nat /\ glost \in Nat
  BY DEF TypeOK
<1>2. HeldGlobal \in [Ports -> Nat]
  BY PortTypes DEF HeldGlobal
<1>3. WireGlobal \in [Ports -> Nat]
  BY PortTypes DEF WireGlobal
<1>4. UsedGlobal \in [Ports -> Nat]
  BY PortTypes DEF UsedGlobal
<1>5. Queued \in [Ports -> Nat]
  BY PortTypes DEF Queued
<1> QED  BY <1>1, <1>2, <1>3, <1>4, <1>5, SumOverType

Typed == setup \in Setups /\ TypeOK
FunctionsTyped ==
    /\ HeldGlobal \in [Ports -> Nat] /\ WireGlobal \in [Ports -> Nat]
    /\ UsedGlobal \in [Ports -> Nat] /\ Queued \in [Ports -> Nat]

\* The same as one state predicate, to be used of the next state as well.
LEMMA FunctionTypes == Typed => FunctionsTyped
  BY GlobalTypes DEF Typed, FunctionsTyped

----------------------------------------------------------------------------
(* Steps that concern the credits of one port only *)

OthersSame(p) ==
    \A q \in Ports \ {p} :
      /\ pc'[q] = pc[q] /\ left'[q] = left[q] /\ held'[q] = held[q] /\ msg'[q] = msg[q]
      /\ store'[q] = store[q] /\ wire'[q] = wire[q] /\ used'[q] = used[q]
      /\ toReturn'[q] = toReturn[q] /\ ret'[q] = ret[q] /\ lost'[q] = lost[q]
      /\ rxq'[q] = rxq[q] /\ InHand(q)' = InHand(q) /\ PortInHand(q)' = PortInHand(q)

\* What the pool of port credits may do to port p.
PortStep(p) ==
    \A limit \in Limits :
      limit = PortLimit => PortPool(p, limit)!Next \/ UNCHANGED PortPool(p, limit)!vars

\* A step that leaves all of a port alone keeps the invariant there.
LEMMA OthersKeep ==
    ASSUME IInv, setup' = setup, NEW p \in Ports, OthersSame(p), NEW q \in Ports, q # p
    PROVE  OperationAt(q)' /\ PortConservedAt(q)' /\ ReceivedAt(q)' /\ PortStep(q)
<1>1. /\ pc'[q] = pc[q] /\ left'[q] = left[q] /\ held'[q] = held[q] /\ msg'[q] = msg[q]
      /\ store'[q] = store[q] /\ wire'[q] = wire[q] /\ used'[q] = used[q]
      /\ toReturn'[q] = toReturn[q] /\ ret'[q] = ret[q] /\ lost'[q] = lost[q]
      /\ rxq'[q] = rxq[q] /\ InHand(q)' = InHand(q) /\ PortInHand(q)' = PortInHand(q)
  BY DEF OthersSame
<1>2. OperationAt(q) /\ PortConservedAt(q) /\ ReceivedAt(q)
  BY PartsByPort DEF IInv
<1>3. OperationAt(q)'
  BY <1>1, <1>2 DEF OperationAt
<1>4. PortConservedAt(q)'
  BY <1>1, <1>2 DEF PortConservedAt, Assigned, Inflight, PortLimit, ReturnThreshold
<1>5. ReceivedAt(q)'
  BY <1>1, <1>2 DEF ReceivedAt
<1>6. PortStep(q)
  BY <1>1 DEF PortStep, PortPool!vars
<1> QED  BY <1>3, <1>4, <1>5, <1>6

\* The global sums of the next state are naturals.
LEMMA SumsType ==
    ASSUME TypeOK', setup \in Setups, setup' = setup
    PROVE  /\ SumOver(HeldGlobal)' \in Nat /\ SumOver(WireGlobal)' \in Nat
           /\ SumOver(UsedGlobal)' \in Nat /\ SumOver(Queued)' \in Nat
<1>1. /\ HeldGlobal' \in [Ports -> Nat] /\ WireGlobal' \in [Ports -> Nat]
      /\ UsedGlobal' \in [Ports -> Nat] /\ Queued' \in [Ports -> Nat]
  <2>1. (Typed => FunctionsTyped)'
    BY FunctionTypes, PTL
  <2> QED  BY <2>1 DEF Typed, FunctionsTyped
<1>2. /\ SumOver(HeldGlobal') \in Nat /\ SumOver(WireGlobal') \in Nat
      /\ SumOver(UsedGlobal') \in Nat /\ SumOver(Queued') \in Nat
  BY <1>1, SumOverType
<1>3. /\ (SumOver(HeldGlobal))' = SumOver(HeldGlobal')
      /\ (SumOver(WireGlobal))' = SumOver(WireGlobal')
      /\ (SumOver(UsedGlobal))' = SumOver(UsedGlobal') /\ (SumOver(Queued))' = SumOver(Queued')
  OBVIOUS
<1> QED  BY <1>2, <1>3

\* The sums over all ports change as the port does.
LEMMA SumsFollow ==
    ASSUME TypeOK, TypeOK', setup \in Setups, setup' = setup, NEW p \in Ports, OthersSame(p)
    PROVE  /\ SumOver(HeldGlobal)' + (held[p].global + msg[p].global)
                = SumOver(HeldGlobal) + (held'[p].global + msg'[p].global)
           /\ SumOver(WireGlobal)' + GlobalAmount(wire[p]) = SumOver(WireGlobal) + GlobalAmount(wire'[p])
           /\ SumOver(UsedGlobal)' + (GlobalAmount(rxq[p]) + InHand(p))
                = SumOver(UsedGlobal) + (GlobalAmount(rxq'[p]) + InHand(p)')
           /\ SumOver(Queued)' + Len(wire[p]) = SumOver(Queued) + Len(wire'[p])
<1>1. /\ HeldGlobal \in [Ports -> Nat] /\ WireGlobal \in [Ports -> Nat]
      /\ UsedGlobal \in [Ports -> Nat] /\ Queued \in [Ports -> Nat]
      /\ SumOver(HeldGlobal) \in Nat /\ SumOver(WireGlobal) \in Nat
      /\ SumOver(UsedGlobal) \in Nat /\ SumOver(Queued) \in Nat
  BY GlobalTypes
<1>2. /\ HeldGlobal' \in [Ports -> Nat] /\ WireGlobal' \in [Ports -> Nat]
      /\ UsedGlobal' \in [Ports -> Nat] /\ Queued' \in [Ports -> Nat]
  <2>1. (Typed => FunctionsTyped)'
    BY FunctionTypes, PTL
  <2> QED  BY <2>1 DEF Typed, FunctionsTyped
<1>3. /\ (SumOver(HeldGlobal))' = SumOver(HeldGlobal')
      /\ (SumOver(WireGlobal))' = SumOver(WireGlobal')
      /\ (SumOver(UsedGlobal))' = SumOver(UsedGlobal') /\ (SumOver(Queued))' = SumOver(Queued')
  OBVIOUS
<1>4. \A q \in Ports \ {p} : /\ HeldGlobal'[q] = HeldGlobal[q] /\ WireGlobal'[q] = WireGlobal[q]
                             /\ UsedGlobal'[q] = UsedGlobal[q] /\ Queued'[q] = Queued[q]
  BY DEF OthersSame, HeldGlobal, WireGlobal, UsedGlobal, Queued
<1>5. /\ SumOver(HeldGlobal') + HeldGlobal[p] = SumOver(HeldGlobal) + HeldGlobal'[p]
      /\ SumOver(WireGlobal') + WireGlobal[p] = SumOver(WireGlobal) + WireGlobal'[p]
  BY SMTT(40), <1>1, <1>2, <1>4, SumOverUpdate
<1>6. /\ SumOver(UsedGlobal') + UsedGlobal[p] = SumOver(UsedGlobal) + UsedGlobal'[p]
      /\ SumOver(Queued') + Queued[p] = SumOver(Queued) + Queued'[p]
  BY <1>1, <1>2, <1>4, SumOverUpdate
<1>7. /\ HeldGlobal[p] = held[p].global + msg[p].global /\ WireGlobal[p] = GlobalAmount(wire[p])
      /\ UsedGlobal[p] = GlobalAmount(rxq[p]) + InHand(p) /\ Queued[p] = Len(wire[p])
  BY DEF HeldGlobal, WireGlobal, UsedGlobal, Queued
<1>8. /\ HeldGlobal'[p] = held'[p].global + msg'[p].global
      /\ WireGlobal'[p] = GlobalAmount(wire'[p])
      /\ UsedGlobal'[p] = GlobalAmount(rxq'[p]) + InHand(p)' /\ Queued'[p] = Len(wire'[p])
  BY DEF HeldGlobal, WireGlobal, UsedGlobal, Queued
<1> QED  BY <1>3, <1>5, <1>6, <1>7, <1>8

----------------------------------------------------------------------------
(* What happens to the credits of a port, one lemma for each action of its pool *)

\* What the invariant says of one port, as facts about numbers.
LEMMA PortFacts ==
    ASSUME IInv, NEW p \in Ports
    PROVE  /\ PortConservedAt(p)
           /\ store[p] \in Nat /\ Assigned(p) \in Nat /\ Inflight(p) \in Nat /\ used[p] \in Nat
           /\ toReturn[p] \in Nat /\ ret[p] \in Nat /\ lost[p] \in Nat /\ PortLimit \in Nat
           /\ ReturnThreshold \in Nat \ {0}
<1>1. PortConservedAt(p)
  BY PartsByPort DEF IInv
<1> QED  BY <1>1, PortTypes, ConstantsType DEF IInv

\* The pool is told of the numbers only.
PortNumbers(p, a, b, c, d, e, f, g) ==
    /\ store'[p] = a /\ Assigned(p)' = b /\ Inflight(p)' = c /\ used'[p] = d
    /\ toReturn'[p] = e /\ ret'[p] = f /\ lost'[p] = g

\* Nothing happens.
LEMMA PortQuiet ==
    ASSUME IInv, setup' = setup, NEW p \in Ports,
           PortNumbers(p, store[p], Assigned(p), Inflight(p), used[p], toReturn[p], ret[p], lost[p])
    PROVE  PortStep(p) /\ PortConservedAt(p)'
<1>1. /\ PortConservedAt(p)
      /\ store[p] \in Nat /\ Assigned(p) \in Nat /\ Inflight(p) \in Nat /\ used[p] \in Nat
      /\ toReturn[p] \in Nat /\ ret[p] \in Nat /\ lost[p] \in Nat /\ PortLimit \in Nat
  BY PortFacts
<1>2. PortConservedAt(p)'
  BY <1>1 DEF PortConservedAt, PortNumbers, PortLimit, ReturnThreshold
<1>3. ASSUME NEW limit \in Limits, limit = PortLimit
      PROVE  PortPool(p, limit)!Next \/ UNCHANGED PortPool(p, limit)!vars
  BY DEF PortNumbers, Assigned, Inflight, PortPool!vars
<1> QED  BY <1>2, <1>3 DEF PortStep

\* The sender takes n credits.
LEMMA PortAssign ==
    ASSUME IInv, setup' = setup, NEW p \in Ports, NEW n \in 0..store[p],
           PortNumbers(p, store[p] - n, Assigned(p) + n, Inflight(p), used[p], toReturn[p], ret[p],
                       lost[p])
    PROVE  PortStep(p) /\ PortConservedAt(p)'
<1>1. /\ PortConservedAt(p)
      /\ store[p] \in Nat /\ Assigned(p) \in Nat /\ Inflight(p) \in Nat /\ used[p] \in Nat
      /\ toReturn[p] \in Nat /\ ret[p] \in Nat /\ lost[p] \in Nat /\ PortLimit \in Nat
  BY PortFacts
<1>2. PortConservedAt(p)'
  BY <1>1 DEF PortConservedAt, PortNumbers, PortLimit, ReturnThreshold
<1>3. ASSUME NEW limit \in Limits, limit = PortLimit
      PROVE  PortPool(p, limit)!Next \/ UNCHANGED PortPool(p, limit)!vars
  <2>1. CASE n = 0
    BY <1>1, <2>1 DEF PortNumbers, Assigned, Inflight, PortPool!vars
  <2>2. CASE n # 0
    <3>1. PortPool(p, limit)!Assign(n)
      BY <1>1, <2>2 DEF PortNumbers, Assigned, Inflight, PortPool!Assign
    <3>2. n \in 1..limit
      BY <1>1, <1>3, <2>2 DEF PortConservedAt
    <3> QED  BY <3>1, <3>2 DEF PortPool!Next
  <2> QED  BY <2>1, <2>2
<1> QED  BY <1>2, <1>3 DEF PortStep

\* A chunk of n credits is queued.
LEMMA PortSend ==
    ASSUME IInv, setup' = setup, NEW p \in Ports, NEW n \in 0..Assigned(p),
           PortNumbers(p, store[p], Assigned(p) - n, Inflight(p) + n, used[p], toReturn[p], ret[p],
                       lost[p])
    PROVE  PortStep(p) /\ PortConservedAt(p)'
<1>1. /\ PortConservedAt(p)
      /\ store[p] \in Nat /\ Assigned(p) \in Nat /\ Inflight(p) \in Nat /\ used[p] \in Nat
      /\ toReturn[p] \in Nat /\ ret[p] \in Nat /\ lost[p] \in Nat /\ PortLimit \in Nat
  BY PortFacts
<1>2. PortConservedAt(p)'
  BY <1>1 DEF PortConservedAt, PortNumbers, PortLimit, ReturnThreshold
<1>3. ASSUME NEW limit \in Limits, limit = PortLimit
      PROVE  PortPool(p, limit)!Next \/ UNCHANGED PortPool(p, limit)!vars
  <2>1. CASE n = 0
    BY <1>1, <2>1 DEF PortNumbers, Assigned, Inflight, PortPool!vars
  <2>2. CASE n # 0
    <3>1. PortPool(p, limit)!Send(n)
      BY <1>1, <2>2 DEF PortNumbers, Assigned, Inflight, PortPool!Send
    <3>2. n \in 1..limit
      BY <1>1, <1>3, <2>2 DEF PortConservedAt
    <3> QED  BY <3>1, <3>2 DEF PortPool!Next
  <2> QED  BY <2>1, <2>2
<1> QED  BY <1>2, <1>3 DEF PortStep

\* The operation ends, l of its credits are forgotten.
LEMMA PortAbandon ==
    ASSUME IInv, setup' = setup, NEW p \in Ports, NEW l \in 0..Assigned(p),
           PortNumbers(p, store[p] + (Assigned(p) - l), 0, Inflight(p), used[p], toReturn[p],
                       ret[p], lost[p] + l)
    PROVE  PortStep(p) /\ PortConservedAt(p)'
<1>1. /\ PortConservedAt(p)
      /\ store[p] \in Nat /\ Assigned(p) \in Nat /\ Inflight(p) \in Nat /\ used[p] \in Nat
      /\ toReturn[p] \in Nat /\ ret[p] \in Nat /\ lost[p] \in Nat /\ PortLimit \in Nat
  BY PortFacts
<1>2. PortConservedAt(p)'
  BY <1>1 DEF PortConservedAt, PortNumbers, PortLimit, ReturnThreshold
<1>3. ASSUME NEW limit \in Limits, limit = PortLimit
      PROVE  PortPool(p, limit)!Next \/ UNCHANGED PortPool(p, limit)!vars
  <2>1. PortPool(p, limit)!Abandon(l)
    BY <1>1 DEF PortNumbers, Assigned, Inflight, PortPool!Abandon
  <2>2. l \in 0..limit
    BY <1>1, <1>3 DEF PortConservedAt
  <2> QED  BY <2>1, <2>2 DEF PortPool!Next
<1> QED  BY <1>2, <1>3 DEF PortStep

\* try_send queues s credits and forgets l.
LEMMA PortTrySend ==
    ASSUME IInv, setup' = setup, NEW p \in Ports, NEW s \in 0..store[p],
           NEW l \in 0..(store[p] - s),
           PortNumbers(p, store[p] - s - l, Assigned(p), Inflight(p) + s, used[p], toReturn[p],
                       ret[p], lost[p] + l)
    PROVE  PortStep(p) /\ PortConservedAt(p)'
<1>1. /\ PortConservedAt(p)
      /\ store[p] \in Nat /\ Assigned(p) \in Nat /\ Inflight(p) \in Nat /\ used[p] \in Nat
      /\ toReturn[p] \in Nat /\ ret[p] \in Nat /\ lost[p] \in Nat /\ PortLimit \in Nat
  BY PortFacts
<1>2. PortConservedAt(p)'
  BY <1>1 DEF PortConservedAt, PortNumbers, PortLimit, ReturnThreshold
<1>3. ASSUME NEW limit \in Limits, limit = PortLimit
      PROVE  PortPool(p, limit)!Next \/ UNCHANGED PortPool(p, limit)!vars
  <2>1. PortPool(p, limit)!TrySend(s, l)
    BY <1>1 DEF PortNumbers, Assigned, Inflight, PortPool!TrySend
  <2>2. s \in 0..limit /\ l \in 0..limit
    BY <1>1, <1>3 DEF PortConservedAt
  <2> QED  BY <2>1, <2>2 DEF PortPool!Next
<1> QED  BY <1>2, <1>3 DEF PortStep

\* n credits arrive at the sender.
LEMMA PortProvide ==
    ASSUME IInv, setup' = setup, NEW p \in Ports, NEW n \in 0..ret[p],
           PortNumbers(p, store[p] + n, Assigned(p), Inflight(p), used[p], toReturn[p], ret[p] - n,
                       lost[p])
    PROVE  PortStep(p) /\ PortConservedAt(p)'
<1>1. /\ PortConservedAt(p)
      /\ store[p] \in Nat /\ Assigned(p) \in Nat /\ Inflight(p) \in Nat /\ used[p] \in Nat
      /\ toReturn[p] \in Nat /\ ret[p] \in Nat /\ lost[p] \in Nat /\ PortLimit \in Nat
  BY PortFacts
<1>2. PortConservedAt(p)'
  BY <1>1 DEF PortConservedAt, PortNumbers, PortLimit, ReturnThreshold
<1>3. ASSUME NEW limit \in Limits, limit = PortLimit
      PROVE  PortPool(p, limit)!Next \/ UNCHANGED PortPool(p, limit)!vars
  <2>1. CASE n = 0
    BY <1>1, <2>1 DEF PortNumbers, Assigned, Inflight, PortPool!vars
  <2>2. CASE n # 0
    <3>1. PortPool(p, limit)!Provide(n)
      BY <1>1, <2>2 DEF PortNumbers, Assigned, Inflight, PortPool!Provide
    <3>2. n \in 1..limit
      BY <1>1, <1>3, <2>2 DEF PortConservedAt
    <3> QED  BY <3>1, <3>2 DEF PortPool!Next
  <2> QED  BY <2>1, <2>2
<1> QED  BY <1>2, <1>3 DEF PortStep

\* A message of n credits is counted as used.
LEMMA PortUse ==
    ASSUME IInv, setup' = setup, NEW p \in Ports, NEW n \in 0..Inflight(p),
           PortNumbers(p, store[p], Assigned(p), Inflight(p) - n, used[p] + n, toReturn[p], ret[p],
                       lost[p])
    PROVE  PortStep(p) /\ PortConservedAt(p)'
<1>1. /\ PortConservedAt(p)
      /\ store[p] \in Nat /\ Assigned(p) \in Nat /\ Inflight(p) \in Nat /\ used[p] \in Nat
      /\ toReturn[p] \in Nat /\ ret[p] \in Nat /\ lost[p] \in Nat /\ PortLimit \in Nat
  BY PortFacts
<1>2. PortConservedAt(p)'
  BY <1>1 DEF PortConservedAt, PortNumbers, PortLimit, ReturnThreshold
<1>3. ASSUME NEW limit \in Limits, limit = PortLimit
      PROVE  PortPool(p, limit)!Next \/ UNCHANGED PortPool(p, limit)!vars
  <2>1. CASE n = 0
    BY <1>1, <2>1 DEF PortNumbers, Assigned, Inflight, PortPool!vars
  <2>2. CASE n # 0
    <3>1. PortPool(p, limit)!UseCredits(n)
      BY <1>1, <2>2 DEF PortNumbers, Assigned, Inflight, PortPool!UseCredits
    <3>2. n \in 1..limit
      BY <1>1, <1>3, <2>2 DEF PortConservedAt
    <3> QED  BY <3>1, <3>2 DEF PortPool!Next
  <2> QED  BY <2>1, <2>2
<1> QED  BY <1>2, <1>3 DEF PortStep

\* n used credits go back, in batches.
LEMMA PortReturn ==
    ASSUME IInv, setup' = setup, NEW p \in Ports, NEW n \in 0..used[p],
           PortNumbers(p, store[p], Assigned(p), Inflight(p), used[p] - n,
                       IF toReturn[p] + n >= ReturnThreshold THEN 0 ELSE toReturn[p] + n,
                       ret[p] + IF toReturn[p] + n >= ReturnThreshold THEN toReturn[p] + n ELSE 0,
                       lost[p])
    PROVE  PortStep(p) /\ PortConservedAt(p)'
<1>1. /\ PortConservedAt(p)
      /\ store[p] \in Nat /\ Assigned(p) \in Nat /\ Inflight(p) \in Nat /\ used[p] \in Nat
      /\ toReturn[p] \in Nat /\ ret[p] \in Nat /\ lost[p] \in Nat /\ PortLimit \in Nat
  BY PortFacts
<1>2. PortConservedAt(p)'
  BY <1>1 DEF PortConservedAt, PortNumbers, PortLimit, ReturnThreshold
<1>3. ASSUME NEW limit \in Limits, limit = PortLimit
      PROVE  PortPool(p, limit)!Next \/ UNCHANGED PortPool(p, limit)!vars
  <2>1. CASE n = 0
    <3>1. ReturnThreshold \in Nat /\ ~(toReturn[p] + n >= ReturnThreshold)
      BY <1>1, <2>1, PortFacts DEF PortConservedAt
    <3>2. used'[p] = used[p] /\ toReturn'[p] = toReturn[p] /\ ret'[p] = ret[p]
      BY <1>1, <2>1, <3>1 DEF PortNumbers
    <3> QED  BY <3>2 DEF PortNumbers, Assigned, Inflight, PortPool!vars
  <2>2. CASE n # 0
    <3>1. PortPool(p, limit)!ReturnThreshold = ReturnThreshold
      BY <1>1, <1>3 DEF ReturnThreshold, PortPool!ReturnThreshold, PortPool!MaxOf, PortSize,
         PortPool!PortSize
    <3>2. PortPool(p, limit)!StartReturn(n)
      BY <1>1, <2>2, <3>1 DEF PortNumbers, Assigned, Inflight, PortPool!StartReturn
    <3>3. n \in 1..limit
      BY <1>1, <1>3, <2>2 DEF PortConservedAt
    <3> QED  BY <3>2, <3>3 DEF PortPool!Next
  <2> QED  BY <2>1, <2>2
<1> QED  BY <1>2, <1>3 DEF PortStep


----------------------------------------------------------------------------
(* What happens to the global credits, one lemma for each action of their pool *)

GlobalStep == GlobalPool!Next \/ UNCHANGED GlobalPool!vars

GlobalNumbers(a, b, c, d, e, f, g, h, i) ==
    /\ gstore' = a /\ SumOver(HeldGlobal)' = b /\ SumOver(WireGlobal)' = c /\ gused' = d
    /\ greleasing' = e /\ gtoReturn' = f /\ gret' = g /\ glost' = h /\ gtotal' = i

\* Nothing happens.
LEMMA GlobalQuiet ==
    ASSUME IInv,
           GlobalNumbers(gstore, SumOver(HeldGlobal), SumOver(WireGlobal), gused,
                         greleasing, gtoReturn, gret, glost, gtotal)
    PROVE  GlobalStep /\ GlobalConserved'
<1>1. /\ GlobalConserved /\ gstore \in Nat /\ gret \in Nat /\ gused \in Nat /\ greleasing \in Nat
      /\ gtoReturn \in Nat /\ gtotal \in Nat /\ glost \in Nat
      /\ SumOver(HeldGlobal) \in Nat /\ SumOver(WireGlobal) \in Nat
  BY GlobalTypes DEF IInv
<1>2. GlobalConserved'
  BY <1>1 DEF GlobalConserved, GlobalNumbers
<1> QED  BY <1>2 DEF GlobalNumbers, HeldGlobal, WireGlobal, GlobalStep, GlobalPool!vars

\* A sender takes n credits.
LEMMA GlobalAssign ==
    ASSUME IInv, NEW n \in 0..gstore,
           GlobalNumbers(gstore - n, SumOver(HeldGlobal) + n, SumOver(WireGlobal), gused,
                         greleasing, gtoReturn, gret, glost, gtotal)
    PROVE  GlobalStep /\ GlobalConserved'
<1>1. /\ GlobalConserved /\ gstore \in Nat /\ gret \in Nat /\ gused \in Nat /\ greleasing \in Nat
      /\ gtoReturn \in Nat /\ gtotal \in Nat /\ glost \in Nat
      /\ SumOver(HeldGlobal) \in Nat /\ SumOver(WireGlobal) \in Nat
  BY GlobalTypes DEF IInv
<1>2. GlobalConserved'
  BY <1>1 DEF GlobalConserved, GlobalNumbers
<1>3. CASE n = 0
  BY <1>1, <1>2, <1>3 DEF GlobalNumbers, HeldGlobal, WireGlobal, GlobalStep, GlobalPool!vars
<1>4. CASE n # 0
  <2>1. GlobalPool!Assign(n)
    BY <1>1, <1>4 DEF GlobalNumbers, HeldGlobal, WireGlobal, GlobalPool!Assign
  <2>2. n \in 1..gtotal
    BY <1>1, <1>4 DEF GlobalConserved
  <2> QED  BY <1>2, <2>1, <2>2 DEF GlobalStep, GlobalPool!Next
<1> QED  BY <1>3, <1>4

\* A chunk of n credits is queued.
LEMMA GlobalSend ==
    ASSUME IInv, NEW n \in 0..SumOver(HeldGlobal),
           GlobalNumbers(gstore, SumOver(HeldGlobal) - n, SumOver(WireGlobal) + n, gused,
                         greleasing, gtoReturn, gret, glost, gtotal)
    PROVE  GlobalStep /\ GlobalConserved'
<1>1. /\ GlobalConserved /\ gstore \in Nat /\ gret \in Nat /\ gused \in Nat /\ greleasing \in Nat
      /\ gtoReturn \in Nat /\ gtotal \in Nat /\ glost \in Nat
      /\ SumOver(HeldGlobal) \in Nat /\ SumOver(WireGlobal) \in Nat
  BY GlobalTypes DEF IInv
<1>2. GlobalConserved'
  BY <1>1 DEF GlobalConserved, GlobalNumbers
<1>3. CASE n = 0
  BY <1>1, <1>2, <1>3 DEF GlobalNumbers, HeldGlobal, WireGlobal, GlobalStep, GlobalPool!vars
<1>4. CASE n # 0
  <2>1. GlobalPool!Send(n)
    BY <1>1, <1>4 DEF GlobalNumbers, HeldGlobal, WireGlobal, GlobalPool!Send
  <2>2. n \in 1..gtotal
    BY <1>1, <1>4 DEF GlobalConserved
  <2> QED  BY <1>2, <2>1, <2>2 DEF GlobalStep, GlobalPool!Next
<1> QED  BY <1>3, <1>4

\* An operation ends: u of its credits go back, l are forgotten.
LEMMA GlobalAbandon ==
    ASSUME IInv, NEW u \in 0..SumOver(HeldGlobal), NEW l \in 0..(SumOver(HeldGlobal) - u),
           GlobalNumbers(gstore + u, SumOver(HeldGlobal) - u - l, SumOver(WireGlobal), gused,
                         greleasing, gtoReturn, gret, glost + l, gtotal)
    PROVE  GlobalStep /\ GlobalConserved'
<1>1. /\ GlobalConserved /\ gstore \in Nat /\ gret \in Nat /\ gused \in Nat /\ greleasing \in Nat
      /\ gtoReturn \in Nat /\ gtotal \in Nat /\ glost \in Nat
      /\ SumOver(HeldGlobal) \in Nat /\ SumOver(WireGlobal) \in Nat
  BY GlobalTypes DEF IInv
<1>2. GlobalConserved'
  BY <1>1 DEF GlobalConserved, GlobalNumbers
<1>3. GlobalPool!Abandon(u, l)
  BY <1>1 DEF GlobalNumbers, HeldGlobal, WireGlobal, GlobalPool!Abandon
<1>4. u \in 0..gtotal /\ l \in 0..gtotal
  BY <1>1 DEF GlobalConserved
<1> QED  BY <1>2, <1>3, <1>4 DEF GlobalStep, GlobalPool!Next

\* try_send queues s credits and forgets l.
LEMMA GlobalTrySend ==
    ASSUME IInv, NEW s \in 0..gstore, NEW l \in 0..(gstore - s),
           GlobalNumbers(gstore - s - l, SumOver(HeldGlobal), SumOver(WireGlobal) + s, gused,
                         greleasing, gtoReturn, gret, glost + l, gtotal)
    PROVE  GlobalStep /\ GlobalConserved'
<1>1. /\ GlobalConserved /\ gstore \in Nat /\ gret \in Nat /\ gused \in Nat /\ greleasing \in Nat
      /\ gtoReturn \in Nat /\ gtotal \in Nat /\ glost \in Nat
      /\ SumOver(HeldGlobal) \in Nat /\ SumOver(WireGlobal) \in Nat
  BY GlobalTypes DEF IInv
<1>2. GlobalConserved'
  BY <1>1 DEF GlobalConserved, GlobalNumbers
<1>3. GlobalPool!TrySend(s, l)
  BY <1>1 DEF GlobalNumbers, HeldGlobal, WireGlobal, GlobalPool!TrySend
<1>4. s \in 0..gtotal /\ l \in 0..gtotal
  BY <1>1 DEF GlobalConserved
<1> QED  BY <1>2, <1>3, <1>4 DEF GlobalStep, GlobalPool!Next

\* n credits arrive at the sender.
LEMMA GlobalProvide ==
    ASSUME IInv, NEW n \in 0..gret,
           GlobalNumbers(gstore + n, SumOver(HeldGlobal), SumOver(WireGlobal), gused,
                         greleasing, gtoReturn, gret - n, glost, gtotal)
    PROVE  GlobalStep /\ GlobalConserved'
<1>1. /\ GlobalConserved /\ gstore \in Nat /\ gret \in Nat /\ gused \in Nat /\ greleasing \in Nat
      /\ gtoReturn \in Nat /\ gtotal \in Nat /\ glost \in Nat
      /\ SumOver(HeldGlobal) \in Nat /\ SumOver(WireGlobal) \in Nat
  BY GlobalTypes DEF IInv
<1>2. GlobalConserved'
  BY <1>1 DEF GlobalConserved, GlobalNumbers
<1>3. GlobalPool!Provide(n)
  BY <1>1 DEF GlobalNumbers, HeldGlobal, WireGlobal, GlobalPool!Provide
<1>4. n \in 0..gtotal
  BY <1>1 DEF GlobalConserved
<1> QED  BY <1>2, <1>3, <1>4 DEF GlobalStep, GlobalPool!Next

\* A message of n credits is counted as used.
LEMMA GlobalUse ==
    ASSUME IInv, NEW n \in 0..SumOver(WireGlobal),
           GlobalNumbers(gstore, SumOver(HeldGlobal), SumOver(WireGlobal) - n, gused + n,
                         greleasing, gtoReturn, gret, glost, gtotal)
    PROVE  GlobalStep /\ GlobalConserved'
<1>1. /\ GlobalConserved /\ gstore \in Nat /\ gret \in Nat /\ gused \in Nat /\ greleasing \in Nat
      /\ gtoReturn \in Nat /\ gtotal \in Nat /\ glost \in Nat
      /\ SumOver(HeldGlobal) \in Nat /\ SumOver(WireGlobal) \in Nat
  BY GlobalTypes DEF IInv
<1>2. GlobalConserved'
  BY <1>1 DEF GlobalConserved, GlobalNumbers
<1>3. CASE n = 0
  BY <1>1, <1>2, <1>3 DEF GlobalNumbers, HeldGlobal, WireGlobal, GlobalStep, GlobalPool!vars
<1>4. CASE n # 0
  <2>1. GlobalPool!UseCredits(n)
    BY <1>1, <1>4 DEF GlobalNumbers, HeldGlobal, WireGlobal, GlobalPool!UseCredits
  <2>2. n \in 1..gtotal
    BY <1>1, <1>4 DEF GlobalConserved
  <2> QED  BY <1>2, <2>1, <2>2 DEF GlobalStep, GlobalPool!Next
<1> QED  BY <1>3, <1>4

\* A message of n credits finds its receiver gone.
LEMMA GlobalDiscard ==
    ASSUME IInv, NEW n \in 0..SumOver(WireGlobal),
           GlobalNumbers(gstore, SumOver(HeldGlobal), SumOver(WireGlobal) - n, gused,
                         greleasing + n, gtoReturn, gret, glost, gtotal)
    PROVE  GlobalStep /\ GlobalConserved'
<1>1. /\ GlobalConserved /\ gstore \in Nat /\ gret \in Nat /\ gused \in Nat /\ greleasing \in Nat
      /\ gtoReturn \in Nat /\ gtotal \in Nat /\ glost \in Nat
      /\ SumOver(HeldGlobal) \in Nat /\ SumOver(WireGlobal) \in Nat
  BY GlobalTypes DEF IInv
<1>2. GlobalConserved'
  BY <1>1 DEF GlobalConserved, GlobalNumbers
<1>3. CASE n = 0
  BY <1>1, <1>2, <1>3 DEF GlobalNumbers, HeldGlobal, WireGlobal, GlobalStep, GlobalPool!vars
<1>4. CASE n # 0
  <2>1. GlobalPool!Discard(n)
    BY <1>1, <1>4 DEF GlobalNumbers, HeldGlobal, WireGlobal, GlobalPool!Discard
  <2>2. n \in 1..gtotal
    BY <1>1, <1>4 DEF GlobalConserved
  <2> QED  BY <1>2, <2>1, <2>2 DEF GlobalStep, GlobalPool!Next
<1> QED  BY <1>3, <1>4

\* n used credits are released.
LEMMA GlobalRelease ==
    ASSUME IInv, NEW n \in 0..gused,
           GlobalNumbers(gstore, SumOver(HeldGlobal), SumOver(WireGlobal), gused - n,
                         greleasing + n, gtoReturn, gret, glost, gtotal)
    PROVE  GlobalStep /\ GlobalConserved'
<1>1. /\ GlobalConserved /\ gstore \in Nat /\ gret \in Nat /\ gused \in Nat /\ greleasing \in Nat
      /\ gtoReturn \in Nat /\ gtotal \in Nat /\ glost \in Nat
      /\ SumOver(HeldGlobal) \in Nat /\ SumOver(WireGlobal) \in Nat
  BY GlobalTypes DEF IInv
<1>2. GlobalConserved'
  BY <1>1 DEF GlobalConserved, GlobalNumbers
<1>3. CASE n = 0
  BY <1>1, <1>2, <1>3 DEF GlobalNumbers, HeldGlobal, WireGlobal, GlobalStep, GlobalPool!vars
<1>4. CASE n # 0
  <2>1. GlobalPool!Release(n)
    BY <1>1, <1>4 DEF GlobalNumbers, HeldGlobal, WireGlobal, GlobalPool!Release
  <2>2. n \in 1..gtotal
    BY <1>1, <1>4 DEF GlobalConserved
  <2> QED  BY <1>2, <2>1, <2>2 DEF GlobalStep, GlobalPool!Next
<1> QED  BY <1>3, <1>4

\* n released credits are counted.
LEMMA GlobalCollect ==
    ASSUME IInv, NEW n \in 0..greleasing,
           GlobalNumbers(gstore, SumOver(HeldGlobal), SumOver(WireGlobal), gused,
                         greleasing - n, gtoReturn + n, gret, glost, gtotal)
    PROVE  GlobalStep /\ GlobalConserved'
<1>1. /\ GlobalConserved /\ gstore \in Nat /\ gret \in Nat /\ gused \in Nat /\ greleasing \in Nat
      /\ gtoReturn \in Nat /\ gtotal \in Nat /\ glost \in Nat
      /\ SumOver(HeldGlobal) \in Nat /\ SumOver(WireGlobal) \in Nat
  BY GlobalTypes DEF IInv
<1>2. GlobalConserved'
  BY <1>1 DEF GlobalConserved, GlobalNumbers
<1>3. CASE n = 0
  BY <1>1, <1>2, <1>3 DEF GlobalNumbers, HeldGlobal, WireGlobal, GlobalStep, GlobalPool!vars
<1>4. CASE n # 0
  <2>1. GlobalPool!Collect(n)
    BY <1>1, <1>4 DEF GlobalNumbers, HeldGlobal, WireGlobal, GlobalPool!Collect
  <2>2. n \in 1..gtotal
    BY <1>1, <1>4 DEF GlobalConserved
  <2> QED  BY <1>2, <2>1, <2>2 DEF GlobalStep, GlobalPool!Next
<1> QED  BY <1>3, <1>4


----------------------------------------------------------------------------
(* What is shown of every step *)

StepOK == IInv' /\ GlobalStep /\ \A q \in Ports : PortStep(q)

SenderTyped ==
    /\ store \in [Ports -> 0..PortLimit] /\ gstore \in Nat
    /\ useGlobal \in [Ports -> BOOLEAN] /\ closed \in [Ports -> BOOLEAN]
    /\ pc \in [Ports -> {"idle", "request", "wait", "wait_global", "queue"}]
    /\ kind \in [Ports -> {"send", "connect"}] /\ left \in [Ports -> Nat]
    /\ held \in [Ports -> Credits] /\ msg \in [Ports -> Credits]
    /\ lost \in [Ports -> Nat] /\ glost \in Nat

WireTyped == wire \in [Ports -> Seq(Credits)] /\ ret \in [Ports -> Nat] /\ gret \in Nat

ReceiverTyped ==
    /\ rxq \in [Ports -> Seq(Credits)] /\ used \in [Ports -> Nat]
    /\ toReturn \in [Ports -> Nat] /\ rdropped \in [Ports -> BOOLEAN]
    /\ gused \in Nat /\ greleasing \in Nat /\ gtoReturn \in Nat /\ gtotal \in Nat
    /\ error \in BOOLEAN

ThrottleTyped ==
    /\ usage \in [Ports -> {"active", "inhibiting", "inhibited"}]
    /\ allowed \in [Ports -> BOOLEAN] /\ swapping \in [Ports -> BOOLEAN] /\ sets \in Nat
    /\ tasks \in [Ports -> Seq({"allow", "inhibit"})]
    /\ events \in [Ports -> Seq({"allow", "inhibit"})]
    /\ ctl \in [Ports -> Seq({"allow", "inhibit"})]
    /\ hand \in Seq([port : Ports, msg : Credits, tried : BOOLEAN]) /\ Len(hand) <= 1
    /\ inhibit \subseteq Ports

\* The type invariant by owner of the variables.
LEMMA TypeParts == TypeOK = (SenderTyped /\ WireTyped /\ ReceiverTyped /\ ThrottleTyped)
  BY DEF TypeOK, SenderTyped, WireTyped, ReceiverTyped, ThrottleTyped

\* A step that concerns one port only.
LEMMA OnePort ==
    ASSUME IInv, setup' = setup, TypeOK', NEW p \in Ports, OthersSame(p),
           OperationAt(p)', PortConservedAt(p)', PortStep(p), ReceivedAt(p)',
           GlobalStep, GlobalConserved', GlobalUsed', QueueBound', NoProtocolError'
    PROVE  StepOK
<1>1. \A q \in Ports : OperationAt(q)' /\ PortConservedAt(q)' /\ ReceivedAt(q)' /\ PortStep(q)
  BY OthersKeep
<1>2. OperationsOK' /\ PortConserved' /\ ReceivedUsed'
  BY <1>1 DEF OperationsOK, PortConserved, ReceivedUsed, OperationAt, PortConservedAt, ReceivedAt,
         Assigned, Inflight
<1> QED  BY <1>1, <1>2 DEF StepOK, IInv

AmountsTyped == \A p \in Ports : PortAmount(rxq[p]) \in Nat /\ PortInHand(p) \in Nat

\* The amounts of a port as one state predicate, for this and the next state.
LEMMA AmountTypes == Typed => AmountsTyped
  BY PortTypes DEF Typed, AmountsTyped

LEMMA PrimedTypes ==
    ASSUME TypeOK', setup \in Setups, setup' = setup, NEW p \in Ports
    PROVE  PortAmount(rxq'[p]) \in Nat /\ PortInHand(p)' \in Nat
<1>1. (Typed => AmountsTyped)'
  BY AmountTypes, PTL
<1>2. AmountsTyped'
  BY <1>1 DEF Typed
<1> QED  BY <1>2 DEF AmountsTyped

\* The receiving endpoint does nothing.
LEMMA ReceiverQuiet ==
    ASSUME IInv, setup' = setup, UNCHANGED rvars
    PROVE  /\ ReceiverTyped' /\ ThrottleTyped' /\ NoProtocolError' /\ GlobalUsed'
           /\ \A q \in Ports : ReceivedAt(q)' /\ InHand(q)' = InHand(q) /\ PortInHand(q)' = PortInHand(q)
<1>1. IInv /\ TypeOK
  BY DEF IInv
<1>2. ReceiverTyped' /\ ThrottleTyped'
  BY <1>1, TypeParts DEF rvars, tvars, ReceiverTyped, ThrottleTyped
<1>3. NoProtocolError'
  BY DEF IInv, NoProtocolError, rvars
<1>4. \A q \in Ports : InHand(q)' = InHand(q) /\ PortInHand(q)' = PortInHand(q)
  BY DEF rvars, tvars, InHand, PortInHand
<1>5. UsedGlobal' = UsedGlobal
  BY <1>4 DEF UsedGlobal, rvars
<1>6. GlobalUsed'
  BY <1>5 DEF IInv, GlobalUsed, rvars
<1>7. \A q \in Ports : ReceivedAt(q)'
  BY <1>4, PartsByPort DEF IInv, ReceivedAt, rvars
<1> QED  BY <1>2, <1>3, <1>4, <1>6, <1>7

\* A step that sends and receives nothing keeps the amounts under way.
LEMMA WireQuiet ==
    ASSUME IInv, UNCHANGED wire
    PROVE  /\ QueueBound' /\ WireGlobal' = WireGlobal /\ SumOver(WireGlobal)' = SumOver(WireGlobal)
           /\ \A q \in Ports : Inflight(q)' = Inflight(q)
<1>1. Queued' = Queued /\ WireGlobal' = WireGlobal
  BY DEF Queued, WireGlobal
<1>2. QueueBound'
  BY <1>1 DEF IInv, QueueBound
<1> QED  BY <1>1, <1>2 DEF Inflight

----------------------------------------------------------------------------
(* Sending operations *)

\* A pass of the loop in do_send and do_connect moves credits into the message.
LEMMA NextChunkFacts ==
    ASSUME IInv, NEW p \in Ports, NEW c \in Credits, NEW l \in Nat, Amount(c) <= l,
           NextChunk(p, c, l)
    PROVE  /\ held' \in [Ports -> Credits] /\ msg' \in [Ports -> Credits]
           /\ left' \in [Ports -> Nat]
           /\ pc' \in [Ports -> {"idle", "request", "wait", "wait_global", "queue"}]
           /\ pc'[p] = "queue" /\ Amount(held'[p]) <= left'[p]
           /\ held'[p].port + msg'[p].port = c.port /\ held'[p].global + msg'[p].global = c.global
           /\ \A q \in Ports \ {p} : /\ pc'[q] = pc[q] /\ left'[q] = left[q]
                                     /\ held'[q] = held[q] /\ msg'[q] = msg[q]
<1> DEFINE n == ChunkLen(p, c, l)
           m == [port |-> Least(c.port, n), global |-> n - Least(c.port, n)]
<1>1. c.port \in Nat /\ c.global \in Nat /\ Amount(c) = c.port + c.global
  BY DEF Credits, Amount
<1>2. n \in Nat /\ n <= Amount(c) /\ n <= l
  <2> DEFINE most == Least(ChunkSize, Amount(c))
  <2>1. most \in Nat /\ most <= Amount(c)
    BY <1>1, ConstantsType DEF Least, IInv
  <2> HIDE DEF most
  <2>2. (most \div PortSize) * PortSize \in Nat /\ (most \div PortSize) * PortSize <= most
    BY <2>1 DEF PortSize
  <2>3. n = Least(l, IF kind[p] = "connect" THEN (most \div PortSize) * PortSize ELSE most)
    BY DEF ChunkLen, most
  <2> HIDE DEF n
  <2> QED  BY <1>1, <2>1, <2>2, <2>3 DEF Least
<1> HIDE DEF n
<1>3. /\ m.port \in Nat /\ m.global \in Nat /\ m.port <= c.port /\ m.global <= c.global
      /\ m.port + m.global = n /\ m \in Credits
  BY <1>1, <1>2 DEF Least, Credits
<1> HIDE DEF m
<1>4. /\ Minus(c, m) \in Credits /\ Minus(c, m).port = c.port - m.port
      /\ Minus(c, m).global = c.global - m.global
  BY <1>1, <1>3 DEF Minus, Credits
<1>5. /\ msg' = [msg EXCEPT ![p] = m] /\ held' = [held EXCEPT ![p] = Minus(c, m)]
      /\ left' = [left EXCEPT ![p] = l - n] /\ pc' = [pc EXCEPT ![p] = "queue"]
  BY DEF NextChunk, n, m
<1>6. /\ msg \in [Ports -> Credits] /\ held \in [Ports -> Credits] /\ left \in [Ports -> Nat]
      /\ pc \in [Ports -> {"idle", "request", "wait", "wait_global", "queue"}]
  BY DEF IInv, TypeOK
<1>7. msg'[p] = m /\ held'[p] = Minus(c, m) /\ left'[p] = l - n /\ pc'[p] = "queue"
  BY <1>5, <1>6
<1>8. /\ held' \in [Ports -> Credits] /\ msg' \in [Ports -> Credits] /\ left' \in [Ports -> Nat]
      /\ pc' \in [Ports -> {"idle", "request", "wait", "wait_global", "queue"}]
  BY <1>2, <1>3, <1>4, <1>5, <1>6
<1>9. Amount(held'[p]) <= left'[p]
  BY <1>1, <1>2, <1>3, <1>4, <1>7 DEF Amount
<1>10. held'[p].port + msg'[p].port = c.port /\ held'[p].global + msg'[p].global = c.global
  BY <1>1, <1>3, <1>4, <1>7
<1>11. \A q \in Ports \ {p} : /\ pc'[q] = pc[q] /\ left'[q] = left[q]
                              /\ held'[q] = held[q] /\ msg'[q] = msg[q]
  BY <1>5, <1>6
<1> QED  BY <1>7, <1>8, <1>9, <1>10, <1>11

\* A step of the sending endpoint for one port.
LEMMA SendingEndpoint ==
    ASSUME IInv, setup' = setup, UNCHANGED rvars, SenderTyped', WireTyped', NEW p \in Ports,
           \A q \in Ports \ {p} :
             /\ pc'[q] = pc[q] /\ left'[q] = left[q] /\ held'[q] = held[q] /\ msg'[q] = msg[q]
             /\ store'[q] = store[q] /\ wire'[q] = wire[q] /\ ret'[q] = ret[q] /\ lost'[q] = lost[q]
    PROVE  /\ TypeOK' /\ OthersSame(p)
           /\ ( /\ OperationAt(p)' /\ PortConservedAt(p)' /\ PortStep(p)
                /\ GlobalStep /\ GlobalConserved' /\ QueueBound' ) => StepOK
<1>1. ReceiverTyped' /\ ThrottleTyped' /\ NoProtocolError' /\ GlobalUsed' /\ ReceivedAt(p)'
  BY ReceiverQuiet
<1>2. TypeOK'
  BY <1>1 DEF TypeOK, SenderTyped, WireTyped, ReceiverTyped, ThrottleTyped
<1>3. UNCHANGED <<rxq, used, toReturn>>
  BY DEF rvars
<1>4. \A q \in Ports : InHand(q)' = InHand(q) /\ PortInHand(q)' = PortInHand(q)
  BY ReceiverQuiet
<1>5. OthersSame(p)
  BY <1>3, <1>4 DEF OthersSame
<1> QED  BY <1>1, <1>2, <1>5, OnePort

\* The parts of the type invariant follow from the invariant.
LEMMA SenderTypes ==
    ASSUME IInv
    PROVE  SenderTyped /\ WireTyped /\ ReceiverTyped /\ ThrottleTyped /\ setup \in Setups /\ Typed
  BY TypeParts DEF IInv, Typed

\* An operation that waits for credits has got some.
LEMMA GrantedStep ==
    ASSUME IInv, NEW p \in Ports, pc[p] # "queue",
           NEW c \in Credits, c.port <= store[p], c.global <= gstore, Amount(c) <= left[p],
           Granted(p, c),
           UNCHANGED <<setup, useGlobal, closed, kind, wire, ret, gret, rvars, lost, glost>>
    PROVE  StepOK
<1>1. c.port \in Nat /\ c.global \in Nat
  BY DEF Credits
<1>2. held[p] = None /\ msg[p] = None
  BY PartsByPort DEF IInv, OperationAt
<1>3. /\ held[p].port = 0 /\ held[p].global = 0 /\ msg[p].port = 0 /\ msg[p].global = 0
      /\ Assigned(p) = 0
  BY <1>2 DEF None, Assigned
<1>4. /\ left[p] \in Nat /\ store[p] \in Nat /\ gstore \in Nat /\ PortLimit \in Nat
      /\ SumOver(HeldGlobal) \in Nat
  BY PortTypes, GlobalTypes, ConstantsType DEF IInv
<1>5. /\ held' \in [Ports -> Credits] /\ msg' \in [Ports -> Credits] /\ left' \in [Ports -> Nat]
      /\ pc' \in [Ports -> {"idle", "request", "wait", "wait_global", "queue"}]
      /\ pc'[p] = "queue" /\ Amount(held'[p]) <= left'[p]
      /\ held'[p].port + msg'[p].port = c.port /\ held'[p].global + msg'[p].global = c.global
      /\ \A q \in Ports \ {p} : /\ pc'[q] = pc[q] /\ left'[q] = left[q]
                                /\ held'[q] = held[q] /\ msg'[q] = msg[q]
  BY <1>4, NextChunkFacts DEF Granted
<1>6. /\ store' = [store EXCEPT ![p] = @ - c.port] /\ gstore' = gstore - c.global
      /\ store \in [Ports -> 0..PortLimit]
  BY SenderTypes DEF Granted, SenderTyped
<1>7. /\ store'[p] = store[p] - c.port /\ store' \in [Ports -> 0..PortLimit]
      /\ \A q \in Ports \ {p} : store'[q] = store[q]
  BY <1>1, <1>4, <1>6
<1>8. SenderTyped' /\ WireTyped'
  <2>1. PortLimit' = PortLimit
    BY DEF PortLimit
  <2>2. gstore' \in Nat
    BY <1>1, <1>4, <1>6
  <2> QED  BY <1>5, <1>7, <2>1, <2>2, SenderTypes DEF SenderTyped, WireTyped
<1>9. TypeOK' /\ OthersSame(p)
  BY <1>5, <1>7, <1>8, SendingEndpoint
<1>10. OperationAt(p)'
  BY <1>5 DEF OperationAt
<1>11. QueueBound' /\ SumOver(WireGlobal)' = SumOver(WireGlobal) /\ Inflight(p)' = Inflight(p)
  BY WireQuiet
<1>12. PortStep(p) /\ PortConservedAt(p)'
  <2>1. Assigned(p)' = Assigned(p) + c.port
    BY <1>1, <1>3, <1>5 DEF Assigned
  <2>2. PortNumbers(p, store[p] - c.port, Assigned(p) + c.port, Inflight(p), used[p], toReturn[p],
                    ret[p], lost[p])
    BY <1>7, <1>11, <2>1 DEF PortNumbers, rvars
  <2>3. c.port \in 0..store[p]
    BY <1>1, <1>4
  <2> QED  BY <2>2, <2>3, PortAssign
<1>13. GlobalStep /\ GlobalConserved'
  <2>1. SumOver(HeldGlobal)' + (held[p].global + msg[p].global)
           = SumOver(HeldGlobal) + (held'[p].global + msg'[p].global)
    BY <1>9, SumsFollow, SenderTypes DEF Typed
  <2>2. SumOver(HeldGlobal)' = SumOver(HeldGlobal) + c.global
    <3>1. SumOver(HeldGlobal)' \in Nat
      BY <1>9, SumsType, SenderTypes DEF Typed
    <3> QED  BY <1>1, <1>3, <1>4, <1>5, <2>1, <3>1
  <2>3. GlobalNumbers(gstore - c.global, SumOver(HeldGlobal) + c.global, SumOver(WireGlobal), gused,
                      greleasing, gtoReturn, gret, glost, gtotal)
    BY <1>6, <1>11, <2>2 DEF GlobalNumbers, rvars
  <2>4. c.global \in 0..gstore
    BY <1>1, <1>4
  <2> QED  BY <2>3, <2>4, GlobalAssign
<1> QED  BY <1>5, <1>7, <1>8, <1>10, <1>11, <1>12, <1>13, SendingEndpoint

\* A step that moves no credits.
LEMMA QuietStep ==
    ASSUME IInv, TypeOK',
           UNCHANGED <<setup, store, gstore, held, msg, wire, ret, gret, rxq, used, toReturn, gused,
                       greleasing, gtoReturn, gtotal, error, lost, glost>>,
           \A q \in Ports : /\ OperationAt(q)' /\ InHand(q)' = InHand(q)
                            /\ PortInHand(q)' = PortInHand(q)
    PROVE  StepOK
<1>1. /\ QueueBound' /\ SumOver(WireGlobal)' = SumOver(WireGlobal)
      /\ \A q \in Ports : Inflight(q)' = Inflight(q)
  BY WireQuiet
<1>2. \A q \in Ports : PortStep(q) /\ PortConservedAt(q)'
  <2> SUFFICES ASSUME NEW q \in Ports PROVE PortStep(q) /\ PortConservedAt(q)'
    OBVIOUS
  <2>1. PortNumbers(q, store[q], Assigned(q), Inflight(q), used[q], toReturn[q], ret[q], lost[q])
    BY <1>1 DEF PortNumbers, Assigned
  <2> QED  BY <2>1, PortQuiet
<1>3. GlobalStep /\ GlobalConserved'
  <2>1. HeldGlobal' = HeldGlobal
    BY DEF HeldGlobal
  <2>2. GlobalNumbers(gstore, SumOver(HeldGlobal), SumOver(WireGlobal), gused,
                      greleasing, gtoReturn, gret, glost, gtotal)
    BY <1>1, <2>1 DEF GlobalNumbers
  <2> QED  BY <2>2, GlobalQuiet
<1>4. UsedGlobal' = UsedGlobal
  BY DEF UsedGlobal
<1>5. GlobalUsed' /\ NoProtocolError'
  BY <1>4 DEF IInv, GlobalUsed, NoProtocolError
<1>6. ReceivedUsed'
  <2>1. \A q \in Ports : ReceivedAt(q)
    BY PartsByPort DEF IInv
  <2> QED  BY <2>1 DEF ReceivedUsed, ReceivedAt
<1>7. OperationsOK' /\ PortConserved'
  BY <1>2 DEF OperationsOK, OperationAt, PortConserved, PortConservedAt, Assigned, Inflight
<1> QED  BY <1>1, <1>2, <1>3, <1>5, <1>6, <1>7 DEF StepOK, IInv

\* ... taken by the sending endpoint.
LEMMA QuietSending ==
    ASSUME IInv, SenderTyped', UNCHANGED <<setup, store, gstore, held, msg, wire, ret, gret, rvars,
                                           lost, glost>>,
           \A q \in Ports : OperationAt(q)'
    PROVE  StepOK
<1>1. /\ ReceiverTyped' /\ ThrottleTyped'
      /\ \A q \in Ports : InHand(q)' = InHand(q) /\ PortInHand(q)' = PortInHand(q)
  BY ReceiverQuiet
<1>2. TypeOK'
  <2>1. WireTyped'
    BY SenderTypes DEF WireTyped
  <2> QED  BY <1>1, <2>1 DEF TypeOK, SenderTyped, WireTyped, ReceiverTyped, ThrottleTyped
<1>3. UNCHANGED <<rxq, used, toReturn, gused, greleasing, gtoReturn, gtotal, error>>
  BY DEF rvars
<1> QED  BY <1>1, <1>2, <1>3, QuietStep

\* The steps of a sending operation up to its first chunk move no credits of the wire.
LEMMA StartStep ==
    ASSUME IInv, NEW p \in Ports, NEW k \in {"send", "connect"}, NEW bytes \in Nat, Start(p, k,
           bytes)
    PROVE  StepOK
<1>1. /\ pc' = [pc EXCEPT ![p] = "request"] /\ kind' = [kind EXCEPT ![p] = k]
      /\ left' = [left EXCEPT ![p] = bytes] /\ pc[p] = "idle"
      /\ UNCHANGED <<setup, store, gstore, held, msg, wire, ret, gret, rvars, lost, glost>>
      /\ UNCHANGED <<useGlobal, closed>>
  BY DEF Start
<1>2. SenderTyped'
  BY <1>1, SenderTypes DEF SenderTyped, PortLimit
<1>3. ASSUME NEW q \in Ports PROVE OperationAt(q)'
  <2>1. OperationAt(q) /\ OperationAt(p)
    BY PartsByPort DEF IInv
  <2>2. /\ pc \in [Ports -> {"idle", "request", "wait", "wait_global", "queue"}]
        /\ left \in [Ports -> Nat]
    BY SenderTypes DEF SenderTyped
  <2>3. CASE q = p
    <3>1. held'[q] = None /\ msg'[q] = None /\ left'[q] = bytes
      BY <1>1, <2>1, <2>2, <2>3 DEF OperationAt
    <3> QED  BY <3>1 DEF OperationAt, Amount, None
  <2>4. CASE q # p
    BY <1>1, <2>1, <2>2, <2>4 DEF OperationAt
  <2> QED  BY <2>3, <2>4
<1> QED  BY <1>1, <1>2, <1>3, QuietSending

\* An operation that holds no credits changes its await point.
LEMMA PcStep ==
    ASSUME IInv, NEW p \in Ports, pc[p] # "queue", NEW w \in {"wait", "wait_global"},
           pc' = [pc EXCEPT ![p] = w],
           UNCHANGED <<setup, store, gstore, useGlobal, closed, kind, left, held, msg,
                       wire, ret, gret, rvars, lost, glost>>
    PROVE  StepOK
<1>1. SenderTyped'
  BY SenderTypes DEF SenderTyped, PortLimit
<1>2. ASSUME NEW q \in Ports PROVE OperationAt(q)'
  <2>1. OperationAt(q) /\ OperationAt(p)
    BY PartsByPort DEF IInv
  <2>2. pc \in [Ports -> {"idle", "request", "wait", "wait_global", "queue"}]
    BY SenderTypes DEF SenderTyped
  <2> QED  BY <2>1, <2>2 DEF OperationAt
<1> QED  BY <1>1, <1>2, QuietSending

LEMMA RequestStep == ASSUME IInv, NEW p \in Ports, Request(p) PROVE StepOK
<1>1. /\ pc[p] = "request"
      /\ UNCHANGED <<setup, useGlobal, closed, kind, wire, ret, gret, rvars, lost, glost>>
  BY DEF Request
<1>2. CASE Amount(Obtainable(p)) > 0
  <2> DEFINE c == Obtainable(p)
  <2>1. store[p] \in Nat /\ left[p] \in Nat /\ gstore \in Nat
    BY PortTypes, GlobalTypes DEF IInv
  <2>2. MinReq(p) \in Nat
    BY DEF MinReq, PortSize
  <2>3. c \in Credits /\ c.port <= store[p] /\ c.global <= gstore /\ Amount(c) <= left[p]
    <3> DEFINE n == IF store[p] >= MinReq(p) THEN Least(store[p], left[p]) ELSE 0
               g == IF kind[p] = "send" /\ useGlobal[p] THEN Least(gstore, left[p] - n) ELSE 0
    <3>1. n \in Nat /\ n <= store[p] /\ n <= left[p]
      BY <2>1, <2>2 DEF Least
    <3>2. c = [port |-> n, global |-> g]
      BY DEF Obtainable
    <3> HIDE DEF n
    <3>3. g \in Nat /\ g <= gstore /\ n + g <= left[p]
      BY <2>1, <3>1 DEF Least
    <3> HIDE DEF g, c
    <3> QED  BY <3>1, <3>2, <3>3 DEF Amount, Credits
  <2>4. Granted(p, c)
    BY <1>2 DEF Request
  <2> HIDE DEF c
  <2> QED  BY <1>1, <2>3, <2>4, GrantedStep
<1>3. CASE ~(Amount(Obtainable(p)) > 0)
  <2>1. /\ pc' = [pc EXCEPT ![p] = "wait"]
        /\ UNCHANGED <<store, gstore, held, msg, left>>
    BY <1>3 DEF Request
  <2> QED  BY <1>1, <2>1, PcStep
<1> QED  BY <1>2, <1>3

LEMMA WaitPortStep == ASSUME IInv, NEW p \in Ports, WaitPort(p) PROVE StepOK
<1> DEFINE c == [port |-> Least(store[p], left[p]), global |-> 0]
<1>1. store[p] \in Nat /\ left[p] \in Nat /\ gstore \in Nat
  BY PortTypes, GlobalTypes DEF IInv
<1>2. c \in Credits /\ c.port <= store[p] /\ c.global <= gstore /\ Amount(c) <= left[p]
  BY <1>1 DEF Least, Credits, Amount
<1>3. /\ pc[p] # "queue" /\ Granted(p, c)
      /\ UNCHANGED <<setup, useGlobal, closed, kind, wire, ret, gret, rvars, lost, glost>>
  BY DEF WaitPort
<1> HIDE DEF c
<1> QED  BY <1>2, <1>3, GrantedStep

LEMMA WaitGlobalStep == ASSUME IInv, NEW p \in Ports, WaitGlobal(p) PROVE StepOK
<1> DEFINE c == [port |-> 0, global |-> Least(gstore, left[p])]
<1>1. store[p] \in Nat /\ left[p] \in Nat /\ gstore \in Nat
  BY PortTypes, GlobalTypes DEF IInv
<1>2. c \in Credits /\ c.port <= store[p] /\ c.global <= gstore /\ Amount(c) <= left[p]
  BY <1>1 DEF Least, Credits, Amount
<1>3. /\ pc[p] # "queue" /\ Granted(p, c)
      /\ UNCHANGED <<setup, useGlobal, closed, kind, wire, ret, gret, rvars, lost, glost>>
  BY DEF WaitGlobal
<1> HIDE DEF c
<1> QED  BY <1>2, <1>3, GrantedStep

LEMMA WaitAllowedStep == ASSUME IInv, NEW p \in Ports, WaitAllowed(p) PROVE StepOK
  BY PcStep DEF WaitAllowed

\* AssignedCredits::drop: what was held returns to the stores or is lost.
LEMMA EndOpFacts ==
    ASSUME IInv, NEW p \in Ports, NEW f \in Credits, EndOp(p, f), setup' = setup,
           UNCHANGED <<useGlobal, closed, kind>>,
           held[p].port + f.port + lost[p] \in Nat, store[p] + held[p].port \in 0..PortLimit
    PROVE  /\ SenderTyped' /\ OperationAt(p)'
           /\ store'[p] = store[p] + held[p].port /\ gstore' = gstore + held[p].global
           /\ lost'[p] = lost[p] + f.port /\ glost' = glost + f.global
           /\ held'[p] = None /\ msg'[p] = None
           /\ \A q \in Ports \ {p} :
                /\ pc'[q] = pc[q] /\ left'[q] = left[q] /\ held'[q] = held[q] /\ msg'[q] = msg[q]
                /\ store'[q] = store[q] /\ lost'[q] = lost[q]
<1>1. SenderTyped /\ setup \in Setups
  BY SenderTypes
<1>2. /\ pc' = [pc EXCEPT ![p] = "idle"]
      /\ store' = [store EXCEPT ![p] = @ + held[p].port]
      /\ gstore' = gstore + held[p].global
      /\ lost' = [lost EXCEPT ![p] = @ + f.port]
      /\ glost' = glost + f.global
      /\ held' = [held EXCEPT ![p] = None]
      /\ msg' = [msg EXCEPT ![p] = None]
      /\ left' = [left EXCEPT ![p] = 0]
  BY DEF EndOp
<1>3. None \in Credits /\ f.port \in Nat /\ f.global \in Nat /\ Amount(None) = 0
  BY DEF Credits, None, Amount
<1>4. held[p].global \in Nat /\ gstore \in Nat /\ glost \in Nat /\ lost[p] \in Nat
  BY PortTypes, GlobalTypes DEF IInv
<1>5. store' \in [Ports -> 0..PortLimit] /\ lost' \in [Ports -> Nat] /\ gstore' \in Nat /\ glost' \in Nat
  BY <1>1, <1>2, <1>3, <1>4 DEF SenderTyped
<1>6. /\ pc' \in [Ports -> {"idle", "request", "wait", "wait_global", "queue"}]
      /\ held' \in [Ports -> Credits] /\ msg' \in [Ports -> Credits] /\ left' \in [Ports -> Nat]
  BY <1>1, <1>2, <1>3 DEF SenderTyped
<1>7. SenderTyped'
  BY <1>1, <1>5, <1>6 DEF SenderTyped, PortLimit
<1>8. /\ store'[p] = store[p] + held[p].port /\ lost'[p] = lost[p] + f.port
      /\ held'[p] = None /\ msg'[p] = None /\ left'[p] = 0
      /\ \A q \in Ports \ {p} :
           /\ pc'[q] = pc[q] /\ left'[q] = left[q] /\ held'[q] = held[q] /\ msg'[q] = msg[q]
           /\ store'[q] = store[q] /\ lost'[q] = lost[q]
  BY <1>1, <1>2 DEF SenderTyped
<1>9. OperationAt(p)'
  BY <1>3, <1>8 DEF OperationAt
<1> QED  BY <1>2, <1>7, <1>8, <1>9

\* An operation ends before its message is queued.
LEMMA EndOpStep ==
    ASSUME IInv, NEW p \in Ports, EndOp(p, msg[p]),
           UNCHANGED <<setup, useGlobal, closed, kind, wire, ret, gret, rvars>>
    PROVE  StepOK
<1>1. /\ msg[p] \in Credits /\ held[p].port \in Nat /\ held[p].global \in Nat
      /\ msg[p].port \in Nat /\ msg[p].global \in Nat /\ store[p] \in Nat /\ lost[p] \in Nat
      /\ Assigned(p) = held[p].port + msg[p].port /\ PortLimit \in Nat
      /\ gstore \in Nat /\ SumOver(HeldGlobal) \in Nat
  BY PortTypes, GlobalTypes, ConstantsType DEF IInv, Assigned
<1>2. store[p] + held[p].port \in 0..PortLimit
  BY <1>1, PortFacts DEF PortConservedAt
<1>3. /\ SenderTyped' /\ OperationAt(p)'
      /\ store'[p] = store[p] + held[p].port /\ gstore' = gstore + held[p].global
      /\ lost'[p] = lost[p] + msg[p].port /\ glost' = glost + msg[p].global
      /\ held'[p] = None /\ msg'[p] = None
      /\ \A q \in Ports \ {p} :
           /\ pc'[q] = pc[q] /\ left'[q] = left[q] /\ held'[q] = held[q] /\ msg'[q] = msg[q]
           /\ store'[q] = store[q] /\ lost'[q] = lost[q]
  BY <1>1, <1>2, EndOpFacts
<1>4. WireTyped'
  BY SenderTypes DEF WireTyped
<1>5. TypeOK' /\ OthersSame(p)
  BY <1>3, <1>4, SendingEndpoint
<1>6. QueueBound' /\ SumOver(WireGlobal)' = SumOver(WireGlobal) /\ Inflight(p)' = Inflight(p)
  BY WireQuiet
<1>7. PortStep(p) /\ PortConservedAt(p)'
  <2>1. Assigned(p)' = 0
    BY <1>3 DEF Assigned, None
  <2>2. store[p] + held[p].port = store[p] + (Assigned(p) - msg[p].port) /\ msg[p].port \in 0..Assigned(p)
    BY <1>1
  <2>3. PortNumbers(p, store[p] + (Assigned(p) - msg[p].port), 0, Inflight(p), used[p], toReturn[p], ret[p],
                    lost[p] + msg[p].port)
    BY <1>3, <1>6, <2>1, <2>2 DEF PortNumbers, rvars
  <2> QED  BY <2>2, <2>3, PortAbandon
<1>8. GlobalStep /\ GlobalConserved'
  <2>1. SumOver(HeldGlobal)' + (held[p].global + msg[p].global)
           = SumOver(HeldGlobal) + (held'[p].global + msg'[p].global)
    BY <1>5, SumsFollow, SenderTypes DEF Typed
  <2>2. SumOver(HeldGlobal)' \in Nat
    BY <1>5, SumsType, SenderTypes DEF Typed
  <2>3. held'[p].global = 0 /\ msg'[p].global = 0
    BY <1>3 DEF None
  <2>4. /\ SumOver(HeldGlobal)' = SumOver(HeldGlobal) - held[p].global - msg[p].global
        /\ held[p].global \in 0..SumOver(HeldGlobal)
        /\ msg[p].global \in 0..(SumOver(HeldGlobal) - held[p].global)
    BY <1>1, <2>1, <2>2, <2>3
  <2>5. GlobalNumbers(gstore + held[p].global, SumOver(HeldGlobal) - held[p].global - msg[p].global,
                      SumOver(WireGlobal), gused, greleasing, gtoReturn, gret, glost + msg[p].global, gtotal)
    BY <1>3, <1>6, <2>4 DEF GlobalNumbers, rvars
  <2> QED  BY <2>4, <2>5, GlobalAbandon
<1> QED  BY <1>3, <1>4, <1>6, <1>7, <1>8, SendingEndpoint

\* Both ways in which an operation ends early give back what it held.
LEMMA FailClosedStep == ASSUME IInv, NEW p \in Ports, FailClosed(p) PROVE StepOK
<1>1. msg[p] = None
  BY PartsByPort DEF IInv, OperationAt, FailClosed
<1> QED  BY <1>1, EndOpStep DEF FailClosed

LEMMA CancelStep == ASSUME IInv, NEW p \in Ports, Cancel(p) PROVE StepOK
  BY EndOpStep DEF Cancel

\* Arithmetic of a sum that gains or loses d.
LEMMA Added ==
    ASSUME NEW a \in Nat, NEW b \in Nat, NEW c \in Nat, NEW d \in Nat, a + b = c + (b + d)
    PROVE  a = c + d
  OBVIOUS

LEMMA Removed ==
    ASSUME NEW a \in Nat, NEW b \in Nat, NEW c \in Nat, NEW d \in Nat, a + (b + d) = c + b
    PROVE  a = c - d /\ d \in 0..c
  OBVIOUS

\* A chunk is queued, whatever the operation does next.
ChunkEffect(p) ==
    /\ wire' = [wire EXCEPT ![p] = Append(@, msg[p])]
    /\ UNCHANGED <<setup, ret, gret, rvars>>
    /\ held'[p].port + msg'[p].port = held[p].port
    /\ held'[p].global + msg'[p].global = held[p].global
    /\ store'[p] = store[p] /\ gstore' = gstore /\ lost'[p] = lost[p] /\ glost' = glost
    /\ \A q \in Ports \ {p} :
         /\ pc'[q] = pc[q] /\ left'[q] = left[q] /\ held'[q] = held[q] /\ msg'[q] = msg[q]
         /\ store'[q] = store[q] /\ lost'[q] = lost[q]

\* Putting a chunk into the queue moves its credits from the operation to the wire.
LEMMA ChunkQueued ==
    ASSUME IInv, NEW p \in Ports, QueueRoom > 0, SenderTyped', OperationAt(p)', ChunkEffect(p)
    PROVE  StepOK
<1>0. setup' = setup
  BY DEF ChunkEffect
<1>1. msg[p] \in Credits /\ wire[p] \in Seq(Credits)
  BY PortTypes DEF IInv
<1>10. /\ held[p].port \in Nat /\ held[p].global \in Nat
       /\ msg[p].port \in Nat /\ msg[p].global \in Nat /\ Inflight(p) \in Nat /\ GlobalAmount(wire[p]) \in Nat
       /\ Assigned(p) = held[p].port + msg[p].port
       /\ SumOver(HeldGlobal) \in Nat /\ SumOver(WireGlobal) \in Nat /\ SumOver(Queued) \in Nat
  BY PortTypes, GlobalTypes DEF IInv, Assigned
<1>2. wire'[p] = Append(wire[p], msg[p]) /\ WireTyped' /\ \A q \in Ports \ {p} : wire'[q] = wire[q]
  BY <1>1, SenderTypes DEF WireTyped, ChunkEffect
<1>3. TypeOK' /\ OthersSame(p)
  BY <1>2, SendingEndpoint DEF ChunkEffect
<1>4. Inflight(p)' = Inflight(p) + msg[p].port
  BY <1>1, <1>2, AmountAppend DEF Inflight
<1>5. PortStep(p) /\ PortConservedAt(p)'
  <2>1. Assigned(p)' = Assigned(p) - msg[p].port /\ msg[p].port \in 0..Assigned(p)
    <3>1. Assigned(p)' = held[p].port
      BY DEF Assigned, ChunkEffect
    <3> QED  BY <1>10, <3>1
  <2>2. PortNumbers(p, store[p], Assigned(p) - msg[p].port, Inflight(p) + msg[p].port, used[p], toReturn[p],
                    ret[p], lost[p])
    BY <1>4, <2>1 DEF PortNumbers, rvars, ChunkEffect
  <2> QED  BY <1>0, <2>1, <2>2, PortSend
<1>6. /\ SumOver(HeldGlobal)' + (held[p].global + msg[p].global)
           = SumOver(HeldGlobal) + (held'[p].global + msg'[p].global)
      /\ SumOver(WireGlobal)' + GlobalAmount(wire[p]) = SumOver(WireGlobal) + GlobalAmount(wire'[p])
      /\ SumOver(Queued)' + Len(wire[p]) = SumOver(Queued) + Len(wire'[p])
  BY <1>0, <1>3, SumsFollow, SenderTypes DEF Typed
<1>7. SumOver(HeldGlobal)' \in Nat /\ SumOver(WireGlobal)' \in Nat /\ SumOver(Queued)' \in Nat
  BY <1>0, <1>3, SumsType, SenderTypes DEF Typed
<1>8. GlobalStep /\ GlobalConserved'
  <2>1. GlobalAmount(wire'[p]) = GlobalAmount(wire[p]) + msg[p].global
    BY <1>1, <1>2, AmountAppend
  <2>2. SumOver(WireGlobal)' = SumOver(WireGlobal) + msg[p].global
    <3>1. SumOver(WireGlobal)' + GlobalAmount(wire[p]) = SumOver(WireGlobal) + (GlobalAmount(wire[p]) + msg[p].global)
      BY <1>6, <2>1
    <3> QED  BY <1>7, <1>10, <3>1, Added
  <2>3. SumOver(HeldGlobal)' = SumOver(HeldGlobal) - msg[p].global /\ msg[p].global \in 0..SumOver(HeldGlobal)
    <3>1. SumOver(HeldGlobal)' + (held[p].global + msg[p].global) = SumOver(HeldGlobal) + held[p].global
      BY <1>6 DEF ChunkEffect
    <3> QED  BY <1>10, <1>7, <3>1, Removed
  <2>4. GlobalNumbers(gstore, SumOver(HeldGlobal) - msg[p].global, SumOver(WireGlobal) + msg[p].global, gused,
                      greleasing, gtoReturn, gret, glost, gtotal)
    BY <2>2, <2>3 DEF GlobalNumbers, rvars, ChunkEffect
  <2> QED  BY <2>3, <2>4, GlobalSend
<1>9. QueueBound'
  <2>1. Len(wire'[p]) = Len(wire[p]) + 1 /\ Len(wire[p]) \in Nat
    BY <1>1, <1>2
  <2>2. SumOver(Queued) < QueueCap
    BY <1>10, CreditFlowAssumption DEF QueueRoom, Queued
  <2>3. SumOver(Queued)' = SumOver(Queued) + 1
    <3> DEFINE k == Len(wire[p])
    <3>1. SumOver(Queued)' + k = SumOver(Queued) + (k + 1)
      BY <1>6, <2>1
    <3>2. k \in Nat
      BY <2>1
    <3> HIDE DEF k
    <3> QED  BY <1>7, <1>10, <3>1, <3>2, Added
  <2> QED  BY <1>10, <2>2, <2>3, CreditFlowAssumption DEF QueueBound
<1> QED  BY <1>2, <1>5, <1>8, <1>9, SendingEndpoint DEF ChunkEffect

\* A chunk is enqueued and the operation goes on, asks for more or ends.
LEMMA EnqueueStep == ASSUME IInv, NEW p \in Ports, Enqueue(p) PROVE StepOK
<1>1. /\ pc[p] = "queue" /\ QueueRoom > 0 /\ wire' = [wire EXCEPT ![p] = Append(@, msg[p])]
      /\ UNCHANGED <<setup, ret, gret, rvars>> /\ UNCHANGED <<useGlobal, closed, kind>>
  BY DEF Enqueue
<1>2. /\ held[p] \in Credits /\ held[p].port \in Nat /\ held[p].global \in Nat /\ left[p] \in Nat
      /\ store[p] \in 0..PortLimit /\ lost[p] \in Nat /\ gstore \in Nat /\ glost \in Nat
  BY PortTypes, GlobalTypes, SenderTypes DEF IInv, SenderTyped
<1>3. OperationAt(p)
  BY PartsByPort DEF IInv
<1>4. CASE left[p] = 0 /\ EndOp(p, None)
  <2>1. held[p].port = 0 /\ held[p].global = 0
    BY <1>2, <1>3, <1>4 DEF OperationAt, Amount
  <2>2. None \in Credits /\ None.port = 0 /\ None.global = 0
    BY DEF None, Credits
  <2>3. held[p].port + None.port + lost[p] \in Nat /\ store[p] + held[p].port \in 0..PortLimit
    BY <1>2, <2>1, <2>2, ConstantsType DEF IInv
  <2>4. /\ SenderTyped' /\ OperationAt(p)'
        /\ store'[p] = store[p] + held[p].port /\ gstore' = gstore + held[p].global
        /\ lost'[p] = lost[p] + None.port /\ glost' = glost + None.global
        /\ held'[p] = None /\ msg'[p] = None
        /\ \A q \in Ports \ {p} :
             /\ pc'[q] = pc[q] /\ left'[q] = left[q] /\ held'[q] = held[q] /\ msg'[q] = msg[q]
             /\ store'[q] = store[q] /\ lost'[q] = lost[q]
    BY <1>1, <1>4, <2>2, <2>3, EndOpFacts
  <2>5. /\ held'[p].port + msg'[p].port = held[p].port /\ held'[p].global + msg'[p].global = held[p].global
        /\ store'[p] = store[p] /\ gstore' = gstore /\ lost'[p] = lost[p] /\ glost' = glost
    BY <1>2, <2>1, <2>2, <2>4, ConstantsType DEF IInv
  <2> QED  BY <1>1, <2>4, <2>5, ChunkQueued DEF ChunkEffect
<1>5. CASE NextChunk(p, held[p], left[p]) /\ UNCHANGED <<store, gstore, lost, glost>>
  <2>1. /\ held' \in [Ports -> Credits] /\ msg' \in [Ports -> Credits] /\ left' \in [Ports -> Nat]
        /\ pc' \in [Ports -> {"idle", "request", "wait", "wait_global", "queue"}]
        /\ pc'[p] = "queue" /\ Amount(held'[p]) <= left'[p]
        /\ held'[p].port + msg'[p].port = held[p].port /\ held'[p].global + msg'[p].global = held[p].global
        /\ \A q \in Ports \ {p} : /\ pc'[q] = pc[q] /\ left'[q] = left[q]
                                  /\ held'[q] = held[q] /\ msg'[q] = msg[q]
    BY <1>2, <1>3, <1>5, NextChunkFacts DEF OperationAt
  <2>2. SenderTyped'
    BY <1>1, <1>5, <2>1, SenderTypes DEF SenderTyped, PortLimit
  <2>3. OperationAt(p)'
    BY <2>1 DEF OperationAt
  <2> QED  BY <1>1, <1>5, <2>1, <2>2, <2>3, ChunkQueued DEF ChunkEffect
<1>6. CASE /\ Amount(held[p]) = 0 /\ pc' = [pc EXCEPT ![p] = "request"] /\ msg' = [msg EXCEPT ![p] = None]
           /\ UNCHANGED <<store, gstore, lost, glost, held, left>>
  <2>1. held[p].port = 0 /\ held[p].global = 0 /\ held[p] = None
    BY <1>2, <1>6 DEF Amount, None, Credits
  <2>2. None \in Credits /\ None.port = 0 /\ None.global = 0
    BY DEF None, Credits
  <2>3. SenderTyped'
    BY <1>1, <1>6, <2>2, SenderTypes DEF SenderTyped, PortLimit
  <2>4. msg'[p] = None /\ \A q \in Ports \ {p} : pc'[q] = pc[q] /\ msg'[q] = msg[q]
    BY <1>6, SenderTypes DEF SenderTyped
  <2>5. OperationAt(p)'
    BY <1>3, <1>6, <2>1, <2>4 DEF OperationAt
  <2>6. held'[p].port + msg'[p].port = held[p].port /\ held'[p].global + msg'[p].global = held[p].global
    BY <1>6, <2>1, <2>2, <2>4
  <2> QED  BY <1>1, <1>6, <2>3, <2>4, <2>5, <2>6, ChunkQueued DEF ChunkEffect
<1> QED  BY <1>4, <1>5, <1>6 DEF Enqueue

----------------------------------------------------------------------------
(* Sender::try_send *)

\* Arithmetic of the number of chunks of a message.
LEMMA Division ==
    ASSUME NEW a \in Nat, NEW k \in Nat \ {0}
    PROVE  a \div k \in Nat /\ (a \div k) * k <= a
  OBVIOUS

LEMMA Product ==
    ASSUME NEW a \in Nat, NEW k \in Nat
    PROVE  (a + 1) * k = a * k + k /\ a * k \in Nat
  OBVIOUS

LEMMA ProductOrder ==
    ASSUME NEW a \in Nat, NEW b \in Nat, a <= b, NEW k \in Nat
    PROVE  a * k <= b * k
  OBVIOUS

\* Numbers of at most k each.
LEMMA SumsOfSmall ==
    ASSUME NEW s \in Seq(Nat), NEW k \in Nat, \A i \in 1..Len(s) : s[i] <= k
    PROVE  \A j \in 0..Len(s) : Sums(s)[j] <= j * k
<1> DEFINE f == Sums(s)
           S == {j \in Nat : j <= Len(s) => f[j] <= j * k}
<1>1. 0 \in S
  BY SumsNat
<1>2. ASSUME NEW j \in Nat, j \in S PROVE j + 1 \in S
  <2> SUFFICES ASSUME j + 1 <= Len(s) PROVE f[j + 1] <= (j + 1) * k
    OBVIOUS
  <2>1. j + 1 \in 1..Len(s) /\ j <= Len(s) /\ (j + 1) - 1 = j
    BY SumsNat
  <2>2. /\ f[j + 1] = f[j] + s[j + 1] /\ f[j + 1] \in Nat /\ f[j] \in Nat /\ s[j + 1] \in Nat
        /\ s[j + 1] <= k
    BY <2>1, SumsAt
  <2>3. f[j] <= j * k /\ (j + 1) * k = j * k + k /\ j * k \in Nat
    BY <1>2, <2>1, Product
  <2> DEFINE x == f[j]
             y == f[j + 1]
             z == s[j + 1]
             u == j * k
             v == (j + 1) * k
  <2>4. /\ y = x + z /\ x \in Nat /\ z \in Nat /\ z <= k
        /\ x <= u /\ v = u + k /\ u \in Nat
    BY <2>2, <2>3
  <2> HIDE DEF x, y, z, u, v
  <2>5. y <= v
    BY <2>4
  <2> QED  BY <2>5 DEF y, v
<1> HIDE DEF S
<1>3. Nat \subseteq S
  BY <1>1, <1>2, Induction
<1> QED  BY <1>3, SumsNat DEF S

\* The first j chunks of a message of n bytes are never more than the message, also not
\* with the chunk after them.
LEMMA ChunksFit ==
    ASSUME setup \in Setups, NEW n \in Nat \ {0}, NEW j \in Nat, j <= ChunkCount(n)
    PROVE  /\ \A i \in 1..j : ChunkAt(n, i) \in Nat
           /\ [i \in 1..j |-> ChunkAt(n, i)] \in Seq(Nat)
           /\ Total([i \in 1..j |-> ChunkAt(n, i)]) \in 0..n
           /\ j < ChunkCount(n) =>
                /\ ChunkAt(n, j + 1) \in Nat
                /\ Total([i \in 1..j |-> ChunkAt(n, i)]) + ChunkAt(n, j + 1) <= n
<1> DEFINE K == ChunkSize
           s == [i \in 1..j |-> ChunkAt(n, i)]
<1>1. K \in Nat \ {0}
  BY ConstantsType
<1>2. ChunkCount(n) \in Nat /\ ChunkCount(n) * K <= n + K - 1
  <2>1. n + K - 1 \in Nat
    BY <1>1
  <2> QED  BY <1>1, <2>1, Division DEF ChunkCount
<1> HIDE DEF K
<1>3. ASSUME NEW i \in Nat, i + 1 <= ChunkCount(n)
      PROVE  /\ i * K \in Nat /\ ChunkAt(n, i + 1) \in Nat /\ ChunkAt(n, i + 1) <= K
             /\ ChunkAt(n, i + 1) + i * K <= n
  <2>1. (i + 1) * K <= ChunkCount(n) * K /\ (i + 1) * K = i * K + K /\ i * K \in Nat
    BY <1>1, <1>2, <1>3, Product, ProductOrder
  <2>2. i * K < n
    BY <1>1, <1>2, <2>1
  <2>3. ChunkAt(n, i + 1) = Least(K, n - i * K)
    BY DEF ChunkAt, K
  <2> DEFINE u == i * K
  <2> HIDE DEF u
  <2>4. u \in Nat /\ u < n /\ ChunkAt(n, i + 1) = Least(K, n - u)
    BY <2>1, <2>2, <2>3 DEF u
  <2>5. ChunkAt(n, i + 1) \in Nat /\ ChunkAt(n, i + 1) <= K /\ ChunkAt(n, i + 1) + u <= n
    BY <1>1, <2>4 DEF Least
  <2> QED  BY <2>1, <2>5 DEF u
<1>4. \A i \in 1..j : ChunkAt(n, i) \in Nat /\ ChunkAt(n, i) <= K
  <2> SUFFICES ASSUME NEW i \in 1..j PROVE ChunkAt(n, i) \in Nat /\ ChunkAt(n, i) <= K
    OBVIOUS
  <2> DEFINE h == i - 1
  <2>1. h \in Nat /\ h + 1 = i /\ h + 1 <= ChunkCount(n)
    BY <1>2
  <2> HIDE DEF h
  <2> QED  BY <1>3, <2>1
<1>5. s \in Seq(Nat) /\ Len(s) = j /\ \A i \in 1..j : s[i] = ChunkAt(n, i)
  BY <1>4
<1> HIDE DEF s
<1>6. \A i \in 0..j : Sums(s)[i] <= i * K /\ Sums(s)[i] \in Nat
  BY <1>1, <1>4, <1>5, SumsOfSmall, SumsNat
<1>7. Total(s) \in Nat /\ Total(s) <= j * K /\ Total(s) = Sums(s)[j]
  BY <1>5, <1>6, TotalType DEF Total
<1>8. ASSUME j < ChunkCount(n)
      PROVE  ChunkAt(n, j + 1) \in Nat /\ Total(s) + ChunkAt(n, j + 1) <= n
  <2> DEFINE u == j * K
             t == Total(s)
             c == ChunkAt(n, j + 1)
  <2>1. u \in Nat /\ c \in Nat /\ c + u <= n /\ t \in Nat /\ t <= u
    BY <1>2, <1>3, <1>7, <1>8
  <2> HIDE DEF u, t, c
  <2>2. c \in Nat /\ t + c <= n
    BY <2>1
  <2> QED  BY <2>2 DEF t, c
<1>9. Total(s) <= n
  <2>1. CASE j = 0
    <3>1. Sums(s)[0] = 0
      BY <1>5, SumsNat
    <3> QED  BY <1>7, <2>1, <3>1
  <2>2. CASE j # 0
    <3> DEFINE h == j - 1
               u == h * K
               t == Total(s)
               x == Sums(s)[h]
               c == ChunkAt(n, j)
    <3>1. h \in Nat /\ h + 1 = j /\ h \in 0..j /\ h + 1 <= ChunkCount(n) /\ j \in 1..j
      BY <1>2, <2>2
    <3>2. u \in Nat /\ c \in Nat /\ c + u <= n
      <4> HIDE DEF h
      <4> QED  BY <1>3, <3>1
    <3>3. x <= u /\ x \in Nat
      <4> HIDE DEF h
      <4> QED  BY <1>6, <3>1
    <3>4. t = x + c
      BY <1>5, <1>7, <3>1, SumsAt
    <3> HIDE DEF h, u, t, x, c
    <3>5. t <= n
      BY <3>2, <3>3, <3>4
    <3> QED  BY <3>5 DEF t
  <2> QED  BY <2>1, <2>2
<1> QED  BY <1>4, <1>5, <1>7, <1>8, <1>9 DEF s

\* A function on 1..n is a sequence.
LEMMA FunctionIsSequence ==
    ASSUME NEW T, NEW n \in Nat, NEW f \in [1..n -> T]
    PROVE  f \in Seq(T) /\ Len(f) = n
  OBVIOUS

\* Chunks of one kind of credits, as messages.
LEMMA ChunkMessages ==
    ASSUME NEW s \in Seq(Nat)
    PROVE  /\ [i \in 1..Len(s) |-> [port |-> s[i], global |-> 0]] \in Seq(Credits)
           /\ PortAmount([i \in 1..Len(s) |-> [port |-> s[i], global |-> 0]]) = Total(s)
           /\ GlobalAmount([i \in 1..Len(s) |-> [port |-> s[i], global |-> 0]]) = 0
           /\ [i \in 1..Len(s) |-> [port |-> 0, global |-> s[i]]] \in Seq(Credits)
           /\ PortAmount([i \in 1..Len(s) |-> [port |-> 0, global |-> s[i]]]) = 0
           /\ GlobalAmount([i \in 1..Len(s) |-> [port |-> 0, global |-> s[i]]]) = Total(s)
<1> DEFINE a == [i \in 1..Len(s) |-> [port |-> s[i], global |-> 0]]
           b == [i \in 1..Len(s) |-> [port |-> 0, global |-> s[i]]]
           z == [i \in 1..Len(s) |-> 0]
<1>1. \A i \in 1..Len(s) : [port |-> s[i], global |-> 0] \in Credits /\ [port |-> 0, global |-> s[i]] \in Credits
  BY DEF Credits
<1>2. a \in Seq(Credits) /\ b \in Seq(Credits) /\ Len(a) = Len(s) /\ Len(b) = Len(s)
  <2>1. a \in [1..Len(s) -> Credits]
    BY <1>1, Zenon
  <2>2. b \in [1..Len(s) -> Credits]
    BY <1>1, Zenon
  <2>3. Len(s) \in Nat
    OBVIOUS
  <2> HIDE DEF a, b
  <2> QED  BY <2>1, <2>2, <2>3, FunctionIsSequence
<1>3. z \in Seq(Nat) /\ Total(z) = 0
  <2>1. z \in Seq(Nat) /\ \A k \in 1..Len(z) : z[k] = 0
    OBVIOUS
  <2> HIDE DEF z
  <2> QED  BY <2>1, TotalZero
<1>4. PortParts(a) = s /\ GlobalParts(a) = z
  BY <1>2 DEF PortParts, GlobalParts
<1>5. PortParts(b) = z /\ GlobalParts(b) = s
  BY <1>2 DEF PortParts, GlobalParts
<1> HIDE DEF a, b, z
<1>6. /\ PortAmount(a) = Total(s) /\ GlobalAmount(a) = 0 /\ PortAmount(b) = 0
      /\ GlobalAmount(b) = Total(s)
  BY <1>2, <1>3, <1>4, <1>5, PartsType
<1> QED  BY <1>2, <1>6 DEF a, b

\* Queued chunks and a forgotten one.
TrySendEffect(p, queued, forgot) ==
    /\ wire' = [wire EXCEPT ![p] = @ \o queued]
    /\ store' = [store EXCEPT ![p] = @ - PortAmount(queued) - forgot.port]
    /\ gstore' = gstore - GlobalAmount(queued) - forgot.global
    /\ lost' = [lost EXCEPT ![p] = @ + forgot.port]
    /\ glost' = glost + forgot.global
    /\ UNCHANGED <<setup, useGlobal, closed, pc, kind, left, held, msg, ret, gret, rvars>>

TrySendFits(p, queued, forgot) ==
    /\ queued \in Seq(Credits) /\ forgot \in Credits
    /\ PortAmount(queued) + forgot.port <= store[p]
    /\ GlobalAmount(queued) + forgot.global <= gstore
    /\ Len(queued) <= QueueCap - SumOver(Queued)

\* try_send moves the credits of the queued chunks to the wire; one chunk may be lost.
LEMMA TrySent ==
    ASSUME IInv, NEW p \in Ports, NEW queued, NEW forgot, TrySendFits(p, queued, forgot),
           TrySendEffect(p, queued, forgot)
    PROVE  StepOK
<1>0. setup' = setup /\ UNCHANGED rvars
  BY DEF TrySendEffect
<1> DEFINE a == PortAmount(queued)
           b == GlobalAmount(queued)
           c == forgot.port
           d == forgot.global
<1>1. a \in Nat /\ b \in Nat /\ c \in Nat /\ d \in Nat /\ a + c <= store[p] /\ b + d <= gstore
  BY PartsType DEF Credits, TrySendFits
<1>2. wire[p] \in Seq(Credits)
  BY PortTypes DEF IInv
<1>3. /\ store[p] \in Nat /\ gstore \in Nat /\ lost[p] \in Nat /\ glost \in Nat
      /\ Inflight(p) \in Nat
      /\ PortLimit \in Nat /\ store[p] \in 0..PortLimit /\ GlobalAmount(wire[p]) \in Nat
      /\ SumOver(HeldGlobal) \in Nat /\ SumOver(WireGlobal) \in Nat /\ SumOver(Queued) \in Nat
  BY PortTypes, GlobalTypes, ConstantsType, SenderTypes DEF IInv, SenderTyped
<1>4. /\ wire' = [wire EXCEPT ![p] = @ \o queued]
      /\ store' = [store EXCEPT ![p] = @ - a - c] /\ gstore' = gstore - b - d
      /\ lost' = [lost EXCEPT ![p] = @ + c] /\ glost' = glost + d
  BY DEF TrySendEffect
<1>5. UNCHANGED <<useGlobal, closed, pc, kind, left, held, msg, ret, gret>>
  BY DEF TrySendEffect
<1> HIDE DEF a, b, c, d
<1>6. store[p] - a - c \in 0..PortLimit /\ gstore - b - d \in Nat
  BY <1>1, <1>3
<1>7. /\ store' \in [Ports -> 0..PortLimit] /\ lost' \in [Ports -> Nat] /\ gstore' \in Nat
      /\ glost' \in Nat
      /\ store'[p] = store[p] - a - c /\ lost'[p] = lost[p] + c
      /\ \A q \in Ports \ {p} : store'[q] = store[q] /\ lost'[q] = lost[q]
  BY SMTT(40), <1>1, <1>3, <1>4, <1>6, SenderTypes DEF SenderTyped
<1>8. wire'[p] = wire[p] \o queued /\ WireTyped' /\ \A q \in Ports \ {p} : wire'[q] = wire[q]
  BY <1>2, <1>4, <1>5, SenderTypes DEF WireTyped, TrySendFits
<1>9. SenderTyped'
  BY <1>0, <1>5, <1>7, SenderTypes DEF SenderTyped, PortLimit
<1>10. TypeOK' /\ OthersSame(p)
  BY <1>0, <1>5, <1>7, <1>8, <1>9, SendingEndpoint
<1>11. OperationAt(p)'
  <2>1. OperationAt(p)
    BY PartsByPort DEF IInv
  <2> QED  BY <1>5, <2>1 DEF OperationAt
<1>12. Inflight(p)' = Inflight(p) + a /\ GlobalAmount(wire'[p]) = GlobalAmount(wire[p]) + b
  BY <1>2, <1>8, AmountConcat DEF Inflight, a, b, TrySendFits
<1>13. PortStep(p) /\ PortConservedAt(p)'
  <2>1. Assigned(p)' = Assigned(p)
    BY <1>5 DEF Assigned
  <2>2. PortNumbers(p, store[p] - a - c, Assigned(p), Inflight(p) + a, used[p], toReturn[p],
                    ret[p], lost[p] + c)
    BY <1>0, <1>5, <1>7, <1>12, <2>1 DEF PortNumbers, rvars
  <2>3. a \in 0..store[p] /\ c \in 0..(store[p] - a)
    BY <1>1, <1>3
  <2> QED  BY <1>0, <2>2, <2>3, PortTrySend
<1>14. /\ SumOver(HeldGlobal)' + (held[p].global + msg[p].global)
           = SumOver(HeldGlobal) + (held'[p].global + msg'[p].global)
       /\ SumOver(WireGlobal)' + GlobalAmount(wire[p]) = SumOver(WireGlobal) + GlobalAmount(wire'[p])
       /\ SumOver(Queued)' + Len(wire[p]) = SumOver(Queued) + Len(wire'[p])
  BY <1>0, <1>10, SumsFollow, SenderTypes DEF Typed
<1>15. SumOver(HeldGlobal)' \in Nat /\ SumOver(WireGlobal)' \in Nat /\ SumOver(Queued)' \in Nat
  BY <1>0, <1>10, SumsType, SenderTypes DEF Typed
<1>16. GlobalStep /\ GlobalConserved'
  <2>1. SumOver(HeldGlobal)' = SumOver(HeldGlobal)
    <3>1. HeldGlobal' = HeldGlobal
      BY <1>5 DEF HeldGlobal
    <3> QED  BY <3>1
  <2>2. SumOver(WireGlobal)' = SumOver(WireGlobal) + b
    <3>1. SumOver(WireGlobal)' + GlobalAmount(wire[p]) = SumOver(WireGlobal) + (GlobalAmount(wire[p]) + b)
      BY <1>12, <1>14
    <3> QED  BY <1>1, <1>3, <1>15, <3>1, Added
  <2>3. GlobalNumbers(gstore - b - d, SumOver(HeldGlobal), SumOver(WireGlobal) + b, gused,
                      greleasing, gtoReturn, gret, glost + d, gtotal)
    BY <1>0, <1>4, <1>5, <2>1, <2>2 DEF GlobalNumbers, rvars
  <2>4. b \in 0..gstore /\ d \in 0..(gstore - b)
    BY <1>1, <1>3
  <2> QED  BY <2>3, <2>4, GlobalTrySend
<1>17. QueueBound'
  <2> DEFINE k == Len(wire[p])
             m == Len(queued)
  <2>0. k \in Nat /\ m \in Nat
    BY <1>2 DEF TrySendFits
  <2>1. Len(wire'[p]) = k + m
    BY <1>2, <1>8 DEF TrySendFits
  <2>2. SumOver(Queued)' + k = SumOver(Queued) + (k + m)
    BY <1>14, <2>1
  <2>3. m <= QueueCap - SumOver(Queued)
    BY DEF TrySendFits
  <2> HIDE DEF k, m
  <2>4. SumOver(Queued)' = SumOver(Queued) + m
    BY <1>3, <1>15, <2>0, <2>2, Added
  <2> QED  BY <1>3, <2>0, <2>3, <2>4, CreditFlowAssumption DEF QueueBound
<1> QED  BY <1>0, <1>5, <1>7, <1>8, <1>9, <1>11, <1>13, <1>16, <1>17, SendingEndpoint

LEMMA TrySendStep ==
    ASSUME IInv, NEW p \in Ports, NEW n \in Nat \ {0}, TrySend(p, n)
    PROVE  StepOK
<1> DEFINE fromPort == store[p] >= n
           count == Least(ChunkCount(n), QueueRoom)
           Chunk(i) == IF fromPort THEN [port |-> ChunkAt(n, i), global |-> 0]
                                   ELSE [port |-> 0, global |-> ChunkAt(n, i)]
           queued == [i \in 1..count |-> Chunk(i)]
           forgot == IF count < ChunkCount(n) THEN Chunk(count + 1) ELSE None
           s == [i \in 1..count |-> ChunkAt(n, i)]
<1>1. (fromPort \/ gstore >= n) /\ TrySendEffect(p, queued, forgot)
  BY DEF TrySend, TrySendEffect
<1>2. store[p] \in Nat /\ gstore \in Nat /\ SumOver(Queued) \in Nat
  BY PortTypes, GlobalTypes DEF IInv
<1>3. ChunkCount(n) \in Nat
  <2>1. ChunkSize \in Nat \ {0} /\ n + ChunkSize - 1 \in Nat
    BY ConstantsType DEF IInv
  <2> QED  BY <2>1, Division DEF ChunkCount
<1>4. QueueRoom \in Nat /\ QueueRoom = QueueCap - SumOver(Queued)
  BY <1>2, CreditFlowAssumption DEF IInv, QueueBound, QueueRoom, Queued
<1>5. count \in Nat /\ count <= ChunkCount(n) /\ count <= QueueCap - SumOver(Queued)
  <2>1. count \in Nat /\ count <= ChunkCount(n) /\ count <= QueueRoom
    BY <1>3, <1>4 DEF Least
  <2> QED  BY <1>4, <2>1
<1> HIDE DEF count
<1>6. /\ \A i \in 1..count : ChunkAt(n, i) \in Nat
      /\ s \in Seq(Nat)
      /\ Total(s) \in 0..n
      /\ count < ChunkCount(n) => ChunkAt(n, count + 1) \in Nat /\ Total(s) + ChunkAt(n, count + 1) <= n
  BY <1>5, ChunksFit DEF IInv
<1>7. Len(s) = count /\ \A i \in 1..count : s[i] = ChunkAt(n, i)
  BY <1>5, <1>6
<1> DEFINE rest == IF count < ChunkCount(n) THEN ChunkAt(n, count + 1) ELSE 0
<1>8. rest \in Nat /\ Total(s) \in Nat /\ Total(s) + rest <= n
  BY <1>6
<1> HIDE DEF s
<1>9. CASE fromPort
  <2>1. queued = [i \in 1..Len(s) |-> [port |-> s[i], global |-> 0]]
    BY <1>7, <1>9, Zenon
  <2>2. queued \in Seq(Credits) /\ PortAmount(queued) = Total(s) /\ GlobalAmount(queued) = 0
    BY <1>6, <2>1, ChunkMessages
  <2>3. Len(queued) = count
    BY <1>5, <2>1
  <2>4. forgot = [port |-> rest, global |-> 0]
    BY <1>9 DEF None
  <2> HIDE DEF queued, rest, forgot
  <2>5. forgot \in Credits /\ forgot.port = rest /\ forgot.global = 0
    BY <1>8, <2>4 DEF Credits
  <2>6. /\ PortAmount(queued) + forgot.port <= store[p]
        /\ GlobalAmount(queued) + forgot.global <= gstore
    <3>1. Total(s) + rest <= store[p] /\ 0 + 0 <= gstore
      BY <1>2, <1>8, <1>9
    <3> QED  BY <2>2, <2>5, <3>1
  <2>7. TrySendFits(p, queued, forgot)
    BY <1>5, <2>2, <2>3, <2>5, <2>6 DEF TrySendFits
  <2> QED  BY <1>1, <2>7, TrySent
<1>10. CASE ~fromPort
  <2>1. queued = [i \in 1..Len(s) |-> [port |-> 0, global |-> s[i]]]
    BY <1>7, <1>10, Zenon
  <2>2. queued \in Seq(Credits) /\ PortAmount(queued) = 0 /\ GlobalAmount(queued) = Total(s)
    BY <1>6, <2>1, ChunkMessages
  <2>3. Len(queued) = count
    BY <1>5, <2>1
  <2>4. forgot = [port |-> 0, global |-> rest]
    BY <1>10 DEF None
  <2> HIDE DEF queued, rest, forgot
  <2>5. forgot \in Credits /\ forgot.port = 0 /\ forgot.global = rest
    BY <1>8, <2>4 DEF Credits
  <2>6. /\ PortAmount(queued) + forgot.port <= store[p]
        /\ GlobalAmount(queued) + forgot.global <= gstore
    <3>1. Total(s) + rest <= gstore /\ 0 + 0 <= store[p]
      BY <1>1, <1>2, <1>8, <1>10
    <3> QED  BY <2>2, <2>5, <3>1
  <2>7. TrySendFits(p, queued, forgot)
    BY <1>5, <2>2, <2>3, <2>5, <2>6 DEF TrySendFits
  <2> QED  BY <1>1, <2>7, TrySent
<1> QED  BY <1>9, <1>10

----------------------------------------------------------------------------
(* Messages to the sending endpoint *)

\* CreditProvider::provide: credits arrive back at the store of the port.
LEMMA ProvidePortStep == ASSUME IInv, NEW p \in Ports, ProvidePort(p) PROVE StepOK
<1>1. PICK n \in 1..ret[p] : /\ store' = [store EXCEPT ![p] = @ + n]
                             /\ ret' = [ret EXCEPT ![p] = @ - n]
  BY DEF ProvidePort
<1>2. UNCHANGED <<setup, gstore, useGlobal, closed, pc, kind, left, held, msg, wire, gret, rvars,
                  lost, glost>>
  BY DEF ProvidePort
<1>3. ret[p] \in Nat /\ store[p] \in Nat /\ n \in 0..ret[p] /\ PortLimit \in Nat
  BY PortTypes, ConstantsType DEF IInv
<1>4. store[p] + n \in 0..PortLimit /\ ret[p] - n \in Nat
  BY <1>3, PortFacts DEF PortConservedAt
<1>5. /\ store' \in [Ports -> 0..PortLimit] /\ ret' \in [Ports -> Nat]
      /\ store'[p] = store[p] + n /\ ret'[p] = ret[p] - n
      /\ \A q \in Ports \ {p} : store'[q] = store[q] /\ ret'[q] = ret[q]
  BY <1>1, <1>4, SenderTypes DEF SenderTyped, WireTyped
<1>6. SenderTyped' /\ WireTyped'
  BY <1>2, <1>5, SenderTypes DEF SenderTyped, WireTyped, PortLimit
<1>7. QueueBound' /\ SumOver(WireGlobal)' = SumOver(WireGlobal) /\ Inflight(p)' = Inflight(p)
  BY <1>2, WireQuiet
<1>8. OperationAt(p)'
  <2>1. OperationAt(p)
    BY PartsByPort DEF IInv
  <2> QED  BY <1>2, <2>1 DEF OperationAt
<1>9. PortStep(p) /\ PortConservedAt(p)'
  <2>1. PortNumbers(p, store[p] + n, Assigned(p), Inflight(p), used[p], toReturn[p], ret[p] - n,
                    lost[p])
    BY <1>2, <1>5, <1>7 DEF PortNumbers, rvars, Assigned
  <2> QED  BY <1>2, <1>3, <2>1, PortProvide
<1>10. GlobalStep /\ GlobalConserved'
  <2>1. HeldGlobal' = HeldGlobal
    BY <1>2 DEF HeldGlobal
  <2>2. GlobalNumbers(gstore, SumOver(HeldGlobal), SumOver(WireGlobal), gused,
                      greleasing, gtoReturn, gret, glost, gtotal)
    BY <1>2, <1>7, <2>1 DEF GlobalNumbers, rvars
  <2> QED  BY <2>2, GlobalQuiet
<1> QED  BY <1>2, <1>5, <1>6, <1>7, <1>8, <1>9, <1>10, SendingEndpoint

\* Queues kept by port, after one of them changed.
LEMMA TailInFunction ==
    ASSUME NEW D, NEW T, NEW f \in [D -> Seq(T)], NEW p \in D, f[p] # <<>>
    PROVE  [f EXCEPT ![p] = Tail(@)] \in [D -> Seq(T)]
<1>1. Tail(f[p]) \in Seq(T)
  OBVIOUS
<1> QED  BY <1>1

LEMMA HeadInFunction ==
    ASSUME NEW D, NEW T, NEW f \in [D -> Seq(T)], NEW p \in D, f[p] # <<>>
    PROVE  Head(f[p]) \in T
<1>1. f[p] \in Seq(T)
  OBVIOUS
<1> QED  BY <1>1

LEMMA AppendInFunction ==
    ASSUME NEW D, NEW T, NEW f \in [D -> Seq(T)], NEW p \in D, NEW e \in T
    PROVE  [f EXCEPT ![p] = Append(@, e)] \in [D -> Seq(T)]
<1>1. Append(f[p], e) \in Seq(T)
  OBVIOUS
<1> QED  BY <1>1

\* Messages about throttling carry no credits.
LEMMA SetUseGlobalStep == ASSUME IInv, NEW p \in Ports, SetUseGlobal(p) PROVE StepOK
<1>1. /\ useGlobal' = [useGlobal EXCEPT ![p] = Head(ctl[p]) = "allow"]
      /\ ctl[p] # <<>> /\ ctl' = [ctl EXCEPT ![p] = Tail(@)]
  BY DEF SetUseGlobal
<1>2. /\ UNCHANGED <<setup, store, gstore, held, msg, wire, ret, gret, rxq, used, toReturn, gused,
                     greleasing, gtoReturn, gtotal, error, lost, glost>>
      /\ UNCHANGED <<closed, pc, kind, left, rdropped, usage, allowed, sets, swapping, tasks,
                     events, hand, inhibit>>
  BY DEF SetUseGlobal
<1>3. SenderTyped' /\ WireTyped' /\ ReceiverTyped'
  BY <1>1, <1>2, SenderTypes DEF SenderTyped, WireTyped, ReceiverTyped, PortLimit
<1>4. ctl' \in [Ports -> Seq({"allow", "inhibit"})]
  BY <1>1, TailInFunction, SenderTypes DEF ThrottleTyped
<1>5. ThrottleTyped'
  BY <1>2, <1>4, SenderTypes DEF ThrottleTyped
<1>6. TypeOK'
  BY <1>3, <1>5 DEF TypeOK, SenderTyped, WireTyped, ReceiverTyped, ThrottleTyped
<1>7. \A q \in Ports : OperationAt(q)' /\ InHand(q)' = InHand(q) /\ PortInHand(q)' = PortInHand(q)
  BY <1>2, PartsByPort DEF IInv, OperationAt, InHand, PortInHand
<1> QED  BY <1>2, <1>6, <1>7, QuietStep

\* CreditProvider::close stops the sender and moves no credits.
LEMMA ReceiveFinishStep == ASSUME IInv, NEW p \in Ports, ReceiveFinish(p) PROVE StepOK
<1>1. /\ closed' = [closed EXCEPT ![p] = TRUE]
      /\ UNCHANGED <<setup, store, gstore, held, msg, wire, ret, gret, rvars, lost, glost>>
      /\ UNCHANGED <<useGlobal, pc, kind, left>>
  BY DEF ReceiveFinish
<1>2. SenderTyped'
  BY <1>1, SenderTypes DEF SenderTyped, PortLimit
<1>3. \A q \in Ports : OperationAt(q)'
  BY <1>1, PartsByPort DEF IInv, OperationAt
<1> QED  BY <1>1, <1>2, <1>3, QuietSending

\* A step that concerns the global credits only.
LEMMA GlobalOnly ==
    ASSUME IInv, TypeOK', GlobalStep, GlobalConserved', UNCHANGED gused,
           UNCHANGED <<setup, store, held, msg, wire, ret, rxq, used, toReturn, error, lost, pc,
                       left, hand>>
    PROVE  StepOK
<1>1. QueueBound' /\ \A q \in Ports : Inflight(q)' = Inflight(q)
  BY WireQuiet
<1>2. \A q \in Ports : PortStep(q) /\ PortConservedAt(q)'
  <2> SUFFICES ASSUME NEW q \in Ports PROVE PortStep(q) /\ PortConservedAt(q)'
    OBVIOUS
  <2>1. PortNumbers(q, store[q], Assigned(q), Inflight(q), used[q], toReturn[q], ret[q], lost[q])
    BY <1>1 DEF PortNumbers, Assigned
  <2> QED  BY <2>1, PortQuiet
<1>3. UsedGlobal' = UsedGlobal
  BY DEF UsedGlobal, InHand
<1>4. GlobalUsed' /\ NoProtocolError'
  BY <1>3 DEF IInv, GlobalUsed, NoProtocolError
<1>5. ReceivedUsed' /\ OperationsOK'
  BY DEF IInv, ReceivedUsed, OperationsOK, PortInHand
<1>6. PortConserved'
  BY <1>2 DEF PortConserved, PortConservedAt, Assigned, Inflight
<1> QED  BY <1>1, <1>2, <1>4, <1>5, <1>6 DEF StepOK, IInv

\* The global sums depend on operations and queues only.
LEMMA GlobalSums ==
    ASSUME UNCHANGED <<held, msg, wire>>
    PROVE  SumOver(HeldGlobal)' = SumOver(HeldGlobal) /\ SumOver(WireGlobal)' = SumOver(WireGlobal)
<1>1. HeldGlobal' = HeldGlobal /\ WireGlobal' = WireGlobal
  BY DEF HeldGlobal, WireGlobal
<1> QED  BY <1>1

\* Global credits arrive back at the store that the ports share.
LEMMA ProvideGlobalStep == ASSUME IInv, ProvideGlobal PROVE StepOK
<1>1. PICK n \in 1..gret : gstore' = gstore + n /\ gret' = gret - n
  BY DEF ProvideGlobal
<1>2. UNCHANGED <<setup, store, useGlobal, closed, pc, kind, left, held, msg, wire, ret, rvars,
                  lost, glost>>
  BY DEF ProvideGlobal
<1>3. gstore \in Nat /\ gret \in Nat /\ n \in 0..gret
  BY GlobalTypes DEF IInv
<1>4. gstore' \in Nat /\ gret' \in Nat
  BY <1>1, <1>3
<1>5. TypeOK'
  <2>1. ReceiverTyped' /\ ThrottleTyped'
    BY <1>2, ReceiverQuiet
  <2>2. SenderTyped' /\ WireTyped'
    BY <1>2, <1>4, SenderTypes DEF SenderTyped, WireTyped, PortLimit
  <2> QED  BY <2>1, <2>2 DEF TypeOK, SenderTyped, WireTyped, ReceiverTyped, ThrottleTyped
<1>6. GlobalStep /\ GlobalConserved'
  <2>1. GlobalNumbers(gstore + n, SumOver(HeldGlobal), SumOver(WireGlobal), gused,
                      greleasing, gtoReturn, gret - n, glost, gtotal)
    BY <1>1, <1>2, GlobalSums DEF GlobalNumbers, rvars
  <2> QED  BY <1>3, <2>1, GlobalProvide
<1> QED  BY <1>2, <1>5, <1>6, GlobalOnly DEF rvars, tvars

----------------------------------------------------------------------------
(* Throttling moves no credits *)

\* A step that moves no credits and no data keeps the invariant.
LEMMA QuietReceiving ==
    ASSUME IInv, ThrottleTyped',
           UNCHANGED <<svars, wire, ret, gret, rxq, used, toReturn, rdropped, gused, greleasing,
                       gtoReturn, gtotal, error, lost, glost>>,
           \A q \in Ports : InHand(q)' = InHand(q) /\ PortInHand(q)' = PortInHand(q)
    PROVE  StepOK
<1>1. /\ UNCHANGED <<setup, store, gstore, held, msg, wire, ret, gret, rxq, used, toReturn, gused,
                     greleasing, gtoReturn, gtotal, error, lost, glost>>
      /\ UNCHANGED <<useGlobal, closed, pc, kind, left, rdropped>>
  BY DEF svars
<1>2. SenderTyped' /\ WireTyped' /\ ReceiverTyped'
  BY <1>1, SenderTypes DEF SenderTyped, WireTyped, ReceiverTyped, PortLimit
<1>3. TypeOK'
  BY <1>2 DEF TypeOK, SenderTyped, WireTyped, ReceiverTyped, ThrottleTyped
<1>4. \A q \in Ports : OperationAt(q)'
  BY <1>1, PartsByPort DEF IInv, OperationAt
<1> QED  BY <1>1, <1>3, <1>4, QuietStep

\* What the multiplexer has in hand is unchanged with hand.
LEMMA HandKept ==
    ASSUME UNCHANGED hand
    PROVE  \A q \in Ports : InHand(q)' = InHand(q) /\ PortInHand(q)' = PortInHand(q)
  BY DEF InHand, PortInHand

Messages == [port : Ports, msg : Credits, tried : BOOLEAN]

\* Sequences of at most one element.
LEMMA OneElement ==
    ASSUME NEW T, NEW h \in Seq(T), Len(h) <= 1, h # <<>>
    PROVE  h[1] \in T /\ Len(h) = 1
<1>1. h[1] \in T
  OBVIOUS
<1>2. Len(h) \in Nat /\ Len(h) = Len(Tail(h)) + 1 /\ Len(Tail(h)) \in Nat
  OBVIOUS
<1> QED  BY <1>1, <1>2

LEMMA OneReplaced ==
    ASSUME NEW T, NEW h \in Seq(T), Len(h) = 1, NEW m \in T
    PROVE  /\ [h EXCEPT ![1] = m] \in Seq(T) /\ Len([h EXCEPT ![1] = m]) = 1
           /\ [h EXCEPT ![1] = m][1] = m /\ [h EXCEPT ![1] = m] # <<>>
<1> DEFINE g == [h EXCEPT ![1] = m]
<1>1. h \in [1..1 -> T]
  OBVIOUS
<1>2. g \in [1..1 -> T] /\ g[1] = m
  BY <1>1
<1> HIDE DEF g
<1>3. g \in Seq(T) /\ Len(g) = 1
  BY <1>2, FunctionIsSequence
<1>4. g # <<>>
  <2>1. Len(<<>>) = 0 /\ 0 # 1
    OBVIOUS
  <2> QED  BY <1>3, <2>1, Zenon
<1> QED  BY <1>2, <1>3, <1>4 DEF g

\* A message in hand has been checked and belongs to a port.
LEMMA HandType ==
    ASSUME IInv, hand # <<>>
    PROVE  /\ hand[1] \in Messages /\ hand[1].msg \in Credits /\ hand[1].port \in Ports
           /\ hand \in Seq(Messages) /\ Len(hand) = 1
<1>1. hand \in Seq(Messages) /\ Len(hand) <= 1
  BY SenderTypes DEF ThrottleTyped, Messages
<1>2. hand[1] \in Messages /\ Len(hand) = 1
  BY <1>1, OneElement
<1> QED  BY <1>1, <1>2 DEF Messages

\* The steps of throttling leave all credits where they are.
LEMMA StartInhibitingStep == ASSUME IInv, NEW p \in Ports, StartInhibiting(p) PROVE StepOK
<1>1. /\ hand # <<>> /\ hand' = [hand EXCEPT ![1].tried = TRUE]
      /\ usage' = [usage EXCEPT ![p] = IF @ = "active" THEN "inhibiting" ELSE @]
      /\ UNCHANGED <<svars, wire, ret, gret, rxq, used, toReturn, rdropped, gused, greleasing,
                     gtoReturn, gtotal, error, lost, glost>>
      /\ UNCHANGED <<allowed, sets, swapping, tasks, events, inhibit, ctl>>
  BY DEF StartInhibiting
<1> DEFINE m == [hand[1] EXCEPT !.tried = TRUE]
<1>2. m \in Messages /\ m.port = hand[1].port /\ m.msg = hand[1].msg
  BY <1>1, HandType DEF Messages
<1>3. hand' = [hand EXCEPT ![1] = m] /\ hand \in Seq(Messages) /\ Len(hand) = 1
  BY <1>1, HandType
<1> HIDE DEF m
<1>4. hand'[1] = m /\ hand' \in Seq(Messages) /\ Len(hand') = 1 /\ hand' # <<>>
  BY <1>2, <1>3, OneReplaced
<1>5. ThrottleTyped'
  BY <1>1, <1>4, SenderTypes DEF ThrottleTyped, Messages
<1>6. \A q \in Ports : InHand(q)' = InHand(q) /\ PortInHand(q)' = PortInHand(q)
  BY <1>1, <1>2, <1>4 DEF InHand, PortInHand
<1> QED  BY <1>1, <1>5, <1>6, QuietReceiving

LEMMA SendInhibitStep == ASSUME IInv, NEW p \in Ports, SendInhibit(p) PROVE StepOK
<1>1. /\ inhibit' = inhibit \ {p} /\ UNCHANGED hand
      /\ UNCHANGED <<svars, wire, ret, gret, rxq, used, toReturn, rdropped, gused, greleasing,
                     gtoReturn, gtotal, error, lost, glost>>
      /\ UNCHANGED <<allowed, sets, swapping, tasks, events>>
  BY DEF SendInhibit
<1>2. /\ usage' \in [Ports -> {"active", "inhibiting", "inhibited"}]
      /\ ctl' \in [Ports -> Seq({"allow", "inhibit"})]
  <2>1. /\ usage \in [Ports -> {"active", "inhibiting", "inhibited"}]
        /\ ctl \in [Ports -> Seq({"allow", "inhibit"})]
    BY SenderTypes DEF ThrottleTyped
  <2>2. CASE usage[p] = "inhibiting"
    <3>1. /\ usage' = [usage EXCEPT ![p] = "inhibited"]
          /\ ctl' = [ctl EXCEPT ![p] = Append(@, "inhibit")]
      BY <2>2 DEF SendInhibit
    <3>2. [ctl EXCEPT ![p] = Append(@, "inhibit")] \in [Ports -> Seq({"allow", "inhibit"})]
      BY <2>1, AppendInFunction
    <3> QED  BY <2>1, <3>1, <3>2
  <2>3. CASE usage[p] # "inhibiting"
    BY <2>1, <2>3 DEF SendInhibit
  <2> QED  BY <2>2, <2>3
<1>3. ThrottleTyped'
  BY <1>1, <1>2, SenderTypes DEF ThrottleTyped
<1> QED  BY <1>1, <1>3, HandKept, QuietReceiving

LEMMA SendChangeStep == ASSUME IInv, NEW p \in Ports, SendChange(p) PROVE StepOK
<1>1. /\ ctl' = [ctl EXCEPT ![p] = Append(@, Head(events[p]))] /\ events[p] # <<>>
      /\ events' = [events EXCEPT ![p] = Tail(@)] /\ UNCHANGED hand
      /\ UNCHANGED <<svars, wire, ret, gret, rxq, used, toReturn, rdropped, gused, greleasing,
                     gtoReturn, gtotal, error, lost, glost>>
      /\ UNCHANGED <<usage, allowed, sets, swapping, tasks, inhibit>>
  BY DEF SendChange
<1>2. /\ events \in [Ports -> Seq({"allow", "inhibit"})]
      /\ ctl \in [Ports -> Seq({"allow", "inhibit"})]
  BY SenderTypes DEF ThrottleTyped
<1>3. Head(events[p]) \in {"allow", "inhibit"}
  BY <1>1, <1>2, HeadInFunction
<1>4. ctl' \in [Ports -> Seq({"allow", "inhibit"})]
  BY <1>1, <1>2, <1>3, AppendInFunction
<1>5. events' \in [Ports -> Seq({"allow", "inhibit"})]
  BY <1>1, <1>2, TailInFunction
<1>6. ThrottleTyped'
  BY <1>1, <1>4, <1>5, SenderTypes DEF ThrottleTyped
<1> QED  BY <1>1, <1>6, HandKept, QuietReceiving

\* An event goes to the event channel or to a spawned task.
LEMMA QueuePortEvtFacts ==
    ASSUME IInv, NEW p \in Ports, NEW e \in {"allow", "inhibit"}, QueuePortEvt(p, e)
    PROVE  /\ events' \in [Ports -> Seq({"allow", "inhibit"})]
           /\ tasks' \in [Ports -> Seq({"allow", "inhibit"})]
<1>1. /\ events \in [Ports -> Seq({"allow", "inhibit"})]
      /\ tasks \in [Ports -> Seq({"allow", "inhibit"})]
  BY SenderTypes DEF ThrottleTyped
<1>2. CASE events' = [events EXCEPT ![p] = Append(@, e)] /\ UNCHANGED tasks
  BY <1>1, <1>2, AppendInFunction
<1>3. CASE tasks' = [tasks EXCEPT ![p] = Append(@, e)] /\ UNCHANGED events
  BY <1>1, <1>3, AppendInFunction
<1> QED  BY <1>2, <1>3 DEF QueuePortEvt

LEMMA SwapActiveStep == ASSUME IInv, NEW p \in Ports, SwapActive(p) PROVE StepOK
<1>1. /\ swapping' = [swapping EXCEPT ![p] = FALSE] /\ usage' = [usage EXCEPT ![p] = "active"]
      /\ UNCHANGED <<svars, wire, ret, gret, rxq, used, toReturn, rdropped, gused, greleasing,
                     gtoReturn, gtotal, error, lost, glost>>
      /\ UNCHANGED <<allowed, sets, hand, inhibit, ctl>>
  BY DEF SwapActive
<1>2. /\ events' \in [Ports -> Seq({"allow", "inhibit"})]
      /\ tasks' \in [Ports -> Seq({"allow", "inhibit"})]
  <2>1. CASE usage[p] = "inhibited"
    BY <2>1, QueuePortEvtFacts DEF SwapActive
  <2>2. CASE usage[p] # "inhibited"
    BY <2>2, SenderTypes DEF SwapActive, ThrottleTyped
  <2> QED  BY <2>1, <2>2
<1>3. ThrottleTyped'
  BY <1>1, <1>2, SenderTypes DEF ThrottleTyped
<1> QED  BY <1>1, <1>3, HandKept, QuietReceiving

LEMMA SetAllowedStep == ASSUME IInv, NEW p \in Ports, SetAllowed(p) PROVE StepOK
<1>1. /\ sets' = sets + 1 /\ allowed' = [allowed EXCEPT ![p] = ~@]
      /\ UNCHANGED <<svars, wire, ret, gret, rxq, used, toReturn, rdropped, gused, greleasing,
                     gtoReturn, gtotal, error, lost, glost>>
      /\ UNCHANGED <<hand, inhibit, ctl>>
  BY DEF SetAllowed
<1>2. /\ events' \in [Ports -> Seq({"allow", "inhibit"})]
      /\ tasks' \in [Ports -> Seq({"allow", "inhibit"})]
      /\ usage' \in [Ports -> {"active", "inhibiting", "inhibited"}]
      /\ swapping' \in [Ports -> BOOLEAN]
  <2>1. /\ events \in [Ports -> Seq({"allow", "inhibit"})]
        /\ tasks \in [Ports -> Seq({"allow", "inhibit"})]
        /\ usage \in [Ports -> {"active", "inhibiting", "inhibited"}]
        /\ swapping \in [Ports -> BOOLEAN]
    BY SenderTypes DEF ThrottleTyped
  <2>2. CASE allowed'[p]
    <3>1. Releases(Unreceived(p)) \in BOOLEAN
      BY DEF Releases
    <3>2. /\ swapping' = [swapping EXCEPT ![p] = Releases(Unreceived(p))]
          /\ UNCHANGED <<usage, tasks, events>>
      BY <2>2 DEF SetAllowed
    <3> QED  BY <2>1, <3>1, <3>2
  <2>3. CASE ~allowed'[p] /\ usage[p] # "inhibited"
    <3>1. /\ usage' = [usage EXCEPT ![p] = "inhibited"] /\ QueuePortEvt(p, "inhibit")
          /\ UNCHANGED swapping
      BY <2>3 DEF SetAllowed
    <3> QED  BY <2>1, <3>1, QueuePortEvtFacts
  <2>4. CASE ~allowed'[p] /\ usage[p] = "inhibited"
    <3>1. /\ usage' = [usage EXCEPT ![p] = "inhibited"] /\ UNCHANGED <<tasks, events, swapping>>
      BY <2>4 DEF SetAllowed
    <3> QED  BY <2>1, <3>1
  <2> QED  BY <2>2, <2>3, <2>4
<1>3. allowed' \in [Ports -> BOOLEAN] /\ sets' \in Nat
  BY <1>1, SenderTypes DEF ThrottleTyped
<1>4. ThrottleTyped'
  BY <1>1, <1>2, <1>3, SenderTypes DEF ThrottleTyped
<1> QED  BY <1>1, <1>4, HandKept, QuietReceiving

LEMMA ReadyStep == ASSUME IInv, NEW p \in Ports, Ready(p) PROVE StepOK
<1>1. /\ events' = [events EXCEPT ![p] = Append(@, Head(tasks[p]))] /\ tasks[p] # <<>>
      /\ tasks' = [tasks EXCEPT ![p] = Tail(@)] /\ UNCHANGED hand
      /\ UNCHANGED <<svars, wire, ret, gret, rxq, used, toReturn, rdropped, gused, greleasing,
                     gtoReturn, gtotal, error, lost, glost>>
      /\ UNCHANGED <<usage, allowed, sets, swapping, inhibit, ctl>>
  BY DEF Ready
<1>2. /\ events \in [Ports -> Seq({"allow", "inhibit"})]
      /\ tasks \in [Ports -> Seq({"allow", "inhibit"})]
  BY SenderTypes DEF ThrottleTyped
<1>3. Head(tasks[p]) \in {"allow", "inhibit"}
  BY <1>1, <1>2, HeadInFunction
<1>4. events' \in [Ports -> Seq({"allow", "inhibit"})]
  BY <1>1, <1>2, <1>3, AppendInFunction
<1>5. tasks' \in [Ports -> Seq({"allow", "inhibit"})]
  BY <1>1, <1>2, TailInFunction
<1>6. ThrottleTyped'
  BY <1>1, <1>4, <1>5, SenderTypes DEF ThrottleTyped
<1> QED  BY <1>1, <1>6, HandKept, QuietReceiving

----------------------------------------------------------------------------
(* Receiving endpoint *)

\* A step of the receiving endpoint that changes the counters of one port only.
LEMMA ReceivingEndpoint ==
    ASSUME IInv, UNCHANGED <<svars, lost, glost>>, WireTyped', ReceiverTyped', ThrottleTyped',
                             NEW p \in Ports,
           \A q \in Ports \ {p} :
             /\ wire'[q] = wire[q] /\ ret'[q] = ret[q] /\ rxq'[q] = rxq[q] /\ used'[q] = used[q]
             /\ toReturn'[q] = toReturn[q] /\ InHand(q)' = InHand(q)
             /\ PortInHand(q)' = PortInHand(q)
    PROVE  /\ TypeOK' /\ OthersSame(p) /\ setup' = setup /\ gstore' = gstore /\ store'[p] = store[p]
           /\ Assigned(p)' = Assigned(p) /\ SumOver(HeldGlobal)' = SumOver(HeldGlobal)
           /\ ( /\ PortConservedAt(p)' /\ PortStep(p) /\ ReceivedAt(p)' /\ GlobalStep /\ GlobalConserved'
                /\ GlobalUsed' /\ QueueBound' /\ NoProtocolError' ) => StepOK
<1>1. UNCHANGED <<setup, store, gstore, useGlobal, closed, pc, kind, left, held, msg, lost, glost>>
  BY DEF svars
<1>2. SenderTyped'
  BY <1>1, SenderTypes DEF SenderTyped, PortLimit
<1>3. TypeOK'
  BY <1>2 DEF TypeOK, SenderTyped, WireTyped, ReceiverTyped, ThrottleTyped
<1>4. OthersSame(p)
  BY <1>1 DEF OthersSame
<1>5. OperationAt(p)'
  BY <1>1, PartsByPort DEF IInv, OperationAt
<1>6. Assigned(p)' = Assigned(p)
  BY <1>1 DEF Assigned
<1>7. SumOver(HeldGlobal)' = SumOver(HeldGlobal)
  <2>1. HeldGlobal' = HeldGlobal
    BY <1>1 DEF HeldGlobal
  <2> QED  BY <2>1
<1> QED  BY <1>1, <1>3, <1>4, <1>5, <1>6, <1>7, OnePort

\* Nothing is in hand when hand is empty.
LEMMA EmptyHand ==
    ASSUME hand = <<>>
    PROVE  \A q \in Ports : InHand(q) = 0 /\ PortInHand(q) = 0
  BY DEF InHand, PortInHand

\* What the handler does with a message: it counts x credits as used and releases y.
ReceiveCounts(p, x, y) ==
    /\ \/ x = Head(wire[p]).global /\ y = 0
       \/ x = 0 /\ y = Head(wire[p]).global
    /\ gused' = gused + x /\ greleasing' = greleasing + y
    /\ GlobalAmount(rxq'[p]) + InHand(p)' = (GlobalAmount(rxq[p]) + InHand(p)) + x
    /\ PortAmount(rxq'[p]) + PortInHand(p)' <= PortAmount(rxq[p]) + PortInHand(p) + Head(wire[p]).port
    /\ rxq' \in [Ports -> Seq(Credits)]
    /\ hand' \in Seq(Messages) /\ Len(hand') <= 1
    /\ \A q \in Ports \ {p} : /\ rxq'[q] = rxq[q] /\ InHand(q)' = InHand(q)
                              /\ PortInHand(q)' = PortInHand(q)

\* use_credits: a chunk with x port and y global credits comes off the wire and is counted.
LEMMA ReceiveFacts ==
    ASSUME IInv, NEW p \in Ports, Receive(p)
    PROVE  \E x, y \in Nat : ReceiveCounts(p, x, y)
<1> DEFINE m == Head(wire[p])
<1>1. wire[p] # <<>> /\ hand = <<>>
  BY DEF Receive
<1>2. wire[p] \in Seq(Credits) /\ rxq[p] \in Seq(Credits) /\ rxq \in [Ports -> Seq(Credits)]
  BY PortTypes, SenderTypes DEF IInv, ReceiverTyped
<1>3. m \in Credits /\ m.port \in Nat /\ m.global \in Nat
  BY <1>1, <1>2, AmountTail
<1>4. /\ PortAmount(rxq[p]) \in Nat /\ GlobalAmount(rxq[p]) \in Nat /\ gused \in Nat
      /\ greleasing \in Nat
  BY PortTypes, GlobalTypes DEF IInv
<1>5. \A q \in Ports : InHand(q) = 0 /\ PortInHand(q) = 0
  BY <1>1, EmptyHand
<1>6. hand \in Seq(Messages) /\ Len(hand) <= 1
  BY SenderTypes DEF ThrottleTyped, Messages
<1>7. CASE rdropped[p] /\ UNCHANGED hand /\ Deliver(p, m, gused + m.global)
  <2> HIDE DEF m
  <2>1. gused' = (gused + m.global) - m.global /\ greleasing' = greleasing + m.global /\ rxq' = rxq
    BY <1>7 DEF Deliver
  <2>2. \A q \in Ports : InHand(q)' = InHand(q) /\ PortInHand(q)' = PortInHand(q)
    BY <1>7, HandKept
  <2>3. /\ GlobalAmount(rxq'[p]) + InHand(p)' = (GlobalAmount(rxq[p]) + InHand(p)) + 0
        /\ PortAmount(rxq'[p]) + PortInHand(p)' <= PortAmount(rxq[p]) + PortInHand(p) + m.port
        /\ gused' = gused + 0
    BY <1>3, <1>4, <1>5, <2>1, <2>2
  <2>4. ReceiveCounts(p, 0, m.global)
    BY <1>2, <1>6, <1>7, <2>1, <2>2, <2>3 DEF ReceiveCounts, m
  <2> QED  BY <1>3, <2>4
<1>8. CASE /\ hand' = <<[port |-> p, msg |-> m, tried |-> FALSE]>>
           /\ gused' = gused + m.global /\ UNCHANGED <<rxq, greleasing>>
  <2> DEFINE r == [port |-> p, msg |-> m, tried |-> FALSE]
  <2>1. /\ gused' = gused + m.global /\ greleasing' = greleasing /\ rxq' = rxq /\ hand' = <<r>>
    BY <1>8
  <2>2. r \in Messages /\ r.port = p /\ r.msg = m
    BY <1>3 DEF Messages
  <2> HIDE DEF r, m
  <2>3. hand'[1] = r /\ hand' # <<>> /\ hand' \in Seq(Messages) /\ Len(hand') <= 1
    BY <2>1, <2>2
  <2>4. InHand(p)' = m.global /\ PortInHand(p)' = m.port
    BY <2>2, <2>3 DEF InHand, PortInHand
  <2>5. \A q \in Ports \ {p} : InHand(q)' = 0 /\ PortInHand(q)' = 0
    BY <2>2, <2>3 DEF InHand, PortInHand
  <2>6. /\ GlobalAmount(rxq'[p]) + InHand(p)' = (GlobalAmount(rxq[p]) + InHand(p)) + m.global
        /\ PortAmount(rxq'[p]) + PortInHand(p)' <= PortAmount(rxq[p]) + PortInHand(p) + m.port
        /\ greleasing' = greleasing + 0
    BY <1>3, <1>4, <1>5, <2>1, <2>4
  <2>7. ReceiveCounts(p, m.global, 0)
    BY <1>2, <1>5, <2>1, <2>3, <2>5, <2>6 DEF m, ReceiveCounts
  <2> QED  BY <1>3, <2>7
<1>9. CASE ~rdropped[p] /\ UNCHANGED hand /\ Deliver(p, m, gused + m.global)
  <2>1. /\ gused' = gused + m.global /\ greleasing' = greleasing
        /\ rxq' = [rxq EXCEPT ![p] = Append(@, m)] /\ hand' = hand
    BY <1>9 DEF Deliver
  <2>2. \A q \in Ports : InHand(q)' = InHand(q) /\ PortInHand(q)' = PortInHand(q)
    BY <2>1, HandKept
  <2> HIDE DEF m
  <2>3. rxq' \in [Ports -> Seq(Credits)]
    BY <1>2, <1>3, <2>1, AppendInFunction
  <2>4. rxq'[p] = Append(rxq[p], m) /\ \A q \in Ports \ {p} : rxq'[q] = rxq[q]
    BY <1>2, <2>1
  <2>5. /\ PortAmount(rxq'[p]) = PortAmount(rxq[p]) + m.port
        /\ GlobalAmount(rxq'[p]) = GlobalAmount(rxq[p]) + m.global
    BY <1>2, <1>3, <2>4, AmountAppend
  <2>6. /\ GlobalAmount(rxq'[p]) + InHand(p)' = (GlobalAmount(rxq[p]) + InHand(p)) + m.global
        /\ PortAmount(rxq'[p]) + PortInHand(p)' <= PortAmount(rxq[p]) + PortInHand(p) + m.port
        /\ greleasing' = greleasing + 0
    <3>1. /\ InHand(p)' = 0 /\ PortInHand(p)' = 0 /\ InHand(p) = 0 /\ PortInHand(p) = 0
          /\ greleasing' = greleasing
      BY <1>5, <2>1, <2>2
    <3>2. m.port \in Nat /\ m.global \in Nat
      BY <1>3
    <3> QED  BY <1>4, <2>5, <3>1, <3>2
  <2>7. ReceiveCounts(p, m.global, 0)
    BY <1>6, <2>1, <2>2, <2>3, <2>4, <2>6 DEF m, ReceiveCounts
  <2> QED  BY <1>3, <2>7
<1> QED  BY <1>7, <1>8, <1>9 DEF Receive

\* The limit checks of a data message succeed, because its credits are conserved.
LEMMA ReceiveStep == ASSUME IInv, NEW p \in Ports, Receive(p) PROVE StepOK
<1> DEFINE m == Head(wire[p])
           mp == m.port
           mg == m.global
<1>1. PICK x \in Nat, y \in Nat : ReceiveCounts(p, x, y)
  BY ReceiveFacts
<1>2. /\ \/ x = mg /\ y = 0
         \/ x = 0 /\ y = mg
      /\ gused' = gused + x /\ greleasing' = greleasing + y
  BY <1>1 DEF ReceiveCounts
<1>3. GlobalAmount(rxq'[p]) + InHand(p)' = (GlobalAmount(rxq[p]) + InHand(p)) + x
  BY <1>1 DEF ReceiveCounts
<1>4. PortAmount(rxq'[p]) + PortInHand(p)' <= PortAmount(rxq[p]) + PortInHand(p) + mp
  BY <1>1 DEF ReceiveCounts
<1>5. /\ rxq' \in [Ports -> Seq(Credits)]
       /\ hand' \in Seq(Messages) /\ Len(hand') <= 1
       /\ \A q \in Ports \ {p} : rxq'[q] = rxq[q] /\ InHand(q)' = InHand(q) /\ PortInHand(q)' = PortInHand(q)
  BY <1>1 DEF ReceiveCounts
<1>6. /\ wire[p] # <<>> /\ wire' = [wire EXCEPT ![p] = Tail(@)] /\ error' = ~Acceptable(p, m)
      /\ used' = [used EXCEPT ![p] = @ + mp]
      /\ UNCHANGED <<svars, lost, glost>>
      /\ UNCHANGED <<ret, gret, toReturn, rdropped, gtoReturn, gtotal, usage, allowed,
                     sets, swapping, tasks, events, inhibit, ctl>>
  BY DEF Receive
<1>7. wire[p] \in Seq(Credits) /\ wire \in [Ports -> Seq(Credits)] /\ used \in [Ports -> Nat]
  BY PortTypes, SenderTypes DEF IInv, WireTyped, ReceiverTyped
<1>8. /\ mp \in Nat /\ mg \in Nat
      /\ Inflight(p) = mp + PortAmount(Tail(wire[p])) /\ PortAmount(Tail(wire[p])) \in Nat
      /\ GlobalAmount(wire[p]) = mg + GlobalAmount(Tail(wire[p]))
      /\ GlobalAmount(Tail(wire[p])) \in Nat
  BY <1>6, <1>7, AmountTail DEF Inflight
<1>9. Len(wire[p]) = Len(Tail(wire[p])) + 1 /\ Len(Tail(wire[p])) \in Nat
  BY <1>6, <1>7, AmountTail
<1>10. /\ wire'[p] = Tail(wire[p]) /\ wire' \in [Ports -> Seq(Credits)]
      /\ \A q \in Ports \ {p} : wire'[q] = wire[q]
  BY <1>6, <1>7, TailInFunction
<1>11. Acceptable(p, m) = (gused + mg <= gtotal /\ used[p] + mp <= PortLimit)
  BY DEF Acceptable
<1> HIDE DEF m, mp, mg
<1>12. /\ used'[p] = used[p] + mp /\ used' \in [Ports -> Nat]
      /\ \A q \in Ports \ {p} : used'[q] = used[q]
  BY <1>6, <1>7, <1>8
<1>13. /\ gused \in Nat /\ greleasing \in Nat /\ gtotal \in Nat /\ SumOver(WireGlobal) \in Nat
      /\ SumOver(UsedGlobal) \in Nat /\ SumOver(Queued) \in Nat /\ SumOver(HeldGlobal) \in Nat
      /\ gstore \in Nat /\ gret \in Nat /\ gtoReturn \in Nat /\ glost \in Nat
  BY GlobalTypes DEF IInv
<1>14. mg <= SumOver(WireGlobal)
  <2>1. GlobalAmount(wire[p]) <= SumOver(WireGlobal)
    BY GlobalTypes, SumOverType DEF IInv, WireGlobal
  <2> QED  BY <1>8, <1>13, <2>1
<1>15. error' = FALSE
  <2>1. used[p] + mp <= PortLimit
    BY <1>8, PortFacts DEF PortConservedAt
  <2>2. gused + mg <= gtotal
    BY <1>8, <1>13, <1>14 DEF IInv, GlobalConserved
  <2> QED  BY <1>6, <1>11, <2>1, <2>2
<1>16. WireTyped' /\ ReceiverTyped' /\ ThrottleTyped'
  <2>1. gused' \in Nat /\ greleasing' \in Nat
    BY <1>2, <1>13
  <2>2. WireTyped'
    BY <1>6, <1>10, SenderTypes DEF WireTyped
  <2>3. ReceiverTyped'
    BY <1>6, <1>12, <1>15, <1>5, <2>1, SenderTypes DEF ReceiverTyped
  <2>4. ThrottleTyped'
    BY <1>6, <1>5, SenderTypes DEF ThrottleTyped, Messages
  <2> QED  BY <2>2, <2>3, <2>4
<1>17. /\ TypeOK' /\ OthersSame(p) /\ setup' = setup /\ gstore' = gstore /\ store'[p] = store[p]
       /\ Assigned(p)' = Assigned(p) /\ SumOver(HeldGlobal)' = SumOver(HeldGlobal)
  BY <1>6, <1>10, <1>12, <1>16, <1>5, ReceivingEndpoint
<1>18. /\ SumOver(WireGlobal)' + GlobalAmount(wire[p]) = SumOver(WireGlobal) + GlobalAmount(wire'[p])
       /\ SumOver(UsedGlobal)' + (GlobalAmount(rxq[p]) + InHand(p))
             = SumOver(UsedGlobal) + (GlobalAmount(rxq'[p]) + InHand(p)')
       /\ SumOver(Queued)' + Len(wire[p]) = SumOver(Queued) + Len(wire'[p])
  BY <1>17, SumsFollow, SenderTypes DEF Typed
<1>19. SumOver(WireGlobal)' \in Nat /\ SumOver(UsedGlobal)' \in Nat /\ SumOver(Queued)' \in Nat
  BY <1>17, SumsType, SenderTypes DEF Typed
<1>20. PortStep(p) /\ PortConservedAt(p)'
  <2>1. Inflight(p)' = Inflight(p) - mp /\ mp \in 0..Inflight(p)
    BY <1>8, <1>10 DEF Inflight
  <2>2. PortNumbers(p, store[p], Assigned(p), Inflight(p) - mp, used[p] + mp, toReturn[p], ret[p],
                    lost[p])
    BY <1>6, <1>12, <1>17, <2>1 DEF PortNumbers
  <2> QED  BY <1>17, <2>1, <2>2, PortUse
<1>21. SumOver(WireGlobal)' = SumOver(WireGlobal) - mg
  <2> DEFINE t == GlobalAmount(Tail(wire[p]))
  <2>1. SumOver(WireGlobal)' + (t + mg) = SumOver(WireGlobal) + t /\ t \in Nat
    BY <1>8, <1>10, <1>18
  <2> HIDE DEF t
  <2> QED  BY <1>8, <1>13, <1>19, <2>1, Removed
<1>22. GlobalStep /\ GlobalConserved'
  <2>1. mg \in 0..SumOver(WireGlobal)
    BY <1>8, <1>13, <1>14
  <2>2. CASE x = mg /\ y = 0
    <3>1. GlobalNumbers(gstore, SumOver(HeldGlobal), SumOver(WireGlobal) - mg, gused + mg,
                        greleasing, gtoReturn, gret, glost, gtotal)
      BY <1>2, <1>6, <1>13, <1>17, <1>21, <2>2 DEF GlobalNumbers
    <3> QED  BY <2>1, <3>1, GlobalUse
  <2>3. CASE x = 0 /\ y = mg
    <3>1. GlobalNumbers(gstore, SumOver(HeldGlobal), SumOver(WireGlobal) - mg, gused,
                        greleasing + mg, gtoReturn, gret, glost, gtotal)
      BY <1>2, <1>6, <1>13, <1>17, <1>21, <2>3 DEF GlobalNumbers
    <3> QED  BY <2>1, <3>1, GlobalDiscard
  <2> QED  BY <1>2, <2>2, <2>3
<1>23. GlobalUsed'
  <2> DEFINE t == GlobalAmount(rxq[p]) + InHand(p)
  <2>1. t \in Nat
    BY PortTypes DEF IInv
  <2>2. SumOver(UsedGlobal)' + t = SumOver(UsedGlobal) + (t + x)
    BY <1>18, <1>3
  <2> HIDE DEF t
  <2>3. SumOver(UsedGlobal)' = SumOver(UsedGlobal) + x
    BY <1>2, <1>13, <1>19, <2>1, <2>2, Added
  <2> QED  BY <1>2, <2>3 DEF IInv, GlobalUsed
<1>24. ReceivedAt(p)'
  <2>1. ReceivedAt(p)
    BY PartsByPort DEF IInv
  <2> DEFINE a == PortAmount(rxq[p]) + PortInHand(p)
             b == PortAmount(rxq'[p]) + PortInHand(p)'
  <2>2. a \in Nat /\ a <= used[p] /\ b <= a + mp
    <3>1. PortAmount(rxq[p]) \in Nat /\ PortInHand(p) \in Nat
      BY PortTypes DEF IInv
    <3> QED  BY <1>4, <2>1, <3>1 DEF ReceivedAt
  <2>3. b \in Int
    <3>1. PortAmount(rxq'[p]) \in Nat /\ PortInHand(p)' \in Nat
      BY <1>17, PrimedTypes, SenderTypes
    <3> QED  BY <3>1
  <2>4. used[p] \in Nat
    BY PortTypes DEF IInv
  <2> HIDE DEF a, b
  <2>5. b <= used[p] + mp
    BY <1>8, <2>2, <2>3, <2>4
  <2> QED  BY <1>12, <2>5 DEF ReceivedAt, b
<1>25. QueueBound'
  <2> DEFINE k == Len(Tail(wire[p]))
  <2>1. SumOver(Queued)' + (k + 1) = SumOver(Queued) + k /\ k \in Nat
    BY <1>9, <1>10, <1>18
  <2> HIDE DEF k
  <2>2. SumOver(Queued)' = SumOver(Queued) - 1
    BY <1>13, <1>19, <2>1
  <2> QED  BY <1>13, <2>2, CreditFlowAssumption DEF IInv, QueueBound
<1>26. NoProtocolError'
  BY <1>15 DEF NoProtocolError
<1> QED  BY <1>6, <1>10, <1>12, <1>16, <1>20, <1>22, <1>23, <1>24, <1>25, <1>26, <1>5,
            ReceivingEndpoint

\* y global credits of a port are released, from the queue of its receiver or from the hand
\* of the multiplexer.
LEMMA ReleaseFacts ==
    ASSUME IInv, TypeOK', NEW p \in Ports, OthersSame(p), setup' = setup, NEW y \in Nat,
           GlobalAmount(rxq[p]) + InHand(p) = y + (GlobalAmount(rxq'[p]) + InHand(p)'),
           GlobalAmount(rxq'[p]) + InHand(p)' \in Nat, gused' = gused - y
    PROVE  GlobalUsed' /\ y \in 0..gused
<1> DEFINE t == GlobalAmount(rxq'[p]) + InHand(p)'
<1>1. t \in Nat /\ GlobalAmount(rxq[p]) + InHand(p) = y + t
  OBVIOUS
<1>2. SumOver(UsedGlobal)' + (GlobalAmount(rxq[p]) + InHand(p)) = SumOver(UsedGlobal) + t
  BY SumsFollow, SenderTypes DEF Typed
<1>3. SumOver(UsedGlobal)' \in Nat /\ SumOver(UsedGlobal) \in Nat
  BY SumsType, GlobalTypes, SenderTypes DEF Typed
<1> HIDE DEF t
<1>4. SumOver(UsedGlobal)' + (t + y) = SumOver(UsedGlobal) + t
  BY <1>1, <1>2
<1>5. SumOver(UsedGlobal)' = SumOver(UsedGlobal) - y /\ y \in 0..SumOver(UsedGlobal)
  BY <1>1, <1>3, <1>4, Removed
<1> QED  BY <1>5 DEF IInv, GlobalUsed

\* A message in hand is queued for its receiver, or y credits are released because there is
\* none.
PassOnCounts(p, y) ==
    /\ gused' = gused - y /\ greleasing' = greleasing + y
    /\ GlobalAmount(rxq[p]) + InHand(p) = y + GlobalAmount(rxq'[p])
    /\ PortAmount(rxq'[p]) <= PortAmount(rxq[p]) + PortInHand(p)
    /\ rxq' \in [Ports -> Seq(Credits)]
    /\ \A q \in Ports \ {p} : rxq'[q] = rxq[q]

LEMMA PassOnFacts ==
    ASSUME IInv, NEW p \in Ports, PassOn(p)
    PROVE  \E y \in Nat : PassOnCounts(p, y)
<1> DEFINE m == hand[1].msg
<1>1. hand # <<>> /\ hand[1].port = p /\ Deliver(p, m, gused)
  BY DEF PassOn
<1>2. m \in Credits /\ m.port \in Nat /\ m.global \in Nat
  BY <1>1, HandType DEF Credits
<1>3. rxq[p] \in Seq(Credits) /\ rxq \in [Ports -> Seq(Credits)]
  BY PortTypes, SenderTypes DEF IInv, ReceiverTyped
<1>4. InHand(p) = m.global /\ PortInHand(p) = m.port
  BY <1>1 DEF InHand, PortInHand
<1>5. /\ PortAmount(rxq[p]) \in Nat /\ GlobalAmount(rxq[p]) \in Nat /\ gused \in Nat
      /\ greleasing \in Nat
  BY PortTypes, GlobalTypes DEF IInv
<1> HIDE DEF m
<1>6. CASE rdropped[p]
  <2>1. gused' = gused - m.global /\ greleasing' = greleasing + m.global /\ rxq' = rxq
    BY <1>1, <1>6 DEF Deliver
  <2>2. /\ GlobalAmount(rxq[p]) + InHand(p) = m.global + GlobalAmount(rxq'[p])
        /\ PortAmount(rxq'[p]) <= PortAmount(rxq[p]) + PortInHand(p)
    BY <1>2, <1>4, <1>5, <2>1
  <2>3. PassOnCounts(p, m.global)
    BY <1>3, <2>1, <2>2 DEF PassOnCounts
  <2> QED  BY <1>2, <2>3
<1>7. CASE ~rdropped[p]
  <2>1. gused' = gused /\ greleasing' = greleasing /\ rxq' = [rxq EXCEPT ![p] = Append(@, m)]
    BY <1>1, <1>7 DEF Deliver
  <2>2. rxq' \in [Ports -> Seq(Credits)]
    BY <1>2, <1>3, <2>1, AppendInFunction
  <2>3. rxq'[p] = Append(rxq[p], m) /\ \A q \in Ports \ {p} : rxq'[q] = rxq[q]
    BY <1>3, <2>1
  <2>4. /\ PortAmount(rxq'[p]) = PortAmount(rxq[p]) + m.port
        /\ GlobalAmount(rxq'[p]) = GlobalAmount(rxq[p]) + m.global
    BY <1>2, <1>3, <2>3, AmountAppend
  <2>5. /\ GlobalAmount(rxq[p]) + InHand(p) = 0 + GlobalAmount(rxq'[p])
        /\ PortAmount(rxq'[p]) <= PortAmount(rxq[p]) + PortInHand(p)
        /\ gused' = gused - 0 /\ greleasing' = greleasing + 0
    BY <1>2, <1>4, <1>5, <2>1, <2>4
  <2>6. PassOnCounts(p, 0)
    BY <2>2, <2>3, <2>5 DEF PassOnCounts
  <2> QED  BY <2>6
<1> QED  BY <1>6, <1>7

\* A checked chunk reaches its receiver, or is discarded when there is none.
LEMMA PassOnStep == ASSUME IInv, NEW p \in Ports, PassOn(p) PROVE StepOK
<1>1. /\ hand # <<>> /\ hand[1].port = p /\ hand' = <<>>
      /\ inhibit' = IF usage[p] = "inhibiting" THEN inhibit \cup {p} ELSE inhibit
      /\ UNCHANGED <<svars, lost, glost>>
      /\ UNCHANGED <<wire, ret, gret, used, toReturn, rdropped, gtoReturn, gtotal,
                     error, usage, allowed, sets, swapping, tasks, events, ctl>>
  BY DEF PassOn
<1>2. PICK y \in Nat : PassOnCounts(p, y)
  BY PassOnFacts
<1>3. /\ gused' = gused - y /\ greleasing' = greleasing + y
      /\ rxq' \in [Ports -> Seq(Credits)] /\ \A q \in Ports \ {p} : rxq'[q] = rxq[q]
      /\ GlobalAmount(rxq[p]) + InHand(p) = y + GlobalAmount(rxq'[p])
      /\ PortAmount(rxq'[p]) <= PortAmount(rxq[p]) + PortInHand(p)
  BY <1>2 DEF PassOnCounts
<1>4. \A q \in Ports \ {p} : InHand(q) = 0 /\ PortInHand(q) = 0
  BY <1>1 DEF InHand, PortInHand
<1>5. \A q \in Ports : InHand(q)' = 0 /\ PortInHand(q)' = 0
  BY <1>1 DEF InHand, PortInHand
<1>6. /\ PortAmount(rxq[p]) \in Nat /\ GlobalAmount(rxq[p]) \in Nat /\ InHand(p) \in Nat
      /\ PortInHand(p) \in Nat /\ used[p] \in Nat /\ gused \in Nat /\ greleasing \in Nat
  BY PortTypes, GlobalTypes DEF IInv
<1>7. PortAmount(rxq'[p]) \in Nat /\ GlobalAmount(rxq'[p]) \in Nat
  <2>1. rxq'[p] \in Seq(Credits)
    BY <1>3
  <2> QED  BY <2>1, PartsType
<1>8. y <= gused
  <2>1. GlobalAmount(rxq[p]) + InHand(p) <= SumOver(UsedGlobal)
    BY GlobalTypes, SumOverType DEF IInv, UsedGlobal
  <2> QED  BY <1>3, <1>6, <1>7, <2>1 DEF IInv, GlobalUsed
<1>9. ThrottleTyped'
  <2>1. hand' \in Seq([port : Ports, msg : Credits, tried : BOOLEAN]) /\ Len(hand') <= 1
    BY <1>1
  <2> QED  BY <1>1, <2>1, SenderTypes DEF ThrottleTyped
<1>10. WireTyped' /\ ReceiverTyped'
  <2>1. gused' \in Nat /\ greleasing' \in Nat
    BY <1>3, <1>6, <1>8
  <2> QED  BY <1>1, <1>3, <2>1, SenderTypes DEF WireTyped, ReceiverTyped
<1>11. /\ TypeOK' /\ OthersSame(p) /\ setup' = setup /\ gstore' = gstore /\ store'[p] = store[p]
       /\ Assigned(p)' = Assigned(p) /\ SumOver(HeldGlobal)' = SumOver(HeldGlobal)
  BY <1>1, <1>3, <1>4, <1>5, <1>9, <1>10, ReceivingEndpoint
<1>12. QueueBound' /\ SumOver(WireGlobal)' = SumOver(WireGlobal) /\ Inflight(p)' = Inflight(p)
  BY <1>1, WireQuiet
<1>13. PortStep(p) /\ PortConservedAt(p)'
  <2>1. PortNumbers(p, store[p], Assigned(p), Inflight(p), used[p], toReturn[p], ret[p], lost[p])
    BY <1>1, <1>11, <1>12 DEF PortNumbers
  <2> QED  BY <1>11, <2>1, PortQuiet
<1>14. GlobalUsed' /\ y \in 0..gused
  <2> DEFINE r == GlobalAmount(rxq'[p])
             i == InHand(p)'
  <2>1. r \in Nat /\ i = 0
    BY <1>5, <1>7
  <2>2. GlobalAmount(rxq[p]) + InHand(p) = y + r
    BY <1>3
  <2> HIDE DEF r, i
  <2>3. GlobalAmount(rxq[p]) + InHand(p) = y + (r + i) /\ r + i \in Nat
    BY <2>1, <2>2
  <2> QED  BY <1>3, <1>11, <2>3, ReleaseFacts DEF r, i
<1>15. GlobalStep /\ GlobalConserved'
  <2>1. GlobalNumbers(gstore, SumOver(HeldGlobal), SumOver(WireGlobal), gused - y,
                      greleasing + y, gtoReturn, gret, glost, gtotal)
    BY <1>1, <1>3, <1>11, <1>12 DEF GlobalNumbers
  <2> QED  BY <1>14, <2>1, GlobalRelease
<1>16. ReceivedAt(p)'
  <2>1. PortAmount(rxq[p]) + PortInHand(p) <= used[p]
    BY PartsByPort DEF IInv, ReceivedAt
  <2>2. PortAmount(rxq'[p]) + 0 <= used[p]
    BY <1>3, <1>6, <1>7, <2>1
  <2> QED  BY <1>1, <1>5, <2>2 DEF ReceivedAt
<1>17. NoProtocolError'
  BY <1>1 DEF IInv, NoProtocolError
<1> QED  BY <1>1, <1>3, <1>4, <1>5, <1>9, <1>10, <1>12, <1>13, <1>14, <1>15, <1>16, <1>17,
            ReceivingEndpoint

\* start_return: received credits join the batch, and a full batch is returned.
LEMMA ConsumeStep == ASSUME IInv, NEW p \in Ports, Consume(p) PROVE StepOK
<1> DEFINE m == Head(rxq[p])
           mp == m.port
           mg == m.global
           batch == toReturn[p] + mp
           kept == IF batch >= ReturnThreshold THEN 0 ELSE batch
           sent == IF batch >= ReturnThreshold THEN batch ELSE 0
<1>1. /\ rxq[p] # <<>> /\ rxq' = [rxq EXCEPT ![p] = Tail(@)]
      /\ used' = [used EXCEPT ![p] = @ - mp]
      /\ toReturn' = [toReturn EXCEPT ![p] = kept]
      /\ ret' = [ret EXCEPT ![p] = @ + sent]
      /\ gused' = gused - mg /\ greleasing' = greleasing + mg
      /\ swapping' = [swapping EXCEPT ![p] = Releases(Unreceived(p) - Amount(m)) /\ allowed[p]]
      /\ UNCHANGED <<svars, lost, glost>>
      /\ UNCHANGED <<wire, gret, rdropped, gtoReturn, gtotal, error, usage, allowed, sets,
                     tasks, events, hand, inhibit, ctl>>
  BY DEF Consume
<1>2. rxq[p] \in Seq(Credits) /\ rxq \in [Ports -> Seq(Credits)]
  BY PortTypes, SenderTypes DEF IInv, ReceiverTyped
<1>3. /\ mp \in Nat /\ mg \in Nat
      /\ PortAmount(rxq[p]) = mp + PortAmount(Tail(rxq[p])) /\ PortAmount(Tail(rxq[p])) \in Nat
      /\ GlobalAmount(rxq[p]) = mg + GlobalAmount(Tail(rxq[p]))
      /\ GlobalAmount(Tail(rxq[p])) \in Nat
  BY <1>1, <1>2, AmountTail
<1>4. /\ rxq' \in [Ports -> Seq(Credits)] /\ rxq'[p] = Tail(rxq[p])
      /\ \A q \in Ports \ {p} : rxq'[q] = rxq[q]
  BY <1>1, <1>2, TailInFunction
<1>5. swapping' \in [Ports -> BOOLEAN]
  <2>1. (Releases(Unreceived(p) - Amount(m)) /\ allowed[p]) \in BOOLEAN
    OBVIOUS
  <2> HIDE DEF m
  <2> QED  BY <1>1, <2>1, SenderTypes DEF ThrottleTyped
<1> HIDE DEF m, mp, mg
<1>6. /\ used[p] \in Nat /\ toReturn[p] \in Nat /\ ret[p] \in Nat /\ PortInHand(p) \in Nat
      /\ ReturnThreshold \in Nat /\ gused \in Nat /\ greleasing \in Nat
  BY PortTypes, GlobalTypes, ConstantsType DEF IInv
<1>7. mp \in 0..used[p] /\ PortAmount(Tail(rxq[p])) + PortInHand(p) <= used[p] - mp
  <2>1. PortAmount(rxq[p]) + PortInHand(p) <= used[p]
    BY PartsByPort DEF IInv, ReceivedAt
  <2> QED  BY <1>3, <1>6, <2>1
<1>8. kept \in Nat /\ sent \in Nat /\ used[p] - mp \in Nat /\ ret[p] + sent \in Nat
  BY <1>3, <1>6, <1>7
<1>9. used \in [Ports -> Nat] /\ toReturn \in [Ports -> Nat] /\ ret \in [Ports -> Nat]
  BY SenderTypes DEF ReceiverTyped, WireTyped
<1>10. /\ used' \in [Ports -> Nat] /\ toReturn' \in [Ports -> Nat] /\ ret' \in [Ports -> Nat]
       /\ used'[p] = used[p] - mp /\ toReturn'[p] = kept /\ ret'[p] = ret[p] + sent
       /\ \A q \in Ports \ {p} : used'[q] = used[q] /\ toReturn'[q] = toReturn[q] /\ ret'[q] = ret[q]
  <2> HIDE DEF kept, sent
  <2> QED  BY <1>1, <1>8, <1>9
<1>11. \A q \in Ports : InHand(q)' = InHand(q) /\ PortInHand(q)' = PortInHand(q)
  BY <1>1, HandKept
<1>12. mg <= gused
  <2>1. GlobalAmount(rxq[p]) + InHand(p) <= SumOver(UsedGlobal)
    BY GlobalTypes, SumOverType DEF IInv, UsedGlobal
  <2>2. InHand(p) \in Nat
    BY PortTypes DEF IInv
  <2> QED  BY <1>3, <1>6, <2>1, <2>2 DEF IInv, GlobalUsed
<1>13. WireTyped' /\ ReceiverTyped' /\ ThrottleTyped'
  <2>1. gused' \in Nat /\ greleasing' \in Nat
    BY <1>1, <1>3, <1>6, <1>12
  <2>2. WireTyped' /\ ReceiverTyped'
    BY <1>1, <1>4, <1>10, <2>1, SenderTypes DEF WireTyped, ReceiverTyped
  <2>3. ThrottleTyped'
    BY <1>1, <1>5, SenderTypes DEF ThrottleTyped
  <2> QED  BY <2>2, <2>3
<1>14. /\ TypeOK' /\ OthersSame(p) /\ setup' = setup /\ gstore' = gstore /\ store'[p] = store[p]
       /\ Assigned(p)' = Assigned(p) /\ SumOver(HeldGlobal)' = SumOver(HeldGlobal)
  BY <1>1, <1>4, <1>10, <1>11, <1>13, ReceivingEndpoint
<1>15. QueueBound' /\ SumOver(WireGlobal)' = SumOver(WireGlobal) /\ Inflight(p)' = Inflight(p)
  BY <1>1, WireQuiet
<1>16. PortStep(p) /\ PortConservedAt(p)'
  <2>1. PortNumbers(p, store[p], Assigned(p), Inflight(p), used[p] - mp,
                    IF toReturn[p] + mp >= ReturnThreshold THEN 0 ELSE toReturn[p] + mp,
                    ret[p] + IF toReturn[p] + mp >= ReturnThreshold THEN toReturn[p] + mp ELSE 0, lost[p])
    BY <1>1, <1>10, <1>14, <1>15 DEF PortNumbers
  <2> QED  BY <1>7, <1>14, <2>1, PortReturn
<1>17. GlobalUsed' /\ mg \in 0..gused
  <2> DEFINE r == GlobalAmount(rxq'[p])
             i == InHand(p)
  <2>1. r \in Nat /\ i \in Nat /\ InHand(p)' = i /\ GlobalAmount(rxq[p]) = mg + r
    BY <1>3, <1>4, <1>11, PortTypes DEF IInv
  <2> HIDE DEF r, i
  <2>2. GlobalAmount(rxq[p]) + i = mg + (r + i) /\ r + i \in Nat
    BY <1>3, <2>1
  <2> QED  BY <1>1, <1>3, <1>14, <2>1, <2>2, ReleaseFacts DEF r, i
<1>18. GlobalStep /\ GlobalConserved'
  <2>1. GlobalNumbers(gstore, SumOver(HeldGlobal), SumOver(WireGlobal), gused - mg,
                      greleasing + mg, gtoReturn, gret, glost, gtotal)
    BY <1>1, <1>14, <1>15 DEF GlobalNumbers
  <2> QED  BY <1>17, <2>1, GlobalRelease
<1>19. ReceivedAt(p)'
  BY <1>4, <1>7, <1>10, <1>11 DEF ReceivedAt
<1>20. NoProtocolError'
  BY <1>1 DEF IInv, NoProtocolError
<1> QED  BY <1>1, <1>4, <1>10, <1>11, <1>13, <1>15, <1>16, <1>17, <1>18, <1>19, <1>20,
            ReceivingEndpoint

\* A dropped receiver releases the global credits of the data it did not take.
LEMMA DropReceiverStep == ASSUME IInv, NEW p \in Ports, DropReceiver(p) PROVE StepOK
<1> DEFINE mg == GlobalAmount(rxq[p])
<1>1. /\ rdropped' = [rdropped EXCEPT ![p] = TRUE] /\ rxq' = [rxq EXCEPT ![p] = <<>>]
      /\ gused' = gused - mg /\ greleasing' = greleasing + mg
      /\ UNCHANGED <<svars, lost, glost>>
      /\ UNCHANGED <<wire, ret, gret, used, toReturn, gtoReturn, gtotal, error>>
      /\ tasks' = [tasks EXCEPT ![p] = <<>>]
      /\ UNCHANGED <<usage, allowed, sets, swapping, events, hand, inhibit, ctl>>
  BY DEF DropReceiver
<1>2. rxq \in [Ports -> Seq(Credits)] /\ rdropped \in [Ports -> BOOLEAN]
  BY SenderTypes DEF ReceiverTyped
<1>3. /\ rxq' \in [Ports -> Seq(Credits)] /\ rxq'[p] = <<>>
      /\ \A q \in Ports \ {p} : rxq'[q] = rxq[q]
      /\ rdropped' \in [Ports -> BOOLEAN]
  <2>1. <<>> \in Seq(Credits)
    OBVIOUS
  <2> QED  BY <1>1, <1>2, <2>1
<1>4. PortAmount(rxq'[p]) = 0 /\ GlobalAmount(rxq'[p]) = 0
  BY <1>3, AmountEmpty
<1>5. /\ mg \in Nat /\ gused \in Nat /\ greleasing \in Nat /\ PortAmount(rxq[p]) \in Nat
      /\ PortInHand(p) \in Nat
      /\ used[p] \in Nat /\ InHand(p) \in Nat
  BY PortTypes, GlobalTypes DEF IInv
<1>6. mg <= gused
  <2>1. mg + InHand(p) <= SumOver(UsedGlobal)
    BY GlobalTypes, SumOverType DEF IInv, UsedGlobal
  <2> QED  BY <1>5, <2>1 DEF IInv, GlobalUsed
<1>7. \A q \in Ports : InHand(q)' = InHand(q) /\ PortInHand(q)' = PortInHand(q)
  BY <1>1, HandKept
<1>8. WireTyped' /\ ReceiverTyped' /\ ThrottleTyped'
  <2>1. gused' \in Nat /\ greleasing' \in Nat
    <3> HIDE DEF mg
    <3> QED  BY <1>1, <1>5, <1>6
  <2>2. WireTyped' /\ ReceiverTyped'
    BY <1>1, <1>3, <2>1, SenderTypes DEF WireTyped, ReceiverTyped
  <2>3. ThrottleTyped'
    <3>1. tasks \in [Ports -> Seq({"allow", "inhibit"})] /\ <<>> \in Seq({"allow", "inhibit"})
      BY SenderTypes DEF ThrottleTyped
    <3>2. tasks' \in [Ports -> Seq({"allow", "inhibit"})]
      BY <1>1, <3>1
    <3> QED  BY <1>1, <3>2, SenderTypes DEF ThrottleTyped
  <2> QED  BY <2>2, <2>3
<1>9. /\ TypeOK' /\ OthersSame(p) /\ setup' = setup /\ gstore' = gstore /\ store'[p] = store[p]
      /\ Assigned(p)' = Assigned(p) /\ SumOver(HeldGlobal)' = SumOver(HeldGlobal)
  BY <1>1, <1>3, <1>7, <1>8, ReceivingEndpoint
<1>10. QueueBound' /\ SumOver(WireGlobal)' = SumOver(WireGlobal) /\ Inflight(p)' = Inflight(p)
  BY <1>1, WireQuiet
<1>11. PortStep(p) /\ PortConservedAt(p)'
  <2>1. PortNumbers(p, store[p], Assigned(p), Inflight(p), used[p], toReturn[p], ret[p], lost[p])
    BY <1>1, <1>9, <1>10 DEF PortNumbers
  <2> QED  BY <1>9, <2>1, PortQuiet
<1>12. GlobalUsed' /\ mg \in 0..gused
  <2> DEFINE r == GlobalAmount(rxq'[p])
             i == InHand(p)
  <2>1. r = 0 /\ i \in Nat /\ InHand(p)' = i
    BY <1>4, <1>5, <1>7
  <2> HIDE DEF mg, r, i
  <2>2. mg + i = mg + (r + i) /\ r + i \in Nat
    BY <1>5, <2>1
  <2> QED  BY <1>1, <1>5, <1>9, <2>1, <2>2, ReleaseFacts DEF mg, r, i
<1>13. GlobalStep /\ GlobalConserved'
  <2>1. GlobalNumbers(gstore, SumOver(HeldGlobal), SumOver(WireGlobal), gused - mg,
                      greleasing + mg, gtoReturn, gret, glost, gtotal)
    BY <1>1, <1>9, <1>10 DEF GlobalNumbers
  <2> QED  BY <1>12, <2>1, GlobalRelease
<1>14. ReceivedAt(p)'
  <2>1. PortAmount(rxq[p]) + PortInHand(p) <= used[p]
    BY PartsByPort DEF IInv, ReceivedAt
  <2>2. 0 + PortInHand(p) <= used[p]
    BY <1>5, <2>1
  <2> QED  BY <1>1, <1>4, <1>7, <2>2 DEF ReceivedAt
<1>15. NoProtocolError'
  BY <1>1 DEF IInv, NoProtocolError
<1> QED  BY <1>1, <1>3, <1>7, <1>8, <1>10, <1>11, <1>12, <1>13, <1>14, <1>15, ReceivingEndpoint

\* The global monitor collects released credits, returns them and changes its size.
LEMMA CollectStep == ASSUME IInv, Collect PROVE StepOK
<1>1. PICK n \in 1..greleasing : greleasing' = greleasing - n /\ gtoReturn' = gtoReturn + n
  BY DEF Collect
<1>2. /\ UNCHANGED <<svars, wire, ret, gret, rxq, used, toReturn, rdropped, gused>>
      /\ UNCHANGED <<gtotal, error, tvars, lost, glost>>
  BY DEF Collect
<1>3. greleasing \in Nat /\ gtoReturn \in Nat /\ n \in 0..greleasing
  BY GlobalTypes DEF IInv
<1>4. greleasing' \in Nat /\ gtoReturn' \in Nat
  BY <1>1, <1>3
<1>5. TypeOK'
  <2>1. SenderTyped' /\ WireTyped'
    BY <1>2, SenderTypes DEF SenderTyped, WireTyped, svars, PortLimit
  <2>2. ReceiverTyped'
    BY <1>2, <1>4, SenderTypes DEF ReceiverTyped
  <2>3. ThrottleTyped'
    BY <1>2, SenderTypes DEF ThrottleTyped, tvars
  <2> QED  BY <2>1, <2>2, <2>3 DEF TypeOK, SenderTyped, WireTyped, ReceiverTyped, ThrottleTyped
<1>6. /\ UNCHANGED <<setup, store, held, msg, wire, ret, rxq, used, toReturn, error, lost, pc,
                     left, hand>>
      /\ UNCHANGED <<gstore, gret, gused, glost, gtotal>>
  BY <1>2 DEF svars, tvars
<1>7. GlobalStep /\ GlobalConserved'
  <2>1. GlobalNumbers(gstore, SumOver(HeldGlobal), SumOver(WireGlobal), gused,
                      greleasing - n, gtoReturn + n, gret, glost, gtotal)
    BY <1>1, <1>6, GlobalSums DEF GlobalNumbers
  <2> QED  BY <1>3, <2>1, GlobalCollect
<1> QED  BY <1>5, <1>6, <1>7, GlobalOnly

LEMMA ReturnToRemoteStep ==
    ASSUME IInv, NEW target \in Sizes, NEW threshold \in 1..target, NEW force \in BOOLEAN,
           ReturnToRemote(target, threshold, force)
    PROVE  StepOK
<1> DEFINE delta == IF target >= gtotal THEN target - gtotal ELSE -Least(gtotal - target, gtoReturn)
           pool  == gtoReturn + delta
           send  == delta # 0 \/ force \/ pool >= threshold
<1>1. /\ gtotal' = gtotal + delta /\ gtoReturn' = IF send THEN 0 ELSE pool
      /\ gret' = gret + IF send THEN pool ELSE 0
      /\ UNCHANGED <<svars, wire, ret, rxq, used, toReturn, rdropped, gused>>
      /\ UNCHANGED <<greleasing, error, tvars, lost, glost>>
  BY DEF ReturnToRemote
<1>2. /\ gtotal \in Nat /\ gtoReturn \in Nat /\ gret \in Nat /\ target \in Nat
      /\ gstore \in Nat /\ gused \in Nat /\ greleasing \in Nat /\ glost \in Nat
      /\ SumOver(HeldGlobal) \in Nat /\ SumOver(WireGlobal) \in Nat
  BY GlobalTypes, CreditFlowAssumption DEF IInv
<1>3. delta \in Int /\ pool \in Nat /\ gtotal + delta \in Nat
  <2>1. gtoReturn <= gtotal
    BY <1>2 DEF IInv, GlobalConserved
  <2> QED  BY <1>2, <2>1 DEF Least
<1>4. delta = GlobalPool!Resize(target)
  BY DEF GlobalPool!Resize, GlobalPool!SmallerOf, Least
<1>5. /\ UNCHANGED <<setup, store, held, msg, wire, ret, rxq, used, toReturn, error, lost, pc,
                     left, hand>>
      /\ UNCHANGED <<gstore, greleasing, gused, glost>>
  BY <1>1 DEF svars, tvars
<1>6. SumOver(HeldGlobal)' = SumOver(HeldGlobal) /\ SumOver(WireGlobal)' = SumOver(WireGlobal)
  BY <1>5, GlobalSums
<1> HIDE DEF delta
<1>7. GlobalConserved'
  <2>1. GlobalConserved
    BY DEF IInv
  <2>2. CASE send
    <3>1. gtoReturn' = 0 /\ gret' = gret + (gtoReturn + delta)
      BY <1>1, <2>2
    <3> QED  BY <1>1, <1>2, <1>3, <1>5, <1>6, <2>1, <3>1 DEF GlobalConserved
  <2>3. CASE ~send
    <3>1. gtoReturn' = gtoReturn + delta /\ gret' = gret
      BY <1>1, <1>2, <2>3
    <3> QED  BY <1>1, <1>2, <1>3, <1>5, <1>6, <2>1, <3>1 DEF GlobalConserved
  <2> QED  BY <2>2, <2>3
<1>8. GlobalStep
  <2>1. GlobalPool!ReturnToRemote(target, threshold, force)
    <3>1. UNCHANGED <<SumOver(HeldGlobal), SumOver(WireGlobal)>>
      BY <1>6
    <3>2. CASE send
      BY <1>1, <1>4, <1>5, <3>1, <3>2 DEF GlobalPool!ReturnToRemote, HeldGlobal, WireGlobal
    <3>3. CASE ~send
      <4>1. gret' = gret
        BY <1>1, <1>2, <3>3
      <4> QED  BY <1>1, <1>4, <1>5, <3>1, <3>3, <4>1 DEF GlobalPool!ReturnToRemote, HeldGlobal,
                  WireGlobal
    <3> QED  BY <3>2, <3>3
  <2> QED  BY <2>1 DEF GlobalStep, GlobalPool!Next
<1>9. TypeOK'
  <2>1. gtotal' \in Nat /\ gtoReturn' \in Nat /\ gret' \in Nat
    <3> HIDE DEF send, pool
    <3> QED  BY <1>1, <1>2, <1>3
  <2>2. SenderTyped'
    BY <1>1, SenderTypes DEF SenderTyped, svars, PortLimit
  <2>3. ReceiverTyped' /\ WireTyped'
    BY <1>1, <2>1, SenderTypes DEF ReceiverTyped, WireTyped
  <2>4. ThrottleTyped'
    BY <1>1, SenderTypes DEF ThrottleTyped, tvars
  <2> QED  BY <2>2, <2>3, <2>4 DEF TypeOK, SenderTyped, WireTyped, ReceiverTyped, ThrottleTyped
<1> QED  BY <1>5, <1>7, <1>8, <1>9, GlobalOnly

LEMMA ResizeStep == ASSUME IInv, Resize PROVE StepOK
<1>1. setup.sizes \subseteq Sizes
  BY ConstantsType DEF IInv
<1> QED  BY <1>1, ReturnToRemoteStep DEF Resize

----------------------------------------------------------------------------
(* The invariant holds, and every step is one of the pools *)

\* No credit is away from its store at the start.
LEMMA InitIInv == Init => IInv
<1> SUFFICES ASSUME Init PROVE IInv
  OBVIOUS
<1>1. setup \in Setups
  BY DEF Init
<1>2. PortLimit \in Nat \ {0} /\ ReturnThreshold \in Nat \ {0} /\ InitialSize \in Nat
  BY <1>1, ConstantsType, CreditFlowAssumption
<1>3. None \in Credits /\ None.port = 0 /\ None.global = 0
  BY DEF None, Credits
<1>4. TypeOK
  <2>1. SenderTyped
    BY <1>2, <1>3 DEF Init, SenderTyped
  <2>2. WireTyped /\ ReceiverTyped
    <3>1. <<>> \in Seq(Credits)
      OBVIOUS
    <3> QED  BY <1>2, <3>1 DEF Init, WireTyped, ReceiverTyped
  <2>3. ThrottleTyped
    BY DEF Init, ThrottleTyped
  <2> QED  BY <2>1, <2>2, <2>3 DEF TypeOK, SenderTyped, WireTyped, ReceiverTyped, ThrottleTyped
<1>5. \A p \in Ports : /\ held[p] = None /\ msg[p] = None /\ wire[p] = <<>> /\ rxq[p] = <<>>
                       /\ store[p] = PortLimit /\ used[p] = 0 /\ toReturn[p] = 0 /\ ret[p] = 0
                       /\ lost[p] = 0 /\ left[p] = 0
  BY DEF Init
<1>6. \A p \in Ports : InHand(p) = 0 /\ PortInHand(p) = 0
  BY EmptyHand DEF Init
<1>7. \A p \in Ports : Assigned(p) = 0 /\ Inflight(p) = 0 /\ PortAmount(rxq[p]) = 0
  BY <1>3, <1>5, AmountEmpty DEF Assigned, Inflight
<1>8. \A p \in Ports : OperationAt(p) /\ PortConservedAt(p) /\ ReceivedAt(p)
  <2>1. \A p \in Ports : OperationAt(p)
    BY <1>3, <1>5 DEF OperationAt, Amount
  <2>2. \A p \in Ports : PortConservedAt(p)
    BY <1>2, <1>5, <1>7 DEF PortConservedAt
  <2>3. \A p \in Ports : ReceivedAt(p)
    BY <1>5, <1>6, <1>7 DEF ReceivedAt
  <2> QED  BY <2>1, <2>2, <2>3
<1>9. /\ SumOver(HeldGlobal) = 0 /\ SumOver(WireGlobal) = 0
      /\ SumOver(UsedGlobal) = 0 /\ SumOver(Queued) = 0
  <2>1. \A p \in Ports : HeldGlobal[p] = 0 /\ WireGlobal[p] = 0 /\ UsedGlobal[p] = 0 /\ Queued[p] = 0
    BY <1>3, <1>5, <1>6, AmountEmpty DEF HeldGlobal, WireGlobal, UsedGlobal, Queued
  <2> QED  BY <1>1, <1>4, <2>1, GlobalTypes, SumOverType
<1>10. GlobalConserved /\ GlobalUsed /\ QueueBound /\ NoProtocolError
  BY <1>2, <1>9, CreditFlowAssumption DEF Init, GlobalConserved, GlobalUsed, QueueBound,
     NoProtocolError
<1> QED  BY <1>1, <1>4, <1>8, <1>10, PartsByPort DEF IInv

\* Every step of the endpoints keeps the invariant and is a step of the pools.
LEMMA StepIsOK == ASSUME IInv, Next PROVE StepOK
<1>1. /\ setup.ports \subseteq Ports /\ setup.sends \subseteq Nat \ {0}
      /\ setup.connects \subseteq Nat \ {0}
  BY ConstantsType DEF IInv
<1>2. ASSUME NEW p \in setup.ports, Sending(p) PROVE StepOK
  <2>1. p \in Ports
    BY <1>1
  <2>2. CASE StartSend(p)
    BY <1>1, <2>1, <2>2, StartStep DEF StartSend
  <2>3. CASE StartConnect(p)
    <3>1. \A n \in setup.connects : n * PortSize \in Nat
      BY <1>1 DEF PortSize
    <3> QED  BY <2>1, <2>3, <3>1, StartStep DEF StartConnect
  <2>4. CASE \E n \in setup.sends : TrySend(p, n)
    BY <1>1, <2>1, <2>4, TrySendStep
  <2>5. CASE Request(p) \/ WaitPort(p) \/ WaitAllowed(p) \/ WaitGlobal(p)
    BY <2>1, <2>5, RequestStep, WaitPortStep, WaitAllowedStep, WaitGlobalStep
  <2>6. CASE FailClosed(p) \/ Cancel(p) \/ Enqueue(p)
    BY <2>1, <2>6, FailClosedStep, CancelStep, EnqueueStep
  <2>7. CASE ProvidePort(p) \/ SetUseGlobal(p) \/ ReceiveFinish(p)
    BY <2>1, <2>7, ProvidePortStep, SetUseGlobalStep, ReceiveFinishStep
  <2> QED  BY <1>2, <2>2, <2>3, <2>4, <2>5, <2>6, <2>7 DEF Sending
<1>3. ASSUME NEW p \in setup.ports, Receiving(p) PROVE StepOK
  <2>1. p \in Ports
    BY <1>1
  <2>2. CASE Receive(p) \/ StartInhibiting(p) \/ PassOn(p) \/ SendInhibit(p) \/ SendChange(p)
    BY <2>1, <2>2, ReceiveStep, StartInhibitingStep, PassOnStep, SendInhibitStep, SendChangeStep
  <2>3. CASE Consume(p) \/ SwapActive(p) \/ SetAllowed(p) \/ Ready(p) \/ DropReceiver(p)
    BY <2>1, <2>3, ConsumeStep, SwapActiveStep, SetAllowedStep, ReadyStep, DropReceiverStep
  <2> QED  BY <1>3, <2>2, <2>3 DEF Receiving
<1>4. CASE ProvideGlobal \/ Collect \/ Resize
  BY <1>4, ProvideGlobalStep, CollectStep, ResizeStep
<1> QED  BY <1>2, <1>3, <1>4 DEF Next

LEMMA StutterIsOK == ASSUME IInv, UNCHANGED vars PROVE StepOK
<1>1. /\ UNCHANGED <<svars, wire, ret, gret, rxq, used, toReturn, rdropped, gused, greleasing,
                     gtoReturn, gtotal, error, lost, glost>>
      /\ UNCHANGED tvars
  BY DEF vars, rvars
<1>2. ThrottleTyped' /\ UNCHANGED hand
  BY <1>1, SenderTypes DEF ThrottleTyped, tvars
<1> QED  BY <1>1, <1>2, HandKept, QuietReceiving

LEMMA NextIInv == IInv /\ [Next]_vars => StepOK
  BY StepIsOK, StutterIsOK

\* TypeOK and the conservation of all credits hold in every reachable state: whatever
\* the senders, the receivers, the sizer and the two multiplexers do, in any order, the
\* credits of a port add up to port_receive_buffer and the global ones to
\* GlobalCreditMonitor.total.
THEOREM Invariance == Spec => []IInv
<1>1. IInv /\ [Next]_vars => IInv'
  BY NextIInv DEF StepOK
<1> QED  BY <1>1, InitIInv, PTL DEF Spec

\* None of the limit checks of handle_received_msg (use_credits of the port and of the
\* global monitor) ever fails between two correct endpoints.
THEOREM ConnectionNeverFails == Spec => []NoProtocolError
<1>1. IInv => NoProtocolError
  BY DEF IInv
<1> QED  BY <1>1, Invariance, PTL

\* Every step of the two endpoints is, for each port, a step of its credit pool or
\* leaves the pool alone: what is proved of PortCreditPool holds of the code's credits.
THEOREM PortPoolsImplemented == Spec => ImplementsPortPools
<1>1. Init => \A p \in Ports, limit \in Limits : limit = PortLimit => PortPool(p, limit)!Init
  <2> SUFFICES ASSUME Init, NEW p \in Ports, NEW limit \in Limits, limit = PortLimit
               PROVE  PortPool(p, limit)!Init
    OBVIOUS
  <2>1. /\ held[p] = None /\ msg[p] = None /\ wire[p] = <<>> /\ store[p] = limit /\ used[p] = 0
        /\ toReturn[p] = 0 /\ ret[p] = 0 /\ lost[p] = 0
    BY DEF Init
  <2>2. held[p].port + msg[p].port = 0 /\ PortAmount(wire[p]) = 0
    BY <2>1, AmountEmpty DEF None
  <2> QED  BY <2>1, <2>2 DEF PortPool!Init
<1>2. IInv /\ [Next]_vars => \A p \in Ports, limit \in Limits :
        limit = PortLimit => PortPool(p, limit)!Next \/ UNCHANGED PortPool(p, limit)!vars
  BY NextIInv DEF StepOK, PortStep
<1>3. IInv /\ [Next]_vars => [\A p \in Ports, limit \in Limits :
        limit = PortLimit => PortPool(p, limit)!Next \/ UNCHANGED PortPool(p, limit)!vars]_vars
  BY <1>2
<1> QED  BY <1>1, <1>3, Invariance, PTL DEF Spec, ImplementsPortPools

\* The global credits that the ports share implement the pool of GlobalCreditPool, also
\* while the sizer changes their number.
THEOREM GlobalPoolImplemented == Spec => ImplementsGlobalPool
<1>1. Init => GlobalPool!Init
  <2> SUFFICES ASSUME Init PROVE GlobalPool!Init
    OBVIOUS
  <2>1. IInv /\ setup \in Setups /\ TypeOK
    BY InitIInv DEF IInv
  <2>2. SumOver(HeldGlobal) = 0 /\ SumOver(WireGlobal) = 0
    <3>1. \A p \in Ports : held[p] = None /\ msg[p] = None /\ wire[p] = <<>>
      BY DEF Init
    <3>2. \A p \in Ports : HeldGlobal[p] = 0 /\ WireGlobal[p] = 0
      BY <3>1, AmountEmpty DEF HeldGlobal, WireGlobal, None
    <3> QED  BY <2>1, <3>2, GlobalTypes, SumOverType
  <2> QED  BY <2>2 DEF Init, GlobalPool!Init, HeldGlobal, WireGlobal
<1>2. IInv /\ [Next]_vars => [GlobalPool!Next]_(GlobalPool!vars)
  BY NextIInv DEF StepOK, GlobalStep
<1> QED  BY <1>1, <1>2, Invariance, PTL DEF Spec, ImplementsGlobalPool, GlobalPool!Spec
============================================================================
