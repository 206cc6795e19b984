------------------------- MODULE CreditPools_proofs -------------------------
(***************************************************************************)
(* Credit conservation of a port, for every size of the receive buffer,    *)
(* and of the buffer that all ports share, for every set of sizes.         *)
(***************************************************************************)
EXTENDS PortCreditPool, TLAPS

\* Of the shared credits only.
CONSTANTS Sizes, InitialSize
VARIABLES releasing, total

Global == INSTANCE GlobalCreditPool

----------------------------------------------------------------------------
(* The credits of a port *)

\* The return threshold is positive and, in a buffer of any allowed size, leaves
\* the sender at least the four credits of a port request.
LEMMA ThresholdBounds ==
    ASSUME PortLimitAssumption
    PROVE  /\ ReturnThreshold \in Nat
           /\ ReturnThreshold >= 1
           /\ PortLimit - ReturnThreshold + 1 >= PortSize
  BY DEF PortLimitAssumption, ReturnThreshold, MaxOf, PortSize

LEMMA InitIInv == ASSUME PortLimitAssumption PROVE Init => IInv
  BY ThresholdBounds
  DEF PortLimitAssumption, Init, IInv, TypeOK, Conservation, BatchBound

\* Every operation on the credits of a port keeps the inductive invariant.
LEMMA StepIInv == ASSUME PortLimitAssumption PROVE IInv /\ [Next]_vars => IInv'
<1> SUFFICES ASSUME IInv, [Next]_vars PROVE IInv'
  OBVIOUS
<1> USE ThresholdBounds DEF PortLimitAssumption, IInv, TypeOK, Conservation, BatchBound
<1>1. ASSUME NEW n \in 1..PortLimit, Assign(n) PROVE IInv'
  BY <1>1 DEF Assign
<1>2. ASSUME NEW n \in 1..PortLimit, Send(n) PROVE IInv'
  BY <1>2 DEF Send
<1>3. ASSUME NEW n \in 1..PortLimit, Provide(n) PROVE IInv'
  BY <1>3 DEF Provide
<1>4. ASSUME NEW n \in 1..PortLimit, UseCredits(n) PROVE IInv'
  BY <1>4 DEF UseCredits
<1>5. ASSUME NEW n \in 1..PortLimit, StartReturn(n) PROVE IInv'
  <2>1. CASE toReturn + n >= ReturnThreshold
    BY <1>5, <2>1 DEF StartReturn
  <2>2. CASE ~(toReturn + n >= ReturnThreshold)
    BY <1>5, <2>2 DEF StartReturn
  <2>3. QED BY <2>1, <2>2
<1>6. ASSUME NEW l \in 0..PortLimit, Abandon(l) PROVE IInv'
  BY <1>6 DEF Abandon
<1>7. ASSUME NEW s \in 0..PortLimit, NEW l \in 0..PortLimit, TrySend(s, l) PROVE IInv'
  BY <1>7 DEF TrySend
<1>8. CASE UNCHANGED vars
  BY <1>8 DEF vars
<1>9. QED
  BY <1>1, <1>2, <1>3, <1>4, <1>5, <1>6, <1>7, <1>8 DEF Next

\* The places of a credit and their sum are as described, in every reachable state.
THEOREM CreditInvariant == ASSUME PortLimitAssumption PROVE Spec => []IInv
<1>1. QED
  BY InitIInv, StepIInv, PTL DEF Spec

\* Credits of a port are neither duplicated nor forgotten (AssignedCredits,
\* CreditProvider::provide, PortCreditMonitor::use_credits, start_return).
THEOREM CreditConservation == ASSUME PortLimitAssumption PROVE Spec => []Conservation
<1>1. IInv => Conservation
  BY DEF IInv
<1>2. QED
  BY <1>1, CreditInvariant, PTL

\* The limit check of PortCreditMonitor::use_credits never fails for a correct peer,
\* whatever the size of the receive buffer.
THEOREM NeverOverrun == ASSUME PortLimitAssumption PROVE Spec => []NoOverrun
<1>1. IInv => NoOverrun
  BY DEF PortLimitAssumption, IInv, TypeOK, Conservation, NoOverrun
<1>2. QED
  BY <1>1, CreditInvariant, PTL

\* Batching returned credits never leaves an idle port with fewer than four credits,
\* whatever the size of the receive buffer (PortCreditReturner::start_return).
THEOREM NeverStarved == ASSUME PortLimitAssumption PROVE Spec => []IdleCredits
<1>1. IInv => IdleCredits
  BY ThresholdBounds
  DEF PortLimitAssumption, IInv, TypeOK, Conservation, BatchBound, IdleCredits, PortSize
<1>2. QED
  BY <1>1, CreditInvariant, PTL

----------------------------------------------------------------------------
(* The shared credits *)

LEMMA GlobalInitIInv == ASSUME Global!SizesAssumption PROVE Global!Init => Global!IInv
  BY DEF Global!SizesAssumption, Global!Init, Global!IInv, Global!TypeOK, Global!Conservation

\* A size change takes no more out of circulation than there is to return.
LEMMA ResizeBounds ==
    ASSUME Global!SizesAssumption, Global!TypeOK, NEW target \in Sizes
    PROVE  Global!Resize(target) \in Int /\ toReturn + Global!Resize(target) >= 0
  BY DEF Global!SizesAssumption, Global!TypeOK, Global!Resize, Global!SmallerOf

\* Every operation on the shared credits keeps the inductive invariant.
LEMMA GlobalStepIInv ==
    ASSUME Global!SizesAssumption PROVE Global!IInv /\ [Global!Next]_Global!vars => Global!IInv'
<1> SUFFICES ASSUME Global!IInv, [Global!Next]_Global!vars PROVE Global!IInv'
  OBVIOUS
<1> USE DEF Global!IInv, Global!TypeOK, Global!Conservation
<1>1. ASSUME NEW n \in 1..total, Global!Assign(n) PROVE Global!IInv'
  BY <1>1 DEF Global!Assign
<1>2. ASSUME NEW n \in 1..total, Global!Send(n) PROVE Global!IInv'
  BY <1>2 DEF Global!Send
<1>3. ASSUME NEW n \in 1..total, Global!UseCredits(n) PROVE Global!IInv'
  BY <1>3 DEF Global!UseCredits
<1>4. ASSUME NEW n \in 1..total, Global!Release(n) PROVE Global!IInv'
  BY <1>4 DEF Global!Release
<1>5. ASSUME NEW n \in 1..total, Global!Discard(n) PROVE Global!IInv'
  BY <1>5 DEF Global!Discard
<1>6. ASSUME NEW n \in 1..total, Global!Collect(n) PROVE Global!IInv'
  BY <1>6 DEF Global!Collect
<1>7. ASSUME NEW n \in 0..total, Global!Provide(n) PROVE Global!IInv'
  BY <1>7 DEF Global!Provide
<1>8. ASSUME NEW u \in 0..total, NEW l \in 0..total, Global!Abandon(u, l) PROVE Global!IInv'
  BY <1>8 DEF Global!Abandon
<1>9. ASSUME NEW s \in 0..total, NEW l \in 0..total, Global!TrySend(s, l) PROVE Global!IInv'
  BY <1>9 DEF Global!TrySend
<1>10. ASSUME NEW target \in Sizes, NEW force \in BOOLEAN, NEW threshold \in 1..target,
              Global!ReturnToRemote(target, threshold, force)
       PROVE  Global!IInv'
  <2> DEFINE delta == Global!Resize(target)
  <2>1. delta \in Int /\ toReturn + delta >= 0
    BY ResizeBounds
  <2>2. /\ total' = total + delta
        /\ \/ toReturn' = 0 /\ returning' = returning + (toReturn + delta)
           \/ toReturn' = toReturn + delta /\ returning' = returning
        /\ UNCHANGED <<avail, assigned, inflight, used, releasing, lost>>
    BY <1>10 DEF Global!ReturnToRemote
  <2> HIDE DEF delta
  <2>3. QED BY <2>1, <2>2
<1>11. CASE UNCHANGED Global!vars
  BY <1>11 DEF Global!vars
<1>12. QED
  BY <1>1, <1>2, <1>3, <1>4, <1>5, <1>6, <1>7, <1>8, <1>9, <1>10, <1>11 DEF Global!Next

\* In every reachable state the shared credits are conserved across size changes.
THEOREM GlobalCreditConservation ==
    ASSUME Global!SizesAssumption PROVE Global!Spec => []Global!Conservation
<1>1. Global!IInv => Global!Conservation
  BY DEF Global!IInv
<1>2. QED
  BY <1>1, GlobalInitIInv, GlobalStepIInv, PTL DEF Global!Spec

\* Whatever sizes the buffer sizer asks for and however its changes interleave with
\* data underway, GlobalCreditMonitor::use_credits never rejects a correct sender.
THEOREM GlobalNeverOverrun ==
    ASSUME Global!SizesAssumption PROVE Global!Spec => []Global!NoOverrun
<1>1. Global!IInv => Global!NoOverrun
  BY DEF Global!IInv, Global!TypeOK, Global!Conservation, Global!NoOverrun
<1>2. QED
  BY <1>1, GlobalInitIInv, GlobalStepIInv, PTL DEF Global!Spec
=============================================================================
