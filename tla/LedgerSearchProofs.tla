------------------------- MODULE LedgerSearchProofs -------------------------
(***************************************************************************)
(* The search is right for chains of any length and any closing times.     *)
(* The loop invariant says where the answer can still be: everything below *)
(* low is closed in time, everything above high is not, unless a probe     *)
(* failed, and bestLedger is the ledger just below low.                    *)
(***************************************************************************)
EXTENDS LedgerSearch, TLAPS

BestIsBelowLow == bestLedger = IF low = 1 THEN 1 ELSE low - 1

BelowLowInTime == \A l \in 1 .. low - 1 : ClosedInTime(l)

AboveHighTooLate == ~failed => \A l \in high + 1 .. latest : ~ClosedInTime(l)

\* The bounds alone; what SearchTypeOK adds of bestLedger and Mid follows.
Shapes ==
    /\ closedAt \in Chain
    /\ latest \in 0 .. MaxLedger
    /\ target \in Times
    /\ low \in 1 .. latest + 1
    /\ high \in 0 .. latest
    /\ low <= high + 1
    /\ failed \in BOOLEAN

IInv == Shapes /\ BestIsBelowLow /\ BelowLowInTime /\ AboveHighTooLate

\* The middle of two bounds lies between them.
LEMMA MidBetween ==
    ASSUME NEW a \in Nat, NEW b \in Nat, a <= b
    PROVE  (a + b) \div 2 \in a .. b
  OBVIOUS

\* The order of the chain, as the steps use it.
LEMMA ChainOrder ==
    ASSUME NEW f \in Chain, NEW k \in 1 .. MaxLedger, NEW l \in 1 .. MaxLedger, k <= l
    PROVE  f[k] \in Nat /\ f[l] \in Nat /\ f[k] <= f[l]
  BY SearchAssumption DEF Chain

LEMMA InitIInv == SearchInit => IInv
<1> SUFFICES ASSUME SearchInit PROVE IInv
  OBVIOUS
<1>1. /\ closedAt \in Chain /\ target \in Times /\ failed \in BOOLEAN
      /\ latest \in 0 .. MaxLedger /\ low = 1 /\ high = latest /\ bestLedger = 1
  BY DEF SearchInit
<1>2. latest \in Nat
  BY <1>1, SearchAssumption
<1>3. BestIsBelowLow /\ BelowLowInTime /\ AboveHighTooLate
  BY <1>1, <1>2 DEF BestIsBelowLow, BelowLowInTime, AboveHighTooLate
<1>4. low \in 1 .. latest + 1 /\ high \in 0 .. latest /\ low <= high + 1
  BY <1>1, <1>2
<1> QED
  BY <1>1, <1>3, <1>4 DEF IInv, Shapes

LEMMA NextIInv == IInv /\ [SearchNext]_searchVars => IInv'
<1> SUFFICES ASSUME IInv, [SearchNext]_searchVars PROVE IInv'
  OBVIOUS
<1> USE DEF IInv, Shapes
<1>0. /\ low \in Nat /\ high \in Nat /\ latest \in Nat /\ MaxLedger \in Nat
      /\ target \in Nat /\ latest <= MaxLedger
  BY SearchAssumption
<1>1. low <= high => Mid \in low .. high
  BY <1>0, MidBetween DEF Mid
<1>2. CASE GoUp
  <2>1. Mid \in low .. high /\ Mid \in 1 .. MaxLedger
    BY <1>0, <1>1, <1>2 DEF GoUp
  <2>2. Shapes' /\ BestIsBelowLow' /\ AboveHighTooLate'
    BY <1>0, <1>2, <2>1 DEF GoUp, BestIsBelowLow, AboveHighTooLate, ClosedInTime
  <2>3. ASSUME NEW l \in 1 .. Mid PROVE closedAt[l] <= target
    <3>1. l \in 1 .. MaxLedger /\ l <= Mid
      BY <1>0, <2>1
    <3>2. closedAt[l] \in Nat /\ closedAt[Mid] \in Nat /\ closedAt[l] <= closedAt[Mid]
      BY <2>1, <3>1, ChainOrder
    <3> QED
      BY <1>0, <1>2, <3>2 DEF GoUp, ClosedInTime
  <2>4. BelowLowInTime'
    BY <1>0, <1>2, <2>1, <2>3 DEF GoUp, BelowLowInTime, ClosedInTime
  <2> QED
    BY <2>2, <2>4
<1>3. CASE GoDown
  <2>1. Mid \in low .. high /\ Mid \in 1 .. MaxLedger
    BY <1>0, <1>1, <1>3 DEF GoDown
  <2>2. Shapes' /\ BestIsBelowLow' /\ BelowLowInTime'
    BY <1>0, <1>3, <2>1 DEF GoDown, BestIsBelowLow, BelowLowInTime, ClosedInTime
  <2>3. ASSUME NEW l \in Mid .. latest PROVE ~(closedAt[l] <= target)
    <3>1. l \in 1 .. MaxLedger /\ Mid <= l
      BY <1>0, <2>1
    <3>2. closedAt[l] \in Nat /\ closedAt[Mid] \in Nat /\ closedAt[Mid] <= closedAt[l]
      BY <2>1, <3>1, ChainOrder
    <3> QED
      BY <1>0, <1>3, <3>2 DEF GoDown, ClosedInTime
  <2>4. AboveHighTooLate'
    BY <1>0, <1>3, <2>1, <2>3 DEF GoDown, AboveHighTooLate, ClosedInTime
  <2> QED
    BY <2>2, <2>4
<1>4. CASE ProbeFails
  <2>1. Mid \in low .. high
    BY <1>1, <1>4 DEF ProbeFails
  <2> QED
    BY <1>0, <1>4, <2>1
    DEF ProbeFails, BestIsBelowLow, BelowLowInTime, AboveHighTooLate, ClosedInTime
<1>5. CASE UNCHANGED searchVars
  BY <1>5 DEF searchVars, BestIsBelowLow, BelowLowInTime, AboveHighTooLate, ClosedInTime
<1> QED
  BY <1>2, <1>3, <1>4, <1>5 DEF SearchNext

LEMMA SpecIInv == SearchSpec => []IInv
  BY InitIInv, NextIInv, PTL DEF SearchSpec

LEMMA IInvImplies == IInv => SearchTypeOK /\ FindsLedger /\ NeverTooLate
<1> SUFFICES ASSUME IInv PROVE SearchTypeOK /\ FindsLedger /\ NeverTooLate
  OBVIOUS
<1> USE DEF IInv, Shapes
<1>0. low \in Nat /\ high \in Nat /\ latest \in Nat
  BY SearchAssumption
<1>1. SearchTypeOK
  BY <1>0, MidBetween DEF SearchTypeOK, BestIsBelowLow, Mid
<1>2. FindsLedger
  <2> SUFFICES ASSUME low > high, ~failed, NEW l \in 1 .. latest
               PROVE  /\ l < bestLedger => closedAt[l] <= target
                      /\ l = bestLedger => closedAt[l] <= target \/ l = 1
                      /\ l > bestLedger => closedAt[l] > target
    BY DEF FindsLedger
  <2>1. closedAt[l] \in Nat /\ target \in Nat
    BY <1>0, SearchAssumption, ChainOrder
  <2> QED
    BY <1>0, <2>1 DEF BestIsBelowLow, BelowLowInTime, AboveHighTooLate, ClosedInTime
<1>3. NeverTooLate
  BY <1>0 DEF NeverTooLate, BestIsBelowLow, BelowLowInTime, ClosedInTime
<1> QED
  BY <1>1, <1>2, <1>3

\* The bounds of the search stay inside the chain, and so does every probe.
THEOREM SpecTypeOK == SearchSpec => []SearchTypeOK
  BY SpecIInv, IInvImplies, PTL

\* Where no probe fails, findLedgerForTimestamp returns the last ledger closed in time.
THEOREM SpecFindsLedger == SearchSpec => []FindsLedger
  BY SpecIInv, IInvImplies, PTL

\* Whatever probes fail, it never returns a ledger that closed too late.
THEOREM SpecNeverTooLate == SearchSpec => []NeverTooLate
  BY SpecIInv, IInvImplies, PTL
=============================================================================
