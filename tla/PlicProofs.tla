----------------------------- MODULE PlicProofs -----------------------------
(***************************************************************************)
(* Proofs about the PLIC for every number of sources and every range of    *)
(* priorities.                                                             *)
(***************************************************************************)
EXTENDS Plic, WellFoundedInduction, TLAPS

(* The registers stay in range under every guest access.                   *)
THEOREM TypeCorrect == Spec => []TypeOK
<1>1. Init => TypeOK
  <2>1. 0 \in Levels
    BY PlicAssumption DEF Levels
  <2> QED
    BY <2>1 DEF Init, TypeOK
<1>2. TypeOK /\ [Next]_vars => TypeOK'
  <2> SUFFICES ASSUME TypeOK, [Next]_vars PROVE TypeOK'
    OBVIOUS
  <2> USE DEF TypeOK, plic_update_seip
  <2>1. ASSUME NEW irq \in Sources, plic_set_pending(irq) PROVE TypeOK'
    BY <2>1 DEF plic_set_pending
  <2>2. ASSUME NEW ctx \in Contexts, NEW irq \in Sources, plic_claim(ctx, irq)
        PROVE  TypeOK'
    BY <2>2 DEF plic_claim
  <2>3. ASSUME NEW ctx \in Contexts, plic_claim_none(ctx) PROVE TypeOK'
    BY <2>3 DEF plic_claim_none, vars
  <2>4. ASSUME NEW irq \in Sources, plic_complete(irq) PROVE TypeOK'
    BY <2>4 DEF plic_complete
  <2>5. ASSUME NEW irq \in Bits, NEW level \in Levels, WritePriority(irq, level)
        PROVE  TypeOK'
    BY <2>5 DEF WritePriority
  <2>6. ASSUME NEW ctx \in Contexts, NEW mask \in SUBSET Bits, WriteEnable(ctx, mask)
        PROVE  TypeOK'
    BY <2>6 DEF WriteEnable
  <2>7. ASSUME NEW ctx \in Contexts, NEW level \in Levels, WriteThreshold(ctx, level)
        PROVE  TypeOK'
    BY <2>7 DEF WriteThreshold
  <2>8. CASE UNCHANGED vars
    BY <2>8 DEF vars
  <2> QED
    BY <2>1, <2>2, <2>3, <2>4, <2>5, <2>6, <2>7, <2>8 DEF Next
<1> QED
  BY <1>1, <1>2, PTL DEF Spec

(* Every step that is not a stutter re-evaluates SEIP, and a stutter or an *)
(* empty claim changes neither side.                                       *)
LEMMA StepUpdatesSeip ==
    ASSUME [Next]_vars
    PROVE  plic_update_seip \/ UNCHANGED vars
BY DEF Next, plic_set_pending, plic_claim, plic_claim_none, plic_complete,
       WritePriority, WriteEnable, WriteThreshold

(* SEIP is high exactly when the S-mode context could claim something.     *)
THEOREM SeipCorrect == Spec => []SeipIffEligible
<1>1. Init => SeipIffEligible
  BY DEF Init, SeipIffEligible, Eligible, PLIC_CTX_S, Contexts
<1>2. SeipIffEligible /\ [Next]_vars => SeipIffEligible'
  <2> SUFFICES ASSUME SeipIffEligible, [Next]_vars PROVE SeipIffEligible'
    OBVIOUS
  <2>1. CASE plic_update_seip
    BY <2>1 DEF plic_update_seip, SeipIffEligible
  <2>2. CASE UNCHANGED vars
    BY <2>2 DEF vars, SeipIffEligible, Eligible
  <2> QED
    BY <2>1, <2>2, StepUpdatesSeip
<1> QED
  BY <1>1, <1>2, PTL DEF Spec

(* A claim takes a source that is pending and not in service.              *)
LEMMA ClaimTakesPending ==
    ASSUME NEW ctx \in Contexts, NEW irq \in Sources, IsBest(ctx, irq)
    PROVE  irq \in pending /\ irq \notin claimed
BY DEF IsBest, Eligible

(* Pending bits are cleared only by putting their source in service, and   *)
(* no source in service is handed out again.                               *)
THEOREM RequestsNeverDropped == Spec => RequestsKept
<1>1. [Next]_vars => [pending \ pending' = claimed' \ claimed]_vars
  <2> SUFFICES ASSUME [Next]_vars
               PROVE  pending \ pending' = claimed' \ claimed \/ UNCHANGED vars
    OBVIOUS
  <2>1. ASSUME NEW irq \in Sources, plic_set_pending(irq)
        PROVE  pending \ pending' = claimed' \ claimed
    BY <2>1 DEF plic_set_pending
  <2>2. ASSUME NEW ctx \in Contexts, NEW irq \in Sources, plic_claim(ctx, irq)
        PROVE  pending \ pending' = claimed' \ claimed
    <3>1. irq \in pending /\ irq \notin claimed
      BY <2>2, ClaimTakesPending DEF plic_claim
    <3> QED
      BY <2>2, <3>1 DEF plic_claim
  <2>3. ASSUME NEW irq \in Sources, plic_complete(irq)
        PROVE  pending \ pending' = claimed' \ claimed
    BY <2>3 DEF plic_complete
  <2>4. ASSUME UNCHANGED <<pending, claimed>>
        PROVE  pending \ pending' = claimed' \ claimed
    BY <2>4
  <2> QED
    BY <2>1, <2>2, <2>3, <2>4
    DEF Next, plic_claim_none, WritePriority, WriteEnable, WriteThreshold, vars
<1> QED
  BY <1>1, PTL DEF Spec, RequestsKept

-----------------------------------------------------------------------------
(* One round of the scan, and the equation the whole loop satisfies.       *)
ScanRound(ctx, best, irq) ==
    IF irq \in Eligible(ctx) /\ priority[irq] > best.pri
    THEN [irq |-> irq, pri |-> priority[irq]]
    ELSE best
IsScan(ctx, n, f) ==
    f = [irq \in 0 .. n |-> IF irq = 0 THEN [irq |-> 0, pri |-> 0]
                            ELSE ScanRound(ctx, f[irq - 1], irq)]

(* The least element of a set of numbers: induction for what follows.      *)
LEMMA LeastOf ==
    ASSUME NEW S \in SUBSET Nat, S # {}
    PROVE  \E n \in S : \A m \in S : ~(m < n)
<1>1. PICK n \in S : \A m \in S : ~(<<m, n>> \in OpToRel(<, Nat))
  BY NatLessThanWellFounded, WFMin, Zenon
<1> QED
  BY <1>1 DEF OpToRel

(* The equation has a solution for any number of ids, so that the          *)
(* recursive definition means what it says.                                *)
LEMMA ScanExists ==
    ASSUME NEW ctx
    PROVE  \A n \in Nat : \E f : IsScan(ctx, n, f)
<1> DEFINE S == {n \in Nat : ~ \E f : IsScan(ctx, n, f)}
<1> SUFFICES ASSUME S # {} PROVE FALSE
  OBVIOUS
<1>1. PICK n \in S : \A m \in S : ~(m < n)
  BY LeastOf
<1>2. CASE n = 0
  <2> DEFINE f == [irq \in 0 .. 0 |-> [irq |-> 0, pri |-> 0]]
  <2>1. IsScan(ctx, 0, f)
    BY DEF IsScan
  <2> QED
    BY <1>1, <1>2, <2>1
<1>3. CASE n # 0
  <2>1. n - 1 \in Nat /\ n \in Nat /\ n - 1 \notin S
    BY <1>1, <1>3
  <2>2. PICK f : IsScan(ctx, n - 1, f)
    BY <2>1
  <2> DEFINE g == [irq \in 0 .. n |-> IF irq = n THEN ScanRound(ctx, f[n - 1], n) ELSE f[irq]]
  <2>3. \A irq \in 0 .. n : g[irq] = IF irq = 0 THEN [irq |-> 0, pri |-> 0]
                                     ELSE ScanRound(ctx, g[irq - 1], irq)
    <3> SUFFICES ASSUME NEW irq \in 0 .. n
                 PROVE  g[irq] = IF irq = 0 THEN [irq |-> 0, pri |-> 0]
                                 ELSE ScanRound(ctx, g[irq - 1], irq)
      OBVIOUS
    <3>1. CASE irq = n
      <4>1. g[n] = ScanRound(ctx, f[n - 1], n) /\ g[n - 1] = f[n - 1]
        BY <2>1
      <4> QED
        BY <1>3, <3>1, <4>1
    <3>2. CASE irq # n
      <4>1. irq \in 0 .. (n - 1) /\ g[irq] = f[irq] /\ (irq # 0 => g[irq - 1] = f[irq - 1])
        BY <2>1, <3>2
      <4> HIDE DEF g
      <4>2. f[irq] = IF irq = 0 THEN [irq |-> 0, pri |-> 0]
                                     ELSE ScanRound(ctx, f[irq - 1], irq)
        BY <2>2, <4>1 DEF IsScan
      <4> QED
        BY <4>1, <4>2
    <3> QED
      BY <3>1, <3>2
  <2>4. IsScan(ctx, n, g)
    BY <2>3 DEF IsScan
  <2> QED
    BY <1>1, <2>4
<1> QED
  BY <1>2, <1>3

(* ClaimScan is the last value of a function that satisfies the equation.  *)
LEMMA ScanIs ==
    ASSUME NEW ctx
    PROVE  \E f : IsScan(ctx, NumSources - 1, f) /\ ClaimScan(ctx) = f[NumSources - 1].irq
<1> DEFINE f == CHOOSE f : IsScan(ctx, NumSources - 1, f)
<1>1. IsScan(ctx, NumSources - 1, f)
  BY ScanExists, PlicAssumption
<1>2. ClaimScan(ctx) = f[NumSources - 1].irq
  BY Zenon DEF ClaimScan, IsScan, ScanRound, Bits
<1> QED
  BY <1>1, <1>2

(* The loop invariant: best is the best of the eligible ids up to n.       *)
ScanSoFar(ctx, n, best) ==
    IF \A irq \in Eligible(ctx) : irq > n THEN best = [irq |-> 0, pri |-> 0]
    ELSE /\ best.irq \in Eligible(ctx) /\ best.irq <= n /\ best.pri = priority[best.irq]
         /\ \A other \in Eligible(ctx) :
               other <= n => \/ priority[other] < best.pri
                             \/ priority[other] = best.pri /\ best.irq <= other

(* An eligible source has a priority above 0, since thresholds are not     *)
(* negative: best_pri = 0 is below all of them.                            *)
LEMMA EligibleTypes ==
    ASSUME TypeOK, NEW ctx \in Contexts, NEW irq \in Eligible(ctx)
    PROVE  irq \in Nat /\ irq >= 1 /\ irq \in Bits /\ irq <= NumSources - 1
           /\ priority[irq] \in Nat /\ priority[irq] > 0
<1>1. irq \in Sources /\ irq \in Bits
  BY PlicAssumption DEF Eligible, Sources, Bits
<1>2. priority[irq] \in Levels /\ threshold[ctx] \in Levels /\ priority[irq] > threshold[ctx]
  BY <1>1 DEF TypeOK, Eligible
<1> QED
  BY <1>1, <1>2, PlicAssumption DEF Sources, Levels

(* One more id keeps it.                                                   *)
LEMMA ScanStep ==
    ASSUME TypeOK, NEW ctx \in Contexts, NEW n \in Nat, n # 0,
           NEW best, ScanSoFar(ctx, n - 1, best)
    PROVE  ScanSoFar(ctx, n, ScanRound(ctx, best, n))
<1> DEFINE E == Eligible(ctx)
<1>1. \A irq \in E : irq \in Nat /\ priority[irq] \in Nat /\ priority[irq] > 0
  BY EligibleTypes
<1>2. \A irq \in E : irq > n - 1 <=> irq > n \/ irq = n
  BY <1>1
<1> HIDE DEF E
<1>3. CASE n \notin E
  <2>1. ScanRound(ctx, best, n) = best
    BY <1>3 DEF ScanRound, E
  <2>2. \A irq \in E : (irq > n - 1 <=> irq > n) /\ (irq <= n - 1 <=> irq <= n)
    BY <1>1, <1>2, <1>3
  <2>3. CASE \A irq \in E : irq > n
    BY <2>1, <2>2, <2>3 DEF ScanSoFar, E
  <2>4. CASE ~ \A irq \in E : irq > n
    BY <2>1, <2>2, <2>4 DEF ScanSoFar, E
  <2> QED
    BY <2>3, <2>4
<1>4. CASE n \in E /\ \A irq \in E : irq > n - 1
  <2>1. best = [irq |-> 0, pri |-> 0]
    BY <1>4 DEF ScanSoFar, E
  <2>2. ScanRound(ctx, best, n) = [irq |-> n, pri |-> priority[n]]
    BY <1>1, <1>4, <2>1 DEF ScanRound, E
  <2>3. \A irq \in E : irq <= n => irq = n
    BY <1>1, <1>4
  <2> QED
    BY <1>1, <1>4, <2>2, <2>3 DEF ScanSoFar, E
<1>5. CASE n \in E /\ ~ \A irq \in E : irq > n - 1
  <2>1. /\ best.irq \in E /\ best.irq <= n - 1 /\ best.pri = priority[best.irq]
        /\ \A other \in E : other <= n - 1 => \/ priority[other] < best.pri
                                              \/ priority[other] = best.pri /\ best.irq <= other
    BY <1>5 DEF ScanSoFar, E
  <2>2. best.irq \in Nat /\ best.pri \in Nat /\ priority[n] \in Nat
    BY <1>1, <1>5, <2>1
  <2>3. \A other \in E : other <= n => other <= n - 1 \/ other = n
    BY <1>1
  <2>4. ~ \A irq \in E : irq > n
    BY <1>5
  <2>5. CASE priority[n] > best.pri
    <3>1. ScanRound(ctx, best, n) = [irq |-> n, pri |-> priority[n]]
      BY <1>5, <2>5 DEF ScanRound, E
    <3>2. \A other \in E : other <= n => \/ priority[other] < priority[n]
                                         \/ priority[other] = priority[n] /\ n <= other
      BY <1>1, <2>1, <2>2, <2>3, <2>5
    <3> QED
      BY <1>5, <2>4, <3>1, <3>2 DEF ScanSoFar, E
  <2>6. CASE ~(priority[n] > best.pri)
    <3>1. ScanRound(ctx, best, n) = best
      BY <2>6 DEF ScanRound
    <3>2. \A other \in E : other <= n => \/ priority[other] < best.pri
                                         \/ priority[other] = best.pri /\ best.irq <= other
      BY <1>1, <2>1, <2>2, <2>3, <2>6
    <3>3. best.irq <= n
      BY <2>1, <2>2
    <3> QED
      BY <2>1, <2>4, <3>1, <3>2, <3>3 DEF ScanSoFar, E
  <2> QED
    BY <2>5, <2>6
<1> QED
  BY <1>3, <1>4, <1>5

(* So it holds after every id.                                             *)
LEMMA ScanInvariant ==
    ASSUME TypeOK, NEW ctx \in Contexts, NEW n \in Nat, NEW f, IsScan(ctx, n, f)
    PROVE  \A i \in 0 .. n : ScanSoFar(ctx, i, f[i])
<1> DEFINE S == {i \in 0 .. n : ~ScanSoFar(ctx, i, f[i])}
<1> SUFFICES ASSUME S # {} PROVE FALSE
  OBVIOUS
<1>0. S \in SUBSET Nat
  OBVIOUS
<1>1. PICK i \in S : \A j \in S : ~(j < i)
  <2> HIDE DEF S
  <2> QED
    BY <1>0, LeastOf
<1>2. CASE i = 0
  <2>1. f[0] = [irq |-> 0, pri |-> 0]
    BY DEF IsScan
  <2>2. \A irq \in Eligible(ctx) : irq > 0
    BY EligibleTypes
  <2> QED
    BY <1>1, <1>2, <2>1, <2>2 DEF ScanSoFar
<1>3. CASE i # 0
  <2>1. i - 1 \in 0 .. n /\ i - 1 \notin S /\ i \in Nat
    BY <1>1, <1>3
  <2>2. ScanSoFar(ctx, i - 1, f[i - 1])
    BY <2>1
  <2>3. f[i] = ScanRound(ctx, f[i - 1], i)
    BY <1>1, <1>3 DEF IsScan
  <2> QED
    BY <1>1, <1>3, <2>1, <2>2, <2>3, ScanStep
<1> QED
  BY <1>2, <1>3

(* With all ids scanned, this is the claim that ScanPicksBest asks for.    *)
LEMMA ScanCorrect == TypeOK => ScanPicksBest
<1> SUFFICES ASSUME TypeOK, NEW ctx \in Contexts
             PROVE  IF Eligible(ctx) = {} THEN ClaimScan(ctx) = 0
                                          ELSE IsBest(ctx, ClaimScan(ctx))
  BY DEF ScanPicksBest
<1> DEFINE n == NumSources - 1
<1>1. n \in Nat /\ n \in 0 .. n
  BY PlicAssumption
<1>2. PICK f : IsScan(ctx, n, f) /\ ClaimScan(ctx) = f[n].irq
  BY ScanIs
<1>3. \A irq \in Eligible(ctx) : irq \in Nat /\ irq <= n
  BY EligibleTypes
<1> HIDE DEF n
<1>4. ScanSoFar(ctx, n, f[n])
  BY <1>1, <1>2, ScanInvariant
<1>5. CASE Eligible(ctx) = {}
  BY <1>2, <1>4, <1>5 DEF ScanSoFar
<1>6. CASE Eligible(ctx) # {}
  <2>1. ~ \A irq \in Eligible(ctx) : irq > n
    BY <1>1, <1>3, <1>6
  <2> QED
    BY <1>2, <1>3, <1>4, <1>6, <2>1 DEF ScanSoFar, IsBest
<1> QED
  BY <1>5, <1>6

(* The loop of plic_claim returns the lowest-numbered eligible source of   *)
(* the highest priority, and 0 only if there is none, for any number of    *)
(* sources and whatever the guest has programmed.                          *)
THEOREM ClaimPicksBest == Spec => []ScanPicksBest
BY TypeCorrect, ScanCorrect, PTL
=============================================================================
