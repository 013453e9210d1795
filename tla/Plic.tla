-------------------------------- MODULE Plic --------------------------------
(***************************************************************************)
(* The platform-level interrupt controller of src/plic.c: a file-static    *)
(* struct that devices set pending bits in and that the guest programs,    *)
(* claims from and completes to over MMIO.  Bit masks are sets of source   *)
(* numbers.  The only wire it drives is SEIP of mip (cpu_raise_irq and     *)
(* cpu_lower_irq), kept here as the Boolean seip.                          *)
(*                                                                         *)
(* MMIO reads of priority, pending, enable and threshold change no state   *)
(* and are not actions; the read of a claim register is plic_claim.        *)
(***************************************************************************)
EXTENDS Integers

CONSTANTS NumSources,   \* PLIC_NUM_SOURCES
          MaxLevel      \* bound on the u32 priorities and thresholds

ASSUME PlicAssumption == /\ NumSources \in Nat \ {0, 1}
                         /\ MaxLevel \in Nat \ {0}

PLIC_CTX_M == 0
PLIC_CTX_S == 1
Contexts == {PLIC_CTX_M, PLIC_CTX_S}

Bits    == 0 .. (NumSources - 1)   \* bits of a mask register
Sources == 1 .. (NumSources - 1)   \* source 0 does not exist
Levels  == 0 .. MaxLevel

VARIABLES priority, pending, enable, threshold, claimed, seip

plicState == <<priority, pending, enable, threshold, claimed>>
vars == <<priority, pending, enable, threshold, claimed, seip>>

Init == /\ priority = [irq \in Bits |-> 0]
        /\ pending = {}
        /\ enable = [ctx \in Contexts |-> {}]
        /\ threshold = [ctx \in Contexts |-> 0]
        /\ claimed = {}
        /\ seip = FALSE

-----------------------------------------------------------------------------
(* Sources that context ctx may be given now: pending, enabled, not in     *)
(* service, and strictly above the threshold.                              *)
Eligible(ctx) ==
    {irq \in Sources : /\ irq \in (pending \cap enable[ctx]) \ claimed
                       /\ priority[irq] > threshold[ctx]}

(* Every operation that changes the state ends here, on the new values.    *)
plic_update_seip == seip' = (Eligible(PLIC_CTX_S) # {})'

(* Mutant: the best so far gives way to an equal priority.                 *)
ClaimScan_LastWins(ctx) ==
    LET scan[irq \in Bits] ==
          IF irq = 0 THEN [irq |-> 0, pri |-> 0]
          ELSE IF irq \in Eligible(ctx) /\ priority[irq] >= scan[irq - 1].pri
               THEN [irq |-> irq, pri |-> priority[irq]]
               ELSE scan[irq - 1]
    IN  scan[NumSources - 1].irq

(* The loop of plic_claim: ids upwards, keeping the best so far on a       *)
(* strictly higher priority.                                               *)
ClaimScan(ctx) ==
    LET scan[irq \in Bits] ==
          IF irq = 0 THEN [irq |-> 0, pri |-> 0]
          ELSE IF irq \in Eligible(ctx) /\ priority[irq] > scan[irq - 1].pri
               THEN [irq |-> irq, pri |-> priority[irq]]
               ELSE scan[irq - 1]
    IN  scan[NumSources - 1].irq

(* What that loop computes: the lowest-numbered of the eligible sources    *)
(* with the highest priority.                                              *)
IsBest(ctx, irq) ==
    /\ irq \in Eligible(ctx)
    /\ \A other \in Eligible(ctx) :
          \/ priority[other] < priority[irq]
          \/ priority[other] = priority[irq] /\ irq <= other

-----------------------------------------------------------------------------
plic_set_pending(irq) ==
    /\ irq \in Sources
    /\ pending' = pending \cup {irq}
    /\ UNCHANGED <<priority, enable, threshold, claimed>>
    /\ plic_update_seip

plic_claim(ctx, irq) ==
    /\ IsBest(ctx, irq)
    /\ claimed' = claimed \cup {irq}
    /\ pending' = pending \ {irq}
    /\ UNCHANGED <<priority, enable, threshold>>
    /\ plic_update_seip

(* Mutant: the test of best_irq is dropped and source 0 is put in service. *)
plic_claim_none_Unguarded(ctx) ==
    /\ Eligible(ctx) = {}
    /\ claimed' = claimed \cup {0}
    /\ UNCHANGED <<priority, pending, enable, threshold>>
    /\ plic_update_seip

(* A claim register read with nothing eligible returns 0.                  *)
plic_claim_none(ctx) ==
    /\ Eligible(ctx) = {}
    /\ UNCHANGED vars

(* Mutants: the wire is not recomputed on completion; completion clears    *)
(* the pending bit too; completion sets it again.                          *)
plic_complete_NoUpdate(irq) ==
    /\ irq \in Sources
    /\ claimed' = claimed \ {irq}
    /\ UNCHANGED <<priority, pending, enable, threshold, seip>>
plic_complete_ClearsPending(irq) ==
    /\ irq \in Sources
    /\ claimed' = claimed \ {irq} /\ pending' = pending \ {irq}
    /\ UNCHANGED <<priority, enable, threshold>>
    /\ plic_update_seip
plic_complete_Relatches(irq) ==
    /\ irq \in Sources
    /\ claimed' = claimed \ {irq} /\ pending' = pending \cup {irq}
    /\ UNCHANGED <<priority, enable, threshold>>
    /\ plic_update_seip

plic_complete(irq) ==
    /\ irq \in Sources
    /\ claimed' = claimed \ {irq}
    /\ UNCHANGED <<priority, pending, enable, threshold>>
    /\ plic_update_seip

WritePriority(irq, level) ==
    /\ priority' = [priority EXCEPT ![irq] = level]
    /\ UNCHANGED <<pending, enable, threshold, claimed>>
    /\ plic_update_seip

WriteEnable(ctx, mask) ==
    /\ enable' = [enable EXCEPT ![ctx] = mask]
    /\ UNCHANGED <<priority, pending, threshold, claimed>>
    /\ plic_update_seip

WriteThreshold(ctx, level) ==
    /\ threshold' = [threshold EXCEPT ![ctx] = level]
    /\ UNCHANGED <<priority, pending, enable, claimed>>
    /\ plic_update_seip

(* Devices call plic_set_pending; everything else is a guest access, in    *)
(* any order and with any value, completions of unclaimed sources          *)
(* included.                                                               *)
Next ==
    \/ \E irq \in Sources : plic_set_pending(irq)
    \/ \E ctx \in Contexts, irq \in Sources : plic_claim(ctx, irq)
    \/ \E ctx \in Contexts : plic_claim_none(ctx)
    \/ \E irq \in Sources : plic_complete(irq)
    \/ \E irq \in Bits, level \in Levels : WritePriority(irq, level)
    \/ \E ctx \in Contexts, mask \in SUBSET Bits : WriteEnable(ctx, mask)
    \/ \E ctx \in Contexts, level \in Levels : WriteThreshold(ctx, level)

Spec == Init /\ [][Next]_vars

-----------------------------------------------------------------------------
(* The registers stay in range, and bit 0 of pending and claimed, which    *)
(* plic_set_pending and plic_complete refuse, is never set.                *)
TypeOK ==
    /\ priority \in [Bits -> Levels]
    /\ pending \in SUBSET Sources
    /\ enable \in [Contexts -> SUBSET Bits]
    /\ threshold \in [Contexts -> Levels]
    /\ claimed \in SUBSET Sources
    /\ seip \in BOOLEAN

(* The wire and the claim register agree: SEIP is high exactly when a      *)
(* claim by the S-mode context would return a source.  A wire that stays   *)
(* high after the last claim is an interrupt storm, one that stays low is  *)
(* a lost interrupt.  (plic_update_seip against plic_claim.)               *)
SeipIffEligible == seip <=> (Eligible(PLIC_CTX_S) # {})

(* The scan of plic_claim returns 0 exactly when nothing is eligible, and  *)
(* otherwise the lowest-numbered source of the highest priority.           *)
ScanPicksBest ==
    \A ctx \in Contexts :
        IF Eligible(ctx) = {} THEN ClaimScan(ctx) = 0
                              ELSE IsBest(ctx, ClaimScan(ctx))

(* A request is never dropped: a pending bit is cleared only by a claim    *)
(* that puts that very source in service, and no source that is already    *)
(* in service is handed out again.  (Interleavings of set_pending, claim   *)
(* and complete by two contexts.)                                          *)
RequestsKept == [][pending \ pending' = claimed' \ claimed]_vars
=============================================================================
