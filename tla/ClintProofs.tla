---------------------------- MODULE ClintProofs -----------------------------
(***************************************************************************)
(* The timer properties of Clint for deadlines any distance ahead.         *)
(***************************************************************************)
EXTENDS Clint, TLAPS

(* The downward scan of cpu_check_interrupts returns a pending bit, and    *)
(* the timer's unless the external interrupt is pending.                   *)
LEMMA HighestIsPending ==
    ASSUME NEW pending \in SUBSET Irqs, pending # {}
    PROVE  /\ Highest(pending) \in pending
           /\ STIP \in pending => Highest(pending) \in {STIP, SEIP}
<1>1. \E bit \in pending : \A other \in pending : other <= bit
  <2>1. CASE SEIP \in pending
    BY <2>1 DEF Irqs, SSIP, STIP, SEIP
  <2>2. CASE SEIP \notin pending /\ STIP \in pending
    BY <2>2 DEF Irqs, SSIP, STIP, SEIP
  <2>3. CASE SEIP \notin pending /\ STIP \notin pending
    <3>1. pending = {SSIP}
      BY <2>3 DEF Irqs
    <3> QED
      BY <3>1 DEF SSIP
  <2> QED
    BY <2>1, <2>2, <2>3
<1> DEFINE top == Highest(pending)
<1>2. top \in pending /\ \A other \in pending : other <= top
  BY <1>1, Zenon DEF Highest
<1> HIDE DEF top
<1>3. STIP \in pending => top \in {STIP, SEIP}
  BY <1>2 DEF Irqs, SSIP, STIP, SEIP
<1> QED
  BY <1>2, <1>3 DEF top

(* The comparator and the interrupt registers stay in range under any      *)
(* guest (clint_set_timecmp, clint_irq_source, csr_write).                 *)
THEOREM TypeCorrect == Spec => []TypeOK
<1>1. Init => TypeOK
  <2>1. Never \in Deadlines
    BY ClintAssumption DEF Deadlines, Never
  <2> QED
    BY <2>1, Zenon DEF Init, TypeOK
<1>2. ASSUME TypeOK, [Next]_vars PROVE TypeOK'
  <2> USE <1>2 DEF TypeOK
  <2>1. Elapsed \in Deadlines
    BY ClintAssumption DEF Elapsed, Deadlines, Never
  <2>2. ASSUME NEW ext \in SUBSET {SEIP}
        PROVE  Polled(ext) \in SUBSET Irqs
    BY DEF Polled, Irqs
  <2>3. ASSUME NEW ext \in SUBSET {SEIP}, Trap(ext)
        PROVE  TypeOK'
    <3>1. Highest(Polled(ext) \cap mie) \in Irqs
      BY <2>2, <2>3, HighestIsPending DEF Trap
    <3> QED
      BY <2>1, <2>2, <2>3, <3>1 DEF Trap
  <2>4. ASSUME NEW ext \in SUBSET {SEIP}, NEW deadline \in Deadlines,
               sbi_set_timer(ext, deadline) \/ clint_write_mtimecmp(ext, deadline)
        PROVE  TypeOK'
    BY <2>2, <2>4 DEF sbi_set_timer, clint_write_mtimecmp, Instruction
  <2>5. ASSUME NEW ext \in SUBSET {SEIP}, NEW bits \in SUBSET Irqs,
               csr_write_mie(ext, bits) \/ csr_write_mip(ext, bits)
        PROVE  TypeOK'
    BY <2>1, <2>2, <2>5 DEF csr_write_mie, csr_write_mip, Instruction
  <2>6. ASSUME NEW ext \in SUBSET {SEIP}, NEW value \in BOOLEAN, SetOpen(ext, value)
        PROVE  TypeOK'
    BY <2>1, <2>2, <2>6 DEF SetOpen, Instruction
  <2>7. ASSUME NEW ext \in SUBSET {SEIP}, Other(ext)
        PROVE  TypeOK'
    BY <2>1, <2>2, <2>7 DEF Other, Instruction
  <2>8. CASE UNCHANGED vars
    BY <2>8 DEF vars
  <2> QED
    BY <2>3, <2>4, <2>5, <2>6, <2>7, <2>8 DEF Next, cpu_step
<1> QED
  BY <1>1, <1>2, PTL DEF Spec

-----------------------------------------------------------------------------
(* What clint_irq_source leaves in mip is the comparator and nothing else: *)
(* a bit set for an earlier deadline does not survive the poll.            *)
LEMMA PolledIsComparator ==
    ASSUME NEW ext \in SUBSET {SEIP}
    PROVE  STIP \in Polled(ext) <=> Elapsed = 0
BY DEF Polled, STIP, SEIP

(* A step of the processor takes an interrupt right after the poll, or     *)
(* executes an instruction because the poll left none to take.             *)
LEMMA StepTrapsOrExecutes ==
    ASSUME Next
    PROVE  \E ext \in SUBSET {SEIP} : Trap(ext) \/ Instruction(ext)
BY DEF Next, cpu_step, sbi_set_timer, clint_write_mtimecmp, csr_write_mie, csr_write_mip, SetOpen, Other

(* No timer trap is taken before the deadline programmed last, although a  *)
(* store to mtimecmp leaves STIP as it was (clint_write, cpu_step).        *)
THEOREM TicksNotStale == Spec => NoStaleTick
<1>1. ASSUME TypeOK, Next, taken' = STIP
      PROVE  left' = 0
  <2>1. PICK ext \in SUBSET {SEIP} : Trap(ext) \/ Instruction(ext)
    BY <1>1, StepTrapsOrExecutes
  <2>2. Trap(ext)
    BY <1>1, <2>1 DEF Instruction, STIP, NoIrq
  <2>3. Polled(ext) \cap mie \in SUBSET Irqs
    BY <1>1 DEF TypeOK
  <2>4. STIP \in Polled(ext)
    BY <1>1, <2>2, <2>3, HighestIsPending DEF Trap
  <2> QED
    BY <2>2, <2>4, PolledIsComparator DEF Trap
<1>2. TypeOK /\ [Next]_vars => [taken' = STIP => left' = 0]_vars
  BY <1>1
<1> QED
  BY <1>2, TypeCorrect, PTL DEF Spec, NoStaleTick

(* After the deadline no instruction executes with timer interrupts        *)
(* enabled and open, also if SET_TIMER was given a deadline in the past:   *)
(* the step takes the tick, or first an external interrupt that is pending *)
(* and enabled (sbi_ecall, cpu_check_interrupts).                          *)
THEOREM TicksNotLate == Spec => NoLateTick
<1> DEFINE Prompt == taken' = STIP \/ (taken' = SEIP /\ SEIP \in mip' \cap mie)
<1>1. ASSUME TypeOK, Next, open, STIP \in mie, Elapsed = 0
      PROVE  Prompt
  <2>1. PICK ext \in SUBSET {SEIP} : Trap(ext) \/ Instruction(ext)
    BY <1>1, StepTrapsOrExecutes
  <2> DEFINE pending == Polled(ext) \cap mie
  <2>2. STIP \in pending
    BY <1>1, PolledIsComparator
  <2>3. pending \in SUBSET Irqs
    BY <1>1 DEF TypeOK
  <2>4. Trap(ext)
    BY <1>1, <2>1, <2>2 DEF Instruction
  <2>5. taken' = Highest(pending) /\ mip' = Polled(ext)
    BY <2>4 DEF Trap
  <2>6. Highest(pending) \in pending /\ Highest(pending) \in {STIP, SEIP}
    BY <2>2, <2>3, HighestIsPending
  <2> QED
    BY <2>5, <2>6
<1>2. TypeOK /\ [Next]_vars => [open /\ STIP \in mie /\ Elapsed = 0 => Prompt]_vars
  BY <1>1
<1> QED
  BY <1>2, TypeCorrect, PTL DEF Spec, NoLateTick
=============================================================================
