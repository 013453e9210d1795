------------------------------- MODULE Clint --------------------------------
(***************************************************************************)
(* The timer: the comparator of src/clint.c, the SBI call that programs    *)
(* it, and the part of cpu_step that polls it before delivering.           *)
(*                                                                         *)
(* The code compares the ever-growing 64-bit steps with mtimecmp and with  *)
(* nothing else, so only the distance between the two is kept: left is     *)
(* mtimecmp - steps, 0 once the deadline has passed, Never for the         *)
(* deadline UINT64_MAX that steps does not reach.                          *)
(*                                                                         *)
(* The guest is arbitrary: it may program any deadline, enable, mask and   *)
(* open interrupts at any time, inside a handler too, so that handlers     *)
(* nest, or leave them closed for as long as it likes.  The interrupts are *)
(* delegated to S-mode, as cpu_init and sbi_init leave them; a SEIP is     *)
(* whatever the PLIC makes of it (module Plic).                            *)
(***************************************************************************)
EXTENDS Integers

CONSTANT MaxDelta   \* bound on how far ahead a deadline is set

ASSUME ClintAssumption == MaxDelta \in Nat \ {0}

Never == MaxDelta + 1
Deadlines == 0 .. Never   \* 0: already past when it is programmed

SSIP == 1
STIP == 5
SEIP == 9
Irqs == {SSIP, STIP, SEIP}
NoIrq == 0

VARIABLES left,    \* distance to mtimecmp
          mip,     \* pending interrupts
          mie,     \* enabled ones
          open,    \* in U-mode, or in S-mode with SIE set
          taken    \* the interrupt that the last step took, or NoIrq

vars == <<left, mip, mie, open, taken>>

Init == /\ left = Never
        /\ mip = {} /\ mie = {}
        /\ open = FALSE /\ taken = NoIrq

-----------------------------------------------------------------------------
(* cpu->steps++ at the start of cpu_step.                                  *)
Elapsed == IF left \in {0, Never} THEN left ELSE left - 1

(* Mutants: STIP is never lowered; it is raised only on the very step that *)
(* reaches the deadline.                                                   *)
Polled_Sticky(ext) ==
    (mip \ {SEIP}) \cup ext \cup (IF Elapsed = 0 THEN {STIP} ELSE {})
Polled_OnEqual(ext) ==
    (mip \ {STIP, SEIP}) \cup ext \cup (IF Elapsed = 0 /\ left # 0 THEN {STIP} ELSE {})

(* mip after the sources are polled: STIP follows the comparator in both   *)
(* directions (clint_irq_source); ext is {SEIP} or {}, as the devices and  *)
(* the PLIC leave that wire.                                               *)
Polled(ext) ==
    (mip \ {STIP, SEIP}) \cup ext \cup (IF Elapsed = 0 THEN {STIP} ELSE {})

(* Bits are scanned downwards: external, timer, software.                  *)
Highest(pending) == CHOOSE bit \in pending : \A other \in pending : other <= bit

(* The trap enters S-mode with SIE cleared.                                *)
Trap(ext) ==
    LET pending == Polled(ext) \cap mie
    IN  /\ open /\ pending # {}
        /\ mip' = Polled(ext) /\ left' = Elapsed
        /\ taken' = Highest(pending) /\ open' = FALSE
        /\ UNCHANGED mie

(* A step that delivers nothing and executes an instruction.               *)
Instruction(ext) ==
    /\ ~(open /\ Polled(ext) \cap mie # {})
    /\ taken' = NoIrq

(* SBI SET_TIMER: lowers STIP, then sets mtimecmp.                         *)
sbi_set_timer(ext, deadline) ==
    /\ Instruction(ext)
    /\ mip' = Polled(ext) \ {STIP} /\ left' = deadline
    /\ UNCHANGED <<mie, open>>

(* A store to mtimecmp: clint_write does not touch mip.                    *)
clint_write_mtimecmp(ext, deadline) ==
    /\ Instruction(ext)
    /\ mip' = Polled(ext) /\ left' = deadline
    /\ UNCHANGED <<mie, open>>

(* CSR writes: sie or mie, and sip (SSIP only) or mip (any bit, by a bare  *)
(* program in M-mode).                                                     *)
csr_write_mie(ext, bits) ==
    /\ Instruction(ext)
    /\ mip' = Polled(ext) /\ left' = Elapsed
    /\ mie' = bits /\ UNCHANGED open
csr_write_mip(ext, bits) ==
    /\ Instruction(ext)
    /\ mip' = bits /\ left' = Elapsed
    /\ UNCHANGED <<mie, open>>

(* Whatever changes the mode or SIE: a write to sstatus, in a handler or   *)
(* not, sret and mret, a system call or an exception.                      *)
SetOpen(ext, value) ==
    /\ Instruction(ext)
    /\ mip' = Polled(ext) /\ left' = Elapsed
    /\ open' = value /\ UNCHANGED mie

(* Any other instruction, stores to mtime included.                        *)
Other(ext) ==
    /\ Instruction(ext)
    /\ mip' = Polled(ext) /\ left' = Elapsed
    /\ UNCHANGED <<mie, open>>

cpu_step ==
    \E ext \in SUBSET {SEIP} :
        \/ Trap(ext)
        \/ \E deadline \in Deadlines :
              sbi_set_timer(ext, deadline) \/ clint_write_mtimecmp(ext, deadline)
        \/ \E bits \in SUBSET Irqs : csr_write_mie(ext, bits) \/ csr_write_mip(ext, bits)
        \/ \E value \in BOOLEAN : SetOpen(ext, value)
        \/ Other(ext)

Next == cpu_step

Spec == Init /\ [][Next]_vars

-----------------------------------------------------------------------------
(* Registers in range.                                                     *)
TypeOK ==
    /\ left \in Deadlines
    /\ mip \in SUBSET Irqs /\ mie \in SUBSET Irqs
    /\ open \in BOOLEAN /\ taken \in Irqs \cup {NoIrq}

(* No stale tick: a timer trap is taken only if the deadline programmed    *)
(* last has passed, even though a store to mtimecmp or to mip leaves STIP  *)
(* set.  It rests on cpu_step polling before it delivers.                  *)
NoStaleTick == [][taken' = STIP => left' = 0]_vars

(* No late tick: once the deadline has passed with timer interrupts        *)
(* enabled and open, not one more instruction executes.  The step takes    *)
(* the timer trap, and only an enabled external interrupt, which has       *)
(* priority, can go first.  The hard cases are a deadline already in the   *)
(* past when SET_TIMER programs it (and clears STIP), one that expires     *)
(* with interrupts closed or in a handler, and a software interrupt        *)
(* pending beside it.                                                      *)
NoLateTick ==
    [][open /\ STIP \in mie /\ Elapsed = 0 =>
        taken' = STIP \/ (taken' = SEIP /\ SEIP \in mip' \cap mie)]_vars
=============================================================================
