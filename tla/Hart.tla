-------------------------------- MODULE Hart --------------------------------
(***************************************************************************)
(* The hart of src/cpu.c and the firmware of src/sbi.c: privilege level,   *)
(* trap CSRs, interrupt delivery, trap return, and the SBI calls that the  *)
(* host handles in place of an M-mode program.  One step of this module is *)
(* one call of cpu_step: poll the interrupt sources, then deliver an       *)
(* interrupt or fetch and execute one instruction.                         *)
(*                                                                         *)
(* Mask registers are sets of bit numbers.  A trap cause is a number below *)
(* 64, plus Interrupt (standing for bit 63) for interrupts.  What the      *)
(* instruction computes is left out; what it does to the program counter,  *)
(* the privilege level, the trap CSRs and the run state is kept.           *)
(*                                                                         *)
(* sframe and mframe are history variables: what the last trap into that   *)
(* mode interrupted, for as long as the guest has not itself rewritten the *)
(* CSRs that hold it.                                                      *)
(***************************************************************************)
EXTENDS Integers

CONSTANTS AddrSpace,    \* addresses are 0 .. AddrSpace - 1, arithmetic wraps
          Entry,        \* the loaded program's entry point
          Targets,      \* addresses that jumps and CSR writes may produce
          Masks,        \* bit sets that CSR instructions may be given, by boot mode
          Csrs          \* the CSRs that the guest program writes, by boot mode

Addr == 0 .. (AddrSpace - 1)
Bit  == 0 .. 63

ASSUME HartAssumption == /\ AddrSpace \in Nat \ {0}
                         /\ Entry \in Addr
                         /\ Targets \subseteq Addr
                         /\ \A boot \in BOOLEAN : Masks[boot] \subseteq SUBSET Bit

PRIV_U == 0
PRIV_S == 1
PRIV_M == 3

\* bits of mstatus; MPP0 and MPP1 are the two of the field MPP
SIE  == 1
MIE  == 3
SPIE == 5
MPIE == 7
SPP  == 8
MPP0 == 11
MPP1 == 12
SSTATUS_MASK == {SIE, SPIE, SPP, 13, 14, 18, 19}
\* bits of mip and mie
SSIP == 1
STIP == 5
SEIP == 9

\* trap causes
ILLEGAL_INSTR    == 2
BREAKPOINT       == 3
ECALL_U          == 8
FETCH_PAGE_FAULT == 12
LOAD_PAGE_FAULT  == 13
STORE_PAGE_FAULT == 15
Interrupt        == 64

SATP_MODE_BARE == 0
SATP_MODE_SV39 == 8
SatpModes == {SATP_MODE_BARE, SATP_MODE_SV39, 9}   \* 9: any unsupported mode

INSN_SIZE == 4
Sizes == {2, 4}   \* compressed and full-width instructions

VARIABLES kernel_boot,   \* TRUE: linux and kernel modes of main; FALSE: elf mode
          privilege, pc, mstatus, mie, mip, mideleg, medeleg,
          sepc, mepc, stvec, mtvec,
          satp,     \* the mode field of satp
          run,      \* "running", "halted" (the main loop ends) or "exit"
          sframe, mframe

masks   == <<mie, mideleg, medeleg>>
vectors == <<stvec, mtvec>>
frames  == <<sframe, mframe>>
vars == <<kernel_boot, privilege, pc, mstatus, mie, mip, mideleg, medeleg, sepc, mepc,
          stvec, mtvec, satp, run, sframe, mframe>>

NoFrame == [live |-> FALSE, pc |-> 0, privilege |-> 0, ie |-> FALSE]
Frame   == [live : BOOLEAN, pc : Addr, privilege : 0 .. 3, ie : BOOLEAN]

-----------------------------------------------------------------------------
(* cpu_init, and for the linux and kernel modes sbi_init on top of it.     *)
Init ==
    /\ kernel_boot \in BOOLEAN
    /\ privilege = IF kernel_boot THEN PRIV_S ELSE PRIV_M
    /\ pc = Entry
    /\ mstatus = IF kernel_boot THEN {MPP0, MPIE} ELSE {}
    /\ mie = {} /\ mip = {}
    /\ mideleg = IF kernel_boot THEN {SSIP, STIP, SEIP} ELSE 0 .. 15
    /\ medeleg = IF kernel_boot THEN 0 .. 8 \cup {12, 13, 15} ELSE 0 .. 15
    /\ sepc = 0 /\ mepc = 0 /\ stvec = 0 /\ mtvec = 0
    /\ satp = SATP_MODE_BARE
    /\ run = "running"
    /\ sframe = NoFrame /\ mframe = NoFrame

-----------------------------------------------------------------------------
Plus(address, n) == (address + n) % AddrSpace

(* tvec & ~3: the mode bits are dropped, every trap enters at the base.    *)
Base(tvec) == tvec - (tvec % 4)

If(condition, bit) == IF condition THEN {bit} ELSE {}

(* The two-bit field MPP of an mstatus value, and the bits of a level.     *)
MPP(status) == (IF MPP0 \in status THEN 1 ELSE 0) + (IF MPP1 \in status THEN 2 ELSE 0)
MPPBits(level) == If(level \in {1, 3}, MPP0) \cup If(level \in {2, 3}, MPP1)

to_s(cause) ==
    /\ privilege <= PRIV_S
    /\ IF cause >= Interrupt THEN (cause - Interrupt) \in mideleg ELSE cause \in medeleg

TrapVector(cause) == Base(IF to_s(cause) THEN stvec ELSE mtvec)

(* Mutant: MPP is not cleared before the new level is put in.              *)
TrapToM_MppSticky ==
    /\ mepc' = pc
    /\ mstatus' = (mstatus \ {MIE, MPIE})
                    \cup If(MIE \in mstatus, MPIE) \cup MPPBits(privilege)
    /\ privilege' = PRIV_M
    /\ mframe' = [live |-> TRUE, pc |-> pc, privilege |-> privilege, ie |-> MIE \in mstatus]
    /\ UNCHANGED <<sepc, sframe>>

(* The two halves of cpu_trap, without the assignment to pc.               *)
TrapToS ==
    /\ sepc' = pc
    /\ mstatus' = (mstatus \ {SIE, SPIE, SPP})
                    \cup If(SIE \in mstatus, SPIE) \cup If(privilege = PRIV_S, SPP)
    /\ privilege' = PRIV_S
    /\ sframe' = [live |-> TRUE, pc |-> pc, privilege |-> privilege, ie |-> SIE \in mstatus]
    /\ UNCHANGED <<mepc, mframe>>

TrapToM ==
    /\ mepc' = pc
    /\ mstatus' = (mstatus \ {MIE, MPIE, MPP0, MPP1})
                    \cup If(MIE \in mstatus, MPIE) \cup MPPBits(privilege)
    /\ privilege' = PRIV_M
    /\ mframe' = [live |-> TRUE, pc |-> pc, privilege |-> privilege, ie |-> MIE \in mstatus]
    /\ UNCHANGED <<sepc, sframe>>

TrapState(cause) ==
    /\ IF to_s(cause) THEN TrapToS ELSE TrapToM
    /\ UNCHANGED <<masks, vectors, satp, run>>

cpu_trap(cause) == TrapState(cause) /\ pc' = TrapVector(cause)

-----------------------------------------------------------------------------
(* The sources are polled at the start of every step.  clint_irq_source    *)
(* sets or clears STIP; SEIP follows the PLIC, which the UART poll and     *)
(* MMIO accesses of the previous instruction may have changed.             *)
Polled == {(mip \ {STIP, SEIP}) \cup lines : lines \in SUBSET {STIP, SEIP}}

(* Mutant: the enable bit of the current mode is not consulted.            *)
MDeliverable_NoMie(m) == ((m \cap mie) \ mideleg) \cap 0 .. 11

(* cpu_check_interrupts on the polled mip value m: the bits its two loops  *)
(* would find.  The first loop has precedence; a loop that finds nothing   *)
(* in its range of bits falls through.                                     *)
MDeliverable(m) ==
    {bit \in ((m \cap mie) \ mideleg) \cap 0 .. 11 : privilege < PRIV_M \/ MIE \in mstatus}
SDeliverable(m) ==
    {bit \in (m \cap mie \cap mideleg) \cap 0 .. 9 :
        privilege = PRIV_U \/ (privilege = PRIV_S /\ SIE \in mstatus)}
Deliverable(m) == IF MDeliverable(m) # {} THEN MDeliverable(m) ELSE SDeliverable(m)

TakeInterrupt(m) ==
    \E bit \in Deliverable(m) :
        /\ \A other \in Deliverable(m) : other <= bit
        /\ cpu_trap(Interrupt + bit)
        /\ mip' = m

-----------------------------------------------------------------------------
mmu_active == privilege # PRIV_M /\ satp = SATP_MODE_SV39

(* mmu_translate trapped: the instruction does not advance pc any further. *)
PageFault(m) ==
    /\ mmu_active
    /\ \E cause \in {FETCH_PAGE_FAULT, LOAD_PAGE_FAULT, STORE_PAGE_FAULT} : cpu_trap(cause)
    /\ mip' = m

(* LR, SC and AMO return to execute after a fault, and execute then adds   *)
(* the instruction size to the pc that cpu_trap has just set.              *)
AtomicPageFault(m) ==
    /\ mmu_active
    /\ \E cause \in {LOAD_PAGE_FAULT, STORE_PAGE_FAULT} :
          TrapState(cause) /\ pc' = Plus(TrapVector(cause), INSN_SIZE)
    /\ mip' = m

(* Untranslated, the address 2^64-1 is mistaken for MMU_FAULT: the access  *)
(* is abandoned with no trap taken and pc left on the instruction.         *)
AccessAtMax(m) ==
    /\ ~mmu_active
    /\ mip' = m
    /\ UNCHANGED <<privilege, pc, mstatus, masks, sepc, mepc, vectors, satp, run, frames>>

(* Arithmetic, loads, stores, fences, untaken branches, WFI, SFENCE.VMA.   *)
Exec(m, size) ==
    /\ pc' = Plus(pc, size)
    /\ mip' = m
    /\ UNCHANGED <<privilege, mstatus, masks, sepc, mepc, vectors, satp, run, frames>>

Jump(m, target) ==
    /\ pc' = target
    /\ mip' = m
    /\ UNCHANGED <<privilege, mstatus, masks, sepc, mepc, vectors, satp, run, frames>>

(* Unknown encodings and accesses outside every region call exit(1).       *)
Abort(m) ==
    /\ run' = "exit"
    /\ mip' = m
    /\ UNCHANGED <<privilege, pc, mstatus, masks, sepc, mepc, vectors, satp, frames>>

-----------------------------------------------------------------------------
Ecall(m) ==
    /\ privilege # PRIV_S
    /\ cpu_trap(ECALL_U + privilege)
    /\ mip' = m

(* sbi_ecall: SET_TIMER lowers STIP, RESET ends the main loop, the other   *)
(* calls only answer in a0 and a1.                                         *)
sbi_ecall(m) ==
    /\ privilege = PRIV_S
    /\ \/ mip' = m \ {STIP} /\ run' = run
       \/ mip' = m /\ run' \in {run, "halted"}
    /\ pc' = Plus(pc, INSN_SIZE)
    /\ UNCHANGED <<privilege, mstatus, masks, sepc, mepc, vectors, satp, frames>>

Ebreak(m) == cpu_trap(BREAKPOINT) /\ mip' = m

(* SRET or MRET below its privilege, and a CSR instruction below min_priv. *)
IllegalInstr(m) ==
    /\ privilege < PRIV_M
    /\ cpu_trap(ILLEGAL_INSTR)
    /\ mip' = m

(* Mutant: the saved interrupt enable is not put back.                     *)
Sret_NoSie(m) ==
    /\ privilege >= PRIV_S
    /\ privilege' = IF SPP \in mstatus THEN PRIV_S ELSE PRIV_U
    /\ mstatus' = (mstatus \ {SPP, SIE}) \cup {SPIE}
    /\ pc' = sepc
    /\ mip' = m
    /\ sframe' = NoFrame
    /\ UNCHANGED <<masks, sepc, mepc, vectors, satp, run, mframe>>

Sret(m) ==
    /\ privilege >= PRIV_S
    /\ privilege' = IF SPP \in mstatus THEN PRIV_S ELSE PRIV_U
    /\ mstatus' = ((mstatus \ {SPP, SIE}) \cup If(SPIE \in mstatus, SIE)) \cup {SPIE}
    /\ pc' = sepc
    /\ mip' = m
    /\ sframe' = NoFrame
    /\ UNCHANGED <<masks, sepc, mepc, vectors, satp, run, mframe>>

Mret(m) ==
    /\ privilege >= PRIV_M
    /\ privilege' = MPP(mstatus)
    /\ mstatus' = ((mstatus \ {MPP0, MPP1, MIE}) \cup If(MPIE \in mstatus, MIE)) \cup {MPIE}
    /\ pc' = mepc
    /\ mip' = m
    /\ mframe' = NoFrame
    /\ UNCHANGED <<masks, sepc, mepc, vectors, satp, run, sframe>>

-----------------------------------------------------------------------------
(* CSR instructions, in three groups: masks, addresses, satp.  m is the    *)
(* polled mip.                                                             *)
MaskCsrs == {"mstatus", "mie", "mip", "mideleg", "medeleg", "sstatus", "sie", "sip"}
AddrCsrs == {"mepc", "mtvec", "sepc", "stvec"}

(* Mutant: every CSR is open to S-mode.                                    *)
min_priv_Flat(csr) == PRIV_S

min_priv(csr) ==
    IF csr \in {"sstatus", "sie", "sip", "sepc", "stvec", "satp"} THEN PRIV_S ELSE PRIV_M

csr_read(csr, m) ==
    CASE csr = "mstatus" -> mstatus
      [] csr = "sstatus" -> mstatus \cap SSTATUS_MASK
      [] csr = "mie"     -> mie
      [] csr = "sie"     -> mie \cap mideleg
      [] csr = "mip"     -> m
      [] csr = "sip"     -> m \cap mideleg
      [] csr = "mideleg" -> mideleg
      [] csr = "medeleg" -> medeleg

Merge(old, mask, val) == (old \ mask) \cup (val \cap mask)

csr_write(csr, m, val) ==
    /\ mstatus' = CASE csr = "mstatus" -> val
                    [] csr = "sstatus" -> Merge(mstatus, SSTATUS_MASK, val)
                    [] OTHER -> mstatus
    /\ mie' = CASE csr = "mie" -> val
                [] csr = "sie" -> Merge(mie, mideleg, val)
                [] OTHER -> mie
    /\ mip' = CASE csr = "mip" -> val
                [] csr = "sip" -> Merge(m, {SSIP}, val)
                [] OTHER -> m
    /\ mideleg' = IF csr = "mideleg" THEN val ELSE mideleg
    /\ medeleg' = IF csr = "medeleg" THEN val ELSE medeleg
    /\ sframe' = IF csr \in {"mstatus", "sstatus"} THEN NoFrame ELSE sframe
    /\ mframe' = IF csr = "mstatus" THEN NoFrame ELSE mframe

(* csrrw, csrrs and csrrc: what is written for the operand src.            *)
new_val(op, old, src) ==
    CASE op = "rw" -> src [] op = "rs" -> old \cup src [] op = "rc" -> old \ src

CsrMask(m, csr, op, src) ==
    /\ privilege >= min_priv(csr)
    /\ csr_write(csr, m, new_val(op, csr_read(csr, m), src))
    /\ pc' = Plus(pc, INSN_SIZE)
    /\ UNCHANGED <<privilege, sepc, mepc, vectors, satp, run>>

CsrAddr(m, csr, val) ==
    /\ privilege >= min_priv(csr)
    /\ mepc'  = IF csr = "mepc"  THEN val ELSE mepc
    /\ mtvec' = IF csr = "mtvec" THEN val ELSE mtvec
    /\ sepc'  = IF csr = "sepc"  THEN val ELSE sepc
    /\ stvec' = IF csr = "stvec" THEN val ELSE stvec
    /\ sframe' = IF csr = "sepc" THEN NoFrame ELSE sframe
    /\ mframe' = IF csr = "mepc" THEN NoFrame ELSE mframe
    /\ pc' = Plus(pc, INSN_SIZE)
    /\ mip' = m
    /\ UNCHANGED <<privilege, mstatus, masks, satp, run>>

(* Mutant: any mode is kept.                                               *)
CsrSatp_AnyMode(m, mode) ==
    /\ privilege >= min_priv("satp")
    /\ satp' = mode
    /\ pc' = Plus(pc, INSN_SIZE)
    /\ mip' = m
    /\ UNCHANGED <<privilege, mstatus, masks, sepc, mepc, vectors, run, frames>>

(* satp keeps only the modes the code supports, any other becomes bare.    *)
CsrSatp(m, mode) ==
    /\ privilege >= min_priv("satp")
    /\ satp' = IF mode \in {SATP_MODE_BARE, SATP_MODE_SV39} THEN mode ELSE SATP_MODE_BARE
    /\ pc' = Plus(pc, INSN_SIZE)
    /\ mip' = m
    /\ UNCHANGED <<privilege, mstatus, masks, sepc, mepc, vectors, run, frames>>

-----------------------------------------------------------------------------
execute(m) ==
    \/ PageFault(m)
    \/ AtomicPageFault(m)
    \/ AccessAtMax(m)
    \/ \E size \in Sizes : Exec(m, size)
    \/ \E target \in Targets : Jump(m, target)
    \/ Abort(m)
    \/ Ecall(m)
    \/ sbi_ecall(m)
    \/ Ebreak(m)
    \/ IllegalInstr(m)
    \/ Sret(m)
    \/ Mret(m)
    \/ \E csr \in MaskCsrs \cap Csrs[kernel_boot], src \in Masks[kernel_boot] :
          \E op \in {"rw", "rs", "rc"} : CsrMask(m, csr, op, src)
    \/ \E csr \in AddrCsrs \cap Csrs[kernel_boot], val \in Targets : CsrAddr(m, csr, val)
    \/ \E mode \in SatpModes : "satp" \in Csrs[kernel_boot] /\ CsrSatp(m, mode)

cpu_step ==
    /\ run = "running" /\ UNCHANGED kernel_boot
    /\ \E m \in Polled :
          \/ TakeInterrupt(m)
          \/ Deliverable(m) = {} /\ execute(m)

(* The main loop has ended, or the process has exited.                     *)
Stopped == run # "running" /\ UNCHANGED vars

Next == cpu_step \/ Stopped

Spec == Init /\ [][Next]_vars
-----------------------------------------------------------------------------
(* Registers stay in range; in particular satp only ever holds a mode that *)
(* mmu_active tells apart, and pc stays inside the wrapped address space.  *)
TypeOK ==
    /\ kernel_boot \in BOOLEAN
    /\ privilege \in 0 .. 3
    /\ pc \in Addr /\ sepc \in Addr /\ mepc \in Addr /\ stvec \in Addr /\ mtvec \in Addr
    /\ mstatus \subseteq Bit /\ mie \subseteq Bit /\ mip \subseteq Bit
    /\ mideleg \subseteq Bit /\ medeleg \subseteq Bit
    /\ satp \in {SATP_MODE_BARE, SATP_MODE_SV39}
    /\ run \in {"running", "halted", "exit"}
    /\ sframe \in Frame /\ mframe \in Frame

(* There is no firmware in M-mode: after sbi_init the kernel and its user  *)
(* programs run in S and U for ever, and no trap, interrupt, CSR write or  *)
(* trap return ever reaches M-mode, whose mtvec is 0 and maps nothing.     *)
(* It takes sbi_init's delegation masks, the privilege check of the CSR    *)
(* instructions, the sip and sie views and sret together.                  *)
KernelStaysBelowM == kernel_boot => privilege \in {PRIV_U, PRIV_S}

(* The strengthening that makes it inductive: the delegation registers     *)
(* keep what sbi_init wrote, and no interrupt that is not delegated can    *)
(* become pending.                                                         *)
KernelInv ==
    kernel_boot => /\ privilege \in {PRIV_U, PRIV_S}
                  /\ mideleg = {SSIP, STIP, SEIP}
                  /\ medeleg = 0 .. 8 \cup {12, 13, 15}
                  /\ mip \subseteq {SSIP, STIP, SEIP}

(* The trap CSRs of a mode describe the context that the last trap into    *)
(* that mode interrupted, and the mode's interrupts are off.               *)
SFrameIntact ==
    sframe.live => /\ sepc = sframe.pc
                   /\ sframe.privilege = IF SPP \in mstatus THEN PRIV_S ELSE PRIV_U
                   /\ SPIE \in mstatus <=> sframe.ie
                   /\ SIE \notin mstatus
MFrameIntact ==
    mframe.live => /\ mepc = mframe.pc
                   /\ mframe.privilege = MPP(mstatus)
                   /\ MPIE \in mstatus <=> mframe.ie
                   /\ MIE \notin mstatus

(* As long as the guest leaves the trap CSRs of a mode alone, no trap into *)
(* the other mode, return from it or access to a restricted view disturbs  *)
(* them: cpu_trap, sret, mret and the sstatus view share one mstatus.      *)
FrameIntact == SFrameIntact /\ MFrameIntact

(* sret and mret undo the trap: pc, privilege level and interrupt enable   *)
(* are what they were when it was taken.                                   *)
ReturnRestores ==
    [][\A m \in Polled :
        /\ Sret(m) /\ sframe.live => /\ pc' = sframe.pc /\ privilege' = sframe.privilege
                                     /\ (SIE \in mstatus)' <=> sframe.ie
        /\ Mret(m) /\ mframe.live => /\ pc' = mframe.pc /\ privilege' = mframe.privilege
                                     /\ (MIE \in mstatus)' <=> mframe.ie]_vars

(* An interrupt never enters a mode below the current one, never preempts  *)
(* its own mode with the enable bit clear, and lands in the mode that its  *)
(* delegation bit names with that mode's interrupts off:                   *)
(* cpu_check_interrupts and cpu_trap, which decide separately where it     *)
(* goes, agree.                                                            *)
InterruptsRespectMasks ==
    [][\A m \in Polled : TakeInterrupt(m) =>
        /\ privilege' >= privilege
        /\ privilege' = PRIV_S => m \cap mie \cap mideleg # {} /\ SIE \notin mstatus'
        /\ privilege' = PRIV_M => (m \cap mie) \ mideleg # {} /\ MIE \notin mstatus'
        /\ privilege' = privilege => (IF privilege = PRIV_M THEN MIE ELSE SIE) \in mstatus]_vars

-----------------------------------------------------------------------------
(* include/mmu.h says that when mmu_translate reports a fault, cpu_trap    *)
(* was called and pc updated: the next instruction is the first one of the *)
(* handler.  Not so for LR, SC and AMO, where pc moves on by 4.            *)
TrapEntersAtVector ==
    [][(sframe'.live /\ sframe' # sframe) => pc' = Base(stvec)]_vars

=============================================================================
