----------------------------- MODULE HartProofs -----------------------------
(***************************************************************************)
(* Proofs about the hart for every address space, every boot mode and      *)
(* every set of values that the guest may write.                           *)
(***************************************************************************)
EXTENDS Hart, TLAPS

-----------------------------------------------------------------------------
(* Operators.                                                              *)

(* Address arithmetic stays inside the address space.                      *)
LEMMA PlusInAddr ==
    ASSUME NEW address \in Addr, NEW n \in Nat
    PROVE  Plus(address, n) \in Addr
BY HartAssumption DEF Plus, Addr

(* The base of a trap vector is an address at or below the vector.         *)
LEMMA BaseInAddr ==
    ASSUME NEW tvec \in Addr
    PROVE  Base(tvec) \in Addr
BY HartAssumption DEF Base, Addr

(* The field MPP is two bits wide, and MPPBits sets it to what MPP reads.  *)
LEMMA MPPInRange ==
    ASSUME NEW status
    PROVE  MPP(status) \in 0 .. 3
BY DEF MPP

(* The two bits of MPP give back the privilege level written to them.      *)
LEMMA MPPRoundTrip ==
    ASSUME NEW level \in 0 .. 3, NEW rest, MPP0 \notin rest, MPP1 \notin rest
    PROVE  MPP(rest \cup MPPBits(level)) = level
<1> DEFINE status == rest \cup MPPBits(level)
<1>1. MPP0 \in status <=> level \in {1, 3}
  BY DEF MPPBits, If, MPP0, MPP1
<1>2. MPP1 \in status <=> level \in {2, 3}
  BY DEF MPPBits, If, MPP0, MPP1
<1> HIDE DEF status
<1>3. MPP(status) = level
  BY <1>1, <1>2 DEF MPP
<1> QED
  BY <1>3 DEF status

(* A polled mip differs from the old one in the two device bits only.      *)
LEMMA PolledInRange ==
    ASSUME NEW m \in Polled, NEW S, mip \subseteq S, STIP \in S, SEIP \in S
    PROVE  m \subseteq S
BY DEF Polled

-----------------------------------------------------------------------------
(* Type correctness.                                                       *)

(* What a trap assigns is in range, pc apart.                              *)
LEMMA TrapStateType ==
    ASSUME TypeOK, NEW cause, TrapState(cause)
    PROVE  /\ privilege' \in 0 .. 3 /\ mstatus' \subseteq Bit
           /\ sepc' \in Addr /\ mepc' \in Addr
           /\ sframe' \in Frame /\ mframe' \in Frame
           /\ UNCHANGED <<mie, mideleg, medeleg, stvec, mtvec, satp, run>>
<1>1. CASE TrapToS
  BY <1>1 DEF TrapState, TrapToS, TypeOK, Frame, Bit, If, SIE, SPIE, SPP, PRIV_S,
              masks, vectors
<1>2. CASE TrapToM
  BY <1>2 DEF TrapState, TrapToM, TypeOK, Frame, Bit, If, MPPBits, MIE, MPIE, MPP0, MPP1,
              PRIV_M, masks, vectors
<1> QED
  BY <1>1, <1>2 DEF TrapState

(* A trap vector is an address.                                            *)
LEMMA TrapVectorType ==
    ASSUME TypeOK, NEW cause
    PROVE  TrapVector(cause) \in Addr
BY BaseInAddr DEF TypeOK, TrapVector

(* A trap keeps the types.                                                 *)
LEMMA TrapType ==
    ASSUME TypeOK, NEW cause, cpu_trap(cause), mip' \subseteq Bit, UNCHANGED kernel_boot
    PROVE  TypeOK'
BY TrapStateType, TrapVectorType DEF TypeOK, cpu_trap

(* Reading a mask CSR, and combining it with an operand, gives a bit set.  *)
LEMMA CsrValueType ==
    ASSUME TypeOK, NEW m, m \subseteq Bit, NEW csr \in MaskCsrs,
           NEW op \in {"rw", "rs", "rc"}, NEW src \in Masks[kernel_boot]
    PROVE  new_val(op, csr_read(csr, m), src) \subseteq Bit
<1>1. src \subseteq Bit
  BY HartAssumption DEF TypeOK
<1>2. csr_read(csr, m) \subseteq Bit
  BY DEF csr_read, MaskCsrs, TypeOK
<1> QED
  BY <1>1, <1>2 DEF new_val

(* Writing a bit set to a mask CSR leaves bit sets in all of them.         *)
LEMMA CsrWriteType ==
    ASSUME TypeOK, NEW m, m \subseteq Bit, NEW csr, NEW val, val \subseteq Bit,
           csr_write(csr, m, val)
    PROVE  /\ mstatus' \subseteq Bit /\ mie' \subseteq Bit /\ mip' \subseteq Bit
           /\ mideleg' \subseteq Bit /\ medeleg' \subseteq Bit
           /\ sframe' \in Frame /\ mframe' \in Frame
<1>1. NoFrame \in Frame
  BY HartAssumption DEF NoFrame, Frame, Addr
<1> QED
  BY <1>1 DEF csr_write, Merge, TypeOK

(* Every register keeps its range, whatever the guest executes.            *)
THEOREM TypeCorrect == Spec => []TypeOK
<1> NoFrame \in Frame
  BY HartAssumption DEF NoFrame, Frame, Addr
<1>1. Init => TypeOK
  BY HartAssumption
  DEF Init, TypeOK, Addr, Bit, PRIV_S, PRIV_M, MPP0, MPIE, SSIP, STIP, SEIP,
      SATP_MODE_BARE, SATP_MODE_SV39
<1>2. TypeOK /\ [Next]_vars => TypeOK'
  <2> SUFFICES ASSUME TypeOK, [Next]_vars PROVE TypeOK'
    OBVIOUS
  <2>1. ASSUME NEW m \in Polled, TakeInterrupt(m) \/ execute(m), UNCHANGED kernel_boot
        PROVE  TypeOK'
    <3> USE <2>1
    <3>0. m \subseteq Bit
      <4>1. STIP \in Bit /\ SEIP \in Bit /\ mip \subseteq Bit
        BY DEF TypeOK, Bit, STIP, SEIP
      <4> QED
        BY <4>1, PolledInRange
    <3>1. CASE TakeInterrupt(m)
      BY <3>0, <3>1, TrapType DEF TakeInterrupt
    <3>2. CASE PageFault(m)
      BY <3>0, <3>2, TrapType DEF PageFault
    <3>3. CASE AtomicPageFault(m)
      <4> PICK cause \in {LOAD_PAGE_FAULT, STORE_PAGE_FAULT} :
                 TrapState(cause) /\ pc' = Plus(TrapVector(cause), INSN_SIZE)
        BY <3>3 DEF AtomicPageFault
      <4> QED
        BY <3>0, <3>3, TrapStateType, TrapVectorType, PlusInAddr
        DEF AtomicPageFault, TypeOK, INSN_SIZE
    <3>4. CASE AccessAtMax(m)
      BY <3>0, <3>4 DEF AccessAtMax, TypeOK, masks, vectors, frames
    <3>5. ASSUME NEW size \in Sizes, Exec(m, size) PROVE TypeOK'
      BY <3>0, <3>5, PlusInAddr DEF Exec, TypeOK, Sizes, masks, vectors, frames
    <3>6. ASSUME NEW target \in Targets, Jump(m, target) PROVE TypeOK'
      BY <3>0, <3>6, HartAssumption DEF Jump, TypeOK, masks, vectors, frames
    <3>7. CASE Abort(m)
      BY <3>0, <3>7 DEF Abort, TypeOK, masks, vectors, frames
    <3>8. CASE Ecall(m)
      BY <3>0, <3>8, TrapType DEF Ecall
    <3>9. CASE sbi_ecall(m)
      BY <3>0, <3>9, PlusInAddr DEF sbi_ecall, TypeOK, INSN_SIZE, masks, vectors, frames
    <3>10. CASE Ebreak(m)
      BY <3>0, <3>10, TrapType DEF Ebreak
    <3>11. CASE IllegalInstr(m)
      BY <3>0, <3>11, TrapType DEF IllegalInstr
    <3>12. CASE Sret(m)
      BY <3>0, <3>12
      DEF Sret, TypeOK, Bit, If, SPP, SIE, SPIE, PRIV_S, PRIV_U, masks, vectors
    <3>13. CASE Mret(m)
      <4>1. privilege' \in 0 .. 3
        BY <3>13, MPPInRange DEF Mret
      <4>2. mstatus' \subseteq Bit
        <5>1. MIE \in Bit /\ MPIE \in Bit
          BY DEF Bit, MIE, MPIE
        <5> QED
          BY <3>13, <5>1 DEF Mret, TypeOK, If
      <4> QED
        BY <3>0, <3>13, <4>1, <4>2 DEF Mret, TypeOK, masks, vectors
    <3>14. ASSUME NEW csr \in MaskCsrs, NEW op \in {"rw", "rs", "rc"}, NEW src \in Masks[kernel_boot],
                  CsrMask(m, csr, op, src)
           PROVE  TypeOK'
      BY <3>0, <3>14, CsrValueType, CsrWriteType, PlusInAddr
      DEF CsrMask, TypeOK, INSN_SIZE, vectors
    <3>15. ASSUME NEW csr \in AddrCsrs, NEW val \in Targets, CsrAddr(m, csr, val)
           PROVE  TypeOK'
      BY <3>0, <3>15, HartAssumption, PlusInAddr DEF CsrAddr, TypeOK, INSN_SIZE, masks
    <3>16. ASSUME NEW mode, CsrSatp(m, mode) PROVE TypeOK'
      BY <3>0, <3>16, PlusInAddr DEF CsrSatp, TypeOK, INSN_SIZE, masks, vectors, frames
    <3> QED
      BY <2>1, <3>1, <3>2, <3>3, <3>4, <3>5, <3>6, <3>7, <3>8, <3>9, <3>10, <3>11, <3>12,
         <3>13, <3>14, <3>15, <3>16 DEF execute
  <2>2. CASE UNCHANGED vars
    BY <2>2 DEF vars, TypeOK
  <2> QED
    BY <2>1, <2>2 DEF Next, cpu_step, Stopped
<1> QED
  BY <1>1, <1>2, PTL DEF Spec

-----------------------------------------------------------------------------
(* The kernel never reaches M-mode.                                        *)

(* Under sbi_init's delegation every exception of S- and U-mode, and every *)
(* interrupt that can be pending, is taken in S-mode.                      *)
LEMMA KernelTrapsToS ==
    ASSUME kernel_boot, KernelInv,
           NEW cause \in {ILLEGAL_INSTR, BREAKPOINT, ECALL_U, FETCH_PAGE_FAULT, LOAD_PAGE_FAULT,
                          STORE_PAGE_FAULT} \cup {Interrupt + bit : bit \in {SSIP, STIP, SEIP}},
           TrapState(cause)
    PROVE  privilege' = PRIV_S /\ UNCHANGED <<mideleg, medeleg>>
<1>1. to_s(cause)
  BY DEF KernelInv, to_s, ILLEGAL_INSTR, BREAKPOINT, ECALL_U, FETCH_PAGE_FAULT, LOAD_PAGE_FAULT,
         STORE_PAGE_FAULT, Interrupt, SSIP, STIP, SEIP, PRIV_U, PRIV_S
<1> QED
  BY <1>1 DEF TrapState, TrapToS, masks

(* KernelInv is preserved by a step of any kind.                           *)
LEMMA KernelInvStep ==
    ASSUME TypeOK, KernelInv, [Next]_vars
    PROVE  KernelInv'
<1> SUFFICES ASSUME kernel_boot PROVE KernelInv'
  BY DEF KernelInv, Next, cpu_step, Stopped, vars
<1> DEFINE Lines == {SSIP, STIP, SEIP}
<1>0. /\ privilege \in {PRIV_U, PRIV_S} /\ mip \subseteq Lines
      /\ mideleg = Lines /\ medeleg = 0 .. 8 \cup {12, 13, 15}
  BY DEF KernelInv
<1>1. ASSUME NEW m \in Polled, TakeInterrupt(m) \/ execute(m) PROVE KernelInv'
  <2>0. m \subseteq Lines
    BY <1>0, PolledInRange
  <2>1. CASE TakeInterrupt(m)
    <3> PICK bit \in Deliverable(m) : cpu_trap(Interrupt + bit) /\ mip' = m
      BY <2>1 DEF TakeInterrupt
    <3>1. bit \in Lines
      BY <2>0 DEF Deliverable, MDeliverable, SDeliverable
    <3>2. privilege' = PRIV_S /\ UNCHANGED <<mideleg, medeleg>>
      BY <3>1, KernelTrapsToS DEF cpu_trap
    <3> QED
      BY <1>0, <2>0, <3>2 DEF KernelInv
  <2>2. CASE PageFault(m)
    BY <1>0, <2>0, <2>2, KernelTrapsToS DEF PageFault, cpu_trap, KernelInv
  <2>3. CASE AtomicPageFault(m)
    BY <1>0, <2>0, <2>3, KernelTrapsToS DEF AtomicPageFault, KernelInv
  <2>4. CASE Ecall(m)
    <3>1. ECALL_U + privilege = ECALL_U
      BY <1>0, <2>4 DEF Ecall, PRIV_U, PRIV_S, ECALL_U
    <3> QED
      BY <1>0, <2>0, <2>4, <3>1, KernelTrapsToS DEF Ecall, cpu_trap, KernelInv
  <2>5. CASE Ebreak(m)
    BY <1>0, <2>0, <2>5, KernelTrapsToS DEF Ebreak, cpu_trap, KernelInv
  <2>6. CASE IllegalInstr(m)
    BY <1>0, <2>0, <2>6, KernelTrapsToS DEF IllegalInstr, cpu_trap, KernelInv
  <2>7. CASE sbi_ecall(m)
    BY <1>0, <2>0, <2>7 DEF sbi_ecall, KernelInv, masks
  <2>8. CASE Sret(m)
    BY <1>0, <2>0, <2>8 DEF Sret, KernelInv, masks
  <2>9. CASE Mret(m)
    BY <1>0, <2>9 DEF Mret, PRIV_U, PRIV_S, PRIV_M
  <2>10. ASSUME NEW csr \in MaskCsrs, NEW op \in {"rw", "rs", "rc"}, NEW src \in Masks[kernel_boot],
                CsrMask(m, csr, op, src)
         PROVE  KernelInv'
    <3>1. csr \in {"sstatus", "sie", "sip"}
      BY <1>0, <2>10 DEF CsrMask, min_priv, MaskCsrs, PRIV_U, PRIV_S, PRIV_M
    <3>2. UNCHANGED <<privilege, mideleg, medeleg>>
      BY <2>10, <3>1 DEF CsrMask, csr_write
    <3>3. mip' \subseteq Lines
      BY <2>0, <2>10, <3>1 DEF CsrMask, csr_write, Merge
    <3> QED
      BY <1>0, <3>2, <3>3 DEF KernelInv
  <2>11. ASSUME NEW csr \in AddrCsrs, NEW val \in Targets, CsrAddr(m, csr, val)
         PROVE  KernelInv'
    BY <1>0, <2>0, <2>11 DEF CsrAddr, KernelInv, masks
  <2>12. ASSUME NEW mode, CsrSatp(m, mode) PROVE KernelInv'
    BY <1>0, <2>0, <2>12 DEF CsrSatp, KernelInv, masks
  <2>13. ASSUME mip' = m, UNCHANGED <<privilege, masks>> PROVE KernelInv'
    BY <1>0, <2>0, <2>13 DEF KernelInv, masks
  <2> QED
    BY <1>1, <2>1, <2>2, <2>3, <2>4, <2>5, <2>6, <2>7, <2>8, <2>9, <2>10, <2>11, <2>12, <2>13
    DEF execute, AccessAtMax, Exec, Jump, Abort
<1>2. CASE UNCHANGED vars
  BY <1>0, <1>2 DEF KernelInv, vars
<1> QED
  BY <1>1, <1>2 DEF Next, cpu_step, Stopped

(* After sbi_init the kernel and its programs stay in S and U for ever.    *)
THEOREM KernelNeverInM == Spec => []KernelStaysBelowM
<1>1. Init => KernelInv
  BY HartAssumption DEF Init, KernelInv, PRIV_S
<1>2. TypeOK /\ KernelInv /\ [Next]_vars => KernelInv'
  BY KernelInvStep
<1>3. KernelInv => KernelStaysBelowM
  BY DEF KernelInv, KernelStaysBelowM
<1> QED
  BY <1>1, <1>2, <1>3, TypeCorrect, PTL DEF Spec

-----------------------------------------------------------------------------
(* Saved trap contexts.                                                    *)

(* A step that leaves a mode's CSRs and its frame alone keeps the frame    *)
(* intact.                                                                 *)
LEMMA SFrameKept ==
    ASSUME SFrameIntact, UNCHANGED <<sepc, sframe>>,
           \A bit \in {SIE, SPIE, SPP} : bit \in mstatus' <=> bit \in mstatus
    PROVE  SFrameIntact'
BY DEF SFrameIntact

(* The same for the M-mode frame.                                          *)
LEMMA MFrameKept ==
    ASSUME MFrameIntact, UNCHANGED <<mepc, mframe>>,
           \A bit \in {MIE, MPIE, MPP0, MPP1} : bit \in mstatus' <=> bit \in mstatus
    PROVE  MFrameIntact'
BY DEF MFrameIntact, MPP

(* A trap saves what it interrupts, and only in its own mode's CSRs.       *)
LEMMA TrapKeepsFrames ==
    ASSUME TypeOK, FrameIntact, NEW cause, TrapState(cause)
    PROVE  FrameIntact'
<1>1. CASE to_s(cause)
  <2>1. privilege \in {PRIV_U, PRIV_S}
    BY <1>1 DEF to_s, TypeOK, PRIV_U, PRIV_S
  <2>2. /\ sframe' = [live |-> TRUE, pc |-> pc, privilege |-> privilege, ie |-> SIE \in mstatus]
        /\ sepc' = pc
    BY <1>1 DEF TrapState, TrapToS
  <2>3. /\ SIE \notin mstatus'
        /\ SPIE \in mstatus' <=> SIE \in mstatus
        /\ SPP \in mstatus' <=> privilege = PRIV_S
        /\ \A bit \in {MIE, MPIE, MPP0, MPP1} : bit \in mstatus' <=> bit \in mstatus
    BY <1>1 DEF TrapState, TrapToS, If, SIE, SPIE, SPP, MIE, MPIE, MPP0, MPP1
  <2>4. SFrameIntact'
    BY <2>1, <2>2, <2>3 DEF SFrameIntact, PRIV_U, PRIV_S
  <2>5. MFrameIntact'
    BY <1>1, <2>3, MFrameKept DEF FrameIntact, TrapState, TrapToS
  <2> QED
    BY <2>4, <2>5 DEF FrameIntact
<1>2. CASE ~to_s(cause)
  <2> DEFINE rest == (mstatus \ {MIE, MPIE, MPP0, MPP1}) \cup If(MIE \in mstatus, MPIE)
  <2>1. mstatus' = rest \cup MPPBits(privilege)
    BY <1>2 DEF TrapState, TrapToM
  <2>2. MPP0 \notin rest /\ MPP1 \notin rest
    BY DEF If, MIE, MPIE, MPP0, MPP1
  <2>3. MPP(mstatus') = privilege
    BY <2>1, <2>2, MPPRoundTrip DEF TypeOK
  <2>4. /\ mframe' = [live |-> TRUE, pc |-> pc, privilege |-> privilege, ie |-> MIE \in mstatus]
        /\ mepc' = pc
    BY <1>2 DEF TrapState, TrapToM
  <2>5. /\ MIE \notin mstatus'
        /\ MPIE \in mstatus' <=> MIE \in mstatus
        /\ \A bit \in {SIE, SPIE, SPP} : bit \in mstatus' <=> bit \in mstatus
    BY <2>1 DEF If, MPPBits, SIE, SPIE, SPP, MIE, MPIE, MPP0, MPP1
  <2>6. MFrameIntact'
    BY <2>3, <2>4, <2>5 DEF MFrameIntact
  <2>7. SFrameIntact'
    BY <1>2, <2>5, SFrameKept DEF FrameIntact, TrapState, TrapToM
  <2> QED
    BY <2>6, <2>7 DEF FrameIntact
<1> QED
  BY <1>1, <1>2

(* FrameIntact is preserved by a step of any kind.                         *)
LEMMA FrameStep ==
    ASSUME TypeOK, FrameIntact, [Next]_vars
    PROVE  FrameIntact'
<1>1. ASSUME NEW m \in Polled, TakeInterrupt(m) \/ execute(m) PROVE FrameIntact'
  <2>1. ASSUME NEW cause, TrapState(cause) PROVE FrameIntact'
    BY <2>1, TrapKeepsFrames
  <2>2. CASE Sret(m)
    <3>1. SFrameIntact'
      BY <2>2 DEF Sret, SFrameIntact, NoFrame
    <3>2. \A bit \in {MIE, MPIE, MPP0, MPP1} : bit \in mstatus' <=> bit \in mstatus
      BY <2>2 DEF Sret, If, SIE, SPIE, SPP, MIE, MPIE, MPP0, MPP1
    <3> QED
      BY <2>2, <3>1, <3>2, MFrameKept DEF Sret, FrameIntact
  <2>3. CASE Mret(m)
    <3>1. MFrameIntact'
      BY <2>3 DEF Mret, MFrameIntact, NoFrame
    <3>2. \A bit \in {SIE, SPIE, SPP} : bit \in mstatus' <=> bit \in mstatus
      BY <2>3 DEF Mret, If, SIE, SPIE, SPP, MIE, MPIE, MPP0, MPP1
    <3> QED
      BY <2>3, <3>1, <3>2, SFrameKept DEF Mret, FrameIntact
  <2>4. ASSUME NEW csr \in MaskCsrs, NEW op, NEW src, CsrMask(m, csr, op, src)
        PROVE  FrameIntact'
    <3> DEFINE val == new_val(op, csr_read(csr, m), src)
    <3>0. csr_write(csr, m, val) /\ UNCHANGED <<sepc, mepc>>
      BY <2>4 DEF CsrMask
    <3> HIDE DEF val
    <3>1. CASE csr = "mstatus"
      BY <3>0, <3>1 DEF csr_write, FrameIntact, SFrameIntact, MFrameIntact, NoFrame
    <3>2. CASE csr = "sstatus"
      <4>1. SFrameIntact'
        BY <3>0, <3>2 DEF csr_write, SFrameIntact, NoFrame
      <4>2. mstatus' = Merge(mstatus, SSTATUS_MASK, val) /\ mframe' = mframe
        BY <3>0, <3>2 DEF csr_write
      <4>3. \A bit \in {MIE, MPIE, MPP0, MPP1} : bit \in mstatus' <=> bit \in mstatus
        BY <4>2 DEF Merge, SSTATUS_MASK, SIE, SPIE, SPP, MIE, MPIE, MPP0, MPP1
      <4> QED
        BY <3>0, <4>1, <4>2, <4>3, MFrameKept DEF FrameIntact
    <3>3. CASE csr \notin {"mstatus", "sstatus"}
      <4>1. UNCHANGED <<mstatus, sframe, mframe>>
        BY <3>0, <3>3 DEF csr_write
      <4> QED
        BY <3>0, <4>1, SFrameKept, MFrameKept DEF FrameIntact
    <3> QED
      BY <3>1, <3>2, <3>3
  <2>5. ASSUME NEW csr \in AddrCsrs, NEW val, CsrAddr(m, csr, val) PROVE FrameIntact'
    <3>1. SFrameIntact'
      BY <2>5 DEF CsrAddr, FrameIntact, SFrameIntact, NoFrame, AddrCsrs
    <3>2. MFrameIntact'
      BY <2>5 DEF CsrAddr, FrameIntact, MFrameIntact, NoFrame, AddrCsrs
    <3> QED
      BY <3>1, <3>2 DEF FrameIntact
  <2>6. ASSUME UNCHANGED <<mstatus, sepc, mepc, frames>> PROVE FrameIntact'
    BY <2>6, SFrameKept, MFrameKept DEF FrameIntact, frames
  <2> QED
    BY <1>1, <2>1, <2>2, <2>3, <2>4, <2>5, <2>6
    DEF execute, TakeInterrupt, cpu_trap, PageFault, AtomicPageFault, AccessAtMax, Exec, Jump,
        Abort, Ecall, sbi_ecall, Ebreak, IllegalInstr, CsrSatp
<1>2. CASE UNCHANGED vars
  BY <1>2, SFrameKept, MFrameKept DEF FrameIntact, vars
<1> QED
  BY <1>1, <1>2 DEF Next, cpu_step, Stopped

(* The trap CSRs describe the interrupted context for as long as the guest *)
(* does not write them itself.                                             *)
THEOREM FramesCorrect == Spec => []FrameIntact
<1>1. Init => FrameIntact
  BY DEF Init, FrameIntact, SFrameIntact, MFrameIntact, NoFrame
<1>2. TypeOK /\ FrameIntact /\ [Next]_vars => FrameIntact'
  BY FrameStep
<1> QED
  BY <1>1, <1>2, TypeCorrect, PTL DEF Spec

(* sret and mret restore pc, privilege level and interrupt enable of the   *)
(* interrupted context.                                                    *)
THEOREM ReturnsCorrect == Spec => ReturnRestores
<1>1. ASSUME FrameIntact, NEW m \in Polled, Sret(m), sframe.live
      PROVE  /\ pc' = sframe.pc /\ privilege' = sframe.privilege
             /\ (SIE \in mstatus)' <=> sframe.ie
  BY <1>1 DEF FrameIntact, SFrameIntact, Sret, If, SIE, SPIE, SPP
<1>2. ASSUME FrameIntact, NEW m \in Polled, Mret(m), mframe.live
      PROVE  /\ pc' = mframe.pc /\ privilege' = mframe.privilege
             /\ (MIE \in mstatus)' <=> mframe.ie
  BY <1>2 DEF FrameIntact, MFrameIntact, Mret, If, MIE, MPIE, MPP0, MPP1
<1> DEFINE Restores == \A m \in Polled :
        /\ Sret(m) /\ sframe.live => /\ pc' = sframe.pc /\ privilege' = sframe.privilege
                                     /\ (SIE \in mstatus)' <=> sframe.ie
        /\ Mret(m) /\ mframe.live => /\ pc' = mframe.pc /\ privilege' = mframe.privilege
                                     /\ (MIE \in mstatus)' <=> mframe.ie
<1>3. FrameIntact => [Restores]_vars
  BY <1>1, <1>2
<1> QED
  BY <1>3, FramesCorrect, PTL DEF ReturnRestores

-----------------------------------------------------------------------------
(* Interrupt delivery.                                                     *)

(* Where cpu_trap sends an interrupt depends on its delegation bit alone.  *)
LEMMA InterruptTarget ==
    ASSUME NEW bit \in 0 .. 11
    PROVE  to_s(Interrupt + bit) <=> privilege <= PRIV_S /\ bit \in mideleg
BY DEF to_s, Interrupt

(* The mode an interrupt enters, and what it finds there, agree with the   *)
(* masks that cpu_check_interrupts consulted.                              *)
THEOREM InterruptsCorrect == Spec => InterruptsRespectMasks
<1> DEFINE Respects(m) ==
        /\ privilege' >= privilege
        /\ privilege' = PRIV_S => m \cap mie \cap mideleg # {} /\ SIE \notin mstatus'
        /\ privilege' = PRIV_M => (m \cap mie) \ mideleg # {} /\ MIE \notin mstatus'
        /\ privilege' = privilege => (IF privilege = PRIV_M THEN MIE ELSE SIE) \in mstatus
<1>1. ASSUME TypeOK, NEW m \in Polled, TakeInterrupt(m)
      PROVE  Respects(m)
  <2> PICK bit \in Deliverable(m) : TrapState(Interrupt + bit)
    BY <1>1 DEF TakeInterrupt, cpu_trap
  <2>1. CASE bit \in MDeliverable(m)
    <3>1. /\ bit \in 0 .. 11 /\ bit \in (m \cap mie) \ mideleg
          /\ privilege < PRIV_M \/ MIE \in mstatus
      BY <2>1 DEF MDeliverable
    <3>2. TrapToM
      BY <3>1, InterruptTarget DEF TrapState
    <3>3. privilege' = PRIV_M /\ MIE \notin mstatus'
      BY <3>2 DEF TrapToM, If, MPPBits, MIE, MPIE, MPP0, MPP1
    <3> QED
      BY <1>1, <3>1, <3>3 DEF TypeOK, PRIV_S, PRIV_M
  <2>2. CASE bit \in SDeliverable(m)
    <3>1. /\ bit \in 0 .. 11 /\ bit \in m \cap mie \cap mideleg
          /\ privilege = PRIV_U \/ (privilege = PRIV_S /\ SIE \in mstatus)
      BY <2>2 DEF SDeliverable
    <3>2. TrapToS
      BY <3>1, InterruptTarget DEF TrapState, PRIV_U, PRIV_S
    <3>3. privilege' = PRIV_S /\ SIE \notin mstatus'
      BY <3>2 DEF TrapToS, If, SIE, SPIE, SPP
    <3> QED
      BY <3>1, <3>3 DEF PRIV_U, PRIV_S, PRIV_M
  <2> QED
    BY <2>1, <2>2 DEF Deliverable
<1> HIDE DEF Respects
<1>2. TypeOK => [\A m \in Polled : TakeInterrupt(m) => Respects(m)]_vars
  BY <1>1
<1> QED
  BY <1>2, TypeCorrect, PTL DEF InterruptsRespectMasks, Respects

-----------------------------------------------------------------------------
(* A trap that cpu_trap finishes and that is new to S-mode enters at the   *)
(* base of stvec; one to M-mode leaves the frame of S alone.               *)
LEMMA TrapEnters ==
    ASSUME NEW cause, cpu_trap(cause), sframe' # sframe
    PROVE  pc' = Base(stvec)
<1>1. TrapState(cause) /\ pc' = TrapVector(cause)
  BY DEF cpu_trap
<1>2. to_s(cause)
  BY <1>1 DEF TrapState, TrapToM
<1> QED
  BY <1>1, <1>2 DEF TrapVector

(* What include/mmu.h says of page faults holds of every trap but one: an  *)
(* interrupt, exception or page fault that enters S-mode continues at the  *)
(* first instruction of the handler, unless it is the fault of an LR, SC   *)
(* or AMO, which execute moves on by 4.                                    *)
THEOREM OnlyAtomicsEnterLate ==
    Spec => [][(sframe'.live /\ sframe' # sframe) =>
                  pc' = Base(stvec) \/ \E m \in Polled : AtomicPageFault(m)]_vars
<1> DEFINE Enters == (sframe'.live /\ sframe' # sframe) =>
                        pc' = Base(stvec) \/ \E m \in Polled : AtomicPageFault(m)
<1>1. ASSUME NEW m \in Polled, TakeInterrupt(m)
      PROVE  Enters
  BY <1>1, TrapEnters DEF TakeInterrupt
<1>2. ASSUME NEW m \in Polled, execute(m)
      PROVE  Enters
  <2>1. CASE PageFault(m)
    BY <2>1, TrapEnters DEF PageFault
  <2>2. CASE AtomicPageFault(m)
    BY <2>2
  <2>3. CASE AccessAtMax(m) \/ (\E size \in Sizes : Exec(m, size))
               \/ (\E target \in Targets : Jump(m, target)) \/ Abort(m) \/ sbi_ecall(m)
    BY <2>3 DEF AccessAtMax, Exec, Jump, Abort, sbi_ecall, frames
  <2>4. CASE Ecall(m) \/ Ebreak(m) \/ IllegalInstr(m)
    BY <2>4, TrapEnters DEF Ecall, Ebreak, IllegalInstr
  <2>5. CASE Sret(m) \/ Mret(m)
    BY <2>5 DEF Sret, Mret, NoFrame
  <2>6. ASSUME NEW csr, NEW op, NEW src, CsrMask(m, csr, op, src)
        PROVE  Enters
    BY <2>6 DEF CsrMask, csr_write, NoFrame
  <2>7. ASSUME NEW csr, NEW val, CsrAddr(m, csr, val)
        PROVE  Enters
    BY <2>7 DEF CsrAddr, NoFrame
  <2>8. ASSUME NEW mode, CsrSatp(m, mode)
        PROVE  Enters
    BY <2>8 DEF CsrSatp, frames
  <2> HIDE DEF Enters
  <2> QED
    BY <1>2, <2>1, <2>2, <2>3, <2>4, <2>5, <2>6, <2>7, <2>8 DEF execute
<1>3. [Next]_vars => [Enters]_vars
  <2> HIDE DEF Enters
  <2> QED
    BY <1>1, <1>2 DEF Next, cpu_step, Stopped
<1> QED
  BY <1>3, PTL DEF Spec
=============================================================================
