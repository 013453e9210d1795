------------------------------- MODULE Decode -------------------------------
(***************************************************************************)
(* The instruction decoders: decode of src/cpu.c for 32-bit instructions   *)
(* and decode_rvc of src/exec_c.c, which turns a compressed instruction    *)
(* into the base instruction it stands for.                                *)
(*                                                                         *)
(* A halfword, word or field is the set of its one-bits, so that a shift   *)
(* moves bit numbers, & is intersection and | is union.                    *)
(***************************************************************************)
EXTENDS Integers, Sequences

Bits(n) == {b \in 0 .. 7 : (n \div 2^b) % 2 = 1}

(* ((r >> from) & (2^n - 1)) << to                                         *)
Field(r, from, n, to) == {b - from + to : b \in r \cap from .. (from + n - 1)}

(* Mutant: the sign is taken from the bit above.                           *)
sext_OffByOne(val, bits) == (val \cap 0 .. (bits - 1)) \cup (IF bits \in val THEN bits .. 63 ELSE {})

sext(val, bits) == (val \cap 0 .. (bits - 1)) \cup (IF bits - 1 \in val THEN bits .. 63 ELSE {})

OP_LUI       == Bits(\h37)
OP_AUIPC     == Bits(\h17)
OP_JAL       == Bits(\h6F)
OP_JALR      == Bits(\h67)
OP_BRANCH    == Bits(\h63)
OP_LOAD      == Bits(\h03)
OP_STORE     == Bits(\h23)
OP_I_ARITH   == Bits(\h13)
OP_R_ARITH   == Bits(\h33)
OP_I_ARITH_W == Bits(\h1B)
OP_R_ARITH_W == Bits(\h3B)
OP_SYSTEM    == Bits(\h73)
OP_FLW_FLD   == Bits(\h07)
OP_FSW_FSD   == Bits(\h27)
RESERVED     == Bits(\hFF)

F3_BEQ     == Bits(0)
F3_BNE     == Bits(1)
F3_W       == Bits(2)   \* F3_LW, F3_SW
F3_D       == Bits(3)   \* F3_LD, F3_SD, F3_FLD_FSD
F3_ADD_SUB == Bits(0)
F3_SLL     == Bits(1)
F3_XOR     == Bits(4)
F3_SRL_SRA == Bits(5)
F3_OR      == Bits(6)
F3_AND     == Bits(7)
F7_ALT     == Bits(\h20)
SYSTEM_EBREAK == Bits(1)
REG_ZERO   == Bits(0)
REG_RA     == Bits(1)
REG_SP     == Bits(2)

-----------------------------------------------------------------------------
(* Instructions.  Fields that the C code does not assign are 0.            *)
Instruction(opcode, funct3, funct7, rd, rs1, rs2, imm) ==
    [opcode |-> opcode, funct3 |-> funct3, funct7 |-> funct7,
     rd |-> rd, rs1 |-> rs1, rs2 |-> rs2, imm |-> imm]

IType(opcode, funct3, rd, rs1, imm)  == Instruction(opcode, funct3, {}, rd, rs1, {}, imm)
SType(opcode, funct3, rs1, rs2, imm) == Instruction(opcode, funct3, {}, {}, rs1, rs2, imm)
RType(opcode, funct3, funct7, rd, rs1, rs2) == Instruction(opcode, funct3, funct7, rd, rs1, rs2, {})
UType(opcode, rd, imm)               == Instruction(opcode, {}, {}, rd, {}, {}, imm)
Reserved                         == Instruction(RESERVED, {}, {}, {}, {}, {}, {})

(* 32-bit instructions.                                                    *)
Immediate(raw, opcode) ==
    CASE opcode \in {OP_JALR, OP_LOAD, OP_FLW_FLD, OP_I_ARITH, OP_I_ARITH_W, OP_SYSTEM} ->
           sext(Field(raw, 20, 12, 0), 12)
      [] opcode \in {OP_STORE, OP_FSW_FSD} ->
           sext(Field(raw, 25, 7, 5) \cup Field(raw, 7, 5, 0), 12)
      [] opcode = OP_BRANCH ->
           sext(Field(raw, 31, 1, 12) \cup Field(raw, 7, 1, 11) \cup Field(raw, 25, 6, 5)
                  \cup Field(raw, 8, 4, 1), 13)
      [] opcode \in {OP_LUI, OP_AUIPC} -> sext(Field(raw, 12, 20, 12), 32)
      [] opcode = OP_JAL ->
           sext(Field(raw, 31, 1, 20) \cup Field(raw, 12, 8, 12) \cup Field(raw, 20, 1, 11)
                  \cup Field(raw, 21, 10, 1), 21)
      [] OTHER -> {}

decode(raw) ==
    Instruction(Field(raw, 0, 7, 0), Field(raw, 12, 3, 0), Field(raw, 25, 7, 0), Field(raw, 7, 5, 0),
                Field(raw, 15, 5, 0), Field(raw, 20, 5, 0), Immediate(raw, Field(raw, 0, 7, 0)))

-----------------------------------------------------------------------------
(* Mutant: bit 12 selects nothing.                                         *)
rvc_b12_Ignored(r) == FALSE

(* Compressed instructions: registers and selectors.                       *)
cl(r)        == r \cup {3}
rvc_rd_s(r)  == cl(Field(r, 2, 3, 0))
rvc_rs1_s(r) == cl(Field(r, 7, 3, 0))
rvc_rd(r)    == Field(r, 7, 5, 0)
rvc_rs2(r)   == Field(r, 2, 5, 0)
rvc_b12(r)   == 12 \in r
rvc_sub(r)   == Field(r, 10, 2, 0)
rvc_arith(r) == Field(r, 5, 2, 0)

(* Compressed instructions: immediates.                                    *)
imm_ci(r)       == sext(Field(r, 12, 1, 5) \cup Field(r, 2, 5, 0), 6)
imm_addi16sp(r) == sext(Field(r, 12, 1, 9) \cup Field(r, 6, 1, 4) \cup Field(r, 5, 1, 6)
                          \cup Field(r, 3, 2, 7) \cup Field(r, 2, 1, 5), 10)
imm_lui(r)      == sext(Field(r, 12, 1, 17) \cup Field(r, 2, 5, 12), 18)
imm_clw(r)      == Field(r, 10, 3, 3) \cup Field(r, 6, 1, 2) \cup Field(r, 5, 1, 6)
imm_cld(r)      == Field(r, 10, 3, 3) \cup Field(r, 5, 2, 6)
imm_cj(r)       == sext(Field(r, 12, 1, 11) \cup Field(r, 11, 1, 4) \cup Field(r, 9, 2, 8)
                          \cup Field(r, 8, 1, 10) \cup Field(r, 7, 1, 6) \cup Field(r, 6, 1, 7)
                          \cup Field(r, 3, 3, 1) \cup Field(r, 2, 1, 5), 12)
imm_cb(r)       == sext(Field(r, 12, 1, 8) \cup Field(r, 10, 2, 3) \cup Field(r, 5, 2, 6)
                          \cup Field(r, 3, 2, 1) \cup Field(r, 2, 1, 5), 9)
imm_lwsp(r)     == Field(r, 12, 1, 5) \cup Field(r, 4, 3, 2) \cup Field(r, 2, 2, 6)
imm_ldsp(r)     == Field(r, 12, 1, 5) \cup Field(r, 5, 2, 3) \cup Field(r, 2, 3, 6)
imm_swsp(r)     == Field(r, 9, 4, 2) \cup Field(r, 7, 2, 6)
imm_sdsp(r)     == Field(r, 10, 3, 3) \cup Field(r, 7, 3, 6)
imm_addi4spn(r) == Field(r, 6, 1, 2) \cup Field(r, 5, 1, 3) \cup Field(r, 11, 2, 4)
                     \cup Field(r, 7, 4, 6)
shamt(r)        == Field(r, 12, 1, 5) \cup Field(r, 2, 5, 0)

-----------------------------------------------------------------------------
(* decode_rvc, one operator per quadrant.                                  *)
Quadrant(r) == Field(r, 0, 2, 0)
Funct3(r)   == Field(r, 13, 3, 0)

Q0(r, f3) ==
    LET rd == rvc_rd_s(r)   rs1 == rvc_rs1_s(r) IN
    CASE f3 = Bits(0) -> IType(OP_I_ARITH, F3_ADD_SUB, rd, REG_SP, imm_addi4spn(r))
      [] f3 = Bits(1) -> IType(OP_FLW_FLD, F3_D, rd, rs1, imm_cld(r))
      [] f3 = Bits(2) -> IType(OP_LOAD, F3_W, rd, rs1, imm_clw(r))
      [] f3 = Bits(3) -> IType(OP_LOAD, F3_D, rd, rs1, imm_cld(r))
      [] f3 = Bits(5) -> SType(OP_FSW_FSD, F3_D, rs1, rd, imm_cld(r))
      [] f3 = Bits(6) -> SType(OP_STORE, F3_W, rs1, rd, imm_clw(r))
      [] f3 = Bits(7) -> SType(OP_STORE, F3_D, rs1, rd, imm_cld(r))
      [] OTHER -> Reserved

(* RVC_ALU_ARITH: with bit 12 clear SUB, XOR, OR, AND; else SUBW and ADDW. *)
Arith(r) ==
    LET rd == rvc_rs1_s(r)   rs2 == rvc_rd_s(r)   op == rvc_arith(r) IN
    CASE op = Bits(0) /\ ~rvc_b12(r) -> RType(OP_R_ARITH, F3_ADD_SUB, F7_ALT, rd, rd, rs2)
      [] op = Bits(1) /\ ~rvc_b12(r) -> RType(OP_R_ARITH, F3_XOR, {}, rd, rd, rs2)
      [] op = Bits(2) /\ ~rvc_b12(r) -> RType(OP_R_ARITH, F3_OR, {}, rd, rd, rs2)
      [] op = Bits(3) /\ ~rvc_b12(r) -> RType(OP_R_ARITH, F3_AND, {}, rd, rd, rs2)
      [] op = Bits(0) /\ rvc_b12(r)  -> RType(OP_R_ARITH_W, F3_ADD_SUB, F7_ALT, rd, rd, rs2)
      [] op = Bits(1) /\ rvc_b12(r)  -> RType(OP_R_ARITH_W, F3_ADD_SUB, {}, rd, rd, rs2)
      [] OTHER -> RType(RESERVED, {}, {}, rd, rd, rs2)

MiscAlu(r) ==
    LET rd == rvc_rs1_s(r)   sub == rvc_sub(r)   imm == imm_ci(r) \cap 0 .. 5 IN
    CASE sub = Bits(0) -> IType(OP_I_ARITH, F3_SRL_SRA, rd, rd, imm)
      [] sub = Bits(1) -> [IType(OP_I_ARITH, F3_SRL_SRA, rd, rd, imm) EXCEPT !.funct7 = F7_ALT]
      [] sub = Bits(2) -> IType(OP_I_ARITH, F3_AND, rd, rd, imm_ci(r))
      [] sub = Bits(3) -> Arith(r)

Q1(r, f3) ==
    LET rd == rvc_rd(r)   rs1 == rvc_rs1_s(r) IN
    CASE f3 = Bits(0) -> IType(OP_I_ARITH, F3_ADD_SUB, rd, rd, imm_ci(r))
      [] f3 = Bits(1) -> IType(OP_I_ARITH_W, F3_ADD_SUB, rd, rd, imm_ci(r))
      [] f3 = Bits(2) -> IType(OP_I_ARITH, F3_ADD_SUB, rd, REG_ZERO, imm_ci(r))
      [] f3 = Bits(3) -> IF rd = REG_SP
                         THEN IType(OP_I_ARITH, F3_ADD_SUB, REG_SP, REG_SP, imm_addi16sp(r))
                         ELSE UType(OP_LUI, rd, imm_lui(r))
      [] f3 = Bits(4) -> MiscAlu(r)
      [] f3 = Bits(5) -> UType(OP_JAL, REG_ZERO, imm_cj(r))
      [] f3 = Bits(6) -> SType(OP_BRANCH, F3_BEQ, rs1, REG_ZERO, imm_cb(r))
      [] f3 = Bits(7) -> SType(OP_BRANCH, F3_BNE, rs1, REG_ZERO, imm_cb(r))

CR(r) ==
    LET rs1 == rvc_rd(r)   rs2 == rvc_rs2(r) IN
    CASE ~rvc_b12(r) /\ rs2 = {} -> IType(OP_JALR, {}, REG_ZERO, rs1, {})
      [] ~rvc_b12(r) /\ rs2 # {} -> RType(OP_R_ARITH, F3_ADD_SUB, {}, rs1, REG_ZERO, rs2)
      [] rvc_b12(r) /\ rs1 = {} /\ rs2 = {} -> IType(OP_SYSTEM, {}, {}, {}, SYSTEM_EBREAK)
      [] rvc_b12(r) /\ rs1 # {} /\ rs2 = {} -> IType(OP_JALR, {}, REG_RA, rs1, {})
      [] rvc_b12(r) /\ rs2 # {} -> RType(OP_R_ARITH, F3_ADD_SUB, {}, rs1, rs1, rs2)

Q2(r, f3) ==
    LET rd == rvc_rd(r)   rs2 == rvc_rs2(r) IN
    CASE f3 = Bits(0) -> IType(OP_I_ARITH, F3_SLL, rd, rd, shamt(r))
      [] f3 = Bits(1) -> IType(OP_FLW_FLD, F3_D, rd, REG_SP, imm_ldsp(r))
      [] f3 = Bits(2) -> IType(OP_LOAD, F3_W, rd, REG_SP, imm_lwsp(r))
      [] f3 = Bits(3) -> IType(OP_LOAD, F3_D, rd, REG_SP, imm_ldsp(r))
      [] f3 = Bits(4) -> CR(r)
      [] f3 = Bits(5) -> SType(OP_FSW_FSD, F3_D, REG_SP, rs2, imm_sdsp(r))
      [] f3 = Bits(6) -> SType(OP_STORE, F3_W, REG_SP, rs2, imm_swsp(r))
      [] f3 = Bits(7) -> SType(OP_STORE, F3_D, REG_SP, rs2, imm_sdsp(r))

decode_rvc(r) ==
    CASE Quadrant(r) = Bits(0) -> Q0(r, Funct3(r))
      [] Quadrant(r) = Bits(1) -> Q1(r, Funct3(r))
      [] Quadrant(r) = Bits(2) -> Q2(r, Funct3(r))

(* The choice that cpu_step makes.                                         *)
IsCompressed(r) == Quadrant(r) # Bits(3)

-----------------------------------------------------------------------------
(* What the ISA manual says of immediates, as a reference.  For bits 12    *)
(* down to 2 of a compressed instruction, the bit of the immediate that it *)
(* holds; O is for bits that hold something else.  A signed immediate      *)
(* repeats bit 12 above its highest bit.                                   *)
O == -1
Layout(r, f3) ==
    LET ci == <<5, O, O, O, O, O, 4, 3, 2, 1, 0>>
        Is(quadrant, f3s) == Quadrant(r) = Bits(quadrant) /\ f3 \in {Bits(n) : n \in f3s}
    IN
    CASE Is(0, {0})          -> <<5, 4, 9, 8, 7, 6, 2, 3, O, O, O>>
      [] Is(0, {2, 6})       -> <<5, 4, 3, O, O, O, 2, 6, O, O, O>>
      [] Is(0, {1, 3, 5, 7}) -> <<5, 4, 3, O, O, O, 7, 6, O, O, O>>
      [] Is(1, {0, 1, 2})    -> ci
      [] Is(1, {3})          -> IF rvc_rd(r) = REG_SP THEN <<9, O, O, O, O, O, 4, 6, 8, 7, 5>>
                                ELSE <<17, O, O, O, O, O, 16, 15, 14, 13, 12>>
      [] Is(1, {4})          -> IF {10, 11} \subseteq r THEN <<>> ELSE ci
      [] Is(1, {5})          -> <<11, 4, 9, 8, 10, 6, 7, 3, 2, 1, 5>>
      [] Is(1, {6, 7})       -> <<8, 4, 3, O, O, O, 7, 6, 2, 1, 5>>
      [] Is(2, {0})          -> ci
      [] Is(2, {2})          -> <<5, O, O, O, O, O, 4, 3, 2, 7, 6>>
      [] Is(2, {1, 3})       -> <<5, O, O, O, O, O, 4, 3, 8, 7, 6>>
      [] Is(2, {6})          -> <<5, 4, 3, 2, 7, 6, O, O, O, O, O>>
      [] Is(2, {5, 7})       -> <<5, 4, 3, 8, 7, 6, O, O, O, O, O>>
      [] OTHER               -> <<>>

IsSigned(r, f3) == Quadrant(r) = Bits(1) /\ ~(f3 = Bits(4) /\ 11 \notin r)

RvcImmediate(r, f3) ==
    LET layout == Layout(r, f3) IN
    ({layout[i] : i \in {j \in DOMAIN layout : 13 - j \in r}} \ {O})
      \cup (IF layout # <<>> /\ IsSigned(r, f3) /\ 12 \in r THEN (layout[1] + 1) .. 63 ELSE {})

(* For a 32-bit instruction, the bit that bit k of the immediate comes     *)
(* from: formats I, S, B, U and J.  The others (R, R4, the AMOs) have no   *)
(* immediate; the operands of FENCE, which the code ignores, are none.     *)
Source(opcode, k) ==
    CASE opcode \in {OP_JALR, OP_LOAD, OP_FLW_FLD, OP_I_ARITH, OP_I_ARITH_W, OP_SYSTEM} ->
           IF k <= 10 THEN k + 20 ELSE 31
      [] opcode \in {OP_STORE, OP_FSW_FSD} ->
           IF k <= 4 THEN k + 7 ELSE IF k <= 10 THEN k + 20 ELSE 31
      [] opcode = OP_BRANCH ->
           IF k = 0 THEN O ELSE IF k <= 4 THEN k + 7 ELSE IF k <= 10 THEN k + 20
           ELSE IF k = 11 THEN 7 ELSE 31
      [] opcode \in {OP_LUI, OP_AUIPC} -> IF k <= 11 THEN O ELSE IF k <= 30 THEN k ELSE 31
      [] opcode = OP_JAL ->
           IF k = 0 THEN O ELSE IF k <= 10 THEN k + 20 ELSE IF k = 11 THEN 20
           ELSE IF k <= 19 THEN k ELSE 31
      [] OTHER -> O

(* The immediate of an instruction is the one the ISA manual defines: no   *)
(* bit of the scrambled encodings is lost, misplaced or wrongly signed.    *)
(* C.EBREAK has no immediate; the code gives it that of ebreak.            *)
ImmediateIsRight(r) ==
    IF IsCompressed(r)
    THEN LET inst == decode_rvc(r) IN
         inst.opcode = OP_SYSTEM \/ inst.imm = RvcImmediate(r, Funct3(r))
    ELSE LET inst == decode(r) IN
         inst.imm = {k \in 0 .. 63 : Source(inst.opcode, k) \in r}

(* No bit of a compressed instruction is ignored: one that differs in one  *)
(* bit is another instruction, unless both are reserved or write to x0.    *)
BitsCount(r) ==
    LET inst == decode_rvc(r) IN
    \A b \in (0 .. 15) \ r :
        LET other == decode_rvc(r \cup {b}) IN
        \/ ~IsCompressed(r \cup {b})
        \/ inst # other
        \/ inst.opcode = RESERVED
        \/ inst.rd = REG_ZERO /\ inst.opcode \in {OP_I_ARITH, OP_R_ARITH}
=============================================================================
