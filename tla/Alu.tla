-------------------------------- MODULE Alu ---------------------------------
(***************************************************************************)
(* What the integer instructions compute: OP_I_ARITH, OP_R_ARITH, their W  *)
(* forms and the M extension in execute of src/cpu.c, and the AMOs of      *)
(* src/exec_a.c.  Registers are numbers modulo 2^XLEN; u64 and u32 become  *)
(* XLEN and WLEN bits.  An operation yields the set of its outcomes, which *)
(* is a singleton unless C leaves it undefined.                            *)
(***************************************************************************)
EXTENDS Integers

CONSTANTS XLEN, WLEN,
          BitXor(_, _), BitAnd(_, _), BitOr(_, _)   \* ^, & and | of C

(* 2^n.                                                                    *)
Pow2[n \in Nat] == IF n = 0 THEN 1 ELSE 2 * Pow2[n - 1]

(* WLEN is a power of 2, as 32 is.                                         *)
ASSUME AluAssumption ==
    XLEN \in Nat /\ WLEN \in 1 .. (XLEN - 1) /\ \E k \in 0 .. WLEN : WLEN = Pow2[k]

(* What is used of the bitwise operators: their results are registers, and *)
(* bits below WLEN depend on bits below WLEN only.                         *)
ActsByBit(Op(_, _)) ==
    \A a, b \in 0 .. (Pow2[XLEN] - 1) :
        /\ Op(a, b) \in 0 .. (Pow2[XLEN] - 1)
        /\ Op(a, b) % Pow2[WLEN] = Op(a % Pow2[WLEN], b % Pow2[WLEN])
ASSUME BitwiseAssumption == ActsByBit(BitXor) /\ ActsByBit(BitAnd) /\ ActsByBit(BitOr)

SIGNAL == -1   \* the host kills the emulator

Signed(x, w) == IF x >= Pow2[w - 1] THEN x - Pow2[w] ELSE x    \* (i64)x, (i32)x
SextW(x)     == Signed(x % Pow2[WLEN], WLEN) % Pow2[XLEN]         \* (u64)(i64)(i32)x
Low(x)       == x % Pow2[WLEN]                                \* (u32)x
If(condition) == IF condition THEN 1 ELSE 0
Abs(x)       == IF x < 0 THEN -x ELSE x

-----------------------------------------------------------------------------
(* The arms that the I, R and W forms have in common, on w-bit operands;   *)
(* alt is the alternate funct7.  The W forms exist for ADD_SUB, SLL and    *)
(* SRL_SRA only; any other ends the emulator, as Hart has it.              *)
Base(f3, alt, a, b, w) ==
    LET shamt == b % w IN
    CASE f3 = "ADD_SUB" -> (IF alt THEN a - b ELSE a + b) % Pow2[w]
      [] f3 = "SLL"     -> (a * Pow2[shamt]) % Pow2[w]
      [] f3 = "SLT"     -> If(Signed(a, w) < Signed(b, w))
      [] f3 = "SLTU"    -> If(a < b)
      [] f3 = "XOR"     -> BitXor(a, b)
      [] f3 = "SRL_SRA" -> IF alt THEN (Signed(a, w) \div Pow2[shamt]) % Pow2[w] ELSE a \div Pow2[shamt]
      [] f3 = "OR"      -> BitOr(a, b)
      [] f3 = "AND"     -> BitAnd(a, b)

(* Mutant: the sign of a quotient is lost.                                 *)
Quot_Unsigned(a, b) == Abs(a) \div Abs(b)

(* The / and % of C truncate toward zero.                                  *)
Quot(a, b) == IF (a < 0) = (b < 0) THEN Abs(a) \div Abs(b) ELSE -(Abs(a) \div Abs(b))
Rem(a, b)  == a - b * Quot(a, b)

(* The one quotient that does not fit.  Undefined in C: a signal on x86,   *)
(* the wrapped result on ARM.                                              *)
Overflows(a, b, w) == Signed(a, w) = -(Pow2[w - 1]) /\ Signed(b, w) = -1
Signal(a, b, w) == IF Overflows(a, b, w) THEN {SIGNAL} ELSE {}

(* F7_MEXT.  The operands of MULH and MULHSU are u64 when they are cast to *)
(* i128, so they are extended with zeroes and not with their sign; their   *)
(* product may pass 2^127, where builds wrap.                              *)
MExt(f3, a, b, w) ==
    CASE f3 = "MUL" -> {(a * b) % Pow2[w]}
      [] f3 \in {"MULH", "MULHSU", "MULHU"} -> {(a * b) \div Pow2[w]}
      [] f3 = "DIV"  -> IF b = 0 THEN {Pow2[w] - 1}
                        ELSE {Quot(Signed(a, w), Signed(b, w)) % Pow2[w]} \cup Signal(a, b, w)
      [] f3 = "DIVU" -> {IF b = 0 THEN Pow2[w] - 1 ELSE a \div b}
      [] f3 = "REM"  -> IF b = 0 THEN {a}
                        ELSE {Rem(Signed(a, w), Signed(b, w)) % Pow2[w]} \cup Signal(a, b, w)
      [] f3 = "REMU" -> {IF b = 0 THEN a ELSE a % b}

(* The alternate form exists only for shifts if the operand is immediate.  *)
I_ARITH(f3, alt, a, imm)   == Base(f3, alt /\ f3 = "SRL_SRA", a, imm, XLEN)
I_ARITH_W(f3, alt, a, imm) == SextW(Base(f3, alt /\ f3 = "SRL_SRA", Low(a), Low(imm), WLEN))

R_ARITH(f3, alt, a, b)   == Base(f3, alt, a, b, XLEN)
R_ARITH_W(f3, alt, a, b) == SextW(Base(f3, alt, Low(a), Low(b), WLEN))
R_MEXT(f3, a, b)         == MExt(f3, a, b, XLEN)
R_MEXT_W(f3, a, b)       ==
    {IF v = SIGNAL THEN v ELSE SextW(v) : v \in MExt(f3, Low(a), Low(b), WLEN)}

-----------------------------------------------------------------------------
(* AMOs on the word (f3 = "W") or doubleword m in memory.                  *)

(* Mutant: the word is extended with zeroes.                               *)
amo_read_Unsigned(m, f3) == IF f3 = "W" THEN Low(m) ELSE m

amo_read(m, f3)    == IF f3 = "W" THEN SextW(m) ELSE m
amo_write(val, f3) == IF f3 = "W" THEN Low(val) ELSE val

(* The comparisons are on 64 bits at either width.                         *)
AmoResult(f5, old, src) ==
    CASE f5 = "AMOSWAP" -> src
      [] f5 = "AMOADD"  -> (old + src) % Pow2[XLEN]
      [] f5 = "AMOXOR"  -> BitXor(old, src)
      [] f5 = "AMOAND"  -> BitAnd(old, src)
      [] f5 = "AMOOR"   -> BitOr(old, src)
      [] f5 = "AMOMIN"  -> IF Signed(old, XLEN) < Signed(src, XLEN) THEN old ELSE src
      [] f5 = "AMOMAX"  -> IF Signed(old, XLEN) > Signed(src, XLEN) THEN old ELSE src
      [] f5 = "AMOMINU" -> IF old < src THEN old ELSE src
      [] f5 = "AMOMAXU" -> IF old > src THEN old ELSE src
      [] OTHER          -> old

execute_amo(f5, f3, m, src) ==
    LET old == amo_read(m, f3)
    IN  [memory |-> amo_write(AmoResult(f5, old, src), f3), rd |-> old]

-----------------------------------------------------------------------------
(* Division: quotient and remainder fit together, with the remainder of    *)
(* the sign of the dividend; division by zero and the quotient that does   *)
(* not fit have the results that the ISA manual gives, if any.             *)
IsDivision(a, b, q, r) == a = q * b + r /\ Abs(r) < Abs(b) /\ (r = 0 \/ (r < 0) = (a < 0))

DivisionIsRight(a, b, w) ==
    /\ \A q \in MExt("DIV", a, b, w) \ {SIGNAL}, r \in MExt("REM", a, b, w) \ {SIGNAL} :
         CASE b = 0 -> Signed(q, w) = -1 /\ r = a
           [] Overflows(a, b, w) -> q = a /\ r = 0
           [] OTHER -> IsDivision(Signed(a, w), Signed(b, w), Signed(q, w), Signed(r, w))
    /\ \A q \in MExt("DIVU", a, b, w), r \in MExt("REMU", a, b, w) :
         IF b = 0 THEN q = Pow2[w] - 1 /\ r = a ELSE IsDivision(a, b, q, r)

(* f3 is the upper half of product, with MUL the lower one.                *)
IsUpperHalf(f3, a, b, product) ==
    \A lo \in R_MEXT("MUL", a, b), hi \in R_MEXT(f3, a, b) :
        (hi * Pow2[XLEN] + lo - product) % Pow2[2 * XLEN] = 0

(* Multiplication by the ISA manual: of unsigned registers, of signed ones *)
(* (MULH), and of a signed and an unsigned one (MULHSU).                   *)
UnsignedProductIsRight(a, b) == IsUpperHalf("MULHU", a, b, a * b)
SignedProductsAreRight(a, b) ==
    /\ IsUpperHalf("MULH", a, b, Signed(a, XLEN) * Signed(b, XLEN))
    /\ IsUpperHalf("MULHSU", a, b, Signed(a, XLEN) * b)

(* W forms: each is what the 64-bit instruction computes on the extended   *)
(* words, cut back to a word.                                              *)
WordFormsAgree(a, b) ==
    LET x == SextW(a)   y == SextW(b)   s == b % WLEN
        Words(f3, p, q) == {IF v = SIGNAL THEN v ELSE SextW(v) : v \in R_MEXT(f3, p, q)}
    IN  /\ \A alt \in BOOLEAN :
             R_ARITH_W("ADD_SUB", alt, a, b) = SextW(R_ARITH("ADD_SUB", alt, x, y))
        /\ \A alt \in BOOLEAN :
             I_ARITH_W("ADD_SUB", alt, a, b) = SextW(I_ARITH("ADD_SUB", alt, x, y))
        /\ I_ARITH_W("SRL_SRA", TRUE, a, b) = SextW(I_ARITH("SRL_SRA", TRUE, x, s))
        /\ R_ARITH_W("SLL", FALSE, a, b) = SextW(R_ARITH("SLL", FALSE, x, s))
        /\ R_ARITH_W("SRL_SRA", FALSE, a, b) = SextW(R_ARITH("SRL_SRA", FALSE, Low(a), s))
        /\ R_ARITH_W("SRL_SRA", TRUE, a, b) = SextW(R_ARITH("SRL_SRA", TRUE, x, s))
        /\ \A f3 \in {"MUL", "DIV", "REM"} : Words(f3, x, y) \subseteq R_MEXT_W(f3, a, b) \cup {SIGNAL}
        /\ \A f3 \in {"DIVU", "REMU"} : Words(f3, Low(a), Low(b)) = R_MEXT_W(f3, a, b)

(* What an AMO does to w-bit operands by the ISA manual.                   *)
IsaAmo(f5, x, y, w) ==
    CASE f5 = "AMOMIN"  -> IF Signed(x, w) < Signed(y, w) THEN x ELSE y
      [] f5 = "AMOMAX"  -> IF Signed(x, w) < Signed(y, w) THEN y ELSE x
      [] f5 = "AMOMINU" -> IF x < y THEN x ELSE y
      [] f5 = "AMOMAXU" -> IF x < y THEN y ELSE x
      [] OTHER -> AmoResult(f5, x, y) % Pow2[w]

(* AMOs work on words as on doublewords, although the code computes with   *)
(* 64 bits at both widths: those that compare words only for an operand    *)
(* that is a sign-extended word, as compilers keep them (for others the    *)
(* upper bits decide the comparison), all the rest for any operand.        *)
AmoIsRight(f5, f3, m, src) ==
    LET w   == IF f3 = "W" THEN WLEN ELSE XLEN
        amo == execute_amo(f5, f3, m, src)
        compares == f5 \in {"AMOMIN", "AMOMAX", "AMOMINU", "AMOMAXU"}
    IN  (f3 = "W" /\ compares => src = SextW(src)) =>
           /\ amo.memory = IsaAmo(f5, m % Pow2[w], src % Pow2[w], w)
           /\ Signed(amo.rd, XLEN) = Signed(m % Pow2[w], w)
=============================================================================
