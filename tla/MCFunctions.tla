---------------------------- MODULE MCFunctions -----------------------------
(***************************************************************************)
(* Inputs for PureFunctions: a behaviour picks one input of one function.  *)
(***************************************************************************)
EXTENDS PureFunctions, Bitwise

MCXor(a, b) == a ^^ b
MCAnd(a, b) == a & b
MCOr(a, b)  == a | b

(* What main adds, in its order but on a small scale: RAM, the only region *)
(* with data, then UART, PLIC (which ends where the UART begins), virtio   *)
(* and CLINT.                                                              *)
MCAdded ==
    LET Region(base, size, data) == [base |-> base, size |-> size, data |-> data] IN
    <<Region(128, 32, TRUE), Region(64, 4, FALSE), Region(32, 32, FALSE),
      Region(72, 8, FALSE), Region(4, 12, FALSE)>>

Opcodes == {OP_LUI, OP_AUIPC, OP_JAL, OP_JALR, OP_BRANCH, OP_LOAD, OP_STORE, OP_I_ARITH,
            OP_R_ARITH, OP_I_ARITH_W, OP_R_ARITH_W, OP_SYSTEM, OP_FLW_FLD, OP_FSW_FSD}

Registers == 0 .. (Pow2[XLEN] - 1)
Operands  ==
    {v \in Registers :
        v % Pow2[WLEN] \in {0, 1, 2, Pow2[WLEN - 1] - 1, Pow2[WLEN - 1], Pow2[WLEN] - 1}}
Amos      == {"AMOSWAP", "AMOADD", "AMOXOR", "AMOAND", "AMOOR",
              "AMOMIN", "AMOMAX", "AMOMINU", "AMOMAXU", "RESERVED"}

Segments == [load : BOOLEAN, vaddr : {0, 130, 200, 254}, paddr : {0, 2, 130},
             file_size : {0, 2, 4}, mem_size : {2, 4}]
Entries  == {0, 3, 130, 131, 200, 203, 254, 255}

Init == input = [of |-> "nothing"]

(* All compressed instructions.                                            *)
Halfwords == \E r \in SUBSET (0 .. 15) :
    IsCompressed(r) /\ input' = [of |-> "decode_rvc", r |-> r]

(* 32-bit instructions with two operand bits set, or two clear.            *)
Words == \E op \in Opcodes, i, j \in 7 .. 31 :
    \E r \in {op \cup {i, j}, op \cup ((7 .. 31) \ {i, j})} : input' = [of |-> "decode", r |-> r]

Arithmetic == \E a, b \in Operands : input' = [of |-> "arithmetic", a |-> a, b |-> b]

Amo == \E f5 \in Amos, f3 \in {"W", "D"}, m, src \in Operands :
    input' = [of |-> "amo", f5 |-> f5, f3 |-> f3, m |-> m, src |-> src]

Access == \E addr \in Addresses, width \in {1, 2, 4, 8} :
    input' = [of |-> "access", addr |-> addr, width |-> width]

File == \E n \in 1 .. 2 : \E phdrs \in [1 .. n -> Segments], entry \in Entries, base \in {0, 128} :
    input' = [of |-> "file", phdrs |-> phdrs, entry |-> entry, phys_base |-> base]

Next == input.of = "nothing" /\ (Halfwords \/ Words \/ Arithmetic \/ Amo \/ Access \/ File)

Spec == Init /\ [][Next]_input

=============================================================================
