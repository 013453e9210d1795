--------------------------- MODULE PureFunctions ----------------------------
(***************************************************************************)
(* What the pure functions of the emulator should compute: the decoders,   *)
(* integer arithmetic, AMOs, the memory map and the ELF loader.  The       *)
(* functions are translated in the modules extended here; input is one     *)
(* call, a record of the function called and its arguments.                *)
(***************************************************************************)
EXTENDS Decode, Alu, Elf

VARIABLE input

(* The decoders recover the immediate that the ISA manual defines from its *)
(* scrambled bits, in all formats: no bit is lost, misplaced or wrongly    *)
(* signed (decode, decode_rvc).                                            *)
ImmediatesMatchIsa == input.of \in {"decode", "decode_rvc"} => ImmediateIsRight(input.r)

(* decode_rvc ignores no bit: two compressed instructions that differ in   *)
(* one bit decode differently, unless they are reserved or write to x0.    *)
EveryBitCounts == input.of = "decode_rvc" => BitsCount(input.r)

(* DIV, REM and their unsigned forms, MUL, MULHU and the W forms have the  *)
(* results of the ISA manual at zero, overflow and every sign, unless the  *)
(* host kills the emulator at INT_MIN / -1 (execute in cpu.c).             *)
ArithmeticLaws ==
    input.of = "arithmetic" =>
        /\ DivisionIsRight(input.a, input.b, XLEN)
        /\ DivisionIsRight(Low(input.a), Low(input.b), WLEN)
        /\ UnsignedProductIsRight(input.a, input.b)
        /\ WordFormsAgree(input.a, input.b)

(* The README says that the ISA is implemented so that Linux cannot tell   *)
(* the emulated machine from hardware.  Of MULH and MULHSU it is not true: *)
(* they are not the upper half of the signed product (execute in cpu.c).   *)
SignedProductsMatchIsa ==
    input.of = "arithmetic" => SignedProductsAreRight(input.a, input.b)

(* AMO.W computes with 64 bits and still does what it should to a word, as *)
(* long as one that compares is given a sign-extended word (execute_amo).  *)
AmoOnWords == input.of = "amo" => AmoIsRight(input.f5, input.f3, input.m, input.src)

(* mem_find_region serves an access from a region that holds all of it, or *)
(* the access reaches the end of the address space.                        *)
AccessInBounds ==
    input.of = "access" =>
        AccessIsInside(input.addr, input.width) /\ AccessWraps(input.addr, input.width)

(* elf_load starts the program at the byte its file has at the virtual     *)
(* entry point.                                                            *)
EntryIsLoaded == input.of = "file" => EntryIsRight(input.phdrs, input.entry, input.phys_base)
=============================================================================
