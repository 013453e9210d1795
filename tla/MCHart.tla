------------------------------- MODULE MCHart -------------------------------
(***************************************************************************)
(* What the guest writes in the two boot modes.  A kernel may set and      *)
(* clear the bits it can see, and tries the M-mode bits it must not reach; *)
(* a bare program in M-mode has the previous-privilege field as well.      *)
(***************************************************************************)
EXTENDS Hart

KernelMasks == {{SIE}, {SPIE, SEIP}, {SPP, MPP1}}
ElfMasks    == {{SIE, MIE, SEIP, MPP0}}
KernelCsrs  == MaskCsrs \cup AddrCsrs \cup {"satp"}
ElfCsrs     == {"mstatus", "mie", "mideleg"}

MCMasks == [boot \in BOOLEAN |-> IF boot THEN KernelMasks ELSE ElfMasks]
MCCsrs  == [boot \in BOOLEAN |-> IF boot THEN KernelCsrs ELSE ElfCsrs]
=============================================================================
