-------------------------------- MODULE Elf ---------------------------------
(***************************************************************************)
(* The ELF loader of src/elf.c: where the bytes of a file end up in guest  *)
(* memory, and where execution starts.  A file is a sequence of program    *)
(* headers and a virtual entry point; byte number n of segment i is the    *)
(* pair <<i, n>>.                                                          *)
(***************************************************************************)
EXTENDS MemoryMap, FiniteSetsExt

Loads(phdrs) == {i \in DOMAIN phdrs : phdrs[i].load}
Larger(a, b) == IF a > b THEN a ELSE b

(* Mutant: the shift is that of the first segment of any type.             *)
virt_shift_AnyType(phdrs) == (phdrs[1].vaddr - phdrs[1].paddr) % AddrSpace

(* The shift of the first LOAD segment.                                    *)
virt_shift(phdrs) ==
    IF Loads(phdrs) = {} THEN 0
    ELSE LET first == phdrs[Min(Loads(phdrs))] IN (first.vaddr - first.paddr) % AddrSpace

PhysAddr(phdr, phys_base) == (phdr.paddr + phys_base) % AddrSpace

(* mem_write_buf copies into the data of the region it finds.              *)
Writable(addr, len) ==
    len = 0 \/ LET i == mem_find_region(addr, len) IN i # 0 /\ regions[i].data

(* The file's part of a segment and its BSS are written separately.        *)
SegmentFits(phdr, phys_base) ==
    LET addr == PhysAddr(phdr, phys_base) IN
    /\ Writable(addr, phdr.file_size)
    /\ phdr.mem_size > phdr.file_size =>
          Writable((addr + phdr.file_size) % AddrSpace, phdr.mem_size - phdr.file_size)

(* Byte n of segment i: from the file, or zero in the BSS.                 *)
Byte(phdrs, i, n) == IF n < phdrs[i].file_size THEN <<i, n>> ELSE <<0, 0>>
Length(phdr) == Larger(phdr.file_size, phdr.mem_size)

(* The byte at addr once all segments are written: of the last one there.  *)
Loaded(phdrs, phys_base, addr) ==
    LET Index(i) == (addr - PhysAddr(phdrs[i], phys_base)) % AddrSpace
        over == {i \in Loads(phdrs) : Index(i) < Length(phdrs[i])}
    IN  IF over = {} THEN <<>> ELSE Byte(phdrs, Max(over), Index(Max(over)))

Exit == -1   \* the emulator ends

(* The whole of elf_load for a RISC-V file: the physical entry, or Exit.   *)
elf_load(phdrs, entry, phys_base) ==
    IF \A i \in Loads(phdrs) : SegmentFits(phdrs[i], phys_base)
    THEN (entry - virt_shift(phdrs) + phys_base) % AddrSpace
    ELSE Exit

-----------------------------------------------------------------------------
(* What the loader relies on: all LOAD segments are shifted alike, and no  *)
(* two of them share addresses.                                            *)
WellFormed(phdrs) ==
    \A i, j \in Loads(phdrs) :
        /\ (phdrs[i].vaddr - phdrs[i].paddr) % AddrSpace = (phdrs[j].vaddr - phdrs[j].paddr) % AddrSpace
        /\ i # j => \/ phdrs[i].paddr + Length(phdrs[i]) <= phdrs[j].paddr
                    \/ phdrs[j].paddr + Length(phdrs[j]) <= phdrs[i].paddr

(* The program starts at the byte that its file has at the virtual entry   *)
(* point, for kernels linked high and loaded low as for programs linked    *)
(* where they run, and nothing is loaded outside RAM.                      *)
EntryIsRight(phdrs, entry, phys_base) ==
    LET start == elf_load(phdrs, entry, phys_base)
        Index(i) == (entry - phdrs[i].vaddr) % AddrSpace
    IN  WellFormed(phdrs) /\ start # Exit =>
          \A i \in Loads(phdrs) : Index(i) < Length(phdrs[i]) =>
             /\ Loaded(phdrs, phys_base, start) = Byte(phdrs, i, Index(i))
             /\ \E j \in DOMAIN regions : regions[j].data /\ regions[j].base <= start
                                            /\ start < regions[j].base + regions[j].size
=============================================================================
