----------------------------- MODULE MemoryMap ------------------------------
(***************************************************************************)
(* The memory map of src/memory.c: the table of regions that main fills,   *)
(* and the lookup through which every access goes.  Addresses are numbers  *)
(* modulo AddrSpace, 2^64 in the code.                                     *)
(***************************************************************************)
EXTENDS Integers, Sequences

CONSTANTS AddrSpace,    \* 2^64
          MAX_REGIONS,
          Added         \* what main passes to mem_add_region and mem_add_device, in order

ASSUME MemoryMapAssumption ==
    /\ AddrSpace \in Nat \ {0} /\ MAX_REGIONS \in Nat
    /\ Added \in Seq([base : Nat, size : Nat, data : BOOLEAN])
    /\ \A i \in DOMAIN Added : Added[i].base + Added[i].size < AddrSpace

Addresses == 0 .. (AddrSpace - 1)

(* add_region drops what does not fit the table.  Devices have no data.    *)
regions == SubSeq(Added, 1, IF Len(Added) <= MAX_REGIONS THEN Len(Added) ELSE MAX_REGIONS)

(* Mutant: only the first byte has to be inside.                           *)
Accepts_FirstByte(r, addr, width) == addr >= r.base /\ addr < r.base + r.size

(* The test in mem_find_region; the sum of addr and width may wrap.        *)
Accepts(r, addr, width) == addr >= r.base /\ (addr + width) % AddrSpace <= r.base + r.size

(* The first region that accepts the access, 0 if none does: exit(1).      *)
mem_find_region(addr, width) ==
    IF \E i \in DOMAIN regions : Accepts(regions[i], addr, width)
    THEN CHOOSE i \in DOMAIN regions :
            /\ Accepts(regions[i], addr, width)
            /\ \A j \in DOMAIN regions : j < i => ~Accepts(regions[j], addr, width)
    ELSE 0

(* The offset that a read or write handler gets.                           *)
Offset(addr, width) == (addr - regions[mem_find_region(addr, width)].base) % AddrSpace

-----------------------------------------------------------------------------
(* An access that does not reach the end of the address space is served by *)
(* a region that holds all of it, at an offset inside the region, and is   *)
(* refused only if no region holds it.                                     *)
AccessIsInside(addr, width) ==
    LET i == mem_find_region(addr, width) IN
    addr + width < AddrSpace =>
        IF i = 0
        THEN \A j \in DOMAIN regions :
                ~(regions[j].base <= addr /\ addr + width <= regions[j].base + regions[j].size)
        ELSE /\ i \in DOMAIN regions
             /\ regions[i].base <= addr /\ addr + width <= regions[i].base + regions[i].size
             /\ Offset(addr, width) + width <= regions[i].size

(* An access that does reach the end wraps, and the first region at or     *)
(* below it takes it, at an offset outside.                                *)
AccessWraps(addr, width) ==
    LET i == mem_find_region(addr, width) IN
    addr + width \in AddrSpace .. (AddrSpace + 7) /\ i # 0 => Offset(addr, width) >= regions[i].size
=============================================================================
