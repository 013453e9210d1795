-------------------------------- MODULE Mmu ---------------------------------
(***************************************************************************)
(* Virtual memory: mmu_translate of src/mmu.c over page tables that live   *)
(* in the very memory it translates to, and the loads, stores and fetches  *)
(* that go through it.  There is no TLB: every access walks the tables.    *)
(*                                                                         *)
(* An address is the set of its bit numbers, so that shifts are shifts of  *)
(* bit numbers and | is union.  Memory is addressed by words of one PTE: a *)
(* page of 2^12 bytes holds exactly one table of 2^9 PTEs of 8 bytes, so   *)
(* one constant, IndexBits, stands for both PT_INDEX_BITS and the bits of  *)
(* the offset in a page.  Every word of memory is a PTE or data that looks *)
(* like one.                                                               *)
(***************************************************************************)
EXTENDS Integers

CONSTANTS IndexBits,   \* PT_INDEX_BITS
          PtLevels,    \* PT_LEVELS
          PpnBits,     \* bits of a physical page number; memory has no holes
          Root,        \* the page number the kernel puts into satp
          Image,       \* memory when the kernel turns translation on
          Stored,      \* words that the guest stores
          MaxStores    \* bound on the words it stores

VaBit == 0 .. (IndexBits * (PtLevels + 1) - 1)
PaBit == 0 .. (IndexBits + PpnBits - 1)
Ppn   == SUBSET (0 .. (PpnBits - 1))
Va    == SUBSET VaBit
Pa    == SUBSET PaBit
Flags == {"V", "R", "W", "X", "U", "A", "D"}
Pte   == [ppn : Ppn, flags : SUBSET Flags]

ASSUME MmuAssumption ==
    /\ IndexBits \in Nat \ {0} /\ PtLevels \in Nat \ {0}
    /\ PpnBits \in Nat /\ PpnBits >= IndexBits * (PtLevels - 1)
    /\ Root \in Ppn /\ MaxStores \in Nat
    /\ Stored \subseteq Pte /\ Image \in [Pa -> Pte]

Levels == 0 .. (PtLevels - 1)

PRIV_U == 0
PRIV_S == 1
PRIV_M == 3
Privileges == {PRIV_U, PRIV_S, PRIV_M}

Accesses == {"fetch", "load", "store"}   \* MmuAccess

VARIABLES memory,
          privilege,
          sv39,       \* the mode field of satp is SATP_MODE_SV39
          sum,        \* mstatus.SUM; MXR is not read by any code
          delegated,  \* exceptions are handled in S-mode (medeleg)
          stores      \* words stored so far

mode == <<sv39, sum, delegated>>
vars == <<memory, privilege, mode, stores>>

(* Software that has built its first page table, in the mode that the boot *)
(* code starts it in: S for a kernel, M for a bare program.                *)
Init == /\ memory = Image
        /\ privilege \in {PRIV_S, PRIV_M}
        /\ sv39 = FALSE /\ sum = FALSE /\ delegated = TRUE
        /\ stores = 0

-----------------------------------------------------------------------------
(* Address arithmetic.                                                     *)
vpn_of(va, level) == {b \in 0 .. (IndexBits - 1) : b + IndexBits * (level + 1) \in va}

pte_addr_of(ppn, vpn) == {b + IndexBits : b \in ppn} \cup vpn

(* The word that physically follows pa, which is not the last of memory:   *)
(* the lowest clear bit is set and the bits below it are cleared.          *)
NextWord(pa) ==
    LET carry == CHOOSE b \in PaBit \ pa : \A c \in PaBit \ pa : b <= c
    IN  {b \in pa : b > carry} \cup {carry}

(* Mutant: the offset is that of a small page at every level.              *)
pte_to_pa_SmallPage(pte, va, level) ==
    {b + IndexBits : b \in pte.ppn} \cup {b \in va : b < IndexBits}

pte_to_pa(pte, va, level) ==
    {b + IndexBits : b \in pte.ppn} \cup {b \in va : b < IndexBits * (level + 1)}

-----------------------------------------------------------------------------
(* PTE predicates.                                                         *)
Malformed(pte) == "V" \notin pte.flags \/ ("R" \notin pte.flags /\ "W" \in pte.flags)
IsLeaf(pte)    == "R" \in pte.flags \/ "X" \in pte.flags

Needs(access) == CASE access = "fetch" -> "X" [] access = "load" -> "R" [] access = "store" -> "W"

(* Mutant: U-mode reaches pages without the U bit.                         *)
pte_check_NoUser(pte, access) ==
    /\ Needs(access) \in pte.flags
    /\ privilege = PRIV_S /\ "U" \in pte.flags => sum

pte_check(pte, access) ==
    /\ Needs(access) \in pte.flags
    /\ privilege = PRIV_U => "U" \in pte.flags
    /\ privilege = PRIV_S /\ "U" \in pte.flags => sum

mmu_active == privilege # PRIV_M /\ sv39

-----------------------------------------------------------------------------
(* The loop, on memory mem.  walk[n] is its state after n rounds: still    *)
(* walking with the table ppn, or out with a leaf at level, or out with a  *)
(* fault.  A loop that runs out of levels is a fault as well.              *)
Round(mem, w, va, level) ==
    LET addr == pte_addr_of(w.ppn, vpn_of(va, level))
        pte  == mem[addr]
    IN  CASE w.out # "walking" -> w
          [] w.out = "walking" /\ Malformed(pte) -> [w EXCEPT !.out = "fault"]
          [] w.out = "walking" /\ ~Malformed(pte) /\ IsLeaf(pte) ->
                [out |-> "leaf", ppn |-> w.ppn, addr |-> addr, level |-> level]
          [] OTHER -> [w EXCEPT !.ppn = pte.ppn]

(* Mutant: the levels are walked upwards.                                  *)
Walk_Upwards(mem, va) ==
    LET walk[n \in 0 .. PtLevels] ==
          IF n = 0 THEN [out |-> "walking", ppn |-> Root, addr |-> {}, level |-> 0]
                   ELSE Round(mem, walk[n - 1], va, n - 1)
    IN  walk[PtLevels]

Walk(mem, va) ==
    LET walk[n \in 0 .. PtLevels] ==
          IF n = 0 THEN [out |-> "walking", ppn |-> Root, addr |-> {}, level |-> 0]
                   ELSE Round(mem, walk[n - 1], va, PtLevels - n)
    IN  walk[PtLevels]

(* Does the access translate, and to what; meaningful if mmu_active.       *)
Permits(w, access) == w.out = "leaf" /\ pte_check(memory[w.addr], access)
Target(w, va) == pte_to_pa(memory[w.addr], va, w.level)

(* Mutants: the mark replaces the flags; D is forgotten.                   *)
Marked_Replaces(w, access) == [memory EXCEPT ![w.addr].flags = {"A"}]
Marked_NoDirty(w, access)  == [memory EXCEPT ![w.addr].flags = @ \cup {"A"}]

(* The write-back of A, and of D on stores, into the leaf.                 *)
Marked(w, access) ==
    [memory EXCEPT ![w.addr].flags =
        @ \cup {"A"} \cup (IF access = "store" THEN {"D"} ELSE {})]

-----------------------------------------------------------------------------
(* Accesses: vm_read*, vm_write* and the fetch, of an address va whose     *)
(* walk ended in w.                                                        *)
Read(w, access) ==
    /\ mmu_active /\ Permits(w, access)
    /\ memory' = Marked(w, access)
    /\ UNCHANGED <<privilege, mode, stores>>

(* The marks are written before the store itself, which may hit the same   *)
(* word.                                                                   *)
Write(va, w, value) ==
    /\ mmu_active /\ stores < MaxStores
    /\ Permits(w, "store")
    /\ memory' = [Marked(w, "store") EXCEPT ![Target(w, va)] = value]
    /\ stores' = stores + 1
    /\ UNCHANGED <<privilege, mode>>

(* An unaligned store changes two consecutive physical words.  Only the    *)
(* first byte is translated, so at the end of a page the second word is in *)
(* the next physical page, whoever owns it, with no check and no mark.  A  *)
(* store that runs past the end of memory ends the emulator.               *)
WriteAcross(va, w, first, second) ==
    /\ mmu_active /\ stores + 1 < MaxStores
    /\ Permits(w, "store") /\ Target(w, va) # PaBit
    /\ memory' = [Marked(w, "store") EXCEPT ![Target(w, va)] = first,
                                            ![NextWord(Target(w, va))] = second]
    /\ stores' = stores + 2
    /\ UNCHANGED <<privilege, mode>>

(* The mode that handles an exception below M-mode.                        *)
TrapMode == IF delegated THEN PRIV_S ELSE PRIV_M

PageFault(w, access) ==
    /\ mmu_active /\ ~Permits(w, access)
    /\ privilege' = TrapMode
    /\ UNCHANGED <<memory, mode, stores>>

(* Untranslated stores; untranslated reads change nothing.                 *)
WriteBare(pa, value) ==
    /\ ~mmu_active /\ stores < MaxStores
    /\ memory' = [memory EXCEPT ![pa] = value]
    /\ stores' = stores + 1
    /\ UNCHANGED <<privilege, mode>>
WriteBareAcross(pa, first, second) ==
    /\ ~mmu_active /\ stores + 1 < MaxStores
    /\ pa # PaBit
    /\ memory' = [memory EXCEPT ![pa] = first, ![NextWord(pa)] = second]
    /\ stores' = stores + 2
    /\ UNCHANGED <<privilege, mode>>

(* Privileged software: satp and SUM are its to write, medeleg is M-mode's *)
(* alone.  It may return to a lower mode (sret, mret); user programs come  *)
(* back by a system call.                                                  *)
WriteMode(on, s, d) ==
    /\ privilege # PRIV_U
    /\ d # delegated => privilege = PRIV_M
    /\ sv39' = on /\ sum' = s /\ delegated' = d
    /\ UNCHANGED <<memory, privilege, stores>>
Drop(level) ==
    /\ level < privilege /\ privilege' = level
    /\ UNCHANGED <<memory, mode, stores>>
Syscall ==
    /\ privilege = PRIV_U /\ privilege' = TrapMode
    /\ UNCHANGED <<memory, mode, stores>>

Access ==
    \E va \in Va :
        LET w == Walk(memory, va)
        IN  \/ \E access \in {"fetch", "load"} : Read(w, access)
            \/ \E value \in Stored : Write(va, w, value)
            \/ \E first, second \in Stored : WriteAcross(va, w, first, second)
            \/ \E access \in Accesses : PageFault(w, access)

Next ==
    \/ Access
    \/ \E pa \in Pa, value \in Stored : WriteBare(pa, value)
    \/ \E pa \in Pa, first, second \in Stored : WriteBareAcross(pa, first, second)
    \/ \E on, s, d \in BOOLEAN : WriteMode(on, s, d)
    \/ \E level \in {PRIV_U, PRIV_S} : Drop(level)
    \/ Syscall

Spec == Init /\ [][Next]_vars

-----------------------------------------------------------------------------
(* A chain of tables for va from the root down to the one at level: each   *)
(* table's entry for va points to the next one.                            *)
Chain(va, level, tables) ==
    /\ tables[PtLevels - 1] = Root
    /\ \A k \in (level + 1) .. (PtLevels - 1) :
          LET pte == memory[pte_addr_of(tables[k], vpn_of(va, k))]
          IN  ~Malformed(pte) /\ ~IsLeaf(pte) /\ pte.ppn = tables[k - 1]

(* The page-table structure itself, with no order of evaluation: the words *)
(* at level that map va.                                                   *)
Mapping(va, level) ==
    {addr \in {pte_addr_of(tables[level], vpn_of(va, level)) :
                   tables \in {t \in [level .. (PtLevels - 1) -> Ppn] : Chain(va, level, t)}} :
        ~Malformed(memory[addr]) /\ IsLeaf(memory[addr])}

(* The loop finds the leaf exactly when the tables map the address, and    *)
(* the very word that maps it, also in tables that contain themselves or   *)
(* share a page with data.                                                 *)
WalkFindsMapping ==
    \A va \in Va :
        LET w == Walk(memory, va)
        IN  IF w.out = "leaf" THEN Mapping(va, w.level) = {w.addr}
                              ELSE \A level \in Levels : Mapping(va, level) = {}

(* An aligned leaf maps its range linearly, superpages included: the page  *)
(* number comes from the PTE above the level of the leaf, and from the     *)
(* address below it.                                                       *)
SuperpagesAreLinear ==
    \A va \in Va :
        LET w   == Walk(memory, va)
            low == 0 .. (IndexBits * (w.level + 1) - 1)
        IN  w.out = "leaf" /\ (\A b \in memory[w.addr].ppn : b + IndexBits \notin low) =>
                /\ Target(w, va) \cap low = va \cap low
                /\ Target(w, va) \ low = {b + IndexBits : b \in memory[w.addr].ppn}

(* Reading has no effect on the address space: a load or a fetch, whatever *)
(* it marks, leaves every address mapped to where it was mapped, with the  *)
(* same permissions.                                                       *)
ReadsKeepMap ==
    [][memory' # memory /\ stores' = stores =>
        \A va \in Va :
            LET w == Walk(memory, va)
            IN  /\ Walk(memory', va) = w
                /\ w.out = "leaf" =>
                      /\ pte_to_pa(memory'[w.addr], va, w.level) = Target(w, va)
                      /\ \A access \in Accesses :
                            pte_check(memory'[w.addr], access) <=> pte_check(memory[w.addr], access)]_vars

(* The words that a user program may store to, by the tables.              *)
UserWritable ==
    {Target(Walk(memory, va), va) :
        va \in {v \in Va : LET w == Walk(memory, v)
                           IN  w.out = "leaf" /\ {"U", "W"} \subseteq memory[w.addr].flags}}

Unmarked(pte) == [pte EXCEPT !.flags = @ \ {"A", "D"}]

(* The words that an access changes, but for the A and D marks.            *)
Changed == {pa \in Pa : Unmarked(memory'[pa]) # Unmarked(memory[pa])}

(* Memory protection: loads, fetches and page faults of a user program     *)
(* change nothing but marks, and an aligned store changes only words of    *)
(* the pages mapped writable for it.  An unaligned one starts in such a    *)
(* page and reaches the word that physically follows and nothing else,     *)
(* even in the next page: that one word past the end of a page is all a    *)
(* user program ever gets beyond its own.                                  *)
UserConfined ==
    [][privilege = PRIV_U /\ sv39 =>
        \/ Changed = {}
        \/ stores' = stores + 1 /\ Changed \subseteq UserWritable
        \/ /\ stores' = stores + 2
           /\ \E home \in UserWritable \ {PaBit} : Changed \subseteq {home, NextWord(home)}]_vars

(* The words that a store of stores' - stores words at pa goes to.         *)
Hit(pa) == IF stores' = stores + 1 \/ pa = PaBit THEN {pa} ELSE {pa, NextWord(pa)}

(* A page is marked dirty by the store that dirties it: a store under      *)
(* translation changes only the word that its address maps to (and, when   *)
(* unaligned, the one that follows), through a leaf that permits it and    *)
(* has A and D set afterwards, except when the store replaces that very    *)
(* leaf.  The word that follows needs no leaf of its own: in the next page *)
(* it changes unmarked.                                                    *)
DirtyIsMarked ==
    [][mmu_active /\ stores' # stores =>
        \E va \in Va :
            LET w == Walk(memory, va)
            IN  /\ Permits(w, "store")
                /\ {"A", "D"} \subseteq memory'[w.addr].flags \/ w.addr \in Hit(Target(w, va))
                /\ \A pa \in Pa \ (Hit(Target(w, va)) \cup {w.addr}) : memory'[pa] = memory[pa]]_vars

=============================================================================
