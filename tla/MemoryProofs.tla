---------------------------- MODULE MemoryProofs ----------------------------
(***************************************************************************)
(* An access to memory from the address to the byte: the page tables for   *)
(* any number of levels, any size of tables and any contents, then the     *)
(* memory map for any table of regions and any size of address space.      *)
(***************************************************************************)
EXTENDS Mmu, PureFunctions, SequenceTheorems, WellFoundedInduction, TLAPS

(* The least element of a set of numbers: induction for what follows.      *)
LEMMA LeastOf ==
    ASSUME NEW S \in SUBSET Nat, S # {}
    PROVE  \E n \in S : \A m \in S : ~(m < n)
<1>1. PICK n \in S : \A m \in S : ~(<<m, n>> \in OpToRel(<, Nat))
  BY NatLessThanWellFounded, WFMin, Zenon
<1> QED
  BY <1>1 DEF OpToRel

-----------------------------------------------------------------------------
(* The walk as a function of the rounds made.                              *)
WalkStart == [out |-> "walking", ppn |-> Root, addr |-> {}, level |-> 0]
WalkStates == [out : {"walking", "leaf", "fault"}, ppn : Ppn, addr : Pa, level : Nat]
IsWalk(mem, va, n, f) ==
    f = [k \in 0 .. n |-> IF k = 0 THEN WalkStart ELSE Round(mem, f[k - 1], va, PtLevels - k)]

(* A walk of any number of rounds exists.                                  *)
LEMMA WalkExists ==
    ASSUME NEW mem, NEW va
    PROVE  \A n \in Nat : \E f : IsWalk(mem, va, n, f)
<1> DEFINE S == {n \in Nat : ~ \E f : IsWalk(mem, va, n, f)}
<1> SUFFICES ASSUME S # {} PROVE FALSE
  OBVIOUS
<1>1. PICK n \in S : \A m \in S : ~(m < n)
  BY LeastOf
<1>2. CASE n = 0
  <2> DEFINE f == [k \in 0 .. 0 |-> WalkStart]
  <2>1. IsWalk(mem, va, 0, f)
    BY DEF IsWalk
  <2> QED
    BY <1>1, <1>2, <2>1
<1>3. CASE n # 0
  <2>1. n - 1 \in Nat /\ n \in Nat /\ n - 1 \notin S
    BY <1>1, <1>3
  <2>2. PICK f : IsWalk(mem, va, n - 1, f)
    BY <2>1
  <2> DEFINE g == [k \in 0 .. n |-> IF k = n THEN Round(mem, f[n - 1], va, PtLevels - n) ELSE f[k]]
  <2>3. ASSUME NEW k \in 0 .. n
        PROVE  g[k] = IF k = 0 THEN WalkStart ELSE Round(mem, g[k - 1], va, PtLevels - k)
    <3>1. CASE k = n
      <4>1. g[n] = Round(mem, f[n - 1], va, PtLevels - n) /\ g[n - 1] = f[n - 1]
        BY <2>1
      <4> HIDE DEF g
      <4> QED
        BY <1>3, <3>1, <4>1
    <3>2. CASE k # n
      <4>1. k \in 0 .. (n - 1) /\ g[k] = f[k] /\ (k # 0 => g[k - 1] = f[k - 1])
        BY <2>1, <3>2
      <4> HIDE DEF g
      <4>2. f[k] = IF k = 0 THEN WalkStart ELSE Round(mem, f[k - 1], va, PtLevels - k)
        BY <2>2, <4>1 DEF IsWalk
      <4> QED
        BY <4>1, <4>2
    <3> QED
      BY <3>1, <3>2
  <2>4. IsWalk(mem, va, n, g)
    BY <2>3 DEF IsWalk
  <2> QED
    BY <1>1, <2>4
<1> QED
  BY <1>2, <1>3

(* The recursive function in Walk is such a walk.                          *)
LEMMA WalkIs ==
    ASSUME NEW mem, NEW va
    PROVE  \E f : IsWalk(mem, va, PtLevels, f) /\ Walk(mem, va) = f[PtLevels]
<1> DEFINE f == CHOOSE f : IsWalk(mem, va, PtLevels, f)
<1>1. IsWalk(mem, va, PtLevels, f)
  BY WalkExists, MmuAssumption
<1>2. Walk(mem, va) = f[PtLevels]
  BY Zenon DEF Walk, IsWalk, WalkStart
<1> QED
  BY <1>1, <1>2

(* The word that a table holds for va is in memory.                        *)
LEMMA PteAddrInMemory ==
    ASSUME NEW ppn \in Ppn, NEW va, NEW level
    PROVE  pte_addr_of(ppn, vpn_of(va, level)) \in Pa
<1>1. IndexBits \in Nat \ {0} /\ PpnBits \in Nat
  BY MmuAssumption
<1>2. \A b \in ppn : b + IndexBits \in PaBit
  BY <1>1 DEF Ppn, PaBit
<1>3. vpn_of(va, level) \subseteq PaBit
  BY <1>1 DEF vpn_of, PaBit
<1> QED
  BY <1>2, <1>3 DEF pte_addr_of, Pa

(* The four outcomes of a round.                                           *)
LEMMA RoundCases ==
    ASSUME NEW mem \in [Pa -> Pte], NEW va, NEW w \in WalkStates, NEW level \in Nat
    PROVE  LET addr == pte_addr_of(w.ppn, vpn_of(va, level))
               pte  == mem[addr]
               next == Round(mem, w, va, level)
           IN  /\ next \in WalkStates /\ addr \in Pa /\ pte \in Pte
               /\ w.out # "walking" => next = w
               /\ w.out = "walking" /\ Malformed(pte) => next.out = "fault"
               /\ w.out = "walking" /\ ~Malformed(pte) /\ IsLeaf(pte) =>
                     next = [out |-> "leaf", ppn |-> w.ppn, addr |-> addr, level |-> level]
               /\ w.out = "walking" /\ ~Malformed(pte) /\ ~IsLeaf(pte) =>
                     next.out = "walking" /\ next.ppn = pte.ppn
<1> DEFINE addr == pte_addr_of(w.ppn, vpn_of(va, level))
           pte  == mem[addr]
           next == Round(mem, w, va, level)
<1>1. addr \in Pa /\ pte \in Pte /\ w.ppn \in Ppn /\ pte.ppn \in Ppn
  BY PteAddrInMemory DEF WalkStates, Pte
<1>2. next = CASE w.out # "walking" -> w
               [] w.out = "walking" /\ Malformed(pte) -> [w EXCEPT !.out = "fault"]
               [] w.out = "walking" /\ ~Malformed(pte) /\ IsLeaf(pte) ->
                     [out |-> "leaf", ppn |-> w.ppn, addr |-> addr, level |-> level]
               [] OTHER -> [w EXCEPT !.ppn = pte.ppn]
  BY DEF Round
<1> HIDE DEF addr, pte, next
<1>3. CASE w.out # "walking"
  BY <1>1, <1>2, <1>3 DEF addr, pte, next
<1>4. CASE w.out = "walking" /\ Malformed(pte)
  <2>1. next = [w EXCEPT !.out = "fault"]
    BY <1>2, <1>4
  <2>2. next \in WalkStates /\ next.out = "fault"
    BY <2>1 DEF WalkStates
  <2> QED
    BY <1>1, <1>4, <2>2 DEF addr, pte, next
<1>5. CASE w.out = "walking" /\ ~Malformed(pte) /\ IsLeaf(pte)
  <2>1. next = [out |-> "leaf", ppn |-> w.ppn, addr |-> addr, level |-> level]
    BY <1>2, <1>5
  <2>2. next \in WalkStates
    BY <1>1, <2>1 DEF WalkStates
  <2> QED
    BY <1>1, <1>5, <2>1, <2>2 DEF addr, pte, next
<1>6. CASE w.out = "walking" /\ ~Malformed(pte) /\ ~IsLeaf(pte)
  <2>1. next = [w EXCEPT !.ppn = pte.ppn]
    BY <1>2, <1>6
  <2>2. next \in WalkStates /\ next.out = "walking" /\ next.ppn = pte.ppn
    BY <1>1, <1>6, <2>1 DEF WalkStates
  <2> QED
    BY <1>1, <1>6, <2>2 DEF addr, pte, next
<1> QED
  BY <1>3, <1>4, <1>5, <1>6 DEF addr, pte, next

(* The states of the walk are in range, and its first is WalkStart.        *)
LEMMA WalkTypes ==
    ASSUME NEW mem \in [Pa -> Pte], NEW va, NEW f, IsWalk(mem, va, PtLevels, f)
    PROVE  /\ f[0] = WalkStart
           /\ \A k \in 0 .. PtLevels : f[k] \in WalkStates
           /\ \A k \in 0 .. (PtLevels - 1) :
                 f[k + 1] = Round(mem, f[k], va, PtLevels - 1 - k) /\ PtLevels - 1 - k \in Nat
<1>0. PtLevels \in Nat \ {0}
  BY MmuAssumption
<1>1. f[0] = WalkStart
  BY <1>0 DEF IsWalk
<1>2. ASSUME NEW k \in 0 .. (PtLevels - 1)
      PROVE  f[k + 1] = Round(mem, f[k], va, PtLevels - 1 - k) /\ PtLevels - 1 - k \in Nat
  <2>1. /\ k + 1 \in 0 .. PtLevels /\ k + 1 # 0 /\ (k + 1) - 1 = k
        /\ PtLevels - (k + 1) = PtLevels - 1 - k /\ PtLevels - 1 - k \in Nat
    BY <1>0
  <2>2. f[k + 1] = Round(mem, f[(k + 1) - 1], va, PtLevels - (k + 1))
    BY <2>1 DEF IsWalk
  <2> QED
    BY <2>1, <2>2
<1>3. \A k \in 0 .. PtLevels : f[k] \in WalkStates
  <2> DEFINE S == {k \in 0 .. PtLevels : f[k] \notin WalkStates}
  <2> SUFFICES ASSUME S # {} PROVE FALSE
    OBVIOUS
  <2>0. S \in SUBSET Nat
    OBVIOUS
  <2>1. PICK k \in S : \A m \in S : ~(m < k)
    <3> HIDE DEF S
    <3> QED
      BY <2>0, LeastOf
  <2>2. k # 0
    <3>1. WalkStart \in WalkStates
      BY MmuAssumption DEF WalkStart, WalkStates, Pa
    <3> QED
      BY <1>1, <2>1, <3>1
  <2>3. k - 1 \in 0 .. (PtLevels - 1) /\ (k - 1) + 1 = k /\ k - 1 \notin S
    BY <1>0, <2>1, <2>2
  <2>4. f[k - 1] \in WalkStates
    BY <1>0, <2>3
  <2>5. f[k] \in WalkStates
    BY <1>2, <2>3, <2>4, RoundCases
  <2> QED
    BY <2>1, <2>5
<1> QED
  BY <1>1, <1>2, <1>3

(* Out of the loop the walk does not change.                               *)
LEMMA WalkStays ==
    ASSUME NEW mem \in [Pa -> Pte], NEW va, NEW f, IsWalk(mem, va, PtLevels, f),
           NEW j \in 0 .. PtLevels, f[j].out # "walking"
    PROVE  \A k \in j .. PtLevels : f[k] = f[j]
<1>0. PtLevels \in Nat \ {0}
  BY MmuAssumption
<1> DEFINE S == {k \in j .. PtLevels : f[k] # f[j]}
<1> SUFFICES ASSUME S # {} PROVE FALSE
  OBVIOUS
<1>1. S \in SUBSET Nat
  BY <1>0
<1>2. PICK k \in S : \A m \in S : ~(m < k)
  <2> HIDE DEF S
  <2> QED
    BY <1>1, LeastOf
<1>3. /\ k # j /\ k - 1 \in j .. PtLevels /\ k - 1 \in 0 .. (PtLevels - 1) /\ (k - 1) + 1 = k
      /\ k - 1 \notin S /\ k - 1 \in 0 .. PtLevels
  BY <1>0, <1>2
<1>4. f[k - 1] = f[j]
  BY <1>3
<1>5. f[k] = f[k - 1]
  BY <1>3, <1>4, WalkTypes, RoundCases
<1> QED
  BY <1>2, <1>4, <1>5

-----------------------------------------------------------------------------
(* The entry that the table ppn at level has for va.                       *)
Entry(va, ppn, level) == memory[pte_addr_of(ppn, vpn_of(va, level))]

(* The walk follows every chain of tables there is, so there is only one.  *)
LEMMA ChainIsWalk ==
    ASSUME memory \in [Pa -> Pte], NEW va, NEW f, IsWalk(memory, va, PtLevels, f),
           NEW level \in Levels, NEW t, Chain(va, level, t)
    PROVE  \A j \in 0 .. (PtLevels - 1 - level) :
              f[j].out = "walking" /\ f[j].ppn = t[PtLevels - 1 - j]
<1>0. PtLevels \in Nat \ {0} /\ level \in 0 .. (PtLevels - 1)
  BY MmuAssumption DEF Levels
<1> DEFINE S == {j \in 0 .. (PtLevels - 1 - level) :
                    ~(f[j].out = "walking" /\ f[j].ppn = t[PtLevels - 1 - j])}
<1> SUFFICES ASSUME S # {} PROVE FALSE
  OBVIOUS
<1>1. S \in SUBSET Nat
  BY <1>0
<1>2. PICK j \in S : \A m \in S : ~(m < j)
  <2> HIDE DEF S
  <2> QED
    BY <1>1, LeastOf
<1>3. CASE j = 0
  <2>1. f[0] = WalkStart /\ PtLevels - 1 - 0 = PtLevels - 1
    BY <1>0, WalkTypes
  <2>2. f[0].out = "walking" /\ f[0].ppn = t[PtLevels - 1]
    BY <2>1 DEF WalkStart, Chain
  <2> QED
    BY <1>2, <1>3, <2>1, <2>2
<1>4. CASE j # 0
  <2> DEFINE i == j - 1
             k == PtLevels - 1 - i
  <2>1. /\ i \in 0 .. (PtLevels - 1 - level) /\ i \notin S /\ i + 1 = j
        /\ i \in 0 .. (PtLevels - 1) /\ i \in 0 .. PtLevels
        /\ k \in (level + 1) .. (PtLevels - 1) /\ k - 1 = PtLevels - 1 - j /\ k \in Nat
    BY <1>0, <1>2, <1>4
  <2>2. f[i].out = "walking" /\ f[i].ppn = t[k]
    BY <2>1
  <2> HIDE DEF i, k
  <2>3. ~Malformed(Entry(va, t[k], k)) /\ ~IsLeaf(Entry(va, t[k], k))
        /\ Entry(va, t[k], k).ppn = t[k - 1]
    BY <2>1 DEF Chain, Entry
  <2>4. f[j] = Round(memory, f[i], va, k) /\ f[i] \in WalkStates
    BY <2>1, WalkTypes DEF k
  <2>5. f[j].out = "walking" /\ f[j].ppn = t[k - 1]
    BY <2>1, <2>2, <2>3, <2>4, RoundCases DEF Entry
  <2> QED
    BY <1>2, <2>1, <2>5
<1> QED
  BY <1>3, <1>4

(* While it is walking, the tables the walk has visited are a chain.       *)
LEMMA WalkIsChain ==
    ASSUME memory \in [Pa -> Pte], NEW va, NEW f, IsWalk(memory, va, PtLevels, f),
           NEW j \in 0 .. (PtLevels - 1), f[j].out = "walking"
    PROVE  LET level == PtLevels - 1 - j
               t     == [k \in level .. (PtLevels - 1) |-> f[PtLevels - 1 - k].ppn]
           IN  t \in [level .. (PtLevels - 1) -> Ppn] /\ Chain(va, level, t)
<1>0. PtLevels \in Nat \ {0}
  BY MmuAssumption
<1> DEFINE level == PtLevels - 1 - j
           t     == [k \in level .. (PtLevels - 1) |-> f[PtLevels - 1 - k].ppn]
<1>1. level \in 0 .. (PtLevels - 1) /\ j \in 0 .. PtLevels
  BY <1>0
<1>2. \A i \in 0 .. j : f[i].out = "walking" /\ f[i].ppn \in Ppn
  <2> SUFFICES ASSUME NEW i \in 0 .. j PROVE f[i].out = "walking" /\ f[i].ppn \in Ppn
    OBVIOUS
  <2>1. i \in 0 .. PtLevels /\ j \in i .. PtLevels
    BY <1>0
  <2> QED
    BY <2>1, WalkStays, WalkTypes DEF WalkStates
<1>3. t \in [level .. (PtLevels - 1) -> Ppn]
  <2>1. \A k \in level .. (PtLevels - 1) : PtLevels - 1 - k \in 0 .. j
    BY <1>0
  <2> QED
    BY <1>2, <2>1
<1>4. t[PtLevels - 1] = Root
  <2>1. PtLevels - 1 \in level .. (PtLevels - 1) /\ PtLevels - 1 - (PtLevels - 1) = 0
    BY <1>0
  <2>2. f[0].ppn = Root
    BY WalkTypes DEF WalkStart
  <2> QED
    BY <2>1, <2>2
<1>5. ASSUME NEW k \in (level + 1) .. (PtLevels - 1)
      PROVE  /\ ~Malformed(Entry(va, t[k], k)) /\ ~IsLeaf(Entry(va, t[k], k))
             /\ Entry(va, t[k], k).ppn = t[k - 1]
  <2> DEFINE i == PtLevels - 1 - k
  <2>1. /\ i \in 0 .. j /\ i + 1 \in 0 .. j /\ i \in 0 .. (PtLevels - 1) /\ i \in 0 .. PtLevels
        /\ k \in level .. (PtLevels - 1) /\ k - 1 \in level .. (PtLevels - 1)
        /\ PtLevels - 1 - (k - 1) = i + 1 /\ k = PtLevels - 1 - i /\ k \in Nat
    BY <1>0
  <2>2. t[k] = f[i].ppn /\ t[k - 1] = f[i + 1].ppn
    BY <2>1
  <2> HIDE DEF i, t
  <2>3. f[i + 1] = Round(memory, f[i], va, k) /\ f[i] \in WalkStates
    BY <2>1, WalkTypes
  <2>4. f[i].out = "walking" /\ f[i + 1].out = "walking"
    BY <1>2, <2>1
  <2>5. ~Malformed(Entry(va, f[i].ppn, k)) /\ ~IsLeaf(Entry(va, f[i].ppn, k))
    BY <2>1, <2>3, <2>4, RoundCases DEF Entry
  <2> QED
    BY <2>1, <2>2, <2>3, <2>4, <2>5, RoundCases DEF Entry
<1>6. Chain(va, level, t)
  <2> HIDE DEF t, level
  <2> QED
    BY <1>4, <1>5 DEF Chain, Entry
<1> QED
  BY <1>3, <1>6

(* A walk that ends in a leaf took it from the last table it visited.      *)
LEMMA LeafRound ==
    ASSUME memory \in [Pa -> Pte], NEW va, NEW f, IsWalk(memory, va, PtLevels, f),
           f[PtLevels].out = "leaf"
    PROVE  \E j \in 0 .. (PtLevels - 1) :
              LET level == PtLevels - 1 - j
              IN  /\ f[j].out = "walking" /\ level \in Levels
                  /\ ~Malformed(Entry(va, f[j].ppn, level)) /\ IsLeaf(Entry(va, f[j].ppn, level))
                  /\ f[PtLevels].addr = pte_addr_of(f[j].ppn, vpn_of(va, level))
                  /\ f[PtLevels].level = level
<1>0. PtLevels \in Nat \ {0}
  BY MmuAssumption
<1> DEFINE S == {k \in 0 .. PtLevels : f[k].out # "walking"}
<1>1. S \in SUBSET Nat /\ PtLevels \in S
  BY <1>0
<1>2. PICK k \in S : \A m \in S : ~(m < k)
  <2> HIDE DEF S
  <2> QED
    BY <1>1, LeastOf
<1>3. f[PtLevels] = f[k]
  <2>1. PtLevels \in k .. PtLevels
    BY <1>0, <1>2
  <2> QED
    BY <1>2, <2>1, WalkStays
<1>4. k # 0
  BY <1>2, WalkTypes DEF WalkStart
<1> DEFINE j == k - 1
           level == PtLevels - 1 - j
<1>5. /\ j \in 0 .. (PtLevels - 1) /\ j + 1 = k /\ f[j].out = "walking" /\ level \in Nat
      /\ level \in Levels
  BY <1>0, <1>2, <1>4 DEF Levels
<1>6. f[k] = Round(memory, f[j], va, level) /\ f[j] \in WalkStates
  <2>1. j \in 0 .. PtLevels
    BY <1>0, <1>5
  <2> QED
    BY <1>5, <2>1, WalkTypes
<1> HIDE DEF j, level, S
<1>7. f[k].out = "leaf"
  BY <1>3
<1>8. ~Malformed(Entry(va, f[j].ppn, level)) /\ IsLeaf(Entry(va, f[j].ppn, level))
  BY <1>5, <1>6, <1>7, RoundCases DEF Entry
<1>9. f[k] = [out |-> "leaf", ppn |-> f[j].ppn,
              addr |-> pte_addr_of(f[j].ppn, vpn_of(va, level)), level |-> level]
  BY <1>5, <1>6, <1>8, RoundCases DEF Entry
<1> QED
  BY <1>3, <1>5, <1>8, <1>9 DEF level

(* The loop and the structure of the tables agree, whatever memory holds.  *)
LEMMA WalkCorrect == memory \in [Pa -> Pte] => WalkFindsMapping
<1> SUFFICES ASSUME memory \in [Pa -> Pte], NEW va \in Va
             PROVE  LET w == Walk(memory, va)
                    IN  IF w.out = "leaf" THEN Mapping(va, w.level) = {w.addr}
                        ELSE \A level \in Levels : Mapping(va, level) = {}
  BY DEF WalkFindsMapping
<1>0. PtLevels \in Nat \ {0}
  BY MmuAssumption
<1>1. PICK f : IsWalk(memory, va, PtLevels, f) /\ Walk(memory, va) = f[PtLevels]
  BY WalkIs
(* An address that a chain maps is the one the walk finds there.           *)
<1>2. ASSUME NEW level \in Levels, NEW addr \in Mapping(va, level)
      PROVE  LET j == PtLevels - 1 - level
             IN  /\ f[j].out = "walking" /\ addr = pte_addr_of(f[j].ppn, vpn_of(va, level))
                 /\ f[PtLevels].out = "leaf"
  <2>1. PICK t \in [level .. (PtLevels - 1) -> Ppn] :
              Chain(va, level, t) /\ addr = pte_addr_of(t[level], vpn_of(va, level))
    BY <1>2 DEF Mapping
  <2>2. ~Malformed(memory[addr]) /\ IsLeaf(memory[addr])
    BY <1>2 DEF Mapping
  <2> DEFINE j == PtLevels - 1 - level
  <2>3. /\ j \in 0 .. (PtLevels - 1 - level) /\ PtLevels - 1 - j = level /\ j \in 0 .. (PtLevels - 1)
        /\ level \in Nat /\ j \in 0 .. PtLevels /\ j + 1 \in 0 .. PtLevels
        /\ PtLevels \in (j + 1) .. PtLevels
    BY <1>0 DEF Levels
  <2> HIDE DEF j
  <2>4. f[j].out = "walking" /\ f[j].ppn = t[level]
    BY <1>1, <2>1, <2>3, ChainIsWalk
  <2>5. f[j + 1] = Round(memory, f[j], va, level) /\ f[j] \in WalkStates
    BY <1>1, <2>3, WalkTypes
  <2>6. f[j + 1].out = "leaf"
    <3>1. ~Malformed(Entry(va, f[j].ppn, level)) /\ IsLeaf(Entry(va, f[j].ppn, level))
      BY <2>1, <2>2, <2>4 DEF Entry
    <3>2. \A w \in WalkStates :
             w.out = "walking" /\ w.ppn = f[j].ppn => Round(memory, w, va, level).out = "leaf"
      BY <2>3, <3>1, RoundCases DEF Entry
    <3> QED
      BY <2>4, <2>5, <3>2
  <2>7. f[PtLevels] = f[j + 1]
    <3>1. f[j + 1].out # "walking"
      BY <2>6
    <3>2. \A k \in (j + 1) .. PtLevels : f[k] = f[j + 1]
      BY <1>1, <2>3, <3>1, WalkStays
    <3> QED
      BY <2>3, <3>2
  <2> QED
    BY <2>1, <2>4, <2>6, <2>7 DEF j
<1>3. CASE f[PtLevels].out # "leaf"
  BY <1>1, <1>2, <1>3
<1>4. CASE f[PtLevels].out = "leaf"
  <2>1. PICK j \in 0 .. (PtLevels - 1) :
              LET level == PtLevels - 1 - j
              IN  /\ f[j].out = "walking" /\ level \in Levels
                  /\ ~Malformed(Entry(va, f[j].ppn, level)) /\ IsLeaf(Entry(va, f[j].ppn, level))
                  /\ f[PtLevels].addr = pte_addr_of(f[j].ppn, vpn_of(va, level))
                  /\ f[PtLevels].level = level
    BY <1>1, <1>4, LeafRound
  <2> DEFINE level == PtLevels - 1 - j
             t     == [k \in level .. (PtLevels - 1) |-> f[PtLevels - 1 - k].ppn]
             addr  == f[PtLevels].addr
  <2>2. t \in [level .. (PtLevels - 1) -> Ppn] /\ Chain(va, level, t)
    BY <1>1, <2>1, WalkIsChain
  <2>3. level \in level .. (PtLevels - 1) /\ PtLevels - 1 - level = j
    BY <1>0, <2>1 DEF Levels
  <2>4. t[level] = f[j].ppn
    BY <2>3
  <2>5. addr = pte_addr_of(t[level], vpn_of(va, level)) /\ ~Malformed(memory[addr]) /\ IsLeaf(memory[addr])
    BY <2>1, <2>4 DEF Entry
  <2> HIDE DEF t, level, addr
  <2>6. addr \in Mapping(va, level)
    BY <2>2, <2>5 DEF Mapping
  <2>7. level \in Levels /\ f[PtLevels].level = level /\ addr = pte_addr_of(f[j].ppn, vpn_of(va, level))
    BY <2>1 DEF level, addr
  <2>8. \A other \in Mapping(va, level) : other = addr
    BY <1>2, <2>3, <2>7
  <2> QED
    BY <1>1, <1>4, <2>6, <2>7, <2>8 DEF addr
<1> QED
  BY <1>3, <1>4

(* The result of the walk is in range.                                     *)
LEMMA WalkInRange ==
    ASSUME NEW mem \in [Pa -> Pte], NEW va
    PROVE  Walk(mem, va) \in WalkStates
<1>1. PICK f : IsWalk(mem, va, PtLevels, f) /\ Walk(mem, va) = f[PtLevels]
  BY WalkIs
<1>2. PtLevels \in 0 .. PtLevels
  BY MmuAssumption
<1> QED
  BY <1>1, <1>2, WalkTypes

(* What the walk does depends on the words of memory less their marks.     *)
Similar(mem, other) ==
    \A pa \in Pa : /\ mem[pa].ppn = other[pa].ppn
                   /\ mem[pa].flags \ {"A", "D"} = other[pa].flags \ {"A", "D"}

(* One round does the same in memories that differ in marks.               *)
LEMMA RoundOfSimilar ==
    ASSUME NEW mem \in [Pa -> Pte], NEW other \in [Pa -> Pte], Similar(mem, other),
           NEW va, NEW w \in WalkStates, NEW level
    PROVE  Round(mem, w, va, level) = Round(other, w, va, level)
<1> DEFINE addr == pte_addr_of(w.ppn, vpn_of(va, level))
<1>1. addr \in Pa
  BY PteAddrInMemory DEF WalkStates
<1> HIDE DEF addr
<1>2. mem[addr].ppn = other[addr].ppn
  BY <1>1 DEF Similar
<1>3. \A flag \in {"V", "R", "W", "X"} : flag \in mem[addr].flags <=> flag \in other[addr].flags
  BY <1>1 DEF Similar
<1>4. (Malformed(mem[addr]) <=> Malformed(other[addr])) /\ (IsLeaf(mem[addr]) <=> IsLeaf(other[addr]))
  BY <1>3 DEF Malformed, IsLeaf
<1> QED
  BY <1>2, <1>4, Zenon DEF Round, addr

(* So does the whole walk.                                                 *)
LEMMA WalkOfSimilar ==
    ASSUME NEW mem \in [Pa -> Pte], NEW other \in [Pa -> Pte], Similar(mem, other), NEW va
    PROVE  Walk(mem, va) = Walk(other, va)
<1>0. PtLevels \in Nat \ {0}
  BY MmuAssumption
<1>1. PICK f : IsWalk(mem, va, PtLevels, f) /\ Walk(mem, va) = f[PtLevels]
  BY WalkIs
<1>2. PICK g : IsWalk(other, va, PtLevels, g) /\ Walk(other, va) = g[PtLevels]
  BY WalkIs
<1> DEFINE S == {k \in 0 .. PtLevels : f[k] # g[k]}
<1>3. CASE S = {}
  BY <1>0, <1>1, <1>2, <1>3
<1>4. CASE S # {}
  <2>1. S \in SUBSET Nat
    OBVIOUS
  <2>2. PICK k \in S : \A m \in S : ~(m < k)
    <3> HIDE DEF S
    <3> QED
      BY <1>4, <2>1, LeastOf
  <2>3. f[0] = WalkStart /\ g[0] = WalkStart
    BY <1>1, <1>2, WalkTypes
  <2>4. /\ k - 1 \in 0 .. (PtLevels - 1) /\ (k - 1) + 1 = k /\ k - 1 \notin S
        /\ k - 1 \in 0 .. PtLevels
    BY <1>0, <2>2, <2>3
  <2>5. f[k - 1] = g[k - 1] /\ f[k - 1] \in WalkStates
    BY <1>1, <2>4, WalkTypes
  <2>6. f[k] = Round(mem, f[k - 1], va, PtLevels - 1 - (k - 1))
    BY <1>1, <2>4, WalkTypes
  <2>7. g[k] = Round(other, g[k - 1], va, PtLevels - 1 - (k - 1))
    BY <1>2, <2>4, WalkTypes
  <2>8. f[k] = g[k]
    BY <2>5, <2>6, <2>7, RoundOfSimilar
  <2> QED
    BY <2>2, <2>8
<1> QED
  BY <1>3, <1>4

(* The leaf is a word of memory, and what it maps linearly is its range.   *)
LEMMA LeavesAreLinear == memory \in [Pa -> Pte] => SuperpagesAreLinear
<1> SUFFICES ASSUME memory \in [Pa -> Pte], NEW va \in Va, NEW w, w = Walk(memory, va),
                    w.out = "leaf",
                    \A b \in memory[w.addr].ppn : b + IndexBits \notin 0 .. (IndexBits * (w.level + 1) - 1)
             PROVE  LET low == 0 .. (IndexBits * (w.level + 1) - 1)
                    IN  /\ Target(w, va) \cap low = va \cap low
                        /\ Target(w, va) \ low = {b + IndexBits : b \in memory[w.addr].ppn}
  BY DEF SuperpagesAreLinear
<1> DEFINE n    == IndexBits * (w.level + 1)
           low  == 0 .. (n - 1)
           page == {b + IndexBits : b \in memory[w.addr].ppn}
<1>1. w.addr \in Pa /\ w.level \in Nat
  BY WalkInRange DEF WalkStates
<1>2. n \in Nat
  BY <1>1, MmuAssumption
<1>3. Target(w, va) = page \cup {b \in va : b < n}
  BY DEF Target, pte_to_pa
<1>4. \A b \in page : b \notin low
  OBVIOUS
<1>5. \A b \in va : b \in Nat
  BY MmuAssumption DEF Va, VaBit
<1> HIDE DEF n, page
<1>6. \A b \in va : b < n <=> b \in low
  BY <1>2, <1>5
<1> HIDE DEF low
<1>7. Target(w, va) \cap low = va \cap low /\ Target(w, va) \ low = page
  BY <1>3, <1>4, <1>6
<1> QED
  BY <1>7 DEF low, n, page

-----------------------------------------------------------------------------
(* Memory stays a memory of words, and the stores are counted.             *)
MemoryTypes == memory \in [Pa -> Pte] /\ stores \in Nat

(* A mark changes the flags of one word, and keeps all but A and D.        *)
LEMMA MarkedIs ==
    ASSUME memory \in [Pa -> Pte], NEW w, w.addr \in Pa, NEW access
    PROVE  /\ Marked(w, access) \in [Pa -> Pte]
           /\ Similar(memory, Marked(w, access))
           /\ "A" \in Marked(w, access)[w.addr].flags
           /\ access = "store" => "D" \in Marked(w, access)[w.addr].flags
           /\ \A pa \in Pa \ {w.addr} : Marked(w, access)[pa] = memory[pa]
<1> DEFINE new  == memory[w.addr].flags \cup {"A"} \cup (IF access = "store" THEN {"D"} ELSE {})
           word == [memory[w.addr] EXCEPT !.flags = new]
<1>1. memory[w.addr] \in Pte /\ memory[w.addr].flags \subseteq Flags /\ memory[w.addr].ppn \in Ppn
  BY DEF Pte
<1>2. new \subseteq Flags /\ "A" \in new /\ (access = "store" => "D" \in new)
  BY <1>1 DEF Flags
<1>3. new \ {"A", "D"} = memory[w.addr].flags \ {"A", "D"}
  OBVIOUS
<1>4. Marked(w, access) = [memory EXCEPT ![w.addr] = word]
  BY DEF Marked
<1> HIDE DEF new
<1>5. word \in Pte /\ word.flags = new /\ word.ppn = memory[w.addr].ppn
  BY <1>1, <1>2 DEF Pte
<1> HIDE DEF word
<1>6. Marked(w, access) \in [Pa -> Pte]
  BY <1>4, <1>5
<1>7. Marked(w, access)[w.addr] = word /\ \A pa \in Pa \ {w.addr} : Marked(w, access)[pa] = memory[pa]
  BY <1>4
<1>8. Similar(memory, Marked(w, access))
  BY <1>3, <1>5, <1>7 DEF Similar
<1> QED
  BY <1>2, <1>5, <1>6, <1>7, <1>8

(* An unaligned store leaves words everywhere, and touches two of them.    *)
LEMMA TwoWordsKeepMemory ==
    ASSUME NEW mem \in [Pa -> Pte], NEW a, NEW b, NEW first \in Pte, NEW second \in Pte
    PROVE  /\ [mem EXCEPT ![a] = first, ![b] = second] \in [Pa -> Pte]
           /\ \A pa \in Pa \ {a, b} : [mem EXCEPT ![a] = first, ![b] = second][pa] = mem[pa]
<1> DEFINE one == [mem EXCEPT ![a] = first]
           two == [one EXCEPT ![b] = second]
<1>1. one \in [Pa -> Pte] /\ \A pa \in Pa \ {a} : one[pa] = mem[pa]
  OBVIOUS
<1> HIDE DEF one
<1>2. two \in [Pa -> Pte] /\ \A pa \in Pa \ {b} : two[pa] = one[pa]
  BY <1>1
<1> HIDE DEF two
<1>3. \A pa \in Pa \ {a, b} : two[pa] = mem[pa]
  BY <1>1, <1>2
<1> QED
  BY <1>2, <1>3 DEF one, two

(* The next states of an access and of a bare store keep the types.        *)
LEMMA MemoryTypesInductive == MemoryTypes /\ [Next]_vars => MemoryTypes'
<1> SUFFICES ASSUME MemoryTypes, [Next]_vars PROVE MemoryTypes'
  OBVIOUS
<1>0. Stored \subseteq Pte
  BY MmuAssumption
<1>1. ASSUME NEW va \in Va, NEW w, w = Walk(memory, va), NEW access, Read(w, access)
      PROVE  MemoryTypes'
  BY <1>1, WalkInRange, MarkedIs DEF Read, MemoryTypes, WalkStates
<1>2. ASSUME NEW va \in Va, NEW w, w = Walk(memory, va), NEW value \in Stored, Write(va, w, value)
      PROVE  MemoryTypes'
  <2>1. w.addr \in Pa
    BY <1>2, WalkInRange DEF MemoryTypes, WalkStates
  <2>2. Marked(w, "store") \in [Pa -> Pte]
    BY <2>1, MarkedIs DEF MemoryTypes
  <2>3. \A m \in [Pa -> Pte] : \A pa : [m EXCEPT ![pa] = value] \in [Pa -> Pte]
    BY <1>0
  <2>4. memory' \in [Pa -> Pte]
    BY <1>2, <2>2, <2>3 DEF Write
  <2>5. stores' \in Nat
    BY <1>2 DEF Write, MemoryTypes
  <2> QED
    BY <2>4, <2>5 DEF MemoryTypes
<1>3. ASSUME NEW va \in Va, NEW w, NEW access, PageFault(w, access)
      PROVE  MemoryTypes'
  BY <1>3 DEF PageFault, MemoryTypes
<1>10. ASSUME NEW va \in Va, NEW w, w = Walk(memory, va), NEW first \in Stored, NEW second \in Stored,
              WriteAcross(va, w, first, second)
       PROVE  MemoryTypes'
  <2>1. w.addr \in Pa
    BY <1>10, WalkInRange DEF MemoryTypes, WalkStates
  <2>2. Marked(w, "store") \in [Pa -> Pte]
    BY <2>1, MarkedIs DEF MemoryTypes
  <2>3. memory' \in [Pa -> Pte]
    BY <1>0, <1>10, <2>2, TwoWordsKeepMemory DEF WriteAcross
  <2>4. stores' \in Nat
    BY <1>10 DEF WriteAcross, MemoryTypes
  <2> QED
    BY <2>3, <2>4 DEF MemoryTypes
<1>4. ASSUME Access PROVE MemoryTypes'
  BY <1>1, <1>2, <1>3, <1>4, <1>10 DEF Access
<1>5. ASSUME NEW pa \in Pa, NEW value \in Stored, WriteBare(pa, value) PROVE MemoryTypes'
  BY <1>0, <1>5 DEF WriteBare, MemoryTypes
<1>11. ASSUME NEW pa \in Pa, NEW first \in Stored, NEW second \in Stored,
              WriteBareAcross(pa, first, second)
       PROVE  MemoryTypes'
  <2>1. memory' \in [Pa -> Pte]
    BY <1>0, <1>11, TwoWordsKeepMemory DEF WriteBareAcross, MemoryTypes
  <2> QED
    BY <1>11, <2>1 DEF WriteBareAcross, MemoryTypes
<1>6. ASSUME NEW on, NEW s, NEW d, WriteMode(on, s, d) PROVE MemoryTypes'
  BY <1>6 DEF WriteMode, MemoryTypes
<1>7. ASSUME NEW level, Drop(level) PROVE MemoryTypes'
  BY <1>7 DEF Drop, MemoryTypes
<1>8. ASSUME Syscall PROVE MemoryTypes'
  BY <1>8 DEF Syscall, MemoryTypes
<1>9. ASSUME UNCHANGED vars PROVE MemoryTypes'
  BY <1>9 DEF vars, MemoryTypes
<1> QED
  BY <1>4, <1>5, <1>6, <1>7, <1>8, <1>9, <1>11 DEF Next

(* So they are invariant.                                                  *)
LEMMA MemoryTypesInvariant == Spec => []MemoryTypes
<1>1. Init => MemoryTypes
  BY MmuAssumption DEF Init, MemoryTypes
<1> QED
  BY <1>1, MemoryTypesInductive, PTL DEF Spec

(* The loop of mmu_translate, which follows one table at a time, finds the *)
(* leaf exactly when the tables map the address and the very word that     *)
(* maps it, for every number of levels and every contents of memory that   *)
(* the guest can store, tables that contain themselves included.           *)
THEOREM TheWalkIsTheMapping == Spec => []WalkFindsMapping
<1>1. MemoryTypes => WalkFindsMapping
  BY WalkCorrect DEF MemoryTypes
<1> QED
  BY <1>1, MemoryTypesInvariant, PTL

(* pte_to_pa maps the whole range of an aligned leaf linearly, whatever    *)
(* the level at which the loop of mmu_translate found it.                  *)
THEOREM LinearSuperpages == Spec => []SuperpagesAreLinear
<1>1. MemoryTypes => SuperpagesAreLinear
  BY LeavesAreLinear DEF MemoryTypes
<1> QED
  BY <1>1, MemoryTypesInvariant, PTL

(* The steps that change memory: an access that only marks a leaf, a store *)
(* through the tables, and a store past them.                              *)
LEMMA MemoryChanges ==
    ASSUME MemoryTypes, [Next]_vars, memory' # memory
    PROVE  \E va \in Va, w \in WalkStates :
              /\ w = Walk(memory, va)
              /\ \/ \E access \in {"fetch", "load"} : Read(w, access)
                 \/ \E value \in Stored : Write(va, w, value)
                 \/ \E first, second \in Stored : WriteAcross(va, w, first, second)
                 \/ ~mmu_active /\ stores' # stores
<1>1. \A va \in Va : Walk(memory, va) \in WalkStates
  BY WalkInRange DEF MemoryTypes
<1>2. CASE Access
  <2>1. PICK va \in Va : LET w == Walk(memory, va)
                         IN  \/ \E access \in {"fetch", "load"} : Read(w, access)
                             \/ \E value \in Stored : Write(va, w, value)
                             \/ \E first, second \in Stored : WriteAcross(va, w, first, second)
                             \/ \E access \in Accesses : PageFault(w, access)
    BY <1>2 DEF Access
  <2>2. ~ \E access \in Accesses : PageFault(Walk(memory, va), access)
    BY DEF PageFault
  <2> QED
    BY <1>1, <2>1, <2>2
<1>3. CASE \/ \E pa \in Pa, value \in Stored : WriteBare(pa, value)
           \/ \E pa \in Pa, first, second \in Stored : WriteBareAcross(pa, first, second)
  <2>1. ~mmu_active /\ stores' # stores
    BY <1>3 DEF WriteBare, WriteBareAcross, MemoryTypes
  <2>2. {} \in Va
    BY DEF Va
  <2> QED
    BY <1>1, <2>1, <2>2
<1>4. CASE \/ \E on, s, d \in BOOLEAN : WriteMode(on, s, d)
           \/ \E level \in {PRIV_U, PRIV_S} : Drop(level)
           \/ Syscall
           \/ UNCHANGED vars
  BY <1>4 DEF WriteMode, Drop, Syscall, vars
<1> QED
  BY <1>2, <1>3, <1>4 DEF Next

(* Memories that differ in marks map every address to the same place with  *)
(* the same permissions.                                                   *)
LEMMA SimilarMap ==
    ASSUME NEW other \in [Pa -> Pte], memory \in [Pa -> Pte], Similar(memory, other),
           NEW w \in WalkStates, NEW va
    PROVE  /\ pte_to_pa(other[w.addr], va, w.level) = Target(w, va)
           /\ \A access \in Accesses : pte_check(other[w.addr], access) <=> pte_check(memory[w.addr], access)
           /\ \A pa \in Pa : Unmarked(other[pa]) = Unmarked(memory[pa])
<1>1. w.addr \in Pa
  BY DEF WalkStates
<1>2. pte_to_pa(other[w.addr], va, w.level) = Target(w, va)
  BY <1>1 DEF Similar, pte_to_pa, Target
<1>3. \A flag \in {"R", "W", "X", "U"} : flag \in other[w.addr].flags <=> flag \in memory[w.addr].flags
  BY <1>1 DEF Similar
<1>4. \A access \in Accesses : Needs(access) \in {"R", "W", "X"}
  BY DEF Accesses, Needs
<1>5. \A access \in Accesses : pte_check(other[w.addr], access) <=> pte_check(memory[w.addr], access)
  BY <1>3, <1>4 DEF pte_check
<1>6. ASSUME NEW pa \in Pa PROVE Unmarked(other[pa]) = Unmarked(memory[pa])
  <2>1. other[pa] \in Pte /\ memory[pa] \in Pte
    OBVIOUS
  <2>2. \A pte \in Pte : /\ Unmarked(pte) \in Pte /\ Unmarked(pte).ppn = pte.ppn
                         /\ Unmarked(pte).flags = pte.flags \ {"A", "D"}
    BY DEF Unmarked, Pte
  <2>3. \A a, b \in Pte : a.ppn = b.ppn /\ a.flags = b.flags => a = b
    BY DEF Pte
  <2>4. other[pa].ppn = memory[pa].ppn /\ other[pa].flags \ {"A", "D"} = memory[pa].flags \ {"A", "D"}
    BY DEF Similar
  <2> HIDE DEF Unmarked, Pte
  <2> DEFINE a == Unmarked(other[pa])
             b == Unmarked(memory[pa])
  <2>5. a \in Pte /\ b \in Pte /\ a.ppn = b.ppn /\ a.flags = b.flags
    BY <2>1, <2>2, <2>4
  <2> HIDE DEF a, b
  <2>6. a = b
    BY <2>3, <2>5
  <2> QED
    BY <2>6 DEF a, b
<1> QED
  BY <1>2, <1>5, <1>6

(* A load or a fetch, which writes the A bit back into the very tables it  *)
(* walked (mmu_translate), changes no translation and no permission.       *)
THEOREM ReadsChangeNoMapping == Spec => ReadsKeepMap
<1>1. ASSUME MemoryTypes, MemoryTypes', [Next]_vars, memory' # memory, stores' = stores,
             NEW va \in Va, NEW w, w = Walk(memory, va)
      PROVE  /\ Walk(memory', va) = w
             /\ w.out = "leaf" =>
                   /\ pte_to_pa(memory'[w.addr], va, w.level) = Target(w, va)
                   /\ \A access \in Accesses :
                         pte_check(memory'[w.addr], access) <=> pte_check(memory[w.addr], access)
  <2>1. PICK read \in WalkStates, access \in {"fetch", "load"} : Read(read, access)
    <3>1. \A v, x, value, second : ~Write(v, x, value) /\ ~WriteAcross(v, x, value, second)
      BY <1>1 DEF Write, WriteAcross, MemoryTypes
    <3> QED
      BY <1>1, <3>1, MemoryChanges
  <2>2. memory' = Marked(read, access) /\ read.addr \in Pa
    BY <2>1 DEF Read, WalkStates
  <2>3. Similar(memory, memory')
    BY <1>1, <2>2, MarkedIs DEF MemoryTypes
  <2>4. Walk(memory', va) = w
    BY <1>1, <2>3, WalkOfSimilar DEF MemoryTypes
  <2>5. w \in WalkStates
    BY <1>1, WalkInRange DEF MemoryTypes
  <2> QED
    BY <1>1, <2>3, <2>4, <2>5, SimilarMap DEF MemoryTypes
<1>2. MemoryTypes /\ MemoryTypes' /\ [Next]_vars =>
        [memory' # memory /\ stores' = stores =>
            \A va \in Va :
                LET w == Walk(memory, va)
                IN  /\ Walk(memory', va) = w
                    /\ w.out = "leaf" =>
                          /\ pte_to_pa(memory'[w.addr], va, w.level) = Target(w, va)
                          /\ \A access \in Accesses :
                                pte_check(memory'[w.addr], access) <=> pte_check(memory[w.addr], access)]_vars
  BY <1>1
<1> QED
  BY <1>2, MemoryTypesInvariant, PTL DEF Spec, ReadsKeepMap

(* Memory protection: whatever the tables contain, an access by a U-mode   *)
(* program (pte_check, then the marks, then the store) changes no word     *)
(* outside the pages mapped writable for it, but for A and D and for the   *)
(* one word that an unaligned store (vm_write16 to vm_write64) reaches     *)
(* past the end of such a page.                                            *)
THEOREM UserProgramsConfined == Spec => UserConfined
<1> DEFINE Confined ==
        \/ Changed = {}
        \/ stores' = stores + 1 /\ Changed \subseteq UserWritable
        \/ /\ stores' = stores + 2
           /\ \E home \in UserWritable \ {PaBit} : Changed \subseteq {home, NextWord(home)}
<1>1. ASSUME MemoryTypes, MemoryTypes', [Next]_vars, privilege = PRIV_U, sv39
      PROVE  Confined
  <2>1. mmu_active
    BY <1>1 DEF mmu_active, PRIV_U, PRIV_M
  <2>2. CASE memory' = memory
    BY <2>2 DEF Changed
  <2>3. CASE memory' # memory
    <3>1. PICK va \in Va, w \in WalkStates :
                /\ w = Walk(memory, va)
                /\ \/ \E access \in {"fetch", "load"} : Read(w, access)
                   \/ \E value \in Stored : Write(va, w, value)
                   \/ \E first, second \in Stored : WriteAcross(va, w, first, second)
      BY <1>1, <2>1, <2>3, MemoryChanges
    <3>2. w.addr \in Pa /\ memory \in [Pa -> Pte]
      BY <1>1 DEF WalkStates, MemoryTypes
    <3>3. \A access : /\ \A pa \in Pa : Unmarked(Marked(w, access)[pa]) = Unmarked(memory[pa])
                      /\ Marked(w, access) \in [Pa -> Pte]
      BY <3>2, MarkedIs, SimilarMap
    <3>4. Permits(w, "store") => Target(w, va) \in UserWritable
      <4>1. ASSUME Permits(w, "store")
            PROVE  w.out = "leaf" /\ {"U", "W"} \subseteq memory[w.addr].flags
        BY <1>1, <4>1 DEF Permits, pte_check, Needs
      <4> QED
        BY <3>1, <4>1 DEF UserWritable
    <3>5. CASE \E access \in {"fetch", "load"} : Read(w, access)
      <4>1. Changed = {}
        BY <3>3, <3>5 DEF Read, Changed
      <4> QED
        BY <4>1
    <3>6. ASSUME NEW value \in Stored, Write(va, w, value)
          PROVE  Confined
      <4>1. Permits(w, "store") /\ memory' = [Marked(w, "store") EXCEPT ![Target(w, va)] = value]
        BY <3>6 DEF Write
      <4>2. \A pa \in Pa \ {Target(w, va)} : memory'[pa] = Marked(w, "store")[pa]
        BY <3>3, <4>1
      <4>3. Changed \subseteq {Target(w, va)}
        BY <3>3, <4>2 DEF Changed
      <4>4. stores' = stores + 1
        BY <3>6 DEF Write
      <4> QED
        BY <3>4, <4>1, <4>3, <4>4
    <3>7. ASSUME NEW first \in Stored, NEW second \in Stored, WriteAcross(va, w, first, second)
          PROVE  Confined
      <4> DEFINE home == Target(w, va)
                 next == NextWord(home)
                 m    == Marked(w, "store")
      <4>1. /\ Permits(w, "store") /\ home # PaBit
            /\ memory' = [m EXCEPT ![home] = first, ![next] = second]
        BY <3>7 DEF WriteAcross
      <4>2. m \in [Pa -> Pte] /\ \A pa \in Pa : Unmarked(m[pa]) = Unmarked(memory[pa])
        BY <3>3
      <4>3. first \in Pte /\ second \in Pte
        BY MmuAssumption
      <4> HIDE DEF home, next, m
      <4>4. \A pa \in Pa \ {home, next} : memory'[pa] = m[pa]
        BY <4>1, <4>2, <4>3, TwoWordsKeepMemory
      <4>5. Changed \subseteq {home, next}
        BY <4>2, <4>4 DEF Changed
      <4>6. stores' = stores + 2
        BY <3>7 DEF WriteAcross
      <4>7. home \in UserWritable \ {PaBit}
        BY <3>4, <4>1 DEF home
      <4> QED
        BY <4>5, <4>6, <4>7 DEF next
    <3> HIDE DEF Confined
    <3> QED
      BY <3>1, <3>5, <3>6, <3>7
  <2> QED
    BY <2>2, <2>3
<1>2. MemoryTypes /\ MemoryTypes' /\ [Next]_vars => [privilege = PRIV_U /\ sv39 => Confined]_vars
  BY <1>1
<1> QED
  BY <1>2, MemoryTypesInvariant, PTL DEF Spec, UserConfined

(* What a store under translation leaves behind, for one that hits the     *)
(* words hit: mmu_translate has written A and D before it, and only the    *)
(* store itself can take them away again.                                  *)
LEMMA StoreKeepsMark ==
    ASSUME memory \in [Pa -> Pte], NEW w, w.addr \in Pa, NEW hit,
           \A pa \in Pa \ hit : memory'[pa] = Marked(w, "store")[pa]
    PROVE  /\ {"A", "D"} \subseteq memory'[w.addr].flags \/ w.addr \in hit
           /\ \A pa \in Pa \ (hit \cup {w.addr}) : memory'[pa] = memory[pa]
<1> DEFINE m == Marked(w, "store")
<1>1. {"A", "D"} \subseteq m[w.addr].flags /\ \A pa \in Pa \ {w.addr} : m[pa] = memory[pa]
  BY MarkedIs
<1> HIDE DEF m
<1>2. \A pa \in Pa \ hit : memory'[pa] = m[pa]
  BY DEF m
<1> QED
  BY <1>1, <1>2

(* No word changes under translation without a dirty mark in the leaf that *)
(* the store went through, unless the store hits that leaf; an unaligned   *)
(* store goes through the one leaf that its first byte maps to             *)
(* (mmu_translate, vm_write16 to vm_write64).                              *)
THEOREM StoresMarkDirty == Spec => DirtyIsMarked
<1> DEFINE Through(va) ==
        LET w == Walk(memory, va)
        IN  /\ Permits(w, "store")
            /\ {"A", "D"} \subseteq memory'[w.addr].flags \/ w.addr \in Hit(Target(w, va))
            /\ \A pa \in Pa \ (Hit(Target(w, va)) \cup {w.addr}) : memory'[pa] = memory[pa]
<1>1. ASSUME MemoryTypes, [Next]_vars, mmu_active, stores' # stores
      PROVE  \E va \in Va : Through(va)
  <2>1. PICK va \in Va :
            \/ \E value \in Stored : Write(va, Walk(memory, va), value)
            \/ \E first, second \in Stored : WriteAcross(va, Walk(memory, va), first, second)
    <3>1. CASE Access
      BY <1>1, <3>1 DEF Access, Read, PageFault
    <3>2. ~Access => FALSE
      BY <1>1 DEF Next, WriteBare, WriteBareAcross, WriteMode, Drop, Syscall, vars
    <3> QED
      BY <3>1, <3>2
  <2> DEFINE w    == Walk(memory, va)
             home == Target(w, va)
             m    == Marked(w, "store")
  <2>2. memory \in [Pa -> Pte] /\ w.addr \in Pa
    BY WalkInRange, <1>1 DEF MemoryTypes, WalkStates
  <2>3. m \in [Pa -> Pte]
    BY <2>2, MarkedIs
  <2>4. Permits(w, "store") /\ \A pa \in Pa \ Hit(home) : memory'[pa] = m[pa]
    <3>1. ASSUME NEW value \in Stored, Write(va, w, value)
          PROVE  Permits(w, "store") /\ \A pa \in Pa \ Hit(home) : memory'[pa] = m[pa]
      <4>1. Permits(w, "store") /\ memory' = [m EXCEPT ![home] = value]
        BY <3>1 DEF Write
      <4>2. home \in Hit(home)
        BY DEF Hit
      <4> HIDE DEF w, home, m
      <4> QED
        BY <2>3, <4>1, <4>2
    <3>2. ASSUME NEW first \in Stored, NEW second \in Stored, WriteAcross(va, w, first, second)
          PROVE  Permits(w, "store") /\ \A pa \in Pa \ Hit(home) : memory'[pa] = m[pa]
      <4>1. /\ Permits(w, "store") /\ home # PaBit /\ stores' = stores + 2
            /\ memory' = [m EXCEPT ![home] = first, ![NextWord(home)] = second]
        BY <3>2 DEF WriteAcross
      <4>2. first \in Pte /\ second \in Pte
        BY MmuAssumption
      <4> HIDE DEF w, home, m
      <4>3. Hit(home) = {home, NextWord(home)}
        BY <1>1, <4>1 DEF Hit, MemoryTypes
      <4> QED
        BY <2>3, <4>1, <4>2, <4>3, TwoWordsKeepMemory
    <3> QED
      BY <2>1, <3>1, <3>2
  <2> HIDE DEF w
  <2>5. /\ {"A", "D"} \subseteq memory'[w.addr].flags \/ w.addr \in Hit(home)
        /\ \A pa \in Pa \ (Hit(home) \cup {w.addr}) : memory'[pa] = memory[pa]
    BY <2>2, <2>4, StoreKeepsMark
  <2> QED
    BY <2>4, <2>5 DEF w
<1>2. MemoryTypes /\ [Next]_vars =>
        [mmu_active /\ stores' # stores => \E va \in Va : Through(va)]_vars
  BY <1>1
<1> QED
  BY <1>2, MemoryTypesInvariant, PTL DEF Spec, DirtyIsMarked

-----------------------------------------------------------------------------
(* Sums that do not reach the end of the address space do not wrap.        *)
LEMMA NoWrap ==
    ASSUME NEW m \in Nat \ {0}, NEW n \in 0 .. (m - 1)
    PROVE  n % m = n
OBVIOUS

(* The table holds the regions that main added first.                      *)
LEMMA RegionsType ==
    /\ DOMAIN regions \subseteq Nat \ {0}
    /\ \A i \in DOMAIN regions : /\ regions[i].base \in Nat /\ regions[i].size \in Nat
                                 /\ regions[i].base + regions[i].size < AddrSpace
<1> DEFINE n == IF Len(Added) <= MAX_REGIONS THEN Len(Added) ELSE MAX_REGIONS
<1>1. n \in Nat /\ n <= Len(Added)
  BY MemoryMapAssumption
<1>2. /\ DOMAIN regions = 1 .. n
      /\ \A i \in 1 .. n : regions[i] = Added[i] /\ i \in DOMAIN Added
  BY <1>1, MemoryMapAssumption DEF regions
<1>3. \A i \in 1 .. Len(Added) : Added[i] \in [base : Nat, size : Nat, data : BOOLEAN]
  BY MemoryMapAssumption, ElementOfSeq
<1>4. DOMAIN Added = 1 .. Len(Added)
  BY MemoryMapAssumption
<1> QED
  BY <1>1, <1>2, <1>3, <1>4, MemoryMapAssumption

(* What mem_find_region returns does accept the access, and 0 means that   *)
(* no region does.                                                         *)
LEMMA FindRegion ==
    ASSUME NEW addr, NEW width
    PROVE  LET i == mem_find_region(addr, width) IN
           IF i = 0 THEN \A j \in DOMAIN regions : ~Accepts(regions[j], addr, width)
           ELSE i \in DOMAIN regions /\ Accepts(regions[i], addr, width)
<1> DEFINE A(i) == Accepts(regions[i], addr, width)
           First(i) == A(i) /\ \A j \in DOMAIN regions : j < i => ~A(j)
           S == {i \in DOMAIN regions : A(i)}
<1>1. CASE S = {}
  BY <1>1 DEF mem_find_region
<1>2. CASE S # {}
  <2>1. PICK i \in S : \A j \in S : ~(<<j, i>> \in OpToRel(<, Nat))
    BY <1>2, RegionsType, NatLessThanWellFounded, WFMin
  <2>2. First(i)
    BY <2>1, RegionsType DEF OpToRel
  <2> DEFINE c == CHOOSE k \in DOMAIN regions : First(k)
  <2>3. mem_find_region(addr, width) = c
    BY <1>2 DEF mem_find_region
  <2>4. c \in DOMAIN regions /\ First(c)
    <3> HIDE DEF First
    <3> QED
      BY <2>1, <2>2, Zenon
  <2>5. c # 0
    BY <2>4, RegionsType
  <2> QED
    BY <2>3, <2>4, <2>5
<1> QED
  BY <1>1, <1>2

(* Every access that ends below the end of the address space is served by  *)
(* a region that holds all of it, at an offset inside, and refused only if *)
(* there is none: mem_find_region for any table and any width, buffers of  *)
(* mem_read_buf and mem_write_buf included.                                *)
THEOREM AccessesStayInside ==
    \A addr \in Addresses, width \in Nat : AccessIsInside(addr, width)
<1> SUFFICES ASSUME NEW addr \in Addresses, NEW width \in Nat, addr + width < AddrSpace
             PROVE  AccessIsInside(addr, width)
  BY DEF AccessIsInside
<1> DEFINE i == mem_find_region(addr, width)
           Holds(r) == r.base <= addr /\ addr + width <= r.base + r.size
<1>1. addr \in Nat /\ (addr + width) % AddrSpace = addr + width
  <2>1. addr \in Nat /\ addr + width \in 0 .. (AddrSpace - 1)
    BY MemoryMapAssumption DEF Addresses
  <2> QED
    BY <2>1, NoWrap, MemoryMapAssumption
<1>2. \A j \in DOMAIN regions : Accepts(regions[j], addr, width) <=> Holds(regions[j])
  BY <1>1, RegionsType DEF Accepts
<1>3. CASE i = 0
  <2>1. \A j \in DOMAIN regions : ~Accepts(regions[j], addr, width)
    BY <1>3, FindRegion
  <2> QED
    BY <1>2, <1>3, <2>1 DEF AccessIsInside
<1>4. CASE i # 0
  <2>1. i \in DOMAIN regions /\ Holds(regions[i])
    BY <1>2, <1>4, FindRegion
  <2>2. Offset(addr, width) = addr - regions[i].base
    <3>1. regions[i].base \in Nat /\ regions[i].base <= addr
      BY <2>1, RegionsType
    <3>2. AddrSpace \in Nat \ {0} /\ addr \in 0 .. (AddrSpace - 1)
      BY MemoryMapAssumption DEF Addresses
    <3>3. addr - regions[i].base \in 0 .. (AddrSpace - 1)
      BY <3>1, <3>2
    <3> QED
      BY <3>2, <3>3, NoWrap DEF Offset
  <2> QED
    BY <1>1, <1>4, <2>1, <2>2, RegionsType DEF AccessIsInside
<1> QED
  BY <1>3, <1>4

(* An access that reaches the end of the address space wraps to an offset  *)
(* outside the region that takes it, as long as the regions leave the last *)
(* 8 addresses free.                                                       *)
LEMMA AccessesWrap ==
    ASSUME NEW addr \in Addresses, NEW width \in 1 .. 8,
           \A i \in DOMAIN regions : regions[i].base + regions[i].size + 8 <= AddrSpace
    PROVE  AccessWraps(addr, width)
<1> DEFINE i == mem_find_region(addr, width)
<1> SUFFICES ASSUME addr + width \in AddrSpace .. (AddrSpace + 7), i # 0
             PROVE  Offset(addr, width) >= regions[i].size
  BY DEF AccessWraps
<1>0. AddrSpace \in Nat \ {0} /\ addr \in 0 .. (AddrSpace - 1)
  BY MemoryMapAssumption DEF Addresses
<1>1. i \in DOMAIN regions /\ addr >= regions[i].base
  BY FindRegion DEF Accepts
<1> HIDE DEF i
<1>2. regions[i].base \in Nat /\ regions[i].size \in Nat /\ regions[i].base + regions[i].size + 8 <= AddrSpace
  BY <1>1, RegionsType
<1>3. addr - regions[i].base \in 0 .. (AddrSpace - 1) /\ addr - regions[i].base >= regions[i].size
  BY <1>0, <1>1, <1>2
<1>4. (addr - regions[i].base) % AddrSpace = addr - regions[i].base
  BY <1>0, <1>3, NoWrap
<1> QED
  BY <1>3, <1>4 DEF Offset, i

(* mem_find_region, for every access of at most 8 bytes and every table of *)
(* regions that leaves the last 8 addresses free, as main's does.          *)
THEOREM AccessesAreInBounds ==
    ASSUME input.of = "access" => input.addr \in Addresses /\ input.width \in 1 .. 8,
           \A i \in DOMAIN regions : regions[i].base + regions[i].size + 8 <= AddrSpace
    PROVE  AccessInBounds
<1> SUFFICES ASSUME input.addr \in Addresses, input.width \in 1 .. 8
             PROVE  AccessIsInside(input.addr, input.width) /\ AccessWraps(input.addr, input.width)
  BY DEF AccessInBounds
<1> QED
  BY AccessesStayInside, AccessesWrap

-----------------------------------------------------------------------------
(* Arithmetic modulo m: the numbers that are 0 are the multiples of m, and *)
(* a number is a multiple away from its remainder only.                    *)
Multiples(m) == {m * q : q \in Int}

(* Sums and differences of multiples are multiples.                        *)
LEMMA MultiplesClosed ==
    ASSUME NEW m \in Nat \ {0}, NEW a \in Multiples(m), NEW b \in Multiples(m)
    PROVE  a + b \in Multiples(m) /\ a - b \in Multiples(m) /\ a \in Int /\ b \in Int
<1>1. PICK p \in Int : a = m * p
  BY DEF Multiples
<1>2. PICK q \in Int : b = m * q
  BY DEF Multiples
<1>3. a + b = m * (p + q) /\ a - b = m * (p - q) /\ p + q \in Int /\ p - q \in Int
  BY <1>1, <1>2
<1>4. \A k \in Int : m * k \in Multiples(m) /\ m * k \in Int
  BY DEF Multiples
<1>5. m * (p + q) \in Multiples(m) /\ m * (p - q) \in Multiples(m)
  BY <1>3, <1>4
<1> QED
  BY <1>1, <1>2, <1>3, <1>4, <1>5, Zenon

(* A number differs from its remainder by a multiple.                      *)
LEMMA RemainderIs ==
    ASSUME NEW m \in Nat \ {0}, NEW n \in Int
    PROVE  n % m \in 0 .. (m - 1) /\ n - (n % m) \in Multiples(m)
<1>1. n \div m \in Int /\ n % m \in 0 .. (m - 1) /\ n % m = n - m * (n \div m)
  OBVIOUS
<1>2. m * (n \div m) \in Multiples(m)
  BY <1>1 DEF Multiples
<1>3. m * (n \div m) \in Int
  BY <1>1
<1> DEFINE k == m * (n \div m)
           r == n % m
<1> HIDE DEF k, r
<1>4. k \in Multiples(m) /\ k \in Int /\ r = n - k
  BY <1>1, <1>2, <1>3 DEF k, r
<1>5. n - r = k
  BY <1>4
<1> QED
  BY <1>1, <1>4, <1>5 DEF r

(* Two remainders that differ by a multiple are equal.                     *)
LEMMA RemainderUnique ==
    ASSUME NEW m \in Nat \ {0}, NEW r \in 0 .. (m - 1), NEW s \in 0 .. (m - 1),
           r - s \in Multiples(m)
    PROVE  r = s
<1>1. PICK q \in Int : r - s = m * q
  BY DEF Multiples
<1>2. r - s < m /\ r - s > -m
  OBVIOUS
<1>3. q < 1 /\ q > -1
  BY <1>1, <1>2
<1> QED
  BY <1>1, <1>3

(* A program header, and the segments that end before the address space    *)
(* does, where they are linked to be and where they are loaded.            *)
ProgramHeader ==
    [load : BOOLEAN, vaddr : Addresses, paddr : Addresses, file_size : Nat, mem_size : Nat]
EndInSpace(phdrs, phys_base) ==
    \A i \in Loads(phdrs) : /\ phdrs[i].paddr + Length(phdrs[i]) <= AddrSpace
                            /\ PhysAddr(phdrs[i], phys_base) + Length(phdrs[i]) < AddrSpace

(* The shift that elf_load takes from the first segment to load is that of *)
(* each of them.                                                           *)
LEMMA ShiftOfAll ==
    ASSUME NEW phdrs \in Seq(ProgramHeader), WellFormed(phdrs), NEW i \in Loads(phdrs)
    PROVE  virt_shift(phdrs) = (phdrs[i].vaddr - phdrs[i].paddr) % AddrSpace
<1> DEFINE S == Loads(phdrs)
<1>1. S \in SUBSET Nat /\ S # {}
  BY DEF Loads
<1>2. PICK n \in S : \A m \in S : ~(m < n)
  <2> HIDE DEF S
  <2> QED
    BY <1>1, LeastOf
<1>3. \A m \in S : n <= m
  BY <1>1, <1>2
<1> HIDE DEF S
<1>4. Min(S) \in S
  BY <1>2, <1>3, Zenon DEF Min
<1>5. virt_shift(phdrs) = (phdrs[Min(S)].vaddr - phdrs[Min(S)].paddr) % AddrSpace
  BY <1>1 DEF virt_shift, S
<1> QED
  BY <1>4, <1>5 DEF WellFormed, S

(* A segment is written to the addresses from its own up to its length,    *)
(* and to no others, and all of them are in RAM.                           *)
LEMMA SegmentInRam ==
    ASSUME NEW phdr \in ProgramHeader, NEW phys_base \in Addresses, SegmentFits(phdr, phys_base),
           PhysAddr(phdr, phys_base) + Length(phdr) < AddrSpace,
           NEW addr \in Nat,
           PhysAddr(phdr, phys_base) <= addr, addr < PhysAddr(phdr, phys_base) + Length(phdr)
    PROVE  \E j \in DOMAIN regions : /\ regions[j].data /\ regions[j].base <= addr
                                     /\ addr < regions[j].base + regions[j].size
<1> DEFINE base == PhysAddr(phdr, phys_base)
<1>0. AddrSpace \in Nat \ {0}
  BY MemoryMapAssumption
<1>1. base \in Addresses /\ base \in Nat /\ phdr.file_size \in Nat /\ phdr.mem_size \in Nat
  <2>1. phdr.paddr \in Nat /\ phys_base \in Nat /\ phdr.file_size \in Nat /\ phdr.mem_size \in Nat
    BY <1>0 DEF ProgramHeader, Addresses
  <2>2. phdr.paddr + phys_base \in Int
    BY <2>1
  <2> QED
    <3>1. base \in 0 .. (AddrSpace - 1)
      BY <1>0, <2>2, RemainderIs DEF PhysAddr
    <3> HIDE DEF base
    <3> QED
      BY <2>1, <3>1 DEF Addresses
<1> HIDE DEF base
<1>2. Length(phdr) \in Nat /\ phdr.file_size <= Length(phdr) /\ phdr.mem_size <= Length(phdr)
      /\ (Length(phdr) = phdr.file_size \/ Length(phdr) = phdr.mem_size)
  BY <1>1 DEF Length, Larger
<1>3. ASSUME NEW from \in Nat, NEW len \in Nat, Writable(from, len), from + len < AddrSpace,
             from <= addr, addr < from + len
      PROVE  \E j \in DOMAIN regions : /\ regions[j].data /\ regions[j].base <= addr
                                       /\ addr < regions[j].base + regions[j].size
  <2> DEFINE j == mem_find_region(from, len)
  <2>1. len # 0 /\ from \in Addresses
    BY <1>0, <1>3 DEF Addresses
  <2>2. j # 0 /\ regions[j].data
    BY <1>3, <2>1 DEF Writable
  <2>3. AccessIsInside(from, len)
    BY <2>1, AccessesStayInside
  <2>4. j \in DOMAIN regions /\ regions[j].base <= from /\ from + len <= regions[j].base + regions[j].size
    BY <1>3, <2>2, <2>3 DEF AccessIsInside
  <2> HIDE DEF j
  <2>5. regions[j].base \in Nat /\ regions[j].size \in Nat
    BY <2>4, RegionsType
  <2>6. regions[j].base <= addr /\ addr < regions[j].base + regions[j].size
    BY <1>3, <2>4, <2>5
  <2> QED
    BY <2>2, <2>4, <2>6
<1>4. CASE addr < base + phdr.file_size
  <2>1. Writable(base, phdr.file_size)
    BY DEF SegmentFits, base
  <2>2. base + phdr.file_size < AddrSpace /\ base <= addr
    BY <1>0, <1>1, <1>2 DEF base
  <2> QED
    BY <1>1, <1>3, <1>4, <2>1, <2>2
<1>5. CASE ~(addr < base + phdr.file_size)
  <2> DEFINE from == base + phdr.file_size
             len  == phdr.mem_size - phdr.file_size
  <2>1. base + Length(phdr) < AddrSpace /\ addr < base + Length(phdr)
    BY DEF base
  <2>2. /\ Length(phdr) = phdr.mem_size /\ phdr.mem_size > phdr.file_size
        /\ from \in Nat /\ len \in Nat /\ from + len = base + Length(phdr) /\ from <= addr
        /\ from \in 0 .. (AddrSpace - 1)
    BY <1>0, <1>1, <1>2, <1>5, <2>1
  <2>3. from % AddrSpace = from
    BY <1>0, <2>2, NoWrap
  <2>4. Writable(from, len)
    BY <2>2, <2>3 DEF SegmentFits, base
  <2> HIDE DEF from, len
  <2> QED
    BY <1>3, <2>1, <2>2, <2>4
<1> QED
  BY <1>4, <1>5

(* An address is in a segment exactly when it is in its range: an index    *)
(* modulo AddrSpace that is below the length has not wrapped.              *)
LEMMA IndexInRange ==
    ASSUME NEW addr \in Addresses, NEW base \in Addresses, NEW len \in Nat, base + len < AddrSpace,
           (addr - base) % AddrSpace < len
    PROVE  base <= addr /\ addr < base + len
<1>0. AddrSpace \in Nat \ {0} /\ addr \in 0 .. (AddrSpace - 1) /\ base \in 0 .. (AddrSpace - 1)
  BY MemoryMapAssumption DEF Addresses
<1> DEFINE r == (addr - base) % AddrSpace
<1>1. r \in 0 .. (AddrSpace - 1) /\ (addr - base) - r \in Multiples(AddrSpace)
  <2>1. addr - base \in Int
    BY <1>0
  <2> QED
    BY <1>0, <2>1, RemainderIs
<1> HIDE DEF r
<1>2. CASE base <= addr
  <2>1. addr - base \in 0 .. (AddrSpace - 1)
    BY <1>0, <1>2
  <2>2. addr - base = r
    BY <1>0, <1>1, <2>1, RemainderUnique
  <2> QED
    BY <1>0, <1>2, <2>2 DEF r
<1>3. CASE ~(base <= addr)
  <2>1. AddrSpace \in Multiples(AddrSpace)
    <3>1. AddrSpace = AddrSpace * 1
      BY <1>0
    <3> QED
      BY <3>1 DEF Multiples
  <2>2. ((addr - base) - r) + AddrSpace \in Multiples(AddrSpace)
    BY <1>0, <1>1, <2>1, MultiplesClosed
  <2>3. ((addr - base) - r) + AddrSpace = (addr - base + AddrSpace) - r
        /\ addr - base + AddrSpace \in 0 .. (AddrSpace - 1)
    BY <1>0, <1>1, <1>3
  <2>4. addr - base + AddrSpace = r
    BY <1>0, <1>1, <2>2, <2>3, RemainderUnique
  <2> QED
    BY <1>0, <1>3, <2>4 DEF r
<1> QED
  BY <1>2, <1>3

(* The sum that places a segment wraps at most once.                       *)
LEMMA PhysAddrIs ==
    ASSUME NEW phdr \in ProgramHeader, NEW phys_base \in Addresses
    PROVE  LET base == PhysAddr(phdr, phys_base)
               total == phdr.paddr + phys_base
           IN  /\ base \in Addresses /\ total \in Nat /\ total - base \in Multiples(AddrSpace)
               /\ base = total \/ base = total - AddrSpace
<1> DEFINE base == PhysAddr(phdr, phys_base)
           total == phdr.paddr + phys_base
<1>0. /\ AddrSpace \in Nat \ {0} /\ phdr.paddr \in 0 .. (AddrSpace - 1)
      /\ phys_base \in 0 .. (AddrSpace - 1)
  BY MemoryMapAssumption DEF ProgramHeader, Addresses
<1>1. total \in Nat /\ total \in Int /\ total < 2 * AddrSpace
  BY <1>0
<1>2. base \in 0 .. (AddrSpace - 1) /\ total - base \in Multiples(AddrSpace)
  <2> HIDE DEF total
  <2> QED
    BY <1>0, <1>1, RemainderIs DEF PhysAddr, total
<1> HIDE DEF base, total
<1>3. PICK q \in Int : total - base = AddrSpace * q
  BY <1>2 DEF Multiples
<1>4. q = 0 \/ q = 1
  <2>1. AddrSpace * q > -AddrSpace /\ AddrSpace * q < 2 * AddrSpace
    BY <1>0, <1>1, <1>2, <1>3
  <2> QED
    BY <1>0, <2>1
<1>5. base = total \/ base = total - AddrSpace
  BY <1>0, <1>1, <1>2, <1>3, <1>4
<1> QED
  BY <1>1, <1>2, <1>5 DEF Addresses, base, total

(* elf_load starts the program at the byte that its file has at the        *)
(* virtual entry point, and that byte is in RAM: for any number of         *)
(* segments, any shift between where they are linked and where they are    *)
(* loaded, and any memory map, as long as no segment reaches the end of    *)
(* the address space.                                                      *)
THEOREM ProgramsStartAtEntry ==
    ASSUME NEW phdrs \in Seq(ProgramHeader), NEW entry \in Addresses, NEW phys_base \in Addresses,
           EndInSpace(phdrs, phys_base)
    PROVE  EntryIsRight(phdrs, entry, phys_base)
<1> DEFINE start    == elf_load(phdrs, entry, phys_base)
           At(i)  == PhysAddr(phdrs[i], phys_base)
           Index(i) == (entry - phdrs[i].vaddr) % AddrSpace
<1> SUFFICES ASSUME WellFormed(phdrs), start # Exit, NEW i \in Loads(phdrs), Index(i) < Length(phdrs[i])
             PROVE  /\ Loaded(phdrs, phys_base, start) = Byte(phdrs, i, Index(i))
                    /\ \E j \in DOMAIN regions : regions[j].data /\ regions[j].base <= start
                                                   /\ start < regions[j].base + regions[j].size
  BY DEF EntryIsRight
<1>0. AddrSpace \in Nat \ {0} /\ entry \in 0 .. (AddrSpace - 1) /\ phys_base \in 0 .. (AddrSpace - 1)
  BY MemoryMapAssumption DEF Addresses
<1>1. ASSUME NEW k \in Loads(phdrs)
      PROVE  /\ phdrs[k] \in ProgramHeader /\ Length(phdrs[k]) \in Nat
             /\ phdrs[k].vaddr \in 0 .. (AddrSpace - 1) /\ phdrs[k].paddr \in 0 .. (AddrSpace - 1)
  <2>1. phdrs[k] \in ProgramHeader
    BY ElementOfSeq DEF Loads
  <2> QED
    BY <2>1 DEF ProgramHeader, Addresses, Length, Larger
<1> DEFINE shift == virt_shift(phdrs)
           from  == entry - shift + phys_base
<1>2. /\ \A k \in Loads(phdrs) : SegmentFits(phdrs[k], phys_base)
      /\ start = from % AddrSpace
  BY DEF elf_load
<1>3. /\ shift \in 0 .. (AddrSpace - 1)
      /\ (phdrs[i].vaddr - phdrs[i].paddr) - shift \in Multiples(AddrSpace)
  <2>1. shift = (phdrs[i].vaddr - phdrs[i].paddr) % AddrSpace
    BY ShiftOfAll
  <2>2. phdrs[i].vaddr - phdrs[i].paddr \in Int
    BY <1>0, <1>1
  <2> HIDE DEF shift
  <2> QED
    BY <1>0, <2>1, <2>2, RemainderIs
<1> HIDE DEF shift, start
<1>4. start \in 0 .. (AddrSpace - 1) /\ from - start \in Multiples(AddrSpace) /\ from \in Int
  <2>1. from \in Int
    BY <1>0, <1>3
  <2> HIDE DEF from
  <2> QED
    BY <1>0, <1>2, <2>1, RemainderIs
<1>5. /\ At(i) \in 0 .. (AddrSpace - 1)
      /\ (phdrs[i].paddr + phys_base) - At(i) \in Multiples(AddrSpace)
  BY <1>1, PhysAddrIs DEF Addresses
<1>6. Index(i) \in 0 .. (AddrSpace - 1) /\ (entry - phdrs[i].vaddr) - Index(i) \in Multiples(AddrSpace)
  <2>1. entry - phdrs[i].vaddr \in Int
    BY <1>0, <1>1
  <2> QED
    BY <1>0, <2>1, RemainderIs
<1>7. (start - At(i)) % AddrSpace = Index(i)
  <2> DEFINE v == phdrs[i].vaddr
             p == phdrs[i].paddr
             b == At(i)
             n == Index(i)
             x == (start - b) % AddrSpace
  <2>0. v \in Int /\ p \in Int /\ b \in Int /\ n \in Int /\ start \in Int /\ shift \in Int
    <3>1. /\ v \in 0 .. (AddrSpace - 1) /\ p \in 0 .. (AddrSpace - 1) /\ b \in 0 .. (AddrSpace - 1)
          /\ n \in 0 .. (AddrSpace - 1)
      BY <1>1, <1>5, <1>6
    <3> HIDE DEF v, p, b, n
    <3> QED
      BY <1>0, <1>3, <1>4, <3>1
  <2>1. x \in 0 .. (AddrSpace - 1) /\ (start - b) - x \in Multiples(AddrSpace)
    <3>1. start - b \in Int
      BY <2>0
    <3> QED
      BY <1>0, <3>1, RemainderIs
  <2> DEFINE m1 == (v - p) - shift
             m2 == (entry - shift + phys_base) - start
             m3 == (p + phys_base) - b
             m4 == (entry - v) - n
             m5 == (start - b) - x
  <2>2. /\ m1 \in Multiples(AddrSpace) /\ m2 \in Multiples(AddrSpace) /\ m3 \in Multiples(AddrSpace)
        /\ m4 \in Multiples(AddrSpace) /\ m5 \in Multiples(AddrSpace)
    BY <1>3, <1>4, <1>5, <1>6, <2>1
  <2> HIDE DEF v, p, b, n, x
  <2>3. n - x = (((m5 - m4) - m1) + m2) - m3
    <3>1. x \in Int /\ entry \in Int /\ phys_base \in Int
      BY <1>0, <2>1
    <3> QED
      BY <2>0, <3>1
  <2> HIDE DEF m1, m2, m3, m4, m5
  <2>4. m5 - m4 \in Multiples(AddrSpace)
    BY <1>0, <2>2, MultiplesClosed
  <2>5. (m5 - m4) - m1 \in Multiples(AddrSpace)
    BY <1>0, <2>2, <2>4, MultiplesClosed
  <2>6. ((m5 - m4) - m1) + m2 \in Multiples(AddrSpace)
    BY <1>0, <2>2, <2>5, MultiplesClosed
  <2>7. n - x \in Multiples(AddrSpace)
    BY <1>0, <2>2, <2>3, <2>6, MultiplesClosed
  <2>8. n \in 0 .. (AddrSpace - 1)
    BY <1>6 DEF n
  <2>9. n = x
    BY <1>0, <2>1, <2>7, <2>8, RemainderUnique
  <2> QED
    BY <2>9 DEF n, x, b
<1>8. ASSUME NEW k \in Loads(phdrs), (start - At(k)) % AddrSpace < Length(phdrs[k])
      PROVE  At(k) <= start /\ start < At(k) + Length(phdrs[k])
  <2>1. At(k) + Length(phdrs[k]) < AddrSpace /\ At(k) \in Addresses /\ Length(phdrs[k]) \in Nat
    BY <1>1, PhysAddrIs DEF EndInSpace
  <2>2. start \in Addresses
    BY <1>4 DEF Addresses
  <2> QED
    BY <1>8, <2>1, <2>2, IndexInRange
<1>9. At(i) <= start /\ start < At(i) + Length(phdrs[i])
  BY <1>7, <1>8
<1>10. ASSUME NEW k \in Loads(phdrs), (start - At(k)) % AddrSpace < Length(phdrs[k]), k # i
       PROVE  FALSE
  <2>1. At(k) <= start /\ start < At(k) + Length(phdrs[k])
    BY <1>8, <1>10
  <2> DEFINE pi == phdrs[i].paddr
             pk == phdrs[k].paddr
             li == Length(phdrs[i])
             lk == Length(phdrs[k])
             bi == At(i)
             bk == At(k)
  <2>2. pi + li <= pk \/ pk + lk <= pi
    BY <1>10 DEF WellFormed
  <2>3. pi + li <= AddrSpace /\ pk + lk <= AddrSpace
    BY DEF EndInSpace
  <2>4. /\ bi = pi + phys_base \/ bi = (pi + phys_base) - AddrSpace
        /\ bk = pk + phys_base \/ bk = (pk + phys_base) - AddrSpace
    <3>1. phdrs[i] \in ProgramHeader /\ phdrs[k] \in ProgramHeader
      BY <1>1
    <3>2. \A phdr \in ProgramHeader :
             \/ PhysAddr(phdr, phys_base) = phdr.paddr + phys_base
             \/ PhysAddr(phdr, phys_base) = (phdr.paddr + phys_base) - AddrSpace
      BY PhysAddrIs, Zenon
    <3> QED
      BY <3>1, <3>2, Zenon
  <2>5. pi \in Nat /\ pk \in Nat /\ li \in Nat /\ lk \in Nat /\ phys_base \in Nat /\ start \in Nat
    BY <1>0, <1>1, <1>4
  <2>6. bi <= start /\ start < bi + li /\ bk <= start /\ start < bk + lk
    BY <1>9, <2>1
  <2> HIDE DEF pi, pk, li, lk, bi, bk
  <2>7. CASE pi + li <= pk
    BY <1>0, <2>3, <2>4, <2>5, <2>6, <2>7
  <2>8. CASE pk + lk <= pi
    BY <1>0, <2>3, <2>4, <2>5, <2>6, <2>8
  <2> QED
    BY <2>2, <2>7, <2>8
<1>11. Loaded(phdrs, phys_base, start) = Byte(phdrs, i, Index(i))
  <2> DEFINE over == {k \in Loads(phdrs) : (start - At(k)) % AddrSpace < Length(phdrs[k])}
  <2>1. over = {i}
    BY <1>7, <1>10
  <2>2. Max(over) = i
    <3>1. i \in Nat
      BY DEF Loads
    <3> HIDE DEF over
    <3> QED
      BY <2>1, <3>1 DEF Max
  <2>3. Loaded(phdrs, phys_base, start) =
           IF over = {} THEN <<>> ELSE Byte(phdrs, Max(over), (start - At(Max(over))) % AddrSpace)
    BY DEF Loaded
  <2> HIDE DEF over
  <2> QED
    BY <1>7, <2>1, <2>2, <2>3
<1>12. \E j \in DOMAIN regions : /\ regions[j].data /\ regions[j].base <= start
                                 /\ start < regions[j].base + regions[j].size
  <2>1. At(i) + Length(phdrs[i]) < AddrSpace /\ start \in Nat
    BY <1>4 DEF EndInSpace
  <2> QED
    BY <1>1, <1>2, <1>9, <2>1, SegmentInRam
<1> QED
  BY <1>11, <1>12

(* The same, of a call to elf_load with such a file.                       *)
THEOREM EntriesAreLoaded ==
    ASSUME input.of = "file" => /\ input.phdrs \in Seq(ProgramHeader)
                                /\ input.entry \in Addresses /\ input.phys_base \in Addresses
                                /\ EndInSpace(input.phdrs, input.phys_base)
    PROVE  EntryIsLoaded
BY ProgramsStartAtEntry DEF EntryIsLoaded
=============================================================================
