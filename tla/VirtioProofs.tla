---------------------------- MODULE VirtioProofs ----------------------------
(***************************************************************************)
(* Proofs about the virtio block device for every queue size, every width  *)
(* of the ring indices that the size divides, every image and every set of *)
(* requests.  In this order: the indices and slots of a ring; what each    *)
(* operation does to the two rings; the inductive invariant; the           *)
(* invariants that the run checks; the block server.                       *)
(***************************************************************************)
EXTENDS Virtio, FiniteSetTheorems, SequenceTheorems, TLAPS

(* The n-th chain waiting in the available ring, and the n-th answer in    *)
(* the used ring.                                                          *)
Waiting(n)  == avail_ring[(cursor + n - 1) % QueueSize]
Answered(n) == used_ring[(last_used + n - 1) % QueueSize]
NumWaiting  == Distance(cursor, avail_idx)
NumAnswered == Distance(last_used, used_idx)

(* Guest memory, beyond TypeOK: a chain holds a request or was never used. *)
MemoryOK == req \in [Heads -> Requests \cup {NoRequest}]

(* Each chain in flight is in exactly one of the two rings, once, and none *)
(* other is: the counts make both rings fit.                               *)
ChainsInRings ==
    /\ cursor = used_idx
    /\ Cardinality(inflight) = NumWaiting + NumAnswered
    /\ \A i \in 1 .. NumWaiting : Waiting(i) \in inflight /\ req[Waiting(i)] \in Requests
    /\ \A i \in 1 .. NumAnswered : Answered(i) \in inflight
    /\ \A i, j \in 1 .. NumWaiting : Waiting(i) = Waiting(j) => i = j
    /\ \A i, j \in 1 .. NumAnswered : Answered(i) = Answered(j) => i = j
    /\ \A i \in 1 .. NumWaiting, j \in 1 .. NumAnswered : Waiting(i) # Answered(j)

(* The queue is ready, with its size, wherever the driver uses it.         *)
InHandler == {"claimed", "collect", "done"}
QueueReady ==
    /\ driver \in {"idle"} \cup InHandler => ready /\ size = QueueSize
    /\ driver = "ready" => size = QueueSize
    /\ busy => driver = "idle"

(* The image never loses a sector that it had at start-up.                 *)
ImageGrows == \A s \in Sectors : s < Capacity => disk[s] # Absent

(* The emulator hangs inside blk_notify, and nothing moves after that.     *)
Hung == crashed => busy

(* What the driver has programmed by the time it reaches a location, and   *)
(* the source in service exactly in its handler.                           *)
PlicProgrammed ==
    /\ threshold[P!PLIC_CTX_S] = 0
    /\ driver # "boot" => priority[VIRTIO_IRQ] = 1
    /\ driver \notin {"boot", "boot2"} => enable[P!PLIC_CTX_S] = {VIRTIO_IRQ}
    /\ claimed = IF driver \in InHandler THEN {VIRTIO_IRQ} ELSE {}
    /\ P!SeipIffEligible

(* An answer the driver has not collected is on its way to be: announced   *)
(* in the PLIC and the status register, in the status register once the    *)
(* source is claimed, or under collection.                                 *)
Announced ==
    used_idx # last_used =>
        \/ driver = "idle" /\ (busy \/ (VIRTIO_IRQ \in pending /\ interrupt_status = 1))
        \/ driver = "claimed" /\ interrupt_status = 1
        \/ driver = "collect"

(* The inductive invariant.  RingsBounded needs the count of the chains in *)
(* flight, which needs that each is in one ring only; the hang needs that  *)
(* blk_notify runs with a ready queue on an image that never shrinks; the  *)
(* completion needs where the announcement is while the driver handles it. *)
VirtioInv == /\ TypeOK /\ MemoryOK /\ ChainsInRings /\ QueueReady /\ ImageGrows /\ Hung
             /\ StuckOnlyPastCapacity /\ PlicProgrammed /\ Announced

-----------------------------------------------------------------------------
(* The remainder is the one of division with quotient.                     *)
LEMMA DivMod ==
    ASSUME NEW m \in Nat \ {0}, NEW n \in Int
    PROVE  /\ n \div m \in Int /\ n % m \in 0 .. (m - 1)
           /\ n % m = n - m * (n \div m)
OBVIOUS

(* Quotient and remainder determine the remainder.                         *)
LEMMA ModUnique ==
    ASSUME NEW m \in Nat \ {0}, NEW p \in Int, NEW q \in Int,
           NEW r \in 0 .. (m - 1), NEW s \in 0 .. (m - 1), m * p + r = m * q + s
    PROVE  r = s
OBVIOUS

(* So a sum in that form has that remainder.                               *)
LEMMA ModIs ==
    ASSUME NEW m \in Nat \ {0}, NEW q \in Int, NEW r \in 0 .. (m - 1)
    PROVE  (m * q + r) % m = r
BY DivMod, ModUnique

(* Products of quotients, for the prover.                                  *)
LEMMA Distributes ==
    ASSUME NEW m \in Int, NEW p \in Int, NEW q \in Int
    PROVE  m * (p + q) = m * p + m * q /\ m * (p - q) = m * p - m * q
OBVIOUS

(* Multiples of the modulus do not change the remainder.                   *)
LEMMA ModShift ==
    ASSUME NEW m \in Nat \ {0}, NEW n \in Int, NEW k \in Int
    PROVE  (n + m * k) % m = n % m
<1> DEFINE q == n \div m
           r == n % m
<1>1. q \in Int /\ r \in 0 .. (m - 1) /\ r = n - m * q
  BY DivMod
<1> HIDE DEF q, r
<1>2. m * q \in Int /\ m * k \in Int /\ q + k \in Int
  BY <1>1
<1>3. n + m * k = m * (q + k) + r
  BY <1>1, <1>2, Distributes
<1>4. (m * (q + k) + r) % m = r
  BY <1>1, <1>2, ModIs
<1> QED
  BY <1>3, <1>4 DEF r

(* A whole number of rings fits into the range of the indices.             *)
LEMMA Sizes ==
    /\ IdxMod \in Nat \ {0} /\ QueueSize \in Nat \ {0} /\ QueueSize < IdxMod
    /\ Slots = 0 .. (QueueSize - 1) /\ Idx = 0 .. (IdxMod - 1)
    /\ \E k \in Int : IdxMod = QueueSize * k
<1>1. /\ IdxMod \in Nat \ {0} /\ QueueSize \in Nat \ {0} /\ QueueSize < IdxMod
      /\ IdxMod % QueueSize = 0
  BY VirtioAssumption
<1>2. IdxMod = QueueSize * (IdxMod \div QueueSize) /\ IdxMod \div QueueSize \in Int
  BY <1>1, DivMod
<1> QED
  BY <1>1, <1>2 DEF Slots, Idx

(* The two cases of an index incremented, a u16 in vq_ring_next and        *)
(* vq_ring_post.                                                           *)
LEMMA IncIs ==
    ASSUME NEW a \in Idx
    PROVE  /\ Inc(a) = IF a + 1 = IdxMod THEN 0 ELSE a + 1
           /\ Inc(a) \in Idx
<1>1. CASE a + 1 = IdxMod
  <2>1. a + 1 = IdxMod * 1 + 0 /\ 0 \in 0 .. (IdxMod - 1)
    BY <1>1, Sizes
  <2>2. (a + 1) % IdxMod = 0
    BY <2>1, Sizes, ModIs
  <2> QED
    BY <1>1, <2>2, Sizes DEF Inc
<1>2. CASE a + 1 # IdxMod
  <2>1. a + 1 = IdxMod * 0 + (a + 1) /\ a + 1 \in 0 .. (IdxMod - 1)
    BY <1>2, Sizes
  <2>2. (a + 1) % IdxMod = a + 1
    BY <2>1, Sizes, ModIs
  <2> QED
    BY <1>2, <2>1, <2>2, Sizes DEF Inc
<1> QED
  BY <1>1, <1>2

(* The two cases of a distance, across the wrap or not.                    *)
LEMMA DistanceIs ==
    ASSUME NEW a \in Idx, NEW b \in Idx
    PROVE  /\ Distance(a, b) = IF a <= b THEN b - a ELSE b - a + IdxMod
           /\ Distance(a, b) \in 0 .. (IdxMod - 1)
<1>1. CASE a <= b
  <2>1. b - a = IdxMod * 0 + (b - a) /\ b - a \in 0 .. (IdxMod - 1)
    BY <1>1, Sizes
  <2>2. (b - a) % IdxMod = b - a
    BY <2>1, Sizes, ModIs
  <2> QED
    BY <1>1, <2>1, <2>2 DEF Distance
<1>2. CASE ~(a <= b)
  <2>1. b - a = IdxMod * (-1) + (b - a + IdxMod) /\ b - a + IdxMod \in 0 .. (IdxMod - 1)
    BY <1>2, Sizes
  <2>2. (b - a) % IdxMod = b - a + IdxMod
    BY <2>1, Sizes, ModIs
  <2> QED
    BY <1>2, <2>1, <2>2 DEF Distance
<1> QED
  BY <1>1, <1>2

(* An index that wraps goes on in the slot where it would have without the *)
(* wrap.                                                                   *)
LEMMA SlotShift ==
    ASSUME NEW n \in Int
    PROVE  (n + IdxMod) % QueueSize = n % QueueSize
BY Sizes, ModShift

(* Entries less than a ring apart are in different slots.                  *)
LEMMA SlotsDiffer ==
    ASSUME NEW a \in Int, NEW i \in Slots, NEW j \in Slots,
           (a + i) % QueueSize = (a + j) % QueueSize
    PROVE  i = j
<1> DEFINE p == (a + i) \div QueueSize
           s == (a + j) \div QueueSize
<1>0. QueueSize \in Nat \ {0} /\ a + i \in Int /\ a + j \in Int /\ i \in Int /\ j \in Int
  BY Sizes
<1>1. /\ p \in Int /\ s \in Int
      /\ (a + i) % QueueSize = (a + i) - QueueSize * p
      /\ (a + j) % QueueSize = (a + j) - QueueSize * s
  BY <1>0, DivMod
<1> HIDE DEF p, s
<1>2. QueueSize * p \in Int /\ QueueSize * s \in Int
  BY <1>0, <1>1
<1>3. j - i = QueueSize * (s - p) /\ i - j = QueueSize * (p - s)
  BY <1>0, <1>1, <1>2, Distributes
<1>4. CASE i <= j
  <2>1. QueueSize * 0 + (j - i) = QueueSize * (s - p) + 0 /\ s - p \in Int /\ j - i \in 0 .. (QueueSize - 1)
    BY <1>0, <1>1, <1>3, <1>4, Sizes
  <2>2. j - i = 0
    BY <1>0, <2>1, ModUnique
  <2> QED
    BY <1>0, <2>2
<1>5. CASE j <= i
  <2>1. QueueSize * 0 + (i - j) = QueueSize * (p - s) + 0 /\ p - s \in Int /\ i - j \in 0 .. (QueueSize - 1)
    BY <1>0, <1>1, <1>3, <1>5, Sizes
  <2>2. i - j = 0
    BY <1>0, <2>1, ModUnique
  <2> QED
    BY <1>0, <2>2
<1> QED
  BY <1>0, <1>4, <1>5

(* An entry added at the end of a ring that is not full: it lands in a     *)
(* slot of its own.                                                        *)
LEMMA Push ==
    ASSUME NEW from \in Idx, NEW to \in Idx, Distance(from, to) < QueueSize
    PROVE  /\ Distance(from, Inc(to)) = Distance(from, to) + 1
           /\ \A i \in 1 .. Distance(from, to) :
                 (from + i - 1) % QueueSize # to % QueueSize
           /\ (from + (Distance(from, to) + 1) - 1) % QueueSize = to % QueueSize
<1> DEFINE d == Distance(from, to)
<1>0. /\ IdxMod \in Nat \ {0} /\ QueueSize \in Nat \ {0} /\ QueueSize < IdxMod
      /\ from \in Int /\ to \in Int /\ d \in 0 .. (QueueSize - 1)
      /\ 0 <= from /\ from < IdxMod /\ 0 <= to /\ to < IdxMod
  BY Sizes, DistanceIs
<1>1. Distance(from, Inc(to)) = d + 1
  <2> DEFINE u == Inc(to)
             e == Distance(from, u)
  <2>1. u \in Idx /\ u = IF to + 1 = IdxMod THEN 0 ELSE to + 1
    BY IncIs
  <2> HIDE DEF u
  <2>2. d = IF from <= to THEN to - from ELSE to - from + IdxMod
    BY DistanceIs
  <2>3. e = IF from <= u THEN u - from ELSE u - from + IdxMod
    BY <2>1, DistanceIs
  <2> HIDE DEF d, e
  <2>4. e = d + 1
    BY <1>0, <2>1, <2>2, <2>3
  <2> QED
    BY <2>4 DEF d, e, u
<1>2. (from + d) % QueueSize = to % QueueSize
  <2>1. from + d = to \/ from + d = to + IdxMod
    BY <1>0, DistanceIs
  <2> QED
    BY <1>0, <2>1, SlotShift
<1> HIDE DEF d
<1>3. ASSUME NEW i \in 1 .. d, (from + i - 1) % QueueSize = to % QueueSize
      PROVE  FALSE
  <2>1. i - 1 \in Slots /\ d \in Slots /\ i - 1 # d /\ from + i - 1 = from + (i - 1)
    BY <1>0, Sizes
  <2> QED
    BY <1>0, <1>2, <1>3, <2>1, SlotsDiffer
<1>4. from + (d + 1) - 1 = from + d
  BY <1>0
<1> QED
  BY <1>1, <1>2, <1>3, <1>4 DEF d

(* The first entry removed from a ring that is not empty: the others move  *)
(* up by one.                                                              *)
LEMMA Pop ==
    ASSUME NEW from \in Idx, NEW to \in Idx, from # to
    PROVE  /\ Distance(from, to) >= 1
           /\ Distance(Inc(from), to) = Distance(from, to) - 1
           /\ \A i \in Nat : (Inc(from) + i - 1) % QueueSize = (from + (i + 1) - 1) % QueueSize
           /\ (from + 1 - 1) % QueueSize = from % QueueSize
<1>0. /\ IdxMod \in Nat \ {0} /\ QueueSize \in Nat \ {0} /\ QueueSize < IdxMod
      /\ from \in Int /\ to \in Int
      /\ 0 <= from /\ from < IdxMod /\ 0 <= to /\ to < IdxMod
  BY Sizes
<1>1. Distance(from, to) >= 1 /\ Distance(Inc(from), to) = Distance(from, to) - 1
  <2> DEFINE u == Inc(from)
             d == Distance(from, to)
             e == Distance(u, to)
  <2>1. u \in Idx /\ u = IF from + 1 = IdxMod THEN 0 ELSE from + 1
    BY IncIs
  <2> HIDE DEF u
  <2>2. d = IF from <= to THEN to - from ELSE to - from + IdxMod
    BY DistanceIs
  <2>3. e = IF u <= to THEN to - u ELSE to - u + IdxMod
    BY <2>1, DistanceIs
  <2> HIDE DEF d, e
  <2>4. d >= 1 /\ e = d - 1
    BY <1>0, <2>1, <2>2, <2>3
  <2> QED
    BY <2>4 DEF d, e, u
<1>2. ASSUME NEW i \in Nat
      PROVE  (Inc(from) + i - 1) % QueueSize = (from + (i + 1) - 1) % QueueSize
  <2>1. \/ Inc(from) + i - 1 = from + (i + 1) - 1
        \/ (Inc(from) + i - 1) + IdxMod = from + (i + 1) - 1
    BY <1>0, IncIs
  <2>2. Inc(from) + i - 1 \in Int
    BY <1>0, IncIs, Sizes
  <2> QED
    BY <2>1, <2>2, SlotShift
<1>3. from + 1 - 1 = from
  BY <1>0
<1> QED
  BY <1>1, <1>2, <1>3

(* Equal indices, and only those, mean an empty ring.                      *)
LEMMA Empty ==
    ASSUME NEW from \in Idx, NEW to \in Idx
    PROVE  Distance(from, to) = 0 <=> from = to
<1> DEFINE d == Distance(from, to)
<1>1. IdxMod \in Nat /\ from \in 0 .. (IdxMod - 1) /\ to \in 0 .. (IdxMod - 1)
  BY Sizes
<1>2. d = IF from <= to THEN to - from ELSE to - from + IdxMod
  BY DistanceIs
<1> HIDE DEF d
<1>3. d = 0 <=> from = to
  BY <1>1, <1>2
<1> QED
  BY <1>3 DEF d

(* A remainder is a slot.                                                  *)
LEMMA SlotIn ==
    ASSUME NEW n \in Int
    PROVE  n % QueueSize \in Slots
BY Sizes, DivMod

(* No more chains are in flight than there are, and one fewer while one    *)
(* is free.                                                                *)
LEMMA ChainsCount ==
    ASSUME NEW S \in SUBSET Heads
    PROVE  /\ IsFiniteSet(S) /\ Cardinality(S) \in Nat /\ Cardinality(S) <= QueueSize
           /\ \A h \in Heads \ S : Cardinality(S \cup {h}) = Cardinality(S) + 1
                                  /\ Cardinality(S) < QueueSize
           /\ \A h \in S : Cardinality(S \ {h}) = Cardinality(S) - 1
<1>1. IsFiniteSet(Heads) /\ Cardinality(Heads) = QueueSize
  BY Sizes, FS_Interval DEF Heads
<1>2. \A T \in SUBSET Heads : /\ IsFiniteSet(T) /\ Cardinality(T) \in Nat
                               /\ Cardinality(T) <= QueueSize
  BY <1>1, FS_Subset, FS_CardinalityType
<1>3. ASSUME NEW h \in Heads \ S
      PROVE  Cardinality(S \cup {h}) = Cardinality(S) + 1 /\ Cardinality(S) < QueueSize
  <2>1. Cardinality(S \cup {h}) = Cardinality(S) + 1
    BY <1>2, FS_AddElement
  <2>2. Cardinality(S \cup {h}) <= QueueSize
    BY <1>2
  <2> QED
    BY <1>2, <2>1, <2>2, Sizes
<1>4. ASSUME NEW h \in S PROVE Cardinality(S \ {h}) = Cardinality(S) - 1
  BY <1>2, FS_RemoveElement
<1> QED
  BY <1>2, <1>3, <1>4

-----------------------------------------------------------------------------
(* Types of what the ring lemmas speak about.                              *)
LEMMA TypesOfRings ==
    ASSUME TypeOK
    PROVE  /\ cursor \in Idx /\ avail_idx \in Idx /\ used_idx \in Idx /\ last_used \in Idx
           /\ Idx \subseteq Nat
           /\ avail_ring \in [Slots -> Heads] /\ used_ring \in [Slots -> Heads]
           /\ inflight \in SUBSET Heads
           /\ NumWaiting \in Nat /\ NumAnswered \in Nat
           /\ \A i \in Nat : (cursor + i - 1) % QueueSize \in Slots
                            /\ (last_used + i - 1) % QueueSize \in Slots
           /\ \A i \in Nat : Waiting(i) \in Heads /\ Answered(i) \in Heads
<1>1. /\ cursor \in Idx /\ avail_idx \in Idx /\ used_idx \in Idx /\ last_used \in Idx
      /\ avail_ring \in [Slots -> Heads] /\ used_ring \in [Slots -> Heads]
      /\ inflight \in SUBSET Heads
  BY DEF TypeOK
<1>2. Idx \subseteq Nat
  BY Sizes
<1>3. NumWaiting \in Nat /\ NumAnswered \in Nat
  <2>1. \A a, b \in Idx : Distance(a, b) \in Nat
    <3> SUFFICES ASSUME NEW a \in Idx, NEW b \in Idx PROVE Distance(a, b) \in Nat
      OBVIOUS
    <3>1. Distance(a, b) \in 0 .. (IdxMod - 1)
      BY DistanceIs
    <3> QED
      BY <3>1
  <2> QED
    BY <1>1, <2>1 DEF NumWaiting, NumAnswered
<1>4. ASSUME NEW i \in Nat
      PROVE  /\ (cursor + i - 1) % QueueSize \in Slots
             /\ (last_used + i - 1) % QueueSize \in Slots
  <2>1. cursor + i - 1 \in Int /\ last_used + i - 1 \in Int
    BY <1>1, <1>2
  <2> QED
    BY <2>1, SlotIn
<1> QED
  BY <1>1, <1>2, <1>3, <1>4 DEF Waiting, Answered

(* The rings hold at most QueueSize entries, fewer while a chain is free.  *)
LEMMA RingsFit ==
    ASSUME TypeOK, ChainsInRings
    PROVE  /\ NumWaiting + NumAnswered <= QueueSize
           /\ \A h \in Heads \ inflight : NumWaiting + NumAnswered < QueueSize
BY TypesOfRings, ChainsCount DEF ChainsInRings

(* Submit appends the chain to those that wait.                            *)
LEMMA SubmitEffect ==
    ASSUME TypeOK, ChainsInRings, NEW head \in Heads, NEW r \in Requests, Submit(head, r)
    PROVE  /\ NumWaiting' = NumWaiting + 1 /\ NumAnswered' = NumAnswered
           /\ \A i \in 1 .. NumWaiting : Waiting(i)' = Waiting(i)
           /\ \A i \in Nat : i = NumWaiting + 1 => Waiting(i)' = head
           /\ \A i \in Nat : Answered(i)' = Answered(i)
<1>1. NumWaiting < QueueSize
  <2>1. NumWaiting + NumAnswered < QueueSize
    BY RingsFit DEF Submit
  <2>2. NumWaiting \in Nat /\ NumAnswered \in Nat /\ QueueSize \in Nat
    BY TypesOfRings, Sizes
  <2> QED
    BY <2>1, <2>2
<1>2. UNCHANGED <<cursor, used_idx, used_ring, last_used>>
  BY DEF Submit, device
<1>3. /\ avail_idx' = Inc(avail_idx)
      /\ avail_ring' = [avail_ring EXCEPT ![avail_idx % QueueSize] = head]
  BY DEF Submit
<1>4. NumWaiting' = NumWaiting + 1 /\ NumAnswered' = NumAnswered
  BY <1>1, <1>2, <1>3, TypesOfRings, Push DEF NumWaiting, NumAnswered
<1>5. ASSUME NEW i \in 1 .. NumWaiting PROVE Waiting(i)' = Waiting(i)
  <2>1. (cursor + i - 1) % QueueSize # avail_idx % QueueSize
    BY <1>1, TypesOfRings, Push DEF NumWaiting
  <2>2. (cursor + i - 1) % QueueSize \in Slots
    BY TypesOfRings
  <2> QED
    BY <1>2, <1>3, <2>1, <2>2, TypesOfRings DEF Waiting
<1>6. ASSUME NEW i \in Nat, i = NumWaiting + 1 PROVE Waiting(i)' = head
  <2>1. (cursor + i - 1) % QueueSize = avail_idx % QueueSize
    BY <1>1, <1>6, TypesOfRings, Push DEF NumWaiting
  <2>2. (cursor + i - 1) % QueueSize \in Slots
    BY TypesOfRings
  <2> QED
    BY <1>2, <1>3, <2>1, <2>2, TypesOfRings DEF Waiting
<1>7. \A i \in Nat : Answered(i)' = Answered(i)
  BY <1>2 DEF Answered
<1> QED
  BY <1>4, <1>5, <1>6, <1>7

(* A round of blk_notify moves the first chain that waits to the end of    *)
(* those that are answered.                                                *)
LEMMA ServeEffect ==
    ASSUME TypeOK, ChainsInRings, size = QueueSize, blk_handle_request
    PROVE  /\ NumWaiting \in Nat \ {0} /\ vq_ring_next = Waiting(1)
           /\ NumWaiting' = NumWaiting - 1 /\ NumAnswered' = NumAnswered + 1
           /\ \A i \in Nat : Waiting(i)' = Waiting(i + 1)
           /\ \A i \in 1 .. NumAnswered : Answered(i)' = Answered(i)
           /\ \A i \in Nat : i = NumAnswered + 1 => Answered(i)' = Waiting(1)
<1>1. cursor = used_idx /\ cursor # avail_idx
  BY DEF ChainsInRings, blk_handle_request, vq_ring_has_next
<1>2. UNCHANGED <<avail_idx, avail_ring, last_used>>
  BY DEF blk_handle_request, guest
<1>3. vq_ring_next = Waiting(1)
  BY <1>1, TypesOfRings, Pop DEF vq_ring_next, Waiting
<1>4. /\ cursor' = Inc(cursor) /\ used_idx' = Inc(used_idx)
      /\ used_ring' = [used_ring EXCEPT ![used_idx % QueueSize] = Waiting(1)]
  BY <1>3 DEF blk_handle_request, vq_ring_post
<1>5. NumWaiting \in Nat \ {0} /\ NumWaiting' = NumWaiting - 1
  BY <1>1, <1>2, <1>4, TypesOfRings, Pop DEF NumWaiting
<1>6. NumAnswered < QueueSize
  <2>1. NumWaiting + NumAnswered <= QueueSize
    BY RingsFit
  <2>2. NumAnswered \in Nat /\ QueueSize \in Nat
    BY TypesOfRings, Sizes
  <2> QED
    BY <1>5, <2>1, <2>2
<1>7. NumAnswered' = NumAnswered + 1
  BY <1>2, <1>4, <1>6, TypesOfRings, Push DEF NumAnswered
<1>8. ASSUME NEW i \in Nat PROVE Waiting(i)' = Waiting(i + 1)
  <2>1. (Inc(cursor) + i - 1) % QueueSize = (cursor + (i + 1) - 1) % QueueSize
    BY <1>1, TypesOfRings, Pop
  <2> QED
    BY <1>2, <1>4, <2>1 DEF Waiting
<1>9. ASSUME NEW i \in 1 .. NumAnswered PROVE Answered(i)' = Answered(i)
  <2>1. (last_used + i - 1) % QueueSize # used_idx % QueueSize
    BY <1>6, TypesOfRings, Push DEF NumAnswered
  <2>2. (last_used + i - 1) % QueueSize \in Slots
    BY TypesOfRings
  <2> QED
    BY <1>2, <1>4, <2>1, <2>2, TypesOfRings DEF Answered
<1>10. ASSUME NEW i \in Nat, i = NumAnswered + 1 PROVE Answered(i)' = Waiting(1)
  <2>1. (last_used + i - 1) % QueueSize = used_idx % QueueSize
    BY <1>6, <1>10, TypesOfRings, Push DEF NumAnswered
  <2>2. (last_used + i - 1) % QueueSize \in Slots
    BY TypesOfRings
  <2> QED
    BY <1>2, <1>4, <2>1, <2>2, TypesOfRings DEF Answered
<1> QED
  BY <1>3, <1>5, <1>7, <1>8, <1>9, <1>10

(* Collect takes the first answer.                                         *)
LEMMA CollectEffect ==
    ASSUME TypeOK, ChainsInRings, Collect
    PROVE  /\ NumAnswered \in Nat \ {0} /\ inflight' = inflight \ {Answered(1)}
           /\ NumWaiting' = NumWaiting /\ NumAnswered' = NumAnswered - 1
           /\ \A i \in Nat : Waiting(i)' = Waiting(i)
           /\ \A i \in Nat : Answered(i)' = Answered(i + 1)
<1>1. /\ last_used # used_idx /\ last_used' = Inc(last_used)
      /\ inflight' = inflight \ {used_ring[last_used % QueueSize]}
      /\ UNCHANGED <<cursor, avail_idx, avail_ring, used_idx, used_ring>>
  BY DEF Collect, device, memory
<1>2. used_ring[last_used % QueueSize] = Answered(1)
  BY <1>1, TypesOfRings, Pop DEF Answered
<1>3. NumAnswered \in Nat \ {0} /\ NumAnswered' = NumAnswered - 1
  BY <1>1, TypesOfRings, Pop DEF NumAnswered
<1>4. NumWaiting' = NumWaiting /\ \A i \in Nat : Waiting(i)' = Waiting(i)
  BY <1>1 DEF NumWaiting, Waiting
<1>5. ASSUME NEW i \in Nat PROVE Answered(i)' = Answered(i + 1)
  <2>1. (Inc(last_used) + i - 1) % QueueSize = (last_used + (i + 1) - 1) % QueueSize
    BY <1>1, TypesOfRings, Pop
  <2> QED
    BY <1>1, <2>1 DEF Answered
<1> QED
  BY <1>1, <1>2, <1>3, <1>4, <1>5

(* A free chain goes into the available ring.                              *)
LEMMA SubmitKeepsChains ==
    ASSUME TypeOK, ChainsInRings, NEW head \in Heads, NEW r \in Requests, Submit(head, r)
    PROVE  ChainsInRings'
<1>1. /\ NumWaiting' = NumWaiting + 1 /\ NumAnswered' = NumAnswered
      /\ \A i \in 1 .. NumWaiting : Waiting(i)' = Waiting(i)
      /\ \A i \in Nat : i = NumWaiting + 1 => Waiting(i)' = head
      /\ \A i \in Nat : Answered(i)' = Answered(i)
  BY SubmitEffect
<1>2. NumWaiting \in Nat /\ NumAnswered \in Nat
  BY TypesOfRings
<1>3. /\ head \notin inflight /\ inflight' = inflight \cup {head}
      /\ req' = [req EXCEPT ![head] = r] /\ DOMAIN req = Heads
      /\ UNCHANGED <<cursor, used_idx>>
  BY DEF Submit, device, TypeOK
<1>4. \A i \in 1 .. (NumWaiting + 1) : i \in 1 .. NumWaiting \/ (i \in Nat /\ i = NumWaiting + 1)
  BY <1>2
<1>5. Cardinality(inflight') = NumWaiting' + NumAnswered'
  <2>1. Cardinality(inflight') = Cardinality(inflight) + 1
    BY <1>3, TypesOfRings, ChainsCount
  <2> QED
    BY <1>1, <1>2, <2>1 DEF ChainsInRings
<1>6. /\ \A i \in 1 .. NumWaiting : Waiting(i) \in inflight /\ req[Waiting(i)] \in Requests
      /\ \A i \in 1 .. NumAnswered : Answered(i) \in inflight /\ i \in Nat
      /\ \A i, j \in 1 .. NumWaiting : Waiting(i) = Waiting(j) => i = j
      /\ \A i, j \in 1 .. NumAnswered : Answered(i) = Answered(j) => i = j
      /\ \A i \in 1 .. NumWaiting, j \in 1 .. NumAnswered : Waiting(i) # Answered(j)
      /\ cursor = used_idx
  BY DEF ChainsInRings
<1>7. \A i \in 1 .. NumWaiting' : Waiting(i)' \in inflight' /\ req'[Waiting(i)'] \in Requests
  BY <1>1, <1>3, <1>4, <1>6, TypesOfRings
<1>8. \A i \in 1 .. NumAnswered' : Answered(i)' \in inflight'
  BY <1>1, <1>3, <1>6
<1>9. \A i, j \in 1 .. NumWaiting' : Waiting(i)' = Waiting(j)' => i = j
  BY <1>1, <1>3, <1>4, <1>6
<1>10. \A i, j \in 1 .. NumAnswered' : Answered(i)' = Answered(j)' => i = j
  BY <1>1, <1>6
<1>11. \A i \in 1 .. NumWaiting', j \in 1 .. NumAnswered' : Waiting(i)' # Answered(j)'
  BY <1>1, <1>3, <1>4, <1>6
<1> QED
  BY <1>3, <1>5, <1>6, <1>7, <1>8, <1>9, <1>10, <1>11 DEF ChainsInRings

(* A chain goes from one ring into the other.                              *)
LEMMA ServeKeepsChains ==
    ASSUME TypeOK, ChainsInRings, size = QueueSize, blk_handle_request
    PROVE  ChainsInRings'
<1>1. /\ NumWaiting \in Nat \ {0} /\ vq_ring_next = Waiting(1)
      /\ NumWaiting' = NumWaiting - 1 /\ NumAnswered' = NumAnswered + 1
      /\ \A i \in Nat : Waiting(i)' = Waiting(i + 1)
      /\ \A i \in 1 .. NumAnswered : Answered(i)' = Answered(i)
      /\ \A i \in Nat : i = NumAnswered + 1 => Answered(i)' = Waiting(1)
  BY ServeEffect
<1>2. NumAnswered \in Nat /\ 1 \in 1 .. NumWaiting
  BY <1>1, TypesOfRings
<1>3. UNCHANGED <<inflight, req>> /\ cursor' = Inc(cursor) /\ used_idx' = Inc(used_idx)
  BY DEF blk_handle_request, guest, vq_ring_post
<1>4. \A i \in 1 .. (NumAnswered + 1) : i \in 1 .. NumAnswered \/ (i \in Nat /\ i = NumAnswered + 1)
  BY <1>2
<1>5. \A i \in 1 .. (NumWaiting - 1) : i \in Nat /\ i + 1 \in 1 .. NumWaiting /\ i + 1 # 1
  BY <1>1
<1>6. /\ \A i \in 1 .. NumWaiting : Waiting(i) \in inflight /\ req[Waiting(i)] \in Requests
      /\ \A i \in 1 .. NumAnswered : Answered(i) \in inflight
      /\ \A i, j \in 1 .. NumWaiting : Waiting(i) = Waiting(j) => i = j
      /\ \A i, j \in 1 .. NumAnswered : Answered(i) = Answered(j) => i = j
      /\ \A i \in 1 .. NumWaiting, j \in 1 .. NumAnswered : Waiting(i) # Answered(j)
      /\ Cardinality(inflight) = NumWaiting + NumAnswered
      /\ cursor = used_idx
  BY DEF ChainsInRings
<1>7. Cardinality(inflight') = NumWaiting' + NumAnswered'
  BY <1>1, <1>2, <1>3, <1>6
<1>8. \A i \in 1 .. NumWaiting' : Waiting(i)' \in inflight' /\ req'[Waiting(i)'] \in Requests
  BY <1>1, <1>3, <1>5, <1>6
<1>9. \A i \in 1 .. NumAnswered' : Answered(i)' \in inflight'
  BY <1>1, <1>2, <1>3, <1>4, <1>6
<1>10. \A i, j \in 1 .. NumWaiting' : Waiting(i)' = Waiting(j)' => i = j
  <2> SUFFICES ASSUME NEW i \in 1 .. (NumWaiting - 1), NEW j \in 1 .. (NumWaiting - 1),
                      Waiting(i + 1) = Waiting(j + 1)
               PROVE  i = j
    BY <1>1, <1>5
  <2>1. i + 1 = j + 1
    BY <1>5, <1>6
  <2> QED
    BY <1>1, <2>1
<1>11. \A i, j \in 1 .. NumAnswered' : Answered(i)' = Answered(j)' => i = j
  BY <1>1, <1>2, <1>4, <1>6
<1>12. \A i \in 1 .. NumWaiting', j \in 1 .. NumAnswered' : Waiting(i)' # Answered(j)'
  <2> SUFFICES ASSUME NEW i \in 1 .. (NumWaiting - 1), NEW j \in 1 .. (NumAnswered + 1)
               PROVE  Waiting(i)' # Answered(j)'
    BY <1>1
  <2>1. Waiting(i)' = Waiting(i + 1) /\ i + 1 \in 1 .. NumWaiting /\ i + 1 # 1
    BY <1>1, <1>5
  <2>2. CASE j \in 1 .. NumAnswered
    BY <1>1, <1>6, <2>1, <2>2
  <2>3. CASE j \in Nat /\ j = NumAnswered + 1
    BY <1>1, <1>2, <1>6, <2>1, <2>3
  <2> QED
    BY <1>4, <2>2, <2>3
<1> QED
  BY <1>3, <1>6, <1>7, <1>8, <1>9, <1>10, <1>11, <1>12 DEF ChainsInRings

(* A chain leaves the used ring and is free.                               *)
LEMMA CollectKeepsChains ==
    ASSUME TypeOK, ChainsInRings, Collect
    PROVE  ChainsInRings'
<1>1. /\ NumAnswered \in Nat \ {0} /\ inflight' = inflight \ {Answered(1)}
      /\ NumWaiting' = NumWaiting /\ NumAnswered' = NumAnswered - 1
      /\ \A i \in Nat : Waiting(i)' = Waiting(i)
      /\ \A i \in Nat : Answered(i)' = Answered(i + 1)
  BY CollectEffect
<1>2. NumWaiting \in Nat /\ 1 \in 1 .. NumAnswered
  BY <1>1, TypesOfRings
<1>3. UNCHANGED <<req, cursor, used_idx>>
  BY DEF Collect, device, memory
<1>4. \A i \in 1 .. (NumAnswered - 1) : i \in Nat /\ i + 1 \in 1 .. NumAnswered /\ i + 1 # 1
  BY <1>1
<1>5. /\ \A i \in 1 .. NumWaiting : /\ Waiting(i) \in inflight /\ req[Waiting(i)] \in Requests
                                     /\ i \in Nat
      /\ \A i \in 1 .. NumAnswered : Answered(i) \in inflight
      /\ \A i, j \in 1 .. NumWaiting : Waiting(i) = Waiting(j) => i = j
      /\ \A i, j \in 1 .. NumAnswered : Answered(i) = Answered(j) => i = j
      /\ \A i \in 1 .. NumWaiting, j \in 1 .. NumAnswered : Waiting(i) # Answered(j)
      /\ Cardinality(inflight) = NumWaiting + NumAnswered
      /\ cursor = used_idx
  BY DEF ChainsInRings
<1>6. Cardinality(inflight') = NumWaiting' + NumAnswered'
  <2>1. Cardinality(inflight') = Cardinality(inflight) - 1
    BY <1>1, <1>2, <1>5, TypesOfRings, ChainsCount
  <2> QED
    BY <1>1, <1>2, <1>5, <2>1
<1>7. \A i \in 1 .. NumWaiting' : Waiting(i)' \in inflight' /\ req'[Waiting(i)'] \in Requests
  BY <1>1, <1>2, <1>3, <1>5
<1>8. \A i \in 1 .. NumAnswered' : Answered(i)' \in inflight'
  BY <1>1, <1>2, <1>4, <1>5
<1>9. \A i, j \in 1 .. NumWaiting' : Waiting(i)' = Waiting(j)' => i = j
  BY <1>1, <1>5
<1>10. \A i, j \in 1 .. NumAnswered' : Answered(i)' = Answered(j)' => i = j
  <2> SUFFICES ASSUME NEW i \in 1 .. (NumAnswered - 1), NEW j \in 1 .. (NumAnswered - 1),
                      Answered(i + 1) = Answered(j + 1)
               PROVE  i = j
    BY <1>1, <1>4
  <2>1. i + 1 = j + 1
    BY <1>4, <1>5
  <2> QED
    BY <1>1, <2>1
<1>11. \A i \in 1 .. NumWaiting', j \in 1 .. NumAnswered' : Waiting(i)' # Answered(j)'
  BY <1>1, <1>4, <1>5
<1> QED
  BY <1>3, <1>5, <1>6, <1>7, <1>8, <1>9, <1>10, <1>11 DEF ChainsInRings

-----------------------------------------------------------------------------
(* The fields of a request.                                                *)
LEMMA RequestTypes ==
    ASSUME NEW r \in Requests \cup {NoRequest}
    PROVE  /\ r.type \in {"in", "out", "id", "bad"}
           /\ r.sector \in Nat /\ r.len \in Nat /\ r.value \in Values
           /\ r.sector + r.len <= MaxSectors
BY VirtioAssumption DEF NoRequest

(* A transfer leaves the image well-formed and loses no sector of it.      *)
LEMMA TransferTypes ==
    ASSUME disk \in [Sectors -> Values \cup {Absent}], ImageGrows,
           NEW r \in Requests \cup {NoRequest}, NEW n \in 0 .. r.len
    PROVE  /\ Transfer(r, n).disk \in [Sectors -> Values \cup {Absent}]
           /\ \A s \in Sectors : s < Capacity => Transfer(r, n).disk[s] # Absent
           /\ Transfer(r, n).status \in {"ok", "ioerr"}
<1>1. /\ r.type \in {"in", "out", "id", "bad"} /\ r.value \in Values /\ r.value # Absent
      /\ 0 \in Values /\ 0 # Absent
  BY RequestTypes, VirtioAssumption DEF Absent
<1>2. /\ blk_do_write(r, n) \in [Sectors -> Values \cup {Absent}]
      /\ \A s \in Sectors : s < Capacity => blk_do_write(r, n)[s] # Absent
  BY <1>1 DEF blk_do_write, ImageGrows
<1>3. CASE r.type = "out"
  <2>1. Transfer(r, n).disk = blk_do_write(r, n) /\ Transfer(r, n).status \in {"ok", "ioerr"}
    BY <1>3 DEF Transfer
  <2> QED
    BY <1>2, <2>1
<1>4. CASE r.type \in {"in", "id", "bad"}
  <2>1. Transfer(r, n).disk = disk /\ Transfer(r, n).status \in {"ok", "ioerr"}
    BY <1>4 DEF Transfer
  <2> QED
    BY <2>1 DEF ImageGrows
<1> QED
  BY <1>1, <1>3, <1>4

(* What ChainsInRings and MemoryOK depend on.                              *)
ringVars == <<cursor, avail_idx, used_idx, last_used, avail_ring, used_ring, inflight, req>>

(* Steps that leave the rings alone.                                       *)
LEMMA RingsUnchanged ==
    ASSUME ChainsInRings, MemoryOK, UNCHANGED ringVars
    PROVE  ChainsInRings' /\ MemoryOK'
BY DEF ringVars, ChainsInRings, MemoryOK, Waiting, Answered, NumWaiting, NumAnswered

(* Steps that leave the PLIC alone.                                        *)
LEMMA PlicUnchanged ==
    ASSUME P!TypeOK, PlicProgrammed, UNCHANGED plicVars,
           driver' \in InHandler <=> driver \in InHandler,
           driver' # driver => driver \notin {"boot", "boot2"}
    PROVE  P!TypeOK' /\ PlicProgrammed'
BY DEF plicVars, P!TypeOK, PlicProgrammed, P!SeipIffEligible, P!Eligible

(* A round of blk_notify keeps the invariant.                              *)
LEMMA ServeKeepsInv ==
    ASSUME VirtioInv, blk_handle_request
    PROVE  VirtioInv'
<1>0. /\ TypeOK /\ MemoryOK /\ ChainsInRings /\ QueueReady /\ ImageGrows /\ Hung
      /\ StuckOnlyPastCapacity /\ PlicProgrammed /\ Announced
  BY DEF VirtioInv
<1>1. busy /\ ~crashed /\ driver = "idle" /\ size = QueueSize
  BY <1>0 DEF blk_handle_request, QueueReady
<1>2. /\ cursor' = Inc(cursor) /\ used_idx' = Inc(used_idx)
      /\ used_ring' = [used_ring EXCEPT ![used_idx % QueueSize] = Waiting(1)]
      /\ UNCHANGED <<ready, size, interrupt_status, queue_sel, busy, crashed,
                     avail_idx, avail_ring, req, guest, plicVars>>
  BY <1>0, <1>1, ServeEffect DEF blk_handle_request, vq_ring_post
<1>3. Waiting(1) \in Heads /\ req[Waiting(1)] \in Requests \cup {NoRequest}
  BY <1>0, TypesOfRings DEF MemoryOK
<1>4. PICK n \in 0 .. req[Waiting(1)].len :
         /\ data' = [data EXCEPT ![Waiting(1)] = Transfer(req[Waiting(1)], n).data]
         /\ disk' = Transfer(req[Waiting(1)], n).disk
         /\ stat' = [stat EXCEPT ![Waiting(1)] = Transfer(req[Waiting(1)], n).status]
  BY <1>0, <1>1, ServeEffect DEF blk_handle_request
<1>5. ChainsInRings'
  BY <1>0, <1>1, ServeKeepsChains
<1>6. disk' \in [Sectors -> Values \cup {Absent}] /\ ImageGrows'
  <2>1. disk \in [Sectors -> Values \cup {Absent}]
    BY <1>0 DEF TypeOK
  <2> QED
    BY <1>0, <1>3, <1>4, <2>1, TransferTypes DEF ImageGrows
<1>7. stat' \in [Heads -> {"none", "ok", "ioerr"}] /\ DOMAIN data' = Heads
  <2>1. Transfer(req[Waiting(1)], n).status \in {"ok", "ioerr"}
    BY <1>0, <1>3, TransferTypes DEF TypeOK
  <2> QED
    BY <1>0, <1>3, <1>4, <2>1 DEF TypeOK
<1>8. cursor' \in Idx /\ used_idx' \in Idx
  BY <1>0, <1>2, TypesOfRings, IncIs
<1>9. used_ring' \in [Slots -> Heads]
  BY <1>0, <1>2, <1>3, TypesOfRings
<1>10. P!TypeOK' /\ PlicProgrammed'
  BY <1>0, <1>2, PlicUnchanged DEF TypeOK, guest
<1>11. TypeOK' /\ MemoryOK'
  BY <1>0, <1>2, <1>6, <1>7, <1>8, <1>9, <1>10 DEF TypeOK, MemoryOK, guest
<1>12. QueueReady' /\ Hung' /\ StuckOnlyPastCapacity' /\ Announced'
  BY <1>0, <1>1, <1>2 DEF QueueReady, Hung, StuckOnlyPastCapacity, Announced, guest
<1> QED
  BY <1>5, <1>6, <1>10, <1>11, <1>12 DEF VirtioInv

(* A round that hangs was a read past the capacity.                        *)
LEMMA StuckKeepsInv ==
    ASSUME VirtioInv, blk_handle_request_stuck
    PROVE  VirtioInv'
<1>0. /\ TypeOK /\ MemoryOK /\ ChainsInRings /\ QueueReady /\ ImageGrows /\ Hung
      /\ PlicProgrammed /\ Announced
  BY DEF VirtioInv
<1>1. /\ busy /\ crashed' = TRUE
      /\ UNCHANGED <<ready, size, cursor, interrupt_status, queue_sel, busy, disk,
                     memory, guest, plicVars>>
      /\ size = 0 \/ ~Readable(req[vq_ring_next], req[vq_ring_next].len)
  BY DEF blk_handle_request_stuck
<1>2. size = QueueSize /\ size > 0
  BY <1>0, <1>1, Sizes DEF QueueReady
<1>3. vq_ring_next' = vq_ring_next /\ req' = req /\ vq_ring_next \in Heads
  <2>1. cursor % QueueSize \in Slots
    BY <1>0, TypesOfRings, SlotIn
  <2> QED
    BY <1>0, <1>1, <1>2, <2>1, TypesOfRings DEF vq_ring_next, memory
<1> DEFINE r == req[vq_ring_next]
<1>4. r \in Requests \cup {NoRequest}
  BY <1>0, <1>3 DEF MemoryOK
<1>5. r.type = "in" /\ r.sector + r.len > Capacity
  <2>1. r.type = "in" /\ \E s \in Moved(r, r.len) : disk[s] = Absent
    BY <1>1, <1>2, Sizes DEF Readable
  <2>2. PICK s \in Moved(r, r.len) : disk[s] = Absent
    BY <2>1
  <2>3. /\ r.sector \in Nat /\ r.len \in Nat /\ r.sector + r.len <= MaxSectors
        /\ MaxSectors \in Nat /\ Capacity \in Nat
    BY <1>4, RequestTypes, VirtioAssumption
  <2> HIDE DEF r
  <2>4. s \in Sectors /\ s < r.sector + r.len /\ s \in Nat
    BY <2>2, <2>3 DEF Moved, Sectors
  <2>5. ~(s < Capacity)
    BY <1>0, <2>2, <2>4 DEF ImageGrows
  <2> QED
    BY <2>1, <2>3, <2>4, <2>5
<1>6. StuckOnlyPastCapacity'
  BY <1>1, <1>2, <1>3, <1>5 DEF StuckOnlyPastCapacity
<1>7. P!TypeOK' /\ PlicProgrammed'
  BY <1>0, <1>1, PlicUnchanged DEF TypeOK, guest
<1>8. ChainsInRings' /\ MemoryOK'
  BY <1>0, <1>1, RingsUnchanged DEF ringVars, memory, guest
<1>9. TypeOK'
  BY <1>0, <1>1, <1>7 DEF TypeOK, memory, guest
<1>10. QueueReady' /\ ImageGrows' /\ Hung' /\ Announced'
  BY <1>0, <1>1 DEF QueueReady, ImageGrows, Hung, Announced, memory, guest, plicVars
<1> QED
  BY <1>6, <1>7, <1>8, <1>9, <1>10 DEF VirtioInv

(* A step of the PLIC alone keeps its registers in range and the wire      *)
(* right.                                                                  *)
LEMMA PlicStep ==
    ASSUME P!TypeOK,
           \/ P!plic_set_pending(VIRTIO_IRQ) \/ P!plic_claim(P!PLIC_CTX_S, VIRTIO_IRQ)
           \/ P!plic_complete(VIRTIO_IRQ) \/ P!WritePriority(VIRTIO_IRQ, 1)
           \/ P!WriteEnable(P!PLIC_CTX_S, {VIRTIO_IRQ})
    PROVE  P!TypeOK' /\ P!SeipIffEligible'
<1> USE DEF P!TypeOK, P!SeipIffEligible, P!plic_update_seip
<1>1. CASE P!plic_set_pending(VIRTIO_IRQ)
  BY <1>1 DEF P!plic_set_pending
<1>2. CASE P!plic_claim(P!PLIC_CTX_S, VIRTIO_IRQ)
  BY <1>2 DEF P!plic_claim, P!IsBest, P!Eligible
<1>3. CASE P!plic_complete(VIRTIO_IRQ)
  BY <1>3 DEF P!plic_complete
<1>4. CASE P!WritePriority(VIRTIO_IRQ, 1)
  <2>1. 1 \in P!Levels
    BY DEF P!Levels
  <2> QED
    BY <1>4, <2>1 DEF P!WritePriority
<1>5. CASE P!WriteEnable(P!PLIC_CTX_S, {VIRTIO_IRQ})
  <2>1. {VIRTIO_IRQ} \in SUBSET P!Bits
    BY DEF P!Bits, VIRTIO_IRQ
  <2> QED
    BY <1>5, <2>1 DEF P!WriteEnable
<1> QED
  BY <1>1, <1>2, <1>3, <1>4, <1>5

(* The end of blk_notify announces what was answered.                      *)
LEMMA NotifyGuestKeepsInv ==
    ASSUME VirtioInv, virtio_notify_guest
    PROVE  VirtioInv'
<1>0. /\ TypeOK /\ MemoryOK /\ ChainsInRings /\ QueueReady /\ ImageGrows /\ Hung
      /\ PlicProgrammed /\ Announced
  BY DEF VirtioInv
<1>1. /\ busy /\ ~crashed /\ driver = "idle" /\ interrupt_status' = 1 /\ busy' = FALSE
      /\ P!plic_set_pending(VIRTIO_IRQ)
      /\ UNCHANGED <<ready, size, cursor, queue_sel, crashed, disk, memory, guest>>
  BY <1>0 DEF virtio_notify_guest, QueueReady
<1>2. P!TypeOK' /\ P!SeipIffEligible'
  BY <1>0, <1>1, PlicStep DEF TypeOK
<1>3. PlicProgrammed'
  BY <1>0, <1>1, <1>2 DEF PlicProgrammed, P!plic_set_pending, guest
<1>4. ChainsInRings' /\ MemoryOK'
  BY <1>0, <1>1, RingsUnchanged DEF ringVars, memory, guest
<1>5. TypeOK'
  BY <1>0, <1>1, <1>2 DEF TypeOK, memory, guest
<1>6. Announced'
  BY <1>1 DEF Announced, P!plic_set_pending, guest
<1>7. QueueReady' /\ ImageGrows' /\ Hung' /\ StuckOnlyPastCapacity'
  BY <1>0, <1>1 DEF QueueReady, ImageGrows, Hung, StuckOnlyPastCapacity, memory, guest
<1> QED
  BY <1>3, <1>4, <1>5, <1>6, <1>7 DEF VirtioInv

(* A reset starts over with empty rings.                                   *)
LEMMA ResetKeepsInv ==
    ASSUME VirtioInv, ResetDevice
    PROVE  VirtioInv'
<1>0. /\ TypeOK /\ MemoryOK /\ ChainsInRings /\ QueueReady /\ ImageGrows /\ Hung
      /\ PlicProgrammed /\ Announced
  BY DEF VirtioInv
<1>1. /\ ~busy /\ driver = "idle" /\ driver' = "off" /\ ready' = FALSE /\ size' = 0
      /\ cursor' = 0 /\ interrupt_status' = 0 /\ avail_idx' = 0 /\ used_idx' = 0
      /\ last_used' = 0 /\ inflight' = {}
      /\ avail_ring' = [slot \in Slots |-> 0] /\ used_ring' = [slot \in Slots |-> 0]
      /\ req' = [head \in Heads |-> NoRequest]
      /\ data' = [head \in Heads |-> <<>>] /\ stat' = [head \in Heads |-> "none"]
      /\ UNCHANGED <<queue_sel, busy, crashed, disk, plicVars>>
  BY DEF ResetDevice, At, WriteStatusReset
<1>2. 0 \in Idx /\ 0 \in Heads
  BY Sizes DEF Heads
<1>3. P!TypeOK' /\ PlicProgrammed'
  BY <1>0, <1>1, PlicUnchanged DEF TypeOK, InHandler
<1>4. TypeOK' /\ MemoryOK'
  BY <1>0, <1>1, <1>2, <1>3 DEF TypeOK, MemoryOK
<1>5. ChainsInRings'
  <2>1. NumWaiting' = 0 /\ NumAnswered' = 0
    BY <1>1, <1>2, Empty DEF NumWaiting, NumAnswered
  <2>2. Cardinality(inflight') = 0
    BY <1>1, FS_EmptySet
  <2> QED
    BY <1>1, <2>1, <2>2 DEF ChainsInRings
<1>6. QueueReady' /\ ImageGrows' /\ Hung' /\ StuckOnlyPastCapacity' /\ Announced'
  BY <1>0, <1>1 DEF QueueReady, ImageGrows, Hung, StuckOnlyPastCapacity, Announced, InHandler
<1> QED
  BY <1>3, <1>4, <1>5, <1>6 DEF VirtioInv

(* The driver's steps that touch the registers of the device or nothing.   *)
LEMMA RegisterStepKeepsInv ==
    ASSUME VirtioInv,
           \/ SetupSel \/ SetupNum \/ SetupReady \/ Notify
           \/ Acknowledge \/ Collected \/ UNCHANGED vars
    PROVE  VirtioInv'
<1>0. /\ TypeOK /\ MemoryOK /\ ChainsInRings /\ QueueReady /\ ImageGrows /\ Hung
      /\ StuckOnlyPastCapacity /\ PlicProgrammed /\ Announced
  BY DEF VirtioInv
<1>1. UNCHANGED <<ringVars, data, stat, crashed, disk, plicVars>>
  BY DEF SetupSel, SetupNum, SetupReady, Notify, Acknowledge, Collected, vars, device,
     memory, guest, plicVars, ringVars, WriteQueueSel, WriteQueueNum, WriteQueueReady,
     WriteQueueNotify, WriteInterruptAck
<1>2. ChainsInRings' /\ MemoryOK'
  BY <1>0, <1>1, RingsUnchanged
<1>3. /\ ready' \in BOOLEAN /\ size' \in {0, QueueSize} /\ busy' \in BOOLEAN
      /\ interrupt_status' \in {0, 1} /\ queue_sel' = 0
      /\ driver' \in {"boot", "boot2", "off", "num", "ready", "idle", "claimed", "collect", "done"}
  BY <1>0 DEF TypeOK, SetupSel, SetupNum, SetupReady, Notify, Acknowledge, Collected, vars, device,
     guest, At, WriteQueueSel, WriteQueueNum, WriteQueueReady, WriteQueueNotify, WriteInterruptAck
<1>4. P!TypeOK' /\ PlicProgrammed'
  <2>1. /\ driver' \in InHandler <=> driver \in InHandler
        /\ driver' # driver => driver \notin {"boot", "boot2"}
    BY DEF SetupSel, SetupNum, SetupReady, Notify, Acknowledge, Collected, At, vars, guest, InHandler
  <2> QED
    BY <1>0, <1>1, <2>1, PlicUnchanged DEF TypeOK
<1>5. TypeOK'
  BY <1>0, <1>1, <1>3, <1>4 DEF TypeOK, ringVars
<1>6. QueueReady'
  <2> USE <1>0 DEF QueueReady, InHandler, At
  <2>1. CASE SetupSel \/ Collected \/ Acknowledge
    BY <2>1 DEF SetupSel, Collected, Acknowledge, device, WriteQueueSel, WriteInterruptAck
  <2>2. CASE SetupNum
    BY <2>2 DEF TypeOK, SetupNum, WriteQueueNum
  <2>3. CASE SetupReady
    BY <2>3 DEF TypeOK, SetupReady, WriteQueueReady
  <2>4. CASE Notify
    BY <2>4 DEF Notify, WriteQueueNotify
  <2>5. CASE UNCHANGED vars
    BY <2>5 DEF vars, guest, device
  <2> QED
    BY <2>1, <2>2, <2>3, <2>4, <2>5
<1>7. ImageGrows'
  BY <1>0, <1>1 DEF ImageGrows
<1>8. Hung' /\ StuckOnlyPastCapacity'
  <2>1. CASE UNCHANGED vars
    BY <1>0, <2>1 DEF Hung, StuckOnlyPastCapacity, vq_ring_next, vars, device, memory
  <2>2. CASE ~busy
    BY <1>0, <1>1, <2>2 DEF Hung, StuckOnlyPastCapacity
  <2> QED
    BY <2>1, <2>2 DEF SetupSel, SetupNum, SetupReady, Notify, Acknowledge, Collected, At
<1>9. Announced'
  BY <1>0, <1>1 DEF Announced, QueueReady, InHandler, ringVars, plicVars, SetupSel, SetupNum,
     SetupReady, Notify, Acknowledge, Collected, At, vars, guest, device, WriteQueueSel,
     WriteQueueNum, WriteQueueReady, WriteQueueNotify, WriteInterruptAck
<1> QED
  BY <1>2, <1>4, <1>5, <1>6, <1>7, <1>8, <1>9 DEF VirtioInv

(* The driver's steps at the PLIC, and NotMine.                            *)
LEMMA PlicStepKeepsInv ==
    ASSUME VirtioInv,
           SetupPlicPriority \/ SetupPlicEnable \/ Claim \/ NotMine \/ Complete
    PROVE  VirtioInv'
<1>0. /\ TypeOK /\ MemoryOK /\ ChainsInRings /\ QueueReady /\ ImageGrows /\ Hung
      /\ StuckOnlyPastCapacity /\ PlicProgrammed /\ Announced
  BY DEF VirtioInv
<1>1. ~busy /\ UNCHANGED <<device, memory, inflight, last_used>>
  BY DEF SetupPlicPriority, SetupPlicEnable, Claim, NotMine, Complete, At
<1>2. ChainsInRings' /\ MemoryOK'
  BY <1>0, <1>1, RingsUnchanged DEF ringVars, device, memory
<1>3. P!TypeOK' /\ PlicProgrammed'
  <2>1. P!TypeOK
    BY <1>0 DEF TypeOK
  <2>2. CASE SetupPlicPriority
    BY <1>0, <2>1, <2>2, PlicStep
    DEF SetupPlicPriority, At, PlicProgrammed, P!WritePriority, P!TypeOK, P!Bits, VIRTIO_IRQ, InHandler
  <2>3. CASE SetupPlicEnable
    BY <1>0, <2>1, <2>3, PlicStep
    DEF SetupPlicEnable, At, PlicProgrammed, P!WriteEnable, P!TypeOK, P!Contexts, InHandler
  <2>4. CASE Claim
    BY <1>0, <2>1, <2>4, PlicStep DEF Claim, At, PlicProgrammed, P!plic_claim, InHandler
  <2>5. CASE NotMine
    BY <1>0, <2>1, <2>5, PlicUnchanged DEF NotMine, At, InHandler
  <2>6. CASE Complete
    BY <1>0, <2>1, <2>6, PlicStep DEF Complete, At, PlicProgrammed, P!plic_complete, InHandler
  <2> QED
    BY <2>2, <2>3, <2>4, <2>5, <2>6
<1>4. driver' \in {"boot2", "off", "idle", "claimed", "done"}
  BY DEF SetupPlicPriority, SetupPlicEnable, Claim, NotMine, Complete, At
<1>5. TypeOK'
  BY <1>0, <1>1, <1>3, <1>4 DEF TypeOK, device, memory
<1>6. QueueReady'
  BY <1>0, <1>1 DEF QueueReady, SetupPlicPriority, SetupPlicEnable, Claim, NotMine, Complete, At,
     device, InHandler
<1>7. ImageGrows' /\ Hung' /\ StuckOnlyPastCapacity'
  BY <1>0, <1>1 DEF ImageGrows, Hung, StuckOnlyPastCapacity, device
<1>8. Announced'
  BY <1>0, <1>1 DEF Announced, SetupPlicPriority, SetupPlicEnable, Claim, NotMine, Complete, At,
     device, memory
<1> QED
  BY <1>2, <1>3, <1>5, <1>6, <1>7, <1>8 DEF VirtioInv

(* Collecting an answer keeps the invariant.                               *)
LEMMA CollectKeepsInv ==
    ASSUME VirtioInv, Collect
    PROVE  VirtioInv'
<1>0. /\ TypeOK /\ MemoryOK /\ ChainsInRings /\ QueueReady /\ ImageGrows /\ Hung
      /\ StuckOnlyPastCapacity /\ PlicProgrammed /\ Announced
  BY DEF VirtioInv
<1>1. /\ ~busy /\ driver = "collect" /\ driver' = "collect" /\ last_used' = Inc(last_used)
      /\ inflight' \subseteq inflight
      /\ UNCHANGED <<device, memory, plicVars>>
  BY DEF Collect, At
<1>2. ChainsInRings'
  BY <1>0, CollectKeepsChains
<1>3. P!TypeOK' /\ PlicProgrammed'
  BY <1>0, <1>1, PlicUnchanged DEF TypeOK
<1>4. last_used' \in Idx
  BY <1>0, <1>1, TypesOfRings, IncIs
<1>5. TypeOK' /\ MemoryOK'
  BY <1>0, <1>1, <1>3, <1>4 DEF TypeOK, MemoryOK, device, memory
<1>6. QueueReady' /\ ImageGrows' /\ Hung' /\ StuckOnlyPastCapacity' /\ Announced'
  BY <1>0, <1>1 DEF QueueReady, ImageGrows, Hung, StuckOnlyPastCapacity, Announced, device
<1> QED
  BY <1>2, <1>3, <1>5, <1>6 DEF VirtioInv

(* Submitting a request keeps the invariant.                               *)
LEMMA SubmitKeepsInv ==
    ASSUME VirtioInv, NEW head \in Heads, NEW r \in Requests, Submit(head, r)
    PROVE  VirtioInv'
<1>0. /\ TypeOK /\ MemoryOK /\ ChainsInRings /\ QueueReady /\ ImageGrows /\ Hung
      /\ StuckOnlyPastCapacity /\ PlicProgrammed /\ Announced
  BY DEF VirtioInv
<1>1. /\ ~busy /\ driver = "idle" /\ driver' = "idle" /\ inflight' = inflight \cup {head}
      /\ req' = [req EXCEPT ![head] = r]
      /\ avail_ring' = [avail_ring EXCEPT ![avail_idx % QueueSize] = head]
      /\ avail_idx' = Inc(avail_idx)
      /\ UNCHANGED <<device, used_idx, used_ring, data, stat, last_used, plicVars>>
  BY DEF Submit, At
<1>2. ChainsInRings'
  BY <1>0, SubmitKeepsChains
<1>3. P!TypeOK' /\ PlicProgrammed'
  BY <1>0, <1>1, PlicUnchanged DEF TypeOK
<1>4. avail_idx' \in Idx /\ avail_ring' \in [Slots -> Heads] /\ inflight' \in SUBSET Heads
  BY <1>0, <1>1, TypesOfRings, IncIs
<1>5. MemoryOK' /\ DOMAIN req' = Heads
  BY <1>0, <1>1 DEF MemoryOK
<1>6. TypeOK'
  BY <1>0, <1>1, <1>3, <1>4, <1>5 DEF TypeOK, device
<1>7. QueueReady' /\ ImageGrows' /\ Hung' /\ StuckOnlyPastCapacity' /\ Announced'
  BY <1>0, <1>1 DEF QueueReady, ImageGrows, Hung, StuckOnlyPastCapacity, Announced, device, plicVars
<1> QED
  BY <1>2, <1>3, <1>5, <1>6, <1>7 DEF VirtioInv

(* Initially the rings are empty and the queue is not ready.               *)
LEMMA InitInv == Init => VirtioInv
<1> SUFFICES ASSUME Init PROVE VirtioInv
  OBVIOUS
<1>1. 0 \in Idx /\ 0 \in Heads /\ 0 \in Values /\ 0 # Absent
  BY Sizes, VirtioAssumption DEF Heads, Absent
<1>2. P!TypeOK
  <2>1. 0 \in P!Levels
    BY DEF P!Levels
  <2> QED
    BY <2>1 DEF Init, P!Init, P!TypeOK
<1>3. PlicProgrammed
  BY DEF Init, P!Init, PlicProgrammed, P!SeipIffEligible, P!Eligible, P!PLIC_CTX_S, P!Contexts, InHandler
<1>4. TypeOK /\ MemoryOK
  BY <1>1, <1>2 DEF Init, TypeOK, MemoryOK
<1>5. ChainsInRings
  <2>1. NumWaiting = 0 /\ NumAnswered = 0
    BY <1>1, Empty DEF Init, NumWaiting, NumAnswered
  <2>2. Cardinality(inflight) = 0
    BY FS_EmptySet DEF Init
  <2> QED
    BY <2>1, <2>2 DEF Init, ChainsInRings
<1>6. QueueReady /\ ImageGrows /\ Hung /\ StuckOnlyPastCapacity /\ Announced
  BY <1>1 DEF Init, QueueReady, ImageGrows, Hung, StuckOnlyPastCapacity, Announced, InHandler
<1> QED
  BY <1>3, <1>4, <1>5, <1>6 DEF VirtioInv

(* VirtioInv is an invariant of device, rings, driver and PLIC together.   *)
THEOREM VirtioInvariant == Spec => []VirtioInv
<1>1. VirtioInv /\ [Next]_vars => VirtioInv'
  <2> SUFFICES ASSUME VirtioInv, [Next]_vars PROVE VirtioInv'
    OBVIOUS
  <2> QED
    BY ServeKeepsInv, StuckKeepsInv, NotifyGuestKeepsInv, ResetKeepsInv, RegisterStepKeepsInv,
     PlicStepKeepsInv, CollectKeepsInv, SubmitKeepsInv
  DEF Next, Device, Handler, Stuck
<1> QED
  BY <1>1, InitInv, PTL DEF Spec

(* Registers, ring indices, disk contents and driver state stay in range.  *)
THEOREM TypeCorrect == Spec => []TypeOK
<1>1. VirtioInv => TypeOK
  BY DEF VirtioInv
<1> QED
  BY <1>1, VirtioInvariant, PTL

(* The rings are never overrun, whatever the size of the queue and         *)
(* wherever the 16-bit indices wrap: vq_ring_post never overwrites an      *)
(* answer that was not collected.                                          *)
THEOREM RingsNeverOverrun == Spec => []RingsBounded
<1>1. VirtioInv => RingsBounded
  <2> SUFFICES ASSUME VirtioInv PROVE RingsBounded
    OBVIOUS
  <2>1. cursor = used_idx /\ NumWaiting + NumAnswered <= QueueSize
    BY RingsFit DEF VirtioInv, ChainsInRings
  <2>2. NumWaiting \in Nat /\ NumAnswered \in Nat
    BY TypesOfRings DEF VirtioInv
  <2>3. NumAnswered + NumWaiting <= QueueSize
    BY <2>1, <2>2
  <2> QED
    BY <2>1, <2>3 DEF RingsBounded, NumWaiting, NumAnswered
<1> QED
  BY <1>1, VirtioInvariant, PTL

(* blk_notify hangs only in blk_do_read past the capacity at start-up, and *)
(* never divides by a queue size of 0.                                     *)
THEOREM HangsOnlyPastCapacity == Spec => []StuckOnlyPastCapacity
<1>1. VirtioInv => StuckOnlyPastCapacity
  BY DEF VirtioInv
<1> QED
  BY <1>1, VirtioInvariant, PTL

(* virtio_notify_guest loses no completion: a driver that waits with an    *)
(* answer uncollected sees the interrupt and the status bit.               *)
THEOREM CompletionsAnnounced == Spec => []NoLostCompletion
<1>1. VirtioInv => NoLostCompletion
  <2> SUFFICES ASSUME VirtioInv, driver = "idle", ~busy, used_idx # last_used
               PROVE  seip /\ interrupt_status = 1
    BY DEF NoLostCompletion
  <2>1. VIRTIO_IRQ \in pending /\ interrupt_status = 1
    BY DEF VirtioInv, Announced
  <2>2. /\ enable[P!PLIC_CTX_S] = {VIRTIO_IRQ} /\ claimed = {}
        /\ priority[VIRTIO_IRQ] > threshold[P!PLIC_CTX_S]
    BY DEF VirtioInv, PlicProgrammed, InHandler
  <2>3. VIRTIO_IRQ \in P!Eligible(P!PLIC_CTX_S)
    BY <2>1, <2>2 DEF P!Eligible, P!Sources, VIRTIO_IRQ
  <2> QED
    BY <2>1, <2>3 DEF VirtioInv, PlicProgrammed, P!SeipIffEligible
<1> QED
  BY <1>1, VirtioInvariant, PTL

-----------------------------------------------------------------------------
(* s is a sequence of length n.                                            *)
HasLength(s, n) == n \in Nat /\ s = [i \in 1 .. n |-> s[i]]

(* Sequences given element by element.                                     *)
LEMMA IsSeq ==
    ASSUME NEW s, NEW n, HasLength(s, n), NEW S, \A i \in 1 .. n : s[i] \in S
    PROVE  s \in Seq(S) /\ Len(s) = n
BY DEF HasLength

(* A sequence with one element more at the end.                            *)
LEMMA AppendIs ==
    ASSUME NEW s, NEW n, HasLength(s, n), NEW t, HasLength(t, n + 1), NEW e,
           \A i \in 1 .. n : t[i] = s[i], t[n + 1] = e
    PROVE  t = Append(s, e)
<1> DEFINE S == {s[i] : i \in 1 .. n} \cup {e}
<1>1. n \in Nat /\ \A i \in 1 .. (n + 1) : i \in 1 .. n \/ i = n + 1
  BY DEF HasLength
<1>2. e \in S /\ (\A i \in 1 .. n : s[i] \in S) /\ (\A i \in 1 .. (n + 1) : t[i] \in S)
  BY <1>1
<1> HIDE DEF S
<1>3. s \in Seq(S) /\ Len(s) = n /\ t \in Seq(S) /\ Len(t) = n + 1
  BY <1>2, IsSeq
<1>4. /\ Append(s, e) \in Seq(S) /\ Len(Append(s, e)) = n + 1
      /\ \A i \in 1 .. n : Append(s, e)[i] = s[i]
      /\ Append(s, e)[n + 1] = e
  BY <1>1, <1>2, <1>3, AppendProperties
<1>5. \A i \in 1 .. (n + 1) : t[i] = Append(s, e)[i]
  BY <1>1, <1>4
<1> QED
  BY <1>3, <1>4, <1>5, SeqEqual

(* A sequence without its first element.                                   *)
LEMMA TailIs ==
    ASSUME NEW s, NEW n, HasLength(s, n), n # 0, NEW t, HasLength(t, n - 1),
           \A i \in 1 .. (n - 1) : t[i] = s[i + 1]
    PROVE  t = Tail(s) /\ Head(s) = s[1] /\ s # <<>>
<1> DEFINE S == {s[i] : i \in 1 .. n}
<1>1. n \in Nat \ {0} /\ \A i \in 1 .. (n - 1) : i + 1 \in 1 .. n
  BY DEF HasLength
<1>2. (\A i \in 1 .. n : s[i] \in S) /\ (\A i \in 1 .. (n - 1) : t[i] \in S)
  BY <1>1
<1> HIDE DEF S
<1>3. s \in Seq(S) /\ Len(s) = n /\ t \in Seq(S) /\ Len(t) = n - 1
  BY <1>2, IsSeq
<1>4. s # <<>> /\ Head(s) = s[1]
  BY <1>1, <1>3
<1>5. /\ Tail(s) \in Seq(S) /\ Len(Tail(s)) = n - 1
      /\ \A i \in 1 .. (n - 1) : Tail(s)[i] = s[i + 1]
  BY <1>1, <1>3, <1>4, HeadTailProperties
<1>6. \A i \in 1 .. (n - 1) : t[i] = Tail(s)[i]
  BY <1>5
<1> QED
  BY <1>3, <1>4, <1>5, <1>6, SeqEqual

(* The sequences of the server, entry by entry.                            *)
LEMMA SequencesAre ==
    /\ WaitingRequests = [i \in 1 .. NumWaiting |-> [head |-> Waiting(i), req |-> req[Waiting(i)]]]
    /\ WaitingAnswers = [i \in 1 .. NumAnswered |->
           [head |-> Answered(i), status |-> stat[Answered(i)], data |-> data[Answered(i)]]]
    /\ WaitingRequests' = [i \in 1 .. NumWaiting' |->
           [head |-> Waiting(i)', req |-> req'[Waiting(i)']]]
    /\ WaitingAnswers' = [i \in 1 .. NumAnswered' |->
           [head |-> Answered(i)', status |-> stat'[Answered(i)'], data |-> data'[Answered(i)']]]
BY DEF WaitingRequests, WaitingAnswers, NumWaiting, NumAnswered, Waiting, Answered

(* Submit of the driver is Submit of the server.                           *)
LEMMA SubmitImplements ==
    ASSUME VirtioInv, NEW head \in Heads, NEW r \in Requests, Submit(head, r)
    PROVE  B!Submit(head, r)
<1>1. TypeOK /\ ChainsInRings /\ NumWaiting \in Nat /\ NumAnswered \in Nat
  BY TypesOfRings DEF VirtioInv
<1>2. /\ head \notin inflight /\ req' = [req EXCEPT ![head] = r] /\ DOMAIN req = Heads
      /\ UNCHANGED <<disk, stat, data>>
  BY <1>1 DEF Submit, device, TypeOK
<1> DEFINE s == WaitingRequests
           t == WaitingRequests'
<1>3. HasLength(s, NumWaiting) /\ HasLength(t, NumWaiting + 1)
  BY <1>1, SequencesAre, SubmitEffect DEF HasLength
<1>4. ASSUME NEW i \in 1 .. NumWaiting PROVE t[i] = s[i]
  <2>1. i \in 1 .. NumWaiting' /\ Waiting(i)' = Waiting(i)
    BY <1>1, SubmitEffect
  <2>2. Waiting(i) \in inflight
    BY <1>1 DEF ChainsInRings
  <2>3. req'[Waiting(i)] = req[Waiting(i)]
    BY <1>1, <1>2, <2>2, TypesOfRings
  <2> QED
    BY <2>1, <2>3, SequencesAre
<1>5. t[NumWaiting + 1] = [head |-> head, req |-> r]
  <2> SUFFICES ASSUME NEW i \in Nat, i = NumWaiting + 1
               PROVE  t[i] = [head |-> head, req |-> r]
    BY <1>1
  <2>1. i \in 1 .. NumWaiting' /\ Waiting(i)' = head
    BY <1>1, SubmitEffect
  <2>2. req'[head] = r
    BY <1>2
  <2> QED
    BY <2>1, <2>2, SequencesAre
<1>6. t = Append(s, [head |-> head, req |-> r])
  <2> HIDE DEF s, t
  <2> QED
    BY <1>3, <1>4, <1>5, AppendIs
<1>7. WaitingAnswers' = WaitingAnswers
  <2>1. NumAnswered' = NumAnswered /\ \A i \in 1 .. NumAnswered : Answered(i)' = Answered(i)
    BY <1>1, SubmitEffect
  <2> QED
    BY <1>2, <2>1, SequencesAre
<1> QED
  BY <1>2, <1>6, <1>7 DEF B!Submit

(* The transfer loops of the device compute what the server promises.      *)
LEMMA TransferImplements ==
    ASSUME disk \in [Sectors -> Values \cup {Absent}],
           NEW r \in Requests \cup {NoRequest}, NEW n \in 0 .. r.len
    PROVE  /\ Transfer(r, n).disk = B!Written(r, n)
           /\ Transfer(r, n).data = B!DataRead(r, n)
           /\ Transfer(r, n).status = B!Outcome(r, n)
<1>1. r.type \in {"in", "out", "id", "bad"} /\ r.len \in Nat /\ (n = r.len <=> ~(n < r.len))
  BY RequestTypes
<1>2. blk_do_write(r, n) = [s \in Sectors |-> IF s \in B!Moved(r, n) THEN r.value
                                 ELSE IF s \in B!Skipped(r, n) THEN 0 ELSE disk[s]]
  BY DEF blk_do_write, Moved, B!Moved, B!Skipped, B!Sectors, B!Absent, Sectors, Absent
<1>3. CASE r.type = "in"
  BY <1>1, <1>3 DEF Transfer, B!Written, B!DataRead, B!Outcome, blk_do_read
<1>4. CASE r.type = "out"
  <2>1. Transfer(r, n).disk = B!Written(r, n)
    BY <1>2, <1>4 DEF Transfer, B!Written, B!Sectors, Sectors
  <2> QED
    BY <1>1, <1>4, <2>1 DEF Transfer, B!DataRead, B!Outcome
<1>5. CASE r.type = "id"
  BY <1>1, <1>5 DEF Transfer, B!Written, B!DataRead, B!Outcome
<1>6. CASE r.type = "bad"
  BY <1>1, <1>6 DEF Transfer, B!Written, B!DataRead, B!Outcome
<1> QED
  BY <1>1, <1>3, <1>4, <1>5, <1>6

(* A round of blk_notify is Serve of the server.                           *)
LEMMA ServeImplements ==
    ASSUME VirtioInv, blk_handle_request
    PROVE  \E n \in 0 .. MaxSectors : B!Serve(n)
<1>1. /\ TypeOK /\ MemoryOK /\ ChainsInRings /\ size = QueueSize
      /\ DOMAIN stat = Heads /\ DOMAIN data = Heads
      /\ disk \in [Sectors -> Values \cup {Absent}]
  BY DEF VirtioInv, QueueReady, blk_handle_request, TypeOK
<1>2. /\ NumWaiting \in Nat \ {0} /\ NumAnswered \in Nat /\ 1 \in 1 .. NumWaiting
      /\ Waiting(1) \in Heads
  BY <1>1, ServeEffect, TypesOfRings
<1> DEFINE h == Waiting(1)
           r == req[Waiting(1)]
<1>3. r \in Requests \cup {NoRequest}
  BY <1>1, <1>2 DEF MemoryOK
<1>4. PICK n \in 0 .. r.len :
         /\ Readable(r, n)
         /\ data' = [data EXCEPT ![h] = Transfer(r, n).data]
         /\ disk' = Transfer(r, n).disk
         /\ stat' = [stat EXCEPT ![h] = Transfer(r, n).status]
  BY <1>1, ServeEffect DEF blk_handle_request
<1>5. /\ disk' = B!Written(r, n)
      /\ data' = [data EXCEPT ![h] = B!DataRead(r, n)]
      /\ stat' = [stat EXCEPT ![h] = B!Outcome(r, n)]
  BY <1>1, <1>3, <1>4, TransferImplements
<1>6. n \in 0 .. MaxSectors /\ n <= r.len
  <2>1. r.sector \in Nat /\ r.len \in Nat /\ r.sector + r.len <= MaxSectors /\ MaxSectors \in Nat
    BY <1>3, RequestTypes, VirtioAssumption
  <2> HIDE DEF r
  <2> QED
    BY <2>1
<1>7. UNCHANGED req
  BY DEF blk_handle_request
<1> DEFINE s == WaitingRequests
           t == WaitingRequests'
           u == WaitingAnswers
           v == WaitingAnswers'
           e == [head |-> h, status |-> B!Outcome(r, n), data |-> B!DataRead(r, n)]
<1>8. s # <<>> /\ Head(s) = [head |-> h, req |-> r] /\ t = Tail(s)
  <2>1. HasLength(s, NumWaiting) /\ HasLength(t, NumWaiting - 1)
    BY <1>1, <1>2, SequencesAre, ServeEffect DEF HasLength
  <2>2. ASSUME NEW i \in 1 .. (NumWaiting - 1) PROVE t[i] = s[i + 1]
    <3>1. i \in 1 .. NumWaiting' /\ i \in Nat /\ i + 1 \in 1 .. NumWaiting
      BY <1>1, <1>2, ServeEffect
    <3>2. Waiting(i)' = Waiting(i + 1)
      BY <1>1, <3>1, ServeEffect
    <3> QED
      BY <1>7, <3>1, <3>2, SequencesAre
  <2>3. s[1] = [head |-> h, req |-> r]
    BY <1>2, SequencesAre
  <2> HIDE DEF s, t, h, r
  <2> QED
    BY <1>2, <2>1, <2>2, <2>3, TailIs
<1>9. v = Append(u, e)
  <2>1. HasLength(u, NumAnswered) /\ HasLength(v, NumAnswered + 1)
    BY <1>1, <1>2, SequencesAre, ServeEffect DEF HasLength
  <2>2. ASSUME NEW i \in 1 .. NumAnswered PROVE v[i] = u[i]
    <3>1. i \in 1 .. NumAnswered' /\ Answered(i)' = Answered(i)
      BY <1>1, <1>2, ServeEffect
    <3>2. Answered(i) # h /\ Answered(i) \in Heads
      BY <1>1, <1>2, TypesOfRings DEF ChainsInRings
    <3>3. stat'[Answered(i)] = stat[Answered(i)] /\ data'[Answered(i)] = data[Answered(i)]
      BY <1>1, <1>5, <3>2
    <3> QED
      BY <3>1, <3>3, SequencesAre
  <2>3. v[NumAnswered + 1] = e
    <3> SUFFICES ASSUME NEW i \in Nat, i = NumAnswered + 1 PROVE v[i] = e
      BY <1>2
    <3>1. i \in 1 .. NumAnswered' /\ Answered(i)' = h
      BY <1>1, <1>2, ServeEffect
    <3>2. stat'[h] = B!Outcome(r, n) /\ data'[h] = B!DataRead(r, n)
      BY <1>1, <1>2, <1>5
    <3> QED
      BY <3>1, <3>2, SequencesAre
  <2> HIDE DEF u, v, e
  <2> QED
    BY <2>1, <2>2, <2>3, AppendIs
<1>10. r.type = "in" => \A sector \in B!Moved(r, n) : disk[sector] # B!Absent
  BY <1>4 DEF Readable, Moved, B!Moved, Absent, B!Absent
<1>11. Head(s).req = r /\ Head(s).head = h
  BY <1>8
<1>12. B!Serve(n)
  BY <1>5, <1>6, <1>8, <1>9, <1>10, <1>11 DEF B!Serve
<1> QED
  BY <1>6, <1>12

(* Collect of the driver is Collect of the server.                         *)
LEMMA CollectImplements ==
    ASSUME VirtioInv, Collect
    PROVE  B!Collect
<1>1. /\ TypeOK /\ ChainsInRings /\ UNCHANGED <<disk, req, stat, data>>
  BY DEF VirtioInv, Collect, device, memory
<1>2. NumAnswered \in Nat \ {0} /\ NumWaiting \in Nat
  BY <1>1, CollectEffect, TypesOfRings
<1> DEFINE u == WaitingAnswers
           v == WaitingAnswers'
<1>3. u # <<>> /\ v = Tail(u)
  <2>1. HasLength(u, NumAnswered) /\ HasLength(v, NumAnswered - 1)
    BY <1>1, <1>2, SequencesAre, CollectEffect DEF HasLength
  <2>2. ASSUME NEW i \in 1 .. (NumAnswered - 1) PROVE v[i] = u[i + 1]
    <3>1. i \in 1 .. NumAnswered' /\ i \in Nat /\ i + 1 \in 1 .. NumAnswered
      BY <1>1, <1>2, CollectEffect
    <3>2. Answered(i)' = Answered(i + 1)
      BY <1>1, <3>1, CollectEffect
    <3> QED
      BY <1>1, <3>1, <3>2, SequencesAre
  <2> HIDE DEF u, v
  <2> QED
    BY <1>2, <2>1, <2>2, TailIs
<1>4. WaitingRequests' = WaitingRequests
  <2>1. NumWaiting' = NumWaiting /\ \A i \in 1 .. NumWaiting : Waiting(i)' = Waiting(i)
    BY <1>1, <1>2, CollectEffect
  <2> QED
    BY <1>1, <2>1, SequencesAre
<1> QED
  BY <1>1, <1>3, <1>4 DEF B!Collect

(* The virtqueue, the notify loop and the interrupt implement the block    *)
(* server, for every queue size, index width and request: each round of    *)
(* blk_notify is one atomic Serve, Submit, Collect and ResetDevice are the *)
(* operations of the same name, and everything else is internal.           *)
THEOREM VirtioImplementsServer == Spec => ServerSpec
<1>1. Init => B!Init
  <2> SUFFICES ASSUME Init PROVE B!Init
    OBVIOUS
  <2>1. NumWaiting = 0 /\ NumAnswered = 0
    BY Empty, Sizes DEF Init, NumWaiting, NumAnswered
  <2>2. WaitingRequests = <<>> /\ WaitingAnswers = <<>>
    BY <2>1, SequencesAre
  <2> QED
    BY <2>2 DEF Init, B!Init, Sectors, B!Sectors, Absent, B!Absent
<1>2. VirtioInv /\ [Next]_vars => [B!Next]_(B!vars)
  <2> SUFFICES ASSUME VirtioInv, [Next]_vars PROVE B!Next \/ UNCHANGED B!vars
    OBVIOUS
  <2>1. CASE \E head \in Heads, r \in Requests : Submit(head, r)
    BY <2>1, SubmitImplements DEF B!Next
  <2>2. CASE blk_handle_request
    BY <2>2, ServeImplements DEF B!Next
  <2>3. CASE Collect
    BY <2>3, CollectImplements DEF B!Next
  <2>4. CASE ResetDevice
    <3>1. NumWaiting' = 0 /\ NumAnswered' = 0
      BY <2>4, Empty, Sizes DEF ResetDevice, WriteStatusReset, NumWaiting, NumAnswered
    <3>2. WaitingRequests' = <<>> /\ WaitingAnswers' = <<>>
      BY <3>1, SequencesAre
    <3>3. B!Reset
      BY <2>4, <3>2 DEF B!Reset, ResetDevice, WriteStatusReset
    <3> QED
      BY <3>3 DEF B!Next
  <2>5. CASE UNCHANGED <<disk, cursor, last_used, memory>>
    BY <2>5 DEF B!vars, WaitingRequests, WaitingAnswers, memory
  <2>6. CASE \/ blk_handle_request_stuck \/ virtio_notify_guest
             \/ SetupPlicPriority \/ SetupPlicEnable \/ SetupSel \/ SetupNum \/ SetupReady
             \/ Notify \/ Claim \/ Acknowledge \/ NotMine \/ Collected \/ Complete
             \/ UNCHANGED vars
    <3>1. UNCHANGED <<disk, cursor, last_used, memory>>
      BY <2>6 DEF blk_handle_request_stuck, virtio_notify_guest, SetupPlicPriority,
         SetupPlicEnable, SetupSel, SetupNum, SetupReady, Notify, Claim, Acknowledge, NotMine,
         Collected, Complete, vars, device, guest, WriteQueueSel, WriteQueueNum,
         WriteQueueReady, WriteQueueNotify, WriteInterruptAck
    <3> QED
      BY <2>5, <3>1
  <2> QED
    BY <2>1, <2>2, <2>3, <2>4, <2>6 DEF Next, Device, Handler, Stuck
<1> QED
  BY <1>1, <1>2, VirtioInvariant, PTL DEF Spec, ServerSpec, B!Spec
=============================================================================
