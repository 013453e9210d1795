------------------------------- MODULE Virtio -------------------------------
(***************************************************************************)
(* The virtio-mmio transport of src/virtio.c with the block device of      *)
(* src/virtio_blk.c, the split virtqueue in guest memory, the PLIC, and a  *)
(* driver.                                                                 *)
(*                                                                         *)
(* A guest store to QUEUE_NOTIFY runs blk_notify to its end before the     *)
(* guest executes anything else.  Its loop is unrolled here into one step  *)
(* per request, during which (busy) the guest does not move.               *)
(*                                                                         *)
(* A descriptor chain (header, data, status) is named by its head; req,    *)
(* data and stat are the guest memory its three descriptors point to.      *)
(* Ring indices are counted modulo IdxMod, 2^16 in the code.               *)
(*                                                                         *)
(* The driver is external: Linux's virtio_ring and virtio_mmio, modelled   *)
(* by the stores and loads they make.                                      *)
(***************************************************************************)
EXTENDS Integers, Sequences

CONSTANTS IdxMod,      \* ring indices wrap at this number
          QueueSize,   \* the queue size the driver negotiates
          Capacity,    \* sectors of the disk image at start-up
          MaxSectors,  \* bound on the image, which writes may extend
          Values,      \* contents of a sector
          Requests     \* the requests the driver may make

ASSUME VirtioAssumption ==
    /\ IdxMod \in Nat /\ QueueSize \in 1 .. (IdxMod - 1) /\ IdxMod % QueueSize = 0
    /\ MaxSectors \in Nat /\ Capacity \in 0 .. MaxSectors
    /\ 0 \in Values /\ Values \subseteq Nat
    /\ Requests \subseteq [type : {"in", "out", "id", "bad"}, sector : Nat, len : Nat,
                           value : Values]
    /\ \A r \in Requests : r.sector + r.len <= MaxSectors

Idx     == 0 .. (IdxMod - 1)
Slots   == 0 .. (QueueSize - 1)
Heads   == Slots                    \* one chain per ring slot
Sectors == 0 .. (MaxSectors - 1)
Absent  == -1                       \* a sector past the end of the image
VIRTIO_IRQ == 2

VARIABLES
    ready, size, cursor,             \* s->vq
    interrupt_status, queue_sel,     \* of the slot
    busy, crashed,                   \* inside blk_notify; stuck or killed by a signal there
    disk,                            \* the disk image
    avail_idx, avail_ring, used_idx, used_ring, req, data, stat,   \* guest memory
    driver, inflight, last_used,     \* the driver's own state
    priority, pending, enable, threshold, claimed, seip            \* the PLIC

device   == <<ready, size, cursor, interrupt_status, queue_sel, busy, crashed, disk>>
memory   == <<avail_idx, avail_ring, used_idx, used_ring, req, data, stat>>
guest    == <<driver, inflight, last_used>>
plicVars == <<priority, pending, enable, threshold, claimed, seip>>
vars     == <<device, memory, guest, plicVars>>

P == INSTANCE Plic WITH NumSources <- 3, MaxLevel <- 1

NoRequest == [type |-> "bad", sector |-> 0, len |-> 0, value |-> 0]

Init ==
    /\ ready = FALSE /\ size = 0 /\ cursor = 0
    /\ interrupt_status = 0 /\ queue_sel = 0
    /\ busy = FALSE /\ crashed = FALSE
    /\ disk = [s \in Sectors |-> IF s < Capacity THEN 0 ELSE Absent]
    /\ avail_idx = 0 /\ avail_ring = [slot \in Slots |-> 0]
    /\ used_idx = 0 /\ used_ring = [slot \in Slots |-> 0]
    /\ req = [head \in Heads |-> NoRequest]
    /\ data = [head \in Heads |-> <<>>] /\ stat = [head \in Heads |-> "none"]
    /\ driver = "boot" /\ inflight = {} /\ last_used = 0
    /\ P!Init

-----------------------------------------------------------------------------
(* Mutant: the index is wider than sixteen bits.                           *)
Inc_NoWrap(idx) == idx + 1

(* Device: registers.                                                      *)
Inc(idx) == (idx + 1) % IdxMod

WriteQueueSel(value) ==
    /\ queue_sel' = value
    /\ UNCHANGED <<ready, size, cursor, interrupt_status, busy, crashed, disk, memory>>

(* Mutant: the test of queue_sel is inverted.                              *)
WriteQueueNum_OtherQueue(value) ==
    /\ size' = IF queue_sel # 0 THEN value ELSE size
    /\ UNCHANGED <<ready, cursor, interrupt_status, queue_sel, busy, crashed, disk, memory>>

WriteQueueNum(value) ==
    /\ size' = IF queue_sel = 0 THEN value ELSE size
    /\ UNCHANGED <<ready, cursor, interrupt_status, queue_sel, busy, crashed, disk, memory>>

WriteQueueReady(value) ==
    /\ ready' = IF queue_sel = 0 THEN value ELSE ready
    /\ UNCHANGED <<size, cursor, interrupt_status, queue_sel, busy, crashed, disk, memory>>

WriteInterruptAck ==
    /\ interrupt_status' = 0
    /\ UNCHANGED <<ready, size, cursor, queue_sel, busy, crashed, disk, memory>>

(* Mutant: the ring cursor survives the reset.                             *)
WriteStatusReset_KeepsCursor ==
    /\ ready' = FALSE /\ size' = 0
    /\ interrupt_status' = 0
    /\ UNCHANGED <<cursor, queue_sel, busy, crashed, disk>>

(* STATUS := 0.  The whole Virtqueue is cleared; queue_sel and the PLIC    *)
(* are not.                                                                *)
WriteStatusReset ==
    /\ ready' = FALSE /\ size' = 0 /\ cursor' = 0
    /\ interrupt_status' = 0
    /\ UNCHANGED <<queue_sel, busy, crashed, disk>>

-----------------------------------------------------------------------------
(* Device: blk_notify.                                                     *)
vq_ring_has_next == cursor # avail_idx

WriteQueueNotify ==
    /\ busy' = ready
    /\ UNCHANGED <<ready, size, cursor, interrupt_status, queue_sel, crashed, disk, memory>>

(* The data transfer: n sectors move before pread or pwrite fails, or all  *)
(* of them do.  A write past the end extends the image, over a gap of      *)
(* zeroes if need be.                                                      *)
Moved(r, n) == r.sector .. (r.sector + n - 1)
Readable(r, n) == r.type = "in" => \A s \in Moved(r, n) : disk[s] # Absent

blk_do_read(r, n)  == [i \in 1 .. n |-> disk[r.sector + i - 1]]
blk_do_write(r, n) ==
    [s \in Sectors |-> IF s \in Moved(r, n) THEN r.value
                       ELSE IF n > 0 /\ s < r.sector /\ disk[s] = Absent THEN 0
                       ELSE disk[s]]

Transfer(r, n) ==
    CASE r.type = "in"  -> [disk |-> disk, data |-> blk_do_read(r, n),
                            status |-> IF n = r.len THEN "ok" ELSE "ioerr"]
      [] r.type = "out" -> [disk |-> blk_do_write(r, n), data |-> <<>>,
                            status |-> IF n = r.len THEN "ok" ELSE "ioerr"]
      [] r.type = "id"  -> [disk |-> disk, data |-> <<>>, status |-> "ok"]
      [] r.type = "bad" -> [disk |-> disk, data |-> <<>>, status |-> "ioerr"]

(* Mutant: the slot after the cursor is taken.                             *)
vq_ring_next_OffByOne == avail_ring[(cursor + 1) % size]

vq_ring_next == avail_ring[cursor % size]

(* The slot is taken from the index in guest memory, not from used.cursor. *)
vq_ring_post(head) ==
    /\ used_ring' = [used_ring EXCEPT ![used_idx % size] = head]
    /\ used_idx' = Inc(used_idx)

(* One round of the loop.                                                  *)
blk_handle_request ==
    /\ busy /\ ~crashed /\ vq_ring_has_next
    /\ size > 0
    /\ LET head == vq_ring_next
           r    == req[head]
       IN  \E n \in 0 .. r.len :
              /\ Readable(r, n)
              /\ data' = [data EXCEPT ![head] = Transfer(r, n).data]
              /\ disk' = Transfer(r, n).disk
              /\ stat' = [stat EXCEPT ![head] = Transfer(r, n).status]
              /\ vq_ring_post(head)
    /\ cursor' = Inc(cursor)
    /\ UNCHANGED <<ready, size, interrupt_status, queue_sel, busy, crashed,
                   avail_idx, avail_ring, req, guest, plicVars>>

(* A round that does not end: past the end of the image pread returns 0    *)
(* and blk_do_read goes round for ever; with a queue size of 0 the % in    *)
(* vq_ring_next raises a signal.                                           *)
blk_handle_request_stuck ==
    /\ busy /\ ~crashed /\ vq_ring_has_next
    /\ size = 0 \/ ~Readable(req[vq_ring_next], req[vq_ring_next].len)
    /\ crashed' = TRUE
    /\ UNCHANGED <<ready, size, cursor, interrupt_status, queue_sel, busy, disk,
                   memory, guest, plicVars>>

(* Mutants: the interrupt is raised at the PLIC but not in the status      *)
(* register; in the status register but not at the PLIC.                   *)
virtio_notify_guest_NoStatus ==
    /\ busy /\ ~crashed /\ ~vq_ring_has_next
    /\ P!plic_set_pending(VIRTIO_IRQ)
    /\ busy' = FALSE
    /\ UNCHANGED <<ready, size, cursor, interrupt_status, queue_sel, crashed, disk, memory, guest>>
virtio_notify_guest_NoPlic ==
    /\ busy /\ ~crashed /\ ~vq_ring_has_next
    /\ interrupt_status' = 1
    /\ busy' = FALSE
    /\ UNCHANGED <<ready, size, cursor, queue_sel, crashed, disk, memory, guest, plicVars>>

(* The loop ends: raise the interrupt, whether or not there was work.      *)
virtio_notify_guest ==
    /\ busy /\ ~crashed /\ ~vq_ring_has_next
    /\ interrupt_status' = 1
    /\ P!plic_set_pending(VIRTIO_IRQ)
    /\ busy' = FALSE
    /\ UNCHANGED <<ready, size, cursor, queue_sel, crashed, disk, memory, guest>>

-----------------------------------------------------------------------------
(* The driver (external).  It moves only while the device is not busy.     *)
At(from, to) == ~busy /\ driver = from /\ driver' = to

SetupPlicPriority ==
    /\ At("boot", "boot2") /\ P!WritePriority(VIRTIO_IRQ, 1)
    /\ UNCHANGED <<device, memory, inflight, last_used>>
SetupPlicEnable ==
    /\ At("boot2", "off") /\ P!WriteEnable(P!PLIC_CTX_S, {VIRTIO_IRQ})
    /\ UNCHANGED <<device, memory, inflight, last_used>>

SetupSel ==
    /\ At("off", "num") /\ WriteQueueSel(0)
    /\ UNCHANGED <<inflight, last_used, plicVars>>
SetupNum ==
    /\ At("num", "ready") /\ WriteQueueNum(QueueSize)
    /\ UNCHANGED <<inflight, last_used, plicVars>>
SetupReady ==
    /\ At("ready", "idle") /\ WriteQueueReady(TRUE)
    /\ UNCHANGED <<inflight, last_used, plicVars>>

(* A chain that is not in flight is filled in and made available.          *)
Submit(head, r) ==
    /\ At("idle", "idle") /\ head \notin inflight
    /\ inflight' = inflight \cup {head}
    /\ req' = [req EXCEPT ![head] = r]
    /\ avail_ring' = [avail_ring EXCEPT ![avail_idx % QueueSize] = head]
    /\ avail_idx' = Inc(avail_idx)
    /\ UNCHANGED <<device, used_idx, used_ring, data, stat, last_used, plicVars>>

Notify ==
    /\ At("idle", "idle") /\ WriteQueueNotify
    /\ UNCHANGED <<inflight, last_used, plicVars>>

(* The interrupt: claim, acknowledge if the device says it is its own,     *)
(* collect what was used, complete.                                        *)
Claim ==
    /\ seip /\ At("idle", "claimed") /\ P!plic_claim(P!PLIC_CTX_S, VIRTIO_IRQ)
    /\ UNCHANGED <<device, memory, inflight, last_used>>
Acknowledge ==
    /\ interrupt_status # 0 /\ At("claimed", "collect") /\ WriteInterruptAck
    /\ UNCHANGED <<inflight, last_used, plicVars>>
NotMine ==
    /\ interrupt_status = 0 /\ At("claimed", "done")
    /\ UNCHANGED <<device, memory, inflight, last_used, plicVars>>
Collect ==
    /\ last_used # used_idx /\ At("collect", "collect")
    /\ inflight' = inflight \ {used_ring[last_used % QueueSize]}
    /\ last_used' = Inc(last_used)
    /\ UNCHANGED <<device, memory, plicVars>>
Collected ==
    /\ last_used = used_idx /\ At("collect", "done")
    /\ UNCHANGED <<device, memory, inflight, last_used, plicVars>>
Complete ==
    /\ At("done", "idle") /\ P!plic_complete(VIRTIO_IRQ)
    /\ UNCHANGED <<device, memory, inflight, last_used>>

(* Reset, with requests in flight or not, and new rings full of zeroes.    *)
ResetDevice ==
    /\ At("idle", "off") /\ WriteStatusReset
    /\ avail_idx' = 0 /\ used_idx' = 0
    /\ avail_ring' = [slot \in Slots |-> 0] /\ used_ring' = [slot \in Slots |-> 0]
    /\ req' = [head \in Heads |-> NoRequest]
    /\ data' = [head \in Heads |-> <<>>] /\ stat' = [head \in Heads |-> "none"]
    /\ inflight' = {} /\ last_used' = 0
    /\ UNCHANGED plicVars

(* Nothing moves again once the notify handler is stuck.                   *)
Stuck == crashed /\ UNCHANGED vars

Handler == Acknowledge \/ NotMine \/ Collect \/ Collected \/ Complete
Device  == blk_handle_request \/ blk_handle_request_stuck \/ virtio_notify_guest

Next ==
    \/ Device
    \/ SetupPlicPriority \/ SetupPlicEnable \/ SetupSel \/ SetupNum \/ SetupReady
    \/ \E head \in Heads, r \in Requests : Submit(head, r)
    \/ Notify
    \/ Claim \/ Handler
    \/ ResetDevice
    \/ Stuck

(* The emulator runs the notify handler to its end and keeps stepping the  *)
(* guest; the driver's handler runs to its end; the driver kicks the queue *)
(* after it has added to it, and opens interrupts again and again, upon    *)
(* which cpu_step delivers SEIP before any other instruction.              *)
Fairness ==
    /\ WF_vars(Device) /\ WF_vars(Handler)
    /\ SF_vars(Claim) /\ SF_vars(avail_idx # cursor /\ Notify)

Spec == Init /\ [][Next]_vars /\ Fairness

-----------------------------------------------------------------------------
(* Registers, rings and driver state in range.                             *)
TypeOK ==
    /\ ready \in BOOLEAN /\ size \in {0, QueueSize} /\ cursor \in Idx
    /\ interrupt_status \in {0, 1} /\ queue_sel = 0
    /\ busy \in BOOLEAN /\ crashed \in BOOLEAN
    /\ disk \in [Sectors -> Values \cup {Absent}]
    /\ avail_idx \in Idx /\ used_idx \in Idx /\ last_used \in Idx
    /\ avail_ring \in [Slots -> Heads] /\ used_ring \in [Slots -> Heads]
    /\ DOMAIN req = Heads /\ DOMAIN data = Heads
    /\ stat \in [Heads -> {"none", "ok", "ioerr"}]
    /\ inflight \in SUBSET Heads
    /\ driver \in {"boot", "boot2", "off", "num", "ready", "idle", "claimed", "collect", "done"}
    /\ P!TypeOK

(* How many ring entries lie between two indices, across the wrap.         *)
Distance(from, to) == (to - from) % IdxMod

(* Between requests the two host-side positions agree, and the rings never *)
(* hold more than QueueSize entries: a used entry is not overwritten       *)
(* before the driver has read it, nor an available one before the device   *)
(* has.                                                                    *)
RingsBounded ==
    /\ cursor = used_idx
    /\ Distance(last_used, used_idx) + Distance(cursor, avail_idx) <= QueueSize

(* A driver that stays inside the capacity it read at start-up never hangs *)
(* the emulator, whatever failed, grew or was reset before: blk_notify     *)
(* spins only in a read that runs past that capacity, and never divides by *)
(* a queue size of 0.                                                      *)
StuckOnlyPastCapacity ==
    crashed => /\ size > 0
               /\ LET r == req[vq_ring_next] IN r.type = "in" /\ r.sector + r.len > Capacity

(* No lost completion: when the driver waits with an answer uncollected,   *)
(* the external interrupt is high and the device will own up to it.        *)
NoLostCompletion ==
    driver = "idle" /\ ~busy /\ used_idx # last_used => seip /\ interrupt_status = 1

(* Every request is answered and collected, unless the device is reset or  *)
(* stuck.                                                                  *)
AnswerEventually ==
    \A head \in Heads : head \in inflight ~> (head \notin inflight \/ crashed)

(* The requests that wait in the available ring, and the answers that wait *)
(* in the used ring, as sequences.                                         *)
WaitingRequests ==
    [i \in 1 .. Distance(cursor, avail_idx) |->
        LET head == avail_ring[(cursor + i - 1) % QueueSize]
        IN  [head |-> head, req |-> req[head]]]
WaitingAnswers ==
    [i \in 1 .. Distance(last_used, used_idx) |->
        LET head == used_ring[(last_used + i - 1) % QueueSize]
        IN  [head |-> head, status |-> stat[head], data |-> data[head]]]

B == INSTANCE BlockServer WITH waiting <- WaitingRequests, answered <- WaitingAnswers

(* The rings, the notify loop and the interrupt together are a block       *)
(* server: requests are answered once each, in order, atomically.          *)
ServerSpec == B!Spec
=============================================================================
