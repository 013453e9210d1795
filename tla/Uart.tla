-------------------------------- MODULE Uart --------------------------------
(***************************************************************************)
(* The NS16550 of src/uart.c under an arbitrary guest, with the terminal   *)
(* on its other side.  Three call sites poll stdin (the interrupt-source   *)
(* callback, a read of IIR and a read of LSR), each between any two guest  *)
(* accesses.                                                               *)
(*                                                                         *)
(* The n-th byte typed is the number n; byte QuitAt is Ctrl-\.  ier is the *)
(* set of enabled causes.  The divisor latch, MCR and SCR are storage that *)
(* nothing reads back into the device: only dlab, which diverts accesses   *)
(* to that storage, is kept.  irq_pending is the UART's pending bit in the *)
(* PLIC: plic_set_pending sets it, a claim by the guest clears it.         *)
(***************************************************************************)
EXTENDS Integers, Sequences

CONSTANTS MaxInput,   \* bound on the bytes typed
          QuitAt,     \* position of Ctrl-\ in the input, 0 for never
          MaxOutput   \* bound on the bytes the guest transmits

ASSUME UartAssumption == /\ MaxInput \in Nat /\ MaxOutput \in Nat
                         /\ QuitAt \in 0 .. MaxInput

RDA  == "rda"    \* received data available
THRE == "thre"   \* transmit holding register empty
Causes == {RDA, THRE}
NO_INT == "none"

VARIABLES dlab, ier, rx_buf, rx_ready, thre_ip, irq_pending,
          typed,      \* bytes the user has typed
          taken,      \* bytes read(2) has returned
          received,   \* bytes the guest has read from RBR
          sent,       \* bytes passed to putchar
          exited      \* exit(0) was called

rx   == <<rx_buf, rx_ready, taken, exited>>
vars == <<dlab, ier, rx_buf, rx_ready, thre_ip, irq_pending,
          typed, taken, received, sent, exited>>

Init == /\ dlab = FALSE /\ ier = {}
        /\ rx_buf = 0 /\ rx_ready = FALSE /\ thre_ip = FALSE /\ irq_pending = FALSE
        /\ typed = 0 /\ taken = 0 /\ received = <<>> /\ sent = 0
        /\ exited = FALSE

-----------------------------------------------------------------------------
plic_set_pending_if(condition) == irq_pending' = (irq_pending \/ condition)

(* Mutant: a full buffer does not stop the poll.                           *)
ByteReady_Overwrites == taken < typed

(* read(2) on the non-blocking stdin returns a byte only if the one-byte   *)
(* buffer is free and one has been typed.                                  *)
ByteReady == ~rx_ready /\ taken < typed

(* Mutant: a byte that arrives is not requested at the PLIC.               *)
uart_poll_rx_Silent ==
    \/ /\ ~ByteReady
       /\ UNCHANGED <<rx, irq_pending>>
    \/ /\ ByteReady /\ taken + 1 = QuitAt
       /\ taken' = taken + 1 /\ exited' = TRUE
       /\ UNCHANGED <<rx_buf, rx_ready, irq_pending>>
    \/ /\ ByteReady /\ taken + 1 # QuitAt
       /\ taken' = taken + 1
       /\ rx_buf' = taken + 1 /\ rx_ready' = TRUE
       /\ UNCHANGED <<irq_pending, exited>>

uart_poll_rx ==
    \/ /\ ~ByteReady
       /\ UNCHANGED <<rx, irq_pending>>
    \/ /\ ByteReady /\ taken + 1 = QuitAt
       /\ taken' = taken + 1 /\ exited' = TRUE
       /\ UNCHANGED <<rx_buf, rx_ready, irq_pending>>
    \/ /\ ByteReady /\ taken + 1 # QuitAt
       /\ taken' = taken + 1
       /\ rx_buf' = taken + 1 /\ rx_ready' = TRUE
       /\ plic_set_pending_if(RDA \in ier)
       /\ UNCHANGED exited

(* Called on every 1024th step, that is between any two guest accesses.    *)
uart_irq_source ==
    /\ uart_poll_rx
    /\ UNCHANGED <<dlab, ier, thre_ip, typed, received, sent>>

-----------------------------------------------------------------------------
(* Mutant: the buffer stays full.                                          *)
uart_read_RBR_Again ==
    /\ ~dlab /\ rx_ready /\ Len(received) < MaxInput
    /\ received' = Append(received, rx_buf)
    /\ UNCHANGED <<dlab, ier, rx_buf, rx_ready, thre_ip, irq_pending, typed, taken, sent, exited>>

(* Reads that change state.                                                *)
uart_read_RBR ==
    /\ ~dlab /\ rx_ready
    /\ rx_ready' = FALSE
    /\ received' = Append(received, rx_buf)
    /\ UNCHANGED <<dlab, ier, rx_buf, thre_ip, irq_pending, typed, taken, sent, exited>>

(* value is what IIR returns.  Reporting THRE acknowledges it; a received  *)
(* byte is reported first and leaves thre_ip alone.                        *)
uart_read_IIR(value) ==
    /\ uart_poll_rx
    /\ value = CASE rx_ready' /\ RDA \in ier -> RDA
                 [] ~(rx_ready' /\ RDA \in ier) /\ thre_ip /\ THRE \in ier -> THRE
                 [] OTHER -> NO_INT
    /\ thre_ip' = (thre_ip /\ (value # THRE \/ exited'))
    /\ UNCHANGED <<dlab, ier, typed, received, sent>>

(* value is bit 0 of LSR; the transmitter is always ready.                 *)
uart_read_LSR(value) ==
    /\ uart_poll_rx
    /\ value = rx_ready'
    /\ UNCHANGED <<dlab, ier, thre_ip, typed, received, sent>>

-----------------------------------------------------------------------------
(* Mutants: a transmission is not followed by THRE; enabling RDA with a    *)
(* byte already there requests nothing.                                    *)
uart_write_THR_Quiet ==
    /\ ~dlab /\ sent < MaxOutput
    /\ sent' = sent + 1
    /\ UNCHANGED <<dlab, ier, rx, thre_ip, irq_pending, typed, received>>
uart_write_IER_NoRda(value) ==
    /\ ~dlab
    /\ ier' = value
    /\ thre_ip' = (thre_ip \/ THRE \in value)
    /\ plic_set_pending_if(THRE \in value)
    /\ UNCHANGED <<dlab, rx, typed, received, sent>>

(* Writes.  With dlab set, offsets 0 and 1 are the divisor latch.          *)
uart_write_THR ==
    /\ ~dlab /\ sent < MaxOutput
    /\ sent' = sent + 1
    /\ thre_ip' = TRUE
    /\ plic_set_pending_if(THRE \in ier)
    /\ UNCHANGED <<dlab, ier, rx, typed, received>>

uart_write_IER(value) ==
    /\ ~dlab
    /\ ier' = value
    /\ thre_ip' = (thre_ip \/ THRE \in value)
    /\ plic_set_pending_if(THRE \in value \/ (RDA \in value /\ rx_ready))
    /\ UNCHANGED <<dlab, rx, typed, received, sent>>

uart_write_LCR(value) ==
    /\ dlab' = value
    /\ UNCHANGED <<ier, rx, thre_ip, irq_pending, typed, received, sent>>

-----------------------------------------------------------------------------
(* The user, and the guest's claim of the PLIC source (external).          *)
Type ==
    /\ typed < MaxInput
    /\ typed' = typed + 1
    /\ UNCHANGED <<dlab, ier, rx, thre_ip, irq_pending, received, sent>>

Claim ==
    /\ irq_pending /\ irq_pending' = FALSE
    /\ UNCHANGED <<dlab, ier, rx, thre_ip, typed, received, sent>>

GuestAccess ==
    \/ uart_read_RBR
    \/ \E value \in Causes \cup {NO_INT} : uart_read_IIR(value)
    \/ \E value \in BOOLEAN : uart_read_LSR(value)
    \/ uart_write_THR
    \/ \E value \in SUBSET Causes : uart_write_IER(value)
    \/ \E value \in BOOLEAN : uart_write_LCR(value)

Running == ~exited /\ (uart_irq_source \/ GuestAccess \/ Claim)

Next == Running \/ Type

Spec == Init /\ [][Next]_vars

-----------------------------------------------------------------------------
(* Registers and counters stay in range; the buffer holds a byte that was  *)
(* really read.                                                            *)
TypeOK ==
    /\ dlab \in BOOLEAN /\ ier \in SUBSET Causes
    /\ rx_ready \in BOOLEAN /\ thre_ip \in BOOLEAN /\ irq_pending \in BOOLEAN
    /\ typed \in 0 .. MaxInput /\ taken \in 0 .. typed /\ rx_buf \in 0 .. taken
    /\ received \in Seq(1 .. MaxInput) /\ sent \in 0 .. MaxOutput
    /\ exited \in BOOLEAN

(* Nothing typed is lost, duplicated or reordered: what the guest has read *)
(* from RBR, followed by the byte in the buffer, is exactly what read(2)   *)
(* has returned, whichever of the three pollers fetched it and whatever    *)
(* the guest does to IER and LCR meanwhile.                                *)
InputInOrder ==
    /\ \A i \in 1 .. Len(received) : received[i] = i
    /\ rx_ready => rx_buf = Len(received) + 1
    /\ taken = Len(received) + (IF rx_ready THEN 1 ELSE 0) + (IF exited THEN 1 ELSE 0)

(* Ctrl-\ never overtakes input: when the emulator exits on it, the guest  *)
(* has read every byte typed before it.                                    *)
QuitAfterDrain == exited => Len(received) = QuitAt - 1

(* An interrupt cause, seen as a level: it is enabled and present.         *)
Asserted(cause) == cause \in ier /\ (IF cause = RDA THEN rx_ready ELSE thre_ip)

(* The PLIC latches edges, so the UART must request on every edge: each    *)
(* step after which a cause is newly asserted leaves the request pending,  *)
(* whether the data or the enable bit came first.                          *)
EdgesAreRequested ==
    [][\A cause \in Causes : Asserted(cause)' /\ ~Asserted(cause) => irq_pending']_vars
=============================================================================
