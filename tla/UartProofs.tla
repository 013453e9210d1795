----------------------------- MODULE UartProofs -----------------------------
(***************************************************************************)
(* Proofs about the UART for input and output of any length and Ctrl-\ at  *)
(* any place.                                                              *)
(***************************************************************************)
EXTENDS Uart, TLAPS

(* When the emulator has exited, the last byte read was Ctrl-\ and the     *)
(* buffer was empty; a byte in the buffer is one that was read.            *)
ExitState == exited => taken = QuitAt /\ ~rx_ready

(* The inductive invariant: types, order and exit state together.  The     *)
(* type of received needs the order (a byte in the buffer is not 0), the   *)
(* order needs that nothing is read after the exit.                        *)
UartInv == TypeOK /\ InputInOrder /\ ExitState

(* The two halves of TypeOK: flags, and numbers.                           *)
Flags ==
    /\ dlab \in BOOLEAN /\ ier \in SUBSET Causes /\ exited \in BOOLEAN
    /\ rx_ready \in BOOLEAN /\ thre_ip \in BOOLEAN /\ irq_pending \in BOOLEAN
Numbers ==
    /\ typed \in 0 .. MaxInput /\ taken \in 0 .. typed /\ rx_buf \in 0 .. taken
    /\ received \in Seq(1 .. MaxInput) /\ sent \in 0 .. MaxOutput

(* The invariant by its parts, before and after a step.                    *)
LEMMA UartInvParts ==
    /\ UartInv  <=> Flags  /\ Numbers  /\ InputInOrder  /\ ExitState
    /\ UartInv' <=> Flags' /\ Numbers' /\ InputInOrder' /\ ExitState'
BY DEF UartInv, TypeOK, Flags, Numbers

(* Polling stdin keeps the invariant, whichever of its three callers it    *)
(* has.                                                                    *)
LEMMA PollStep ==
    ASSUME UartInv, ~exited, uart_poll_rx,
           dlab' = dlab, ier' = ier, thre_ip' \in BOOLEAN,
           typed' = typed, received' = received, sent' = sent
    PROVE  UartInv'
<1>0. Flags /\ Numbers /\ InputInOrder /\ ExitState
  BY UartInvParts
<1>1. Flags'
  BY <1>0, Zenon DEF Flags, uart_poll_rx, plic_set_pending_if, rx
<1>2. Len(received) \in Nat /\ typed \in Nat /\ taken \in Nat /\ taken <= typed
  BY <1>0, UartAssumption DEF Numbers
<1>3. CASE ~ByteReady /\ UNCHANGED <<rx, irq_pending>>
  <2>1. UNCHANGED <<rx_buf, rx_ready, taken, exited>>
    BY <1>3 DEF rx
  <2>2. Numbers'
    BY <1>0, <2>1 DEF Numbers
  <2>3. InputInOrder' /\ ExitState'
    BY <1>0, <2>1 DEF InputInOrder, ExitState
  <2> QED
    BY <1>1, <2>2, <2>3, UartInvParts
<1>4. CASE /\ ByteReady /\ taken + 1 = QuitAt
           /\ taken' = taken + 1 /\ exited' = TRUE
           /\ UNCHANGED <<rx_buf, rx_ready>>
  <2>1. Numbers'
    BY <1>0, <1>2, <1>4 DEF ByteReady, Numbers
  <2>2. taken = Len(received)
    BY <1>0, <1>2, <1>4 DEF ByteReady, InputInOrder
  <2>3. InputInOrder' /\ ExitState'
    BY <1>0, <1>2, <1>4, <2>2 DEF ByteReady, InputInOrder, ExitState
  <2> QED
    BY <1>1, <2>1, <2>3, UartInvParts
<1>5. CASE /\ ByteReady /\ taken + 1 # QuitAt
           /\ taken' = taken + 1 /\ rx_buf' = taken + 1 /\ rx_ready' = TRUE
           /\ exited' = exited
  <2>1. Numbers'
    BY <1>0, <1>2, <1>5 DEF ByteReady, Numbers
  <2>2. taken = Len(received)
    BY <1>0, <1>2, <1>5 DEF ByteReady, InputInOrder
  <2>3. InputInOrder' /\ ExitState'
    BY <1>0, <1>2, <1>5, <2>2 DEF ByteReady, InputInOrder, ExitState
  <2> QED
    BY <1>1, <2>1, <2>3, UartInvParts
<1> QED
  BY <1>3, <1>4, <1>5 DEF uart_poll_rx

(* A read of RBR moves the buffered byte to the guest.                     *)
LEMMA ReadStep ==
    ASSUME UartInv, ~exited, uart_read_RBR
    PROVE  UartInv'
<1>0. Flags /\ Numbers /\ InputInOrder /\ ExitState
  BY UartInvParts
<1>1. Flags'
  BY <1>0, Zenon DEF Flags, uart_read_RBR
<1>2. rx_buf \in 1 .. MaxInput /\ rx_buf = Len(received) + 1 /\ taken = Len(received) + 1
  BY <1>0, UartAssumption DEF uart_read_RBR, Numbers, InputInOrder
<1>3. received' \in Seq(1 .. MaxInput) /\ Len(received') = Len(received) + 1
  BY <1>0, <1>2 DEF uart_read_RBR, Numbers
<1>4. \A i \in 1 .. Len(received') : received'[i] = i
  BY <1>0, <1>2 DEF uart_read_RBR, Numbers, InputInOrder
<1>5. Numbers'
  BY <1>0, <1>3 DEF uart_read_RBR, Numbers
<1>6. InputInOrder'
  <2>1. rx_ready' = FALSE /\ exited' = exited /\ taken' = taken
    BY DEF uart_read_RBR
  <2> QED
    BY <1>0, <1>2, <1>3, <1>4, <2>1 DEF Numbers, InputInOrder
<1>7. ExitState'
  BY DEF uart_read_RBR, ExitState
<1> QED
  BY <1>1, <1>5, <1>6, <1>7, UartInvParts

(* Every step keeps it.                                                    *)
LEMMA UartStep ==
    ASSUME UartInv, [Next]_vars
    PROVE  UartInv'
<1>0. Flags /\ Numbers /\ InputInOrder /\ ExitState
  BY UartInvParts
<1>1. ASSUME ~exited, uart_irq_source PROVE UartInv'
  BY <1>1, PollStep DEF uart_irq_source, UartInv, TypeOK
<1>2. ASSUME ~exited, uart_read_RBR PROVE UartInv'
  BY <1>2, ReadStep
<1>3. ASSUME ~exited, NEW value, uart_read_IIR(value) PROVE UartInv'
  BY <1>3, PollStep DEF uart_read_IIR
<1>4. ASSUME ~exited, NEW value, uart_read_LSR(value) PROVE UartInv'
  BY <1>4, PollStep DEF uart_read_LSR, UartInv, TypeOK
<1>5. ASSUME uart_write_THR PROVE UartInv'
  <2>1. Flags'
    BY <1>0, <1>5, Zenon DEF Flags, uart_write_THR, plic_set_pending_if, rx
  <2>2. UNCHANGED <<rx_buf, rx_ready, taken, exited, typed, received>>
    BY <1>5 DEF uart_write_THR, rx
  <2>3. InputInOrder' /\ ExitState'
    BY <1>0, <2>2 DEF InputInOrder, ExitState
  <2>4. Numbers'
    BY <1>0, <1>5, <2>2, UartAssumption DEF uart_write_THR, Numbers
  <2> QED
    BY <2>1, <2>3, <2>4, UartInvParts
<1>6. ASSUME NEW value \in SUBSET Causes, uart_write_IER(value) PROVE UartInv'
  BY <1>6 DEF uart_write_IER, plic_set_pending_if, rx, UartInv, TypeOK, InputInOrder, ExitState
<1>7. ASSUME NEW value \in BOOLEAN, uart_write_LCR(value) PROVE UartInv'
  BY <1>7 DEF uart_write_LCR, rx, UartInv, TypeOK, InputInOrder, ExitState
<1>8. ASSUME Type PROVE UartInv'
  <2>1. Flags' /\ InputInOrder' /\ ExitState'
    BY <1>0, <1>8 DEF Type, rx, Flags, InputInOrder, ExitState
  <2>2. Numbers'
    BY <1>0, <1>8, UartAssumption DEF Type, rx, Numbers
  <2> QED
    BY <2>1, <2>2, UartInvParts
<1>9. ASSUME Claim PROVE UartInv'
  BY <1>9 DEF Claim, rx, UartInv, TypeOK, InputInOrder, ExitState
<1>10. ASSUME UNCHANGED vars PROVE UartInv'
  BY <1>10 DEF vars, UartInv, TypeOK, InputInOrder, ExitState
<1> QED
  BY <1>1, <1>2, <1>3, <1>4, <1>5, <1>6, <1>7, <1>8, <1>9, <1>10 DEF Next, Running, GuestAccess

(* So it is invariant.                                                     *)
LEMMA UartInvariant == Spec => []UartInv
<1>1. Init => UartInv
  <2> SUFFICES ASSUME Init PROVE UartInv
    OBVIOUS
  <2>1. Flags /\ ExitState
    BY DEF Init, Flags, ExitState
  <2>2. received \in Seq(1 .. MaxInput) /\ Len(received) = 0
    BY DEF Init
  <2>3. Numbers /\ InputInOrder
    BY <2>2, UartAssumption DEF Init, Numbers, InputInOrder
  <2> QED
    BY <2>1, <2>3, UartInvParts
<1>2. UartInv /\ [Next]_vars => UartInv'
  BY UartStep
<1> QED
  BY <1>1, <1>2, PTL DEF Spec

(* No byte typed is lost, duplicated or reordered on its way to the guest. *)
THEOREM InputCorrect == Spec => []InputInOrder
<1>1. UartInv => InputInOrder
  BY DEF UartInv
<1> QED
  BY <1>1, UartInvariant, PTL

(* Ctrl-\ ends the emulator only after the guest has read what was typed   *)
(* before it.                                                              *)
THEOREM QuitCorrect == Spec => []QuitAfterDrain
<1>1. UartInv => QuitAfterDrain
  BY UartAssumption DEF UartInv, TypeOK, InputInOrder, ExitState, QuitAfterDrain
<1> QED
  BY <1>1, UartInvariant, PTL

(* Every newly asserted interrupt cause is requested at the PLIC.          *)
THEOREM EdgesCorrect == Spec => EdgesAreRequested
<1> DEFINE Requested == \A cause \in Causes : Asserted(cause)' /\ ~Asserted(cause) => irq_pending'
<1>1. UartInv /\ [Next]_vars => [Requested]_vars
  <2> SUFFICES ASSUME UartInv, Next PROVE Requested
    OBVIOUS
  <2> USE DEF Asserted, Causes, RDA, THRE
  <2>1. ASSUME uart_poll_rx, ier' = ier, thre_ip' => thre_ip PROVE Requested
    <3>1. CASE UNCHANGED <<rx_ready, ier>>
      BY <2>1, <3>1
    <3>2. CASE rx_ready' = TRUE /\ irq_pending' = (irq_pending \/ RDA \in ier)
      BY <2>1, <3>2
    <3>3. UNCHANGED rx_ready \/ (rx_ready' = TRUE /\ irq_pending' = (irq_pending \/ RDA \in ier))
      BY <2>1, Zenon DEF uart_poll_rx, plic_set_pending_if, rx
    <3> QED
      BY <2>1, <3>1, <3>2, <3>3
  <2>2. CASE uart_irq_source
    BY <2>1, <2>2 DEF uart_irq_source
  <2>3. ASSUME NEW value, uart_read_IIR(value) PROVE Requested
    BY <2>1, <2>3 DEF uart_read_IIR, UartInv, TypeOK
  <2>4. ASSUME NEW value, uart_read_LSR(value) PROVE Requested
    BY <2>1, <2>4 DEF uart_read_LSR
  <2>5. CASE uart_read_RBR
    BY <2>5 DEF uart_read_RBR
  <2>6. CASE uart_write_THR
    BY <2>6 DEF uart_write_THR, plic_set_pending_if, rx
  <2>7. ASSUME NEW value \in SUBSET Causes, uart_write_IER(value) PROVE Requested
    BY <2>7 DEF uart_write_IER, plic_set_pending_if, rx, UartInv, TypeOK
  <2>8. ASSUME UNCHANGED <<ier, rx, thre_ip>> PROVE Requested
    BY <2>8 DEF rx
  <2> QED
    BY <2>2, <2>3, <2>4, <2>5, <2>6, <2>7, <2>8
    DEF Next, Running, GuestAccess, Type, Claim, uart_write_LCR
<1> HIDE DEF Requested
<1> QED
  BY <1>1, UartInvariant, PTL DEF Spec, EdgesAreRequested, Requested
=============================================================================
