---------------------------- MODULE ConsoleProofs ----------------------------
(***************************************************************************)
(* Proofs about the console path for input and output of any length and    *)
(* Ctrl-\ at any place: the interrupt protocol between UART, PLIC and      *)
(* driver, and the UART inside the console as an instance of Uart.         *)
(***************************************************************************)
EXTENDS Console, TLAPS

Booting == {"boot", "boot2", "boot3"}
Serving == U!Causes \cup {"serve", "status", U!NO_INT}
Locations == Booting \cup Serving \cup {"idle"}

Types ==
    /\ P!TypeOK
    /\ ier \in SUBSET U!Causes
    /\ rx_ready \in BOOLEAN /\ thre_ip \in BOOLEAN /\ exited \in BOOLEAN
    /\ driver \in Locations

(* What the driver has programmed by the time it reaches a location.       *)
Programmed ==
    /\ threshold[P!PLIC_CTX_S] = 0
    /\ driver # "boot" => priority[PLIC_IRQ_UART] = 1
    /\ driver \notin {"boot", "boot2"} => enable[P!PLIC_CTX_S] = {PLIC_IRQ_UART}
    /\ driver \in Booting => ier = {}

(* The source is in service exactly while the driver is in its handler.    *)
InService == claimed = IF driver \in Serving THEN {PLIC_IRQ_UART} ELSE {}

(* From the read of IIR that reports nothing until the next claim, a cause *)
(* that is asserted has its request pending.                               *)
Requested ==
    driver \in {"idle", U!NO_INT} /\ ~exited =>
        \A cause \in U!Causes : U!Asserted(cause) => PLIC_IRQ_UART \in pending

(* The inductive invariant.  NoLostInterrupt is not inductive: between the *)
(* last read of IIR and the completion the wire is low whatever happens,   *)
(* and the pending bit alone carries the request across.                   *)
ConsoleInv == Types /\ P!SeipIffEligible /\ Programmed /\ InService /\ Requested

-----------------------------------------------------------------------------
(* A UART step requests its source or leaves the PLIC alone.               *)
LEMMA RequestStep ==
    ASSUME P!TypeOK, P!SeipIffEligible, PlicRequest
    PROVE  /\ P!TypeOK' /\ P!SeipIffEligible'
           /\ UNCHANGED <<priority, enable, threshold, claimed>>
           /\ PLIC_IRQ_UART \in pending => PLIC_IRQ_UART \in pending'
<1>1. CASE P!plic_set_pending(PLIC_IRQ_UART)
  BY <1>1 DEF P!plic_set_pending, P!plic_update_seip, P!TypeOK, P!SeipIffEligible
<1>2. CASE UNCHANGED plicVars
  BY <1>2 DEF plicVars, P!TypeOK, P!SeipIffEligible, P!Eligible
<1> QED
  BY <1>1, <1>2 DEF PlicRequest

(* A byte that a poll takes with RDA enabled is requested.                 *)
LEMMA PollRequests ==
    ASSUME Types, U!uart_poll_rx
    PROVE  /\ rx_ready' \in BOOLEAN /\ exited' \in BOOLEAN
           /\ rx_ready => rx_ready'
           /\ rx_ready' /\ ~rx_ready /\ U!RDA \in ier => PLIC_IRQ_UART \in pending'
<1>1. CASE UNCHANGED U!rx
  BY <1>1 DEF Types, U!rx
<1>2. CASE exited' = TRUE /\ UNCHANGED rx_ready
  BY <1>2 DEF Types
<1>3. CASE ~rx_ready /\ rx_ready' = TRUE /\ U!plic_set_pending_if(U!RDA \in ier) /\ UNCHANGED exited
  BY <1>3 DEF Types, U!plic_set_pending_if
<1> QED
  BY <1>1, <1>2, <1>3 DEF U!uart_poll_rx, U!ByteReady

(* A UART step by the driver or the poll keeps the invariant if it keeps   *)
(* the driver on its side of the claim and of the start-up, and what it    *)
(* leaves asserted is requested.                                           *)
LEMMA UartStepKeeps ==
    ASSUME ConsoleInv, PlicRequest,
           ier' \in SUBSET U!Causes,
           rx_ready' \in BOOLEAN, thre_ip' \in BOOLEAN, exited' \in BOOLEAN,
           driver' \in Locations,
           driver \in Serving <=> driver' \in Serving,
           UNCHANGED <<driver, ier>> \/ {driver, driver'} \cap {"boot", "boot2"} = {},
           driver' \in Booting => UNCHANGED <<driver, ier>>,
           Requested'
    PROVE  ConsoleInv'
<1> USE DEF ConsoleInv
<1>1. /\ P!TypeOK' /\ P!SeipIffEligible'
      /\ UNCHANGED <<priority, enable, threshold, claimed>>
  BY RequestStep DEF Types
<1>2. Types'
  BY <1>1 DEF Types, Locations
<1>3. Programmed'
  BY <1>1 DEF Programmed
<1>4. InService'
  BY <1>1 DEF InService
<1> QED
  BY <1>1, <1>2, <1>3, <1>4

(* A poll that leaves IER and THRE alone keeps Requested.                  *)
LEMMA PollKeepsRequested ==
    ASSUME ConsoleInv, ~exited, PlicRequest, U!uart_poll_rx,
           UNCHANGED <<driver, ier, thre_ip>>
    PROVE  Requested'
<1> SUFFICES ASSUME driver \in {"idle", U!NO_INT}, NEW cause \in U!Causes, U!Asserted(cause)'
             PROVE  PLIC_IRQ_UART \in pending'
  BY DEF Requested
<1>1. CASE U!Asserted(cause)
  BY <1>1, RequestStep DEF ConsoleInv, Types, Requested
<1>2. CASE ~U!Asserted(cause)
  <2>1. cause = U!RDA /\ U!RDA \in ier /\ rx_ready' /\ ~rx_ready
    BY <1>2 DEF U!Asserted, U!Causes
  <2> QED
    BY <2>1, PollRequests DEF ConsoleInv
<1> QED
  BY <1>1, <1>2

(* The locations of the driver are all different.                          *)
LEMMA Names ==
    /\ "boot" # "boot2" /\ "boot" # "boot3" /\ "boot2" # "boot3"
    /\ Booting \cap Serving = {} /\ "idle" \notin Booting \cup Serving
    /\ U!RDA # U!THRE /\ U!NO_INT \notin U!Causes \cup {"serve", "status"}
    /\ {"serve", "status"} \cap U!Causes = {}
    /\ Serving = {U!RDA, U!THRE, "serve", "status", U!NO_INT}
BY DEF Booting, Serving, U!Causes, U!RDA, U!THRE, U!NO_INT

(* Initially nothing is programmed and nothing asserted.                   *)
LEMMA InvInit == Init => ConsoleInv
<1> SUFFICES ASSUME Init PROVE ConsoleInv
  OBVIOUS
<1> USE DEF Init, P!Init, U!Init
<1>1. Types
  BY DEF Types, P!TypeOK, P!Bits, P!Levels, P!Contexts, P!Sources, Locations, Booting
<1>2. P!SeipIffEligible
  BY DEF P!SeipIffEligible, P!Eligible
<1>3. Programmed
  BY DEF Programmed, Booting, P!PLIC_CTX_S, P!Contexts
<1>4. InService
  BY Names DEF InService, Booting
<1>5. Requested
  BY DEF Requested, U!NO_INT
<1> QED
  BY <1>1, <1>2, <1>3, <1>4, <1>5 DEF ConsoleInv

(* Every step of the terminal, the guest and the driver keeps it.          *)
LEMMA InvStep == ConsoleInv /\ [Next]_vars => ConsoleInv'
<1> SUFFICES ASSUME ConsoleInv, [Next]_vars PROVE ConsoleInv'
  OBVIOUS
<1>0. Types /\ P!SeipIffEligible /\ Programmed /\ InService /\ Requested
  BY DEF ConsoleInv
<1>1. CASE uart_irq_source
  <2> USE <1>1 DEF uart_irq_source, U!uart_irq_source
  <2>1. rx_ready' \in BOOLEAN /\ exited' \in BOOLEAN
    BY <1>0, PollRequests
  <2>2. Requested'
    BY PollKeepsRequested
  <2> QED
    BY <1>0, <2>1, <2>2, UartStepKeeps DEF Types
<1>2. CASE Type
  <2> USE <1>2 DEF Type, U!Type, U!rx
  <2>1. Requested'
    BY <1>0, RequestStep DEF Requested, U!Asserted, Types
  <2> QED
    BY <1>0, <2>1, UartStepKeeps DEF Types
<1>3. CASE SetPriority
  <2> USE <1>3, Names DEF SetPriority, At, uartVars, P!WritePriority
  <2>1. Types'
    BY <1>0 DEF Types, P!TypeOK, P!Levels, P!Bits, PLIC_IRQ_UART, P!plic_update_seip, Locations, Booting
  <2>2. P!SeipIffEligible'
    BY DEF P!SeipIffEligible, P!plic_update_seip
  <2>3. Programmed'
    BY <1>0 DEF Programmed, Booting, Types, P!TypeOK, PLIC_IRQ_UART, P!Bits
  <2>4. InService'
    BY <1>0 DEF InService, Booting
  <2>5. Requested'
    BY DEF Requested, Serving, Booting
  <2> QED
    BY <2>1, <2>2, <2>3, <2>4, <2>5 DEF ConsoleInv
<1>4. CASE SetEnable
  <2> USE <1>4, Names DEF SetEnable, At, uartVars, P!WriteEnable
  <2>1. Types'
    BY <1>0 DEF Types, P!TypeOK, P!Contexts, P!Bits, PLIC_IRQ_UART, P!plic_update_seip, Locations, Booting
  <2>2. P!SeipIffEligible'
    BY DEF P!SeipIffEligible, P!plic_update_seip
  <2>3. Programmed'
    BY <1>0 DEF Programmed, Booting, Types, P!TypeOK, P!PLIC_CTX_S, P!Contexts
  <2>4. InService'
    BY <1>0 DEF InService, Booting
  <2>5. Requested'
    BY DEF Requested, Serving, Booting
  <2> QED
    BY <2>1, <2>2, <2>3, <2>4, <2>5 DEF ConsoleInv
<1>5. CASE EnableRx \/ StopTx \/ StartTx
  <2>1. PICK value \in SUBSET U!Causes : U!uart_write_IER(value)
    BY <1>5 DEF EnableRx, StopTx, StartTx, U!Causes
  <2>2. /\ PlicRequest /\ ~exited
        /\ \/ driver = "boot3" /\ driver' = "idle"
           \/ driver = U!THRE /\ driver' = "serve"
           \/ driver = "idle" /\ driver' = "idle"
    BY <1>5 DEF EnableRx, StopTx, StartTx, At
  <2>3. ier' \in SUBSET U!Causes /\ thre_ip' \in BOOLEAN /\ UNCHANGED <<rx_ready, exited>>
    BY <2>1 DEF U!uart_write_IER, U!rx
  <2>4. Requested'
    <3> SUFFICES ASSUME NEW cause \in U!Causes, U!Asserted(cause)', driver' = "idle"
                 PROVE  PLIC_IRQ_UART \in pending'
      BY <2>2, Names DEF Requested, Serving
    <3>1. CASE cause \in value /\ (cause = U!RDA => rx_ready)
      BY <2>1, <3>1 DEF U!uart_write_IER, U!plic_set_pending_if, U!Causes
    <3> QED
      BY <2>1, <3>1 DEF U!uart_write_IER, U!Asserted, U!rx
  <2> QED
    BY <1>0, <2>2, <2>3, <2>4, UartStepKeeps, Names DEF Types, Locations, Booting
<1>6. CASE Claim
  <2> USE <1>6, Names DEF Claim, At, uartVars, P!plic_claim
  <2>1. Types'
    BY <1>0 DEF Types, P!TypeOK, P!plic_update_seip, P!IsBest, P!Eligible, Locations
  <2>2. P!SeipIffEligible'
    BY DEF P!SeipIffEligible, P!plic_update_seip
  <2>3. Programmed'
    BY <1>0 DEF Programmed, Booting
  <2>4. InService'
    BY <1>0 DEF InService
  <2>5. Requested'
    BY DEF Requested
  <2> QED
    BY <2>1, <2>2, <2>3, <2>4, <2>5 DEF ConsoleInv
<1>7. CASE Identify
  <2>1. PICK value \in U!Causes \cup {U!NO_INT} :
            At("serve", value) /\ PlicRequest /\ U!uart_read_IIR(value)
    BY <1>7 DEF Identify
  <2>2. rx_ready' \in BOOLEAN /\ exited' \in BOOLEAN
    BY <1>0, <2>1, PollRequests DEF U!uart_read_IIR
  <2>3. thre_ip' \in BOOLEAN /\ UNCHANGED ier
    BY <2>1 DEF U!uart_read_IIR
  <2>4. Requested'
    <3> SUFFICES ASSUME driver' = U!NO_INT, ~exited', NEW cause \in U!Causes, U!Asserted(cause)'
                 PROVE  FALSE
      BY <2>1, Names DEF Requested, At, Serving
    <3>1. value = U!NO_INT
      BY <2>1 DEF At
    <3>2. ~(rx_ready' /\ U!RDA \in ier) /\ ~(thre_ip /\ U!THRE \in ier)
      BY <2>1, <3>1, Names DEF U!uart_read_IIR, U!Causes
    <3>3. thre_ip' => thre_ip
      BY <2>1 DEF U!uart_read_IIR
    <3> QED
      BY <2>3, <3>2, <3>3 DEF U!Asserted, U!Causes
  <2> QED
    BY <1>0, <2>1, <2>2, <2>3, <2>4, UartStepKeeps, Names DEF At, Types, Locations, Serving
<1>8. CASE Receive
  <2> USE <1>8, Names DEF Receive, At, U!uart_read_RBR
  <2>1. Requested'
    BY DEF Requested, Serving
  <2>2. rx_ready' \in BOOLEAN
    OBVIOUS
  <2> QED
    BY <1>0, <2>1, <2>2, UartStepKeeps DEF Types, Locations, Booting
<1>9. CASE Status
  <2>1. PICK ready \in BOOLEAN : /\ At("status", IF ready THEN U!RDA ELSE "serve")
                                 /\ PlicRequest /\ U!uart_read_LSR(ready)
    BY <1>9 DEF Status
  <2>2. rx_ready' \in BOOLEAN /\ exited' \in BOOLEAN
    BY <1>0, <2>1, PollRequests DEF U!uart_read_LSR
  <2>3. UNCHANGED <<ier, thre_ip>>
    BY <2>1 DEF U!uart_read_LSR
  <2>4. driver = "status" /\ driver' \in {U!RDA, "serve"}
    BY <2>1 DEF At
  <2>5. Requested'
    BY <2>4, Names DEF Requested, U!Causes
  <2> QED
    BY <1>0, <2>1, <2>2, <2>3, <2>4, <2>5, UartStepKeeps, Names DEF Types, Locations
<1>10. CASE Transmit
  <2> USE <1>10, Names DEF Transmit, At, U!uart_write_THR, U!rx
  <2>1. Requested'
    BY DEF Requested, Serving
  <2> QED
    BY <1>0, <2>1, UartStepKeeps DEF Types, Locations
<1>11. CASE Complete
  <2> USE <1>11, Names DEF Complete, At, uartVars, P!plic_complete
  <2>1. Types'
    BY <1>0 DEF Types, P!TypeOK, P!plic_update_seip, Locations
  <2>2. P!SeipIffEligible'
    BY DEF P!SeipIffEligible, P!plic_update_seip
  <2>3. Programmed'
    BY <1>0 DEF Programmed, Booting
  <2>4. InService'
    BY <1>0 DEF InService
  <2>5. Requested'
    BY <1>0 DEF Requested, U!Asserted
  <2> QED
    BY <2>1, <2>2, <2>3, <2>4, <2>5 DEF ConsoleInv
<1>12. CASE UNCHANGED <<plicVars, uartVars, driver>>
  BY <1>0, <1>12 DEF ConsoleInv, Types, P!TypeOK, P!SeipIffEligible, P!Eligible, Programmed,
     InService, Requested, U!Asserted, plicVars, uartVars
<1>13. CASE Write
  BY <1>12, <1>13 DEF Write, At
<1> QED
  BY <1>1, <1>2, <1>3, <1>4, <1>5, <1>6, <1>7, <1>8, <1>9, <1>10, <1>11, <1>12, <1>13
  DEF Next, Boot, Handler, vars

(* NoLostInterrupt holds for input and output of any length: a cause that  *)
(* is asserted while the driver waits keeps SEIP high.                     *)
THEOREM NoInterruptLost == Spec => []NoLostInterrupt
<1>1. ConsoleInv => NoLostInterrupt
  <2> SUFFICES ASSUME ConsoleInv, driver = "idle", ~exited,
                      NEW cause \in U!Causes, U!Asserted(cause)
               PROVE  seip
    BY DEF NoLostInterrupt
  <2>1. PLIC_IRQ_UART \in pending
    BY DEF ConsoleInv, Requested
  <2>2. /\ enable[P!PLIC_CTX_S] = {PLIC_IRQ_UART} /\ claimed = {}
        /\ priority[PLIC_IRQ_UART] > threshold[P!PLIC_CTX_S]
    BY Names DEF ConsoleInv, Programmed, InService
  <2>3. PLIC_IRQ_UART \in P!Eligible(P!PLIC_CTX_S)
    BY <2>1, <2>2 DEF P!Eligible, P!Sources, PLIC_IRQ_UART
  <2> QED
    BY <2>3 DEF ConsoleInv, P!SeipIffEligible
<1> QED
  BY <1>1, InvInit, InvStep, PTL DEF Spec

(* The console implements Uart: each step of the terminal, the poll or the *)
(* driver is a step of the UART under an arbitrary guest, with the PLIC's  *)
(* pending bit for its request, or leaves the UART alone.  So whatever is  *)
(* proved of Uart, input in order among it, holds here.                    *)
THEOREM ConsoleImplementsUart == Spec => UartSpec
<1>1. Init => U!Init
  BY DEF Init, P!Init
<1>2. [Next]_vars => [U!Next]_(U!vars)
  <2> SUFFICES ASSUME [Next]_vars PROVE U!Next \/ UNCHANGED U!vars
    OBVIOUS
  <2>1. CASE uart_irq_source
    BY <2>1 DEF uart_irq_source, U!Next, U!Running
  <2>2. CASE Type
    BY <2>2 DEF Type, U!Next
  <2>3. CASE EnableRx \/ StopTx \/ StartTx
    <3>1. ~exited /\ \E value \in SUBSET U!Causes : U!uart_write_IER(value)
      BY <2>3 DEF EnableRx, StopTx, StartTx, At, U!Causes
    <3> QED
      BY <3>1 DEF U!Next, U!Running, U!GuestAccess
  <2>4. CASE Claim
    <3>1. /\ PLIC_IRQ_UART \in pending /\ PLIC_IRQ_UART \notin pending'
          /\ ~exited /\ UNCHANGED uartVars
      BY <2>4 DEF Claim, At, P!plic_claim, P!IsBest, P!Eligible
    <3>2. U!Claim
      BY <3>1 DEF U!Claim, uartVars, U!rx
    <3> QED
      BY <3>1, <3>2 DEF U!Next, U!Running
  <2>5. CASE Identify
    BY <2>5 DEF Identify, At, U!Next, U!Running, U!GuestAccess
  <2>6. CASE Receive
    BY <2>6 DEF Receive, At, U!Next, U!Running, U!GuestAccess
  <2>7. CASE Status
    BY <2>7 DEF Status, At, U!Next, U!Running, U!GuestAccess
  <2>8. CASE Transmit
    BY <2>8 DEF Transmit, At, U!Next, U!Running, U!GuestAccess
  <2>9. CASE UNCHANGED <<pending, uartVars>>
    BY <2>9 DEF uartVars, U!vars
  <2>10. CASE SetPriority \/ SetEnable \/ Complete \/ Write
    BY <2>9, <2>10 DEF SetPriority, SetEnable, Complete, Write, plicVars,
       P!WritePriority, P!WriteEnable, P!plic_complete
  <2> QED
    BY <2>1, <2>2, <2>3, <2>4, <2>5, <2>6, <2>7, <2>8, <2>9, <2>10
    DEF Next, Boot, Handler, vars, plicVars
<1> QED
  BY <1>1, <1>2, PTL DEF Spec, UartSpec, U!Spec
=============================================================================
