------------------------------ MODULE Console -------------------------------
(***************************************************************************)
(* The console path end to end: terminal, src/uart.c, src/plic.c, and a    *)
(* guest with an interrupt-driven serial driver.  The UART and the PLIC    *)
(* are the modules Uart and Plic; where the UART's code calls              *)
(* plic_set_pending, the two take one joint step.                          *)
(*                                                                         *)
(* The driver is external (Linux's 8250 and PLIC drivers), modelled by the *)
(* accesses it makes: claim, then read IIR and serve what it reports until *)
(* it reports nothing, then complete; transmission is started by enabling  *)
(* THRE and stopped by disabling it.  stdin is polled between any two of   *)
(* these accesses.                                                         *)
(***************************************************************************)
EXTENDS Integers, Sequences

CONSTANTS MaxInput, QuitAt, MaxOutput

VARIABLES priority, pending, enable, threshold, claimed, seip,
          dlab, ier, rx_buf, rx_ready, thre_ip,
          typed, taken, received, sent, exited,
          driver,   \* where the driver is
          queued    \* bytes handed to the driver for output

PLIC_IRQ_UART == 1

P == INSTANCE Plic WITH NumSources <- 2, MaxLevel <- 1
U == INSTANCE Uart WITH irq_pending <- PLIC_IRQ_UART \in pending

plicVars == <<priority, pending, enable, threshold, claimed, seip>>
uartVars == <<dlab, ier, rx_buf, rx_ready, thre_ip, typed, taken, received, sent, exited>>
vars     == <<plicVars, uartVars, driver, queued>>

Init == /\ P!Init /\ U!Init
        /\ driver = "boot"
        /\ queued = 0

-----------------------------------------------------------------------------
(* What a UART step does to the PLIC: a call of plic_set_pending or        *)
(* nothing.  The UART's action decides which, through irq_pending.         *)
PlicRequest == P!plic_set_pending(PLIC_IRQ_UART) \/ UNCHANGED plicVars

uart_irq_source ==
    /\ ~exited
    /\ PlicRequest /\ U!uart_irq_source
    /\ UNCHANGED <<driver, queued>>

Type == PlicRequest /\ U!Type /\ UNCHANGED <<driver, queued>>

(* A driver step at location from, on to location to.                      *)
At(from, to) == ~exited /\ driver = from /\ driver' = to

(* Start-up: the PLIC source first, then the UART's receive interrupt.     *)
SetPriority ==
    /\ At("boot", "boot2")
    /\ P!WritePriority(PLIC_IRQ_UART, 1) /\ UNCHANGED <<uartVars, queued>>
SetEnable ==
    /\ At("boot2", "boot3")
    /\ P!WriteEnable(P!PLIC_CTX_S, {PLIC_IRQ_UART}) /\ UNCHANGED <<uartVars, queued>>
EnableRx ==
    /\ At("boot3", "idle")
    /\ PlicRequest /\ U!uart_write_IER({U!RDA})
    /\ UNCHANGED queued

(* The external interrupt is taken and the source claimed.                 *)
Claim ==
    /\ seip /\ At("idle", "serve")
    /\ P!plic_claim(P!PLIC_CTX_S, PLIC_IRQ_UART)
    /\ UNCHANGED <<uartVars, queued>>

Identify ==
    \E value \in U!Causes \cup {U!NO_INT} :
        /\ At("serve", value)
        /\ PlicRequest /\ U!uart_read_IIR(value)
        /\ UNCHANGED queued

Receive ==
    /\ At(U!RDA, "status")
    /\ PlicRequest /\ U!uart_read_RBR
    /\ UNCHANGED queued

(* More data is read without going back to IIR.                            *)
Status ==
    \E ready \in BOOLEAN :
        /\ At("status", IF ready THEN U!RDA ELSE "serve")
        /\ PlicRequest /\ U!uart_read_LSR(ready)
        /\ UNCHANGED queued

Transmit ==
    /\ sent < queued /\ At(U!THRE, "serve")
    /\ PlicRequest /\ U!uart_write_THR
    /\ UNCHANGED queued

StopTx ==
    /\ sent = queued /\ At(U!THRE, "serve")
    /\ PlicRequest /\ U!uart_write_IER({U!RDA})
    /\ UNCHANGED queued

Complete ==
    /\ At(U!NO_INT, "idle")
    /\ P!plic_complete(PLIC_IRQ_UART)
    /\ UNCHANGED <<uartVars, queued>>

(* Output is queued with interrupts off, hence in "idle" only.             *)
Write ==
    /\ queued < MaxOutput /\ At("idle", "idle")
    /\ queued' = queued + 1
    /\ UNCHANGED <<plicVars, uartVars>>
StartTx ==
    /\ sent < queued /\ U!THRE \notin ier /\ At("idle", "idle")
    /\ PlicRequest /\ U!uart_write_IER({U!RDA, U!THRE})
    /\ UNCHANGED queued

Handler == Identify \/ Receive \/ Status \/ Transmit \/ StopTx \/ Complete
Boot    == SetPriority \/ SetEnable \/ EnableRx

Next == uart_irq_source \/ Type \/ Boot \/ Claim \/ Handler \/ Write \/ StartTx

(* The main loop keeps calling cpu_step until the process exits, so stdin  *)
(* is polled again and again and the guest makes progress; nothing obliges *)
(* the user to type or the guest to write.                                 *)
Fairness == /\ WF_vars(uart_irq_source)
            /\ WF_vars(Boot) /\ WF_vars(Claim) /\ WF_vars(Handler) /\ WF_vars(StartTx)

Spec == Init /\ [][Next]_vars /\ Fairness

-----------------------------------------------------------------------------
(* No lost interrupt: whenever the driver has left its handler and waits,  *)
(* a byte in the buffer, or output it has yet to send with THRE enabled,   *)
(* keeps SEIP high.  The dangerous orders are a byte that arrives after    *)
(* the last read of IIR but before the completion, and a request made      *)
(* while the source is still claimed.                                      *)
NoLostInterrupt ==
    driver = "idle" /\ ~exited =>
        \A cause \in U!Causes : U!Asserted(cause) => seip

(* Every byte typed reaches the guest, unless Ctrl-\ ends the emulator.    *)
TypedIsReceived == \A n \in 1 .. MaxInput : typed >= n ~> Len(received) >= n \/ exited

(* Every byte queued is transmitted: the THRE interrupts never dry up.     *)
QueuedIsSent == \A n \in 1 .. MaxOutput : queued >= n ~> sent >= n \/ exited

(* The UART inside the console behaves as Uart, with the PLIC's pending    *)
(* bit for its request.                                                    *)
UartSpec == U!Spec
=============================================================================
