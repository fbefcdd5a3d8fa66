-------------------------------- MODULE Uart --------------------------------
(***************************************************************************)
(* The serial port of peripheral/mega_uart.c: its register handlers, which *)
(* run inside the program's instructions, its clock function, which the    *)
(* run cycle calls between them, and the acknowledge callback that         *)
(* AVR_Interrupt runs.  The program may access any register at any time;   *)
(* the peer behind the socket sends a byte whenever it likes.              *)
(*                                                                         *)
(* Registers are the sets of their one bits.  RXB is left out: the code    *)
(* only copies it into UDR0 at once.                                       *)
(***************************************************************************)
EXTENDS Interrupts, Sequences

CONSTANTS
    USART0_RX, USART0_UDRE, USART0_TX,    \* the vectors of the variant's map
    Byte,            \* data bytes; 0 is the one the code resets registers to
    NoByte,          \* Echo_Tx has not run
    BaudValues,      \* values the program gives UBRR0H:UBRR0L
    ControlValues,   \* values the program gives UCSR0B
    PollInterval     \* 200: idle receiver clocks between polls of the socket

ASSUME UartAssumption ==
    /\ {USART0_RX, USART0_UDRE, USART0_TX} \subseteq Vector
    /\ USART0_RX # USART0_TX /\ USART0_UDRE # USART0_TX
    /\ USART0_RX # USART0_UDRE
    /\ 0 \in Byte
    /\ BaudValues \subseteq Nat
    /\ ControlValues \subseteq SUBSET {"RXCIE0", "TXCIE0", "UDRIE0", "RXEN0", "TXEN0"}
    /\ PollInterval \in Nat \ {0}

VARIABLES
    irq,             \* u32IntFlags and u8IntPriority
    ucsr0a,          \* UCSR0A
    ucsr0b,          \* UCSR0B
    udr0,            \* UDR0: one cell for both directions
    bUDR_Empty,      \* TXB is free
    bTSR_Empty,      \* TSR is free
    tsr, txb, rsr,   \* TSR, TXB, RSR
    baudTicks,       \* u32BaudTicks
    txTicks,         \* u32TxTicksRemaining
    rxTicks,         \* u32RxTicksRemaining
    interval,        \* the static counter of UART_RxClock
    sent,            \* history: the byte last given to Echo_Tx
    taken            \* history: the byte last read from the socket, with the
                     \* baud value it met, until it arrives in UDR0: {} or one

txVars == <<bUDR_Empty, bTSR_Empty, tsr, txb, txTicks, sent>>
rxVars == <<rsr, rxTicks, interval, taken>>
vars == <<irq, ucsr0a, ucsr0b, udr0, baudTicks, txVars, rxVars>>

StatusBit  == {"RXC0", "TXC0", "UDRE0", "U2X0"}
ControlBit == {"RXCIE0", "TXCIE0", "UDRIE0", "RXEN0", "TXEN0"}

UART_Init ==
    /\ irq = NoRequest
    /\ ucsr0a = {"UDRE0"}
    /\ ucsr0b = {}
    /\ udr0 = 0
    /\ bUDR_Empty = TRUE /\ bTSR_Empty = TRUE
    /\ tsr = 0 /\ txb = 0 /\ rsr = 0
    /\ baudTicks = 0 /\ txTicks = 0 /\ rxTicks = 0
    /\ interval = 0
    /\ sent = NoByte
    /\ taken = {}

UART_IsTxEnabled == "TXEN0" \in ucsr0b
UART_IsRxEnabled == "RXEN0" \in ucsr0b

\* A request for vector v if its enable bit is set, on the requests made so far.
RequestIfEnabled(requests, v, enable) ==
    IF enable \in ucsr0b THEN AVR_InterruptCandidate(requests, v) ELSE requests

----------------------------------------------------------------------------
(* The program's side.                                                     *)

\* UCSR0A: the masked register is OR-ed into the register itself.
WriteUCSR0A(value) ==
    /\ LET kept == (IF "TXC0" \in value THEN ucsr0a \ {"TXC0"} ELSE ucsr0a)
                       \ {"RXC0", "UDRE0"}
       IN  ucsr0a' = ucsr0a \cup kept
    /\ UNCHANGED <<irq, ucsr0b, udr0, baudTicks, txVars, rxVars>>

UpdateIgnoresFlags(control) ==       \* mutant: the status is not tested
    LET Update(requests, v, enable) ==
            IF enable \in control
            THEN AVR_InterruptCandidate(requests, v) ELSE requests
    IN  Update(Update(Update(irq, USART0_TX, "TXCIE0"),
                      USART0_UDRE, "UDRIE0"), USART0_RX, "RXCIE0")

\* UART_UpdateInterruptFlags: only the enabled sources are looked at.
UART_UpdateInterruptFlags(control) ==
    LET Update(requests, v, enable, flag) ==
            IF enable \in control
            THEN RequestIf(requests, v, flag \in ucsr0a) ELSE requests
        tx   == Update(irq, USART0_TX, "TXCIE0", "TXC0")
        udre == Update(tx, USART0_UDRE, "UDRIE0", "UDRE0")
    IN  Update(udre, USART0_RX, "RXCIE0", "RXC0")

WriteUCSR0B(control) ==
    /\ ucsr0b' = control
    /\ irq' = UART_UpdateInterruptFlags(control)
    /\ UNCHANGED <<ucsr0a, udr0, baudTicks, txVars, rxVars>>

\* UBRR0L, UBRR0H: takes effect at the next byte.
WriteBaudReg(baud) ==
    /\ baudTicks' = baud
    /\ UNCHANGED <<irq, ucsr0a, ucsr0b, udr0, txVars, rxVars>>

BaudPeriod == IF "U2X0" \in ucsr0a THEN baudTicks \div 2 ELSE baudTicks

RestartTimer ==                      \* mutant: every write restarts the timer
    txTicks' = BaudPeriod

StartTimer ==
    txTicks' = IF txTicks = 0 THEN BaudPeriod ELSE txTicks

QueueKeepsReady(b) ==                \* mutant: UART_ClearEmpty() missing
    /\ txb' = b
    /\ bUDR_Empty' = FALSE
    /\ UNCHANGED <<irq, ucsr0a, tsr, bTSR_Empty>>

LoadTSR(b) ==
    /\ tsr' = b
    /\ txb' = 0
    /\ bTSR_Empty' = FALSE
    /\ bUDR_Empty' = TRUE
    /\ ucsr0a' = ucsr0a \cup {"UDRE0"}
    /\ irq' = RequestIfEnabled(irq, USART0_UDRE, "UDRIE0")

QueueTXB(b) ==
    /\ txb' = b
    /\ bUDR_Empty' = FALSE
    /\ ucsr0a' = ucsr0a \ {"UDRE0"}
    /\ UNCHANGED <<irq, tsr, bTSR_Empty>>

\* UDR0, with the transmitter off: only the cell changes.
WriteUDR0Disabled(b) ==
    /\ ~UART_IsTxEnabled
    /\ udr0' = b
    /\ UNCHANGED <<irq, ucsr0a, ucsr0b, baudTicks, txVars, rxVars>>

WriteUDR0(b) ==
    /\ UART_IsTxEnabled
    /\ udr0' = b
    /\ StartTimer
    /\ IF bTSR_Empty THEN LoadTSR(b) ELSE QueueTXB(b)
    /\ UNCHANGED <<ucsr0b, baudTicks, sent, rxVars>>

\* UART_Read of UDR0: the value is the cell's; the request is not withdrawn.
ReadUDR0 ==
    /\ ucsr0a' = ucsr0a \ {"RXC0"}
    /\ UNCHANGED <<irq, ucsr0b, udr0, baudTicks, txVars, rxVars>>

----------------------------------------------------------------------------
(* UART_Clock: first the transmitter, then the receiver.                   *)

\* The byte in TSR leaves; TXB moves up.  The timer is not started again.
ShiftNext ==
    /\ ~bUDR_Empty
    /\ tsr' = txb
    /\ txb' = 0
    /\ bUDR_Empty' = TRUE
    /\ bTSR_Empty' = FALSE

ShiftLast ==
    /\ bUDR_Empty
    /\ tsr' = 0
    /\ txb' = 0
    /\ bTSR_Empty' = TRUE
    /\ UNCHANGED bUDR_Empty

TxTick == UART_IsTxEnabled /\ txTicks > 0

UART_TxClock ==
    IF TxTick
    THEN /\ txTicks' = txTicks - 1
         /\ IF txTicks = 1
            THEN sent' = tsr /\ (ShiftNext \/ ShiftLast)
            ELSE UNCHANGED <<tsr, txb, bUDR_Empty, bTSR_Empty, sent>>
    ELSE UNCHANGED txVars

\* Status and requests after the transmitter's half of the clock.
TxStatus ==
    IF TxTick /\ txTicks = 1
    THEN ucsr0a \cup {IF bUDR_Empty THEN "TXC0" ELSE "UDRE0"} ELSE ucsr0a

TxRequests ==
    IF TxTick /\ txTicks = 1
    THEN IF bUDR_Empty THEN RequestIfEnabled(irq, USART0_TX, "TXCIE0")
                       ELSE RequestIfEnabled(irq, USART0_UDRE, "UDRIE0")
    ELSE irq

NoReceive ==
    /\ UNCHANGED <<udr0, rsr, taken>>
    /\ ucsr0a' = TxStatus
    /\ irq' = TxRequests

RxTickClearsFirst ==                 \* mutant: RSR = 0 before RXB = RSR
    /\ rxTicks > 0
    /\ rxTicks' = rxTicks - 1
    /\ UNCHANGED interval
    /\ IF rxTicks = 1
       THEN /\ udr0' = 0 /\ rsr' = 0 /\ taken' = {}
            /\ ucsr0a' = TxStatus \cup {"RXC0"}
            /\ irq' = RequestIfEnabled(TxRequests, USART0_RX, "RXCIE0")
       ELSE NoReceive

RxTick ==
    /\ rxTicks > 0
    /\ rxTicks' = rxTicks - 1
    /\ UNCHANGED interval
    /\ IF rxTicks = 1
       THEN /\ udr0' = rsr
            /\ rsr' = 0 /\ taken' = {}
            /\ ucsr0a' = TxStatus \cup {"RXC0"}
            /\ irq' = RequestIfEnabled(TxRequests, USART0_RX, "RXCIE0")
       ELSE NoReceive

\* No byte is shifting: the socket is polled now and then (under --uart; without
\* it the receiver's registers never change).  With UBRR0 = 0 the byte read gets
\* no time to shift: it stays in RSR and the next one read replaces it.
RxPoll ==
    /\ rxTicks = 0
    /\ interval' = (interval + 1) % PollInterval
    /\ \/ /\ interval + 1 = PollInterval
          /\ rsr' \in Byte
          /\ rxTicks' = baudTicks
          /\ taken' = {[byte |-> rsr', baud |-> baudTicks]}
          /\ UNCHANGED udr0
          /\ ucsr0a' = TxStatus
          /\ irq' = TxRequests
       \/ NoReceive /\ UNCHANGED rxTicks

UART_Clock ==
    /\ UART_TxClock
    /\ IF UART_IsRxEnabled THEN RxTick \/ RxPoll
                           ELSE NoReceive /\ UNCHANGED <<rxTicks, interval>>
    /\ UNCHANGED <<ucsr0b, baudTicks>>

----------------------------------------------------------------------------
\* AVR_Interrupt, when SREG.I is set: TXC0_Callback runs for its vector.
AVR_Interrupt ==
    /\ irq.prio # NoVector
    /\ irq' = Acknowledge(irq)
    /\ ucsr0a' = IF irq.prio = USART0_TX THEN ucsr0a \ {"TXC0"} ELSE ucsr0a
    /\ UNCHANGED <<ucsr0b, udr0, baudTicks, txVars, rxVars>>

Write ==
    \/ \E value \in SUBSET {"TXC0", "U2X0"} : WriteUCSR0A(value)
    \/ \E control \in ControlValues : WriteUCSR0B(control)
    \/ \E baud \in BaudValues : WriteBaudReg(baud)
    \/ \E b \in Byte : WriteUDR0(b) \/ WriteUDR0Disabled(b)

Next == Write \/ ReadUDR0 \/ UART_Clock \/ AVR_Interrupt

Spec == UART_Init /\ [][Next]_vars

\* IO_Clock calls UART_Clock once per CPU cycle for ever.
FairSpec == Spec /\ WF_vars(UART_Clock)

----------------------------------------------------------------------------
TypeOK ==
    /\ irq \in IrqState
    /\ ucsr0a \subseteq StatusBit
    /\ ucsr0b \subseteq ControlBit
    /\ udr0 \in Byte /\ tsr \in Byte /\ txb \in Byte /\ rsr \in Byte
    /\ bUDR_Empty \in BOOLEAN /\ bTSR_Empty \in BOOLEAN
    /\ baudTicks \in Nat /\ txTicks \in Nat /\ rxTicks \in Nat
    /\ interval \in 0 .. PollInterval - 1
    /\ sent \in Byte \cup {NoByte}
    /\ taken \subseteq [byte : Byte, baud : Nat]

\* The bytes the transmitter holds, the one shifting first.
TxQueue ==
    CASE bTSR_Empty /\ bUDR_Empty   -> <<>>
      [] bTSR_Empty /\ ~bUDR_Empty  -> <<txb>>
      [] ~bTSR_Empty /\ bUDR_Empty  -> <<tsr>>
      [] ~bTSR_Empty /\ ~bUDR_Empty -> <<tsr, txb>>

\* Bytes leave in the order they were written and UDRE0 tells when the next one
\* has room: the flag register, the two buffers and their two "empty" flags,
\* changed by the write handler and by the clock, together make a FIFO.
Fifo == INSTANCE TxFifo WITH queue <- TxQueue, ready <- "UDRE0" \in ucsr0a

SendsInOrder == Fifo!Spec

\* A pending transmit-complete request always has TXC0 behind it: the write
\* handlers, the clock and the acknowledge callback keep the two in step.
TxRequestIsTrue == USART0_TX \in irq.flags => "TXC0" \in ucsr0a

\* While the timer runs there is a byte to send, and what is in TXB waits behind
\* one in TSR: the clock never sends an empty register.
TimerHasByte ==
    /\ txTicks > 0 => ~bTSR_Empty
    /\ ~bUDR_Empty => ~bTSR_Empty

\* Once its timer runs, a byte is sent unless the program turns the transmitter
\* off, however often the program writes more data.
TimedByteIsSent == txTicks > 0 ~> txTicks = 0 \/ ~UART_IsTxEnabled

\* The byte of t goes into UDR0, with RXC0 and the request it is enabled for.
Arrives(t) ==
    /\ udr0' = t.byte
    /\ "RXC0" \in ucsr0a'
    /\ "RXCIE0" \in ucsr0b => USART0_RX \in irq'.flags

\* A byte read from the socket under a nonzero UBRR0 stays in RSR, whatever the
\* program does and however often it switches the receiver, until that very byte
\* arrives; and RXC0 is raised for such a byte only.
TakenByteKept ==
    [][/\ \A t \in taken : t.baud > 0 =>
             IF t \in taken' THEN rsr' = t.byte ELSE Arrives(t)
       /\ "RXC0" \in ucsr0a' \ ucsr0a =>
             \E t \in taken : t.baud > 0 /\ Arrives(t)]_vars

\* Such a byte is not lost on its way, and it does arrive unless the program turns
\* the receiver off.  Read under UBRR0 = 0 a byte has no timer and the code drops
\* it at the next one (mega_uart.c:633-634): nothing is claimed for it.
ReceivedByteArrives ==
    /\ TakenByteKept
    /\ (\E t \in taken : t.baud > 0) ~> (taken = {} \/ ~UART_IsRxEnabled)

\* "Only set the baud timer if the UART is idle" (mega_uart.c:405): once the
\* port has been sending, a write starts the timer only when no byte is left.
BaudTimerSetWhenIdle ==
    [][sent # NoByte /\ txTicks = 0 /\ txTicks' > 0 => bTSR_Empty]_vars
=============================================================================
