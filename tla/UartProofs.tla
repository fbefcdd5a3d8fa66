----------------------------- MODULE UartProofs -----------------------------
(***************************************************************************)
(* The safety properties of the serial port and the FIFO it implements,    *)
(* for every set of bytes, baud rates and control values.                  *)
(***************************************************************************)
EXTENDS Uart, InterruptLemmas, SequenceTheorems

\* UDRE0 is the register's copy of bUDR_Empty; two places could disagree.
ReadyIsTrue == "UDRE0" \in ucsr0a <=> bUDR_Empty

IInv ==
    /\ TypeOK
    /\ ReadyIsTrue
    /\ TimerHasByte
    /\ TxRequestIsTrue

\* The period a write loads into the timer is a number of clocks.
LEMMA PeriodIsNat == ASSUME TypeOK PROVE BaudPeriod \in Nat
<1>1. baudTicks \in Nat /\ baudTicks \div 2 \in Nat
  BY DEF TypeOK
<1>. QED  BY <1>1 DEF BaudPeriod

LEMMA InitIInv == UART_Init => IInv
  BY UartAssumption, VectorAssumption
     DEF UART_Init, IInv, TypeOK, ReadyIsTrue, TimerHasByte, TxRequestIsTrue,
         NoRequest, IrqState, StatusBit, ControlBit

----------------------------------------------------------------------------
(* Requests.                                                               *)

LEMMA RequestsTyped ==
    ASSUME NEW i \in IrqState, NEW v \in Vector, NEW enable
    PROVE  /\ RequestIfEnabled(i, v, enable) \in IrqState
           /\ \A w \in RequestIfEnabled(i, v, enable).flags : w \in i.flags \/ w = v
  BY RequestTypes DEF RequestIfEnabled

\* After UART_UpdateInterruptFlags a transmit-complete request means TXC0.
LEMMA UpdateTyped ==
    ASSUME TypeOK, TxRequestIsTrue, NEW control
    PROVE  /\ UART_UpdateInterruptFlags(control) \in IrqState
           /\ USART0_TX \in UART_UpdateInterruptFlags(control).flags
                 => "TXC0" \in ucsr0a
<1> DEFINE Update(requests, v, enable, flag) ==
               IF enable \in control
               THEN RequestIf(requests, v, flag \in ucsr0a) ELSE requests
           tx   == Update(irq, USART0_TX, "TXCIE0", "TXC0")
           udre == Update(tx, USART0_UDRE, "UDRIE0", "UDRE0")
           rx   == Update(udre, USART0_RX, "RXCIE0", "RXC0")
<1>1. ASSUME NEW i \in IrqState, NEW v \in Vector, NEW e, NEW f
      PROVE  /\ Update(i, v, e, f) \in IrqState
             /\ v # USART0_TX => (USART0_TX \in Update(i, v, e, f).flags
                                      => USART0_TX \in i.flags)
  BY <1>1, RequestTypes DEF RequestIf
<1>2. tx \in IrqState /\ (USART0_TX \in tx.flags => "TXC0" \in ucsr0a)
  BY RequestTypes, UartAssumption DEF RequestIf, TypeOK, TxRequestIsTrue
<1>3. UART_UpdateInterruptFlags(control) = rx
  BY DEF UART_UpdateInterruptFlags
<1>. HIDE DEF tx, Update
<1>4. /\ udre \in IrqState
      /\ USART0_TX \in udre.flags => USART0_TX \in tx.flags
  BY <1>1, <1>2, UartAssumption
<1>. HIDE DEF udre
<1>5. /\ rx \in IrqState
      /\ USART0_TX \in rx.flags => USART0_TX \in udre.flags
  BY <1>1, <1>4, UartAssumption
<1>. QED  BY <1>2, <1>3, <1>4, <1>5

\* What the clock requests, transmitter first and receiver second.
LEMMA ClockTyped ==
    ASSUME IInv
    PROVE  /\ TxStatus \subseteq StatusBit
           /\ ucsr0a \subseteq TxStatus
           /\ TxRequests \in IrqState
           /\ USART0_TX \in TxRequests.flags => "TXC0" \in TxStatus
<1>1. /\ irq \in IrqState
      /\ ucsr0a \subseteq StatusBit
      /\ USART0_TX \in irq.flags => "TXC0" \in ucsr0a
  BY DEF IInv, TypeOK, TxRequestIsTrue
<1>2. TxStatus \subseteq StatusBit /\ ucsr0a \subseteq TxStatus
  BY <1>1 DEF TxStatus, StatusBit
<1>3. CASE TxTick /\ txTicks = 1 /\ bUDR_Empty
  <2>1. TxRequests = RequestIfEnabled(irq, USART0_TX, "TXCIE0")
    BY <1>3 DEF TxRequests
  <2>2. "TXC0" \in TxStatus
    BY <1>3 DEF TxStatus
  <2>. QED  BY <1>1, <1>2, <2>1, <2>2, RequestsTyped, UartAssumption
<1>4. CASE TxTick /\ txTicks = 1 /\ ~bUDR_Empty
  <2>1. TxRequests = RequestIfEnabled(irq, USART0_UDRE, "UDRIE0")
    BY <1>4 DEF TxRequests
  <2>2. USART0_TX \in TxRequests.flags => USART0_TX \in irq.flags
    BY <1>1, <2>1, RequestsTyped, UartAssumption
  <2>. QED  BY <1>1, <1>2, <2>1, <2>2, RequestsTyped, UartAssumption
<1>5. CASE ~ (TxTick /\ txTicks = 1)
  BY <1>1, <1>2, <1>5 DEF TxRequests
<1>. QED  BY <1>3, <1>4, <1>5

----------------------------------------------------------------------------
(* The program's writes.                                                   *)

LEMMA WriteKeepsIInv == IInv /\ (Write \/ ReadUDR0) => IInv'
<1> SUFFICES ASSUME IInv, Write \/ ReadUDR0 PROVE IInv'
  OBVIOUS
<1>1. CASE \E value \in SUBSET {"TXC0", "U2X0"} : WriteUCSR0A(value)
  <2>1. /\ ucsr0a' = ucsr0a
        /\ UNCHANGED <<irq, ucsr0b, udr0, baudTicks, txVars, rxVars>>
    BY <1>1 DEF WriteUCSR0A
  <2>. QED
    BY <2>1 DEF IInv, TypeOK, ReadyIsTrue, TimerHasByte, TxRequestIsTrue,
                txVars, rxVars
<1>2. CASE \E control \in ControlValues : WriteUCSR0B(control)
  <2>1. PICK control \in ControlValues :
           /\ ucsr0b' = control
           /\ irq' = UART_UpdateInterruptFlags(control)
           /\ UNCHANGED <<ucsr0a, udr0, baudTicks, txVars, rxVars>>
    BY <1>2 DEF WriteUCSR0B
  <2>2. irq' \in IrqState /\ (USART0_TX \in irq'.flags => "TXC0" \in ucsr0a)
    BY <2>1, UpdateTyped DEF IInv
  <2>3. ucsr0b' \subseteq ControlBit
    BY <2>1, UartAssumption DEF ControlBit
  <2>. QED
    BY <2>1, <2>2, <2>3
       DEF IInv, TypeOK, ReadyIsTrue, TimerHasByte, TxRequestIsTrue,
           txVars, rxVars
<1>3. CASE \E baud \in BaudValues : WriteBaudReg(baud)
  BY <1>3, UartAssumption
     DEF WriteBaudReg, IInv, TypeOK, ReadyIsTrue, TimerHasByte,
         TxRequestIsTrue, txVars, rxVars
<1>4. CASE \E b \in Byte : WriteUDR0Disabled(b)
  BY <1>4 DEF WriteUDR0Disabled, IInv, TypeOK, ReadyIsTrue, TimerHasByte,
              TxRequestIsTrue, txVars, rxVars
<1>5. ASSUME NEW b \in Byte, WriteUDR0(b) PROVE IInv'
  <2>1. /\ udr0' = b
        /\ txTicks' \in Nat
        /\ UNCHANGED <<ucsr0b, baudTicks, sent, rsr, rxTicks, interval, taken>>
    BY <1>5, PeriodIsNat DEF WriteUDR0, StartTimer, rxVars, IInv, TypeOK
  <2>2. CASE bTSR_Empty
    <3>1. /\ tsr' = b /\ txb' = 0
          /\ bTSR_Empty' = FALSE /\ bUDR_Empty' = TRUE
          /\ ucsr0a' = ucsr0a \cup {"UDRE0"}
          /\ irq' = RequestIfEnabled(irq, USART0_UDRE, "UDRIE0")
      BY <1>5, <2>2 DEF WriteUDR0, LoadTSR
    <3>2. /\ irq' \in IrqState
          /\ USART0_TX \in irq'.flags => USART0_TX \in irq.flags
      BY <3>1, RequestsTyped, UartAssumption DEF IInv, TypeOK
    <3>. QED
      BY <2>1, <3>1, <3>2, UartAssumption
         DEF IInv, TypeOK, StatusBit, ReadyIsTrue, TimerHasByte, TxRequestIsTrue
  <2>3. CASE ~bTSR_Empty
    <3>1. /\ txb' = b /\ bUDR_Empty' = FALSE
          /\ ucsr0a' = ucsr0a \ {"UDRE0"}
          /\ UNCHANGED <<irq, tsr, bTSR_Empty>>
      BY <1>5, <2>3 DEF WriteUDR0, QueueTXB
    <3>. QED
      BY <2>1, <2>3, <3>1
         DEF IInv, TypeOK, ReadyIsTrue, TimerHasByte, TxRequestIsTrue
  <2>. QED  BY <2>2, <2>3
<1>6. CASE ReadUDR0
  BY <1>6 DEF ReadUDR0, IInv, TypeOK, ReadyIsTrue, TimerHasByte,
              TxRequestIsTrue, txVars, rxVars
<1>. QED  BY <1>1, <1>2, <1>3, <1>4, <1>5, <1>6 DEF Write

----------------------------------------------------------------------------
(* The clock and the dispatch.                                             *)

\* The transmitter's half: what leaves, what moves up, what the timer does.
LEMMA TxClockKeeps ==
    ASSUME IInv, UART_TxClock
    PROVE  /\ txTicks' \in Nat
           /\ tsr' \in Byte /\ txb' \in Byte
           /\ bUDR_Empty' \in BOOLEAN /\ bTSR_Empty' \in BOOLEAN
           /\ sent' \in Byte \cup {NoByte}
           /\ TimerHasByte'
           /\ "UDRE0" \in TxStatus <=> bUDR_Empty'
<1>1. CASE TxTick /\ txTicks = 1
  <2>1. txTicks' = 0 /\ sent' = tsr /\ (ShiftNext \/ ShiftLast)
    BY <1>1 DEF UART_TxClock
  <2>2. TxStatus = ucsr0a \cup {IF bUDR_Empty THEN "TXC0" ELSE "UDRE0"}
    BY <1>1 DEF TxStatus
  <2>3. /\ tsr \in Byte /\ txb \in Byte /\ 0 \in Byte
        /\ bUDR_Empty \in BOOLEAN
        /\ "UDRE0" \in ucsr0a <=> bUDR_Empty
    BY UartAssumption DEF IInv, TypeOK, ReadyIsTrue
  <2>4. CASE ShiftNext
    <3>1. "UDRE0" \in TxStatus
      BY <2>2, <2>4 DEF ShiftNext
    <3>. QED  BY <2>1, <2>3, <2>4, <3>1 DEF ShiftNext, TimerHasByte
  <2>5. CASE ShiftLast
    <3>1. "UDRE0" \in TxStatus
      BY <2>2, <2>3, <2>5 DEF ShiftLast
    <3>. QED  BY <2>1, <2>3, <2>5, <3>1 DEF ShiftLast, TimerHasByte
  <2>. QED  BY <2>1, <2>4, <2>5
<1>2. CASE ~ (TxTick /\ txTicks = 1)
  <2>1. /\ UNCHANGED <<tsr, txb, bUDR_Empty, bTSR_Empty, sent>>
        /\ \/ txTicks' = txTicks
           \/ txTicks > 0 /\ txTicks' = txTicks - 1
    BY <1>2 DEF UART_TxClock, TxTick, txVars
  <2>2. TxStatus = ucsr0a
    BY <1>2 DEF TxStatus
  <2>. QED
    BY <2>1, <2>2 DEF IInv, TypeOK, ReadyIsTrue, TimerHasByte
<1>. QED  BY <1>1, <1>2

\* The receiver's half adds at most RXC0 and a receive request.
LEMMA RxClockKeeps ==
    ASSUME IInv, UART_Clock
    PROVE  /\ UNCHANGED <<ucsr0b, baudTicks>>
           /\ udr0' \in Byte /\ rsr' \in Byte
           /\ rxTicks' \in Nat
           /\ taken' \subseteq [byte : Byte, baud : Nat]
           /\ interval' \in 0 .. PollInterval - 1
           /\ irq' \in IrqState
           /\ ucsr0a' \in {TxStatus, TxStatus \cup {"RXC0"}}
           /\ USART0_TX \in irq'.flags => USART0_TX \in TxRequests.flags
<1>1. /\ udr0 \in Byte /\ rsr \in Byte
      /\ rxTicks \in Nat /\ baudTicks \in Nat
      /\ interval \in 0 .. PollInterval - 1
      /\ taken \subseteq [byte : Byte, baud : Nat]
      /\ PollInterval \in Nat \ {0}
      /\ TxRequests \in IrqState
  BY ClockTyped, UartAssumption DEF IInv, TypeOK
<1>2. UNCHANGED <<ucsr0b, baudTicks>>
  BY DEF UART_Clock
<1>3. CASE RxTick
  <2>1. CASE rxTicks = 1
    <3>1. /\ udr0' = rsr /\ rsr' = 0 /\ rxTicks' = rxTicks - 1
          /\ interval' = interval /\ taken' = {}
          /\ ucsr0a' = TxStatus \cup {"RXC0"}
          /\ irq' = RequestIfEnabled(TxRequests, USART0_RX, "RXCIE0")
      BY <1>3, <2>1 DEF RxTick
    <3>. QED
      BY <1>1, <1>2, <2>1, <3>1, RequestsTyped, UartAssumption
  <2>2. CASE rxTicks # 1
    BY <1>1, <1>2, <1>3, <2>2 DEF RxTick, NoReceive
  <2>. QED  BY <2>1, <2>2
<1>4. CASE RxPoll
  <2>1. interval' \in 0 .. PollInterval - 1
    <3>1. interval' = (interval + 1) % PollInterval
      BY <1>4 DEF RxPoll
    <3>. QED  BY <1>1, <3>1
  <2>. QED
    BY <1>1, <1>2, <1>4, <2>1 DEF RxPoll, NoReceive
<1>5. CASE NoReceive /\ UNCHANGED <<rxTicks, interval>>
  BY <1>1, <1>2, <1>5 DEF NoReceive
<1>. QED  BY <1>3, <1>4, <1>5 DEF UART_Clock

LEMMA ClockKeepsIInv == IInv /\ UART_Clock => IInv'
<1> SUFFICES ASSUME IInv, UART_Clock PROVE IInv'
  OBVIOUS
<1>1. UART_TxClock
  BY DEF UART_Clock
<1>2. ucsr0a' \subseteq StatusBit /\ TxStatus \subseteq ucsr0a'
  BY RxClockKeeps, ClockTyped DEF StatusBit
<1>3. TypeOK'
  BY <1>1, <1>2, TxClockKeeps, RxClockKeeps DEF IInv, TypeOK
<1>4. ReadyIsTrue'
  BY <1>1, TxClockKeeps, RxClockKeeps DEF ReadyIsTrue
<1>5. TimerHasByte'
  BY <1>1, TxClockKeeps
<1>6. TxRequestIsTrue'
  BY <1>2, RxClockKeeps, ClockTyped DEF TxRequestIsTrue
<1>. QED  BY <1>3, <1>4, <1>5, <1>6 DEF IInv

\* The dispatch withdraws the request whose flag the callback clears.
LEMMA DispatchKeepsIInv == IInv /\ AVR_Interrupt => IInv'
<1> SUFFICES ASSUME IInv, AVR_Interrupt PROVE IInv'
  OBVIOUS
<1>1. irq' \in IrqState /\ irq'.flags = irq.flags \ {irq.prio}
  BY AcknowledgeAgrees DEF AVR_Interrupt, IInv, TypeOK
<1>2. /\ ucsr0a' = IF irq.prio = USART0_TX THEN ucsr0a \ {"TXC0"} ELSE ucsr0a
      /\ UNCHANGED <<ucsr0b, udr0, baudTicks, txVars, rxVars>>
  BY DEF AVR_Interrupt
<1>. QED
  BY <1>1, <1>2 DEF IInv, TypeOK, ReadyIsTrue, TimerHasByte, TxRequestIsTrue,
                    txVars, rxVars

LEMMA StepKeepsIInv == IInv /\ [Next]_vars => IInv'
<1>1. IInv /\ UNCHANGED vars => IInv'
  BY DEF vars, txVars, rxVars, IInv, TypeOK, ReadyIsTrue, TimerHasByte,
         TxRequestIsTrue
<1>. QED
  BY <1>1, WriteKeepsIInv, ClockKeepsIInv, DispatchKeepsIInv DEF Next

LEMMA InvariantHolds == Spec => []IInv
  BY InitIInv, StepKeepsIInv, PTL DEF Spec

----------------------------------------------------------------------------
(* The receiver.                                                           *)

\* The byte taken from the socket lies in RSR, and the timer runs just when it was
\* taken under a nonzero UBRR0.
Receiving ==
    /\ \A t \in taken : rsr = t.byte /\ (t.baud > 0 => rxTicks > 0)
    /\ rxTicks > 0 => \E t \in taken : t.baud > 0

\* What a step does to the byte on its way: nothing, an arrival, or, with no timer
\* running, another byte in its place.
Untouched == UNCHANGED <<rsr, rxTicks, taken>> /\ ("RXC0" \in ucsr0a' => "RXC0" \in ucsr0a)

Shifting ==
    /\ rxTicks > 1 /\ rxTicks' = rxTicks - 1
    /\ UNCHANGED <<rsr, taken>>
    /\ "RXC0" \in ucsr0a' => "RXC0" \in ucsr0a

Arrival ==
    /\ rxTicks = 1 /\ rxTicks' = 0 /\ taken' = {}
    /\ udr0' = rsr
    /\ "RXC0" \in ucsr0a'
    /\ "RXCIE0" \in ucsr0b => USART0_RX \in irq'.flags

Taking ==
    /\ rxTicks = 0 /\ rxTicks' = baudTicks
    /\ taken' = {[byte |-> rsr', baud |-> baudTicks]}
    /\ "RXC0" \in ucsr0a' => "RXC0" \in ucsr0a

LEMMA ReceiverStep ==
    ASSUME TypeOK, [Next]_vars
    PROVE  Untouched \/ Shifting \/ Arrival \/ Taking
<1>1. CASE Write
  <2>1. CASE \E value \in SUBSET {"TXC0", "U2X0"} : WriteUCSR0A(value)
    BY <2>1 DEF WriteUCSR0A, rxVars, Untouched
  <2>2. CASE \E control \in ControlValues : WriteUCSR0B(control)
    BY <2>2 DEF WriteUCSR0B, rxVars, Untouched
  <2>3. CASE \E baud \in BaudValues : WriteBaudReg(baud)
    BY <2>3 DEF WriteBaudReg, rxVars, Untouched
  <2>4. CASE \E b \in Byte : WriteUDR0(b) \/ WriteUDR0Disabled(b)
    BY <2>4 DEF WriteUDR0, WriteUDR0Disabled, LoadTSR, QueueTXB, rxVars, Untouched
  <2>. QED  BY <1>1, <2>1, <2>2, <2>3, <2>4 DEF Write
<1>2. CASE ReadUDR0 \/ AVR_Interrupt \/ UNCHANGED vars
  BY <1>2 DEF ReadUDR0, AVR_Interrupt, vars, rxVars, Untouched
<1>3. CASE UART_Clock
  <2>1. "RXC0" \in TxStatus => "RXC0" \in ucsr0a
    BY DEF TxStatus
  <2>2. rxTicks \in Nat
    BY DEF TypeOK
  <2>3. CASE RxTick /\ rxTicks = 1
    <3>1. /\ rxTicks' = rxTicks - 1 /\ taken' = {} /\ udr0' = rsr
          /\ ucsr0a' = TxStatus \cup {"RXC0"}
          /\ irq' = RequestIfEnabled(TxRequests, USART0_RX, "RXCIE0")
      BY <2>3 DEF RxTick
    <3>2. "RXCIE0" \in ucsr0b => USART0_RX \in irq'.flags
      BY <3>1, UartAssumption, VectorAssumption
         DEF RequestIfEnabled, AVR_InterruptCandidate, Vector
    <3>. QED  BY <2>3, <3>1, <3>2 DEF Arrival
  <2>4. CASE RxTick /\ rxTicks # 1
    BY <2>1, <2>2, <2>4 DEF RxTick, NoReceive, Shifting
  <2>5. CASE RxPoll
    BY <2>1, <2>5 DEF RxPoll, NoReceive, Taking, Untouched
  <2>6. CASE NoReceive /\ UNCHANGED <<rxTicks, interval>>
    BY <2>1, <2>6 DEF NoReceive, Untouched
  <2>. QED  BY <1>3, <2>3, <2>4, <2>5, <2>6 DEF UART_Clock
<1>. QED  BY <1>1, <1>2, <1>3 DEF Next

LEMMA ReceivingHolds == Spec => []Receiving
<1>1. UART_Init => Receiving
  BY DEF UART_Init, Receiving
<1>2. TypeOK /\ Receiving /\ [Next]_vars => Receiving'
  <2> SUFFICES ASSUME TypeOK, Receiving, [Next]_vars PROVE Receiving'
    OBVIOUS
  <2>1. rxTicks \in Nat /\ baudTicks \in Nat
    BY DEF TypeOK
  <2>2. CASE Untouched
    BY <2>2 DEF Untouched, Receiving
  <2>3. CASE Shifting
    BY <2>1, <2>3 DEF Shifting, Receiving
  <2>4. CASE Arrival
    BY <2>4 DEF Arrival, Receiving
  <2>5. CASE Taking
    BY <2>1, <2>5 DEF Taking, Receiving
  <2>. QED  BY <2>2, <2>3, <2>4, <2>5, ReceiverStep
<1>3. IInv => TypeOK
  BY DEF IInv
<1>. QED  BY <1>1, <1>2, <1>3, InvariantHolds, PTL DEF Spec

\* No byte taken from the socket under a nonzero UBRR0 is lost, changed or announced
\* before it is there, and RXC0 announces nothing else: for any number of clocks to
\* a byte and any interval between polls.  That it does arrive is left to TLC.
THEOREM TakenKept == Spec => TakenByteKept
<1> DEFINE Kept ==
             /\ \A t \in taken : t.baud > 0 =>
                   IF t \in taken' THEN rsr' = t.byte ELSE Arrives(t)
             /\ "RXC0" \in ucsr0a' \ ucsr0a =>
                   \E t \in taken : t.baud > 0 /\ Arrives(t)
<1>1. TypeOK /\ Receiving /\ [Next]_vars => [Kept]_vars
  <2> SUFFICES ASSUME TypeOK, Receiving, [Next]_vars PROVE Kept
    OBVIOUS
  <2>1. CASE Untouched
    BY <2>1 DEF Untouched, Receiving
  <2>2. CASE Shifting
    BY <2>2 DEF Shifting, Receiving
  <2>3. CASE Arrival
    <3>1. \A t \in taken : Arrives(t)
      BY <2>3 DEF Arrival, Receiving, Arrives
    <3>2. \E t \in taken : t.baud > 0
      BY <2>3 DEF Arrival, Receiving
    <3>. QED  BY <2>3, <3>1, <3>2 DEF Arrival
  <2>4. CASE Taking
    BY <2>4 DEF Taking, Receiving
  <2>. QED  BY <2>1, <2>2, <2>3, <2>4, ReceiverStep
<1>2. IInv => TypeOK
  BY DEF IInv
<1>. QED
  BY <1>1, <1>2, InvariantHolds, ReceivingHolds, PTL DEF Spec, TakenByteKept

----------------------------------------------------------------------------
(* Refinement: the registers and their flags make a FIFO.                   *)

\* A step that leaves the transmitter and UDRE0 alone leaves the FIFO alone.
LEMMA FifoUntouched ==
    ASSUME UNCHANGED <<bUDR_Empty, bTSR_Empty, tsr, txb, sent>>,
           ("UDRE0" \in ucsr0a') <=> ("UDRE0" \in ucsr0a)
    PROVE  UNCHANGED Fifo!fifoVars
  BY DEF Fifo!fifoVars, TxQueue

LEMMA AppendToOne ==
    ASSUME NEW S, NEW x \in S, NEW y \in S
    PROVE  Len(<<x>>) = 1 /\ Append(<<x>>, y) = <<x, y>>
<1>1. <<x>> \in Seq(S) /\ Len(<<x>>) = 1 /\ <<x>>[1] = x
  OBVIOUS
<1>2. /\ Append(<<x>>, y) \in Seq(S)
      /\ Len(Append(<<x>>, y)) = 2
      /\ Append(<<x>>, y)[1] = x
      /\ Append(<<x>>, y)[2] = y
  BY <1>1, AppendProperties
<1>3. /\ <<x, y>> \in Seq(S)
      /\ Len(<<x, y>>) = 2
      /\ <<x, y>>[1] = x
      /\ <<x, y>>[2] = y
  OBVIOUS
<1>4. \A i \in 1 .. 2 : Append(<<x>>, y)[i] = <<x, y>>[i]
  <2>1. \A i \in 1 .. 2 : i = 1 \/ i = 2
    OBVIOUS
  <2>. QED  BY <1>2, <1>3, <2>1
<1>5. \A i \in 1 .. Len(Append(<<x>>, y)) : Append(<<x>>, y)[i] = <<x, y>>[i]
  BY <1>2, <1>4
<1>. QED  BY <1>1, <1>2, <1>3, <1>5, SeqEqual

LEMMA WriteQueues ==
    ASSUME IInv, NEW b \in Byte, WriteUDR0(b)
    PROVE  Fifo!Write(b)
<1>1. /\ bTSR_Empty \in BOOLEAN /\ bUDR_Empty \in BOOLEAN
      /\ ~bUDR_Empty => ~bTSR_Empty
      /\ sent' = sent
  BY DEF IInv, TypeOK, TimerHasByte, WriteUDR0
<1>2. CASE bTSR_Empty
  <2>1. /\ tsr' = b /\ bTSR_Empty' = FALSE /\ bUDR_Empty' = TRUE
        /\ "UDRE0" \in ucsr0a'
    BY <1>2 DEF WriteUDR0, LoadTSR
  <2>2. TxQueue = <<>> /\ TxQueue' = <<b>>
    BY <1>1, <1>2, <2>1 DEF TxQueue
  <2>3. /\ Len(TxQueue) = 0 /\ Append(TxQueue, b) = <<b>>
        /\ Len(TxQueue') = 1
    BY <2>2
  <2>. QED
    BY <1>1, <2>1, <2>2, <2>3 DEF Fifo!Write, Fifo!Capacity
<1>3. CASE ~bTSR_Empty
  <2>1. /\ tsr' = tsr /\ txb' = b
        /\ bTSR_Empty' = FALSE /\ bUDR_Empty' = FALSE
        /\ "UDRE0" \notin ucsr0a'
    BY <1>3 DEF WriteUDR0, QueueTXB
  <2>2. TxQueue' = <<tsr, b>>
    BY <2>1 DEF TxQueue
  <2>3. Len(TxQueue') = 2
    BY <2>2
  <2>4. CASE bUDR_Empty
    <3>1. TxQueue = <<tsr>>
      BY <1>3, <2>4 DEF TxQueue
    <3>2. Len(TxQueue) = 1 /\ Append(TxQueue, b) = <<tsr, b>>
      <4>1. tsr \in Byte
        BY DEF IInv, TypeOK
      <4>. QED  BY <3>1, <4>1, AppendToOne
    <3>. QED
      BY <1>1, <2>1, <2>2, <2>3, <3>2 DEF Fifo!Write, Fifo!Capacity
  <2>5. CASE ~bUDR_Empty
    <3>1. TxQueue = <<tsr, txb>>
      BY <1>3, <2>5 DEF TxQueue
    <3>2. Len(TxQueue) = 2 /\ TxQueue[1] = tsr
      BY <3>1
    <3>. QED
      BY <1>1, <2>1, <2>2, <2>3, <3>2 DEF Fifo!Write, Fifo!Capacity
  <2>. QED  BY <2>4, <2>5
<1>. QED  BY <1>1, <1>2, <1>3

LEMMA ClockSends ==
    ASSUME IInv, UART_Clock
    PROVE  Fifo!Send \/ UNCHANGED Fifo!fifoVars
<1>1. UART_TxClock
  BY DEF UART_Clock
<1>2. "UDRE0" \in ucsr0a' <=> "UDRE0" \in TxStatus
  BY RxClockKeeps
<1>3. CASE TxTick /\ txTicks = 1
  <2>1. sent' = tsr /\ (ShiftNext \/ ShiftLast)
    BY <1>1, <1>3 DEF UART_TxClock
  <2>2. /\ bTSR_Empty = FALSE /\ bUDR_Empty \in BOOLEAN
        /\ bTSR_Empty' \in BOOLEAN /\ bUDR_Empty' = TRUE
    <3>1. /\ bTSR_Empty \in BOOLEAN /\ bUDR_Empty \in BOOLEAN
          /\ ~bTSR_Empty
      BY <1>3 DEF IInv, TypeOK, TimerHasByte
    <3>2. bUDR_Empty' = TRUE /\ bTSR_Empty' \in BOOLEAN
      BY <2>1, <3>1 DEF ShiftNext, ShiftLast
    <3>. QED  BY <3>1, <3>2
  <2>3. "UDRE0" \in ucsr0a'
    BY <1>1, <1>2, <2>2, TxClockKeeps
  <2>4. CASE ShiftNext
    <3>1. bUDR_Empty = FALSE /\ tsr' = txb /\ bTSR_Empty' = FALSE
      BY <2>2, <2>4 DEF ShiftNext
    <3>2. TxQueue = <<tsr, txb>>
      BY <2>2, <3>1 DEF TxQueue
    <3>3. TxQueue' = <<txb>>
      BY <2>2, <3>1 DEF TxQueue
    <3>4. TxQueue # <<>> /\ Head(TxQueue) = tsr /\ Tail(TxQueue) = <<txb>>
      BY <3>2
    <3>. QED  BY <2>1, <2>3, <3>3, <3>4 DEF Fifo!Send
  <2>5. CASE ShiftLast
    <3>1. bUDR_Empty = TRUE /\ bTSR_Empty' = TRUE
      BY <2>2, <2>5 DEF ShiftLast
    <3>2. TxQueue = <<tsr>>
      BY <2>2, <3>1 DEF TxQueue
    <3>3. TxQueue' = <<>>
      BY <2>2, <3>1 DEF TxQueue
    <3>4. TxQueue # <<>> /\ Head(TxQueue) = tsr /\ Tail(TxQueue) = <<>>
      BY <3>2
    <3>. QED  BY <2>1, <2>3, <3>3, <3>4 DEF Fifo!Send
  <2>. QED  BY <2>1, <2>4, <2>5
<1>4. CASE ~ (TxTick /\ txTicks = 1)
  <2>1. UNCHANGED <<bUDR_Empty, bTSR_Empty, tsr, txb, sent>>
    BY <1>1, <1>4 DEF UART_TxClock, TxTick, txVars
  <2>2. TxStatus = ucsr0a
    BY <1>4 DEF TxStatus
  <2>. QED  BY <1>2, <2>1, <2>2, FifoUntouched
<1>. QED  BY <1>3, <1>4

LEMMA StepSends ==
    ASSUME IInv, [Next]_vars
    PROVE  [Fifo!Next]_(Fifo!fifoVars)
<1>1. CASE \E b \in Byte : WriteUDR0(b)
  BY <1>1, WriteQueues DEF Fifo!Next
<1>2. CASE UART_Clock
  BY <1>2, ClockSends DEF Fifo!Next
<1>3. CASE \/ ReadUDR0 \/ AVR_Interrupt \/ UNCHANGED vars
           \/ Write /\ ~ \E b \in Byte : WriteUDR0(b)
  <2>1. /\ UNCHANGED <<bUDR_Empty, bTSR_Empty, tsr, txb, sent>>
        /\ ("UDRE0" \in ucsr0a') <=> ("UDRE0" \in ucsr0a)
    BY <1>3 DEF Write, ReadUDR0, AVR_Interrupt, vars, txVars, WriteUCSR0A,
                WriteUCSR0B, WriteBaudReg, WriteUDR0Disabled
  <2>. QED  BY <2>1, FifoUntouched
<1>. QED  BY <1>1, <1>2, <1>3 DEF Next

\* The transmitter is a FIFO of two bytes whose room UDRE0 tells, whatever the
\* program writes and whenever the clock runs.
THEOREM TransmitterIsFifo == Spec => SendsInOrder
<1>1. UART_Init => Fifo!Init
  BY DEF UART_Init, TxQueue, Fifo!Init
<1>2. IInv /\ [Next]_vars => [Fifo!Next]_(Fifo!fifoVars)
  BY StepSends
<1>. QED
  BY <1>1, <1>2, InvariantHolds, PTL DEF Spec, SendsInOrder, Fifo!Spec

\* The registers stay well typed.
THEOREM TypeCorrect == Spec => []TypeOK
<1>1. IInv => TypeOK
  BY DEF IInv
<1>. QED  BY <1>1, InvariantHolds, PTL

\* A transmit-complete interrupt is never taken without TXC0.
THEOREM TxRequestCorrect == Spec => []TxRequestIsTrue
<1>1. IInv => TxRequestIsTrue
  BY DEF IInv
<1>. QED  BY <1>1, InvariantHolds, PTL

\* The transmit timer runs only over a loaded shift register.
THEOREM TimerCorrect == Spec => []TimerHasByte
<1>1. IInv => TimerHasByte
  BY DEF IInv
<1>. QED  BY <1>1, InvariantHolds, PTL
=============================================================================
