------------------------------- MODULE Timer8 -------------------------------
(***************************************************************************)
(* The 8-bit timer of peripheral/mega_timer8.c: prescaler, counter, compare*)
(* match A and overflow in the three modes the code implements, and the    *)
(* interrupt flags.  The program writes any register between two clocks.   *)
(*                                                                         *)
(* OCR0B is stored by the code and never compared, so OCF0B is raised by a *)
(* store to TIFR0 only; OCR0B and the output modes are left out.           *)
(***************************************************************************)
EXTENDS InterruptState

CONSTANTS
    CountSize,      \* number of values of TCNT0: 256
    Dividers0,      \* {1, 8, 64, 256, 1024}: the prescaler's settings
    Vec0,           \* the vector of each source; NoVector if the variant has none
    Modes0,         \* the WGM0 bits of the modes the program selects
    Counts0,        \* values the program stores in TCNT0 and OCR0A
    TifrValues0,    \* values the program stores in TIFR0
    TimskValues0    \* values the program stores in TIMSK0

Source0  == {"TOV0", "OCF0A", "OCF0B"}
WGM0Low  == {"WGM00", "WGM01"}
WGM0High == {"WGM02"}
Count    == 0 .. CountSize - 1

ASSUME Timer8Assumption ==
    /\ CountSize \in Nat \ {0, 1}
    /\ Dividers0 \subseteq Nat \ {0}
    /\ Vec0 \in [Source0 -> Vector \cup {NoVector}]
    /\ \A s, t \in Source0 : Vec0[s] = Vec0[t] /\ Vec0[s] # NoVector => s = t
    /\ Modes0 \subseteq SUBSET (WGM0Low \cup WGM0High)
    /\ Counts0 \subseteq Count
    /\ TifrValues0 \subseteq SUBSET Source0
    /\ TimskValues0 \subseteq SUBSET Source0

VARIABLES
    tcnt0, ocr0a,    \* TCNT0, OCR0A
    eWGM0,           \* eWGM: its bits that are set
    eClockSource0,   \* eClockSource: off, a divided clock, or the T0 pin
    divCycles0,      \* u16DivCycles
    divRemain0,      \* u16DivRemain
    tifr0, timsk0,   \* TIFR0, TIMSK0
    raised0          \* history: a flag was raised at the last clock

counterVars0 == <<tcnt0, ocr0a, eWGM0, eClockSource0, divCycles0, divRemain0>>
timer8Vars == <<counterVars0, tifr0, timsk0, raised0>>

Timer8_Init ==
    /\ tcnt0 = 0 /\ ocr0a = 0
    /\ eWGM0 = {}
    /\ eClockSource0 = "OFF"
    /\ divCycles0 = 0 /\ divRemain0 = 0
    /\ tifr0 = {} /\ timsk0 = {}
    /\ raised0 = FALSE

----------------------------------------------------------------------------
(* Requests.                                                               *)

Update8IgnoresMask(requests, flags, mask) ==    \* mutant: TIMSK0 is not consulted
    LET Update(i, s) == RequestIf(i, Vec0[s], s \in flags)
    IN  Update(Update(Update(requests, "TOV0"), "OCF0A"), "OCF0B")

Update8NeverClears(requests, flags, mask) ==    \* mutant: no AVR_ClearCandidate
    LET Update(i, s) ==
            IF s \in mask /\ s \in flags
            THEN AVR_InterruptCandidate(i, Vec0[s]) ELSE i
    IN  Update(Update(Update(requests, "TOV0"), "OCF0A"), "OCF0B")

\* Timer8_IntFlagUpdate: each enabled source requests or withdraws, in turn.
Timer8_IntFlagUpdate(requests, flags, mask) ==
    LET Update(i, s) ==
            IF s \in mask THEN RequestIf(i, Vec0[s], s \in flags) ELSE i
    IN  Update(Update(Update(requests, "TOV0"), "OCF0A"), "OCF0B")

----------------------------------------------------------------------------
(* The program's stores.                                                   *)

Configured0 == UNCHANGED <<irq, tifr0, timsk0, raised0>>

TCCR0A_Write ==
    /\ \E mode \in Modes0 : eWGM0' = (eWGM0 \ WGM0Low) \cup (mode \cap WGM0Low)
    /\ Configured0
    /\ UNCHANGED <<tcnt0, ocr0a, eClockSource0, divCycles0, divRemain0>>

TCCR0B_Write ==
    /\ \E mode \in Modes0 : eWGM0' = (eWGM0 \ WGM0High) \cup (mode \cap WGM0High)
    /\ \/ eClockSource0' \in {"OFF", "T0"} /\ divCycles0' = 0
       \/ eClockSource0' = "DIV" /\ divCycles0' \in Dividers0
    /\ Configured0
    /\ UNCHANGED <<tcnt0, ocr0a, divRemain0>>

TCNT0_Write ==
    /\ tcnt0' \in Counts0
    /\ Configured0
    /\ UNCHANGED <<ocr0a, eWGM0, eClockSource0, divCycles0, divRemain0>>

OCR0A_Write ==
    /\ ocr0a' \in Counts0
    /\ Configured0
    /\ UNCHANGED <<tcnt0, eWGM0, eClockSource0, divCycles0, divRemain0>>

\* Timer8b_Write of TIFR0 and of TIMSK0: stored as written, then the update.
TIFR0_Write ==
    /\ tifr0' \in TifrValues0
    /\ irq' = Timer8_IntFlagUpdate(irq, tifr0', timsk0)
    /\ UNCHANGED <<counterVars0, timsk0, raised0>>

TIMSK0_Write ==
    /\ timsk0' \in TimskValues0
    /\ irq' = Timer8_IntFlagUpdate(irq, tifr0, timsk0')
    /\ UNCHANGED <<counterVars0, tifr0, raised0>>

ProgramStep0 ==
    \/ TCCR0A_Write \/ TCCR0B_Write \/ TCNT0_Write \/ OCR0A_Write
    \/ TIFR0_Write \/ TIMSK0_Write

----------------------------------------------------------------------------
(* Timer8_Clock.                                                           *)

Prescale0 ==
    divRemain0' = IF divRemain0 \in {0, 1} THEN divCycles0 ELSE divRemain0 - 1

\* bUpdateTimer: the prescaler has run out.
Due0 == divRemain0 \in {0, 1}

\* TCNT0_Increment, on a register of eight bits.
Incremented == (tcnt0 + 1) % CountSize

\* The sources a timer update raises, by mode; the other modes count nothing.
NoOverflow0InCTC ==           \* mutant: CTC looks for a match only
    CASE eWGM0 = {} -> IF Incremented = 0 THEN {"TOV0"} ELSE {}
      [] eWGM0 = {"WGM01"} ->
            IF Incremented # 0 /\ Incremented = ocr0a THEN {"OCF0A"} ELSE {}
      [] eWGM0 = WGM0Low -> IF Incremented = CountSize - 1 THEN {"TOV0"} ELSE {}
      [] OTHER -> {}

Raised0 ==
    CASE eWGM0 = {} -> IF Incremented = 0 THEN {"TOV0"} ELSE {}
      [] eWGM0 = {"WGM01"} ->
            IF Incremented = 0 THEN {"TOV0"}
            ELSE IF Incremented = ocr0a THEN {"OCF0A"} ELSE {}
      [] eWGM0 = WGM0Low -> IF Incremented = CountSize - 1 THEN {"TOV0"} ELSE {}
      [] OTHER -> {}

Counting0 == eWGM0 \in {{}, {"WGM01"}, WGM0Low}

TimerUpdate0 ==
    /\ tcnt0' = IF ~Counting0 THEN tcnt0
                ELSE IF "OCF0A" \in Raised0 THEN 0 ELSE Incremented
    /\ tifr0' = tifr0 \cup Raised0
    /\ irq' = IF Raised0 = {} THEN irq
              ELSE Timer8_IntFlagUpdate(irq, tifr0', timsk0)
    /\ raised0' = (Raised0 # {})

Timer8_Clock ==
    /\ IF eClockSource0 = "DIV"
       THEN /\ Prescale0
            /\ IF Due0 THEN TimerUpdate0
               ELSE raised0' = FALSE /\ UNCHANGED <<tcnt0, tifr0, irq>>
       ELSE raised0' = FALSE /\ UNCHANGED <<divRemain0, tcnt0, tifr0, irq>>
    /\ UNCHANGED <<ocr0a, eWGM0, eClockSource0, divCycles0, timsk0>>

\* The acknowledge callbacks: the flag of the dispatched vector goes down.
Timer8_Ack ==
    /\ tifr0' = {s \in tifr0 : Vec0[s] # irq.prio}
    /\ UNCHANGED <<counterVars0, timsk0, raised0>>

----------------------------------------------------------------------------
Type8OK ==
    /\ tcnt0 \in Count /\ ocr0a \in Count
    /\ eWGM0 \subseteq WGM0Low \cup WGM0High
    /\ eClockSource0 \in {"OFF", "DIV", "T0"}
    /\ divCycles0 \in Nat /\ divRemain0 \in Nat
    /\ tifr0 \subseteq Source0 /\ timsk0 \subseteq Source0
    /\ raised0 \in BOOLEAN
=============================================================================
