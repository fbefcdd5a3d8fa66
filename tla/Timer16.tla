------------------------------ MODULE Timer16 ------------------------------
(***************************************************************************)
(* The 16-bit timer of peripheral/mega_timer16.c: prescaler, counter,      *)
(* compare and capture match in the two modes the code implements, the     *)
(* shared high-byte latch and the interrupt flags.  The program writes any *)
(* register between two clocks; AVR_Interrupt may dispatch at any time.    *)
(*                                                                         *)
(* OCR1B and TCCR1C are stored by the code and never read: left out.       *)
(***************************************************************************)
EXTENDS InterruptState

CONSTANTS
    ByteSize,       \* number of values of a byte
    Dividers,       \* {1, 8, 64, 256, 1024}: the prescaler's settings
    Vec,            \* the vector of each source; NoVector if the variant has none
    WGMWritten,     \* the WGM1 bits of the modes the program selects
    LowWritten,     \* low bytes the program stores in the 16-bit registers
    TifrValues,     \* values the program stores in TIFR1
    TimskValues     \* values the program stores in TIMSK1

Source  == {"TOV1", "OCF1A", "OCF1B", "ICF1"}
WGMLow  == {"WGM10", "WGM11"}
WGMHigh == {"WGM12", "WGM13"}

ASSUME Timer16Assumption ==
    /\ ByteSize \in Nat \ {0}
    /\ Dividers \subseteq Nat \ {0}
    /\ Vec \in [Source -> Vector \cup {NoVector}]
    /\ \A s, t \in Source : Vec[s] = Vec[t] /\ Vec[s] # NoVector => s = t
    /\ WGMWritten \subseteq SUBSET (WGMLow \cup WGMHigh)
    /\ LowWritten \subseteq 0 .. ByteSize - 1
    /\ TifrValues \subseteq SUBSET Source
    /\ TimskValues \subseteq SUBSET Source

VARIABLES
    tcnt,            \* TCNT1H:TCNT1L
    match,           \* OCR1AH:OCR1AL and ICR1H:ICR1L
    u8Temp,          \* u8Temp, the latch of all high bytes
    eWGM,            \* eWGM: its bits that are set
    eClockSource,    \* eClockSource: off, a divided clock, or the T1 pin
    divCycles,       \* u16DivCycles
    divRemain,       \* u16DivRemain
    tifr, timsk,     \* TIFR1, TIMSK1
    age              \* history: clocks since a flag was last raised, or
                     \* Unknown when the program has touched the timer since

counterVars == <<tcnt, match, u8Temp, eWGM, eClockSource, divCycles, divRemain>>
timer16Vars == <<counterVars, tifr, timsk, age>>

Byte    == 0 .. ByteSize - 1
Word    == 0 .. (ByteSize * ByteSize) - 1
Matches == {"OCF1A", "ICF1"}
Unknown == -1

Timer16_Init ==
    /\ irq = NoRequest
    /\ tcnt = 0
    /\ match = [r \in Matches |-> 0]
    /\ u8Temp = 0
    /\ eWGM = {}
    /\ eClockSource = "OFF"
    /\ divCycles = 0 /\ divRemain = 0
    /\ tifr = {} /\ timsk = {}
    /\ age = Unknown

----------------------------------------------------------------------------
(* Requests.                                                               *)

UpdateNeverClears(requests, flags, mask) ==     \* mutant: no AVR_ClearCandidate
    LET Update(i, s) ==
            IF s \in mask /\ s \in flags
            THEN AVR_InterruptCandidate(i, Vec[s]) ELSE i
    IN  Update(Update(Update(Update(requests, "TOV1"), "OCF1A"), "OCF1B"), "ICF1")

\* Timer16_IntFlagUpdate: each enabled source requests or withdraws, in turn.
Timer16_IntFlagUpdate(requests, flags, mask) ==
    LET Update(i, s) ==
            IF s \in mask THEN RequestIf(i, Vec[s], s \in flags) ELSE i
    IN  Update(Update(Update(Update(requests, "TOV1"), "OCF1A"), "OCF1B"), "ICF1")

----------------------------------------------------------------------------
(* The program's stores.  A store to the timer's registers ends the        *)
(* measurement in age.                                                     *)

Configured == age' = Unknown /\ UNCHANGED <<irq, tifr, timsk>>

TCCR1A_Write ==
    /\ \E mode \in WGMWritten : eWGM' = (eWGM \ WGMLow) \cup (mode \cap WGMLow)
    /\ Configured
    /\ UNCHANGED <<tcnt, match, u8Temp, eClockSource, divCycles, divRemain>>

TCCR1B_Write ==
    /\ \E mode \in WGMWritten : eWGM' = (eWGM \ WGMHigh) \cup (mode \cap WGMHigh)
    /\ \/ eClockSource' \in {"OFF", "T1"} /\ divCycles' = 0
       \/ eClockSource' = "DIV" /\ divCycles' \in Dividers
    /\ Configured
    /\ UNCHANGED <<tcnt, match, u8Temp, divRemain>>

\* The high byte of any 16-bit register goes to the one latch.
High_Write ==
    /\ u8Temp' \in Byte
    /\ Configured
    /\ UNCHANGED <<tcnt, match, eWGM, eClockSource, divCycles, divRemain>>

\* The low byte takes the latch with it.
Joined(low) == u8Temp * ByteSize + low

TCNT1L_Write ==
    /\ \E low \in LowWritten : tcnt' = Joined(low)
    /\ Configured
    /\ UNCHANGED <<match, u8Temp, eWGM, eClockSource, divCycles, divRemain>>

MatchLow_Write ==
    /\ \E r \in Matches, low \in LowWritten :
            match' = [match EXCEPT ![r] = Joined(low)]
    /\ Configured
    /\ UNCHANGED <<tcnt, u8Temp, eWGM, eClockSource, divCycles, divRemain>>

\* TIFR1 and TIMSK1 are stored as written, then the requests are updated.
TIFR_Write ==
    /\ tifr' \in TifrValues
    /\ irq' = Timer16_IntFlagUpdate(irq, tifr', timsk)
    /\ UNCHANGED <<counterVars, timsk, age>>

TIMSK_Write ==
    /\ timsk' \in TimskValues
    /\ irq' = Timer16_IntFlagUpdate(irq, tifr, timsk')
    /\ UNCHANGED <<counterVars, tifr, age>>

----------------------------------------------------------------------------
(* Timer16_Clock.                                                          *)

Prescale ==
    divRemain' = IF divRemain \in {0, 1} THEN divCycles ELSE divRemain - 1

\* bUpdateTimer: the prescaler has run out.
Due == divRemain \in {0, 1}

NextCount == (tcnt + 1) % (ByteSize * ByteSize)

\* The sources a timer update raises, by mode; the other modes count nothing.
NoOverflowInCTC ==            \* mutant: CTC looks for matches only
    CASE eWGM = {} ->
            IF NextCount = 0 THEN {"TOV1"} ELSE {}
      [] eWGM = {"WGM12"} ->
            {r \in Matches : NextCount # 0 /\ match[r] = NextCount}
      [] OTHER -> {}

Raised ==
    CASE eWGM = {} ->
            IF NextCount = 0 THEN {"TOV1"} ELSE {}
      [] eWGM = {"WGM12"} ->
            IF NextCount = 0 THEN {"TOV1"}
                             ELSE {r \in Matches : match[r] = NextCount}
      [] OTHER -> {}

Counting == eWGM \in {{}, {"WGM12"}}

ClearsLate ==                 \* mutant: the counter is cleared a tick late
    IF tcnt \in {match[r] : r \in Matches} THEN 0 ELSE NextCount

Counted == IF Raised = {} THEN NextCount ELSE 0

TimerUpdate ==
    /\ tcnt' = IF Counting THEN Counted ELSE tcnt
    /\ tifr' = tifr \cup Raised
    /\ irq' = IF Raised = {} THEN irq
              ELSE Timer16_IntFlagUpdate(irq, tifr', timsk)
    /\ age' = CASE Raised # {} -> 0
                [] Raised = {} /\ age # Unknown -> age + 1
                [] OTHER -> Unknown

Timer16_Clock ==
    /\ IF eClockSource = "DIV"
       THEN /\ Prescale
            /\ IF Due THEN TimerUpdate
               ELSE /\ age' = IF age = Unknown THEN Unknown ELSE age + 1
                    /\ UNCHANGED <<tcnt, tifr, irq>>
       ELSE UNCHANGED <<divRemain, tcnt, tifr, irq, age>>
    /\ UNCHANGED <<match, u8Temp, eWGM, eClockSource, divCycles, timsk>>

----------------------------------------------------------------------------
\* AVR_Interrupt dispatches; the source's acknowledge callback clears its flag.
AVR_Interrupt ==
    /\ irq.prio # NoVector
    /\ tifr' = {s \in tifr : Vec[s] # irq.prio}
    /\ irq' = Acknowledge(irq)
    /\ UNCHANGED <<counterVars, timsk, age>>

ProgramStep ==
    \/ TCCR1A_Write \/ TCCR1B_Write \/ High_Write \/ TCNT1L_Write
    \/ MatchLow_Write \/ TIFR_Write \/ TIMSK_Write

----------------------------------------------------------------------------
TypeOK ==
    /\ irq \in IrqState
    /\ tcnt \in Word
    /\ match \in [Matches -> Word]
    /\ u8Temp \in Byte
    /\ eWGM \subseteq WGMLow \cup WGMHigh
    /\ eClockSource \in {"OFF", "DIV", "T1"}
    /\ divCycles \in Nat /\ divRemain \in Nat
    /\ tifr \subseteq Source /\ timsk \subseteq Source
    /\ age \in Nat \cup {Unknown}

\* An enabled source is requested exactly while its flag is up, whatever mix of
\* counting, flag and mask stores and acknowledgements led there.
RequestsMatchFlags ==
    \A s \in timsk :
        Vec[s] # NoVector => (Vec[s] \in irq.flags <=> s \in tifr)

\* From one clearing of the counter to the next, left alone, the timer counts
\* exactly one per prescaler period: the prescaler and the counter lose no clock.
CountsEveryClock ==
    age # Unknown /\ Counting =>
        age = tcnt * divCycles + (divCycles - divRemain)

\* A timer left running in either mode raises a flag again and again, whatever
\* the program had stored in its registers: it never runs past its match values
\* for good, nor does the prescaler stop.
KeepsFiring ==
    <>[][Timer16_Clock \/ AVR_Interrupt]_timer16Vars
        /\ <>[](eClockSource = "DIV" /\ Counting)
        => []<>(age = 0)
=============================================================================
