-------------------------------- MODULE Eint --------------------------------
(***************************************************************************)
(* The external interrupt lines of peripheral/mega_eint.c.  The lines are  *)
(* output pins the program drives itself (PORTD2, PORTD3, PORTB2); the     *)
(* clock function compares each with its value at the previous clock and   *)
(* requests the line's vector on the configured edge or level.             *)
(***************************************************************************)
EXTENDS InterruptState, RunCycle

CONSTANTS
    Line,          \* INT0, INT1, INT2 as 0, 1, 2
    LineVec,       \* the vector of a line; NoVector if the variant lacks it
    EicraValues,   \* values the program gives EICRA, as functions of the lines
    EimskValues,   \* values the program gives EIMSK
    EifrValues,    \* values the program gives EIFR
    MaxCycles      \* bound: cycles the tables give an instruction

Sense == {"LOW", "CHANGE", "FALL", "RISE"}

ASSUME EintAssumption ==
    /\ Line = 0 .. 2
    /\ LineVec \in [Line -> Vector \cup {NoVector}]
    /\ \A l, k \in Line : LineVec[l] = LineVec[k] /\ LineVec[l] # NoVector => l = k
    /\ EicraValues \subseteq [Line -> Sense]
    /\ EimskValues \subseteq SUBSET Line
    /\ EifrValues \subseteq SUBSET Line
    /\ MaxCycles \in Nat \ {0}

VARIABLES
    pins,         \* the lines whose pin is high
    last,         \* ucLastINT0..2: the lines high at the last clock
    sense,        \* eINT0Sense..eINT2Sense
    eimsk,        \* EIMSK
    eifr,         \* EIFR
    pinsBefore,   \* history: pins when this instruction started
    requested     \* history: lines requested since then

eintVars == <<irq, pins, last, sense, eimsk, eifr, pinsBefore, requested>>
vars == <<cycleVars, eintVars>>

EINT_Init ==
    /\ irq = NoRequest
    /\ pins = {}
    /\ last = {}
    /\ sense = [l \in Line |-> "LOW"]
    /\ eimsk = {}
    /\ eifr = {}
    /\ pinsBefore = {}
    /\ requested = {}

Init == CycleInit /\ EINT_Init

----------------------------------------------------------------------------
(* Instructions: one store to a register of the lines, or none.            *)

Begin ==
    /\ \E c \in 1 .. MaxCycles : StartInstruction(c, c)
    /\ pinsBefore' = pins
    /\ requested' = {}
    /\ UNCHANGED <<irq, last>>

EICRA_Write ==
    /\ Begin
    /\ sense' \in EicraValues
    /\ UNCHANGED <<pins, eimsk, eifr>>

EIMSK_Write ==
    /\ Begin
    /\ eimsk' \in EimskValues
    /\ UNCHANGED <<pins, sense, eifr>>

EIFR_Write ==
    /\ Begin
    /\ eifr' \in EifrValues
    /\ UNCHANGED <<pins, sense, eimsk>>

\* A store to PORTD moves INT0's and INT1's pin, one to PORTB INT2's.
PORT_Write ==
    /\ Begin
    /\ \/ \E high \in SUBSET {0, 1} : pins' = high \cup (pins \cap {2})
       \/ \E high \in SUBSET {2} : pins' = high \cup (pins \cap {0, 1})
    /\ UNCHANGED <<sense, eimsk, eifr>>

OtherInstruction == Begin /\ UNCHANGED <<pins, sense, eimsk, eifr>>

----------------------------------------------------------------------------
(* EINT_Clock.                                                             *)

\* The interrupt condition of a sense mode, of the pin now and before.
Condition(mode, now, before) ==
    CASE mode = "LOW"    -> ~now
      [] mode = "CHANGE" -> now # before
      [] mode = "FALL"   -> ~now /\ before
      [] mode = "RISE"   -> now /\ ~before

\* INT1 is switched on INT0's sense.
SenseOf(l) == IF l = 1 THEN sense[0] ELSE sense[l]

UnmaskedTriggered ==               \* mutant: EIMSK is not consulted
    {l \in Line : Condition(SenseOf(l), l \in pins, l \in last)}

Triggered == {l \in eimsk : Condition(SenseOf(l), l \in pins, l \in last)}

\* INT0, INT1 and INT2 are requested in this order.
RequestLine(requests, l) ==
    IF l \in Triggered THEN AVR_InterruptCandidate(requests, LineVec[l]) ELSE requests

\* `before` are the lines this instruction had requested before.
EINT_Clock(before) ==
    /\ irq' = RequestLine(RequestLine(RequestLine(irq, 0), 1), 2)
    /\ eifr' = eifr \cup Triggered
    /\ requested' = before \cup Triggered
    /\ last' = pins
    /\ UNCHANGED <<pins, sense, eimsk>>

IO_Clock == ClockCycle /\ EINT_Clock(requested) /\ UNCHANGED pinsBefore

\* A JMP or CALL clocks the lines when it is decoded, then executes.
AVR_Decoder_JMP_CALL_22 ==
    /\ DecodeJump
    /\ EINT_Clock({})
    /\ pinsBefore' = pins

JumpInstruction ==
    /\ \E c \in 1 .. MaxCycles : FinishJump(c)
    /\ UNCHANGED eintVars

----------------------------------------------------------------------------
\* SREG.I clear, or nothing pending.
NoInterrupt == EndCycle /\ UNCHANGED eintVars

\* AVR_Interrupt dispatches; EINT_AckInt clears the flag of the line.
EINT_Dispatch ==
    /\ EndCycle
    /\ irq.prio # NoVector
    /\ eifr' = {l \in eifr : LineVec[l] # irq.prio}
    /\ irq' = Acknowledge(irq)
    /\ UNCHANGED <<pins, last, sense, eimsk, pinsBefore, requested>>

Instruction ==
    \/ EICRA_Write \/ EIMSK_Write \/ EIFR_Write \/ PORT_Write
    \/ OtherInstruction
    \/ AVR_Decoder_JMP_CALL_22 \/ JumpInstruction

Next == Instruction \/ IO_Clock \/ NoInterrupt \/ EINT_Dispatch

Spec == Init /\ [][Next]_vars

----------------------------------------------------------------------------
EintTypeOK ==
    /\ phase \in Phase
    /\ extraCycles \in Nat
    /\ irq \in IrqState
    /\ pins \subseteq Line /\ last \subseteq Line /\ pinsBefore \subseteq Line
    /\ sense \in [Line -> Sense]
    /\ eimsk \subseteq Line /\ eifr \subseteq Line /\ requested \subseteq Line

\* A program cannot move a pin faster than the lines are sampled: the cached
\* copy is current before the next instruction, so no edge is ever missed and
\* none is seen twice.
EdgesNotMissed == phase = "execute" => last = pins

\* When an instruction is over, an edge-sensed line (INT1 aside, which follows
\* INT0's mode) has been requested by it exactly when it is enabled and the
\* instruction moved its pin the configured way, however many cycles it took.
RequestedOnEdge ==
    phase = "interrupt" =>
        \A l \in Line \ {1} :
            sense[l] # "LOW" =>
                (l \in requested <=>
                    l \in eimsk /\ Condition(sense[l], l \in pins, l \in pinsBefore))

\* The requests made in an instruction wait for its end: every line the clock
\* found triggered is pending when AVR_Interrupt looks.
RequestsArePending ==
    phase = "interrupt" =>
        \A l \in requested : LineVec[l] # NoVector => LineVec[l] \in irq.flags

\* "Whether or not an interupt condition has occurred based on the interrupt
\* sense mode" (mega_eint.c:204): for every line, its own.
OwnSenseDecides ==
    [][\A l \in requested' \ requested :
           Condition(sense[l], l \in pins, l \in last)]_vars
=============================================================================
