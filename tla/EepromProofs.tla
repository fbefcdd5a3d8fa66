---------------------------- MODULE EepromProofs ----------------------------
(***************************************************************************)
(* The safety properties of the EEPROM controller, for every set of cells, *)
(* every length of stall, window and programming, and every number of      *)
(* cycles per instruction.                                                 *)
(***************************************************************************)
EXTENDS Eeprom, TLAPS

\* In the READ state the cycles left of the instruction cover the countdown, so
\* the peripheral clock empties the countdown before the instruction is over.
StallCovers ==
    eState = "READ" => phase = "clock" /\ countDown <= extraCycles

\* The window's history agrees with the countdown while the window is open.
WindowOpen ==
    eState = "WRITE_ENABLE" => countDown + enableAge = EnableTicks

LoopRuns == phase = "clock" => extraCycles > 0

\* The two properties about the READ state and about the window follow from a
\* relation between the countdown and what is left of the run cycle or of the
\* window; neither is inductive without it.
IInv ==
    /\ TypeOK
    /\ LoopRuns
    /\ TimerRunsWhileBusy
    /\ BusyIsVisible
    /\ StallCovers
    /\ WindowOpen

----------------------------------------------------------------------------
\* Every instruction takes at least one cycle, so the clocking loop runs.
LEMMA InstructionStarts ==
    ASSUME TypeOK, NEW c \in Nat \ {0}, NEW d, StartInstruction(c, d)
    PROVE  /\ phase = "execute"
           /\ phase' = "clock"
           /\ phase' \in Phase
           /\ extraCycles' \in Nat
           /\ extraCycles' = c
           /\ LoopRuns'
  BY DEF StartInstruction, ExecuteInstruction, LoopRuns, Phase

LEMMA JumpFinishes ==
    ASSUME TypeOK, JumpInstruction
    PROVE  /\ phase = "jump"
           /\ phase' = "clock"
           /\ extraCycles' \in Nat
           /\ LoopRuns'
           /\ UNCHANGED eepromVars
<1>1. PICK c \in 1 .. MaxCycles : FinishJump(c)
  BY DEF JumpInstruction
<1>. QED
  BY <1>1 DEF JumpInstruction, FinishJump, ExecuteInstruction, LoopRuns

LEMMA CyclesPositive == ASSUME NEW c \in 1 .. MaxCycles PROVE c \in Nat \ {0}
  BY EepromAssumption

LEMMA InitIInv == Init => IInv
  BY EepromAssumption
     DEF Init, CycleInit, EEPROM_Init, IInv, TypeOK, LoopRuns, Phase, State,
         TimerRunsWhileBusy, BusyIsVisible, StallCovers, WindowOpen

\* EEPROM_Write, branch by branch.
LEMMA WriteKeepsIInv == IInv /\ EEPROM_Write => IInv'
<1> SUFFICES ASSUME IInv, EEPROM_Write PROVE IInv'
  OBVIOUS
<1>1. PICK value \in SUBSET Control :
         /\ StoreBits(value)
         /\ \/ BeginRead(value) \/ EnableWrite(value)
            \/ BeginProgram(value) \/ OnlyStore(value)
  BY DEF EEPROM_Write
<1>2. eecr' = eecr \cup value /\ eecr' \subseteq Control
  BY <1>1 DEF StoreBits, IInv, TypeOK
<1>3. CASE BeginRead(value)
  <2>1. PICK c \in 1 .. MaxCycles :
           StartInstruction(c + ReadTicks, c + 2 * ReadTicks)
    BY <1>3 DEF BeginRead
  <2>2. c + ReadTicks \in Nat \ {0} /\ ReadTicks <= c + ReadTicks
    BY EepromAssumption
  <2>3. /\ phase' = "clock" /\ phase' \in Phase
        /\ extraCycles' \in Nat
        /\ extraCycles' = c + ReadTicks
        /\ LoopRuns'
    BY <2>1, <2>2, InstructionStarts DEF IInv
  <2>4. /\ eState' = "READ"
        /\ countDown' = ReadTicks
        /\ eedr' = eeprom[eear]
        /\ UNCHANGED <<eear, eeprom, enableAge>>
    BY <1>3 DEF BeginRead
  <2>5. eedr' \subseteq Bits
    BY <2>4 DEF IInv, TypeOK
  <2>. QED
    BY <1>2, <2>2, <2>3, <2>4, <2>5, EepromAssumption
       DEF IInv, TypeOK, State, TimerRunsWhileBusy, BusyIsVisible,
           StallCovers, WindowOpen
<1>4. CASE EnableWrite(value)
  <2>1. phase' \in Phase /\ extraCycles' \in Nat /\ LoopRuns'
    BY <1>4, CyclesPositive, InstructionStarts DEF EnableWrite, IInv
  <2>. QED
    BY <1>2, <1>4, <2>1, EepromAssumption
       DEF EnableWrite, IInv, TypeOK, State, TimerRunsWhileBusy,
           BusyIsVisible, StallCovers, WindowOpen
<1>5. CASE BeginProgram(value)
  <2>1. phase' \in Phase /\ extraCycles' \in Nat /\ LoopRuns'
    BY <1>5, CyclesPositive, InstructionStarts DEF BeginProgram, IInv
  <2>2. PICK cell, ticks :
           /\ <<cell, ticks>> = Programmed(EEPM_Read(eecr'))
           /\ eeprom' = [eeprom EXCEPT ![eear] = cell]
           /\ countDown' = ticks
           /\ cell \in SUBSET Bits
           /\ ticks \in Nat \ {0}
    <3> DEFINE p == Programmed(EEPM_Read(eecr'))
    <3>1. eeprom' = [eeprom EXCEPT ![eear] = p[1]] /\ countDown' = p[2]
      BY <1>5 DEF BeginProgram
    <3>2. /\ eedr \in SUBSET Bits
          /\ eeprom[eear] \in SUBSET Bits
          /\ countDown \in Nat \ {0}
      BY <1>5 DEF BeginProgram, IInv, TypeOK, TimerRunsWhileBusy
    <3>3. \/ p = <<eedr, AtomicTicks>>
          \/ p = <<eeprom[eear] \cup eedr, PartTicks>>
          \/ p = <<{}, PartTicks>>
          \/ p = <<eeprom[eear], countDown>>
      BY DEF Programmed
    <3>4. eeprom[eear] \cup eedr \in SUBSET Bits
      BY <3>2
    <3>. HIDE DEF p
    <3>5. /\ p = <<p[1], p[2]>>
          /\ p[1] \in SUBSET Bits
          /\ p[2] \in Nat \ {0}
      BY <3>2, <3>3, <3>4, EepromAssumption
    <3>. QED  BY <3>1, <3>5 DEF p
  <2>3. /\ eState' = "WRITE"
        /\ enableAge' = EnableTicks
        /\ "EEPE" \in value
        /\ UNCHANGED <<eear, eedr>>
    BY <1>5 DEF BeginProgram
  <2>4. eeprom' \in [Addresses -> SUBSET Bits]
    BY <2>2 DEF IInv, TypeOK
  <2>. QED
    BY <1>2, <2>1, <2>2, <2>3, <2>4, EepromAssumption
       DEF IInv, TypeOK, State, TimerRunsWhileBusy, BusyIsVisible,
           StallCovers, WindowOpen
<1>6. CASE OnlyStore(value)
  <2>1. phase = "execute" /\ phase' \in Phase /\ extraCycles' \in Nat /\ LoopRuns'
    BY <1>6, CyclesPositive, InstructionStarts DEF OnlyStore, IInv
  <2>. QED
    BY <1>2, <1>6, <2>1
       DEF OnlyStore, IInv, TypeOK, TimerRunsWhileBusy, BusyIsVisible,
           StallCovers, WindowOpen
<1>. QED  BY <1>1, <1>3, <1>4, <1>5, <1>6

LEMMA OtherKeepsIInv ==
    IInv /\ (SetAddress \/ SetData \/ OtherInstruction \/ JumpInstruction)
        => IInv'
<1> SUFFICES ASSUME IInv,
                    SetAddress \/ SetData \/ OtherInstruction \/ JumpInstruction
             PROVE  IInv'
  OBVIOUS
<1>1. phase # "clock" /\ phase' \in Phase /\ extraCycles' \in Nat /\ LoopRuns'
  <2>1. CASE SetAddress \/ SetData \/ OtherInstruction
    BY <2>1, CyclesPositive, InstructionStarts
       DEF SetAddress, SetData, OtherInstruction, IInv
  <2>2. CASE JumpInstruction
    BY <2>2, JumpFinishes DEF IInv, Phase
  <2>. QED  BY <2>1, <2>2
<1>2. /\ UNCHANGED <<eState, countDown, eecr, eeprom, enableAge>>
      /\ eear' \in Addresses
      /\ eedr' \subseteq Bits
  BY DEF SetAddress, SetData, OtherInstruction, JumpInstruction, eepromVars,
         IInv, TypeOK
<1>. QED
  BY <1>1, <1>2
     DEF IInv, TypeOK, TimerRunsWhileBusy, BusyIsVisible, StallCovers, WindowOpen

\* One clock takes one from the countdown and, in the clocking loop, one from
\* the instruction; a decoded jump clocks while no read is under way.
LEMMA ClockKeepsIInv == IInv /\ (IO_Clock \/ AVR_Decoder_JMP_CALL_22) => IInv'
<1> SUFFICES ASSUME IInv, IO_Clock \/ AVR_Decoder_JMP_CALL_22 PROVE IInv'
  OBVIOUS
<1>1. /\ phase' \in Phase
      /\ extraCycles' \in Nat
      /\ LoopRuns'
      /\ eState = "READ" =>
            IF extraCycles = 1 THEN countDown = 1
            ELSE phase' = "clock" /\ countDown - 1 <= extraCycles'
      /\ EEPROM_Clock
  <2>1. CASE IO_Clock
    <3>1. /\ phase = "clock"
          /\ extraCycles \in Nat \ {0}
          /\ phase' = IF extraCycles = 1 THEN "interrupt" ELSE "clock"
          /\ extraCycles' = extraCycles - 1
      BY <2>1 DEF IO_Clock, ClockCycle, IInv, TypeOK, LoopRuns
    <3>. QED
      BY <2>1, <3>1
         DEF IO_Clock, IInv, TypeOK, Phase, LoopRuns, StallCovers,
             TimerRunsWhileBusy
  <2>2. CASE AVR_Decoder_JMP_CALL_22
    BY <2>2 DEF AVR_Decoder_JMP_CALL_22, DecodeJump, IInv, TypeOK, Phase,
                LoopRuns, StallCovers
  <2>. QED  BY <2>1, <2>2
<1>2. /\ enableAge' = IF enableAge < EnableTicks THEN enableAge + 1 ELSE enableAge
      /\ UNCHANGED <<eear, eedr, eeprom>>
  BY <1>1 DEF EEPROM_Clock, Age
<1>3. CASE countDown = 0
  BY <1>1, <1>2, <1>3, EepromAssumption
     DEF EEPROM_Clock, IInv, TypeOK,
         TimerRunsWhileBusy, BusyIsVisible, StallCovers, WindowOpen
<1>4. CASE countDown = 1
  BY <1>1, <1>2, <1>4, EepromAssumption
     DEF EEPROM_Clock, Expire, IInv, TypeOK, State,
         TimerRunsWhileBusy, BusyIsVisible, StallCovers, WindowOpen
<1>5. CASE countDown > 1
  BY <1>1, <1>2, <1>5, EepromAssumption
     DEF EEPROM_Clock, IInv, TypeOK,
         TimerRunsWhileBusy, BusyIsVisible, StallCovers, WindowOpen
<1>. QED  BY <1>3, <1>4, <1>5 DEF IInv, TypeOK

LEMMA StepKeepsIInv == IInv /\ [Next]_vars => IInv'
<1> SUFFICES ASSUME IInv, [Next]_vars PROVE IInv'
  OBVIOUS
<1>1. CASE AVR_Interrupt
  BY <1>1 DEF AVR_Interrupt, EndCycle, eepromVars, IInv, TypeOK, Phase,
              LoopRuns, TimerRunsWhileBusy, BusyIsVisible, StallCovers,
              WindowOpen
<1>2. CASE UNCHANGED vars
  BY <1>2 DEF vars, cycleVars, eepromVars, IInv, TypeOK, LoopRuns,
              TimerRunsWhileBusy, BusyIsVisible, StallCovers, WindowOpen
<1>. QED
  BY <1>1, <1>2, WriteKeepsIInv, OtherKeepsIInv, ClockKeepsIInv
     DEF Next, Instruction

LEMMA InvariantHolds == Spec => []IInv
  BY InitIInv, StepKeepsIInv, PTL DEF Spec

----------------------------------------------------------------------------
\* The state stays well typed: the countdown never wraps below zero.
THEOREM TypeCorrect == Spec => []TypeOK
<1>1. IInv => TypeOK
  BY DEF IInv
<1>. QED  BY <1>1, InvariantHolds, PTL

\* No state of the controller is left without a running countdown.
THEOREM NeverHangs == Spec => []TimerRunsWhileBusy
<1>1. IInv => TimerRunsWhileBusy
  BY DEF IInv
<1>. QED  BY <1>1, InvariantHolds, PTL

\* A read is over before the next instruction, whatever the instruction's own
\* cycles and whatever the length of the stall.
THEOREM ReadStalls == Spec => []ReadStallCoversAccess
<1>1. IInv => ReadStallCoversAccess
  BY DEF IInv, StallCovers, ReadStallCoversAccess
<1>. QED  BY <1>1, InvariantHolds, PTL

\* EEPE reads one for as long as a cell is being programmed.
THEOREM BusyShown == Spec => []BusyIsVisible
<1>1. IInv => BusyIsVisible
  BY DEF IInv
<1>. QED  BY <1>1, InvariantHolds, PTL

\* A cell changes only inside a window that EEMPE opened.
THEOREM WritesInWindow == Spec => WriteWindow
<1>1. IInv /\ [Next]_vars => [eeprom' # eeprom => enableAge < EnableTicks]_vars
  <2> SUFFICES ASSUME IInv, Next, eeprom' # eeprom
               PROVE  enableAge < EnableTicks
    OBVIOUS
  <2>1. eState = "WRITE_ENABLE"
    BY DEF Next, Instruction, EEPROM_Write, BeginRead, EnableWrite,
           BeginProgram, OnlyStore, SetAddress, SetData, OtherInstruction,
           AVR_Decoder_JMP_CALL_22, JumpInstruction, IO_Clock, EEPROM_Clock,
           AVR_Interrupt, eepromVars
  <2>. QED
    BY <2>1, EepromAssumption DEF IInv, TypeOK, TimerRunsWhileBusy, WindowOpen
<1>. QED  BY <1>1, InvariantHolds, PTL DEF Spec, WriteWindow
=============================================================================
