------------------------------- MODULE Eeprom -------------------------------
(***************************************************************************)
(* The EEPROM controller of peripheral/mega_eeprom.c under the run cycle   *)
(* of the CPU: its write handler runs inside an instruction, its clock     *)
(* function once per cycle, and a read stalls the CPU by adding cycles to  *)
(* the instruction that asked for it.                                      *)
(*                                                                         *)
(* The program may write any value to EECR, and any address and data, at   *)
(* any instruction.  Registers and cells are the sets of their one bits.   *)
(***************************************************************************)
EXTENDS RunCycle

CONSTANTS
    Addresses,      \* the EEPROM cells the program uses
    Bits,           \* the bits of a cell
    ReadTicks,      \* 4: the CPU stall of a read
    EnableTicks,    \* 4: the window EEMPE opens
    AtomicTicks,    \* 48000: erase and write
    PartTicks,      \* 25000: erase only or write only
    MaxCycles       \* bound: cycles the tables give an instruction

ASSUME EepromAssumption ==
    /\ ReadTicks \in Nat \ {0}
    /\ EnableTicks \in Nat \ {0}
    /\ AtomicTicks \in Nat \ {0}
    /\ PartTicks \in Nat \ {0}
    /\ MaxCycles \in Nat \ {0}

VARIABLES
    eState,       \* eState
    countDown,    \* u32CountDown
    eecr,         \* EECR
    eear,         \* EEARH:EEARL
    eedr,         \* EEDR
    eeprom,       \* pu8EEPROM
    enableAge     \* history: clocks since EEMPE last opened the window,
                  \* EnableTicks when the window is over or used up

eepromVars == <<eState, countDown, eecr, eear, eedr, eeprom, enableAge>>
vars == <<cycleVars, eepromVars>>

State == {"IDLE", "WRITE_ENABLE", "READ", "WRITE"}

\* The bits of EECR a program can set: "value & 0x3F", less EERIE, which no
\* code reads.
Control == {"EERE", "EEPE", "EEMPE", "EEPM0", "EEPM1"}

EEPROM_Init ==
    /\ eState = "IDLE"
    /\ countDown = 0
    /\ eecr = {}
    /\ eear \in Addresses
    /\ eedr = {}
    /\ eeprom \in [Addresses -> SUBSET Bits]
    /\ enableAge = EnableTicks

Init == CycleInit /\ EEPROM_Init

\* EEPM_Read on EECR after the new bits were OR-ed in: mode bits only add up.
EEPM_Read(control) ==
    CASE {"EEPM0", "EEPM1"} \subseteq control -> "reserved"
      [] "EEPM0" \in control /\ "EEPM1" \notin control -> "ERASE"
      [] "EEPM1" \in control /\ "EEPM0" \notin control -> "WRITE"
      [] OTHER -> "ATOMIC"

----------------------------------------------------------------------------
(* EEPROM_Write, by the state it finds and the bits of the value.          *)

StoreBitsReplace(value) == eecr' = value        \* mutant: "=" for "|="

\* Whatever the state, the bits written are OR-ed into EECR.
StoreBits(value) == eecr' = eecr \cup value

BeginReadNoStall(value) ==              \* mutant: the CPU is not halted
    /\ eState = "IDLE" /\ "EERE" \in value
    /\ eState' = "READ"
    /\ countDown' = ReadTicks
    /\ eedr' = eeprom[eear]
    /\ \E c \in 1 .. MaxCycles : StartInstruction(c, c)
    /\ UNCHANGED <<eear, eeprom, enableAge>>

\* The stall is added to u16ExtraCycles and to u64CycleCount, and CPU_RunCycle
\* then adds all of u16ExtraCycles to u64CycleCount.
BeginRead(value) ==
    /\ eState = "IDLE" /\ "EERE" \in value
    /\ eState' = "READ"
    /\ countDown' = ReadTicks
    /\ eedr' = eeprom[eear]
    /\ \E c \in 1 .. MaxCycles :
          StartInstruction(c + ReadTicks, c + 2 * ReadTicks)
    /\ UNCHANGED <<eear, eeprom, enableAge>>

EnableWrite(value) ==
    /\ eState = "IDLE" /\ "EERE" \notin value /\ "EEMPE" \in value
    /\ eState' = "WRITE_ENABLE"
    /\ countDown' = EnableTicks
    /\ enableAge' = 0
    /\ \E c \in 1 .. MaxCycles : StartInstruction(c, c)
    /\ UNCHANGED <<eear, eedr, eeprom>>

\* The cell and the countdown each programming mode leaves; the reserved mode
\* keeps both.
Programmed(mode) ==
    CASE mode = "ATOMIC" -> <<eedr, AtomicTicks>>
      [] mode = "WRITE"  -> <<eeprom[eear] \cup eedr, PartTicks>>
      [] mode = "ERASE"  -> <<{}, PartTicks>>
      [] OTHER           -> <<eeprom[eear], countDown>>

BeginProgramAnytime(value) ==           \* mutant: EEMPE is not required
    /\ eState \in {"IDLE", "WRITE_ENABLE"} /\ "EEPE" \in value
    /\ eState' = "WRITE"
    /\ LET p == Programmed(EEPM_Read(eecr'))
       IN  /\ eeprom' = [eeprom EXCEPT ![eear] = p[1]]
           /\ countDown' = p[2]
    /\ enableAge' = EnableTicks
    /\ \E c \in 1 .. MaxCycles : StartInstruction(c, c)
    /\ UNCHANGED <<eear, eedr>>

BeginProgram(value) ==
    /\ eState = "WRITE_ENABLE" /\ "EEPE" \in value
    /\ eState' = "WRITE"
    /\ LET p == Programmed(EEPM_Read(eecr'))
       IN  /\ eeprom' = [eeprom EXCEPT ![eear] = p[1]]
           /\ countDown' = p[2]
    /\ enableAge' = EnableTicks
    /\ \E c \in 1 .. MaxCycles : StartInstruction(c, c)
    /\ UNCHANGED <<eear, eedr>>

\* Nothing to start: the bits stay in EECR.
OnlyStore(value) ==
    /\ \/ eState = "IDLE" /\ {"EERE", "EEMPE"} \cap value = {}
       \/ eState = "WRITE_ENABLE" /\ "EEPE" \notin value
       \/ eState \in {"READ", "WRITE"}
    /\ \E c \in 1 .. MaxCycles : StartInstruction(c, c)
    /\ UNCHANGED <<eState, countDown, eear, eedr, eeprom, enableAge>>

EEPROM_Write ==
    \E value \in SUBSET Control :
        /\ StoreBits(value)
        /\ \/ BeginRead(value) \/ EnableWrite(value)
           \/ BeginProgram(value) \/ OnlyStore(value)

\* A store to EEARL, EEARH or EEDR, which have no handler: plain registers.
SetAddress ==
    /\ \E a \in Addresses : eear' = a
    /\ \E c \in 1 .. MaxCycles : StartInstruction(c, c)
    /\ UNCHANGED <<eState, countDown, eecr, eedr, eeprom, enableAge>>

SetData ==
    /\ \E d \in SUBSET Bits : eedr' = d
    /\ \E c \in 1 .. MaxCycles : StartInstruction(c, c)
    /\ UNCHANGED <<eState, countDown, eecr, eear, eeprom, enableAge>>

\* Any other instruction but a JMP or CALL, or a cycle asleep.
OtherInstruction ==
    /\ \E c \in 1 .. MaxCycles : StartInstruction(c, c)
    /\ UNCHANGED eepromVars

----------------------------------------------------------------------------
(* EEPROM_Clock.                                                           *)

Age == enableAge' = IF enableAge < EnableTicks THEN enableAge + 1 ELSE enableAge

ExpireKeepsEnable ==                    \* mutant: WRITE_ENABLE never ends
    /\ eState' = IF eState = "WRITE_ENABLE" THEN eState ELSE "IDLE"
    /\ eecr' = eecr \ {"EEMPE", "EERE", "EEPE"}

ExpireKeepsBusy ==                      \* mutant: EEPE_Clear() missing
    /\ eState' = "IDLE"
    /\ eecr' = eecr \ {"EEMPE", "EERE"}

\* The countdown has run out.  A lapsed window leaves EEPE as it was.
Expire ==
    /\ eState' = "IDLE"
    /\ eecr' = IF eState = "WRITE_ENABLE" THEN eecr \ {"EEMPE", "EERE"}
               ELSE eecr \ {"EEMPE", "EERE", "EEPE"}

EEPROM_Clock ==
    /\ IF countDown = 0 THEN UNCHANGED <<eState, countDown, eecr>>
       ELSE /\ countDown' = countDown - 1
            /\ IF countDown = 1 THEN Expire ELSE UNCHANGED <<eState, eecr>>
    /\ Age
    /\ UNCHANGED <<eear, eedr, eeprom>>

----------------------------------------------------------------------------
IO_Clock == ClockCycle /\ EEPROM_Clock

\* A JMP or CALL clocks the EEPROM when it is decoded, then executes.
AVR_Decoder_JMP_CALL_22 == DecodeJump /\ EEPROM_Clock

JumpInstruction ==
    /\ \E c \in 1 .. MaxCycles : FinishJump(c)
    /\ UNCHANGED eepromVars

\* AVR_Interrupt may divert the program; it does not touch the EEPROM.
AVR_Interrupt == EndCycle /\ UNCHANGED eepromVars

Instruction ==
    \/ EEPROM_Write \/ SetAddress \/ SetData \/ OtherInstruction
    \/ AVR_Decoder_JMP_CALL_22 \/ JumpInstruction

Next == Instruction \/ IO_Clock \/ AVR_Interrupt

Spec == Init /\ [][Next]_vars

\* emulator_loop never stops calling CPU_RunCycle; what it executes is not
\* assumed.
FairSpec == Spec /\ WF_vars(Next)

----------------------------------------------------------------------------
TypeOK ==
    /\ phase \in Phase
    /\ extraCycles \in Nat
    /\ eState \in State
    /\ countDown \in Nat
    /\ eecr \subseteq Control
    /\ eear \in Addresses
    /\ eedr \subseteq Bits
    /\ eeprom \in [Addresses -> SUBSET Bits]
    /\ enableAge \in 0 .. EnableTicks

\* The controller is busy exactly while its countdown runs, in every mode: a
\* busy state with a dead countdown would hang it for good.
TimerRunsWhileBusy == eState = "IDLE" <=> countDown = 0

\* A program that polls EEPE never takes a programming EEPROM for a free one.
BusyIsVisible == eState = "WRITE" => "EEPE" \in eecr

\* "The CPU is halted for 4 cycles before it's executed" (mega_eeprom.c:201):
\* the stall covers the access, so no instruction runs in the READ state.
ReadStallCoversAccess == phase = "execute" => eState # "READ"

\* "Must initiate a write within 4 cycles of enabling the EEPROM write bit"
\* (mega_eeprom.c:214): a cell changes only inside a window that EEMPE opened,
\* and each window allows one write.
WriteWindow == [][eeprom' # eeprom => enableAge < EnableTicks]_vars

\* Programming ends, and a program that waits for EEPE sees it.
ProgrammingEnds == eState = "WRITE" ~> "EEPE" \notin eecr
=============================================================================
