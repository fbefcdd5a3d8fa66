-------------------------------- MODULE Cpu --------------------------------
(***************************************************************************)
(* CPU_RunCycle with the opcodes that move the program counter, the stack, *)
(* the interrupt enable bit or the sleep flag, and AVR_Interrupt           *)
(* (avr_cpu/avr_cpu.c, avr_opcodes.c, avr_interrupt.c).                    *)
(*                                                                         *)
(* The program is any one that returns only to addresses it was called or  *)
(* interrupted at and nests at most MaxDepth frames; the peripherals are   *)
(* any that request and withdraw vectors, from a register write of the     *)
(* instruction or from their clock functions.  Addresses are split into    *)
(* two bytes of base ByteSize (256 in the code) when they are pushed.      *)
(***************************************************************************)
EXTENDS Interrupts, RunCycle, Sequences

CONSTANTS
    ByteSize,    \* number of values of a byte
    CodeSize,    \* program words: the PCs the program reaches
    MaxDepth,    \* bound: nested calls and interrupts
    MaxCycles,   \* bound: cycles the tables give an instruction
    NoEvent      \* InterruptCallout_Run has not run

ASSUME CpuAssumption ==
    /\ ByteSize \in Nat \ {0}
    /\ CodeSize \in 1 .. ByteSize * ByteSize
    /\ \A v \in Vector : v * 2 < CodeSize
    /\ MaxDepth \in Nat \ {0}
    /\ MaxCycles \in Nat \ {0}

VARIABLES
    irq,           \* u32IntFlags and u8IntPriority
    sregI,         \* SREG.I
    asleep,        \* bAsleep
    pc,            \* u32PC
    sp,            \* SPH:SPL
    ram,           \* the bytes of the stack
    exitOnReset,   \* bExitOnReset, from the command line
    reported,      \* the last InterruptCallout_Run: <<entry?, vector>>
    frames         \* history: the addresses to return to, innermost last

cpuVars == <<irq, sregI, asleep, pc, sp, ram, exitOnReset, reported, frames>>
vars == <<cycleVars, cpuVars>>

Address  == 0 .. CodeSize - 1
StackTop == 2 * MaxDepth
Byte     == 0 .. ByteSize - 1

Init ==
    /\ CycleInit
    /\ irq = NoRequest
    /\ sregI = FALSE
    /\ asleep = FALSE
    /\ pc = 0
    /\ sp = StackTop
    /\ ram = [a \in 1 .. StackTop |-> 0]
    /\ exitOnReset \in BOOLEAN
    /\ reported = NoEvent
    /\ frames = <<>>

----------------------------------------------------------------------------
(* The stack: the low byte of a return address goes to SP, the high byte   *)
(* below it, and SP moves down by two.                                     *)

PushSwapped(w) ==                      \* mutant: bytes in the other order
    /\ ram' = [ram EXCEPT ![sp] = (w \div ByteSize) % ByteSize,
                          ![sp - 1] = w % ByteSize]
    /\ sp' = sp - 2
    /\ frames' = Append(frames, w)

Push(w) ==
    /\ ram' = [ram EXCEPT ![sp] = w % ByteSize,
                          ![sp - 1] = (w \div ByteSize) % ByteSize]
    /\ sp' = sp - 2
    /\ frames' = Append(frames, w)

\* The address RET and RETI read after adding two to SP.
Popped == ram[sp + 1] * ByteSize + ram[sp + 2]

Pop ==
    /\ frames # <<>>
    /\ sp' = sp + 2
    /\ frames' = SubSeq(frames, 1, Len(frames) - 1)
    /\ UNCHANGED ram

\* Unconditional_Jump: a jump to zero ends the emulator under --exitreset.
Unconditional_Jump(target, c) ==
    /\ pc' = target
    /\ IF target = 0 /\ exitOnReset
       THEN phase' = "exited" /\ UNCHANGED <<extraCycles, cycleDebt>>
       ELSE ExecuteInstruction(c, c)

----------------------------------------------------------------------------
(* One action per class of instruction, run while the CPU is awake.        *)

Awake == phase = "execute" /\ ~asleep

Cycles == 1 .. MaxCycles

\* The first word of a JMP or CALL: the peripherals are clocked before it
\* executes.
AVR_Decoder_JMP_CALL_22 == Awake /\ DecodeJump /\ UNCHANGED cpuVars

\* Any opcode that leaves the PC to CPU_RunCycle: the size table moves it.
Straight ==
    /\ Awake
    /\ \E size \in 1 .. 2, c \in Cycles :
          /\ pc + size \in Address
          /\ pc' = pc + size
          /\ StartInstruction(c, c)
    /\ UNCHANGED <<irq, sregI, asleep, sp, ram, exitOnReset, reported, frames>>

\* CPSE, SBRC, SBRS, SBIC, SBIS when they skip: Relative_Jump adds the size of
\* the next opcode plus one to the PC and to the cycles alike.
Skip ==
    /\ Awake
    /\ \E nextSize \in 1 .. 2, c \in Cycles :
          /\ pc + nextSize + 1 \in Address
          /\ pc' = pc + nextSize + 1
          /\ StartInstruction(c + nextSize + 1, c + nextSize + 1)
    /\ UNCHANGED <<irq, sregI, asleep, sp, ram, exitOnReset, reported, frames>>

\* A conditional branch when taken: one more cycle, no check for address zero.
Branch ==
    /\ Awake
    /\ \E target \in Address, c \in Cycles :
          pc' = target /\ StartInstruction(c + 1, c + 1)
    /\ UNCHANGED <<irq, sregI, asleep, sp, ram, exitOnReset, reported, frames>>

\* RJMP, IJMP; JMP once decoded.
Jump ==
    /\ Awake \/ phase = "jump"
    /\ \E target \in Address, c \in Cycles : Unconditional_Jump(target, c)
    /\ UNCHANGED <<irq, sregI, asleep, sp, ram, exitOnReset, reported, frames>>

\* RCALL, ICALL; CALL, of two words, once decoded: push the next address, then
\* jump.
Call ==
    /\ Awake \/ phase = "jump"
    /\ Len(frames) + (IF sregI THEN 1 ELSE 0) < MaxDepth
    /\ LET next == IF phase = "jump" THEN pc + 2 ELSE pc + 1
       IN  next \in Address /\ Push(next)
    /\ \E target \in Address, c \in Cycles : Unconditional_Jump(target, c)
    /\ UNCHANGED <<irq, sregI, asleep, exitOnReset, reported>>

Ret ==
    /\ Awake
    /\ Pop
    /\ \E c \in Cycles : Unconditional_Jump(Popped, c)
    /\ UNCHANGED <<irq, sregI, asleep, exitOnReset, reported>>

\* RETI: as RET, enables interrupts and reports the return, unless it exits.
Reti ==
    /\ Awake
    /\ Pop
    /\ sregI' = TRUE
    /\ \E c \in Cycles : Unconditional_Jump(Popped, c)
    /\ reported' = IF phase' = "exited" THEN reported ELSE <<FALSE, 0>>
    /\ UNCHANGED <<irq, asleep, exitOnReset>>

\* BSET 7 and BCLR 7, and any store to SREG.
SetI ==
    /\ Awake
    /\ Len(frames) < MaxDepth
    /\ \E size \in 1 .. 2, b \in BOOLEAN, c \in Cycles :
          /\ pc + size \in Address
          /\ pc' = pc + size
          /\ sregI' = b
          /\ StartInstruction(c, c)
    /\ UNCHANGED <<irq, asleep, sp, ram, exitOnReset, reported, frames>>

Sleep ==
    /\ Awake
    /\ pc + 1 \in Address
    /\ pc' = pc + 1
    /\ asleep' = TRUE
    /\ \E c \in Cycles : StartInstruction(c, c)
    /\ UNCHANGED <<irq, sregI, sp, ram, exitOnReset, reported, frames>>

\* OUT, STS, SBI, ... on a register whose write handler requests or withdraws.
\* A vector the variant lacks is NoVector in its table.
Store ==
    /\ Awake
    /\ \E v \in Vector \cup {NoVector} :
          irq' \in {AVR_InterruptCandidate(irq, v), AVR_ClearCandidate(irq, v)}
    /\ \E size \in 1 .. 2, c \in Cycles :
          /\ pc + size \in Address
          /\ pc' = pc + size
          /\ StartInstruction(c, c)
    /\ UNCHANGED <<sregI, asleep, sp, ram, exitOnReset, reported, frames>>

\* The else branch of CPU_RunCycle: one cycle, no instruction.
SleepCycle ==
    /\ asleep
    /\ StartInstruction(1, 1)
    /\ UNCHANGED cpuVars

----------------------------------------------------------------------------
\* IO_Clock, in the clocking loop or in a decoder: some peripheral's clock
\* function requests or withdraws a vector.
PeripheralEvent ==
    /\ phase \in {"clock", "jump"}
    /\ \E v \in Vector \cup {NoVector} :
          irq' \in {AVR_InterruptCandidate(irq, v), AVR_ClearCandidate(irq, v)}
    /\ UNCHANGED <<cycleVars, sregI, asleep, pc, sp, ram, exitOnReset,
                   reported, frames>>

CPU_PeripheralCycle == ClockCycle /\ UNCHANGED cpuVars

\* AVR_Interrupt returns early.
NoInterrupt ==
    /\ EndCycle
    /\ irq.prio = NoVector \/ ~sregI
    /\ UNCHANGED cpuVars

DispatchStillAsleep ==                 \* mutant: bAsleep is not cleared
    /\ EndCycle
    /\ irq.prio # NoVector /\ sregI
    /\ Push(pc)
    /\ pc' = irq.prio * 2
    /\ sregI' = FALSE
    /\ reported' = <<TRUE, irq.prio>>
    /\ irq' = Acknowledge(irq)
    /\ UNCHANGED <<asleep, exitOnReset>>

\* AVR_Interrupt dispatches the cached vector.  The acknowledge callbacks of
\* the peripherals change only the peripherals' own registers.
AVR_Interrupt ==
    /\ EndCycle
    /\ irq.prio # NoVector /\ sregI
    /\ Push(pc)
    /\ pc' = irq.prio * 2
    /\ sregI' = FALSE
    /\ reported' = <<TRUE, irq.prio>>
    /\ irq' = Acknowledge(irq)
    /\ asleep' = FALSE
    /\ UNCHANGED exitOnReset

Exited == phase = "exited" /\ UNCHANGED vars

Instruction ==
    \/ AVR_Decoder_JMP_CALL_22
    \/ Straight \/ Skip \/ Branch \/ Jump \/ Call \/ Ret \/ Reti
    \/ SetI \/ Sleep \/ Store

Next ==
    \/ Instruction \/ SleepCycle
    \/ PeripheralEvent \/ CPU_PeripheralCycle
    \/ NoInterrupt \/ AVR_Interrupt
    \/ Exited

\* emulator_loop calls CPU_RunCycle forever and every loop in it is finite, so
\* a run cycle always goes on.  What the program does is not assumed.
RunFairness ==
    /\ WF_vars(SleepCycle)
    /\ WF_vars(CPU_PeripheralCycle)
    /\ WF_vars(NoInterrupt \/ AVR_Interrupt)

Spec == Init /\ [][Next]_vars
FairSpec == Spec /\ RunFairness

----------------------------------------------------------------------------
\* Types of the state; PCs and return addresses stay within the program.
TypeOK ==
    /\ phase \in Phase
    /\ extraCycles \in Nat
    /\ cycleDebt \in Int
    /\ irq \in IrqState
    /\ sregI \in BOOLEAN
    /\ asleep \in BOOLEAN
    /\ pc \in Address
    /\ sp \in 0 .. StackTop
    /\ ram \in [1 .. StackTop -> Byte]
    /\ exitOnReset \in BOOLEAN
    /\ reported \in {NoEvent} \cup (BOOLEAN \X Nat)
    /\ frames \in Seq(Address)

\* The priority cache of avr_interrupt.c agrees with its flags after every
\* request, withdrawal and dispatch, in whatever order they come.
PriorityAgrees == PriorityCached(irq)

\* No enabled request outlives an instruction: AVR_Interrupt runs at the end of
\* every CPU_RunCycle, so at the start of one with SREG.I set nothing is pending.
PromptDelivery == phase = "execute" /\ sregI => irq.flags = {}

\* The stack holds, byte by byte, the addresses that the suspended callers and
\* interrupted code must resume at, whatever interleaving of calls and
\* interrupts pushed them.
StackHoldsFrames ==
    /\ sp = StackTop - 2 * Len(frames)
    /\ \A i \in 1 .. Len(frames) :
          /\ ram[StackTop - 2 * (i - 1)] = frames[i] % ByteSize
          /\ ram[StackTop - 2 * (i - 1) - 1] = frames[i] \div ByteSize

\* With interrupts enabled there is room for one more frame.
DepthBounded == Len(frames) + (IF sregI THEN 1 ELSE 0) <= MaxDepth

\* Within an instruction the counted cycles still owed to the peripherals are
\* the turns left in the clocking loop, less the clock a decoded jump gave them
\* in advance; between instructions none is owed.
CyclesOwed ==
    /\ phase = "clock" => extraCycles > 0
    /\ phase = "jump" => cycleDebt = -1 /\ ~asleep
    /\ phase # "jump" =>
          LET owed == IF phase = "clock" THEN extraCycles ELSE 0
          IN  cycleDebt \in {owed, owed - 1}

\* RET and RETI resume the innermost suspended code: the opcode functions pop
\* what AVR_Interrupt, RCALL, ICALL or CALL pushed.
ReturnsToCaller ==
    [][Len(frames') < Len(frames) => pc' = frames[Len(frames)]]_vars

\* A sleeping CPU with interrupts enabled and a request pending wakes up, unless
\* the request is withdrawn before the run cycle ends.
WakesUp == asleep /\ sregI /\ irq.flags # {} ~> ~asleep \/ irq.flags = {}

\* The CPU keeps the promise of InterruptPromise: no request is lost, none is
\* invented, each is delivered at most once and only while enabled.
Promise == INSTANCE InterruptPromise
    WITH pending <- irq.flags, enabled <- sregI, sleeping <- asleep

KeepsPromise == Promise!Spec

\* "Interrupts are prioritized by index -- lower == higher priority"
\* (avr_interrupt.c:53): the vector to dispatch next is the lowest pending one.
LowestIndexFirst == \A v \in irq.flags : irq.prio <= v
=============================================================================
