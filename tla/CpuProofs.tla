----------------------------- MODULE CpuProofs -----------------------------
(***************************************************************************)
(* The safety properties of the run cycle and the interrupt promise, for   *)
(* every number of vectors, byte size, program size, nesting depth and     *)
(* number of cycles per instruction.                                       *)
(***************************************************************************)
EXTENDS Cpu, InterruptLemmas, SequenceTheorems, TLAPS

\* A byte pair joined again is the word it was split from.
LEMMA SplitJoin ==
    ASSUME NEW w \in Address
    PROVE  /\ w % ByteSize \in Byte
           /\ w \div ByteSize \in Byte
           /\ (w \div ByteSize) % ByteSize = w \div ByteSize
           /\ (w \div ByteSize) * ByteSize + (w % ByteSize) = w
<1>1. /\ w \in Nat
      /\ w < ByteSize * ByteSize
      /\ ByteSize \in Nat \ {0}
  BY CpuAssumption DEF Address
<1>2. /\ w % ByteSize \in 0 .. ByteSize - 1
      /\ w \div ByteSize \in Int
      /\ w = ByteSize * (w \div ByteSize) + (w % ByteSize)
  BY <1>1
<1>3. w \div ByteSize \in 0 .. ByteSize - 1
  BY <1>1, <1>2
<1>4. (w \div ByteSize) % ByteSize = w \div ByteSize
  BY <1>1, <1>3
<1>. QED
  BY <1>1, <1>2, <1>3, <1>4 DEF Byte

----------------------------------------------------------------------------
(* The inductive invariant.  TypeOK alone is not inductive: a popped PC is *)
(* a program address only because the stack holds the frames, and there is *)
(* room to push only because the depth is bounded.                         *)

IInv ==
    /\ TypeOK
    /\ PriorityAgrees
    /\ PromptDelivery
    /\ StackHoldsFrames
    /\ DepthBounded
    /\ CyclesOwed

\* A push leaves the new frame on top and every older one in place.
LEMMA PushKeepsFrames ==
    ASSUME TypeOK, StackHoldsFrames, Len(frames) < MaxDepth,
           NEW w \in Address, Push(w)
    PROVE  /\ sp' \in 0 .. StackTop
           /\ ram' \in [1 .. StackTop -> Byte]
           /\ frames' \in Seq(Address)
           /\ Len(frames') = Len(frames) + 1
           /\ StackHoldsFrames'
<1>1. /\ Len(frames) \in Nat
      /\ MaxDepth \in Nat
      /\ frames \in Seq(Address)
  BY CpuAssumption, LenProperties DEF TypeOK
<1>2. /\ sp = StackTop - 2 * Len(frames)
      /\ sp \in 2 .. StackTop
      /\ sp - 1 \in 1 .. StackTop
  BY <1>1 DEF StackHoldsFrames, StackTop
<1>3. /\ frames' \in Seq(Address)
      /\ Len(frames') = Len(frames) + 1
      /\ \A i \in 1 .. Len(frames) : frames'[i] = frames[i]
      /\ frames'[Len(frames) + 1] = w
  BY <1>1, AppendProperties DEF Push
<1>4. ram' \in [1 .. StackTop -> Byte]
  BY <1>2, SplitJoin DEF Push, TypeOK
<1>5. /\ ram'[sp] = w % ByteSize
      /\ ram'[sp - 1] = w \div ByteSize
      /\ \A a \in 1 .. StackTop : a > sp => ram'[a] = ram[a]
  BY <1>2, SplitJoin DEF Push, TypeOK
<1>6. sp' = sp - 2
  BY DEF Push
<1>7. ASSUME NEW i \in 1 .. Len(frames')
      PROVE  /\ ram'[StackTop - 2 * (i - 1)] = frames'[i] % ByteSize
             /\ ram'[StackTop - 2 * (i - 1) - 1] = frames'[i] \div ByteSize
  <2>1. CASE i = Len(frames) + 1
    BY <2>1, <1>1, <1>2, <1>3, <1>5
  <2>2. CASE i \in 1 .. Len(frames)
    <3>1. /\ StackTop - 2 * (i - 1) \in 1 .. StackTop
          /\ StackTop - 2 * (i - 1) - 1 \in 1 .. StackTop
          /\ StackTop - 2 * (i - 1) > sp
          /\ StackTop - 2 * (i - 1) - 1 > sp
      BY <2>2, <1>1, <1>2 DEF StackTop
    <3>. QED
      BY <2>2, <3>1, <1>3, <1>5 DEF StackHoldsFrames
  <2>. QED  BY <2>1, <2>2, <1>1, <1>3
<1>8. StackHoldsFrames'
  BY <1>1, <1>2, <1>3, <1>6, <1>7 DEF StackHoldsFrames, StackTop
<1>. QED
  BY <1>1, <1>2, <1>3, <1>4, <1>6, <1>8 DEF StackTop

\* A pop reads the innermost frame and leaves the others in place.
LEMMA PopReadsFrame ==
    ASSUME TypeOK, StackHoldsFrames, Len(frames) <= MaxDepth, Pop
    PROVE  /\ Len(frames) \in Nat \ {0}
           /\ Popped = frames[Len(frames)]
           /\ Popped \in Address
           /\ sp' \in 0 .. StackTop
           /\ frames' \in Seq(Address)
           /\ Len(frames') = Len(frames) - 1
           /\ StackHoldsFrames'
<1>1. /\ Len(frames) \in Nat \ {0}
      /\ MaxDepth \in Nat
      /\ frames \in Seq(Address)
  BY CpuAssumption, EmptySeq DEF TypeOK, Pop
<1>2. /\ frames' \in Seq(Address)
      /\ Len(frames') = Len(frames) - 1
      /\ \A i \in 1 .. Len(frames) - 1 : frames'[i] = frames[i]
  <2>1. \A i \in 1 .. Len(frames) - 1 : frames[i] \in Address
    BY <1>1, ElementOfSeq
  <2>2. frames' = SubSeq(frames, 1, Len(frames) - 1)
    BY DEF Pop
  <2>3. Len(frames) - 1 \in Nat
    BY <1>1
  <2>4. /\ SubSeq(frames, 1, Len(frames) - 1) \in Seq(Address)
        /\ Len(SubSeq(frames, 1, Len(frames) - 1)) =
               IF 1 <= Len(frames) - 1 THEN Len(frames) - 1 - 1 + 1 ELSE 0
        /\ \A i \in 1 .. Len(frames) - 1 - 1 + 1 :
              SubSeq(frames, 1, Len(frames) - 1)[i] = frames[1 + i - 1]
    BY <2>1, <2>3, SubSeqProperties
  <2>5. Len(frames') = Len(frames) - 1
    <3>1. \A n \in Nat \ {0} :
             (IF 1 <= n - 1 THEN n - 1 - 1 + 1 ELSE 0) = n - 1
      OBVIOUS
    <3>2. Len(frames') = Len(SubSeq(frames, 1, Len(frames) - 1))
      BY <2>2, Zenon
    <3>. QED  BY <1>1, <2>4, <3>1, <3>2, Zenon
  <2>6. ASSUME NEW i \in 1 .. Len(frames) - 1 PROVE frames'[i] = frames[i]
    <3>1. i \in 1 .. Len(frames) - 1 - 1 + 1 /\ 1 + i - 1 = i
      BY <1>1
    <3>. QED  BY <2>2, <2>4, <3>1
  <2>. QED
    BY <2>2, <2>4, <2>5, <2>6
<1>3. frames[Len(frames)] \in Address
  BY <1>1, ElementOfSeq
<1>4. /\ sp = StackTop - 2 * Len(frames)
      /\ ram[StackTop - 2 * (Len(frames) - 1)] = frames[Len(frames)] % ByteSize
      /\ ram[StackTop - 2 * (Len(frames) - 1) - 1]
             = frames[Len(frames)] \div ByteSize
  BY <1>1 DEF StackHoldsFrames
<1>5. /\ sp + 2 = StackTop - 2 * (Len(frames) - 1)
      /\ sp + 1 = StackTop - 2 * (Len(frames) - 1) - 1
      /\ sp' = sp + 2
      /\ sp' \in 0 .. StackTop
  BY <1>1, <1>4 DEF StackTop, Pop
<1>6. Popped = frames[Len(frames)]
  BY <1>3, <1>4, <1>5, SplitJoin DEF Popped
<1>7. StackHoldsFrames'
  <2>1. ram' = ram
    BY DEF Pop
  <2>2. ASSUME NEW i \in 1 .. Len(frames')
        PROVE  /\ ram'[StackTop - 2 * (i - 1)] = frames'[i] % ByteSize
               /\ ram'[StackTop - 2 * (i - 1) - 1] = frames'[i] \div ByteSize
    BY <1>1, <1>2, <2>1 DEF StackHoldsFrames
  <2>3. sp' = StackTop - 2 * Len(frames')
    BY <1>1, <1>2, <1>5 DEF StackTop
  <2>. QED
    BY <2>2, <2>3 DEF StackHoldsFrames
<1>. QED
  BY <1>1, <1>2, <1>3, <1>5, <1>6, <1>7

----------------------------------------------------------------------------
(* What the shared pieces of the actions do to the invariant.              *)

LEMMA InstructionOwes ==
    ASSUME IInv, NEW c \in Nat \ {0}, StartInstruction(c, c)
    PROVE  /\ phase' = "clock"
           /\ extraCycles' \in Nat
           /\ cycleDebt' \in Int
           /\ CyclesOwed'
  BY DEF IInv, TypeOK, CyclesOwed, StartInstruction, ExecuteInstruction

\* A jump from any phase that executes; --exitreset leaves what was owed.
LEMMA JumpOwes ==
    ASSUME IInv, phase \in {"execute", "jump"},
           NEW t \in Address, NEW c \in Nat \ {0},
           Unconditional_Jump(t, c)
    PROVE  /\ phase' \in {"clock", "exited"}
           /\ extraCycles' \in Nat
           /\ cycleDebt' \in Int
           /\ pc' = t
           /\ CyclesOwed'
<1>1. CASE t = 0 /\ exitOnReset
  BY <1>1 DEF IInv, TypeOK, CyclesOwed, Unconditional_Jump
<1>2. CASE ~ (t = 0 /\ exitOnReset)
  BY <1>2 DEF IInv, TypeOK, CyclesOwed, ExecuteInstruction, Unconditional_Jump
<1>. QED  BY <1>1, <1>2

\* A step that leaves the stack alone and does not end the run cycle keeps the
\* invariant if it keeps the types, the cache and the cycle accounting.
LEMMA StackUntouched ==
    ASSUME IInv, UNCHANGED <<sp, ram, frames>>
    PROVE  /\ sp' \in 0 .. StackTop
           /\ ram' \in [1 .. StackTop -> Byte]
           /\ frames' \in Seq(Address)
           /\ StackHoldsFrames'
           /\ sregI' = sregI => DepthBounded'
  BY DEF IInv, TypeOK, StackHoldsFrames, DepthBounded

LEMMA DepthFacts ==
    ASSUME IInv
    PROVE  /\ Len(frames) \in Nat
           /\ MaxDepth \in Nat
           /\ Len(frames) <= MaxDepth
           /\ sregI => Len(frames) < MaxDepth
  BY CpuAssumption, LenProperties DEF IInv, TypeOK, DepthBounded

LEMMA InitIInv == Init => IInv
<1> SUFFICES ASSUME Init PROVE IInv
  OBVIOUS
<1>1. frames = <<>> /\ frames \in Seq(Address) /\ Len(frames) = 0
  BY EmptySeq DEF Init
<1>2. 0 \in Address /\ 0 \in Byte /\ MaxDepth \in Nat \ {0}
  BY CpuAssumption DEF Address, Byte
<1>3. TypeOK
  <2>1. phase \in Phase /\ extraCycles \in Nat /\ cycleDebt \in Int
    BY DEF Init, CycleInit, Phase
  <2>2. irq \in IrqState
    BY DEF Init, NoRequest, IrqState
  <2>3. sp \in 0 .. StackTop /\ ram \in [1 .. StackTop -> Byte]
    BY <1>2 DEF Init, StackTop
  <2>4. reported \in {NoEvent} \cup (BOOLEAN \X Nat)
    BY DEF Init
  <2>. QED
    BY <1>1, <1>2, <2>1, <2>2, <2>3, <2>4 DEF Init, TypeOK
<1>4. PriorityAgrees /\ PromptDelivery
  BY DEF Init, PriorityAgrees, PriorityCached, PromptDelivery, NoRequest
<1>5. StackHoldsFrames /\ DepthBounded
  BY <1>1, <1>2 DEF Init, StackHoldsFrames, DepthBounded, StackTop
<1>6. CyclesOwed
  BY DEF Init, CycleInit, CyclesOwed
<1>. QED
  BY <1>3, <1>4, <1>5, <1>6 DEF IInv

\* Instructions: none ends the run cycle, so only the last conjuncts of the
\* invariant depend on which one it is.
LEMMA InstructionKeepsIInv == IInv /\ Instruction => IInv'
<1> SUFFICES ASSUME IInv, Instruction PROVE IInv'
  OBVIOUS
<1>0. Cycles \subseteq Nat \ {0}
  BY DEF Cycles
<1>1. CASE AVR_Decoder_JMP_CALL_22 \/ Straight \/ Skip \/ Branch \/ Jump
  <2>1. /\ phase' \in {"jump", "clock", "exited"}
        /\ extraCycles' \in Nat
        /\ cycleDebt' \in Int
        /\ pc' \in Address
        /\ CyclesOwed'
    <3>1. CASE Straight
      BY <1>0, <3>1, InstructionOwes DEF Straight
    <3>2. CASE Skip
      <4>1. PICK n \in 1 .. 2, c \in Cycles :
               /\ pc' \in Address
               /\ StartInstruction(c + n + 1, c + n + 1)
        BY <3>2 DEF Skip
      <4>2. c + n + 1 \in Nat \ {0}
        BY <1>0
      <4>. QED  BY <4>1, <4>2, InstructionOwes
    <3>3. CASE Branch
      <4>1. PICK t \in Address, c \in Cycles :
               pc' = t /\ StartInstruction(c + 1, c + 1)
        BY <3>3 DEF Branch
      <4>2. c + 1 \in Nat \ {0}
        BY <1>0
      <4>. QED  BY <4>1, <4>2, InstructionOwes
    <3>4. CASE Jump
      BY <1>0, <3>4, JumpOwes DEF Jump, Awake
    <3>5. CASE AVR_Decoder_JMP_CALL_22
      BY <3>5 DEF AVR_Decoder_JMP_CALL_22, DecodeJump, Awake, cpuVars,
                  IInv, TypeOK, CyclesOwed
    <3>. QED  BY <1>1, <3>1, <3>2, <3>3, <3>4, <3>5
  <2>2. UNCHANGED <<irq, sregI, asleep, sp, ram, exitOnReset, reported, frames>>
    BY <1>1 DEF AVR_Decoder_JMP_CALL_22, Straight, Skip, Branch, Jump, cpuVars
  <2>. QED
    BY <2>1, <2>2, StackUntouched
       DEF IInv, TypeOK, PriorityAgrees, PromptDelivery, Phase
<1>2. CASE Call
  <2>1. /\ \E next \in Address : Push(next)
        /\ \E target \in Address, c \in Cycles : Unconditional_Jump(target, c)
        /\ phase \in {"execute", "jump"}
    BY <1>2 DEF Call, Awake
  <2>2. /\ phase' \in {"clock", "exited"}
        /\ extraCycles' \in Nat
        /\ cycleDebt' \in Int
        /\ pc' \in Address
        /\ CyclesOwed'
    BY <1>0, <2>1, JumpOwes
  <2>3. Len(frames) + (IF sregI THEN 1 ELSE 0) < MaxDepth
    BY <1>2 DEF Call
  <2>4. /\ sp' \in 0 .. StackTop
        /\ ram' \in [1 .. StackTop -> Byte]
        /\ frames' \in Seq(Address)
        /\ Len(frames') = Len(frames) + 1
        /\ StackHoldsFrames'
    BY <2>1, <2>3, DepthFacts, PushKeepsFrames DEF IInv
  <2>5. UNCHANGED <<irq, sregI, asleep, exitOnReset, reported>>
    BY <1>2 DEF Call
  <2>6. DepthBounded'
    BY <2>3, <2>4, <2>5, DepthFacts DEF DepthBounded
  <2>. QED
    BY <2>2, <2>4, <2>5, <2>6
       DEF IInv, TypeOK, PriorityAgrees, PromptDelivery, Phase
<1>3. CASE Ret \/ Reti
  <2>1. /\ Len(frames) \in Nat \ {0}
        /\ Popped \in Address
        /\ sp' \in 0 .. StackTop
        /\ frames' \in Seq(Address)
        /\ Len(frames') = Len(frames) - 1
        /\ StackHoldsFrames'
    BY <1>3, DepthFacts, PopReadsFrame DEF Ret, Reti, IInv
  <2>2. PICK c \in Cycles : Unconditional_Jump(Popped, c)
    BY <1>3 DEF Ret, Reti
  <2>3. /\ phase' \in {"clock", "exited"}
        /\ extraCycles' \in Nat
        /\ cycleDebt' \in Int
        /\ pc' \in Address
        /\ CyclesOwed'
    <3>1. phase \in {"execute", "jump"}
      BY <1>3 DEF Ret, Reti, Awake
    <3>. QED  BY <1>0, <2>1, <2>2, <3>1, JumpOwes
  <2>4. /\ UNCHANGED <<irq, asleep, exitOnReset, ram>>
        /\ sregI' \in BOOLEAN
        /\ reported' \in {reported, <<FALSE, 0>>}
    BY <1>3 DEF Ret, Reti, Pop, IInv, TypeOK
  <2>5. DepthBounded'
    BY <2>1, <2>4, DepthFacts DEF DepthBounded
  <2>6. reported' \in {NoEvent} \cup (BOOLEAN \X Nat)
    <3>1. reported \in {NoEvent} \cup (BOOLEAN \X Nat)
      BY DEF IInv, TypeOK
    <3>2. <<FALSE, 0>> \in BOOLEAN \X Nat
      OBVIOUS
    <3>. QED  BY <2>4, <3>1, <3>2
  <2>7. TypeOK'
    BY <2>1, <2>3, <2>4, <2>6 DEF IInv, TypeOK, Phase
  <2>. QED
    BY <2>1, <2>3, <2>4, <2>5, <2>7
       DEF IInv, PriorityAgrees, PromptDelivery
<1>4. CASE SetI \/ Sleep \/ Store
  <2>1. /\ phase' = "clock"
        /\ extraCycles' \in Nat
        /\ cycleDebt' \in Int
        /\ pc' \in Address
        /\ CyclesOwed'
    BY <1>0, <1>4, InstructionOwes DEF SetI, Sleep, Store
  <2>2. UNCHANGED <<sp, ram, exitOnReset, reported, frames>>
    BY <1>4 DEF SetI, Sleep, Store
  <2>3. irq' \in IrqState /\ PriorityCached(irq')
    <3>1. CASE Store
      BY <3>1, CandidateAgrees, ClearAgrees
         DEF Store, IInv, TypeOK, PriorityAgrees
    <3>2. CASE SetI \/ Sleep
      BY <3>2 DEF SetI, Sleep, IInv, TypeOK, PriorityAgrees
    <3>. QED  BY <1>4, <3>1, <3>2
  <2>4. /\ sregI' \in BOOLEAN
        /\ asleep' \in BOOLEAN
        /\ sregI' # sregI => Len(frames) < MaxDepth
    BY <1>4 DEF SetI, Sleep, Store, IInv, TypeOK
  <2>5. DepthBounded'
    BY <2>2, <2>4, DepthFacts DEF DepthBounded
  <2>. QED
    BY <2>1, <2>2, <2>3, <2>4, <2>5, StackUntouched
       DEF IInv, TypeOK, PriorityAgrees, PromptDelivery, Phase
<1>. QED
  BY <1>1, <1>2, <1>3, <1>4 DEF Instruction

\* The rest of the run cycle.  Only the two outcomes of AVR_Interrupt bring the
\* phase back to "execute", and each leaves nothing enabled and pending.
LEMMA CycleKeepsIInv ==
    ASSUME IInv,
           \/ SleepCycle \/ PeripheralEvent \/ CPU_PeripheralCycle
           \/ NoInterrupt \/ AVR_Interrupt \/ Exited
    PROVE  IInv'
<1>1. CASE SleepCycle
  <2>1. UNCHANGED cpuVars /\ StartInstruction(1, 1)
    BY <1>1 DEF SleepCycle
  <2>. QED
    BY <2>1, InstructionOwes, StackUntouched
       DEF cpuVars, IInv, TypeOK, PriorityAgrees, PromptDelivery, Phase
<1>2. CASE PeripheralEvent
  <2>1. irq' \in IrqState /\ PriorityCached(irq')
    BY <1>2, CandidateAgrees, ClearAgrees
       DEF PeripheralEvent, IInv, TypeOK, PriorityAgrees
  <2>. QED
    BY <1>2, <2>1, StackUntouched
       DEF PeripheralEvent, cycleVars, IInv, TypeOK, PriorityAgrees,
           PromptDelivery, CyclesOwed
<1>3. CASE CPU_PeripheralCycle
  BY <1>3, StackUntouched
     DEF CPU_PeripheralCycle, ClockCycle, cpuVars, IInv, TypeOK,
         PriorityAgrees, PromptDelivery, CyclesOwed, Phase
<1>4. CASE NoInterrupt
  <2>1. sregI => irq.flags = {}
    BY <1>4, VectorAssumption
       DEF NoInterrupt, IInv, TypeOK, IrqState, PriorityAgrees,
           PriorityCached, Vector
  <2>2. /\ phase' = "execute"
        /\ UNCHANGED <<cpuVars, extraCycles, cycleDebt>>
        /\ CyclesOwed'
    BY <1>4 DEF NoInterrupt, EndCycle, IInv, CyclesOwed
  <2>. QED
    BY <2>1, <2>2, StackUntouched
       DEF cpuVars, IInv, TypeOK, PriorityAgrees, PromptDelivery, Phase
<1>5. CASE AVR_Interrupt
  <2>1. Len(frames) < MaxDepth /\ pc \in Address /\ Push(pc)
    BY <1>5, DepthFacts DEF AVR_Interrupt, IInv, TypeOK
  <2>2. /\ sp' \in 0 .. StackTop
        /\ ram' \in [1 .. StackTop -> Byte]
        /\ frames' \in Seq(Address)
        /\ Len(frames') = Len(frames) + 1
        /\ StackHoldsFrames'
    BY <2>1, PushKeepsFrames DEF IInv
  <2>3. irq.prio \in Vector
    BY <1>5 DEF AVR_Interrupt, IInv, TypeOK, IrqState
  <2>4. /\ pc' \in Address
        /\ reported' \in {NoEvent} \cup (BOOLEAN \X Nat)
    <3>1. pc' = irq.prio * 2 /\ reported' = <<TRUE, irq.prio>>
      BY <1>5 DEF AVR_Interrupt
    <3>2. irq.prio \in Nat /\ irq.prio * 2 < CodeSize
      BY <2>3, CpuAssumption, VectorAssumption DEF Vector
    <3>3. <<TRUE, irq.prio>> \in BOOLEAN \X Nat
      BY <3>2
    <3>4. irq.prio * 2 \in Address
      BY <3>2, CpuAssumption DEF Address
    <3>. QED  BY <3>1, <3>3, <3>4
  <2>5. irq' \in IrqState /\ PriorityCached(irq')
    BY <1>5, AcknowledgeAgrees DEF AVR_Interrupt, IInv, TypeOK
  <2>6. sregI' = FALSE /\ asleep' = FALSE /\ UNCHANGED exitOnReset
    BY <1>5 DEF AVR_Interrupt
  <2>7. DepthBounded'
    BY <2>1, <2>2, <2>6, DepthFacts DEF DepthBounded
  <2>8. /\ phase' = "execute"
        /\ extraCycles' \in Nat
        /\ cycleDebt' \in Int
        /\ CyclesOwed'
    BY <1>5 DEF AVR_Interrupt, EndCycle, IInv, TypeOK, CyclesOwed
  <2>. QED
    BY <2>2, <2>4, <2>5, <2>6, <2>7, <2>8
       DEF IInv, TypeOK, PriorityAgrees, PromptDelivery, Phase
<1>6. CASE Exited
  BY <1>6, StackUntouched
     DEF Exited, vars, cycleVars, cpuVars, IInv, TypeOK, PriorityAgrees,
         PromptDelivery, CyclesOwed
<1>. QED  BY <1>1, <1>2, <1>3, <1>4, <1>5, <1>6

LEMMA StutterKeepsIInv == IInv /\ UNCHANGED vars => IInv'
  BY DEF vars, cycleVars, cpuVars, IInv, TypeOK, PriorityAgrees,
         PromptDelivery, StackHoldsFrames, DepthBounded, CyclesOwed

LEMMA StepKeepsIInv == IInv /\ [Next]_vars => IInv'
  BY InstructionKeepsIInv, CycleKeepsIInv, StutterKeepsIInv DEF Next

LEMMA InvariantHolds == Spec => []IInv
  BY InitIInv, StepKeepsIInv, PTL DEF Spec

----------------------------------------------------------------------------
\* Every state of the CPU is well typed: a return never leaves the program.
THEOREM TypeCorrect == Spec => []TypeOK
<1>1. IInv => TypeOK
  BY DEF IInv
<1>. QED  BY <1>1, InvariantHolds, PTL

\* The cached priority never loses track of the pending flags.
THEOREM PriorityCorrect == Spec => []PriorityAgrees
<1>1. IInv => PriorityAgrees
  BY DEF IInv
<1>. QED  BY <1>1, InvariantHolds, PTL

\* No enabled request outlives an instruction.
THEOREM DeliveryIsPrompt == Spec => []PromptDelivery
<1>1. IInv => PromptDelivery
  BY DEF IInv
<1>. QED  BY <1>1, InvariantHolds, PTL

\* The stack holds the return addresses of all suspended code.
THEOREM StackCorrect == Spec => []StackHoldsFrames
<1>1. IInv => StackHoldsFrames
  BY DEF IInv
<1>. QED  BY <1>1, InvariantHolds, PTL

\* Without stalls every counted cycle has been clocked between instructions,
\* and a decoded jump runs the peripherals at most one clock ahead.
THEOREM AccountingCorrect == Spec => []EveryCycleClocked
<1>1. IInv => EveryCycleClocked
  BY DEF IInv, CyclesOwed, EveryCycleClocked
<1>. QED  BY <1>1, InvariantHolds, PTL

----------------------------------------------------------------------------
(* Refinement: every step of the CPU is a step of InterruptPromise or       *)
(* leaves its variables alone.                                              *)

\* A register write or a clock function requests, withdraws or does nothing.
LEMMA EventPromises ==
    ASSUME IInv, NEW v \in Vector \cup {NoVector},
           irq' \in {AVR_InterruptCandidate(irq, v), AVR_ClearCandidate(irq, v)},
           UNCHANGED <<sregI, asleep, reported>>
    PROVE  [Promise!Next]_(Promise!promiseVars)
<1>1. irq \in IrqState /\ PriorityCached(irq)
  BY DEF IInv, TypeOK, PriorityAgrees
<1>2. \/ irq'.flags = irq.flags
      \/ v \in Vector /\ irq'.flags = irq.flags \cup {v}
      \/ v \in Vector /\ irq'.flags = irq.flags \ {v}
  <2>1. AVR_InterruptCandidate(irq, v).flags =
            IF v = NoVector THEN irq.flags ELSE irq.flags \cup {v}
    BY <1>1, CandidateAgrees
  <2>2. AVR_ClearCandidate(irq, v).flags =
            IF v = NoVector THEN irq.flags ELSE irq.flags \ {v}
    BY <1>1, ClearAgrees
  <2>3. CASE irq' = AVR_InterruptCandidate(irq, v)
    BY <2>1, <2>3
  <2>4. CASE irq' = AVR_ClearCandidate(irq, v)
    BY <2>2, <2>4
  <2>. QED  BY <2>3, <2>4
<1>3. CASE irq'.flags = irq.flags
  BY <1>3 DEF Promise!promiseVars
<1>4. CASE v \in Vector /\ irq'.flags = irq.flags \cup {v}
  <2>1. Promise!Request(v)
    BY <1>4 DEF Promise!Request
  <2>. QED  BY <1>4, <2>1 DEF Promise!Next
<1>5. CASE v \in Vector /\ irq'.flags = irq.flags \ {v}
  <2>1. Promise!Withdraw(v)
    BY <1>5 DEF Promise!Withdraw
  <2>. QED  BY <1>5, <2>1 DEF Promise!Next
<1>. QED  BY <1>2, <1>3, <1>4, <1>5

LEMMA StepPromises ==
    ASSUME IInv, [Next]_vars
    PROVE  [Promise!Next]_(Promise!promiseVars)
<1>1. CASE \/ AVR_Decoder_JMP_CALL_22 \/ Straight \/ Skip \/ Branch \/ Jump \/ Call \/ Ret \/ SleepCycle
           \/ CPU_PeripheralCycle \/ NoInterrupt \/ Exited \/ UNCHANGED vars
  <2>1. UNCHANGED <<irq, sregI, asleep, reported>>
    BY <1>1 DEF AVR_Decoder_JMP_CALL_22, Straight, Skip, Branch, Jump, Call,
                Ret, SleepCycle, CPU_PeripheralCycle, NoInterrupt, Exited, vars, cpuVars
  <2>. QED  BY <2>1 DEF Promise!promiseVars
<1>2. CASE Reti
  <2>1. \/ Promise!SetEnable(TRUE)
        \/ Promise!Return
    BY <1>2 DEF Reti, Awake, Promise!SetEnable, Promise!Return
  <2>. QED  BY <2>1 DEF Promise!Next
<1>3. CASE SetI
  <2>1. \E b \in BOOLEAN : Promise!SetEnable(b)
    BY <1>3 DEF SetI, Awake, Promise!SetEnable
  <2>. QED  BY <2>1 DEF Promise!Next
<1>4. CASE Sleep
  <2>1. Promise!Sleep
    BY <1>4 DEF Sleep, Awake, Promise!Sleep
  <2>. QED  BY <2>1 DEF Promise!Next
<1>5. CASE Store
  BY <1>5, EventPromises DEF Store
<1>6. CASE PeripheralEvent
  BY <1>6, EventPromises DEF PeripheralEvent
<1>7. CASE AVR_Interrupt
  <2>1. /\ irq \in IrqState
        /\ irq.prio # NoVector
        /\ PriorityCached(irq)
    BY <1>7 DEF AVR_Interrupt, IInv, TypeOK, PriorityAgrees
  <2>2. irq.prio \in Vector /\ irq.prio \in irq.flags
    BY <2>1 DEF IrqState, PriorityCached
  <2>3. irq'.flags = irq.flags \ {irq.prio}
    BY <1>7, <2>1, AcknowledgeAgrees DEF AVR_Interrupt
  <2>4. Promise!Deliver(irq.prio)
    BY <1>7, <2>2, <2>3 DEF AVR_Interrupt, Promise!Deliver
  <2>. QED  BY <2>2, <2>4 DEF Promise!Next
<1>. QED
  BY <1>1, <1>2, <1>3, <1>4, <1>5, <1>6, <1>7 DEF Next, Instruction

\* No request is lost, none is invented, and each is delivered at most once and
\* only while interrupts are enabled: the CPU implements InterruptPromise.
THEOREM PromiseKept == Spec => KeepsPromise
<1>1. Init => Promise!Init
  BY DEF Init, NoRequest, Promise!Init
<1>2. IInv /\ [Next]_vars => [Promise!Next]_(Promise!promiseVars)
  BY StepPromises
<1>. QED
  BY <1>1, <1>2, InvariantHolds, PTL DEF Spec, KeepsPromise, Promise!Spec

----------------------------------------------------------------------------
\* A step that shortens the stack resumes the innermost suspended code.
LEMMA StepReturns ==
    ASSUME IInv, [Next]_vars, Len(frames') < Len(frames)
    PROVE  pc' = frames[Len(frames)]
<1>1. Len(frames) \in Nat
  BY DepthFacts
<1>2. CASE Ret \/ Reti
  <2>1. PICK c \in Cycles : Unconditional_Jump(Popped, c)
    BY <1>2 DEF Ret, Reti
  <2>2. Popped = frames[Len(frames)]
    BY <1>2, DepthFacts, PopReadsFrame DEF Ret, Reti, IInv
  <2>. QED  BY <2>1, <2>2 DEF Unconditional_Jump
<1>3. CASE Call \/ AVR_Interrupt
  <2>1. PICK w : frames' = Append(frames, w) /\ w \in Address
    BY <1>3 DEF Call, AVR_Interrupt, Push, IInv, TypeOK
  <2>2. Len(frames') = Len(frames) + 1
    BY <2>1, AppendProperties DEF IInv, TypeOK
  <2>. QED  BY <1>1, <2>2
<1>4. CASE ~ (Ret \/ Reti \/ Call \/ AVR_Interrupt)
  <2>1. UNCHANGED frames
    BY <1>4 DEF Next, Instruction, AVR_Decoder_JMP_CALL_22, Straight, Skip, Branch, Jump, SetI, Sleep,
                Store, SleepCycle, PeripheralEvent, CPU_PeripheralCycle,
                NoInterrupt, Exited, vars, cpuVars
  <2>. QED  BY <1>1, <2>1
<1>. QED  BY <1>2, <1>3, <1>4

\* RET and RETI resume what the matching call or dispatch suspended.
THEOREM ReturnsCorrect == Spec => ReturnsToCaller
<1>1. IInv /\ [Next]_vars =>
         [Len(frames') < Len(frames) => pc' = frames[Len(frames)]]_vars
  BY StepReturns
<1>. QED
  BY <1>1, InvariantHolds, PTL DEF Spec, ReturnsToCaller
=============================================================================
