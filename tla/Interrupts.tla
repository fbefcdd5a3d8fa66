----------------------------- MODULE Interrupts -----------------------------
(***************************************************************************)
(* The interrupt request logic of avr_cpu/avr_interrupt.c, as operators on *)
(* the pair of fields it keeps in stCPU:                                   *)
(*                                                                         *)
(*   irq.flags  the bits set in stCPU.u32IntFlags, as the set of their     *)
(*              indices;                                                   *)
(*   irq.prio   stCPU.u8IntPriority, the cached vector that AVR_Interrupt  *)
(*              dispatches next, or NoVector (255) when nothing is pending.*)
(*                                                                         *)
(* Every peripheral module and the CPU module EXTEND this one: a handler   *)
(* that raises or clears several requests composes these operators in the  *)
(* order of its calls.                                                     *)
(***************************************************************************)
EXTENDS Integers

CONSTANTS
    NumVectors,    \* the width of u32IntFlags: 32 in the code
    NoVector       \* VECTOR_NOT_SUPPORTED, also "no interrupt pending": 255

ASSUME VectorAssumption ==
    /\ NumVectors \in Nat \ {0}
    /\ NoVector \in Nat
    /\ NoVector >= NumVectors

Vector == 0 .. NumVectors - 1

IrqState == [flags : SUBSET Vector, prio : Vector \cup {NoVector}]

NoRequest == [flags |-> {}, prio |-> NoVector]

\* The scan of AVR_NextInterrupt starts at bit 31 and goes down: the first bit
\* it meets is the highest index.
ScanFlags(flags) == CHOOSE v \in flags : \A w \in flags : w <= v

AVR_NextInterrupt(flags) ==
    IF flags = {} THEN NoRequest
                  ELSE [flags |-> flags, prio |-> ScanFlags(flags)]

----------------------------------------------------------------------------
(* Mutants: plausible mistakes in the functions below.                     *)

CandidateReplaces(irq, v) ==        \* "=" for "|=" on the flags
    IF v = NoVector THEN irq
    ELSE [flags |-> {v}, prio |-> IF v < irq.prio THEN v ELSE irq.prio]

CandidateReversed(irq, v) ==        \* ">" for "<": the cache is never armed
    IF v = NoVector THEN irq
    ELSE [flags |-> irq.flags \cup {v},
          prio  |-> IF v > irq.prio THEN v ELSE irq.prio]

ClearForgetsOthers(irq, v) ==       \* cache reset without the scan
    IF v = NoVector THEN irq
    ELSE [flags |-> irq.flags \ {v}, prio |-> NoVector]

AcknowledgeAll(irq) == NoRequest    \* u32IntFlags = 0 for "&= ~(1 << u8Pri)"
----------------------------------------------------------------------------

\* AVR_InterruptCandidate: a peripheral requests vector v.
AVR_InterruptCandidate(irq, v) ==
    IF v = NoVector THEN irq
    ELSE [flags |-> irq.flags \cup {v},
          prio  |-> IF v < irq.prio THEN v ELSE irq.prio]

\* AVR_ClearCandidate: a peripheral withdraws its request for vector v.
AVR_ClearCandidate(irq, v) ==
    IF v = NoVector THEN irq ELSE AVR_NextInterrupt(irq.flags \ {v})

\* The last part of AVR_Interrupt: the dispatched request is over.
Acknowledge(irq) == AVR_NextInterrupt(irq.flags \ {irq.prio})

\* A request when `on`, a withdrawal when not: the shape of the peripherals'
\* "update interrupt flags" functions.
RequestIf(irq, v, on) ==
    IF on THEN AVR_InterruptCandidate(irq, v) ELSE AVR_ClearCandidate(irq, v)

(***************************************************************************)
(* The cached vector is one of the pending ones, and it is NoVector just   *)
(* when none is: AVR_Interrupt reads only the cache, so a cache that lost  *)
(* track of the flags would drop a request or dispatch one nobody made.    *)
(***************************************************************************)
PriorityCached(irq) ==
    IF irq.flags = {} THEN irq.prio = NoVector ELSE irq.prio \in irq.flags
=============================================================================
