-------------------------- MODULE InterruptLemmas --------------------------
(***************************************************************************)
(* What the operators of Interrupts return: facts that hold for every      *)
(* number of vectors, cited by the proofs about the CPU and peripherals.   *)
(***************************************************************************)
EXTENDS Interrupts, WellFoundedInduction, TLAPS

\* The scan of AVR_NextInterrupt finds a pending vector when there is one.
LEMMA ScanFindsPending ==
    ASSUME NEW flags \in SUBSET Vector, flags # {}
    PROVE  /\ ScanFlags(flags) \in flags
           /\ \A w \in flags : w <= ScanFlags(flags)
<1> DEFINE mirror == {NumVectors - v : v \in flags}
           R == OpToRel(<, Nat)
<1>1. /\ mirror \subseteq Nat
      /\ mirror # {}
  <2>1. \A v \in flags : v \in Int /\ NumVectors - v \in Nat
    BY VectorAssumption DEF Vector
  <2>. QED
    BY <2>1
<1>2. \E x \in mirror : \A y \in mirror : ~ (<<y, x>> \in R)
  <2>. HIDE DEF R, mirror
  <2>. QED  BY <1>1, WFMin, NatLessThanWellFounded DEF R
<1>3. PICK x \in mirror : \A y \in mirror : ~ (<<y, x>> \in R)
  BY <1>2
<1>4. \A y \in mirror : ~ (y < x)
  BY <1>1, <1>3 DEF OpToRel
<1>5. PICK v \in flags : x = NumVectors - v
  OBVIOUS
<1>6. ASSUME NEW w \in flags PROVE w <= v
  <2>1. NumVectors - w \in mirror
    OBVIOUS
  <2>2. ~ (NumVectors - w < NumVectors - v)
    BY <1>4, <1>5, <2>1
  <2>. QED
    BY <2>2, VectorAssumption DEF Vector
<1>. QED
  BY <1>6 DEF ScanFlags

\* Each request, withdrawal and acknowledgement leaves the cache in agreement
\* with the flags it sets.
LEMMA NextInterruptAgrees ==
    ASSUME NEW flags \in SUBSET Vector
    PROVE  /\ AVR_NextInterrupt(flags) \in IrqState
           /\ AVR_NextInterrupt(flags).flags = flags
           /\ PriorityCached(AVR_NextInterrupt(flags))
<1>1. CASE flags = {}
  BY <1>1 DEF AVR_NextInterrupt, NoRequest, IrqState, PriorityCached
<1>2. CASE flags # {}
  <2>1. ScanFlags(flags) \in flags
    BY <1>2, ScanFindsPending
  <2>. QED
    BY <1>2, <2>1 DEF AVR_NextInterrupt, IrqState, PriorityCached
<1>. QED  BY <1>1, <1>2

LEMMA CandidateAgrees ==
    ASSUME NEW i \in IrqState, PriorityCached(i), NEW v \in Vector \cup {NoVector}
    PROVE  /\ AVR_InterruptCandidate(i, v) \in IrqState
           /\ PriorityCached(AVR_InterruptCandidate(i, v))
           /\ AVR_InterruptCandidate(i, v).flags =
                  IF v = NoVector THEN i.flags ELSE i.flags \cup {v}
<1>1. v # NoVector => v \in Vector /\ v < NoVector
  BY VectorAssumption DEF Vector
<1>. QED
  BY <1>1, VectorAssumption
     DEF AVR_InterruptCandidate, IrqState, PriorityCached, Vector

LEMMA ClearAgrees ==
    ASSUME NEW i \in IrqState, PriorityCached(i), NEW v \in Vector \cup {NoVector}
    PROVE  /\ AVR_ClearCandidate(i, v) \in IrqState
           /\ PriorityCached(AVR_ClearCandidate(i, v))
           /\ AVR_ClearCandidate(i, v).flags =
                  IF v = NoVector THEN i.flags ELSE i.flags \ {v}
<1>1. i.flags \ {v} \in SUBSET Vector
  BY DEF IrqState
<1>. QED
  BY <1>1, NextInterruptAgrees DEF AVR_ClearCandidate

LEMMA AcknowledgeAgrees ==
    ASSUME NEW i \in IrqState
    PROVE  /\ Acknowledge(i) \in IrqState
           /\ PriorityCached(Acknowledge(i))
           /\ Acknowledge(i).flags = i.flags \ {i.prio}
<1>1. i.flags \ {i.prio} \in SUBSET Vector
  BY DEF IrqState
<1>. QED
  BY <1>1, NextInterruptAgrees DEF Acknowledge

\* The three updates keep the type of the request state, in agreement or not.
LEMMA RequestTypes ==
    ASSUME NEW i \in IrqState, NEW v \in Vector
    PROVE  /\ AVR_InterruptCandidate(i, v) \in IrqState
           /\ AVR_InterruptCandidate(i, v).flags = i.flags \cup {v}
           /\ AVR_ClearCandidate(i, v) \in IrqState
           /\ AVR_ClearCandidate(i, v).flags = i.flags \ {v}
<1>1. v # NoVector
  BY VectorAssumption DEF Vector
<1>2. /\ AVR_InterruptCandidate(i, v) \in IrqState
      /\ AVR_InterruptCandidate(i, v).flags = i.flags \cup {v}
  BY <1>1 DEF AVR_InterruptCandidate, IrqState
<1>3. i.flags \ {v} \in SUBSET Vector
  BY DEF IrqState
<1>4. /\ AVR_ClearCandidate(i, v) \in IrqState
      /\ AVR_ClearCandidate(i, v).flags = i.flags \ {v}
  BY <1>1, <1>3, NextInterruptAgrees DEF AVR_ClearCandidate
<1>. QED  BY <1>2, <1>4
=============================================================================
