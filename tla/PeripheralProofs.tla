-------------------------- MODULE PeripheralProofs --------------------------
(***************************************************************************)
(* The safety properties of peripherals that request interrupts: of the    *)
(* two timers on one interrupt controller, for every size of byte and      *)
(* counter, set of prescaler settings and assignment of vectors, and of the*)
(* external lines, for every length of instruction.                        *)
(***************************************************************************)
EXTENDS Timers, Eint, InterruptLemmas

----------------------------------------------------------------------------
(* Arithmetic of the counter.                                              *)

LEMMA WordPositive == ByteSize * ByteSize \in Nat \ {0}
<1>1. \A n \in Nat \ {0} : n * n \in Nat \ {0}
  OBVIOUS
<1>. QED  BY <1>1, Timer16Assumption

\* A word is a pair of bytes.
LEMMA JoinedIsWord ==
    ASSUME u8Temp \in Byte, NEW low \in Byte
    PROVE  Joined(low) \in Word
<1> DEFINE B == ByteSize
<1>1. B \in Nat \ {0} /\ u8Temp \in 0 .. B - 1 /\ low \in 0 .. B - 1
  BY Timer16Assumption DEF Byte
<1>2. u8Temp * B <= (B - 1) * B
  <2>1. \A a, b, n \in Nat : a <= b => a * n <= b * n
    OBVIOUS
  <2>. QED  BY <1>1, <2>1
<1>3. (B - 1) * B = B * B - B
  BY <1>1
<1>4. u8Temp * B \in Nat /\ B * B \in Nat
  BY <1>1
<1>5. u8Temp * B + low \in 0 .. B * B - 1
  <2> HIDE DEF B
  <2>. QED  BY <1>1, <1>2, <1>3, <1>4
<1>. QED
  BY <1>5 DEF Joined, Word

\* The counter wraps to zero, and counts by one otherwise.
LEMMA NextCountWraps ==
    ASSUME tcnt \in Word
    PROVE  /\ NextCount \in Word
           /\ NextCount # 0 => NextCount = tcnt + 1
<1> DEFINE N == ByteSize * ByteSize
<1>1. N \in Nat \ {0} /\ tcnt \in 0 .. N - 1
  BY WordPositive DEF Word
<1>2. CASE tcnt + 1 = N
  <2>1. \A n \in Nat \ {0} : n % n = 0
    OBVIOUS
  <2>2. (tcnt + 1) % N = 0
    BY <1>1, <1>2, <2>1
  <2>. QED
    BY <1>1, <2>2 DEF NextCount, Word
<1>3. CASE tcnt + 1 # N
  <2>1. \A n \in Nat \ {0} : \A k \in 0 .. n - 1 : k % n = k
    OBVIOUS
  <2>2. tcnt + 1 \in 0 .. N - 1
    <3> HIDE DEF N
    <3>. QED  BY <1>1, <1>3
  <2>3. (tcnt + 1) % N = tcnt + 1
    <3> HIDE DEF N
    <3>. QED  BY <1>1, <2>1, <2>2
  <2>. QED
    BY <2>2, <2>3 DEF NextCount, Word
<1>. QED  BY <1>2, <1>3

----------------------------------------------------------------------------
(* Requests.  A timer's update sets the requests of its enabled sources and*)
(* leaves all others, whichever timer's they are.                          *)

\* The update of all sources of the 16-bit timer.
LEMMA Update16Agrees ==
    ASSUME NEW i \in IrqState, PriorityCached(i),
           NEW flags \in SUBSET Source, NEW mask \in SUBSET Source
    PROVE  /\ Timer16_IntFlagUpdate(i, flags, mask) \in IrqState
           /\ PriorityCached(Timer16_IntFlagUpdate(i, flags, mask))
           /\ \A s \in mask : Vec[s] # NoVector =>
                 (Vec[s] \in Timer16_IntFlagUpdate(i, flags, mask).flags <=> s \in flags)
           /\ \A w \in Vector :
                 (\A s \in mask : Vec[s] # w) =>
                    (w \in Timer16_IntFlagUpdate(i, flags, mask).flags <=> w \in i.flags)
<1> DEFINE Update(k, s) ==
             IF s \in mask THEN RequestIf(k, Vec[s], s \in flags) ELSE k
           i1 == Update(i, "TOV1")
           i2 == Update(i1, "OCF1A")
           i3 == Update(i2, "OCF1B")
           i4 == Update(i3, "ICF1")
           Good(k, l, s) ==
             /\ l \in IrqState /\ PriorityCached(l)
             /\ s \notin mask => l = k
             /\ \A w \in Vector : w # Vec[s] => (w \in l.flags <=> w \in k.flags)
             /\ s \in mask /\ Vec[s] # NoVector => (Vec[s] \in l.flags <=> s \in flags)
<1>1. ASSUME NEW k \in IrqState, PriorityCached(k), NEW s \in Source
      PROVE  Good(k, Update(k, s), s)
  <2>1. Vec[s] \in Vector \cup {NoVector}
    BY Timer16Assumption
  <2>2. CASE s \in mask /\ s \in flags
    <3>1. Update(k, s) = AVR_InterruptCandidate(k, Vec[s])
      BY <2>2 DEF RequestIf
    <3> HIDE DEF Update
    <3>2. /\ Update(k, s) \in IrqState
          /\ PriorityCached(Update(k, s))
          /\ Update(k, s).flags =
                IF Vec[s] = NoVector THEN k.flags ELSE k.flags \cup {Vec[s]}
      BY <1>1, <2>1, <3>1, CandidateAgrees
    <3>. QED  BY <2>2, <3>2
  <2>3. CASE s \in mask /\ s \notin flags
    <3>1. Update(k, s) = AVR_ClearCandidate(k, Vec[s])
      BY <2>3 DEF RequestIf
    <3> HIDE DEF Update
    <3>2. /\ Update(k, s) \in IrqState
          /\ PriorityCached(Update(k, s))
          /\ Update(k, s).flags =
                IF Vec[s] = NoVector THEN k.flags ELSE k.flags \ {Vec[s]}
      BY <1>1, <2>1, <3>1, ClearAgrees
    <3>. QED  BY <2>3, <3>2
  <2>4. CASE s \notin mask
    BY <1>1, <2>4
  <2>. QED
    BY <2>2, <2>3, <2>4
<1>2. Good(i, i1, "TOV1")
  <2> HIDE DEF Good, Update
  <2>. QED  BY <1>1 DEF Source
<1>3. Good(i1, i2, "OCF1A")
  <2>1. i1 \in IrqState /\ PriorityCached(i1)
    BY <1>2
  <2> HIDE DEF Good, Update, i1
  <2>. QED  BY <1>1, <2>1 DEF Source
<1>4. Good(i2, i3, "OCF1B")
  <2>1. i2 \in IrqState /\ PriorityCached(i2)
    BY <1>3
  <2> HIDE DEF Good, Update, i2
  <2>. QED  BY <1>1, <2>1 DEF Source
<1>5. Good(i3, i4, "ICF1")
  <2>1. i3 \in IrqState /\ PriorityCached(i3)
    BY <1>4
  <2> HIDE DEF Good, Update, i3
  <2>. QED  BY <1>1, <2>1 DEF Source
<1>6. Timer16_IntFlagUpdate(i, flags, mask) = i4
  BY DEF Timer16_IntFlagUpdate
<1>7. /\ \A s \in Source : Vec[s] \in Vector \cup {NoVector}
      /\ \A s, t \in Source : Vec[s] = Vec[t] /\ Vec[s] # NoVector => s = t
  BY Timer16Assumption
<1>8. ASSUME NEW s \in mask, Vec[s] # NoVector
      PROVE  Vec[s] \in i4.flags <=> s \in flags
  <2> HIDE DEF i1, i2, i3, i4, Update
  <2>1. s \in Source /\ Vec[s] \in Vector
    BY <1>7, <1>8
  <2>2. \A t \in Source : t # s => Vec[s] # Vec[t]
    BY <1>7, <1>8, <2>1
  <2>3. CASE s = "ICF1"
    BY <1>5, <1>8, <2>3
  <2>4. CASE s = "OCF1B"
    BY <1>4, <1>5, <1>8, <2>1, <2>2, <2>4 DEF Source
  <2>5. CASE s = "OCF1A"
    BY <1>3, <1>4, <1>5, <1>8, <2>1, <2>2, <2>5 DEF Source
  <2>6. CASE s = "TOV1"
    BY <1>2, <1>3, <1>4, <1>5, <1>8, <2>1, <2>2, <2>6 DEF Source
  <2>. QED
    BY <2>1, <2>3, <2>4, <2>5, <2>6 DEF Source
<1>9. ASSUME NEW w \in Vector, \A s \in mask : Vec[s] # w
      PROVE  w \in i4.flags <=> w \in i.flags
  <2> HIDE DEF i1, i2, i3, i4, Update
  <2>1. w \in i1.flags <=> w \in i.flags
    BY <1>2, <1>9
  <2>2. w \in i2.flags <=> w \in i1.flags
    BY <1>3, <1>9
  <2>3. w \in i3.flags <=> w \in i2.flags
    BY <1>4, <1>9
  <2>4. w \in i4.flags <=> w \in i3.flags
    BY <1>5, <1>9
  <2>. QED  BY <2>1, <2>2, <2>3, <2>4
<1>10. i4 \in IrqState /\ PriorityCached(i4)
  BY <1>5
<1> HIDE DEF i4
<1>. QED  BY <1>6, <1>8, <1>9, <1>10

\* The update of all sources of the 8-bit timer.
LEMMA Update8Agrees ==
    ASSUME NEW i \in IrqState, PriorityCached(i),
           NEW flags \in SUBSET Source0, NEW mask \in SUBSET Source0
    PROVE  /\ Timer8_IntFlagUpdate(i, flags, mask) \in IrqState
           /\ PriorityCached(Timer8_IntFlagUpdate(i, flags, mask))
           /\ \A s \in mask : Vec0[s] # NoVector =>
                 (Vec0[s] \in Timer8_IntFlagUpdate(i, flags, mask).flags <=> s \in flags)
           /\ \A w \in Vector :
                 (\A s \in mask : Vec0[s] # w) =>
                    (w \in Timer8_IntFlagUpdate(i, flags, mask).flags <=> w \in i.flags)
<1> DEFINE Update(k, s) ==
             IF s \in mask THEN RequestIf(k, Vec0[s], s \in flags) ELSE k
           i1 == Update(i, "TOV0")
           i2 == Update(i1, "OCF0A")
           i3 == Update(i2, "OCF0B")
           Good(k, l, s) ==
             /\ l \in IrqState /\ PriorityCached(l)
             /\ s \notin mask => l = k
             /\ \A w \in Vector : w # Vec0[s] => (w \in l.flags <=> w \in k.flags)
             /\ s \in mask /\ Vec0[s] # NoVector => (Vec0[s] \in l.flags <=> s \in flags)
<1>1. ASSUME NEW k \in IrqState, PriorityCached(k), NEW s \in Source0
      PROVE  Good(k, Update(k, s), s)
  <2>1. Vec0[s] \in Vector \cup {NoVector}
    BY Timer8Assumption
  <2>2. CASE s \in mask /\ s \in flags
    <3>1. Update(k, s) = AVR_InterruptCandidate(k, Vec0[s])
      BY <2>2 DEF RequestIf
    <3> HIDE DEF Update
    <3>2. /\ Update(k, s) \in IrqState
          /\ PriorityCached(Update(k, s))
          /\ Update(k, s).flags =
                IF Vec0[s] = NoVector THEN k.flags ELSE k.flags \cup {Vec0[s]}
      BY <1>1, <2>1, <3>1, CandidateAgrees
    <3>. QED  BY <2>2, <3>2
  <2>3. CASE s \in mask /\ s \notin flags
    <3>1. Update(k, s) = AVR_ClearCandidate(k, Vec0[s])
      BY <2>3 DEF RequestIf
    <3> HIDE DEF Update
    <3>2. /\ Update(k, s) \in IrqState
          /\ PriorityCached(Update(k, s))
          /\ Update(k, s).flags =
                IF Vec0[s] = NoVector THEN k.flags ELSE k.flags \ {Vec0[s]}
      BY <1>1, <2>1, <3>1, ClearAgrees
    <3>. QED  BY <2>3, <3>2
  <2>4. CASE s \notin mask
    BY <1>1, <2>4
  <2>. QED
    BY <2>2, <2>3, <2>4
<1>2. Good(i, i1, "TOV0")
  <2> HIDE DEF Good, Update
  <2>. QED  BY <1>1 DEF Source0
<1>3. Good(i1, i2, "OCF0A")
  <2>1. i1 \in IrqState /\ PriorityCached(i1)
    BY <1>2
  <2> HIDE DEF Good, Update, i1
  <2>. QED  BY <1>1, <2>1 DEF Source0
<1>4. Good(i2, i3, "OCF0B")
  <2>1. i2 \in IrqState /\ PriorityCached(i2)
    BY <1>3
  <2> HIDE DEF Good, Update, i2
  <2>. QED  BY <1>1, <2>1 DEF Source0
<1>5. Timer8_IntFlagUpdate(i, flags, mask) = i3
  BY DEF Timer8_IntFlagUpdate
<1>6. /\ \A s \in Source0 : Vec0[s] \in Vector \cup {NoVector}
      /\ \A s, t \in Source0 : Vec0[s] = Vec0[t] /\ Vec0[s] # NoVector => s = t
  BY Timer8Assumption
<1>7. ASSUME NEW s \in mask, Vec0[s] # NoVector
      PROVE  Vec0[s] \in i3.flags <=> s \in flags
  <2> HIDE DEF i1, i2, i3, Update
  <2>1. s \in Source0 /\ Vec0[s] \in Vector
    BY <1>6, <1>7
  <2>2. \A t \in Source0 : t # s => Vec0[s] # Vec0[t]
    BY <1>6, <1>7, <2>1
  <2>3. CASE s = "OCF0B"
    BY <1>4, <1>7, <2>3
  <2>4. CASE s = "OCF0A"
    BY <1>3, <1>4, <1>7, <2>1, <2>2, <2>4 DEF Source0
  <2>5. CASE s = "TOV0"
    BY <1>2, <1>3, <1>4, <1>7, <2>1, <2>2, <2>5 DEF Source0
  <2>. QED
    BY <2>1, <2>3, <2>4, <2>5 DEF Source0
<1>8. ASSUME NEW w \in Vector, \A s \in mask : Vec0[s] # w
      PROVE  w \in i3.flags <=> w \in i.flags
  <2> HIDE DEF i1, i2, i3, Update
  <2>1. w \in i1.flags <=> w \in i.flags
    BY <1>2, <1>8
  <2>2. w \in i2.flags <=> w \in i1.flags
    BY <1>3, <1>8
  <2>3. w \in i3.flags <=> w \in i2.flags
    BY <1>4, <1>8
  <2>. QED  BY <2>1, <2>2, <2>3
<1>9. i3 \in IrqState /\ PriorityCached(i3)
  BY <1>4
<1> HIDE DEF i3
<1>. QED  BY <1>9, <1>5, <1>7, <1>8

----------------------------------------------------------------------------
(* What a step does to the requests: nothing, one timer's update, or a     *)
(* dispatch.                                                               *)

LEMMA RaisedIsSource == Raised \in SUBSET Source
BY DEF Raised, Matches, Source

LEMMA Raised0IsSource == Raised0 \in SUBSET Source0
BY DEF Raised0, Source0

Quiet == UNCHANGED <<irq, tifr, timsk, tifr0, timsk0>>

Updated16 ==
    /\ irq' = Timer16_IntFlagUpdate(irq, tifr', timsk')
    /\ tifr' \in SUBSET Source /\ timsk' \in SUBSET Source
    /\ UNCHANGED <<tifr0, timsk0>>

Updated8 ==
    /\ irq' = Timer8_IntFlagUpdate(irq, tifr0', timsk0')
    /\ tifr0' \in SUBSET Source0 /\ timsk0' \in SUBSET Source0
    /\ UNCHANGED <<tifr, timsk>>

LEMMA Step16Kinds ==
    ASSUME tifr \in SUBSET Source, timsk \in SUBSET Source, Timer16Step
    PROVE  Quiet \/ Updated16
<1>1. UNCHANGED <<tifr0, timsk0>>
  BY DEF Timer16Step, timer8Vars
<1>2. CASE TCCR1A_Write \/ TCCR1B_Write \/ High_Write \/ TCNT1L_Write \/ MatchLow_Write
  BY <1>1, <1>2
     DEF TCCR1A_Write, TCCR1B_Write, High_Write, TCNT1L_Write, MatchLow_Write,
         Configured, Quiet
<1>3. CASE TIFR_Write
  BY <1>1, <1>3, Timer16Assumption DEF TIFR_Write, Updated16
<1>4. CASE TIMSK_Write
  BY <1>1, <1>4, Timer16Assumption DEF TIMSK_Write, Updated16
<1>5. CASE Timer16_Clock
  <2>1. timsk' = timsk
    BY <1>5 DEF Timer16_Clock
  <2>2. CASE eClockSource = "DIV" /\ Due /\ Raised # {}
    <3>1. tifr' = tifr \cup Raised /\ irq' = Timer16_IntFlagUpdate(irq, tifr', timsk)
      BY <1>5, <2>2 DEF Timer16_Clock, TimerUpdate
    <3>. QED
      BY <1>1, <2>1, <3>1, RaisedIsSource DEF Updated16
  <2>3. CASE ~ (eClockSource = "DIV" /\ Due /\ Raised # {})
    <3>1. tifr' = tifr /\ irq' = irq
      BY <1>5, <2>3 DEF Timer16_Clock, TimerUpdate
    <3>. QED
      BY <1>1, <2>1, <3>1 DEF Quiet
  <2>. QED  BY <2>2, <2>3
<1>. QED
  BY <1>2, <1>3, <1>4, <1>5 DEF Timer16Step, ProgramStep

LEMMA Step8Kinds ==
    ASSUME tifr0 \in SUBSET Source0, timsk0 \in SUBSET Source0, Timer8Step
    PROVE  Quiet \/ Updated8
<1>1. UNCHANGED <<tifr, timsk>>
  BY DEF Timer8Step, timer16Vars
<1>2. CASE TCCR0A_Write \/ TCCR0B_Write \/ TCNT0_Write \/ OCR0A_Write
  BY <1>1, <1>2
     DEF TCCR0A_Write, TCCR0B_Write, TCNT0_Write, OCR0A_Write, Configured0, Quiet
<1>3. CASE TIFR0_Write
  BY <1>1, <1>3, Timer8Assumption DEF TIFR0_Write, Updated8
<1>4. CASE TIMSK0_Write
  BY <1>1, <1>4, Timer8Assumption DEF TIMSK0_Write, Updated8
<1>5. CASE Timer8_Clock
  <2>1. timsk0' = timsk0
    BY <1>5 DEF Timer8_Clock
  <2>2. CASE eClockSource0 = "DIV" /\ Due0 /\ Raised0 # {}
    <3>1. tifr0' = tifr0 \cup Raised0 /\ irq' = Timer8_IntFlagUpdate(irq, tifr0', timsk0)
      BY <1>5, <2>2 DEF Timer8_Clock, TimerUpdate0
    <3>. QED
      BY <1>1, <2>1, <3>1, Raised0IsSource DEF Updated8
  <2>3. CASE ~ (eClockSource0 = "DIV" /\ Due0 /\ Raised0 # {})
    <3>1. tifr0' = tifr0 /\ irq' = irq
      BY <1>5, <2>3 DEF Timer8_Clock, TimerUpdate0
    <3>. QED
      BY <1>1, <2>1, <3>1 DEF Quiet
  <2>. QED  BY <2>2, <2>3
<1>. QED
  BY <1>2, <1>3, <1>4, <1>5 DEF Timer8Step, ProgramStep0

----------------------------------------------------------------------------
(* The invariant: requests are well formed and those of enabled sources    *)
(* equal their flags, for both timers at once, since each one's update     *)
(* reads what the other left, and a dispatch acknowledges the cached vector*)
(* whosever it is.                                                         *)

RequestInv ==
    /\ irq \in IrqState /\ PriorityCached(irq)
    /\ tifr \in SUBSET Source /\ timsk \in SUBSET Source
    /\ tifr0 \in SUBSET Source0 /\ timsk0 \in SUBSET Source0
    /\ RequestsMatchFlags /\ Requests0MatchFlags

\* No source of one timer has a vector of the other.
LEMMA VectorsApart ==
    /\ \A s \in Source : Vec[s] \in Vector \cup {NoVector}
    /\ \A s \in Source0 : Vec0[s] \in Vector \cup {NoVector}
    /\ \A s \in Source, t \in Source0 :
          (Vec[s] # NoVector \/ Vec0[t] # NoVector) => Vec[s] # Vec0[t]
BY Timer16Assumption, Timer8Assumption, TimersAssumption

LEMMA Updated16Keeps ==
    ASSUME RequestInv, Updated16
    PROVE  RequestInv'
<1>1. /\ irq' \in IrqState
      /\ PriorityCached(irq')
      /\ \A s \in timsk' : Vec[s] # NoVector => (Vec[s] \in irq'.flags <=> s \in tifr')
      /\ \A w \in Vector :
            (\A s \in timsk' : Vec[s] # w) => (w \in irq'.flags <=> w \in irq.flags)
  BY Update16Agrees DEF Updated16, RequestInv
<1>2. ASSUME NEW t \in timsk0', Vec0[t] # NoVector
      PROVE  Vec0[t] \in irq'.flags <=> t \in tifr0'
  <2>1. t \in Source0 /\ t \in timsk0 /\ tifr0' = tifr0
    BY DEF Updated16, RequestInv
  <2>2. Vec0[t] \in Vector /\ \A s \in timsk' : Vec[s] # Vec0[t]
    BY <1>2, <2>1, VectorsApart DEF Updated16
  <2>. QED
    BY <1>1, <1>2, <2>1, <2>2 DEF RequestInv, Requests0MatchFlags
<1>3. RequestsMatchFlags'
  BY <1>1, <1>2 DEF RequestsMatchFlags
<1>4. Requests0MatchFlags'
  BY <1>1, <1>2 DEF Requests0MatchFlags
<1>5. PriorityCached(irq)'
  BY <1>1 DEF PriorityCached
<1>. QED
  BY <1>1, <1>3, <1>5, <1>4 DEF RequestInv, Updated16

LEMMA Updated8Keeps ==
    ASSUME RequestInv, Updated8
    PROVE  RequestInv'
<1>1. /\ irq' \in IrqState
      /\ PriorityCached(irq')
      /\ \A s \in timsk0' : Vec0[s] # NoVector => (Vec0[s] \in irq'.flags <=> s \in tifr0')
      /\ \A w \in Vector :
            (\A s \in timsk0' : Vec0[s] # w) => (w \in irq'.flags <=> w \in irq.flags)
  BY Update8Agrees DEF Updated8, RequestInv
<1>2. ASSUME NEW s \in timsk', Vec[s] # NoVector
      PROVE  Vec[s] \in irq'.flags <=> s \in tifr'
  <2>1. s \in Source /\ s \in timsk /\ tifr' = tifr
    BY DEF Updated8, RequestInv
  <2>2. Vec[s] \in Vector /\ \A t \in timsk0' : Vec0[t] # Vec[s]
    BY <1>2, <2>1, VectorsApart DEF Updated8
  <2>. QED
    BY <1>1, <1>2, <2>1, <2>2 DEF RequestInv, RequestsMatchFlags
<1>3. RequestsMatchFlags'
  BY <1>1, <1>2 DEF RequestsMatchFlags
<1>4. Requests0MatchFlags'
  BY <1>1, <1>2 DEF Requests0MatchFlags
<1>5. PriorityCached(irq)'
  BY <1>1 DEF PriorityCached
<1>. QED
  BY <1>1, <1>3, <1>5, <1>4 DEF RequestInv, Updated8

\* A dispatch withdraws one vector and clears the flag of the one source it
\* belongs to.
LEMMA DispatchKeeps ==
    ASSUME RequestInv, Dispatch
    PROVE  RequestInv'
<1>1. /\ irq' \in IrqState
      /\ PriorityCached(irq')
      /\ irq'.flags = irq.flags \ {irq.prio}
  BY AcknowledgeAgrees DEF Dispatch, AVR_Interrupt, RequestInv
<1>2. /\ tifr' = {s \in tifr : Vec[s] # irq.prio}
      /\ tifr0' = {s \in tifr0 : Vec0[s] # irq.prio}
      /\ timsk' = timsk /\ timsk0' = timsk0
  BY DEF Dispatch, AVR_Interrupt, Timer8_Ack
<1>3. RequestsMatchFlags'
  BY <1>1, <1>2 DEF RequestInv, RequestsMatchFlags
<1>4. Requests0MatchFlags'
  BY <1>1, <1>2 DEF RequestInv, Requests0MatchFlags
<1>. QED
  BY <1>1, <1>2, <1>3, <1>4 DEF RequestInv, PriorityCached

LEMMA RequestInvariant == TimersSpec => []RequestInv
<1>1. TimersInit => RequestInv
  BY DEF TimersInit, Timer16_Init, Timer8_Init, RequestInv, RequestsMatchFlags,
         Requests0MatchFlags, PriorityCached, NoRequest, IrqState
<1>2. RequestInv /\ [TimersNext]_timersVars => RequestInv'
  <2> SUFFICES ASSUME RequestInv, [TimersNext]_timersVars PROVE RequestInv'
    OBVIOUS
  <2>1. CASE Quiet
    BY <2>1 DEF Quiet, RequestInv, RequestsMatchFlags, Requests0MatchFlags, PriorityCached
  <2>2. CASE Timer16Step
    BY <2>1, <2>2, Step16Kinds, Updated16Keeps DEF RequestInv
  <2>3. CASE Timer8Step
    BY <2>1, <2>3, Step8Kinds, Updated8Keeps DEF RequestInv
  <2>4. CASE Dispatch
    BY <2>4, DispatchKeeps
  <2>5. CASE UNCHANGED timersVars
    BY <2>1, <2>5 DEF timersVars, timer16Vars, timer8Vars, Quiet
  <2>. QED  BY <2>2, <2>3, <2>4, <2>5 DEF TimersNext
<1>. QED  BY <1>1, <1>2, PTL DEF TimersSpec

\* Timer16_IntFlagUpdate and the acknowledge callbacks keep the requests of the
\* 16-bit timer's enabled sources equal to their flags, whatever the other does.
THEOREM RequestsCorrect == TimersSpec => []RequestsMatchFlags
BY RequestInvariant, PTL DEF RequestInv

\* The same of Timer8_IntFlagUpdate and the 8-bit timer.
THEOREM Requests0Correct == TimersSpec => []Requests0MatchFlags
BY RequestInvariant, PTL DEF RequestInv

\* No step gives a masked source of either timer a request: an update touches
\* the vectors of enabled sources only, and a dispatch only withdraws.
THEOREM MaskedCorrect == TimersSpec => MaskedStaysQuiet
<1> DEFINE Masked ==
      /\ \A s \in Source \ timsk' : Vec[s] \in irq'.flags => Vec[s] \in irq.flags
      /\ \A s \in Source0 \ timsk0' : Vec0[s] \in irq'.flags => Vec0[s] \in irq.flags
<1>1. RequestInv /\ RequestInv' /\ [TimersNext]_timersVars => [Masked]_timersVars
  <2> SUFFICES ASSUME RequestInv, RequestInv', TimersNext PROVE Masked
    BY DEF timersVars
  <2>1. irq'.flags \subseteq Vector /\ NoVector \notin Vector
    BY VectorAssumption DEF RequestInv, IrqState, Vector
  <2>2. CASE Quiet
    BY <2>2 DEF Quiet
  <2>3. CASE Updated16
    <3>1. \A w \in Vector :
            (\A s \in timsk' : Vec[s] # w) => (w \in irq'.flags <=> w \in irq.flags)
      BY <2>3, Update16Agrees DEF Updated16, RequestInv
    <3>2. ASSUME NEW s \in Source \ timsk', Vec[s] \in irq'.flags
          PROVE  Vec[s] \in irq.flags
      <4>1. \A t \in timsk' : Vec[t] # Vec[s]
        BY <2>1, <2>3, <3>2, Timer16Assumption DEF Updated16
      <4>. QED  BY <2>1, <3>1, <3>2, <4>1
    <3>3. ASSUME NEW s \in Source0 \ timsk0', Vec0[s] \in irq'.flags
          PROVE  Vec0[s] \in irq.flags
      <4>1. \A t \in timsk' : Vec[t] # Vec0[s]
        BY <2>1, <2>3, <3>3, VectorsApart DEF Updated16
      <4>. QED  BY <2>1, <3>1, <3>3, <4>1
    <3>. QED  BY <3>2, <3>3
  <2>4. CASE Updated8
    <3>1. \A w \in Vector :
            (\A s \in timsk0' : Vec0[s] # w) => (w \in irq'.flags <=> w \in irq.flags)
      BY <2>4, Update8Agrees DEF Updated8, RequestInv
    <3>2. ASSUME NEW s \in Source \ timsk', Vec[s] \in irq'.flags
          PROVE  Vec[s] \in irq.flags
      <4>1. \A t \in timsk0' : Vec0[t] # Vec[s]
        BY <2>1, <2>4, <3>2, VectorsApart DEF Updated8
      <4>. QED  BY <2>1, <3>1, <3>2, <4>1
    <3>3. ASSUME NEW s \in Source0 \ timsk0', Vec0[s] \in irq'.flags
          PROVE  Vec0[s] \in irq.flags
      <4>1. \A t \in timsk0' : Vec0[t] # Vec0[s]
        BY <2>1, <2>4, <3>3, Timer8Assumption DEF Updated8
      <4>. QED  BY <2>1, <3>1, <3>3, <4>1
    <3>. QED  BY <3>2, <3>3
  <2>5. CASE Dispatch
    <3>1. irq'.flags \subseteq irq.flags
      BY <2>5, AcknowledgeAgrees DEF Dispatch, AVR_Interrupt, RequestInv
    <3>. QED  BY <3>1
  <2>6. Quiet \/ Updated16 \/ Updated8 \/ Dispatch
    BY Step16Kinds, Step8Kinds DEF TimersNext, RequestInv
  <2>. QED  BY <2>2, <2>3, <2>4, <2>5, <2>6
<1>. QED
  BY <1>1, RequestInvariant, PTL DEF TimersSpec, MaskedStaysQuiet

----------------------------------------------------------------------------
(* Types of the 16-bit timer.                                              *)

LEMMA DividerSet ==
    ASSUME TCCR1B_Write
    PROVE  /\ eClockSource' \in {"OFF", "DIV", "T1"}
           /\ divCycles' \in Nat
           /\ eClockSource' = "DIV" => divCycles' > 0
<1>1. \A d \in Dividers : d \in Nat /\ d > 0
  BY Timer16Assumption
<1>2. CASE eClockSource' \in {"OFF", "T1"} /\ divCycles' = 0
  BY <1>2
<1>3. CASE eClockSource' = "DIV" /\ divCycles' \in Dividers
  BY <1>1, <1>3
<1>. QED
  BY <1>2, <1>3 DEF TCCR1B_Write

\* The stores to the timer's own registers.
LEMMA StoresKeepTypes ==
    ASSUME TypeOK,
           TCCR1A_Write \/ TCCR1B_Write \/ High_Write \/ TCNT1L_Write
               \/ MatchLow_Write
    PROVE  TypeOK'
<1>1. CASE TCCR1A_Write
  BY <1>1, Timer16Assumption DEF TCCR1A_Write, Configured, TypeOK
<1>2. CASE TCCR1B_Write
  <2>1. divCycles' \in Nat /\ eClockSource' \in {"OFF", "DIV", "T1"}
    BY <1>2, DividerSet
  <2>2. eWGM' \subseteq WGMLow \cup WGMHigh
    BY <1>2 DEF TCCR1B_Write, TypeOK
  <2>. QED
    BY <1>2, <2>1, <2>2 DEF TCCR1B_Write, Configured, TypeOK
<1>3. CASE High_Write
  BY <1>3 DEF High_Write, Configured, TypeOK
<1>4. \A low \in LowWritten : Joined(low) \in Word
  BY JoinedIsWord, Timer16Assumption DEF TypeOK, Byte
<1>5. CASE TCNT1L_Write
  BY <1>4, <1>5 DEF TCNT1L_Write, Configured, TypeOK
<1>6. CASE MatchLow_Write
  BY <1>4, <1>6 DEF MatchLow_Write, Configured, TypeOK
<1>. QED  BY <1>1, <1>2, <1>3, <1>5, <1>6

LEMMA Clock16Types ==
    ASSUME TypeOK, RequestInv', Timer16_Clock
    PROVE  TypeOK'
<1>1. /\ tcnt' \in Word
      /\ age' \in Nat \cup {Unknown}
  <2>1. Counted \in Word
    BY NextCountWraps, WordPositive DEF Counted, TypeOK, Word
  <2>. QED
    BY <2>1 DEF Timer16_Clock, TimerUpdate, TypeOK, Unknown
<1>2. divRemain' \in Nat
  BY DEF Timer16_Clock, Prescale, TypeOK
<1>3. UNCHANGED <<match, u8Temp, eWGM, eClockSource, divCycles, timsk>>
  BY DEF Timer16_Clock
<1>. QED
  BY <1>1, <1>2, <1>3 DEF RequestInv, TypeOK

LEMMA TypeInvariant == TimersSpec => []TypeOK
<1>1. TimersInit => TypeOK
  <2>1. 0 \in Word /\ 0 \in Byte
    BY WordPositive, Timer16Assumption DEF Word, Byte
  <2>. QED
    BY <2>1 DEF TimersInit, Timer16_Init, TypeOK, IrqState, NoRequest, WGMLow, WGMHigh,
                Source
<1>2. TypeOK /\ RequestInv' /\ [TimersNext]_timersVars => TypeOK'
  <2> SUFFICES ASSUME TypeOK, RequestInv', [TimersNext]_timersVars PROVE TypeOK'
    OBVIOUS
  <2>1. CASE Timer16Step /\ Timer16_Clock
    BY <2>1, Clock16Types
  <2>2. CASE Timer16Step /\ ProgramStep
    <3>1. CASE TIFR_Write \/ TIMSK_Write
      BY <3>1 DEF TIFR_Write, TIMSK_Write, counterVars, RequestInv, TypeOK
    <3>. QED
      BY <2>2, <3>1, StoresKeepTypes DEF ProgramStep
  <2>3. CASE Timer8Step \/ Dispatch \/ UNCHANGED timersVars
    <3>1. UNCHANGED <<tcnt, match, u8Temp, eWGM, eClockSource, divCycles, divRemain, age>>
      BY <2>3 DEF Timer8Step, Dispatch, AVR_Interrupt, timersVars, timer16Vars, counterVars
    <3>. QED
      BY <3>1 DEF RequestInv, TypeOK
  <2>. QED
    BY <2>1, <2>2, <2>3 DEF TimersNext, Timer16Step
<1>. QED  BY <1>1, <1>2, RequestInvariant, PTL DEF TimersSpec

\* The 16-bit timer's registers, its latch and the requests keep their types,
\* whatever the program stores.
THEOREM TypeCorrect == TimersSpec => []TypeOK
BY TypeInvariant

----------------------------------------------------------------------------
(* Counting.                                                               *)

\* A divided clock has a divider, and while a measurement runs the prescaler is
\* between two reloads.
CountInv ==
    /\ TypeOK
    /\ eClockSource = "DIV" => divCycles > 0
    /\ age # Unknown => divRemain \in 1 .. divCycles
    /\ CountsEveryClock

LEMMA ClockCounts ==
    ASSUME CountInv, TypeOK', Timer16_Clock
    PROVE  CountInv'
<1>1. UNCHANGED <<eWGM, eClockSource, divCycles>>
  BY DEF Timer16_Clock
<1>2. CASE eClockSource # "DIV"
  <2>1. UNCHANGED <<divRemain, tcnt, age>>
    BY <1>2 DEF Timer16_Clock
  <2>. QED
    BY <1>1, <2>1 DEF CountInv, CountsEveryClock, Counting
<1>3. CASE eClockSource = "DIV" /\ ~Due
  <2>1. /\ tcnt' = tcnt
        /\ divRemain' = divRemain - 1
        /\ divRemain >= 2
        /\ age' = IF age = Unknown THEN Unknown ELSE age + 1
    BY <1>3 DEF Timer16_Clock, Prescale, Due, CountInv, TypeOK
  <2>2. age' # Unknown => age # Unknown /\ age' = age + 1
    BY <2>1
  <2>3. tcnt * divCycles \in Nat
    BY DEF CountInv, TypeOK, Word
  <2>4. CountsEveryClock'
    BY <1>1, <2>1, <2>2, <2>3 DEF CountInv, CountsEveryClock, Counting, TypeOK
  <2>. QED
    BY <1>1, <2>1, <2>2, <2>4 DEF CountInv, TypeOK
<1>4. CASE eClockSource = "DIV" /\ Due /\ Raised # {}
  <2>1. tcnt' = 0 /\ age' = 0 /\ divRemain' = divCycles
    <3>1. Counting
      BY <1>4 DEF Raised, Counting
    <3>. QED
      BY <1>4, <3>1 DEF Timer16_Clock, TimerUpdate, Prescale, Due, Counted
  <2>2. divCycles \in Nat \ {0} /\ 0 * divCycles = 0
    BY <1>4 DEF CountInv, TypeOK
  <2>. QED
    BY <1>1, <2>1, <2>2 DEF CountInv, CountsEveryClock
<1>5. CASE eClockSource = "DIV" /\ Due /\ Raised = {}
  <2>1. /\ divRemain' = divCycles
        /\ age' = IF age # Unknown THEN age + 1 ELSE Unknown
        /\ Counting => tcnt' = NextCount
    BY <1>5 DEF Timer16_Clock, TimerUpdate, Prescale, Due, Counted
  <2>2. divCycles \in Nat \ {0}
    BY <1>5 DEF CountInv, TypeOK
  <2>3. ASSUME age' # Unknown, Counting'
        PROVE  age' = tcnt' * divCycles' + (divCycles' - divRemain')
    <3>1. age # Unknown /\ Counting /\ age' = age + 1
      BY <1>1, <2>1, <2>3 DEF Counting
    <3>2. divRemain = 1
      BY <1>5, <2>2, <3>1 DEF Due, CountInv
    <3>3. age = tcnt * divCycles + (divCycles - 1)
      BY <3>1, <3>2 DEF CountInv, CountsEveryClock
    <3>4. tcnt' = tcnt + 1
      <4>1. NextCount # 0
        BY <1>5, <3>1 DEF Raised, Counting
      <4>. QED
        BY <2>1, <3>1, <4>1, NextCountWraps DEF CountInv, TypeOK
    <3>5. tcnt \in Nat
      BY DEF CountInv, TypeOK, Word
    <3>6. (tcnt + 1) * divCycles = tcnt * divCycles + divCycles
      <4>1. \A a, d \in Nat : (a + 1) * d = a * d + d
        OBVIOUS
      <4>. QED  BY <2>2, <3>5, <4>1
    <3>7. tcnt * divCycles \in Nat
      BY <2>2, <3>5
    <3>. QED
      BY <1>1, <2>1, <2>2, <3>1, <3>3, <3>4, <3>6, <3>7
  <2>. QED
    BY <1>1, <2>1, <2>2, <2>3 DEF CountInv, CountsEveryClock
<1>. QED  BY <1>2, <1>3, <1>4, <1>5

LEMMA CountInvariant == TimersSpec => []CountInv
<1>1. TimersInit /\ TypeOK => CountInv
  BY DEF TimersInit, Timer16_Init, CountInv, CountsEveryClock
<1>2. CountInv /\ TypeOK' /\ [TimersNext]_timersVars => CountInv'
  <2> SUFFICES ASSUME CountInv, TypeOK', [TimersNext]_timersVars PROVE CountInv'
    OBVIOUS
  <2>1. CASE Timer16_Clock
    BY <2>1, ClockCounts
  <2>2. CASE \/ TCCR1A_Write \/ High_Write \/ TCNT1L_Write \/ MatchLow_Write
    BY <2>2
       DEF TCCR1A_Write, High_Write, TCNT1L_Write, MatchLow_Write, Configured,
           CountInv, CountsEveryClock
  <2>3. CASE TCCR1B_Write
    <3>1. age' = Unknown
      BY <2>3 DEF TCCR1B_Write, Configured
    <3>. QED
      BY <2>3, <3>1, DividerSet DEF CountInv, CountsEveryClock
  <2>4. CASE TIFR_Write \/ TIMSK_Write \/ Timer8Step \/ Dispatch \/ UNCHANGED timersVars
    <3>1. UNCHANGED <<tcnt, eWGM, eClockSource, divCycles, divRemain, age>>
      BY <2>4 DEF TIFR_Write, TIMSK_Write, Timer8Step, Dispatch, AVR_Interrupt,
                  timersVars, timer16Vars, counterVars
    <3>. QED
      BY <3>1 DEF CountInv, CountsEveryClock, Counting
  <2>. QED
    BY <2>1, <2>2, <2>3, <2>4 DEF TimersNext, Timer16Step, ProgramStep
<1>. QED  BY <1>1, <1>2, TypeInvariant, PTL DEF TimersSpec

\* Left alone, the prescaler and the counter of Timer16_Clock lose no clock
\* between one clearing of the counter and the next.
THEOREM CountCorrect == TimersSpec => []CountsEveryClock
BY CountInvariant, PTL DEF CountInv

----------------------------------------------------------------------------
(* The external interrupt lines.                                           *)

EdgesSeen ==
    \A l \in Line \ {1} :
        sense[l] # "LOW" =>
            (l \in requested <=>
                l \in eimsk /\ Condition(sense[l], l \in pins, l \in pinsBefore))

LinesPending ==
    \A l \in requested : LineVec[l] # NoVector => LineVec[l] \in irq.flags

\* The first clock of an instruction compares with the pins it started with, and
\* the others find nothing moved.
EdgesFollowed ==
    /\ phase \in {"execute", "jump", "interrupt"} => last = pins
    /\ phase = "jump" => pinsBefore = pins
    /\ phase \in {"jump", "interrupt"} => EdgesSeen
    /\ phase = "clock" =>
           \/ last = pinsBefore /\ requested = {}
           \/ last = pins /\ EdgesSeen

LinesInv ==
    /\ EintTypeOK
    /\ phase = "clock" => extraCycles > 0
    /\ EdgesFollowed
    /\ phase \in {"jump", "clock", "interrupt"} => LinesPending

\* A pin that stays where it is triggers no edge-sensed line.
LEMMA NoEdge ==
    ASSUME NEW m \in Sense, m # "LOW", NEW l, NEW high
    PROVE  ~Condition(m, l \in high, l \in high)
BY DEF Sense, Condition

LEMMA LineRequest ==
    ASSUME NEW i \in IrqState, NEW l \in Line
    PROVE  /\ RequestLine(i, l) \in IrqState
           /\ i.flags \subseteq RequestLine(i, l).flags
           /\ l \in Triggered /\ LineVec[l] # NoVector =>
                  LineVec[l] \in RequestLine(i, l).flags
<1>1. LineVec[l] \in Vector \cup {NoVector}
  BY EintAssumption
<1>2. CASE l \in Triggered /\ LineVec[l] # NoVector
  BY <1>1, <1>2, RequestTypes DEF RequestLine
<1>3. CASE ~(l \in Triggered /\ LineVec[l] # NoVector)
  BY <1>3 DEF RequestLine, AVR_InterruptCandidate
<1>. QED  BY <1>2, <1>3

\* EINT_Clock requests every line it finds triggered and withdraws none.
LEMMA ClockRequests ==
    ASSUME EintTypeOK, NEW before \in SUBSET Line, EINT_Clock(before)
    PROVE  /\ irq' \in IrqState
           /\ irq.flags \subseteq irq'.flags
           /\ \A l \in Triggered : LineVec[l] # NoVector => LineVec[l] \in irq'.flags
           /\ last' \subseteq Line /\ eifr' \subseteq Line /\ requested' \subseteq Line
<1> DEFINE i0 == RequestLine(irq, 0)
           i1 == RequestLine(i0, 1)
           i2 == RequestLine(i1, 2)
<1>1. Line = {0, 1, 2}
  BY EintAssumption
<1>2. irq \in IrqState /\ Triggered \subseteq Line
  BY DEF EintTypeOK, Triggered
<1>3. /\ i0 \in IrqState /\ irq.flags \subseteq i0.flags
      /\ 0 \in Triggered /\ LineVec[0] # NoVector => LineVec[0] \in i0.flags
  BY <1>1, <1>2, LineRequest
<1>4. /\ i1 \in IrqState /\ i0.flags \subseteq i1.flags
      /\ 1 \in Triggered /\ LineVec[1] # NoVector => LineVec[1] \in i1.flags
  <2>. HIDE DEF i0
  <2>. QED  BY <1>1, <1>3, LineRequest
<1>5. /\ i2 \in IrqState /\ i1.flags \subseteq i2.flags
      /\ 2 \in Triggered /\ LineVec[2] # NoVector => LineVec[2] \in i2.flags
  <2>. HIDE DEF i1
  <2>. QED  BY <1>1, <1>4, LineRequest
<1>6. irq' = i2
  BY DEF EINT_Clock
<1>7. irq' \in IrqState /\ irq.flags \subseteq irq'.flags
  <2>. HIDE DEF i0, i1, i2
  <2>. QED  BY <1>3, <1>4, <1>5, <1>6
<1>8. \A l \in Triggered : LineVec[l] # NoVector => LineVec[l] \in irq'.flags
  <2>. HIDE DEF i0, i1, i2
  <2>. QED  BY <1>1, <1>2, <1>3, <1>4, <1>5, <1>6
<1>9. last' \subseteq Line /\ eifr' \subseteq Line /\ requested' \subseteq Line
  BY <1>2 DEF EINT_Clock, EintTypeOK
<1>. QED  BY <1>7, <1>8, <1>9

\* The first clock sees the edges of the instruction, the others keep them.
LEMMA ClockSees ==
    ASSUME EintTypeOK, NEW before \in SUBSET Line, EINT_Clock(before),
           \/ before = {} /\ last = pinsBefore'
           \/ before = requested /\ pinsBefore' = pinsBefore /\ last = pins /\ EdgesSeen
    PROVE  EdgesSeen'
<1> SUFFICES ASSUME NEW l \in Line \ {1}, sense'[l] # "LOW"
             PROVE  l \in requested' <=>
                        l \in eimsk' /\ Condition(sense'[l], l \in pins', l \in pinsBefore')
  BY DEF EdgesSeen
<1>1. /\ sense' = sense /\ eimsk' = eimsk /\ pins' = pins
      /\ requested' = before \cup Triggered
  BY DEF EINT_Clock
<1>2. l \in Triggered <=> l \in eimsk /\ Condition(sense[l], l \in pins, l \in last)
  BY DEF Triggered, SenseOf, EintTypeOK
<1>3. CASE before = {} /\ last = pinsBefore'
  BY <1>1, <1>2, <1>3
<1>4. CASE before = requested /\ pinsBefore' = pinsBefore /\ last = pins /\ EdgesSeen
  <2>1. sense[l] \in Sense /\ sense[l] # "LOW"
    BY <1>1 DEF EintTypeOK
  <2>2. ~Condition(sense[l], l \in pins, l \in pins)
    BY <2>1, NoEdge
  <2>3. l \notin Triggered
    BY <1>2, <1>4, <2>2
  <2>4. l \in requested <=> l \in eimsk /\ Condition(sense[l], l \in pins, l \in pinsBefore)
    BY <1>4, <2>1 DEF EdgesSeen
  <2>. QED  BY <1>1, <1>4, <2>3, <2>4
<1>. QED  BY <1>3, <1>4

LEMMA LinesClock ==
    ASSUME LinesInv, IO_Clock
    PROVE  LinesInv'
<1>1. /\ phase = "clock" /\ phase' \in {"clock", "interrupt"}
      /\ extraCycles' \in Nat /\ (phase' = "clock" => extraCycles' > 0)
  BY DEF IO_Clock, ClockCycle, LinesInv, EintTypeOK
<1>2. EintTypeOK /\ EINT_Clock(requested) /\ requested \in SUBSET Line
      /\ pinsBefore' = pinsBefore
  BY DEF LinesInv, IO_Clock, EintTypeOK
<1>3. EintTypeOK'
  BY <1>1, <1>2, ClockRequests DEF EintTypeOK, EINT_Clock, Phase
<1>4. EdgesSeen'
  BY <1>1, <1>2, ClockSees DEF LinesInv, EdgesFollowed
<1>5. LinesPending'
  BY <1>1, <1>2, ClockRequests DEF LinesInv, LinesPending, EINT_Clock
<1>6. last' = pins'
  BY <1>2 DEF EINT_Clock
<1>. QED
  BY <1>1, <1>3, <1>4, <1>5, <1>6 DEF LinesInv, EdgesFollowed

LEMMA LinesJump ==
    ASSUME LinesInv, AVR_Decoder_JMP_CALL_22
    PROVE  LinesInv'
<1>1. /\ phase = "execute" /\ phase' = "jump" /\ UNCHANGED extraCycles
      /\ EINT_Clock({}) /\ pinsBefore' = pins
  BY DEF AVR_Decoder_JMP_CALL_22, DecodeJump
<1>2. EintTypeOK /\ last = pins
  BY <1>1 DEF LinesInv, EdgesFollowed
<1>. /\ irq' \in IrqState
     /\ \A l \in Triggered : LineVec[l] # NoVector => LineVec[l] \in irq'.flags
     /\ last' \subseteq Line /\ eifr' \subseteq Line /\ requested' \subseteq Line
  BY <1>1, <1>2, ClockRequests
<1>3. EintTypeOK'
  BY <1>1, <1>2 DEF EintTypeOK, EINT_Clock, Phase
<1>4. EdgesSeen'
  BY <1>1, <1>2, ClockSees
<1>5. LinesPending'
  BY <1>1, <1>2 DEF LinesPending, EINT_Clock
<1>6. last' = pins' /\ pinsBefore' = pins'
  BY <1>1 DEF EINT_Clock
<1>. QED
  BY <1>1, <1>3, <1>4, <1>5, <1>6 DEF LinesInv, EdgesFollowed

LEMMA LinesStore ==
    ASSUME LinesInv,
           EICRA_Write \/ EIMSK_Write \/ EIFR_Write \/ PORT_Write \/ OtherInstruction
    PROVE  LinesInv'
<1>1. Begin
  BY DEF EICRA_Write, EIMSK_Write, EIFR_Write, PORT_Write, OtherInstruction
<1>2. /\ phase = "execute" /\ phase' = "clock" /\ extraCycles' \in Nat \ {0}
      /\ pinsBefore' = pins /\ requested' = {} /\ UNCHANGED <<irq, last>>
  BY <1>1, EintAssumption DEF Begin, StartInstruction, ExecuteInstruction
<1>3. EintTypeOK'
  <2>1. sense' \in [Line -> Sense] /\ eimsk' \subseteq Line /\ eifr' \subseteq Line
    BY EintAssumption DEF LinesInv, EintTypeOK, EICRA_Write, EIMSK_Write, EIFR_Write,
                          PORT_Write, OtherInstruction
  <2>2. pins' \subseteq Line
    <3>1. 0 \in Line /\ 1 \in Line /\ 2 \in Line /\ pins \subseteq Line
      BY EintAssumption DEF LinesInv, EintTypeOK
    <3>2. CASE PORT_Write
      BY <3>1, <3>2 DEF PORT_Write
    <3>3. CASE UNCHANGED pins
      BY <3>1, <3>3
    <3>. QED
      BY <3>2, <3>3 DEF EICRA_Write, EIMSK_Write, EIFR_Write, OtherInstruction
  <2>. QED  BY <1>2, <2>1, <2>2 DEF LinesInv, EintTypeOK, Phase
<1>4. last' = pinsBefore'
  BY <1>2 DEF LinesInv, EdgesFollowed
<1>. QED
  BY <1>2, <1>3, <1>4 DEF LinesInv, EdgesFollowed, LinesPending

LEMMA LinesInvariant == Spec => []LinesInv
<1>1. Init => LinesInv
  BY DEF Init, CycleInit, EINT_Init, LinesInv, EintTypeOK, EdgesFollowed, Phase, Sense,
         NoRequest, IrqState
<1>2. LinesInv /\ [Next]_vars => LinesInv'
  <2> SUFFICES ASSUME LinesInv, [Next]_vars PROVE LinesInv'
    OBVIOUS
  <2>1. CASE EICRA_Write \/ EIMSK_Write \/ EIFR_Write \/ PORT_Write \/ OtherInstruction
    BY <2>1, LinesStore
  <2>2. CASE AVR_Decoder_JMP_CALL_22
    BY <2>2, LinesJump
  <2>3. CASE JumpInstruction
    <3>1. /\ phase = "jump" /\ phase' = "clock" /\ extraCycles' \in Nat \ {0}
          /\ UNCHANGED eintVars
      BY <2>3, EintAssumption DEF JumpInstruction, FinishJump, ExecuteInstruction
    <3>. QED
      BY <3>1 DEF LinesInv, EintTypeOK, EdgesFollowed, EdgesSeen, LinesPending, eintVars, Phase
  <2>4. CASE IO_Clock
    BY <2>4, LinesClock
  <2>5. CASE NoInterrupt
    BY <2>5 DEF NoInterrupt, EndCycle, LinesInv, EintTypeOK, EdgesFollowed, eintVars, Phase
  <2>6. CASE EINT_Dispatch
    <3>1. irq' \in IrqState
      BY <2>6, AcknowledgeAgrees DEF EINT_Dispatch, LinesInv, EintTypeOK
    <3>. QED
      BY <2>6, <3>1 DEF EINT_Dispatch, EndCycle, LinesInv, EintTypeOK, EdgesFollowed, Phase
  <2>7. CASE UNCHANGED vars
    BY <2>7 DEF vars, cycleVars, eintVars, LinesInv, EintTypeOK, EdgesFollowed, EdgesSeen,
                LinesPending
  <2>. QED
    BY <2>1, <2>2, <2>3, <2>4, <2>5, <2>6, <2>7 DEF Next, Instruction
<1>. QED  BY <1>1, <1>2, PTL DEF Spec

\* Registers, pins and requests of the external lines keep their types, and the
\* cached pins are current before each instruction.
THEOREM LinesTypeCorrect == Spec => [](EintTypeOK /\ EdgesNotMissed)
<1>1. LinesInv => EintTypeOK /\ EdgesNotMissed
  BY DEF LinesInv, EdgesFollowed, EdgesNotMissed
<1>. QED  BY <1>1, LinesInvariant, PTL

\* EINT_Clock requests an enabled edge-sensed line exactly in the instruction that
\* made the edge, for any number of cycles that instruction takes.
THEOREM EdgesCorrect == Spec => []RequestedOnEdge
<1>1. LinesInv => RequestedOnEdge
  BY DEF LinesInv, EdgesFollowed, EdgesSeen, RequestedOnEdge
<1>. QED  BY <1>1, LinesInvariant, PTL

\* What the clock requested in an instruction is pending when it is over.
THEOREM LineRequestsCorrect == Spec => []RequestsArePending
<1>1. LinesInv => RequestsArePending
  BY DEF LinesInv, LinesPending, RequestsArePending
<1>. QED  BY <1>1, LinesInvariant, PTL
=============================================================================
