------------------------------- MODULE Arith -------------------------------
(***************************************************************************)
(* What a compiler makes of the arithmetic opcodes: operations on words of *)
(* two bytes as fragments of one to five instructions that hand a carry,   *)
(* and for comparisons the zero flag, from one to the next.  Between them  *)
(* the program may run instructions that do not touch the carry.           *)
(*                                                                         *)
(* Each action is one opcode function of avr_cpu/avr_opcodes.c at a place  *)
(* of a fragment.                                                          *)
(***************************************************************************)
EXTENDS Alu

CONSTANT MaxImmediate   \* the largest K of ADIW and SBIW, 63

ASSUME ArithAssumption == MaxImmediate \in Nat /\ MaxImmediate < WordHalf

VARIABLES
    idiom,      \* the fragment that runs
    step,       \* how many of its instructions have run
    rd, rr,     \* its operands' registers, a high and a low byte each
    r1_0,       \* r1:r0, where products go
    acc,        \* three more registers, for products
    sreg,       \* SREG's flags
    a, b,       \* history: the words the fragment started with
    mixed       \* history: another instruction has run inside the fragment

vars == <<idiom, step, rd, rr, r1_0, acc, sreg, a, b, mixed>>

Pair == [hi : Byte, lo : Byte]
Value(p) == p.hi * Base + p.lo

\* The fragments and their lengths.
Length == [add |-> 2, sub |-> 2, cp |-> 2, lsr |-> 2, asr |-> 2, neg |-> 3,
           adiw |-> 1, sbiw |-> 1, mul |-> 5, mulsu |-> 4]

\* The second operands of a fragment.
Operand(i) ==
    CASE i \in {"add", "sub", "cp", "mul"} -> Pair
      [] i = "mulsu" -> {p \in Pair : p.hi = 0}
      [] i \in {"adiw", "sbiw"} -> {p \in Pair : Value(p) <= MaxImmediate}
      [] OTHER -> {[hi |-> 0, lo |-> 0]}

Init ==
    /\ idiom \in DOMAIN Length
    /\ step = 0
    /\ rd \in Pair /\ rr \in Operand(idiom)
    /\ r1_0 = 0
    /\ acc = [lo |-> 0, hi |-> 0, ext |-> 0]
    /\ sreg \in [C : {0, 1}, Z : {0, 1}, N : {0}, V : {0}, S : {0}]
    /\ a = Value(rd) /\ b = Value(rr)
    /\ mixed = FALSE

----------------------------------------------------------------------------
At(i, n) == idiom = i /\ step = n

Advance(out) == step' = step + 1 /\ sreg' = out.sreg
Low(out)  == Advance(out) /\ rd' = [rd EXCEPT !.lo = out.value]
High(out) == Advance(out) /\ rd' = [rd EXCEPT !.hi = out.value]
Both(out) ==
    Advance(out) /\ rd' = [hi |-> out.value \div Base, lo |-> out.value % Base]

ADD == At("add", 0) /\ Low(AVR_Opcode_ADD(rd.lo, rr.lo))
ADC == At("add", 1) /\ High(AVR_Opcode_ADC(rd.hi, rr.hi, sreg))

SUB == At("sub", 0) /\ Low(AVR_Opcode_SUB(rd.lo, rr.lo))
SBC == At("sub", 1) /\ High(AVR_Opcode_SBC(rd.hi, rr.hi, sreg))

CP  == At("cp", 0) /\ Low(AVR_Opcode_CP(rd.lo, rr.lo))
CPC == At("cp", 1) /\ High(AVR_Opcode_CPC(rd.hi, rr.hi, sreg))

LSR == At("lsr", 0) /\ High(AVR_Opcode_LSR(rd.hi))
ASR == At("asr", 0) /\ High(AVR_Opcode_ASR(rd.hi))
ROR == idiom \in {"lsr", "asr"} /\ step = 1 /\ Low(AVR_Opcode_ROR(rd.lo, sreg))

\* The negative of a word: its complement less the borrow of the low byte.
COM  == At("neg", 0) /\ High(AVR_Opcode_COM(rd.hi))
NEG  == At("neg", 1) /\ Low(AVR_Opcode_NEG(rd.lo))
SBCI == At("neg", 2) /\ High(AVR_Opcode_SBC(rd.hi, Base - 1, sreg))

ADIW == At("adiw", 0) /\ Both(AVR_Opcode_ADIW(Value(rd), rr.hi * Base + rr.lo))
SBIW == At("sbiw", 0) /\ Both(AVR_Opcode_SBIW(Value(rd), rr.hi * Base + rr.lo))

Fragment ==
    /\ \/ ADD \/ ADC \/ SUB \/ SBC \/ CP \/ CPC \/ LSR \/ ASR \/ ROR
       \/ COM \/ NEG \/ SBCI \/ ADIW \/ SBIW
    /\ UNCHANGED <<idiom, rr, r1_0, acc, a, b, mixed>>

----------------------------------------------------------------------------
(* Products, with the word product of the low bytes moved to acc first.    *)

Product(out) == Advance(out) /\ r1_0' = out.value /\ UNCHANGED acc

MULLow ==
    /\ idiom \in {"mul", "mulsu"} /\ step = 0
    /\ LET out == AVR_Opcode_MUL(rd.lo, rr.lo, sreg)
       IN  /\ Advance(out)
           /\ r1_0' = out.value
           /\ acc' = [acc EXCEPT !.lo = out.value % Base,
                                 !.hi = out.value \div Base]

MULCross ==
    \/ At("mul", 1) /\ Product(AVR_Opcode_MUL(rd.hi, rr.lo, sreg))
    \/ At("mul", 3) /\ Product(AVR_Opcode_MUL(rd.lo, rr.hi, sreg))

MULSU == At("mulsu", 1) /\ Product(AVR_Opcode_MULSU(rd.hi, rr.lo, sreg))

ADDProduct ==
    /\ At("mul", 2) \/ At("mul", 4) \/ At("mulsu", 2)
    /\ LET out == AVR_Opcode_ADD(acc.hi, r1_0 % Base)
       IN  Advance(out) /\ acc' = [acc EXCEPT !.hi = out.value]
    /\ UNCHANGED r1_0

\* The product's high byte takes the carry: ADC with a register that holds 0.
ADCProduct ==
    /\ At("mulsu", 3)
    /\ LET out == AVR_Opcode_ADC(r1_0 \div Base, 0, sreg)
       IN  Advance(out) /\ acc' = [acc EXCEPT !.ext = out.value]
    /\ UNCHANGED r1_0

Multiply ==
    /\ MULLow \/ MULCross \/ MULSU \/ ADDProduct \/ ADCProduct
    /\ UNCHANGED <<idiom, rd, rr, a, b, mixed>>

----------------------------------------------------------------------------
\* A counter, a mask or a test of some other register inside the fragment.
Between ==
    /\ step \in 1 .. Length[idiom] - 1
    /\ \E x \in Byte :
          \E out \in {AVR_Opcode_INC(x, sreg), AVR_Opcode_DEC(x, sreg),
                      AVR_Opcode_Logic(x, sreg)} : sreg' = out.sreg
    /\ mixed' = TRUE
    /\ UNCHANGED <<idiom, step, rd, rr, r1_0, acc, a, b>>

Next == Fragment \/ Multiply \/ Between

Spec == Init /\ [][Next]_vars

Finished == step = Length[idiom]

----------------------------------------------------------------------------
TypeOK ==
    /\ idiom \in DOMAIN Length /\ step \in 0 .. Length[idiom]
    /\ rd \in Pair /\ rr \in Pair
    /\ r1_0 \in Word
    /\ acc \in [lo : Byte, hi : Byte, ext : Byte]
    /\ sreg \in Sreg
    /\ a \in Word /\ b \in Word
    /\ mixed \in BOOLEAN

SignedWord(x) == IF WordTop(x) THEN x - WordSize ELSE x

\* What a fragment computes on words.
Expected ==
    CASE idiom \in {"add", "adiw"} -> WordOf(a + b)
      [] idiom \in {"sub", "sbiw"} -> WordOf(a - b)
      [] idiom = "lsr" -> a \div 2
      [] idiom = "asr" -> a \div 2 + (IF WordTop(a) THEN WordHalf ELSE 0)
      [] idiom = "neg" -> WordOf(0 - a)
      [] OTHER -> a

\* Carries computed from top bits alone, passed on through the status register
\* past other instructions, make byte operations exact on words.
WordResult == Finished => Value(rd) = Expected

Compares  == {"sub", "cp", "sbiw"}
InRange(x) == x >= -WordHalf /\ x < WordHalf

\* After a fragment the conditional branches decide as mathematics does: the
\* unsigned and signed order and the equality of the operands of a comparison,
\* the carry and overflow of a sum.  Equality needs the zero flag of every
\* byte, so only it asks that no other instruction came between.
BranchDecides ==
    Finished =>
      /\ idiom \in Compares =>
            /\ Taken("BRLO", sreg) <=> a < b
            /\ Taken("BRGE", sreg) <=> SignedWord(a) >= SignedWord(b)
            /\ Taken("BRVS", sreg) <=> ~InRange(SignedWord(a) - SignedWord(b))
            /\ ~mixed => (Taken("BREQ", sreg) <=> a = b)
      /\ idiom \in {"add", "adiw"} =>
            /\ Taken("BRCS", sreg) <=> a + b >= WordSize
            /\ Taken("BRLT", sreg) <=> SignedWord(a) + SignedWord(b) < 0
            /\ Taken("BRVC", sreg) <=> InRange(SignedWord(a) + SignedWord(b))
      /\ idiom \in {"lsr", "asr"} => (Taken("BRCC", sreg) <=> a % 2 = 0)
      /\ idiom = "neg" =>
            /\ Taken("BRLT", sreg) <=> SignedWord(a) > 0
            /\ ~mixed => (Taken("BRNE", sreg) <=> a # 0)

\* Partial products added with their carries give the low word of an unsigned
\* product, and the exact three-byte product of a signed word and a byte.
ProductResult ==
    Finished =>
      /\ idiom = "mul" => acc.hi * Base + acc.lo = (a * b) % WordSize
      /\ idiom = "mulsu" =>
            Signed(acc.ext) * WordSize + acc.hi * Base + acc.lo = SignedWord(a) * b
=============================================================================
