-------------------------------- MODULE Alu --------------------------------
(***************************************************************************)
(* The arithmetic opcodes of avr_cpu/avr_opcodes.c as operators: each      *)
(* takes the bytes of its operands and the status register and returns     *)
(* what it leaves in its destination and in the status register.           *)
(*                                                                         *)
(* The flags are computed as the code does, from the top bits of operands  *)
(* and result; what they mean is left to the properties of Arith.  The     *)
(* half carry H, which no reachable branch but BRHC tests, is left out.    *)
(***************************************************************************)
EXTENDS Integers

CONSTANT ByteHalf       \* the weight of a byte's top bit, 0x80

ASSUME AluAssumption == ByteHalf \in Nat \ {0}

Base == 2 * ByteHalf
Byte == 0 .. Base - 1
Sreg == [C : {0, 1}, Z : {0, 1}, N : {0, 1}, V : {0, 1}, S : {0, 1}]

\* A mutant: a borrow is not wrapped.
\* Conversion to uint8_t of a sum or difference of two bytes and a carry.
ByteOf(x) == IF x < 0 THEN x + Base ELSE IF x >= Base THEN x - Base ELSE x

Top(x) == x >= ByteHalf
Bit(c) == IF c THEN 1 ELSE 0

\* R8_Negative_Flag, Signed_Flag.
Flags(carry, zero, negative, overflow) ==
    [C |-> Bit(carry), Z |-> Bit(zero), N |-> Bit(negative), V |-> Bit(overflow),
     S |-> Bit(~(negative <=> overflow))]

Out(value, sreg) == [value |-> value, sreg |-> sreg]

----------------------------------------------------------------------------
(* Addition.                                                               *)

\* A mutant: the third way to carry is forgotten.
FullCarryTwoTerms(d, r, q) == (d /\ r) \/ (r /\ ~q)

ADD_Full_Carry(d, r, q) == (d /\ r) \/ (r /\ ~q) \/ (~q /\ d)

ADD_Overflow_Flag(d, r, q) == (d /\ r /\ ~q) \/ (~d /\ ~r /\ q)

AddFlags(rd, rr, res) ==
    Flags(ADD_Full_Carry(Top(rd), Top(rr), Top(res)), res = 0, Top(res),
          ADD_Overflow_Flag(Top(rd), Top(rr), Top(res)))

AVR_Opcode_ADD(rd, rr) ==
    LET res == ByteOf(rd + rr) IN Out(res, AddFlags(rd, rr, res))

AVR_Opcode_ADC(rd, rr, sreg) ==
    LET res == ByteOf(rd + rr + sreg.C) IN Out(res, AddFlags(rd, rr, res))

----------------------------------------------------------------------------
(* Subtraction and comparison; the immediate forms SUBI, SBCI and CPI have  *)
(* the same code with K for the second operand.                             *)

SUB_Full_Carry(d, r, q) == (~d /\ r) \/ (r /\ q) \/ (q /\ ~d)

SUB_Overflow_Flag(d, r, q) == (d /\ ~r /\ ~q) \/ (~d /\ r /\ q)

SubFlags(rd, rr, res, zero) ==
    Flags(SUB_Full_Carry(Top(rd), Top(rr), Top(res)), zero, Top(res),
          SUB_Overflow_Flag(Top(rd), Top(rr), Top(res)))

AVR_Opcode_SUB(rd, rr) ==
    LET res == ByteOf(rd - rr) IN Out(res, SubFlags(rd, rr, res, res = 0))

\* A result other than zero clears Z; zero leaves it as it was.
AVR_Opcode_SBC(rd, rr, sreg) ==
    LET res == ByteOf(rd - rr - sreg.C)
    IN  Out(res, SubFlags(rd, rr, res, res = 0 /\ sreg.Z = 1))

AVR_Opcode_CP(rd, rr) ==
    LET res == ByteOf(rd - rr) IN Out(rd, SubFlags(rd, rr, res, res = 0))

\* A mutant: R8_Zero_Flag where R8_CPC_Zero_Flag belongs.
CPCForgetsZero(rd, rr, sreg) ==
    LET res == ByteOf(rd - rr - sreg.C)
    IN  Out(rd, SubFlags(rd, rr, res, res = 0))

AVR_Opcode_CPC(rd, rr, sreg) ==
    LET res == ByteOf(rd - rr - sreg.C)
    IN  Out(rd, SubFlags(rd, rr, res, sreg.Z = 1 /\ res = 0))

----------------------------------------------------------------------------
(* One operand.                                                            *)

AVR_Opcode_COM(rd) ==
    LET res == (Base - 1) - rd IN Out(res, Flags(TRUE, res = 0, Top(res), FALSE))

AVR_Opcode_NEG(rd) ==
    LET res == ByteOf(0 - rd)
    IN  Out(res, Flags(res # 0, res = 0, Top(res), res = ByteHalf))

AVR_Opcode_INC(rd, sreg) ==
    LET res == ByteOf(rd + 1)
    IN  Out(res, Flags(sreg.C = 1, res = 0, Top(res), res = ByteHalf))

AVR_Opcode_DEC(rd, sreg) ==
    LET res == ByteOf(rd - 1)
    IN  Out(res, Flags(sreg.C = 1, res = 0, Top(res), res = ByteHalf - 1))

\* AND, OR, EOR, their immediate forms, SBR and CBR, which differ in res only.
AVR_Opcode_Logic(res, sreg) == Out(res, Flags(sreg.C = 1, res = 0, Top(res), FALSE))

----------------------------------------------------------------------------
(* Shifts.  LSL and ROL are the words of ADD and ADC with one register.     *)

Odd(x) == x % 2 = 1

\* Rotate_Overflow_Flag: V is N xor C.
ShiftRight(rd, in) ==
    LET res == rd \div 2 + in
    IN  Out(res, Flags(Odd(rd), res = 0, Top(res), Top(res) # Odd(rd)))

AVR_Opcode_LSR(rd) == ShiftRight(rd, 0)

AVR_Opcode_ROR(rd, sreg) == ShiftRight(rd, IF sreg.C = 1 THEN ByteHalf ELSE 0)

AVR_Opcode_ASR(rd) == ShiftRight(rd, IF Top(rd) THEN ByteHalf ELSE 0)

----------------------------------------------------------------------------
(* Words.                                                                  *)

WordSize == Base * Base
WordHalf == ByteHalf * Base
Word == 0 .. WordSize - 1
WordTop(x) == x >= WordHalf
WordOf(x) == IF x < 0 THEN x + WordSize ELSE IF x >= WordSize THEN x - WordSize ELSE x

AVR_Opcode_ADIW(rd, k) ==
    LET res == WordOf(rd + k)
    IN  Out(res, Flags(WordTop(rd) /\ ~WordTop(res), res = 0, WordTop(res),
                       ~WordTop(rd) /\ WordTop(res)))

AVR_Opcode_SBIW(rd, k) ==
    LET res == WordOf(rd - k)
    IN  Out(res, Flags(~WordTop(rd) /\ WordTop(res), res = 0, WordTop(res),
                       WordTop(rd) /\ ~WordTop(res)))

Signed(x) == IF Top(x) THEN x - Base ELSE x

\* N, V and S are left alone.
MulOut(product, sreg) ==
    Out(product, [sreg EXCEPT !.C = Bit(WordTop(product)), !.Z = Bit(product = 0)])

AVR_Opcode_MUL(rd, rr, sreg) == MulOut(rd * rr, sreg)

\* A mutant: the second operand signed too, as in MULS.
MULSUSigned(rd, rr, sreg) == MulOut(WordOf(Signed(rd) * Signed(rr)), sreg)

AVR_Opcode_MULSU(rd, rr, sreg) == MulOut(WordOf(Signed(rd) * rr), sreg)

----------------------------------------------------------------------------
\* Whether a conditional branch is taken, for the mnemonics about arithmetic.
Taken(branch, sreg) ==
    CASE branch = "BREQ" -> sreg.Z = 1
      [] branch = "BRNE" -> sreg.Z = 0
      [] branch \in {"BRCS", "BRLO"} -> sreg.C = 1
      [] branch \in {"BRCC", "BRSH"} -> sreg.C = 0
      [] branch = "BRMI" -> sreg.N = 1
      [] branch = "BRPL" -> sreg.N = 0
      [] branch = "BRVS" -> sreg.V = 1
      [] branch = "BRVC" -> sreg.V = 0
      [] branch = "BRLT" -> sreg.S = 1
      [] branch = "BRGE" -> sreg.S = 0
=============================================================================
