------------------------------ MODULE Opcodes ------------------------------
(***************************************************************************)
(* The five tables of flAVR that a program word is looked up in: what it   *)
(* executes (avr_opcodes.c), how its operands are decoded                  *)
(* (avr_op_decode.c), how many words and cycles it takes (avr_op_size.c,   *)
(* avr_op_cycles.c) and what the debugger prints for it (avr_disasm.c).    *)
(* They are written separately, each as a cascade of masks in which the    *)
(* first match wins, and must agree on every word.                         *)
(*                                                                         *)
(* Operands pass from decoder to execution in latches of stCPU.  A decoder *)
(* sets only the latches of its format, the others keep what an earlier    *)
(* instruction left: Stale.  k and k_s share a cell; they are kept apart   *)
(* here, so that reading one where the other was set counts as stale.      *)
(***************************************************************************)
EXTENDS Integers, Sequences

CONSTANT Second         \* the word after the one looked up

Words == 0 .. 65535

\* To be told from an immediate operand and from Stale.
ASSUME OpcodesAssumption == Second \in 256 .. 60535

VARIABLES
    phase,      \* "fetched", "decoded", "executed" or "printed"
    word,       \* OP, the word at the PC
    latch,      \* Rd, Rr, Rd16, Rr16, K, k, k_s, A, b and q of stCPU
    size,       \* u16ExtraPC
    charge,     \* the name under which u16ExtraCycles was looked up
    done        \* the function executed or printed and the operands it read

wordVars == <<phase, word, latch, size, charge, done>>

Latches == {"Rd", "Rr", "Rd16", "Rr16", "K", "k", "k_s", "A", "b", "q"}
Stale == -5000          \* no latch is decoded to this

----------------------------------------------------------------------------
(* Masks, a nibble at a time.                                              *)

\* A table computed once; concatenation makes TLC do so.
Tabulated(f) == f \o <<>>

Nibble == 0 .. 15
BitOf(x, i) == (x \div 2^i) % 2
NibbleAnd(x, y) ==
    BitOf(x, 0) * BitOf(y, 0) + 2 * (BitOf(x, 1) * BitOf(y, 1))
    + 4 * (BitOf(x, 2) * BitOf(y, 2)) + 8 * (BitOf(x, 3) * BitOf(y, 3))
NibbleAnds ==
    Tabulated([x \in 1 .. 16 |-> Tabulated([y \in 1 .. 16 |-> NibbleAnd(x - 1, y - 1)])])

And(x, mask) ==
    LET Digit(w, weight) == ((w \div weight) % 16) + 1
        Both(weight) == NibbleAnds[Digit(x, weight)][Digit(mask, weight)] * weight
    IN  Both(1) + Both(16) + Both(256) + Both(4096)

Field(x, high, low) == (x \div 2^low) % 2^(high - low + 1)

\* One switch statement: a mask and the cases of it.
Switch(mask, cases) == [mask |-> mask, cases |-> cases]

\* The first switch with a case for the word decides.
LookUp(table, w, default) ==
    LET Hit(i) == LET masked == And(w, table[i].mask)
                  IN  \E n \in DOMAIN table[i].cases : table[i].cases[n] = masked
        hits == {i \in DOMAIN table : Hit(i)}
    IN  IF hits = {} THEN default
        ELSE LET first == table[CHOOSE i \in hits : \A j \in hits : i <= j]
                 masked == And(w, first.mask)
             IN  CHOOSE n \in DOMAIN first.cases : first.cases[n] = masked

----------------------------------------------------------------------------
(* The tables.                                                             *)

FunctionSwitches == <<
    Switch(\hFFFF, [
        NOP |-> \h0000, IJMP |-> \h9409, EIJMP |-> \h9419, RET |-> \h9508,
        ICALL |-> \h9509, RETI |-> \h9518, EICALL |-> \h9519,
        SLEEP |-> \h9588, BREAK |-> \h9598, WDR |-> \h95A8, LPM |-> \h95C8,
        ELPM |-> \h95D8, SPM |-> \h95E8, SPM_Z_Postinc2 |-> \h95F8]),
    Switch(\hFF8F, [BSET |-> \h9408, BCLR |-> \h9488]),
    Switch(\hFF88, [
        MULSU |-> \h0300, FMUL |-> \h0308, FMULS |-> \h0380,
        FMULSU |-> \h0388]),
    Switch(\hFF0F, [DES |-> \h940B, SER |-> \hEF0F]),
    Switch(\hFF00, [
        MOVW |-> \h0100, ADIW |-> \h9600, SBIW |-> \h9700, CBI |-> \h9800,
        SBIC |-> \h9900, SBI |-> \h9A00, SBIS |-> \h9B00]),
    Switch(\hFE0F, [
        LD_Y_Indirect |-> \h8008, LD_Z_Indirect |-> \h8000,
        ST_Z_Indirect |-> \h8200, ST_Y_Indirect |-> \h8208, LDS |-> \h9000,
        LD_Z_Indirect_Postinc |-> \h9001, LD_Z_Indirect_Predec |-> \h9002,
        LPM_Z |-> \h9004, LPM_Z_Postinc |-> \h9005, ELPM_Z |-> \h9006,
        ELPM_Z_Postinc |-> \h9007, LD_Y_Indirect_Postinc |-> \h9009,
        LD_Y_Indirect_Predec |-> \h900A, LD_X_Indirect |-> \h900C,
        LD_X_Indirect_Postinc |-> \h900D, LD_X_Indirect_Predec |-> \h900E,
        POP |-> \h900F, STS |-> \h9200, ST_Z_Indirect_Postinc |-> \h9201,
        ST_Z_Indirect_Predec |-> \h9202, XCH |-> \h9204, LAS |-> \h9205,
        LAC |-> \h9206, LAT |-> \h9207, ST_Y_Indirect_Postinc |-> \h9209,
        ST_Y_Indirect_Predec |-> \h920A, ST_X_Indirect |-> \h920C,
        ST_X_Indirect_Postinc |-> \h920D, ST_X_Indirect_Predec |-> \h920E,
        PUSH |-> \h920F, COM |-> \h9400, NEG |-> \h9401, SWAP |-> \h9402,
        INC |-> \h9403, ASR |-> \h9405, LSR |-> \h9406, ROR |-> \h9407,
        DEC |-> \h940A]),
    Switch(\hFE0E, [JMP |-> \h940C, CALL |-> \h940E]),
    Switch(\hFE08, [
        BLD |-> \hF800, BST |-> \hFA00, SBRC |-> \hFC00, SBRS |-> \hFE00]),
    Switch(\hFC07, [
        BRCS |-> \hF000, BREQ |-> \hF001, BRMI |-> \hF002, BRVS |-> \hF003,
        BRLT |-> \hF004, BRTS |-> \hF006, BRIE |-> \hF007, BRCC |-> \hF400,
        BRNE |-> \hF401, BRPL |-> \hF402, BRVC |-> \hF403, BRGE |-> \hF404,
        BRHC |-> \hF405, BRTC |-> \hF406, BRID |-> \hF407]),
    Switch(\hFC00, [
        MULS |-> \h0200, CPC |-> \h0400, SBC |-> \h0800, ADD |-> \h0C00,
        CPSE |-> \h1000, ROL |-> \h1300, CP |-> \h1400, ADC |-> \h1C00,
        SUB |-> \h1800, AND |-> \h2000, EOR |-> \h2400, MOV |-> \h2C00,
        OR |-> \h2800, MUL |-> \h9C00]),
    Switch(\hF800, [n \in {"IN", "OUT"} |-> IF n = "IN" THEN \hB000 ELSE \hB800]),
    Switch(\hF000, [
        CPI |-> \h3000, SBCI |-> \h4000, SUBI |-> \h5000, ORI |-> \h6000,
        ANDI |-> \h7000, RJMP |-> \hC000, RCALL |-> \hD000, LDI |-> \hE000]),
    Switch(\hD208, [
        LDD_Z |-> \h8000, LDD_Y |-> \h8008, STD_Z |-> \h8200,
        STD_Y |-> \h8208])
    >>

AVR_Opcode_Function(w) == LookUp(FunctionSwitches, w, "NOP")

\* The cases of the cycle table and, written once more, of the disassembler.
\* They name the status bits one by one: their switches for BSET and BCLR are
\* compiled out.
ListingSwitches == <<
    Switch(\hFFFF, [
        NOP |-> \h0000, SEC |-> \h9408, IJMP |-> \h9409, SEZ |-> \h9418,
        EIJMP |-> \h9419, SEN |-> \h9428, SEV |-> \h9438, SES |-> \h9448,
        SEH |-> \h9458, SET |-> \h9468, SEI |-> \h9478, CLC |-> \h9488,
        CLZ |-> \h9498, CLN |-> \h94A8, CLV |-> \h94B8, CLS |-> \h94C8,
        CLH |-> \h94D8, CLT |-> \h94E8, CLI |-> \h94F8, RET |-> \h9508,
        ICALL |-> \h9509, RETI |-> \h9518, EICALL |-> \h9519,
        SLEEP |-> \h9588, BREAK |-> \h9598, WDR |-> \h95A8, LPM |-> \h95C8,
        ELPM |-> \h95D8, SPM |-> \h95E8, SPM_Z_Postinc2 |-> \h95F8]),
    Switch(\hFF88, [
        MULSU |-> \h0300, FMUL |-> \h0308, FMULS |-> \h0380,
        FMULSU |-> \h0388]),
    Switch(\hFF0F, [DES |-> \h940B, SER |-> \hEF0F]),
    Switch(\hFF00, [
        MOVW |-> \h0100, ADIW |-> \h9600, SBIW |-> \h9700, CBI |-> \h9800,
        SBIC |-> \h9900, SBI |-> \h9A00, SBIS |-> \h9B00]),
    Switch(\hFE0F, [
        LD_Y_Indirect |-> \h8008, LD_Z_Indirect |-> \h8000,
        ST_Z_Indirect |-> \h8200, ST_Y_Indirect |-> \h8208, LDS |-> \h9000,
        LD_Z_Indirect_Postinc |-> \h9001, LD_Z_Indirect_Predec |-> \h9002,
        LPM_Z |-> \h9004, LPM_Z_Postinc |-> \h9005, ELPM_Z |-> \h9006,
        ELPM_Z_Postinc |-> \h9007, LD_Y_Indirect_Postinc |-> \h9009,
        LD_Y_Indirect_Predec |-> \h900A, LD_X_Indirect |-> \h900C,
        LD_X_Indirect_Postinc |-> \h900D, LD_X_Indirect_Predec |-> \h900E,
        POP |-> \h900F, STS |-> \h9200, ST_Z_Indirect_Postinc |-> \h9201,
        ST_Z_Indirect_Predec |-> \h9202, XCH |-> \h9204, LAS |-> \h9205,
        LAC |-> \h9206, LAT |-> \h9207, ST_Y_Indirect_Postinc |-> \h9209,
        ST_Y_Indirect_Predec |-> \h920A, ST_X_Indirect |-> \h920C,
        ST_X_Indirect_Postinc |-> \h920D, ST_X_Indirect_Predec |-> \h920E,
        PUSH |-> \h920F, COM |-> \h9400, NEG |-> \h9401, SWAP |-> \h9402,
        INC |-> \h9403, ASR |-> \h9405, LSR |-> \h9406, ROR |-> \h9407,
        DEC |-> \h940A]),
    Switch(\hFE0E, [JMP |-> \h940C, CALL |-> \h940E]),
    Switch(\hFE08, [
        BLD |-> \hF800, BST |-> \hFA00, SBRC |-> \hFC00, SBRS |-> \hFE00]),
    Switch(\hFC07, [
        BRCS |-> \hF000, BREQ |-> \hF001, BRMI |-> \hF002, BRVS |-> \hF003,
        BRLT |-> \hF004, BRTS |-> \hF006, BRIE |-> \hF007, BRCC |-> \hF400,
        BRNE |-> \hF401, BRPL |-> \hF402, BRVC |-> \hF403, BRGE |-> \hF404,
        BRHC |-> \hF405, BRTC |-> \hF406, BRID |-> \hF407]),
    Switch(\hFC00, [
        MULS |-> \h0200, CPC |-> \h0400, SBC |-> \h0800, ADD |-> \h0C00,
        CPSE |-> \h1000, ROL |-> \h1300, CP |-> \h1400, ADC |-> \h1C00,
        SUB |-> \h1800, AND |-> \h2000, EOR |-> \h2400, MOV |-> \h2C00,
        OR |-> \h2800, MUL |-> \h9C00]),
    Switch(\hF800, [n \in {"IN", "OUT"} |-> IF n = "IN" THEN \hB000 ELSE \hB800]),
    Switch(\hF000, [
        CPI |-> \h3000, SBCI |-> \h4000, SUBI |-> \h5000, ORI |-> \h6000,
        ANDI |-> \h7000, RJMP |-> \hC000, RCALL |-> \hD000, LDI |-> \hE000]),
    Switch(\hD208, [
        LDD_Z |-> \h8000, LDD_Y |-> \h8008, STD_Z |-> \h8200,
        STD_Y |-> \h8208])
    >>

\* A table over all words, as CPU_Init builds it.
astOpcodes == Tabulated([i \in 1 .. 65536 |-> AVR_Opcode_Function(i - 1)])

AVR_Opcode_Cycles(w) == LookUp(ListingSwitches, w, "Unimplemented")

\* A mutant: a switch for the loads with displacement comes too early.
DisasmDisplacedFirst(w) ==
    LookUp(<<Switch(\hD208, [LDD_Z |-> \h8000])>> \o ListingSwitches, w, "Unimplemented")

AVR_Disasm_Function(w) == LookUp(ListingSwitches, w, "Unimplemented")

\* How many cycles the functions of the cycle table return; the rest return 1.
ArithmeticCycles ==
    {"ADIW", "SBIW", "MUL", "MULS", "MULSU", "FMUL", "FMULS", "FMULSU"} \X {2}
JumpCycles ==
    ({"RJMP", "IJMP", "EIJMP", "JMP"} \X {2}) \cup ({"RCALL", "ICALL"} \X {3})
    \cup ({"EICALL", "CALL", "RET", "RETI"} \X {4})
LoadCycles ==
    ({"LDS", "LD_X_Indirect_Postinc", "LD_Y_Indirect_Postinc", "LDD_Y",
      "LD_Z_Indirect_Postinc", "LDD_Z"} \X {2})
    \cup ({"LD_X_Indirect_Predec", "LD_Y_Indirect_Predec", "LD_Z_Indirect_Predec"} \X {3})
StoreCycles ==
    {"STS", "ST_X_Indirect", "ST_X_Indirect_Postinc", "ST_X_Indirect_Predec",
     "ST_Y_Indirect", "ST_Y_Indirect_Postinc", "ST_Y_Indirect_Predec", "STD_Y",
     "ST_Z_Indirect", "ST_Z_Indirect_Postinc", "ST_Z_Indirect_Predec", "STD_Z"} \X {2}
MemoryCycles ==
    ({"LPM", "LPM_Z", "LPM_Z_Postinc", "ELPM", "ELPM_Z", "ELPM_Z_Postinc"} \X {3})
    \cup ({"SPM", "SPM_Z_Postinc2"} \X {2})
StackAndBitCycles == {"POP", "PUSH", "SBI", "CBI"} \X {2}

LongOnes ==
    ArithmeticCycles \cup JumpCycles \cup LoadCycles \cup StoreCycles
    \cup MemoryCycles \cup StackAndBitCycles

Cycles(name) ==
    IF \E c \in 2 .. 4 : <<name, c>> \in LongOnes
    THEN CHOOSE c \in 2 .. 4 : <<name, c>> \in LongOnes ELSE 1

----------------------------------------------------------------------------
(* Formats: decoder and size tables are chains of tests on masked words,   *)
(* some of them for a range.                                               *)

Test(mask, low, high, format) ==
    [mask |-> mask, low |-> low, high |-> high, format |-> format]

Is(mask, value, format) == Test(mask, value, value, format)

FirstTest(chain, w) ==
    LET hit == {i \in DOMAIN chain :
                   And(w, chain[i].mask) \in chain[i].low .. chain[i].high}
    IN  IF hit = {} THEN "NOP"
        ELSE chain[CHOOSE i \in hit : \A j \in hit : i <= j].format

\* The tests before and after the one in which the two chains differ.
LowTests == <<
    Is(\hFF0F, \h9408, "Register_SC"), Is(\hFF0F, \h9508, "Misc"),
    Is(\hFF0F, \h940B, "DES_round_4"), Test(\hFF00, \h0100, \h0200, "Register_Pair_4bit"),
    Is(\hFF00, \h0300, "Register_Pair_3bit")>>
HighTests == <<
    Test(\hFF00, 0, \h7F00, "Register_Immediate"),
    Is(\hFEEF, \h9409, "Indirect_Jump"), Is(\hFE08, \h9400, "Register_Single"),
    Is(\hFE0F, \h940A, "DEC_Rd"), Is(\hFE0C, \h940C, "JMP_CALL_22"),
    Is(\hFE00, \h9600, "ADIW_SBIW_6"), Is(\hFC0F, \h9000, "LDS_STS"),
    Is(\hFC00, \h9000, "LDST"), Is(\hFC00, \h9800, "IO_Bit"), Is(\hFC00, \h9C00, "MUL"),
    Is(\hFC00, \hF800, "BLD_BST"), Is(\hFC00, \hFC00, "SBRC_SBRS"),
    Is(\hF800, \hF000, "Conditional_Branch"), Is(\hF000, \hE000, "LDI"),
    Is(\hF000, \hB000, "IO_In_Out"), Is(\hE000, \hC000, "Relative_Jump"),
    Is(\hD000, \h8000, "LDST_YZ_k")>>

Chain(lastPair) ==
    LowTests \o <<Test(\hFF00, 0, lastPair, "Register_Pair_5bit")>> \o HighTests

\* A mutant: the size table's bound, which is off, copied to the decoder.
DecoderLikeSize(w) == FirstTest(Chain(\h4F00), w)

AVR_Decoder_Function(w) == FirstTest(Chain(\h2F00), w)
Formats == Tabulated([i \in 1 .. 65536 |-> AVR_Decoder_Function(i - 1)])

SizeOf(format) == IF format \in {"LDS_STS", "JMP_CALL_22"} THEN 2 ELSE 1

\* A mutant: the test for all indirect loads comes before that for direct ones.
IndirectSizedFirst(w) ==
    SizeOf(IF And(w, \hFC00) = \h9000 THEN "LDST" ELSE FirstTest(Chain(\h4F00), w))

AVR_Opcode_Size(w) == SizeOf(FirstTest(Chain(\h4F00), w))

----------------------------------------------------------------------------
(* Decoding: the latches a format sets.  A register is its number, a pair  *)
(* of registers the number of its word.                                    *)

RdOf(w) == Field(w, 8, 4)
RrOf(w) == Field(w, 3, 0) + 16 * Field(w, 9, 9)
KOf(w)  == Field(w, 3, 0) + 16 * Field(w, 11, 8)

\* A displacement of 12 or 7 bits: its top bit counts negative.
SignedField(w, high, low) ==
    LET k == Field(w, high, low)
        half == 2^(high - low)
    IN  IF k >= half THEN k - 2 * half ELSE k

\* A mutant: the displacement's top bit, far from the others, is forgotten.
DisplacementWithoutTop(w) ==
    [q |-> Field(w, 2, 0) + 8 * Field(w, 11, 10), Rd |-> RdOf(w)]

AVR_Decoder_LDST_YZ_k(w) ==
    [q |-> Field(w, 2, 0) + 8 * Field(w, 11, 10) + 32 * Field(w, 13, 13), Rd |-> RdOf(w)]

RegisterFormat(w, format) ==
    CASE format = "Register_Pair_4bit" -> [Rr16 |-> Field(w, 3, 0), Rd16 |-> Field(w, 7, 4)]
      [] format = "Register_Pair_3bit" ->
            [Rr |-> Field(w, 2, 0) + 16, Rd |-> Field(w, 6, 4) + 16]
      [] format \in {"Register_Pair_5bit", "MUL"} -> [Rr |-> RrOf(w), Rd |-> RdOf(w)]
      [] format \in {"Register_Immediate", "LDI"} ->
            [K |-> KOf(w), Rd |-> Field(w, 7, 4) + 16]
      [] format \in {"LDST", "Register_Single", "DEC_Rd"} -> [Rd |-> RdOf(w)]
      [] format = "LDST_YZ_k" -> AVR_Decoder_LDST_YZ_k(w)
      [] format = "LDS_STS" -> [Rd |-> RdOf(w), K |-> Second]

OtherFormat(w, format) ==
    CASE format = "Register_SC" -> [b |-> Field(w, 6, 4)]
      [] format = "DES_round_4" -> [K |-> Field(w, 7, 4)]
      [] format = "JMP_CALL_22" ->
            [k |-> 65536 * (Field(w, 0, 0) + 2 * Field(w, 8, 4)) + Second]
      [] format = "ADIW_SBIW_6" ->
            [K |-> Field(w, 3, 0) + 16 * Field(w, 7, 6), Rd16 |-> Field(w, 5, 4) + 12]
      [] format = "IO_Bit" -> [b |-> Field(w, 2, 0), A |-> Field(w, 7, 3)]
      [] format = "IO_In_Out" ->
            [A |-> Field(w, 3, 0) + 16 * Field(w, 10, 9), Rd |-> RdOf(w)]
      [] format = "Relative_Jump" -> [k_s |-> SignedField(w, 11, 0)]
      [] format = "Conditional_Branch" ->
            [b |-> Field(w, 2, 0), k_s |-> SignedField(w, 9, 3)]
      [] format \in {"BLD_BST", "SBRC_SBRS"} -> [b |-> Field(w, 2, 0), Rd |-> RdOf(w)]
      [] format \in {"NOP", "Misc", "Indirect_Jump"} -> <<>>

RegisterFormats ==
    {"Register_Pair_4bit", "Register_Pair_3bit", "Register_Pair_5bit", "MUL",
     "Register_Immediate", "LDI", "LDST", "Register_Single", "DEC_Rd", "LDST_YZ_k",
     "LDS_STS"}

\* The latches a word's format sets, with what it sets them to.
Fields(w) ==
    LET format == Formats[w + 1]
    IN  IF format \in RegisterFormats THEN RegisterFormat(w, format)
        ELSE OtherFormat(w, format)

\* Every latch after AVR_Decode: what the format sets, the rest as it was.
AVR_Decode(w, latches) ==
    LET fields == Fields(w)
    IN  [l \in Latches |-> IF l \in DOMAIN fields THEN fields[l] ELSE latches[l]]

----------------------------------------------------------------------------
(* The latches that opcode functions read, family by family, as pairs of   *)
(* a name and a latch.                                                     *)

All(names, latches) == names \X latches

ArithmeticReads ==
    All({"ADD", "ADC", "SUB", "SBC", "AND", "OR", "EOR", "MUL", "MULS", "MULSU",
         "FMUL", "FMULS", "FMULSU"}, {"Rd", "Rr"})
    \cup All({"ADIW", "SBIW"}, {"Rd16", "K"})
    \cup All({"SUBI", "SBCI", "ANDI", "ORI"}, {"Rd", "K"})
    \cup All({"COM", "NEG", "INC", "DEC", "SER"}, {"Rd"})
JumpReads == All({"RJMP", "RCALL"}, {"k_s"}) \cup All({"JMP", "CALL"}, {"k"})
CompareReads ==
    All({"CPSE", "CP", "CPC"}, {"Rd", "Rr"}) \cup All({"CPI"}, {"Rd", "K"})
    \cup All({"SBRC", "SBRS"}, {"Rd", "b"}) \cup All({"SBIC", "SBIS"}, {"A", "b"})
BranchReads ==
    All({"BREQ", "BRNE", "BRCS", "BRCC", "BRMI", "BRPL", "BRGE", "BRLT", "BRHC",
         "BRTS", "BRTC", "BRVS", "BRVC", "BRIE", "BRID"}, {"k_s"})
LoadReads ==
    All({"MOV"}, {"Rd", "Rr"}) \cup All({"MOVW"}, {"Rd16", "Rr16"})
    \cup All({"LDI", "LDS"}, {"Rd", "K"}) \cup All({"LDD_Y", "LDD_Z"}, {"Rd", "q"})
    \cup All({"LD_X_Indirect", "LD_X_Indirect_Postinc", "LD_X_Indirect_Predec",
            "LD_Y_Indirect", "LD_Y_Indirect_Postinc", "LD_Y_Indirect_Predec",
            "LD_Z_Indirect", "LD_Z_Indirect_Postinc", "LD_Z_Indirect_Predec"}, {"Rd"})
StoreReads ==
    All({"STS"}, {"Rd", "K"}) \cup All({"STD_Y", "STD_Z"}, {"Rd", "q"})
    \cup All({"ST_X_Indirect", "ST_X_Indirect_Postinc", "ST_X_Indirect_Predec",
            "ST_Y_Indirect", "ST_Y_Indirect_Postinc", "ST_Y_Indirect_Predec",
            "ST_Z_Indirect", "ST_Z_Indirect_Postinc", "ST_Z_Indirect_Predec"}, {"Rd"})
MemoryReads ==
    All({"LPM_Z", "LPM_Z_Postinc", "ELPM_Z", "ELPM_Z_Postinc"}, {"Rd"})
TransferReads ==
    All({"IN", "OUT"}, {"Rd", "A"})
    \cup All({"PUSH", "POP", "XCH", "LAS", "LAC", "LAT"}, {"Rd"})
BitReads ==
    All({"LSR", "ROL", "ROR", "ASR", "SWAP"}, {"Rd"}) \cup All({"BSET", "BCLR"}, {"b"})
    \cup All({"SBI", "CBI"}, {"A", "b"}) \cup All({"BST", "BLD"}, {"Rd", "b"})

FunctionReads ==
    ArithmeticReads \cup JumpReads \cup CompareReads \cup BranchReads \cup LoadReads
    \cup StoreReads \cup MemoryReads \cup TransferReads \cup BitReads

----------------------------------------------------------------------------
(* The latches that the disassembler prints, in the order of its source.   *)

\* add to eor
PrintsArithmetic ==
    All({"ADD", "ADC", "SUB", "SBC", "AND", "OR", "EOR"}, {"Rd", "Rr"})
    \cup All({"SUBI", "SBCI", "ANDI", "ORI"}, {"Rd", "K"})
    \cup All({"ADIW", "SBIW"}, {"Rd16", "K"})
\* com to mul
PrintsSingle ==
    All({"COM", "NEG", "INC", "DEC", "TST", "CLR", "SER"}, {"Rd"})
    \cup All({"SBR", "CBR"}, {"Rd", "K"}) \cup All({"MUL"}, {"Rd", "Rr"})
\* muls to ret
PrintsJump ==
    All({"MULS", "MULSU", "FMUL", "FMULS", "FMULSU"}, {"Rd", "Rr"}) \cup All({"DES"}, {"K"})
    \cup All({"RJMP", "RCALL"}, {"k_s"}) \cup All({"JMP", "CALL"}, {"k"})
\* cpse to sbis
PrintsCompare ==
    All({"CPSE", "CP", "CPC"}, {"Rd", "Rr"}) \cup All({"CPI"}, {"Rd", "K"})
    \cup All({"SBRC", "SBRS"}, {"Rd", "b"}) \cup All({"SBIC", "SBIS"}, {"A", "b"})
\* breq to brhs, which would print as brlt
PrintsBranch ==
    All({"BREQ", "BRNE", "BRCS", "BRCC", "BRSH", "BRLO", "BRMI", "BRPL", "BRGE",
         "BRLT", "BRHS"}, {"k_s"})
\* brhc to movw
PrintsBranchOrMove ==
    All({"BRHC", "BRTS", "BRTC", "BRVS", "BRVC", "BRIE", "BRID"}, {"k_s"})
    \cup All({"MOV"}, {"Rd", "Rr"}) \cup All({"MOVW"}, {"Rd16", "Rr16"})
\* ldi to ldd
PrintsLoad ==
    All({"LDI"}, {"Rd", "K"}) \cup All({"LDS"}, {"Rd", "k"})
    \cup All({"LDD_Y", "LDD_Z"}, {"Rd", "q"})
    \cup All({"LD_X_Indirect", "LD_X_Indirect_Postinc", "LD_X_Indirect_Predec",
            "LD_Y_Indirect", "LD_Y_Indirect_Postinc", "LD_Y_Indirect_Predec",
            "LD_Z_Indirect", "LD_Z_Indirect_Postinc", "LD_Z_Indirect_Predec"}, {"Rd"})
\* sts to std
PrintsStore ==
    All({"STS"}, {"Rd", "k"}) \cup All({"STD_Y", "STD_Z"}, {"Rd", "q"})
    \cup All({"ST_X_Indirect", "ST_X_Indirect_Postinc", "ST_X_Indirect_Predec",
            "ST_Y_Indirect", "ST_Y_Indirect_Postinc", "ST_Y_Indirect_Predec",
            "ST_Z_Indirect", "ST_Z_Indirect_Postinc", "ST_Z_Indirect_Predec"}, {"Rd"})
\* lpm to lat
PrintsMemory ==
    All({"LPM_Z", "LPM_Z_Postinc", "ELPM_Z", "ELPM_Z_Postinc", "LAC", "LAS", "LAT"}, {"Rd"})
    \cup All({"IN", "OUT"}, {"Rd", "A"})
\* lsl to bld
PrintsBit ==
    All({"LSL", "LSR", "POP", "PUSH", "ROL", "ROR", "ASR", "SWAP"}, {"Rd"})
    \cup All({"SBI", "CBI"}, {"A", "b"}) \cup All({"BST", "BLD"}, {"Rd", "b"})
\* sec to xch: the status bits print no operand
PrintsStatus == All({"XCH"}, {"Rd"})

DisasmReads ==
    PrintsArithmetic \cup PrintsSingle \cup PrintsJump \cup PrintsCompare \cup PrintsBranch
    \cup PrintsBranchOrMove \cup PrintsLoad \cup PrintsStore \cup PrintsMemory \cup PrintsBit
    \cup PrintsStatus

\* The operands of a name, as the table of reads and the latches have them.
Operands(name, reads, latches) ==
    [l \in {r \in Latches : <<name, r>> \in reads} |-> latches[l]]

----------------------------------------------------------------------------
(* The steps of an instruction, or of its printing.                        *)

Fetch ==
    /\ phase = "fetched" /\ word \in Words
    /\ latch = [l \in Latches |-> Stale]
    /\ size = 0 /\ charge = "NOP"
    /\ done = [name |-> "NOP", operands |-> <<>>]

\* CPU_RunCycle, or a print loop, up to the call of the function looked up.
Decode ==
    /\ phase = "fetched" /\ phase' = "decoded"
    /\ charge' = AVR_Opcode_Cycles(word)
    /\ size' = AVR_Opcode_Size(word)
    /\ latch' = AVR_Decode(word, latch)
    /\ UNCHANGED <<word, done>>

Run(name, reads) == done' = [name |-> name, operands |-> Operands(name, reads, latch)]

Execute ==
    /\ phase = "decoded" /\ phase' = "executed"
    /\ Run(astOpcodes[word + 1], FunctionReads)
    /\ UNCHANGED <<word, latch, size, charge>>

Disassemble ==
    /\ phase = "decoded" /\ phase' = "printed"
    /\ Run(AVR_Disasm_Function(word), DisasmReads)
    /\ UNCHANGED <<word, latch, size, charge>>

LookUpWord == Decode \/ Execute \/ Disassemble

\* One word looked up, on its own: what the theorems are about.
LookUpSpec == Fetch /\ [][LookUpWord]_wordVars

----------------------------------------------------------------------------
\* What a word executes, without running it.
Meaning(w) ==
    LET name == astOpcodes[w + 1]
        fresh == AVR_Decode(w, [l \in Latches |-> Stale])
    IN  [name |-> name, operands |-> Operands(name, FunctionReads, fresh)]

\* The status bits of SREG from 0 to 7, as set and cleared by name.
SetNames   == <<"SEC", "SEZ", "SEN", "SEV", "SES", "SEH", "SET", "SEI">>
ClearNames == <<"CLC", "CLZ", "CLN", "CLV", "CLS", "CLH", "CLT", "CLI">>

\* The name under which the cycle table and the disassembler list a meaning.
Listed(meaning) ==
    CASE meaning.name = "BSET" -> SetNames[meaning.operands["b"] + 1]
      [] meaning.name = "BCLR" -> ClearNames[meaning.operands["b"] + 1]
      [] OTHER -> meaning.name

\* An instruction reads only operands that its own word has set: the chain of
\* tests that chooses the decoder and the masks that choose the function, which
\* overlap differently, pair every function with a format that feeds it.
OperandsFresh ==
    phase = "executed" =>
        \A l \in DOMAIN done.operands : done.operands[l] # Stale

\* Decoding loses nothing: two words that differ in a bit execute a different
\* function or the same one on different operands, unless they execute as NOP
\* or as DES, which has no code yet.
EveryBitCounts ==
    phase = "executed" /\ done.name \notin {"NOP", "DES"} =>
        \A i \in 0 .. 15 : BitOf(word, i) = 0 => Meaning(word + 2^i) # done

\* Skips and fall-through advance over exactly the words the decoder fetched,
\* and time is charged for each of them.
AdvancesPastOperands ==
    phase # "fetched" =>
        /\ size \in {1, 2}
        /\ size = 2 <=> (latch["K"] = Second \/ latch["k"] % 65536 = Second)
        /\ Cycles(charge) >= size

\* Time is charged, and the disassembler prints, under the name that executes,
\* with the operands that execution would use; words that execute as NOP and
\* are not the NOP word are listed as data.  The address of a direct load or
\* store is excepted: the disassembler prints k for it, not K.
ListedAsExecuted ==
    LET meaning == Meaning(word)
        listed == IF meaning.name = "NOP" /\ word # 0 THEN "Unimplemented"
                  ELSE Listed(meaning)
        printed == IF meaning.name \in {"BSET", "BCLR"} THEN <<>> ELSE
                   [l \in DOMAIN meaning.operands \
                        (IF meaning.name \in {"LDS", "STS"} THEN {"K"} ELSE {})
                        |-> meaning.operands[l]]
    IN  /\ phase # "fetched" => charge = listed
        /\ phase = "printed" =>
              /\ done.name = listed
              /\ \A l \in DOMAIN printed :
                    l \in DOMAIN done.operands /\ done.operands[l] = printed[l]
=============================================================================
