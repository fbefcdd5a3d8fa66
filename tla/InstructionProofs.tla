------------------------- MODULE InstructionProofs -------------------------
(***************************************************************************)
(* What an instruction word becomes, and what the arithmetic opcodes make  *)
(* of words.                                                               *)
(*                                                                         *)
(* The tables of Opcodes are right for every word: a word is taken apart   *)
(* into four digits, every mask is what it keeps of them, and each cascade *)
(* then becomes a condition on digits.                                     *)
(*                                                                         *)
(* The word arithmetic of Arith is right for bytes of every size: first    *)
(* what each opcode does to bytes, which is linear arithmetic in ByteHalf; *)
(* then how bytes make words; then the fragments.                          *)
(***************************************************************************)
EXTENDS Arith, Opcodes, TLAPS

----------------------------------------------------------------------------
(* Words of four digits, and what each mask keeps of them.                *)

D0(w) == w % 16
D1(w) == (w \div 16) % 16
D2(w) == (w \div 256) % 16
D3(w) == (w \div 4096) % 16

\* A word as an interval, without listing its elements.
LEMMA WordBounds == \A x : x \in Words <=> x \in Int /\ 0 <= x /\ x < 65536
<1> DEFINE top == 65535
<1>1. top \in Int /\ Words = 0 .. top
  BY DEF Words
<1>2. \A x \in Int : x <= top <=> x < 65536
  OBVIOUS
<1> HIDE DEF top
<1>3. \A x : x \in Words <=> x \in Int /\ 0 <= x /\ x <= top
  BY <1>1
<1>. QED  BY <1>2, <1>3

\* A word is its four digits.
LEMMA Digits ==
    ASSUME NEW w \in Words
    PROVE  /\ D0(w) \in Nibble /\ D1(w) \in Nibble /\ D2(w) \in Nibble /\ D3(w) \in Nibble
           /\ w = 4096 * D3(w) + 256 * D2(w) + 16 * D1(w) + D0(w)
<1> DEFINE p == w \div 16
           q == w \div 256
           r == w \div 4096
<1>1. w \in Int /\ 0 <= w /\ w < 65536
  BY WordBounds
<1>2. w = 16 * p + D0(w) /\ D0(w) \in Nibble /\ p \in Int
  BY <1>1 DEF D0, Nibble
<1>3. p = 16 * q + D1(w) /\ D1(w) \in Nibble /\ q \in Int
  BY <1>1 DEF D1, Nibble
<1>4. q = 16 * r + D2(w) /\ D2(w) \in Nibble /\ r \in Int
  BY <1>1 DEF D2, Nibble
<1>5. r = D3(w) /\ D3(w) \in Nibble
  BY <1>1 DEF D3, Nibble
<1>6. p = 256 * D3(w) + 16 * D2(w) + D1(w)
  <2> HIDE DEF p, q, r
  <2>. QED  BY <1>3, <1>4, <1>5 DEF Nibble
<1>7. \A d3, d2, d1, d0, x, y \in Int : /\ y = 256 * d3 + 16 * d2 + d1
                                          /\ x = 16 * y + d0
                                          => x = 4096 * d3 + 256 * d2 + 16 * d1 + d0
  OBVIOUS
<1>8. D0(w) \in Int /\ D1(w) \in Int /\ D2(w) \in Int /\ D3(w) \in Int
  <2>1. \A n \in Nibble : n \in Int
    BY DEF Nibble
  <2>. HIDE DEF p, q, r
  <2>. QED  BY <1>2, <1>3, <1>4, <1>5, <2>1
<1>9. w = 4096 * D3(w) + 256 * D2(w) + 16 * D1(w) + D0(w)
  <2>. HIDE DEF p, q, r
  <2>. QED  BY <1>1, <1>2, <1>6, <1>7, <1>8
<1>. QED  BY <1>2, <1>3, <1>4, <1>5, <1>9

\* What a digit of a mask keeps of a digit.
LEMMA NibbleMasks ==
    ASSUME NEW n \in Nibble
    PROVE  /\ NibbleAnd(n, 15) = n
           /\ NibbleAnd(n, 14) = 2 * (n \div 2)
           /\ NibbleAnd(n, 13) = 4 * (n \div 4) + (n % 2)
           /\ NibbleAnd(n, 12) = 4 * (n \div 4)
           /\ NibbleAnd(n, 8) = 8 * (n \div 8)
           /\ NibbleAnd(n, 7) = n % 8
           /\ NibbleAnd(n, 2) = 2 * ((n \div 2) % 2)
           /\ NibbleAnd(n, 0) = 0
  BY DEF NibbleAnd, Nibble, BitOf

\* The table of masked digits holds what it was computed from.
LEMMA Table ==
    ASSUME NEW x \in Nibble, NEW y \in Nibble
    PROVE  NibbleAnds[x + 1][y + 1] = NibbleAnd(x, y)
<1>1. \A i \in 1 .. 16 : [j \in 1 .. 16 |-> NibbleAnd(i - 1, j - 1)] \in Seq(Int)
  BY DEF NibbleAnd, BitOf
<1>. QED  BY <1>1 DEF NibbleAnds, Tabulated, Nibble

\* A word is masked digit by digit.
LEMMA AndDigits ==
    ASSUME NEW w \in Words, NEW m \in Words
    PROVE  And(w, m) = 4096 * NibbleAnd(D3(w), D3(m)) + 256 * NibbleAnd(D2(w), D2(m))
                       + 16 * NibbleAnd(D1(w), D1(m)) + NibbleAnd(D0(w), D0(m))
<1>1. \A v \in Words : v \in Int /\ v \div 1 = v
  BY WordBounds
<1>2. /\ D0(w) \in Nibble /\ D1(w) \in Nibble /\ D2(w) \in Nibble /\ D3(w) \in Nibble
      /\ D0(m) \in Nibble /\ D1(m) \in Nibble /\ D2(m) \in Nibble /\ D3(m) \in Nibble
  BY Digits
<1>3. /\ NibbleAnds[((w \div 1) % 16) + 1][((m \div 1) % 16) + 1] = NibbleAnd(D0(w), D0(m))
      /\ NibbleAnds[((w \div 16) % 16) + 1][((m \div 16) % 16) + 1] = NibbleAnd(D1(w), D1(m))
      /\ NibbleAnds[((w \div 256) % 16) + 1][((m \div 256) % 16) + 1] = NibbleAnd(D2(w), D2(m))
      /\ NibbleAnds[((w \div 4096) % 16) + 1][((m \div 4096) % 16) + 1] = NibbleAnd(D3(w), D3(m))
  BY <1>1, <1>2, Table DEF D0, D1, D2, D3
<1>4. \A x, y \in Nibble : NibbleAnd(x, y) \in Int
  BY DEF NibbleAnd, Nibble, BitOf
<1>. QED  BY <1>2, <1>3, <1>4 DEF And

\* What the masks of the tables keep.
Kept(d3, d2, d1, d0) == 4096 * d3 + 256 * d2 + 16 * d1 + d0

\* The digits of what a mask keeps.
LEMMA DigitsOfKept ==
    ASSUME NEW d3 \in Nibble, NEW d2 \in Nibble, NEW d1 \in Nibble, NEW d0 \in Nibble
    PROVE  /\ D3(Kept(d3, d2, d1, d0)) = d3 /\ D2(Kept(d3, d2, d1, d0)) = d2
           /\ D1(Kept(d3, d2, d1, d0)) = d1 /\ D0(Kept(d3, d2, d1, d0)) = d0
<1>1. D3(Kept(d3, d2, d1, d0)) = d3
  BY DEF D3, Kept, Nibble
<1>2. D2(Kept(d3, d2, d1, d0)) = d2
  <2>1. Kept(d3, d2, d1, d0) \div 256 = 16 * d3 + d2
    BY DEF Kept, Nibble
  <2>. QED  BY <2>1 DEF D2, Nibble
<1>3. D1(Kept(d3, d2, d1, d0)) = d1
  <2>1. Kept(d3, d2, d1, d0) \div 16 = 256 * d3 + 16 * d2 + d1
    BY DEF Kept, Nibble
  <2>. QED  BY <2>1 DEF D1, Nibble
<1>4. D0(Kept(d3, d2, d1, d0)) = d0
  BY DEF D0, Kept, Nibble
<1>. QED  BY <1>1, <1>2, <1>3, <1>4

LEMMA Zero == 0 \in Nibble
  BY DEF Nibble

\* And keeps, of each digit, what the mask says.
LEMMA Masks ==
    ASSUME NEW w \in Words
    PROVE  /\ And(w, \hFFFF) = Kept(D3(w), D2(w), D1(w), D0(w))
           /\ And(w, \hFF8F) = Kept(D3(w), D2(w), 8 * (D1(w) \div 8), D0(w))
           /\ And(w, \hFF88) = Kept(D3(w), D2(w), 8 * (D1(w) \div 8), 8 * (D0(w) \div 8))
           /\ And(w, \hFF0F) = Kept(D3(w), D2(w), 0, D0(w))
           /\ And(w, \hFF00) = Kept(D3(w), D2(w), 0, 0)
           /\ And(w, \hFE0F) = Kept(D3(w), 2 * (D2(w) \div 2), 0, D0(w))
           /\ And(w, \hFE0E) = Kept(D3(w), 2 * (D2(w) \div 2), 0, 2 * (D0(w) \div 2))
           /\ And(w, \hFE08) = Kept(D3(w), 2 * (D2(w) \div 2), 0, 8 * (D0(w) \div 8))
           /\ And(w, \hFC07) = Kept(D3(w), 4 * (D2(w) \div 4), 0, D0(w) % 8)
           /\ And(w, \hFC00) = Kept(D3(w), 4 * (D2(w) \div 4), 0, 0)
           /\ And(w, \hF800) = Kept(D3(w), 8 * (D2(w) \div 8), 0, 0)
           /\ And(w, \hF000) = Kept(D3(w), 0, 0, 0)
           /\ And(w, \hD208) = Kept(4 * (D3(w) \div 4) + (D3(w) % 2), 2 * ((D2(w) \div 2) % 2), 0,
                8 * (D0(w) \div 8))
           /\ And(w, \hFEEF) = Kept(D3(w), 2 * (D2(w) \div 2), 2 * (D1(w) \div 2), D0(w))
           /\ And(w, \hFE0C) = Kept(D3(w), 2 * (D2(w) \div 2), 0, 4 * (D0(w) \div 4))
           /\ And(w, \hFC0F) = Kept(D3(w), 4 * (D2(w) \div 4), 0, D0(w))
           /\ And(w, \hFE00) = Kept(D3(w), 2 * (D2(w) \div 2), 0, 0)
           /\ And(w, \hE000) = Kept(2 * (D3(w) \div 2), 0, 0, 0)
           /\ And(w, \hD000) = Kept(4 * (D3(w) \div 4) + (D3(w) % 2), 0, 0, 0)
<1>1. And(w, \hFFFF) = Kept(D3(w), D2(w), D1(w), D0(w))
  <2>1. \hFFFF \in Words /\ D3(\hFFFF) = 15 /\ D2(\hFFFF) = 15 /\ D1(\hFFFF) = 15 /\ D0(\hFFFF) = 15
    BY WordBounds DEF D0, D1, D2, D3
  <2>. QED  BY <2>1, Digits, NibbleMasks, AndDigits DEF Kept
<1>2. And(w, \hFF8F) = Kept(D3(w), D2(w), 8 * (D1(w) \div 8), D0(w))
  <2>1. \hFF8F \in Words /\ D3(\hFF8F) = 15 /\ D2(\hFF8F) = 15 /\ D1(\hFF8F) = 8 /\ D0(\hFF8F) = 15
    BY WordBounds DEF D0, D1, D2, D3
  <2>. QED  BY <2>1, Digits, NibbleMasks, AndDigits DEF Kept
<1>3. And(w, \hFF88) = Kept(D3(w), D2(w), 8 * (D1(w) \div 8), 8 * (D0(w) \div 8))
  <2>1. \hFF88 \in Words /\ D3(\hFF88) = 15 /\ D2(\hFF88) = 15 /\ D1(\hFF88) = 8 /\ D0(\hFF88) = 8
    BY WordBounds DEF D0, D1, D2, D3
  <2>. QED  BY <2>1, Digits, NibbleMasks, AndDigits DEF Kept
<1>4. And(w, \hFF0F) = Kept(D3(w), D2(w), 0, D0(w))
  <2>1. \hFF0F \in Words /\ D3(\hFF0F) = 15 /\ D2(\hFF0F) = 15 /\ D1(\hFF0F) = 0 /\ D0(\hFF0F) = 15
    BY WordBounds DEF D0, D1, D2, D3
  <2>. QED  BY <2>1, Digits, NibbleMasks, AndDigits DEF Kept
<1>5. And(w, \hFF00) = Kept(D3(w), D2(w), 0, 0)
  <2>1. \hFF00 \in Words /\ D3(\hFF00) = 15 /\ D2(\hFF00) = 15 /\ D1(\hFF00) = 0 /\ D0(\hFF00) = 0
    BY WordBounds DEF D0, D1, D2, D3
  <2>. QED  BY <2>1, Digits, NibbleMasks, AndDigits DEF Kept
<1>6. And(w, \hFE0F) = Kept(D3(w), 2 * (D2(w) \div 2), 0, D0(w))
  <2>1. \hFE0F \in Words /\ D3(\hFE0F) = 15 /\ D2(\hFE0F) = 14 /\ D1(\hFE0F) = 0 /\ D0(\hFE0F) = 15
    BY WordBounds DEF D0, D1, D2, D3
  <2>. QED  BY <2>1, Digits, NibbleMasks, AndDigits DEF Kept
<1>7. And(w, \hFE0E) = Kept(D3(w), 2 * (D2(w) \div 2), 0, 2 * (D0(w) \div 2))
  <2>1. \hFE0E \in Words /\ D3(\hFE0E) = 15 /\ D2(\hFE0E) = 14 /\ D1(\hFE0E) = 0 /\ D0(\hFE0E) = 14
    BY WordBounds DEF D0, D1, D2, D3
  <2>. QED  BY <2>1, Digits, NibbleMasks, AndDigits DEF Kept
<1>8. And(w, \hFE08) = Kept(D3(w), 2 * (D2(w) \div 2), 0, 8 * (D0(w) \div 8))
  <2>1. \hFE08 \in Words /\ D3(\hFE08) = 15 /\ D2(\hFE08) = 14 /\ D1(\hFE08) = 0 /\ D0(\hFE08) = 8
    BY WordBounds DEF D0, D1, D2, D3
  <2>. QED  BY <2>1, Digits, NibbleMasks, AndDigits DEF Kept
<1>9. And(w, \hFC07) = Kept(D3(w), 4 * (D2(w) \div 4), 0, D0(w) % 8)
  <2>1. \hFC07 \in Words /\ D3(\hFC07) = 15 /\ D2(\hFC07) = 12 /\ D1(\hFC07) = 0 /\ D0(\hFC07) = 7
    BY WordBounds DEF D0, D1, D2, D3
  <2>. QED  BY <2>1, Digits, NibbleMasks, AndDigits DEF Kept
<1>10. And(w, \hFC00) = Kept(D3(w), 4 * (D2(w) \div 4), 0, 0)
  <2>1. \hFC00 \in Words /\ D3(\hFC00) = 15 /\ D2(\hFC00) = 12 /\ D1(\hFC00) = 0 /\ D0(\hFC00) = 0
    BY WordBounds DEF D0, D1, D2, D3
  <2>. QED  BY <2>1, Digits, NibbleMasks, AndDigits DEF Kept
<1>11. And(w, \hF800) = Kept(D3(w), 8 * (D2(w) \div 8), 0, 0)
  <2>1. \hF800 \in Words /\ D3(\hF800) = 15 /\ D2(\hF800) = 8 /\ D1(\hF800) = 0 /\ D0(\hF800) = 0
    BY WordBounds DEF D0, D1, D2, D3
  <2>. QED  BY <2>1, Digits, NibbleMasks, AndDigits DEF Kept
<1>12. And(w, \hF000) = Kept(D3(w), 0, 0, 0)
  <2>1. \hF000 \in Words /\ D3(\hF000) = 15 /\ D2(\hF000) = 0 /\ D1(\hF000) = 0 /\ D0(\hF000) = 0
    BY WordBounds DEF D0, D1, D2, D3
  <2>. QED  BY <2>1, Digits, NibbleMasks, AndDigits DEF Kept
<1>13. And(w, \hD208) = Kept(4 * (D3(w) \div 4) + (D3(w) % 2), 2 * ((D2(w) \div 2) % 2), 0,
         8 * (D0(w) \div 8))
  <2>1. \hD208 \in Words /\ D3(\hD208) = 13 /\ D2(\hD208) = 2 /\ D1(\hD208) = 0 /\ D0(\hD208) = 8
    BY WordBounds DEF D0, D1, D2, D3
  <2>. QED  BY <2>1, Digits, NibbleMasks, AndDigits DEF Kept
<1>14. And(w, \hFEEF) = Kept(D3(w), 2 * (D2(w) \div 2), 2 * (D1(w) \div 2), D0(w))
  <2>1. \hFEEF \in Words /\ D3(\hFEEF) = 15 /\ D2(\hFEEF) = 14 /\ D1(\hFEEF) = 14 /\ D0(\hFEEF) = 15
    BY WordBounds DEF D0, D1, D2, D3
  <2>. QED  BY <2>1, Digits, NibbleMasks, AndDigits DEF Kept
<1>15. And(w, \hFE0C) = Kept(D3(w), 2 * (D2(w) \div 2), 0, 4 * (D0(w) \div 4))
  <2>1. \hFE0C \in Words /\ D3(\hFE0C) = 15 /\ D2(\hFE0C) = 14 /\ D1(\hFE0C) = 0 /\ D0(\hFE0C) = 12
    BY WordBounds DEF D0, D1, D2, D3
  <2>. QED  BY <2>1, Digits, NibbleMasks, AndDigits DEF Kept
<1>16. And(w, \hFC0F) = Kept(D3(w), 4 * (D2(w) \div 4), 0, D0(w))
  <2>1. \hFC0F \in Words /\ D3(\hFC0F) = 15 /\ D2(\hFC0F) = 12 /\ D1(\hFC0F) = 0 /\ D0(\hFC0F) = 15
    BY WordBounds DEF D0, D1, D2, D3
  <2>. QED  BY <2>1, Digits, NibbleMasks, AndDigits DEF Kept
<1>17. And(w, \hFE00) = Kept(D3(w), 2 * (D2(w) \div 2), 0, 0)
  <2>1. \hFE00 \in Words /\ D3(\hFE00) = 15 /\ D2(\hFE00) = 14 /\ D1(\hFE00) = 0 /\ D0(\hFE00) = 0
    BY WordBounds DEF D0, D1, D2, D3
  <2>. QED  BY <2>1, Digits, NibbleMasks, AndDigits DEF Kept
<1>18. And(w, \hE000) = Kept(2 * (D3(w) \div 2), 0, 0, 0)
  <2>1. \hE000 \in Words /\ D3(\hE000) = 14 /\ D2(\hE000) = 0 /\ D1(\hE000) = 0 /\ D0(\hE000) = 0
    BY WordBounds DEF D0, D1, D2, D3
  <2>. QED  BY <2>1, Digits, NibbleMasks, AndDigits DEF Kept
<1>19. And(w, \hD000) = Kept(4 * (D3(w) \div 4) + (D3(w) % 2), 0, 0, 0)
  <2>1. \hD000 \in Words /\ D3(\hD000) = 13 /\ D2(\hD000) = 0 /\ D1(\hD000) = 0 /\ D0(\hD000) = 0
    BY WordBounds DEF D0, D1, D2, D3
  <2>. QED  BY <2>1, Digits, NibbleMasks, AndDigits DEF Kept
<1>. QED  BY <1>1, <1>2, <1>3, <1>4, <1>5, <1>6, <1>7, <1>8, <1>9, <1>10, <1>11, <1>12, <1>13,
             <1>14, <1>15, <1>16, <1>17, <1>18, <1>19

----------------------------------------------------------------------------
(* A cascade of switches returns its first case.                          *)

\* A nonempty set of places in a table has a first one.
LEMMA Least ==
    ASSUME NEW S, S \subseteq 1 .. 23, S # {}
    PROVE  \E i \in S : \A j \in S : i <= j
<1>1. CASE \E i \in 1 .. 8 : i \in S
  BY <1>1
<1>2. CASE \A i \in 1 .. 8 : i \notin S
  <2>1. CASE \E i \in 9 .. 16 : i \in S
    BY <1>2, <2>1
  <2>2. CASE \A i \in 9 .. 16 : i \notin S
    <3>1. \E i \in 17 .. 23 : i \in S
      <4>1. PICK i \in 1 .. 23 : i \in S
        OBVIOUS
      <4>2. i \notin 1 .. 8 /\ i \notin 9 .. 16
        BY <1>2, <2>2, <4>1
      <4>. QED  BY <4>1, <4>2
    <3>. QED  BY <1>2, <2>2, <3>1
  <2>. QED  BY <2>1, <2>2
<1>. QED  BY <1>1, <1>2

Hits(switch, w) == \E n \in DOMAIN switch.cases : switch.cases[n] = And(w, switch.mask)
Finds(switch, w, n) ==
    /\ n \in DOMAIN switch.cases /\ switch.cases[n] = And(w, switch.mask)
    /\ n = CHOOSE m \in DOMAIN switch.cases : switch.cases[m] = And(w, switch.mask)

\* A look-up returns the case of the first switch that has one, or the default.
LEMMA FirstHit ==
    ASSUME NEW table, NEW N \in 1 .. 23, DOMAIN table = 1 .. N, NEW w, NEW default
    PROVE  \/ /\ \A i \in 1 .. N : ~Hits(table[i], w)
              /\ LookUp(table, w, default) = default
           \/ \E i \in 1 .. N :
                 /\ Finds(table[i], w, LookUp(table, w, default))
                 /\ \A j \in 1 .. N : j < i => ~Hits(table[j], w)
<1>0. 1 .. N \subseteq 1 .. 23
  OBVIOUS
<1> DEFINE hits == {i \in 1 .. N : Hits(table[i], w)}
           i0 == CHOOSE i \in hits : \A j \in hits : i <= j
<1>1. CASE hits = {}
  BY <1>1 DEF LookUp, Hits
<1>2. CASE hits # {}
  <2>1. i0 \in hits /\ \A j \in hits : i0 <= j
    <3>1. hits \subseteq 1 .. N
      OBVIOUS
    <3>. HIDE DEF hits
    <3>2. hits \subseteq 1 .. 23
      BY <1>0, <3>1
    <3>. QED  BY <1>2, <3>2, Least, Zenon
  <2>2. LookUp(table, w, default) = CHOOSE n \in DOMAIN table[i0].cases : table[i0].cases[n] =
          And(w, table[i0].mask)
    BY <1>2, Zenon DEF LookUp, Hits
  <2>3. i0 \in 1 .. N /\ Hits(table[i0], w) /\ \A j \in 1 .. N : j < i0 => ~Hits(table[j], w)
    BY <2>1
  <2>. HIDE DEF i0, hits
  <2>4. Finds(table[i0], w, LookUp(table, w, default))
    BY <2>2, <2>3 DEF Hits, Finds
  <2>. QED  BY <2>3, <2>4
<1>. QED  BY <1>1, <1>2

----------------------------------------------------------------------------
(* A chain of tests returns the format of the first that passes.          *)

Passes(chain, i, w) == And(w, chain[i].mask) \in chain[i].low .. chain[i].high

\* The tests of a chain, in their order.
LEMMA ChainTests ==
    ASSUME NEW last
    PROVE  /\ DOMAIN Chain(last) = 1 .. 23
           /\ Chain(last)[1] = Is(\hFF0F, \h9408, "Register_SC")
           /\ Chain(last)[2] = Is(\hFF0F, \h9508, "Misc")
           /\ Chain(last)[3] = Is(\hFF0F, \h940B, "DES_round_4")
           /\ Chain(last)[4] = Test(\hFF00, \h0100, \h0200, "Register_Pair_4bit")
           /\ Chain(last)[5] = Is(\hFF00, \h0300, "Register_Pair_3bit")
           /\ Chain(last)[6] = Test(\hFF00, 0, last, "Register_Pair_5bit")
           /\ Chain(last)[7] = Test(\hFF00, 0, \h7F00, "Register_Immediate")
           /\ Chain(last)[8] = Is(\hFEEF, \h9409, "Indirect_Jump")
           /\ Chain(last)[9] = Is(\hFE08, \h9400, "Register_Single")
           /\ Chain(last)[10] = Is(\hFE0F, \h940A, "DEC_Rd")
           /\ Chain(last)[11] = Is(\hFE0C, \h940C, "JMP_CALL_22")
           /\ Chain(last)[12] = Is(\hFE00, \h9600, "ADIW_SBIW_6")
           /\ Chain(last)[13] = Is(\hFC0F, \h9000, "LDS_STS")
           /\ Chain(last)[14] = Is(\hFC00, \h9000, "LDST")
           /\ Chain(last)[15] = Is(\hFC00, \h9800, "IO_Bit")
           /\ Chain(last)[16] = Is(\hFC00, \h9C00, "MUL")
           /\ Chain(last)[17] = Is(\hFC00, \hF800, "BLD_BST")
           /\ Chain(last)[18] = Is(\hFC00, \hFC00, "SBRC_SBRS")
           /\ Chain(last)[19] = Is(\hF800, \hF000, "Conditional_Branch")
           /\ Chain(last)[20] = Is(\hF000, \hE000, "LDI")
           /\ Chain(last)[21] = Is(\hF000, \hB000, "IO_In_Out")
           /\ Chain(last)[22] = Is(\hE000, \hC000, "Relative_Jump")
           /\ Chain(last)[23] = Is(\hD000, \h8000, "LDST_YZ_k")
  BY DEF Chain, LowTests, HighTests

LEMMA TestPasses ==
    ASSUME NEW chain, NEW i, NEW w, NEW mask, NEW low \in Int, NEW high \in Int, NEW format,
           chain[i] = Test(mask, low, high, format)
    PROVE  Passes(chain, i, w) <=> And(w, mask) \in low .. high
  BY DEF Passes, Test

\* A chain returns the format of the first test that passes.
LEMMA FirstPass ==
    ASSUME NEW chain, NEW N \in 1 .. 23, DOMAIN chain = 1 .. N, NEW w,
           NEW i \in 1 .. N, Passes(chain, i, w), \A j \in 1 .. N : j < i => ~Passes(chain, j, w)
    PROVE  FirstTest(chain, w) = chain[i].format
<1> DEFINE hit == {j \in DOMAIN chain : Passes(chain, j, w)}
<1>1. i \in hit /\ \A j \in hit : i <= j
  OBVIOUS
<1>2. (CHOOSE k \in hit : \A j \in hit : k <= j) = i
  <2>1. \A k \in hit : k \in 1 .. N /\ ((\A j \in hit : k <= j) => k = i)
    BY <1>1
  <2>. HIDE DEF hit
  <2>. QED  BY <1>1, <2>1
<1>3. FirstTest(chain, w) = chain[CHOOSE k \in hit : \A j \in hit : k <= j].format
  BY <1>1 DEF FirstTest, Passes
<1>. HIDE DEF hit
<1>. QED  BY <1>2, <1>3

\* The digits with which each test passes, for decoder and size table alike.
LEMMA Passing ==
    ASSUME NEW w \in Words, NEW last \in {\h2F00, \h4F00}
    PROVE  /\ Passes(Chain(last), 1, w) <=> (D3(w) = 9 /\ D2(w) = 4 /\ D0(w) = 8)
           /\ Passes(Chain(last), 2, w) <=> (D3(w) = 9 /\ D2(w) = 5 /\ D0(w) = 8)
           /\ Passes(Chain(last), 3, w) <=> (D3(w) = 9 /\ D2(w) = 4 /\ D0(w) = 11)
           /\ Passes(Chain(last), 4, w) <=> (D3(w) = 0 /\ D2(w) \in {1, 2})
           /\ Passes(Chain(last), 5, w) <=> (D3(w) = 0 /\ D2(w) = 3)
           /\ Passes(Chain(last), 6, w) <=> (D3(w) <= IF last = \h2F00 THEN 2 ELSE 4)
           /\ Passes(Chain(last), 7, w) <=> (D3(w) <= 7)
           /\ Passes(Chain(last), 8, w) <=> (D3(w) = 9 /\ D2(w) \in {4, 5} /\ D1(w) \in {0, 1} /\
                D0(w) = 9)
           /\ Passes(Chain(last), 9, w) <=> (D3(w) = 9 /\ D2(w) \in {4, 5} /\ D0(w) < 8)
           /\ Passes(Chain(last), 10, w) <=> (D3(w) = 9 /\ D2(w) \in {4, 5} /\ D0(w) = 10)
           /\ Passes(Chain(last), 11, w) <=> (D3(w) = 9 /\ D2(w) \in {4, 5} /\ D0(w) >= 12)
           /\ Passes(Chain(last), 12, w) <=> (D3(w) = 9 /\ D2(w) \in {6, 7})
           /\ Passes(Chain(last), 13, w) <=> (D3(w) = 9 /\ D2(w) <= 3 /\ D0(w) = 0)
           /\ Passes(Chain(last), 14, w) <=> (D3(w) = 9 /\ D2(w) <= 3)
           /\ Passes(Chain(last), 15, w) <=> (D3(w) = 9 /\ D2(w) \in 8 .. 11)
           /\ Passes(Chain(last), 16, w) <=> (D3(w) = 9 /\ D2(w) >= 12)
           /\ Passes(Chain(last), 17, w) <=> (D3(w) = 15 /\ D2(w) \in 8 .. 11)
           /\ Passes(Chain(last), 18, w) <=> (D3(w) = 15 /\ D2(w) >= 12)
           /\ Passes(Chain(last), 19, w) <=> (D3(w) = 15 /\ D2(w) < 8)
           /\ Passes(Chain(last), 20, w) <=> (D3(w) = 14)
           /\ Passes(Chain(last), 21, w) <=> (D3(w) = 11)
           /\ Passes(Chain(last), 22, w) <=> (D3(w) \in {12, 13})
           /\ Passes(Chain(last), 23, w) <=> (D3(w) \in {8, 10})
<1>0. D0(w) \in Nibble /\ D1(w) \in Nibble /\ D2(w) \in Nibble /\ D3(w) \in Nibble
  BY Digits
<1>1. Passes(Chain(last), 1, w) <=> (D3(w) = 9 /\ D2(w) = 4 /\ D0(w) = 8)
  <2>1. Chain(last)[1] = Test(\hFF0F, \h9408, \h9408, "Register_SC")
    BY ChainTests DEF Is
  <2>2. And(w, \hFF0F) = Kept(D3(w), D2(w), 0, D0(w))
    BY Masks
  <2>3. Passes(Chain(last), 1, w) <=> And(w, \hFF0F) \in Int /\ \h9408 <= And(w, \hFF0F) /\
          And(w, \hFF0F) <= \h9408
    BY <2>1, TestPasses
  <2>. QED  BY <1>0, <2>2, <2>3 DEF Kept, Nibble
<1>2. Passes(Chain(last), 2, w) <=> (D3(w) = 9 /\ D2(w) = 5 /\ D0(w) = 8)
  <2>1. Chain(last)[2] = Test(\hFF0F, \h9508, \h9508, "Misc")
    BY ChainTests DEF Is
  <2>2. And(w, \hFF0F) = Kept(D3(w), D2(w), 0, D0(w))
    BY Masks
  <2>3. Passes(Chain(last), 2, w) <=> And(w, \hFF0F) \in Int /\ \h9508 <= And(w, \hFF0F) /\
          And(w, \hFF0F) <= \h9508
    BY <2>1, TestPasses
  <2>. QED  BY <1>0, <2>2, <2>3 DEF Kept, Nibble
<1>3. Passes(Chain(last), 3, w) <=> (D3(w) = 9 /\ D2(w) = 4 /\ D0(w) = 11)
  <2>1. Chain(last)[3] = Test(\hFF0F, \h940B, \h940B, "DES_round_4")
    BY ChainTests DEF Is
  <2>2. And(w, \hFF0F) = Kept(D3(w), D2(w), 0, D0(w))
    BY Masks
  <2>3. Passes(Chain(last), 3, w) <=> And(w, \hFF0F) \in Int /\ \h940B <= And(w, \hFF0F) /\
          And(w, \hFF0F) <= \h940B
    BY <2>1, TestPasses
  <2>. QED  BY <1>0, <2>2, <2>3 DEF Kept, Nibble
<1>4. Passes(Chain(last), 4, w) <=> (D3(w) = 0 /\ D2(w) \in {1, 2})
  <2>1. Chain(last)[4] = Test(\hFF00, \h0100, \h0200, "Register_Pair_4bit")
    BY ChainTests DEF Is
  <2>2. And(w, \hFF00) = Kept(D3(w), D2(w), 0, 0)
    BY Masks
  <2>3. Passes(Chain(last), 4, w) <=> And(w, \hFF00) \in Int /\ \h0100 <= And(w, \hFF00) /\
          And(w, \hFF00) <= \h0200
    BY <2>1, TestPasses
  <2>. QED  BY <1>0, <2>2, <2>3 DEF Kept, Nibble
<1>5. Passes(Chain(last), 5, w) <=> (D3(w) = 0 /\ D2(w) = 3)
  <2>1. Chain(last)[5] = Test(\hFF00, \h0300, \h0300, "Register_Pair_3bit")
    BY ChainTests DEF Is
  <2>2. And(w, \hFF00) = Kept(D3(w), D2(w), 0, 0)
    BY Masks
  <2>3. Passes(Chain(last), 5, w) <=> And(w, \hFF00) \in Int /\ \h0300 <= And(w, \hFF00) /\
          And(w, \hFF00) <= \h0300
    BY <2>1, TestPasses
  <2>. QED  BY <1>0, <2>2, <2>3 DEF Kept, Nibble
<1>6. Passes(Chain(last), 6, w) <=> (D3(w) <= IF last = \h2F00 THEN 2 ELSE 4)
  <2>1. Chain(last)[6] = Test(\hFF00, 0, last, "Register_Pair_5bit")
    BY ChainTests DEF Is
  <2>2. And(w, \hFF00) = Kept(D3(w), D2(w), 0, 0)
    BY Masks
  <2>3. Passes(Chain(last), 6, w) <=> And(w, \hFF00) \in Int /\ 0 <= And(w, \hFF00) /\
          And(w, \hFF00) <= last
    BY <2>1, TestPasses
  <2>. QED  BY <1>0, <2>2, <2>3 DEF Kept, Nibble
<1>7. Passes(Chain(last), 7, w) <=> (D3(w) <= 7)
  <2>1. Chain(last)[7] = Test(\hFF00, 0, \h7F00, "Register_Immediate")
    BY ChainTests DEF Is
  <2>2. And(w, \hFF00) = Kept(D3(w), D2(w), 0, 0)
    BY Masks
  <2>3. Passes(Chain(last), 7, w) <=> And(w, \hFF00) \in Int /\ 0 <= And(w, \hFF00) /\
          And(w, \hFF00) <= \h7F00
    BY <2>1, TestPasses
  <2>. QED  BY <1>0, <2>2, <2>3 DEF Kept, Nibble
<1>8. Passes(Chain(last), 8, w) <=> (D3(w) = 9 /\ D2(w) \in {4, 5} /\ D1(w) \in {0, 1} /\ D0(w) = 9)
  <2>1. Chain(last)[8] = Test(\hFEEF, \h9409, \h9409, "Indirect_Jump")
    BY ChainTests DEF Is
  <2>2. And(w, \hFEEF) = Kept(D3(w), 2 * (D2(w) \div 2), 2 * (D1(w) \div 2), D0(w))
    BY Masks
  <2>3. Passes(Chain(last), 8, w) <=> And(w, \hFEEF) \in Int /\ \h9409 <= And(w, \hFEEF) /\
          And(w, \hFEEF) <= \h9409
    BY <2>1, TestPasses
  <2> DEFINE e2 == 2 * (D2(w) \div 2)
             e1 == 2 * (D1(w) \div 2)
  <2>4. e2 \in Nibble /\ e1 \in Nibble /\ 4 \in Nibble /\ 0 \in Nibble /\ 9 \in Nibble
    BY <1>0 DEF Nibble
  <2>5. (e2 = 4 <=> D2(w) \in {4, 5}) /\ (e1 = 0 <=> D1(w) \in {0, 1})
    BY <1>0 DEF Nibble
  <2>. HIDE DEF e2, e1
  <2>6. Kept(D3(w), e2, e1, D0(w)) = \h9409 <=> D3(w) = 9 /\ e2 = 4 /\ e1 = 0 /\ D0(w) = 9
    <3>1. Kept(9, 4, 0, 9) = \h9409
      BY DEF Kept
    <3>. QED  BY <1>0, <2>4, <3>1, DigitsOfKept
  <2>7. And(w, \hFEEF) = Kept(D3(w), e2, e1, D0(w)) /\ Kept(D3(w), e2, e1, D0(w)) \in Int
    <3>1. And(w, \hFEEF) = Kept(D3(w), e2, e1, D0(w))
      BY <2>2 DEF e2, e1
    <3>2. \A x \in Nibble : x \in Int
      BY DEF Nibble
    <3>3. Kept(D3(w), e2, e1, D0(w)) \in Int
      BY <1>0, <2>4, <3>2 DEF Kept
    <3>. QED  BY <3>1, <3>3
  <2>8. \A x \in Int : \h9409 <= x /\ x <= \h9409 <=> x = \h9409
    OBVIOUS
  <2>. QED  BY <2>3, <2>5, <2>6, <2>7, <2>8
<1>9. Passes(Chain(last), 9, w) <=> (D3(w) = 9 /\ D2(w) \in {4, 5} /\ D0(w) < 8)
  <2>1. Chain(last)[9] = Test(\hFE08, \h9400, \h9400, "Register_Single")
    BY ChainTests DEF Is
  <2>2. And(w, \hFE08) = Kept(D3(w), 2 * (D2(w) \div 2), 0, 8 * (D0(w) \div 8))
    BY Masks
  <2>3. Passes(Chain(last), 9, w) <=> And(w, \hFE08) \in Int /\ \h9400 <= And(w, \hFE08) /\
          And(w, \hFE08) <= \h9400
    BY <2>1, TestPasses
  <2>. QED  BY <1>0, <2>2, <2>3 DEF Kept, Nibble
<1>10. Passes(Chain(last), 10, w) <=> (D3(w) = 9 /\ D2(w) \in {4, 5} /\ D0(w) = 10)
  <2>1. Chain(last)[10] = Test(\hFE0F, \h940A, \h940A, "DEC_Rd")
    BY ChainTests DEF Is
  <2>2. And(w, \hFE0F) = Kept(D3(w), 2 * (D2(w) \div 2), 0, D0(w))
    BY Masks
  <2>3. Passes(Chain(last), 10, w) <=> And(w, \hFE0F) \in Int /\ \h940A <= And(w, \hFE0F) /\
          And(w, \hFE0F) <= \h940A
    BY <2>1, TestPasses
  <2>. QED  BY <1>0, <2>2, <2>3 DEF Kept, Nibble
<1>11. Passes(Chain(last), 11, w) <=> (D3(w) = 9 /\ D2(w) \in {4, 5} /\ D0(w) >= 12)
  <2>1. Chain(last)[11] = Test(\hFE0C, \h940C, \h940C, "JMP_CALL_22")
    BY ChainTests DEF Is
  <2>2. And(w, \hFE0C) = Kept(D3(w), 2 * (D2(w) \div 2), 0, 4 * (D0(w) \div 4))
    BY Masks
  <2>3. Passes(Chain(last), 11, w) <=> And(w, \hFE0C) \in Int /\ \h940C <= And(w, \hFE0C) /\
          And(w, \hFE0C) <= \h940C
    BY <2>1, TestPasses
  <2>. QED  BY <1>0, <2>2, <2>3 DEF Kept, Nibble
<1>12. Passes(Chain(last), 12, w) <=> (D3(w) = 9 /\ D2(w) \in {6, 7})
  <2>1. Chain(last)[12] = Test(\hFE00, \h9600, \h9600, "ADIW_SBIW_6")
    BY ChainTests DEF Is
  <2>2. And(w, \hFE00) = Kept(D3(w), 2 * (D2(w) \div 2), 0, 0)
    BY Masks
  <2>3. Passes(Chain(last), 12, w) <=> And(w, \hFE00) \in Int /\ \h9600 <= And(w, \hFE00) /\
          And(w, \hFE00) <= \h9600
    BY <2>1, TestPasses
  <2>. QED  BY <1>0, <2>2, <2>3 DEF Kept, Nibble
<1>13. Passes(Chain(last), 13, w) <=> (D3(w) = 9 /\ D2(w) <= 3 /\ D0(w) = 0)
  <2>1. Chain(last)[13] = Test(\hFC0F, \h9000, \h9000, "LDS_STS")
    BY ChainTests DEF Is
  <2>2. And(w, \hFC0F) = Kept(D3(w), 4 * (D2(w) \div 4), 0, D0(w))
    BY Masks
  <2>3. Passes(Chain(last), 13, w) <=> And(w, \hFC0F) \in Int /\ \h9000 <= And(w, \hFC0F) /\
          And(w, \hFC0F) <= \h9000
    BY <2>1, TestPasses
  <2>. QED  BY <1>0, <2>2, <2>3 DEF Kept, Nibble
<1>14. Passes(Chain(last), 14, w) <=> (D3(w) = 9 /\ D2(w) <= 3)
  <2>1. Chain(last)[14] = Test(\hFC00, \h9000, \h9000, "LDST")
    BY ChainTests DEF Is
  <2>2. And(w, \hFC00) = Kept(D3(w), 4 * (D2(w) \div 4), 0, 0)
    BY Masks
  <2>3. Passes(Chain(last), 14, w) <=> And(w, \hFC00) \in Int /\ \h9000 <= And(w, \hFC00) /\
          And(w, \hFC00) <= \h9000
    BY <2>1, TestPasses
  <2>. QED  BY <1>0, <2>2, <2>3 DEF Kept, Nibble
<1>15. Passes(Chain(last), 15, w) <=> (D3(w) = 9 /\ D2(w) \in 8 .. 11)
  <2>1. Chain(last)[15] = Test(\hFC00, \h9800, \h9800, "IO_Bit")
    BY ChainTests DEF Is
  <2>2. And(w, \hFC00) = Kept(D3(w), 4 * (D2(w) \div 4), 0, 0)
    BY Masks
  <2>3. Passes(Chain(last), 15, w) <=> And(w, \hFC00) \in Int /\ \h9800 <= And(w, \hFC00) /\
          And(w, \hFC00) <= \h9800
    BY <2>1, TestPasses
  <2>. QED  BY <1>0, <2>2, <2>3 DEF Kept, Nibble
<1>16. Passes(Chain(last), 16, w) <=> (D3(w) = 9 /\ D2(w) >= 12)
  <2>1. Chain(last)[16] = Test(\hFC00, \h9C00, \h9C00, "MUL")
    BY ChainTests DEF Is
  <2>2. And(w, \hFC00) = Kept(D3(w), 4 * (D2(w) \div 4), 0, 0)
    BY Masks
  <2>3. Passes(Chain(last), 16, w) <=> And(w, \hFC00) \in Int /\ \h9C00 <= And(w, \hFC00) /\
          And(w, \hFC00) <= \h9C00
    BY <2>1, TestPasses
  <2>. QED  BY <1>0, <2>2, <2>3 DEF Kept, Nibble
<1>17. Passes(Chain(last), 17, w) <=> (D3(w) = 15 /\ D2(w) \in 8 .. 11)
  <2>1. Chain(last)[17] = Test(\hFC00, \hF800, \hF800, "BLD_BST")
    BY ChainTests DEF Is
  <2>2. And(w, \hFC00) = Kept(D3(w), 4 * (D2(w) \div 4), 0, 0)
    BY Masks
  <2>3. Passes(Chain(last), 17, w) <=> And(w, \hFC00) \in Int /\ \hF800 <= And(w, \hFC00) /\
          And(w, \hFC00) <= \hF800
    BY <2>1, TestPasses
  <2>. QED  BY <1>0, <2>2, <2>3 DEF Kept, Nibble
<1>18. Passes(Chain(last), 18, w) <=> (D3(w) = 15 /\ D2(w) >= 12)
  <2>1. Chain(last)[18] = Test(\hFC00, \hFC00, \hFC00, "SBRC_SBRS")
    BY ChainTests DEF Is
  <2>2. And(w, \hFC00) = Kept(D3(w), 4 * (D2(w) \div 4), 0, 0)
    BY Masks
  <2>3. Passes(Chain(last), 18, w) <=> And(w, \hFC00) \in Int /\ \hFC00 <= And(w, \hFC00) /\
          And(w, \hFC00) <= \hFC00
    BY <2>1, TestPasses
  <2>. QED  BY <1>0, <2>2, <2>3 DEF Kept, Nibble
<1>19. Passes(Chain(last), 19, w) <=> (D3(w) = 15 /\ D2(w) < 8)
  <2>1. Chain(last)[19] = Test(\hF800, \hF000, \hF000, "Conditional_Branch")
    BY ChainTests DEF Is
  <2>2. And(w, \hF800) = Kept(D3(w), 8 * (D2(w) \div 8), 0, 0)
    BY Masks
  <2>3. Passes(Chain(last), 19, w) <=> And(w, \hF800) \in Int /\ \hF000 <= And(w, \hF800) /\
          And(w, \hF800) <= \hF000
    BY <2>1, TestPasses
  <2>. QED  BY <1>0, <2>2, <2>3 DEF Kept, Nibble
<1>20. Passes(Chain(last), 20, w) <=> (D3(w) = 14)
  <2>1. Chain(last)[20] = Test(\hF000, \hE000, \hE000, "LDI")
    BY ChainTests DEF Is
  <2>2. And(w, \hF000) = Kept(D3(w), 0, 0, 0)
    BY Masks
  <2>3. Passes(Chain(last), 20, w) <=> And(w, \hF000) \in Int /\ \hE000 <= And(w, \hF000) /\
          And(w, \hF000) <= \hE000
    BY <2>1, TestPasses
  <2>. QED  BY <1>0, <2>2, <2>3 DEF Kept, Nibble
<1>21. Passes(Chain(last), 21, w) <=> (D3(w) = 11)
  <2>1. Chain(last)[21] = Test(\hF000, \hB000, \hB000, "IO_In_Out")
    BY ChainTests DEF Is
  <2>2. And(w, \hF000) = Kept(D3(w), 0, 0, 0)
    BY Masks
  <2>3. Passes(Chain(last), 21, w) <=> And(w, \hF000) \in Int /\ \hB000 <= And(w, \hF000) /\
          And(w, \hF000) <= \hB000
    BY <2>1, TestPasses
  <2>. QED  BY <1>0, <2>2, <2>3 DEF Kept, Nibble
<1>22. Passes(Chain(last), 22, w) <=> (D3(w) \in {12, 13})
  <2>1. Chain(last)[22] = Test(\hE000, \hC000, \hC000, "Relative_Jump")
    BY ChainTests DEF Is
  <2>2. And(w, \hE000) = Kept(2 * (D3(w) \div 2), 0, 0, 0)
    BY Masks
  <2>3. Passes(Chain(last), 22, w) <=> And(w, \hE000) \in Int /\ \hC000 <= And(w, \hE000) /\
          And(w, \hE000) <= \hC000
    BY <2>1, TestPasses
  <2>. QED  BY <1>0, <2>2, <2>3 DEF Kept, Nibble
<1>23. Passes(Chain(last), 23, w) <=> (D3(w) \in {8, 10})
  <2>1. Chain(last)[23] = Test(\hD000, \h8000, \h8000, "LDST_YZ_k")
    BY ChainTests DEF Is
  <2>2. And(w, \hD000) = Kept(4 * (D3(w) \div 4) + (D3(w) % 2), 0, 0, 0)
    BY Masks
  <2>3. Passes(Chain(last), 23, w) <=> And(w, \hD000) \in Int /\ \h8000 <= And(w, \hD000) /\
          And(w, \hD000) <= \h8000
    BY <2>1, TestPasses
  <2>. QED  BY <1>0, <2>2, <2>3 DEF Kept, Nibble
<1>. QED  BY <1>1, <1>2, <1>3, <1>4, <1>5, <1>6, <1>7, <1>8, <1>9, <1>10, <1>11, <1>12, <1>13,
             <1>14, <1>15, <1>16, <1>17, <1>18, <1>19, <1>20, <1>21, <1>22, <1>23

\* A chain is a nested conditional.
LEMMA Unrolled ==
    ASSUME NEW chain, DOMAIN chain = 1 .. 23, NEW w
    PROVE  FirstTest(chain, w) =
             IF Passes(chain, 1, w) THEN chain[1].format
             ELSE IF Passes(chain, 2, w) THEN chain[2].format
             ELSE IF Passes(chain, 3, w) THEN chain[3].format
             ELSE IF Passes(chain, 4, w) THEN chain[4].format
             ELSE IF Passes(chain, 5, w) THEN chain[5].format
             ELSE IF Passes(chain, 6, w) THEN chain[6].format
             ELSE IF Passes(chain, 7, w) THEN chain[7].format
             ELSE IF Passes(chain, 8, w) THEN chain[8].format
             ELSE IF Passes(chain, 9, w) THEN chain[9].format
             ELSE IF Passes(chain, 10, w) THEN chain[10].format
             ELSE IF Passes(chain, 11, w) THEN chain[11].format
             ELSE IF Passes(chain, 12, w) THEN chain[12].format
             ELSE IF Passes(chain, 13, w) THEN chain[13].format
             ELSE IF Passes(chain, 14, w) THEN chain[14].format
             ELSE IF Passes(chain, 15, w) THEN chain[15].format
             ELSE IF Passes(chain, 16, w) THEN chain[16].format
             ELSE IF Passes(chain, 17, w) THEN chain[17].format
             ELSE IF Passes(chain, 18, w) THEN chain[18].format
             ELSE IF Passes(chain, 19, w) THEN chain[19].format
             ELSE IF Passes(chain, 20, w) THEN chain[20].format
             ELSE IF Passes(chain, 21, w) THEN chain[21].format
             ELSE IF Passes(chain, 22, w) THEN chain[22].format
             ELSE IF Passes(chain, 23, w) THEN chain[23].format
             ELSE "NOP"
<1> DEFINE NoneBefore(k) == \A j \in 1 .. 23 : j < k => ~Passes(chain, j, w)
           Decides(k, next) == NoneBefore(k) =>
               IF Passes(chain, k, w) THEN FirstTest(chain, w) = chain[k].format
               ELSE NoneBefore(next)
<1>1. ASSUME NEW k \in 1 .. 23 PROVE Decides(k, k + 1)
  <2>1. ASSUME NoneBefore(k), Passes(chain, k, w) PROVE FirstTest(chain, w) = chain[k].format
    BY <2>1, FirstPass
  <2>2. ASSUME NoneBefore(k), ~Passes(chain, k, w) PROVE NoneBefore(k + 1)
    BY <2>2
  <2>. QED  BY <2>1, <2>2
<1>2. NoneBefore(1)
  OBVIOUS
<1>3. ASSUME NoneBefore(24) PROVE FirstTest(chain, w) = "NOP"
  <2>1. \A j \in 1 .. 23 : ~Passes(chain, j, w)
    BY <1>3
  <2>. QED  BY <2>1, Zenon DEF FirstTest, Passes
<1>4. \A k \in 1 .. 23 : \A next : next = k + 1 => Decides(k, next)
  <2>. HIDE DEF Decides
  <2>. QED  BY <1>1
<1>5. /\ Decides(1, 2)
      /\ Decides(2, 3)
      /\ Decides(3, 4)
      /\ Decides(4, 5)
      /\ Decides(5, 6)
      /\ Decides(6, 7)
      /\ Decides(7, 8)
      /\ Decides(8, 9)
  <2>. HIDE DEF Decides
  <2>. QED  BY <1>4
<1>6. /\ Decides(9, 10)
      /\ Decides(10, 11)
      /\ Decides(11, 12)
      /\ Decides(12, 13)
      /\ Decides(13, 14)
      /\ Decides(14, 15)
      /\ Decides(15, 16)
      /\ Decides(16, 17)
  <2>. HIDE DEF Decides
  <2>. QED  BY <1>4
<1>7. /\ Decides(17, 18)
      /\ Decides(18, 19)
      /\ Decides(19, 20)
      /\ Decides(20, 21)
      /\ Decides(21, 22)
      /\ Decides(22, 23)
      /\ Decides(23, 24)
  <2>. HIDE DEF Decides
  <2>. QED  BY <1>4
<1> HIDE DEF NoneBefore
<1>. QED  BY <1>2, <1>3, <1>5, <1>6, <1>7

FormatByDigits(w, last) ==
    IF D3(w) = 9 /\ D2(w) = 4 /\ D0(w) = 8 THEN "Register_SC"
    ELSE IF D3(w) = 9 /\ D2(w) = 5 /\ D0(w) = 8 THEN "Misc"
    ELSE IF D3(w) = 9 /\ D2(w) = 4 /\ D0(w) = 11 THEN "DES_round_4"
    ELSE IF D3(w) = 0 /\ D2(w) \in {1, 2} THEN "Register_Pair_4bit"
    ELSE IF D3(w) = 0 /\ D2(w) = 3 THEN "Register_Pair_3bit"
    ELSE IF D3(w) <= IF last = \h2F00 THEN 2 ELSE 4 THEN "Register_Pair_5bit"
    ELSE IF D3(w) <= 7 THEN "Register_Immediate"
    ELSE IF D3(w) = 9 /\ D2(w) \in {4, 5} /\ D1(w) \in {0, 1} /\ D0(w) = 9 THEN "Indirect_Jump"
    ELSE IF D3(w) = 9 /\ D2(w) \in {4, 5} /\ D0(w) < 8 THEN "Register_Single"
    ELSE IF D3(w) = 9 /\ D2(w) \in {4, 5} /\ D0(w) = 10 THEN "DEC_Rd"
    ELSE IF D3(w) = 9 /\ D2(w) \in {4, 5} /\ D0(w) >= 12 THEN "JMP_CALL_22"
    ELSE IF D3(w) = 9 /\ D2(w) \in {6, 7} THEN "ADIW_SBIW_6"
    ELSE IF D3(w) = 9 /\ D2(w) <= 3 /\ D0(w) = 0 THEN "LDS_STS"
    ELSE IF D3(w) = 9 /\ D2(w) <= 3 THEN "LDST"
    ELSE IF D3(w) = 9 /\ D2(w) \in 8 .. 11 THEN "IO_Bit"
    ELSE IF D3(w) = 9 /\ D2(w) >= 12 THEN "MUL"
    ELSE IF D3(w) = 15 /\ D2(w) \in 8 .. 11 THEN "BLD_BST"
    ELSE IF D3(w) = 15 /\ D2(w) >= 12 THEN "SBRC_SBRS"
    ELSE IF D3(w) = 15 /\ D2(w) < 8 THEN "Conditional_Branch"
    ELSE IF D3(w) = 14 THEN "LDI"
    ELSE IF D3(w) = 11 THEN "IO_In_Out"
    ELSE IF D3(w) \in {12, 13} THEN "Relative_Jump"
    ELSE IF D3(w) \in {8, 10} THEN "LDST_YZ_k"
    ELSE "NOP"

\* Both chains of tests, as conditions on digits.
LEMMA FormatOf ==
    ASSUME NEW w \in Words, NEW last \in {\h2F00, \h4F00}
    PROVE  FirstTest(Chain(last), w) = FormatByDigits(w, last)
<1>1. DOMAIN Chain(last) = 1 .. 23
  BY ChainTests
<1>2. Chain(last)[1].format = "Register_SC"
  <2>1. Chain(last)[1] = Is(\hFF0F, \h9408, "Register_SC")
    BY ChainTests
  <2>. QED  BY <2>1 DEF Is, Test
<1>3. Chain(last)[2].format = "Misc"
  <2>1. Chain(last)[2] = Is(\hFF0F, \h9508, "Misc")
    BY ChainTests
  <2>. QED  BY <2>1 DEF Is, Test
<1>4. Chain(last)[3].format = "DES_round_4"
  <2>1. Chain(last)[3] = Is(\hFF0F, \h940B, "DES_round_4")
    BY ChainTests
  <2>. QED  BY <2>1 DEF Is, Test
<1>5. Chain(last)[4].format = "Register_Pair_4bit"
  <2>1. Chain(last)[4] = Test(\hFF00, \h0100, \h0200, "Register_Pair_4bit")
    BY ChainTests
  <2>. QED  BY <2>1 DEF Is, Test
<1>6. Chain(last)[5].format = "Register_Pair_3bit"
  <2>1. Chain(last)[5] = Is(\hFF00, \h0300, "Register_Pair_3bit")
    BY ChainTests
  <2>. QED  BY <2>1 DEF Is, Test
<1>7. Chain(last)[6].format = "Register_Pair_5bit"
  <2>1. Chain(last)[6] = Test(\hFF00, 0, last, "Register_Pair_5bit")
    BY ChainTests
  <2>. QED  BY <2>1 DEF Is, Test
<1>8. Chain(last)[7].format = "Register_Immediate"
  <2>1. Chain(last)[7] = Test(\hFF00, 0, \h7F00, "Register_Immediate")
    BY ChainTests
  <2>. QED  BY <2>1 DEF Is, Test
<1>9. Chain(last)[8].format = "Indirect_Jump"
  <2>1. Chain(last)[8] = Is(\hFEEF, \h9409, "Indirect_Jump")
    BY ChainTests
  <2>. QED  BY <2>1 DEF Is, Test
<1>10. Chain(last)[9].format = "Register_Single"
  <2>1. Chain(last)[9] = Is(\hFE08, \h9400, "Register_Single")
    BY ChainTests
  <2>. QED  BY <2>1 DEF Is, Test
<1>11. Chain(last)[10].format = "DEC_Rd"
  <2>1. Chain(last)[10] = Is(\hFE0F, \h940A, "DEC_Rd")
    BY ChainTests
  <2>. QED  BY <2>1 DEF Is, Test
<1>12. Chain(last)[11].format = "JMP_CALL_22"
  <2>1. Chain(last)[11] = Is(\hFE0C, \h940C, "JMP_CALL_22")
    BY ChainTests
  <2>. QED  BY <2>1 DEF Is, Test
<1>13. Chain(last)[12].format = "ADIW_SBIW_6"
  <2>1. Chain(last)[12] = Is(\hFE00, \h9600, "ADIW_SBIW_6")
    BY ChainTests
  <2>. QED  BY <2>1 DEF Is, Test
<1>14. Chain(last)[13].format = "LDS_STS"
  <2>1. Chain(last)[13] = Is(\hFC0F, \h9000, "LDS_STS")
    BY ChainTests
  <2>. QED  BY <2>1 DEF Is, Test
<1>15. Chain(last)[14].format = "LDST"
  <2>1. Chain(last)[14] = Is(\hFC00, \h9000, "LDST")
    BY ChainTests
  <2>. QED  BY <2>1 DEF Is, Test
<1>16. Chain(last)[15].format = "IO_Bit"
  <2>1. Chain(last)[15] = Is(\hFC00, \h9800, "IO_Bit")
    BY ChainTests
  <2>. QED  BY <2>1 DEF Is, Test
<1>17. Chain(last)[16].format = "MUL"
  <2>1. Chain(last)[16] = Is(\hFC00, \h9C00, "MUL")
    BY ChainTests
  <2>. QED  BY <2>1 DEF Is, Test
<1>18. Chain(last)[17].format = "BLD_BST"
  <2>1. Chain(last)[17] = Is(\hFC00, \hF800, "BLD_BST")
    BY ChainTests
  <2>. QED  BY <2>1 DEF Is, Test
<1>19. Chain(last)[18].format = "SBRC_SBRS"
  <2>1. Chain(last)[18] = Is(\hFC00, \hFC00, "SBRC_SBRS")
    BY ChainTests
  <2>. QED  BY <2>1 DEF Is, Test
<1>20. Chain(last)[19].format = "Conditional_Branch"
  <2>1. Chain(last)[19] = Is(\hF800, \hF000, "Conditional_Branch")
    BY ChainTests
  <2>. QED  BY <2>1 DEF Is, Test
<1>21. Chain(last)[20].format = "LDI"
  <2>1. Chain(last)[20] = Is(\hF000, \hE000, "LDI")
    BY ChainTests
  <2>. QED  BY <2>1 DEF Is, Test
<1>22. Chain(last)[21].format = "IO_In_Out"
  <2>1. Chain(last)[21] = Is(\hF000, \hB000, "IO_In_Out")
    BY ChainTests
  <2>. QED  BY <2>1 DEF Is, Test
<1>23. Chain(last)[22].format = "Relative_Jump"
  <2>1. Chain(last)[22] = Is(\hE000, \hC000, "Relative_Jump")
    BY ChainTests
  <2>. QED  BY <2>1 DEF Is, Test
<1>24. Chain(last)[23].format = "LDST_YZ_k"
  <2>1. Chain(last)[23] = Is(\hD000, \h8000, "LDST_YZ_k")
    BY ChainTests
  <2>. QED  BY <2>1 DEF Is, Test
<1>25. FirstTest(Chain(last), w) =
             IF Passes(Chain(last), 1, w) THEN "Register_SC"
             ELSE IF Passes(Chain(last), 2, w) THEN "Misc"
             ELSE IF Passes(Chain(last), 3, w) THEN "DES_round_4"
             ELSE IF Passes(Chain(last), 4, w) THEN "Register_Pair_4bit"
             ELSE IF Passes(Chain(last), 5, w) THEN "Register_Pair_3bit"
             ELSE IF Passes(Chain(last), 6, w) THEN "Register_Pair_5bit"
             ELSE IF Passes(Chain(last), 7, w) THEN "Register_Immediate"
             ELSE IF Passes(Chain(last), 8, w) THEN "Indirect_Jump"
             ELSE IF Passes(Chain(last), 9, w) THEN "Register_Single"
             ELSE IF Passes(Chain(last), 10, w) THEN "DEC_Rd"
             ELSE IF Passes(Chain(last), 11, w) THEN "JMP_CALL_22"
             ELSE IF Passes(Chain(last), 12, w) THEN "ADIW_SBIW_6"
             ELSE IF Passes(Chain(last), 13, w) THEN "LDS_STS"
             ELSE IF Passes(Chain(last), 14, w) THEN "LDST"
             ELSE IF Passes(Chain(last), 15, w) THEN "IO_Bit"
             ELSE IF Passes(Chain(last), 16, w) THEN "MUL"
             ELSE IF Passes(Chain(last), 17, w) THEN "BLD_BST"
             ELSE IF Passes(Chain(last), 18, w) THEN "SBRC_SBRS"
             ELSE IF Passes(Chain(last), 19, w) THEN "Conditional_Branch"
             ELSE IF Passes(Chain(last), 20, w) THEN "LDI"
             ELSE IF Passes(Chain(last), 21, w) THEN "IO_In_Out"
             ELSE IF Passes(Chain(last), 22, w) THEN "Relative_Jump"
             ELSE IF Passes(Chain(last), 23, w) THEN "LDST_YZ_k"
             ELSE "NOP"
  BY <1>1, <1>2, <1>3, <1>4, <1>5, <1>6, <1>7, <1>8, <1>9, <1>10, <1>11, <1>12, <1>13, <1>14,
     <1>15, <1>16, <1>17, <1>18, <1>19, <1>20, <1>21, <1>22, <1>23, <1>24, Unrolled
<1>. QED  BY <1>25, Passing DEF FormatByDigits

----------------------------------------------------------------------------
(* The cases of the switches, by the digits they match.                   *)

\* The digits of the words that each switch has a case for.
LEMMA Switch2 ==
    ASSUME NEW w \in Words, NEW n, Finds(FunctionSwitches[2], w, n)
    PROVE  n \in {"BSET", "BCLR"} /\ D3(w) = 9 /\ D2(w) = 4 /\ D0(w) = 8
<1>1. D0(w) \in Nibble /\ D1(w) \in Nibble /\ D2(w) \in Nibble /\ D3(w) \in Nibble
  BY Digits
<1>2. And(w, \hFF8F) = Kept(D3(w), D2(w), 8 * (D1(w) \div 8), D0(w))
  BY Masks
<1>3. n \in {"BSET", "BCLR"} /\ And(w, \hFF8F) \in {\h9408, \h9488}
  BY DEF Finds, FunctionSwitches, Switch
<1>4. And(w, \hFF8F) \in {\h9408, \h9488} => D3(w) = 9 /\ D2(w) = 4 /\ D0(w) = 8
  <2> DEFINE e == 8 * (D1(w) \div 8)
  <2>1. e \in Nibble /\ And(w, \hFF8F) = Kept(D3(w), D2(w), e, D0(w))
    BY <1>1, <1>2 DEF Nibble
  <2>. HIDE DEF e
  <2>2. Kept(9, 4, 0, 8) = \h9408 /\ Kept(9, 4, 8, 8) = \h9488
    BY DEF Kept
  <2>3. 9 \in Nibble /\ 4 \in Nibble /\ 0 \in Nibble /\ 8 \in Nibble
    BY DEF Nibble
  <2>. QED  BY <1>1, <2>1, <2>2, <2>3, DigitsOfKept
<1>. QED  BY <1>3, <1>4

LEMMA Switch3 ==
    ASSUME NEW w \in Words, NEW n, Finds(FunctionSwitches[3], w, n)
    PROVE  n \in {"MULSU", "FMUL", "FMULS", "FMULSU"} /\ D3(w) = 0 /\ D2(w) = 3
<1>1. D0(w) \in Nibble /\ D1(w) \in Nibble /\ D2(w) \in Nibble /\ D3(w) \in Nibble
  BY Digits
<1>2. And(w, \hFF88) = Kept(D3(w), D2(w), 8 * (D1(w) \div 8), 8 * (D0(w) \div 8))
  BY Masks
<1>3. n \in {"MULSU", "FMUL", "FMULS", "FMULSU"} /\
        And(w, \hFF88) \in {\h0300, \h0308, \h0380, \h0388}
  BY DEF Finds, FunctionSwitches, Switch
<1>4. And(w, \hFF88) \in {\h0300, \h0308, \h0380, \h0388} => D3(w) = 0 /\ D2(w) = 3
  <2> DEFINE e == 8 * (D1(w) \div 8)
             f == 8 * (D0(w) \div 8)
  <2>1. e \in {0, 8} /\ f \in {0, 8} /\ And(w, \hFF88) = Kept(D3(w), D2(w), e, f)
    BY <1>1, <1>2 DEF Nibble
  <2>. HIDE DEF e, f
  <2>. QED  BY <1>1, <2>1 DEF Kept, Nibble
<1>. QED  BY <1>3, <1>4

LEMMA Switch4 ==
    ASSUME NEW w \in Words, NEW n, Finds(FunctionSwitches[4], w, n)
    PROVE  \/ n \in {"DES"} /\ D3(w) = 9 /\ D2(w) = 4 /\ D0(w) = 11
           \/ n \in {"SER"} /\ D3(w) = 14 /\ D2(w) = 15 /\ D0(w) = 15
<1>1. D0(w) \in Nibble /\ D1(w) \in Nibble /\ D2(w) \in Nibble /\ D3(w) \in Nibble
  BY Digits
<1>2. And(w, \hFF0F) = Kept(D3(w), D2(w), 0, D0(w))
  BY Masks
<1>3. \/ n \in {"DES"} /\ And(w, \hFF0F) \in {\h940B}
      \/ n \in {"SER"} /\ And(w, \hFF0F) \in {\hEF0F}
  BY DEF Finds, FunctionSwitches, Switch
<1>4. And(w, \hFF0F) \in {\h940B} => D3(w) = 9 /\ D2(w) = 4 /\ D0(w) = 11
  BY <1>1, <1>2 DEF Kept, Nibble
<1>5. And(w, \hFF0F) \in {\hEF0F} => D3(w) = 14 /\ D2(w) = 15 /\ D0(w) = 15
  BY <1>1, <1>2 DEF Kept, Nibble
<1>. QED  BY <1>3, <1>4, <1>5

LEMMA Switch5 ==
    ASSUME NEW w \in Words, NEW n, Finds(FunctionSwitches[5], w, n)
    PROVE  \/ n \in {"MOVW"} /\ D3(w) = 0 /\ D2(w) = 1
           \/ n \in {"ADIW", "SBIW"} /\ D3(w) = 9 /\ D2(w) \in {6, 7}
           \/ n \in {"CBI", "SBIC", "SBI", "SBIS"} /\ D3(w) = 9 /\ D2(w) \in 8 .. 11
<1>1. D0(w) \in Nibble /\ D1(w) \in Nibble /\ D2(w) \in Nibble /\ D3(w) \in Nibble
  BY Digits
<1>2. And(w, \hFF00) = Kept(D3(w), D2(w), 0, 0)
  BY Masks
<1>3. \/ n \in {"MOVW"} /\ And(w, \hFF00) \in {\h0100}
      \/ n \in {"ADIW", "SBIW"} /\ And(w, \hFF00) \in {\h9600, \h9700}
      \/ n \in {"CBI", "SBIC", "SBI", "SBIS"} /\ And(w, \hFF00) \in {\h9800, \h9900, \h9A00, \h9B00}
  BY DEF Finds, FunctionSwitches, Switch
<1>4. And(w, \hFF00) \in {\h0100} => D3(w) = 0 /\ D2(w) = 1
  BY <1>1, <1>2 DEF Kept, Nibble
<1>5. And(w, \hFF00) \in {\h9600, \h9700} => D3(w) = 9 /\ D2(w) \in {6, 7}
  BY <1>1, <1>2 DEF Kept, Nibble
<1>6. And(w, \hFF00) \in {\h9800, \h9900, \h9A00, \h9B00} => D3(w) = 9 /\ D2(w) \in 8 .. 11
  BY <1>1, <1>2 DEF Kept, Nibble
<1>. QED  BY <1>3, <1>4, <1>5, <1>6

LEMMA Switch6 ==
    ASSUME NEW w \in Words, NEW n, Finds(FunctionSwitches[6], w, n)
    PROVE  \/ n \in {"LD_Y_Indirect", "LD_Z_Indirect", "ST_Z_Indirect", "ST_Y_Indirect"} /\
                D3(w) = 8
           \/ n \in {"LDS", "STS"} /\ D3(w) = 9 /\ D2(w) <= 3 /\ D0(w) = 0
           \/ n \in {"LD_Z_Indirect_Postinc", "LD_Z_Indirect_Predec", "LPM_Z",
                    "LPM_Z_Postinc", "ELPM_Z", "ELPM_Z_Postinc", "LD_Y_Indirect_Postinc",
                    "LD_Y_Indirect_Predec", "LD_X_Indirect", "LD_X_Indirect_Postinc",
                    "LD_X_Indirect_Predec", "POP", "ST_Z_Indirect_Postinc",
                    "ST_Z_Indirect_Predec", "XCH", "LAS", "LAC", "LAT",
                    "ST_Y_Indirect_Postinc", "ST_Y_Indirect_Predec", "ST_X_Indirect",
                    "ST_X_Indirect_Postinc", "ST_X_Indirect_Predec", "PUSH"} /\ D3(w) = 9 /\
                        D2(w) <= 3 /\ D0(w) # 0
           \/ n \in {"COM", "NEG", "SWAP", "INC", "ASR", "LSR", "ROR", "DEC"} /\ D3(w) = 9 /\
                D2(w) \in {4, 5} /\ (D0(w) < 8 \/ D0(w) = 10)
<1>1. D0(w) \in Nibble /\ D1(w) \in Nibble /\ D2(w) \in Nibble /\ D3(w) \in Nibble
  BY Digits
<1>2. And(w, \hFE0F) = Kept(D3(w), 2 * (D2(w) \div 2), 0, D0(w))
  BY Masks
<1>3. \/ n \in {"LD_Y_Indirect", "LD_Z_Indirect", "ST_Z_Indirect", "ST_Y_Indirect"} /\
           And(w, \hFE0F) \in {\h8008, \h8000, \h8200, \h8208}
      \/ n \in {"LDS", "STS"} /\ And(w, \hFE0F) \in {\h9000, \h9200}
      \/ n \in {"LD_Z_Indirect_Postinc", "LD_Z_Indirect_Predec", "LPM_Z",
                    "LPM_Z_Postinc", "ELPM_Z", "ELPM_Z_Postinc", "LD_Y_Indirect_Postinc",
                    "LD_Y_Indirect_Predec", "LD_X_Indirect", "LD_X_Indirect_Postinc",
                    "LD_X_Indirect_Predec", "POP", "ST_Z_Indirect_Postinc",
                    "ST_Z_Indirect_Predec", "XCH", "LAS", "LAC", "LAT",
                    "ST_Y_Indirect_Postinc", "ST_Y_Indirect_Predec", "ST_X_Indirect",
                    "ST_X_Indirect_Postinc", "ST_X_Indirect_Predec", "PUSH"} /\
                        And(w, \hFE0F) \in {\h9001, \h9002, \h9004, \h9005, \h9006, \h9007,
                            \h9009, \h900A, \h900C, \h900D, \h900E, \h900F, \h9201, \h9202,
                                \h9204, \h9205, \h9206, \h9207, \h9209, \h920A, \h920C, \h920D,
                                    \h920E, \h920F}
      \/ n \in {"COM", "NEG", "SWAP", "INC", "ASR", "LSR", "ROR", "DEC"} /\
           And(w, \hFE0F) \in {\h9400, \h9401, \h9402, \h9403, \h9405, \h9406, \h9407, \h940A}
  BY DEF Finds, FunctionSwitches, Switch
<1>8. D3(And(w, \hFE0F)) = D3(w) /\
        D2(And(w, \hFE0F)) = 2 * (D2(w) \div 2) /\ D0(And(w, \hFE0F)) = D0(w)
  <2>1. 2 * (D2(w) \div 2) \in Nibble
    BY <1>1 DEF Nibble
  <2>. QED  BY <1>1, <1>2, <2>1, Zero, DigitsOfKept
<1>4. And(w, \hFE0F) \in {\h8008, \h8000, \h8200, \h8208} => D3(w) = 8
  <2>1. \A m \in {\h8008, \h8000, \h8200, \h8208} :
          D3(m) = 8
    BY DEF D3
  <2>. QED  BY <1>1, <1>8, <2>1 DEF Nibble
<1>5. And(w, \hFE0F) \in {\h9000, \h9200} => D3(w) = 9 /\ D2(w) <= 3 /\ D0(w) = 0
  <2>1. \A m \in {\h9000, \h9200} :
          D3(m) = 9 /\ D2(m) \in {0, 2} /\ D0(m) = 0
    BY DEF D3, D2, D0
  <2>. QED  BY <1>1, <1>8, <2>1 DEF Nibble
<1>6. And(w, \hFE0F) \in {\h9001, \h9002, \h9004, \h9005, \h9006, \h9007, \h9009, \h900A, \h900C,
        \h900D, \h900E, \h900F, \h9201, \h9202, \h9204, \h9205, \h9206, \h9207, \h9209, \h920A,
            \h920C, \h920D, \h920E, \h920F} => D3(w) = 9 /\ D2(w) <= 3 /\ D0(w) # 0
  <2>1. \A m \in {\h9001, \h9002, \h9004, \h9005, \h9006, \h9007, \h9009, \h900A, \h900C, \h900D,
              \h900E, \h900F, \h9201, \h9202, \h9204, \h9205, \h9206, \h9207, \h9209, \h920A,
              \h920C, \h920D, \h920E, \h920F} :
          D3(m) = 9 /\ D2(m) \in {0, 2} /\ D0(m) # 0
    BY DEF D3, D2, D0
  <2>. QED  BY <1>1, <1>8, <2>1 DEF Nibble
<1>7. And(w, \hFE0F) \in {\h9400, \h9401, \h9402, \h9403, \h9405, \h9406, \h9407, \h940A} =>
        D3(w) = 9 /\ D2(w) \in {4, 5} /\ (D0(w) < 8 \/ D0(w) = 10)
  <2>1. \A m \in {\h9400, \h9401, \h9402, \h9403, \h9405, \h9406, \h9407, \h940A} :
          D3(m) = 9 /\ D2(m) = 4 /\ (D0(m) < 8 \/ D0(m) = 10)
    BY DEF D3, D2, D0
  <2>. QED  BY <1>1, <1>8, <2>1 DEF Nibble
<1>. QED  BY <1>3, <1>4, <1>5, <1>6, <1>7

LEMMA Switch7 ==
    ASSUME NEW w \in Words, NEW n, Finds(FunctionSwitches[7], w, n)
    PROVE  n \in {"JMP", "CALL"} /\ D3(w) = 9 /\ D2(w) \in {4, 5} /\ D0(w) >= 12
<1>1. D0(w) \in Nibble /\ D1(w) \in Nibble /\ D2(w) \in Nibble /\ D3(w) \in Nibble
  BY Digits
<1>2. And(w, \hFE0E) = Kept(D3(w), 2 * (D2(w) \div 2), 0, 2 * (D0(w) \div 2))
  BY Masks
<1>3. n \in {"JMP", "CALL"} /\ And(w, \hFE0E) \in {\h940C, \h940E}
  BY DEF Finds, FunctionSwitches, Switch
<1>4. And(w, \hFE0E) \in {\h940C, \h940E} => D3(w) = 9 /\ D2(w) \in {4, 5} /\ D0(w) >= 12
  BY <1>1, <1>2 DEF Kept, Nibble
<1>. QED  BY <1>3, <1>4

LEMMA Switch8 ==
    ASSUME NEW w \in Words, NEW n, Finds(FunctionSwitches[8], w, n)
    PROVE  n \in {"BLD", "BST", "SBRC", "SBRS"} /\ D3(w) = 15 /\ D2(w) >= 8
<1>1. D0(w) \in Nibble /\ D1(w) \in Nibble /\ D2(w) \in Nibble /\ D3(w) \in Nibble
  BY Digits
<1>2. And(w, \hFE08) = Kept(D3(w), 2 * (D2(w) \div 2), 0, 8 * (D0(w) \div 8))
  BY Masks
<1>3. n \in {"BLD", "BST", "SBRC", "SBRS"} /\ And(w, \hFE08) \in {\hF800, \hFA00, \hFC00, \hFE00}
  BY DEF Finds, FunctionSwitches, Switch
<1>8. D3(And(w, \hFE08)) = D3(w) /\ D2(And(w, \hFE08)) = 2 * (D2(w) \div 2) /\
        D0(And(w, \hFE08)) = 8 * (D0(w) \div 8)
  <2>1. 2 * (D2(w) \div 2) \in Nibble /\ 8 * (D0(w) \div 8) \in Nibble
    BY <1>1 DEF Nibble
  <2>. QED  BY <1>1, <1>2, <2>1, Zero, DigitsOfKept
<1>4. And(w, \hFE08) \in {\hF800, \hFA00, \hFC00, \hFE00} => D3(w) = 15 /\ D2(w) >= 8
  <2>1. \A m \in {\hF800, \hFA00, \hFC00, \hFE00} :
          D3(m) = 15 /\ D2(m) \in {8, 10, 12, 14}
    BY DEF D3, D2
  <2>. QED  BY <1>1, <1>8, <2>1 DEF Nibble
<1>. QED  BY <1>3, <1>4

LEMMA Switch9 ==
    ASSUME NEW w \in Words, NEW n, Finds(FunctionSwitches[9], w, n)
    PROVE  n \in {"BRCS", "BREQ", "BRMI", "BRVS", "BRLT", "BRTS", "BRIE", "BRCC",
                    "BRNE", "BRPL", "BRVC", "BRGE", "BRHC", "BRTC", "BRID"} /\ D3(w) = 15 /\
                        D2(w) < 8
<1>1. D0(w) \in Nibble /\ D1(w) \in Nibble /\ D2(w) \in Nibble /\ D3(w) \in Nibble
  BY Digits
<1>2. And(w, \hFC07) = Kept(D3(w), 4 * (D2(w) \div 4), 0, D0(w) % 8)
  BY Masks
<1>3. n \in {"BRCS", "BREQ", "BRMI", "BRVS", "BRLT", "BRTS", "BRIE", "BRCC",
                    "BRNE", "BRPL", "BRVC", "BRGE", "BRHC", "BRTC", "BRID"} /\
                        And(w, \hFC07) \in {\hF000, \hF001, \hF002, \hF003, \hF004, \hF006,
                            \hF007, \hF400, \hF401, \hF402, \hF403, \hF404, \hF405, \hF406, \hF407}
  BY DEF Finds, FunctionSwitches, Switch
<1>8. D3(And(w, \hFC07)) = D3(w) /\ D2(And(w, \hFC07)) = 4 * (D2(w) \div 4) /\
        D0(And(w, \hFC07)) = D0(w) % 8
  <2>1. 4 * (D2(w) \div 4) \in Nibble /\ D0(w) % 8 \in Nibble
    BY <1>1 DEF Nibble
  <2>. QED  BY <1>1, <1>2, <2>1, Zero, DigitsOfKept
<1>4. And(w, \hFC07) \in {\hF000, \hF001, \hF002, \hF003, \hF004, \hF006, \hF007, \hF400, \hF401,
        \hF402, \hF403, \hF404, \hF405, \hF406, \hF407} => D3(w) = 15 /\ D2(w) < 8
  <2>1. \A m \in {\hF000, \hF001, \hF002, \hF003, \hF004, \hF006, \hF007, \hF400, \hF401, \hF402,
              \hF403, \hF404, \hF405, \hF406, \hF407} :
          D3(m) = 15 /\ D2(m) \in {0, 4}
    BY DEF D3, D2
  <2>. QED  BY <1>1, <1>8, <2>1 DEF Nibble
<1>. QED  BY <1>3, <1>4

LEMMA Switch10 ==
    ASSUME NEW w \in Words, NEW n, Finds(FunctionSwitches[10], w, n)
    PROVE  \/ n \in {"MUL"} /\ D3(w) = 9 /\ D2(w) >= 12
           \/ n \in {"CPC", "SBC", "ADD", "CPSE", "CP", "ADC", "SUB", "AND", "EOR", "MOV",
                    "OR"} /\ (D3(w) \in {1, 2} \/ (D3(w) = 0 /\ D2(w) >= 4))
<1>1. D0(w) \in Nibble /\ D1(w) \in Nibble /\ D2(w) \in Nibble /\ D3(w) \in Nibble
  BY Digits
<1>2. And(w, \hFC00) = Kept(D3(w), 4 * (D2(w) \div 4), 0, 0)
  BY Masks
<1>3. \/ n \in {"MULS", "ROL"} /\ And(w, \hFC00) \in {\h0200, \h1300}
      \/ n \in {"MUL"} /\ And(w, \hFC00) \in {\h9C00}
      \/ n \in {"CPC", "SBC", "ADD", "CPSE", "CP", "ADC", "SUB", "AND", "EOR", "MOV",
                    "OR"} /\ And(w, \hFC00) \in {\h0400, \h0800, \h0C00, \h1000, \h1400, \h1C00,
                        \h1800, \h2000, \h2400, \h2C00, \h2800}
  BY DEF Finds, FunctionSwitches, Switch
<1>4. And(w, \hFC00) \in {\h0200, \h1300} => FALSE
  BY <1>1, <1>2 DEF Kept, Nibble
<1>5. And(w, \hFC00) \in {\h9C00} => D3(w) = 9 /\ D2(w) >= 12
  BY <1>1, <1>2 DEF Kept, Nibble
<1>6. And(w, \hFC00) \in {\h0400, \h0800, \h0C00, \h1000, \h1400, \h1C00, \h1800, \h2000, \h2400,
        \h2C00, \h2800} => (D3(w) \in {1, 2} \/ (D3(w) = 0 /\ D2(w) >= 4))
  BY <1>1, <1>2 DEF Kept, Nibble
<1>. QED  BY <1>3, <1>4, <1>5, <1>6

LEMMA Switch11 ==
    ASSUME NEW w \in Words, NEW n, Finds(FunctionSwitches[11], w, n)
    PROVE  n \in {"IN", "OUT"} /\ D3(w) = 11
<1>1. D0(w) \in Nibble /\ D1(w) \in Nibble /\ D2(w) \in Nibble /\ D3(w) \in Nibble
  BY Digits
<1>2. And(w, \hF800) = Kept(D3(w), 8 * (D2(w) \div 8), 0, 0)
  BY Masks
<1>3. n \in {"IN", "OUT"} /\ And(w, \hF800) \in {\hB000, \hB800}
  BY DEF Finds, FunctionSwitches, Switch
<1>4. And(w, \hF800) \in {\hB000, \hB800} => D3(w) = 11
  BY <1>1, <1>2 DEF Kept, Nibble
<1>. QED  BY <1>3, <1>4

LEMMA Switch12 ==
    ASSUME NEW w \in Words, NEW n, Finds(FunctionSwitches[12], w, n)
    PROVE  \/ n \in {"CPI", "SBCI", "SUBI", "ORI", "ANDI"} /\ D3(w) \in 3 .. 7
           \/ n \in {"RJMP", "RCALL"} /\ D3(w) \in {12, 13}
           \/ n \in {"LDI"} /\ D3(w) = 14
<1>1. D0(w) \in Nibble /\ D1(w) \in Nibble /\ D2(w) \in Nibble /\ D3(w) \in Nibble
  BY Digits
<1>2. And(w, \hF000) = Kept(D3(w), 0, 0, 0)
  BY Masks
<1>3. \/ n \in {"CPI", "SBCI", "SUBI", "ORI", "ANDI"} /\
           And(w, \hF000) \in {\h3000, \h4000, \h5000, \h6000, \h7000}
      \/ n \in {"RJMP", "RCALL"} /\ And(w, \hF000) \in {\hC000, \hD000}
      \/ n \in {"LDI"} /\ And(w, \hF000) \in {\hE000}
  BY DEF Finds, FunctionSwitches, Switch
<1>4. And(w, \hF000) \in {\h3000, \h4000, \h5000, \h6000, \h7000} => D3(w) \in 3 .. 7
  BY <1>1, <1>2 DEF Kept, Nibble
<1>5. And(w, \hF000) \in {\hC000, \hD000} => D3(w) \in {12, 13}
  BY <1>1, <1>2 DEF Kept, Nibble
<1>6. And(w, \hF000) \in {\hE000} => D3(w) = 14
  BY <1>1, <1>2 DEF Kept, Nibble
<1>. QED  BY <1>3, <1>4, <1>5, <1>6

LEMMA Switch13 ==
    ASSUME NEW w \in Words, NEW n, Finds(FunctionSwitches[13], w, n)
    PROVE  n \in {"LDD_Z", "LDD_Y", "STD_Z", "STD_Y"} /\ D3(w) \in {8, 10}
<1>1. D0(w) \in Nibble /\ D1(w) \in Nibble /\ D2(w) \in Nibble /\ D3(w) \in Nibble
  BY Digits
<1>2. And(w, \hD208) = Kept(4 * (D3(w) \div 4) + (D3(w) % 2), 2 * ((D2(w) \div 2) % 2), 0,
        8 * (D0(w) \div 8))
  BY Masks
<1>3. n \in {"LDD_Z", "LDD_Y", "STD_Z", "STD_Y"} /\
        And(w, \hD208) \in {\h8000, \h8008, \h8200, \h8208}
  BY DEF Finds, FunctionSwitches, Switch
<1>8. D3(And(w, \hD208)) = 4 * (D3(w) \div 4) + (D3(w) % 2) /\
        D2(And(w, \hD208)) = 2 * ((D2(w) \div 2) % 2) /\
        D0(And(w, \hD208)) = 8 * (D0(w) \div 8)
  <2>1. 4 * (D3(w) \div 4) + (D3(w) % 2) \in Nibble /\ 2 * ((D2(w) \div 2) % 2) \in Nibble /\
          8 * (D0(w) \div 8) \in Nibble
    BY <1>1 DEF Nibble
  <2>. QED  BY <1>1, <1>2, <2>1, Zero, DigitsOfKept
<1>4. And(w, \hD208) \in {\h8000, \h8008, \h8200, \h8208} => D3(w) \in {8, 10}
  <2>1. \A m \in {\h8000, \h8008, \h8200, \h8208} :
          D3(m) = 8
    BY DEF D3
  <2>. QED  BY <1>1, <1>8, <2>1 DEF Nibble
<1>. QED  BY <1>3, <1>4

\* The switch a function is a case of.
SwitchOf(n) ==
    CASE n \in {"NOP", "IJMP", "EIJMP", "RET", "ICALL", "RETI", "EICALL", "SLEEP", "BREAK",
                "WDR", "LPM", "ELPM", "SPM", "SPM_Z_Postinc2"} -> 1
      [] n \in {"BSET", "BCLR"} -> 2
      [] n \in {"MULSU", "FMUL", "FMULS", "FMULSU"} -> 3
      [] n \in {"DES", "SER"} -> 4
      [] n \in {"MOVW", "ADIW", "SBIW", "CBI", "SBIC", "SBI", "SBIS"} -> 5
      [] n \in {"LD_Y_Indirect", "LD_Z_Indirect", "ST_Z_Indirect", "ST_Y_Indirect", "LDS",
                "LD_Z_Indirect_Postinc", "LD_Z_Indirect_Predec", "LPM_Z", "LPM_Z_Postinc",
                "ELPM_Z", "ELPM_Z_Postinc", "LD_Y_Indirect_Postinc", "LD_Y_Indirect_Predec",
                "LD_X_Indirect", "LD_X_Indirect_Postinc", "LD_X_Indirect_Predec", "POP", "STS",
                "ST_Z_Indirect_Postinc", "ST_Z_Indirect_Predec", "XCH", "LAS", "LAC", "LAT",
                "ST_Y_Indirect_Postinc", "ST_Y_Indirect_Predec", "ST_X_Indirect",
                "ST_X_Indirect_Postinc", "ST_X_Indirect_Predec", "PUSH", "COM", "NEG", "SWAP",
                "INC", "ASR", "LSR", "ROR", "DEC"} -> 6
      [] n \in {"JMP", "CALL"} -> 7
      [] n \in {"BLD", "BST", "SBRC", "SBRS"} -> 8
      [] n \in {"BRCS", "BREQ", "BRMI", "BRVS", "BRLT", "BRTS", "BRIE", "BRCC", "BRNE", "BRPL",
                "BRVC", "BRGE", "BRHC", "BRTC", "BRID"} -> 9
      [] n \in {"MULS", "CPC", "SBC", "ADD", "CPSE", "ROL", "CP", "ADC", "SUB", "AND", "EOR",
                "MOV", "OR", "MUL"} -> 10
      [] n \in {"IN", "OUT"} -> 11
      [] n \in {"CPI", "SBCI", "SUBI", "ORI", "ANDI", "RJMP", "RCALL", "LDI"} -> 12
      [] n \in {"LDD_Z", "LDD_Y", "STD_Z", "STD_Y"} -> 13

\* No function is a case of two switches.
LEMMA SwitchesApart ==
    ASSUME NEW i \in 1 .. 13, NEW n \in DOMAIN FunctionSwitches[i].cases
    PROVE  SwitchOf(n) = i
<1>1. CASE i = 1
  <2>1. DOMAIN FunctionSwitches[1].cases = {"NOP", "IJMP", "EIJMP", "RET", "ICALL", "RETI",
          "EICALL", "SLEEP", "BREAK",
                "WDR", "LPM", "ELPM", "SPM", "SPM_Z_Postinc2"}
    BY DEF FunctionSwitches, Switch
  <2>. QED  BY <1>1, <2>1 DEF SwitchOf
<1>2. CASE i = 2
  <2>1. DOMAIN FunctionSwitches[2].cases = {"BSET", "BCLR"}
    BY DEF FunctionSwitches, Switch
  <2>. QED  BY <1>2, <2>1 DEF SwitchOf
<1>3. CASE i = 3
  <2>1. DOMAIN FunctionSwitches[3].cases = {"MULSU", "FMUL", "FMULS", "FMULSU"}
    BY DEF FunctionSwitches, Switch
  <2>. QED  BY <1>3, <2>1 DEF SwitchOf
<1>4. CASE i = 4
  <2>1. DOMAIN FunctionSwitches[4].cases = {"DES", "SER"}
    BY DEF FunctionSwitches, Switch
  <2>. QED  BY <1>4, <2>1 DEF SwitchOf
<1>5. CASE i = 5
  <2>1. DOMAIN FunctionSwitches[5].cases = {"MOVW", "ADIW", "SBIW", "CBI", "SBIC", "SBI", "SBIS"}
    BY DEF FunctionSwitches, Switch
  <2>. QED  BY <1>5, <2>1 DEF SwitchOf
<1>6. CASE i = 6
  <2>1. DOMAIN FunctionSwitches[6].cases = {"LD_Y_Indirect", "LD_Z_Indirect", "ST_Z_Indirect",
          "ST_Y_Indirect", "LDS",
                "LD_Z_Indirect_Postinc", "LD_Z_Indirect_Predec", "LPM_Z", "LPM_Z_Postinc",
                "ELPM_Z", "ELPM_Z_Postinc", "LD_Y_Indirect_Postinc", "LD_Y_Indirect_Predec",
                "LD_X_Indirect", "LD_X_Indirect_Postinc", "LD_X_Indirect_Predec", "POP", "STS",
                "ST_Z_Indirect_Postinc", "ST_Z_Indirect_Predec", "XCH", "LAS", "LAC", "LAT",
                "ST_Y_Indirect_Postinc", "ST_Y_Indirect_Predec", "ST_X_Indirect",
                "ST_X_Indirect_Postinc", "ST_X_Indirect_Predec", "PUSH", "COM", "NEG", "SWAP",
                "INC", "ASR", "LSR", "ROR", "DEC"}
    BY DEF FunctionSwitches, Switch
  <2>. QED  BY <1>6, <2>1 DEF SwitchOf
<1>7. CASE i = 7
  <2>1. DOMAIN FunctionSwitches[7].cases = {"JMP", "CALL"}
    BY DEF FunctionSwitches, Switch
  <2>. QED  BY <1>7, <2>1 DEF SwitchOf
<1>8. CASE i = 8
  <2>1. DOMAIN FunctionSwitches[8].cases = {"BLD", "BST", "SBRC", "SBRS"}
    BY DEF FunctionSwitches, Switch
  <2>. QED  BY <1>8, <2>1 DEF SwitchOf
<1>9. CASE i = 9
  <2>1. DOMAIN FunctionSwitches[9].cases = {"BRCS", "BREQ", "BRMI", "BRVS", "BRLT", "BRTS",
          "BRIE", "BRCC", "BRNE", "BRPL",
                "BRVC", "BRGE", "BRHC", "BRTC", "BRID"}
    BY DEF FunctionSwitches, Switch
  <2>. QED  BY <1>9, <2>1 DEF SwitchOf
<1>10. CASE i = 10
  <2>1. DOMAIN FunctionSwitches[10].cases =
          {"MULS", "CPC", "SBC", "ADD", "CPSE", "ROL", "CP", "ADC", "SUB", "AND", "EOR",
                "MOV", "OR", "MUL"}
    BY DEF FunctionSwitches, Switch
  <2>. QED  BY <1>10, <2>1 DEF SwitchOf
<1>11. CASE i = 11
  <2>1. DOMAIN FunctionSwitches[11].cases = {"IN", "OUT"}
    BY DEF FunctionSwitches, Switch
  <2>. QED  BY <1>11, <2>1 DEF SwitchOf
<1>12. CASE i = 12
  <2>1. DOMAIN FunctionSwitches[12].cases =
          {"CPI", "SBCI", "SUBI", "ORI", "ANDI", "RJMP", "RCALL", "LDI"}
    BY DEF FunctionSwitches, Switch
  <2>. QED  BY <1>12, <2>1 DEF SwitchOf
<1>13. CASE i = 13
  <2>1. DOMAIN FunctionSwitches[13].cases = {"LDD_Z", "LDD_Y", "STD_Z", "STD_Y"}
    BY DEF FunctionSwitches, Switch
  <2>. QED  BY <1>13, <2>1 DEF SwitchOf
<1>. QED  BY <1>1, <1>2, <1>3, <1>4, <1>5, <1>6, <1>7, <1>8, <1>9, <1>10, <1>11, <1>12, <1>13

----------------------------------------------------------------------------
(* The tables of all words, and what each function reads.                 *)

\* Tabulating a table changes nothing in it.
LEMMA TabulatedIs ==
    ASSUME NEW n \in Nat, NEW S, NEW f \in [1 .. n -> S]
    PROVE  Tabulated(f) = f
<1>1. f \in Seq(S)
  OBVIOUS
<1>. QED  BY <1>1 DEF Tabulated

\* The tables of all words hold what the look-ups return.
LEMMA TableEntries ==
    ASSUME NEW w \in Words
    PROVE  astOpcodes[w + 1] = AVR_Opcode_Function(w) /\ Formats[w + 1] = AVR_Decoder_Function(w)
<1> DEFINE top == 65536
           f == [i \in 1 .. top |-> AVR_Opcode_Function(i - 1)]
           g == [i \in 1 .. top |-> AVR_Decoder_Function(i - 1)]
<1>1. w \in Int /\ 0 <= w /\ w < top /\ top \in Nat
  BY WordBounds
<1>2. astOpcodes = Tabulated(f) /\ Formats = Tabulated(g)
  BY DEF astOpcodes, Formats
<1> HIDE DEF top
<1>3. w + 1 \in 1 .. top /\ (w + 1) - 1 = w
  BY <1>1
<1>4. f[w + 1] = AVR_Opcode_Function(w) /\ g[w + 1] = AVR_Decoder_Function(w)
  BY <1>3
<1>5. f \in [1 .. top -> {f[i] : i \in 1 .. top}] /\ g \in [1 .. top -> {g[i] : i \in 1 .. top}]
  OBVIOUS
<1>6. Tabulated(f) = f /\ Tabulated(g) = g
  <2>. HIDE DEF f, g
  <2>. QED  BY <1>1, <1>5, TabulatedIs
<1>. QED  BY <1>2, <1>4, <1>6

\* What each function reads, gathered from the families.
LEMMA ReadSets ==
    ASSUME NEW n, NEW l
    PROVE  /\ n \in {"BSET", "BCLR"} => (<<n, l>> \in FunctionReads <=> l \in {"b"})
           /\ n \in {"MULSU", "FMUL", "FMULS", "FMULSU", "MUL", "CPC", "SBC", "ADD",
                    "CPSE", "CP", "ADC", "SUB", "AND", "EOR", "MOV", "OR"} =>
                        (<<n, l>> \in FunctionReads <=> l \in {"Rd", "Rr"})
           /\ n \in {"DES", "NOP", "IJMP", "EIJMP", "RET", "ICALL", "RETI", "EICALL",
                    "SLEEP", "BREAK", "WDR", "LPM", "ELPM", "SPM", "SPM_Z_Postinc2"} =>
                        (<<n, l>> \in FunctionReads <=> l \in {})
           /\ n \in {"SER", "LD_Y_Indirect", "LD_Z_Indirect", "ST_Z_Indirect",
                    "ST_Y_Indirect", "LD_Z_Indirect_Postinc", "LD_Z_Indirect_Predec",
                    "LPM_Z", "LPM_Z_Postinc", "ELPM_Z", "ELPM_Z_Postinc",
                    "LD_Y_Indirect_Postinc", "LD_Y_Indirect_Predec", "LD_X_Indirect",
                    "LD_X_Indirect_Postinc", "LD_X_Indirect_Predec", "POP",
                    "ST_Z_Indirect_Postinc", "ST_Z_Indirect_Predec", "XCH", "LAS", "LAC",
                    "LAT", "ST_Y_Indirect_Postinc", "ST_Y_Indirect_Predec",
                    "ST_X_Indirect", "ST_X_Indirect_Postinc", "ST_X_Indirect_Predec",
                    "PUSH", "COM", "NEG", "SWAP", "INC", "ASR", "LSR", "ROR", "DEC"} =>
                        (<<n, l>> \in FunctionReads <=> l \in {"Rd"})
           /\ n \in {"MOVW"} => (<<n, l>> \in FunctionReads <=> l \in {"Rd16", "Rr16"})
           /\ n \in {"ADIW", "SBIW"} => (<<n, l>> \in FunctionReads <=> l \in {"K", "Rd16"})
           /\ n \in {"CBI", "SBIC", "SBI", "SBIS"} =>
                (<<n, l>> \in FunctionReads <=> l \in {"A", "b"})
           /\ n \in {"LDS", "STS", "CPI", "SBCI", "SUBI", "ORI", "ANDI", "LDI"} =>
                (<<n, l>> \in FunctionReads <=> l \in {"K", "Rd"})
           /\ n \in {"JMP", "CALL"} => (<<n, l>> \in FunctionReads <=> l \in {"k"})
           /\ n \in {"BLD", "BST", "SBRC", "SBRS"} =>
                (<<n, l>> \in FunctionReads <=> l \in {"Rd", "b"})
           /\ n \in {"BRCS", "BREQ", "BRMI", "BRVS", "BRLT", "BRTS", "BRIE", "BRCC",
                    "BRNE", "BRPL", "BRVC", "BRGE", "BRHC", "BRTC", "BRID", "RJMP",
                    "RCALL"} => (<<n, l>> \in FunctionReads <=> l \in {"k_s"})
           /\ n \in {"IN", "OUT"} => (<<n, l>> \in FunctionReads <=> l \in {"A", "Rd"})
           /\ n \in {"LDD_Z", "LDD_Y", "STD_Z", "STD_Y"} =>
                (<<n, l>> \in FunctionReads <=> l \in {"Rd", "q"})
<1>1. ASSUME n \in {"BSET", "BCLR"}
      PROVE  <<n, l>> \in FunctionReads <=> l \in {"b"}
  BY <1>1 DEF FunctionReads, All, ArithmeticReads, JumpReads, CompareReads, BranchReads, LoadReads,
         StoreReads, MemoryReads, TransferReads, BitReads
<1>2. ASSUME n \in {"MULSU", "FMUL", "FMULS", "FMULSU", "MUL", "CPC", "SBC", "ADD",
                    "CPSE", "CP", "ADC", "SUB", "AND", "EOR", "MOV", "OR"}
      PROVE  <<n, l>> \in FunctionReads <=> l \in {"Rd", "Rr"}
  BY <1>2 DEF FunctionReads, All, ArithmeticReads, JumpReads, CompareReads, BranchReads, LoadReads,
         StoreReads, MemoryReads, TransferReads, BitReads
<1>3. ASSUME n \in {"DES", "NOP", "IJMP", "EIJMP", "RET", "ICALL", "RETI", "EICALL",
                    "SLEEP", "BREAK", "WDR", "LPM", "ELPM", "SPM", "SPM_Z_Postinc2"}
      PROVE  <<n, l>> \in FunctionReads <=> l \in {}
  BY <1>3 DEF FunctionReads, All, ArithmeticReads, JumpReads, CompareReads, BranchReads, LoadReads,
         StoreReads, MemoryReads, TransferReads, BitReads
<1>4. ASSUME n \in {"SER", "LD_Y_Indirect", "LD_Z_Indirect", "ST_Z_Indirect",
                    "ST_Y_Indirect", "LD_Z_Indirect_Postinc", "LD_Z_Indirect_Predec",
                    "LPM_Z", "LPM_Z_Postinc", "ELPM_Z", "ELPM_Z_Postinc",
                    "LD_Y_Indirect_Postinc", "LD_Y_Indirect_Predec", "LD_X_Indirect",
                    "LD_X_Indirect_Postinc", "LD_X_Indirect_Predec", "POP",
                    "ST_Z_Indirect_Postinc", "ST_Z_Indirect_Predec", "XCH", "LAS", "LAC",
                    "LAT", "ST_Y_Indirect_Postinc", "ST_Y_Indirect_Predec",
                    "ST_X_Indirect", "ST_X_Indirect_Postinc", "ST_X_Indirect_Predec",
                    "PUSH", "COM", "NEG", "SWAP", "INC", "ASR", "LSR", "ROR", "DEC"}
      PROVE  <<n, l>> \in FunctionReads <=> l \in {"Rd"}
  BY <1>4 DEF FunctionReads, All, ArithmeticReads, JumpReads, CompareReads, BranchReads, LoadReads,
         StoreReads, MemoryReads, TransferReads, BitReads
<1>5. ASSUME n \in {"MOVW"}
      PROVE  <<n, l>> \in FunctionReads <=> l \in {"Rd16", "Rr16"}
  BY <1>5 DEF FunctionReads, All, ArithmeticReads, JumpReads, CompareReads, BranchReads, LoadReads,
         StoreReads, MemoryReads, TransferReads, BitReads
<1>6. ASSUME n \in {"ADIW", "SBIW"}
      PROVE  <<n, l>> \in FunctionReads <=> l \in {"K", "Rd16"}
  BY <1>6 DEF FunctionReads, All, ArithmeticReads, JumpReads, CompareReads, BranchReads, LoadReads,
         StoreReads, MemoryReads, TransferReads, BitReads
<1>7. ASSUME n \in {"CBI", "SBIC", "SBI", "SBIS"}
      PROVE  <<n, l>> \in FunctionReads <=> l \in {"A", "b"}
  BY <1>7 DEF FunctionReads, All, ArithmeticReads, JumpReads, CompareReads, BranchReads, LoadReads,
         StoreReads, MemoryReads, TransferReads, BitReads
<1>8. ASSUME n \in {"LDS", "STS", "CPI", "SBCI", "SUBI", "ORI", "ANDI", "LDI"}
      PROVE  <<n, l>> \in FunctionReads <=> l \in {"K", "Rd"}
  BY <1>8 DEF FunctionReads, All, ArithmeticReads, JumpReads, CompareReads, BranchReads, LoadReads,
         StoreReads, MemoryReads, TransferReads, BitReads
<1>9. ASSUME n \in {"JMP", "CALL"}
      PROVE  <<n, l>> \in FunctionReads <=> l \in {"k"}
  BY <1>9 DEF FunctionReads, All, ArithmeticReads, JumpReads, CompareReads, BranchReads, LoadReads,
         StoreReads, MemoryReads, TransferReads, BitReads
<1>10. ASSUME n \in {"BLD", "BST", "SBRC", "SBRS"}
      PROVE  <<n, l>> \in FunctionReads <=> l \in {"Rd", "b"}
  BY <1>10 DEF FunctionReads, All, ArithmeticReads, JumpReads, CompareReads, BranchReads, LoadReads,
         StoreReads, MemoryReads, TransferReads, BitReads
<1>11. ASSUME n \in {"BRCS", "BREQ", "BRMI", "BRVS", "BRLT", "BRTS", "BRIE", "BRCC",
                    "BRNE", "BRPL", "BRVC", "BRGE", "BRHC", "BRTC", "BRID", "RJMP",
                    "RCALL"}
      PROVE  <<n, l>> \in FunctionReads <=> l \in {"k_s"}
  BY <1>11 DEF FunctionReads, All, ArithmeticReads, JumpReads, CompareReads, BranchReads, LoadReads,
         StoreReads, MemoryReads, TransferReads, BitReads
<1>12. ASSUME n \in {"IN", "OUT"}
      PROVE  <<n, l>> \in FunctionReads <=> l \in {"A", "Rd"}
  BY <1>12 DEF FunctionReads, All, ArithmeticReads, JumpReads, CompareReads, BranchReads, LoadReads,
         StoreReads, MemoryReads, TransferReads, BitReads
<1>13. ASSUME n \in {"LDD_Z", "LDD_Y", "STD_Z", "STD_Y"}
      PROVE  <<n, l>> \in FunctionReads <=> l \in {"Rd", "q"}
  BY <1>13 DEF FunctionReads, All, ArithmeticReads, JumpReads, CompareReads, BranchReads, LoadReads,
         StoreReads, MemoryReads, TransferReads, BitReads
<1>. QED  BY <1>1, <1>2, <1>3, <1>4, <1>5, <1>6, <1>7, <1>8, <1>9, <1>10, <1>11, <1>12, <1>13

----------------------------------------------------------------------------
(* The latches that each format sets.                                     *)

\* The fields of a word, by its digits.
LEMMA FieldDigits ==
    ASSUME NEW w \in Words
    PROVE  /\ Field(w, 3, 0) = D0(w) /\ Field(w, 7, 4) = D1(w) /\ Field(w, 11, 8) = D2(w)
           /\ Field(w, 2, 0) = D0(w) % 8 /\ Field(w, 0, 0) = D0(w) % 2
           /\ Field(w, 6, 4) = D1(w) % 8 /\ Field(w, 5, 4) = D1(w) % 4 /\
                Field(w, 7, 6) = D1(w) \div 4
           /\ Field(w, 8, 4) = D1(w) + 16 * (D2(w) % 2) /\ Field(w, 9, 9) = (D2(w) \div 2) % 2
           /\ Field(w, 7, 3) = (D0(w) \div 8) + 2 * D1(w)
           /\ Field(w, 11, 10) = D2(w) \div 4 /\ Field(w, 10, 9) = (D2(w) \div 2) % 4
           /\ Field(w, 13, 13) = (D3(w) \div 2) % 2
           /\ Field(w, 11, 0) = D0(w) + 16 * D1(w) + 256 * D2(w)
           /\ Field(w, 9, 3) = (D0(w) \div 8) + 2 * D1(w) + 32 * (D2(w) % 4)
<1> DEFINE d3 == D3(w)
           d2 == D2(w)
           d1 == D1(w)
           d0 == D0(w)
<1>1. /\ d3 \in Nibble /\ d2 \in Nibble /\ d1 \in Nibble /\ d0 \in Nibble
      /\ w = 4096 * d3 + 256 * d2 + 16 * d1 + d0
  BY Digits
<1> HIDE DEF d3, d2, d1, d0
<1>2. w \div 16 = 256 * d3 + 16 * d2 + d1 /\ w \div 256 = 16 * d3 + d2
  BY <1>1 DEF Nibble
<1>3. Field(w, 3, 0) = d0
  BY <1>1 DEF Field, Nibble
<1>4. Field(w, 7, 4) = d1
  BY <1>1, <1>2 DEF Field, Nibble
<1>5. Field(w, 11, 8) = d2
  BY <1>1, <1>2 DEF Field, Nibble
<1>6. Field(w, 2, 0) = d0 % 8
  BY <1>1 DEF Field, Nibble
<1>7. Field(w, 0, 0) = d0 % 2
  BY <1>1 DEF Field, Nibble
<1>8. Field(w, 6, 4) = d1 % 8
  BY <1>1, <1>2 DEF Field, Nibble
<1>9. Field(w, 5, 4) = d1 % 4
  BY <1>1, <1>2 DEF Field, Nibble
<1>10. Field(w, 7, 6) = d1 \div 4
  <2>1. w \div 64 = 64 * d3 + 4 * d2 + (d1 \div 4)
    BY <1>1 DEF Nibble
  <2>2. d1 \div 4 \in 0 .. 3
    BY <1>1 DEF Nibble
  <2>. QED  BY <1>1, <2>1, <2>2 DEF Field, Nibble
<1>11. Field(w, 8, 4) = d1 + 16 * (d2 % 2)
  <2>1. (256 * d3 + 16 * d2 + d1) % 32 = d1 + 16 * (d2 % 2)
    BY <1>1 DEF Nibble
  <2>2. Field(w, 8, 4) = (w \div 16) % 32
    BY <1>1 DEF Field
  <2>. QED  BY <1>2, <2>1, <2>2
<1>12. d2 \div 2 \in 0 .. 7 /\ w \div 512 = 8 * d3 + (d2 \div 2)
  BY <1>1 DEF Nibble
<1>13. Field(w, 9, 9) = (d2 \div 2) % 2 /\ Field(w, 10, 9) = (d2 \div 2) % 4
  <2> DEFINE h == d2 \div 2
  <2>1. Field(w, 9, 9) = (w \div 512) % 2 /\ Field(w, 10, 9) = (w \div 512) % 4
    BY <1>1 DEF Field
  <2>2. h \in 0 .. 7 /\ w \div 512 = 8 * d3 + h /\ d3 \in Int
    BY <1>1, <1>12 DEF Nibble
  <2>. HIDE DEF h
  <2>3. (8 * d3 + h) % 2 = h % 2 /\ (8 * d3 + h) % 4 = h % 4
    BY <2>2
  <2>. QED  BY <2>1, <2>2, <2>3 DEF h
<1>14. Field(w, 7, 3) = (d0 \div 8) + 2 * d1
  BY <1>1 DEF Field, Nibble
<1>15. Field(w, 11, 10) = d2 \div 4
  <2>1. w \div 1024 = 4 * d3 + (d2 \div 4) /\ d2 \div 4 \in 0 .. 3
    BY <1>1 DEF Nibble
  <2>2. Field(w, 11, 10) = (w \div 1024) % 4
    BY <1>1 DEF Field
  <2>. QED  BY <1>1, <2>1, <2>2 DEF Nibble
<1>16. Field(w, 13, 13) = (d3 \div 2) % 2
  BY <1>1 DEF Field, Nibble
<1>17. Field(w, 11, 0) = d0 + 16 * d1 + 256 * d2
  BY <1>1 DEF Field, Nibble
<1>18. Field(w, 9, 3) = (d0 \div 8) + 2 * d1 + 32 * (d2 % 4)
  BY <1>1 DEF Field, Nibble
<1>. QED  BY <1>3, <1>4, <1>5, <1>6, <1>7, <1>8, <1>9, <1>10, <1>11, <1>13, <1>14, <1>15,
             <1>16, <1>17, <1>18 DEF d3, d2, d1, d0

\* The latches that each format sets.
LEMMA FieldsByFormat ==
    ASSUME NEW w \in Words
    PROVE  LET format == AVR_Decoder_Function(w) IN
           /\ format \in {"Register_Pair_4bit"} =>
                Fields(w) = [Rr16 |-> Field(w, 3, 0), Rd16 |-> Field(w, 7, 4)]
           /\ format \in {"Register_Pair_3bit"} =>
                Fields(w) = [Rr |-> Field(w, 2, 0) + 16, Rd |-> Field(w, 6, 4) + 16]
           /\ format \in {"Register_Pair_5bit", "MUL"} =>
                Fields(w) = [Rr |-> RrOf(w), Rd |-> RdOf(w)]
           /\ format \in {"Register_Immediate", "LDI"} =>
                Fields(w) = [K |-> KOf(w), Rd |-> Field(w, 7, 4) + 16]
           /\ format \in {"LDST", "Register_Single", "DEC_Rd"} => Fields(w) = [Rd |-> RdOf(w)]
           /\ format \in {"LDST_YZ_k"} => Fields(w) =
                [q |-> Field(w, 2, 0) + 8 * Field(w, 11, 10) + 32 * Field(w, 13, 13),
                    Rd |-> RdOf(w)]
           /\ format \in {"LDS_STS"} => Fields(w) = [Rd |-> RdOf(w), K |-> Second]
           /\ format \in {"Register_SC"} => Fields(w) = [b |-> Field(w, 6, 4)]
           /\ format \in {"DES_round_4"} => Fields(w) = [K |-> Field(w, 7, 4)]
           /\ format \in {"JMP_CALL_22"} => Fields(w) =
                [k |-> 65536 * (Field(w, 0, 0) + 2 * Field(w, 8, 4)) + Second]
           /\ format \in {"ADIW_SBIW_6"} => Fields(w) =
                [K |-> Field(w, 3, 0) + 16 * Field(w, 7, 6), Rd16 |-> Field(w, 5, 4) + 12]
           /\ format \in {"IO_Bit"} => Fields(w) = [b |-> Field(w, 2, 0), A |-> Field(w, 7, 3)]
           /\ format \in {"IO_In_Out"} => Fields(w) =
                [A |-> Field(w, 3, 0) + 16 * Field(w, 10, 9), Rd |-> RdOf(w)]
           /\ format \in {"Relative_Jump"} => Fields(w) = [k_s |-> SignedField(w, 11, 0)]
           /\ format \in {"Conditional_Branch"} =>
                Fields(w) = [b |-> Field(w, 2, 0), k_s |-> SignedField(w, 9, 3)]
           /\ format \in {"BLD_BST", "SBRC_SBRS"} =>
                Fields(w) = [b |-> Field(w, 2, 0), Rd |-> RdOf(w)]
           /\ format \in {"NOP", "Misc", "Indirect_Jump"} => Fields(w) = <<>>
<1>1. Fields(w) = IF AVR_Decoder_Function(w) \in RegisterFormats THEN RegisterFormat(w,
        AVR_Decoder_Function(w))
                  ELSE OtherFormat(w, AVR_Decoder_Function(w))
  BY TableEntries DEF Fields
<1>2. ASSUME AVR_Decoder_Function(w) \in {"Register_Pair_4bit"}
      PROVE  Fields(w) = [Rr16 |-> Field(w, 3, 0), Rd16 |-> Field(w, 7, 4)]
  BY <1>1, <1>2 DEF RegisterFormats, RegisterFormat
<1>3. ASSUME AVR_Decoder_Function(w) \in {"Register_Pair_3bit"}
      PROVE  Fields(w) = [Rr |-> Field(w, 2, 0) + 16, Rd |-> Field(w, 6, 4) + 16]
  BY <1>1, <1>3 DEF RegisterFormats, RegisterFormat
<1>4. ASSUME AVR_Decoder_Function(w) \in {"Register_Pair_5bit", "MUL"}
      PROVE  Fields(w) = [Rr |-> RrOf(w), Rd |-> RdOf(w)]
  BY <1>1, <1>4 DEF RegisterFormats, RegisterFormat
<1>5. ASSUME AVR_Decoder_Function(w) \in {"Register_Immediate", "LDI"}
      PROVE  Fields(w) = [K |-> KOf(w), Rd |-> Field(w, 7, 4) + 16]
  BY <1>1, <1>5 DEF RegisterFormats, RegisterFormat
<1>6. ASSUME AVR_Decoder_Function(w) \in {"LDST", "Register_Single", "DEC_Rd"}
      PROVE  Fields(w) = [Rd |-> RdOf(w)]
  BY <1>1, <1>6 DEF RegisterFormats, RegisterFormat
<1>7. ASSUME AVR_Decoder_Function(w) \in {"LDST_YZ_k"}
      PROVE  Fields(w) = [q |-> Field(w, 2, 0) + 8 * Field(w, 11, 10) + 32 * Field(w, 13, 13),
               Rd |-> RdOf(w)]
  BY <1>1, <1>7 DEF RegisterFormats, RegisterFormat, AVR_Decoder_LDST_YZ_k
<1>8. ASSUME AVR_Decoder_Function(w) \in {"LDS_STS"}
      PROVE  Fields(w) = [Rd |-> RdOf(w), K |-> Second]
  BY <1>1, <1>8 DEF RegisterFormats, RegisterFormat
<1>9. ASSUME AVR_Decoder_Function(w) \in {"Register_SC"}
      PROVE  Fields(w) = [b |-> Field(w, 6, 4)]
  BY <1>1, <1>9 DEF RegisterFormats, OtherFormat
<1>10. ASSUME AVR_Decoder_Function(w) \in {"DES_round_4"}
      PROVE  Fields(w) = [K |-> Field(w, 7, 4)]
  BY <1>1, <1>10 DEF RegisterFormats, OtherFormat
<1>11. ASSUME AVR_Decoder_Function(w) \in {"JMP_CALL_22"}
      PROVE  Fields(w) = [k |-> 65536 * (Field(w, 0, 0) + 2 * Field(w, 8, 4)) + Second]
  BY <1>1, <1>11 DEF RegisterFormats, OtherFormat
<1>12. ASSUME AVR_Decoder_Function(w) \in {"ADIW_SBIW_6"}
      PROVE  Fields(w) = [K |-> Field(w, 3, 0) + 16 * Field(w, 7, 6), Rd16 |-> Field(w, 5, 4) + 12]
  BY <1>1, <1>12 DEF RegisterFormats, OtherFormat
<1>13. ASSUME AVR_Decoder_Function(w) \in {"IO_Bit"}
      PROVE  Fields(w) = [b |-> Field(w, 2, 0), A |-> Field(w, 7, 3)]
  BY <1>1, <1>13 DEF RegisterFormats, OtherFormat
<1>14. ASSUME AVR_Decoder_Function(w) \in {"IO_In_Out"}
      PROVE  Fields(w) = [A |-> Field(w, 3, 0) + 16 * Field(w, 10, 9), Rd |-> RdOf(w)]
  BY <1>1, <1>14 DEF RegisterFormats, OtherFormat
<1>15. ASSUME AVR_Decoder_Function(w) \in {"Relative_Jump"}
      PROVE  Fields(w) = [k_s |-> SignedField(w, 11, 0)]
  BY <1>1, <1>15 DEF RegisterFormats, OtherFormat
<1>16. ASSUME AVR_Decoder_Function(w) \in {"Conditional_Branch"}
      PROVE  Fields(w) = [b |-> Field(w, 2, 0), k_s |-> SignedField(w, 9, 3)]
  BY <1>1, <1>16 DEF RegisterFormats, OtherFormat
<1>17. ASSUME AVR_Decoder_Function(w) \in {"BLD_BST", "SBRC_SBRS"}
      PROVE  Fields(w) = [b |-> Field(w, 2, 0), Rd |-> RdOf(w)]
  BY <1>1, <1>17 DEF RegisterFormats, OtherFormat
<1>18. ASSUME AVR_Decoder_Function(w) \in {"NOP", "Misc", "Indirect_Jump"}
      PROVE  Fields(w) = <<>>
  BY <1>1, <1>18 DEF RegisterFormats, OtherFormat
<1>. QED  BY <1>2, <1>3, <1>4, <1>5, <1>6, <1>7, <1>8, <1>9, <1>10, <1>11, <1>12, <1>13, <1>14,
             <1>15, <1>16, <1>17, <1>18

----------------------------------------------------------------------------
(* Every function is paired with a format that sets what it reads.        *)

\* The words that a switch has a case for reach a format that sets what it reads.
LEMMA Pairing2 ==
    ASSUME NEW w \in Words, NEW n, Finds(FunctionSwitches[2], w, n)
    PROVE  /\ n \in {"BSET", "BCLR"}
           /\ D3(w) = 9 /\ D2(w) = 4 /\ D0(w) = 8
           /\ Fields(w) = [b |-> Field(w, 6, 4)]
           /\ \A l : <<n, l>> \in FunctionReads <=> l \in {"b"}
<1>1. D0(w) \in Nibble /\ D1(w) \in Nibble /\ D2(w) \in Nibble /\ D3(w) \in Nibble
  BY Digits
<1>2. AVR_Decoder_Function(w) = FormatByDigits(w, \h2F00)
  BY FormatOf DEF AVR_Decoder_Function
<1>3. ASSUME n \in {"BSET", "BCLR"}, D3(w) = 9 /\ D2(w) = 4 /\ D0(w) = 8
      PROVE  /\ Fields(w) = [b |-> Field(w, 6, 4)]
             /\ \A l : <<n, l>> \in FunctionReads <=> l \in {"b"}
  <2>1. AVR_Decoder_Function(w) \in {"Register_SC"}
    BY <1>1, <1>2, <1>3 DEF FormatByDigits, Nibble
  <2>2. Fields(w) = [b |-> Field(w, 6, 4)]
    BY <2>1, FieldsByFormat
  <2>. QED  BY <1>3, <2>2, ReadSets
<1>. QED  BY Switch2, <1>3

LEMMA Pairing3 ==
    ASSUME NEW w \in Words, NEW n, Finds(FunctionSwitches[3], w, n)
    PROVE  /\ n \in {"MULSU", "FMUL", "FMULS", "FMULSU"}
           /\ D3(w) = 0 /\ D2(w) = 3
           /\ Fields(w) = [Rr |-> Field(w, 2, 0) + 16, Rd |-> Field(w, 6, 4) + 16]
           /\ \A l : <<n, l>> \in FunctionReads <=> l \in {"Rd", "Rr"}
<1>1. D0(w) \in Nibble /\ D1(w) \in Nibble /\ D2(w) \in Nibble /\ D3(w) \in Nibble
  BY Digits
<1>2. AVR_Decoder_Function(w) = FormatByDigits(w, \h2F00)
  BY FormatOf DEF AVR_Decoder_Function
<1>3. ASSUME n \in {"MULSU", "FMUL", "FMULS", "FMULSU"}, D3(w) = 0 /\ D2(w) = 3
      PROVE  /\ Fields(w) = [Rr |-> Field(w, 2, 0) + 16, Rd |-> Field(w, 6, 4) + 16]
             /\ \A l : <<n, l>> \in FunctionReads <=> l \in {"Rd", "Rr"}
  <2>1. AVR_Decoder_Function(w) \in {"Register_Pair_3bit"}
    BY <1>1, <1>2, <1>3 DEF FormatByDigits, Nibble
  <2>2. Fields(w) = [Rr |-> Field(w, 2, 0) + 16, Rd |-> Field(w, 6, 4) + 16]
    BY <2>1, FieldsByFormat
  <2>. QED  BY <1>3, <2>2, ReadSets
<1>. QED  BY Switch3, <1>3

LEMMA Pairing4 ==
    ASSUME NEW w \in Words, NEW n, Finds(FunctionSwitches[4], w, n)
    PROVE  \/ /\ n \in {"DES"}
              /\ D3(w) = 9 /\ D2(w) = 4 /\ D0(w) = 11
              /\ Fields(w) = [K |-> Field(w, 7, 4)]
              /\ \A l : <<n, l>> \in FunctionReads <=> l \in {}
           \/ /\ n \in {"SER"}
              /\ D3(w) = 14 /\ D2(w) = 15 /\ D0(w) = 15
              /\ Fields(w) = [K |-> KOf(w), Rd |-> Field(w, 7, 4) + 16]
              /\ \A l : <<n, l>> \in FunctionReads <=> l \in {"Rd"}
<1>1. D0(w) \in Nibble /\ D1(w) \in Nibble /\ D2(w) \in Nibble /\ D3(w) \in Nibble
  BY Digits
<1>2. AVR_Decoder_Function(w) = FormatByDigits(w, \h2F00)
  BY FormatOf DEF AVR_Decoder_Function
<1>3. ASSUME n \in {"DES"}, D3(w) = 9 /\ D2(w) = 4 /\ D0(w) = 11
      PROVE  /\ Fields(w) = [K |-> Field(w, 7, 4)]
             /\ \A l : <<n, l>> \in FunctionReads <=> l \in {}
  <2>1. AVR_Decoder_Function(w) \in {"DES_round_4"}
    BY <1>1, <1>2, <1>3 DEF FormatByDigits, Nibble
  <2>2. Fields(w) = [K |-> Field(w, 7, 4)]
    BY <2>1, FieldsByFormat
  <2>. QED  BY <1>3, <2>2, ReadSets
<1>4. ASSUME n \in {"SER"}, D3(w) = 14 /\ D2(w) = 15 /\ D0(w) = 15
      PROVE  /\ Fields(w) = [K |-> KOf(w), Rd |-> Field(w, 7, 4) + 16]
             /\ \A l : <<n, l>> \in FunctionReads <=> l \in {"Rd"}
  <2>1. AVR_Decoder_Function(w) \in {"LDI"}
    BY <1>1, <1>2, <1>4 DEF FormatByDigits, Nibble
  <2>2. Fields(w) = [K |-> KOf(w), Rd |-> Field(w, 7, 4) + 16]
    BY <2>1, FieldsByFormat
  <2>. QED  BY <1>4, <2>2, ReadSets
<1>. QED  BY Switch4, <1>3, <1>4

LEMMA Pairing5 ==
    ASSUME NEW w \in Words, NEW n, Finds(FunctionSwitches[5], w, n)
    PROVE  \/ /\ n \in {"MOVW"}
              /\ D3(w) = 0 /\ D2(w) = 1
              /\ Fields(w) = [Rr16 |-> Field(w, 3, 0), Rd16 |-> Field(w, 7, 4)]
              /\ \A l : <<n, l>> \in FunctionReads <=> l \in {"Rd16", "Rr16"}
           \/ /\ n \in {"ADIW", "SBIW"}
              /\ D3(w) = 9 /\ D2(w) \in {6, 7}
              /\ Fields(w) = [K |-> Field(w, 3, 0) + 16 * Field(w, 7, 6),
                   Rd16 |-> Field(w, 5, 4) + 12]
              /\ \A l : <<n, l>> \in FunctionReads <=> l \in {"Rd16", "K"}
           \/ /\ n \in {"CBI", "SBIC", "SBI", "SBIS"}
              /\ D3(w) = 9 /\ D2(w) \in 8 .. 11
              /\ Fields(w) = [b |-> Field(w, 2, 0), A |-> Field(w, 7, 3)]
              /\ \A l : <<n, l>> \in FunctionReads <=> l \in {"A", "b"}
<1>1. D0(w) \in Nibble /\ D1(w) \in Nibble /\ D2(w) \in Nibble /\ D3(w) \in Nibble
  BY Digits
<1>2. AVR_Decoder_Function(w) = FormatByDigits(w, \h2F00)
  BY FormatOf DEF AVR_Decoder_Function
<1>3. ASSUME n \in {"MOVW"}, D3(w) = 0 /\ D2(w) = 1
      PROVE  /\ Fields(w) = [Rr16 |-> Field(w, 3, 0), Rd16 |-> Field(w, 7, 4)]
             /\ \A l : <<n, l>> \in FunctionReads <=> l \in {"Rd16", "Rr16"}
  <2>1. AVR_Decoder_Function(w) \in {"Register_Pair_4bit"}
    BY <1>1, <1>2, <1>3 DEF FormatByDigits, Nibble
  <2>2. Fields(w) = [Rr16 |-> Field(w, 3, 0), Rd16 |-> Field(w, 7, 4)]
    BY <2>1, FieldsByFormat
  <2>. QED  BY <1>3, <2>2, ReadSets
<1>4. ASSUME n \in {"ADIW", "SBIW"}, D3(w) = 9 /\ D2(w) \in {6, 7}
      PROVE  /\ Fields(w) = [K |-> Field(w, 3, 0) + 16 * Field(w, 7, 6),
                  Rd16 |-> Field(w, 5, 4) + 12]
             /\ \A l : <<n, l>> \in FunctionReads <=> l \in {"Rd16", "K"}
  <2>1. AVR_Decoder_Function(w) \in {"ADIW_SBIW_6"}
    BY <1>1, <1>2, <1>4 DEF FormatByDigits, Nibble
  <2>2. Fields(w) = [K |-> Field(w, 3, 0) + 16 * Field(w, 7, 6), Rd16 |-> Field(w, 5, 4) + 12]
    BY <2>1, FieldsByFormat
  <2>. QED  BY <1>4, <2>2, ReadSets
<1>5. ASSUME n \in {"CBI", "SBIC", "SBI", "SBIS"}, D3(w) = 9 /\ D2(w) \in 8 .. 11
      PROVE  /\ Fields(w) = [b |-> Field(w, 2, 0), A |-> Field(w, 7, 3)]
             /\ \A l : <<n, l>> \in FunctionReads <=> l \in {"A", "b"}
  <2>1. AVR_Decoder_Function(w) \in {"IO_Bit"}
    BY <1>1, <1>2, <1>5 DEF FormatByDigits, Nibble
  <2>2. Fields(w) = [b |-> Field(w, 2, 0), A |-> Field(w, 7, 3)]
    BY <2>1, FieldsByFormat
  <2>. QED  BY <1>5, <2>2, ReadSets
<1>. QED  BY Switch5, <1>3, <1>4, <1>5

LEMMA Pairing6 ==
    ASSUME NEW w \in Words, NEW n, Finds(FunctionSwitches[6], w, n)
    PROVE  \/ /\ n \in {"LD_Y_Indirect", "LD_Z_Indirect", "ST_Z_Indirect", "ST_Y_Indirect"}
              /\ D3(w) = 8
              /\ Fields(w) = [q |-> Field(w, 2, 0) + 8 * Field(w, 11, 10) + 32 * Field(w, 13, 13),
                   Rd |-> RdOf(w)]
              /\ \A l : <<n, l>> \in FunctionReads <=> l \in {"Rd"}
           \/ /\ n \in {"LDS", "STS"}
              /\ D3(w) = 9 /\ D2(w) <= 3 /\ D0(w) = 0
              /\ Fields(w) = [Rd |-> RdOf(w), K |-> Second]
              /\ \A l : <<n, l>> \in FunctionReads <=> l \in {"Rd", "K"}
           \/ /\ n \in {"LD_Z_Indirect_Postinc", "LD_Z_Indirect_Predec", "LPM_Z",
                      "LPM_Z_Postinc", "ELPM_Z", "ELPM_Z_Postinc", "LD_Y_Indirect_Postinc",
                      "LD_Y_Indirect_Predec", "LD_X_Indirect", "LD_X_Indirect_Postinc",
                      "LD_X_Indirect_Predec", "POP", "ST_Z_Indirect_Postinc",
                      "ST_Z_Indirect_Predec", "XCH", "LAS", "LAC", "LAT",
                      "ST_Y_Indirect_Postinc", "ST_Y_Indirect_Predec", "ST_X_Indirect",
                      "ST_X_Indirect_Postinc", "ST_X_Indirect_Predec", "PUSH"}
              /\ D3(w) = 9 /\ D2(w) <= 3 /\ D0(w) # 0
              /\ Fields(w) = [Rd |-> RdOf(w)]
              /\ \A l : <<n, l>> \in FunctionReads <=> l \in {"Rd"}
           \/ /\ n \in {"COM", "NEG", "SWAP", "INC", "ASR", "LSR", "ROR", "DEC"}
              /\ D3(w) = 9 /\ D2(w) \in {4, 5} /\ (D0(w) < 8 \/ D0(w) = 10)
              /\ Fields(w) = [Rd |-> RdOf(w)]
              /\ \A l : <<n, l>> \in FunctionReads <=> l \in {"Rd"}
<1>1. D0(w) \in Nibble /\ D1(w) \in Nibble /\ D2(w) \in Nibble /\ D3(w) \in Nibble
  BY Digits
<1>2. AVR_Decoder_Function(w) = FormatByDigits(w, \h2F00)
  BY FormatOf DEF AVR_Decoder_Function
<1>3. ASSUME n \in {"LD_Y_Indirect", "LD_Z_Indirect", "ST_Z_Indirect", "ST_Y_Indirect"}, D3(w) = 8
      PROVE  /\ Fields(w) = [q |-> Field(w, 2, 0) + 8 * Field(w, 11, 10) + 32 * Field(w, 13, 13),
                  Rd |-> RdOf(w)]
             /\ \A l : <<n, l>> \in FunctionReads <=> l \in {"Rd"}
  <2>1. AVR_Decoder_Function(w) \in {"LDST_YZ_k"}
    BY <1>1, <1>2, <1>3 DEF FormatByDigits, Nibble
  <2>2. Fields(w) = [q |-> Field(w, 2, 0) + 8 * Field(w, 11, 10) + 32 * Field(w, 13, 13),
          Rd |-> RdOf(w)]
    BY <2>1, FieldsByFormat
  <2>. QED  BY <1>3, <2>2, ReadSets
<1>4. ASSUME n \in {"LDS", "STS"}, D3(w) = 9 /\ D2(w) <= 3 /\ D0(w) = 0
      PROVE  /\ Fields(w) = [Rd |-> RdOf(w), K |-> Second]
             /\ \A l : <<n, l>> \in FunctionReads <=> l \in {"Rd", "K"}
  <2>1. AVR_Decoder_Function(w) \in {"LDS_STS"}
    BY <1>1, <1>2, <1>4 DEF FormatByDigits, Nibble
  <2>2. Fields(w) = [Rd |-> RdOf(w), K |-> Second]
    BY <2>1, FieldsByFormat
  <2>. QED  BY <1>4, <2>2, ReadSets
<1>5. ASSUME n \in {"LD_Z_Indirect_Postinc", "LD_Z_Indirect_Predec", "LPM_Z",
                    "LPM_Z_Postinc", "ELPM_Z", "ELPM_Z_Postinc", "LD_Y_Indirect_Postinc",
                    "LD_Y_Indirect_Predec", "LD_X_Indirect", "LD_X_Indirect_Postinc",
                    "LD_X_Indirect_Predec", "POP", "ST_Z_Indirect_Postinc",
                    "ST_Z_Indirect_Predec", "XCH", "LAS", "LAC", "LAT",
                    "ST_Y_Indirect_Postinc", "ST_Y_Indirect_Predec", "ST_X_Indirect",
                    "ST_X_Indirect_Postinc", "ST_X_Indirect_Predec", "PUSH"}, D3(w) = 9 /\
                        D2(w) <= 3 /\ D0(w) # 0
      PROVE  /\ Fields(w) = [Rd |-> RdOf(w)]
             /\ \A l : <<n, l>> \in FunctionReads <=> l \in {"Rd"}
  <2>1. AVR_Decoder_Function(w) \in {"LDST"}
    BY <1>1, <1>2, <1>5 DEF FormatByDigits, Nibble
  <2>2. Fields(w) = [Rd |-> RdOf(w)]
    BY <2>1, FieldsByFormat
  <2>. QED  BY <1>5, <2>2, ReadSets
<1>6. ASSUME n \in {"COM", "NEG", "SWAP", "INC", "ASR", "LSR", "ROR", "DEC"}, D3(w) = 9 /\
               D2(w) \in {4, 5} /\ (D0(w) < 8 \/ D0(w) = 10)
      PROVE  /\ Fields(w) = [Rd |-> RdOf(w)]
             /\ \A l : <<n, l>> \in FunctionReads <=> l \in {"Rd"}
  <2>1. AVR_Decoder_Function(w) \in {"Register_Single", "DEC_Rd"}
    BY <1>1, <1>2, <1>6 DEF FormatByDigits, Nibble
  <2>2. Fields(w) = [Rd |-> RdOf(w)]
    BY <2>1, FieldsByFormat
  <2>. QED  BY <1>6, <2>2, ReadSets
<1>. QED  BY Switch6, <1>3, <1>4, <1>5, <1>6

LEMMA Pairing7 ==
    ASSUME NEW w \in Words, NEW n, Finds(FunctionSwitches[7], w, n)
    PROVE  /\ n \in {"JMP", "CALL"}
           /\ D3(w) = 9 /\ D2(w) \in {4, 5} /\ D0(w) >= 12
           /\ Fields(w) = [k |-> 65536 * (Field(w, 0, 0) + 2 * Field(w, 8, 4)) + Second]
           /\ \A l : <<n, l>> \in FunctionReads <=> l \in {"k"}
<1>1. D0(w) \in Nibble /\ D1(w) \in Nibble /\ D2(w) \in Nibble /\ D3(w) \in Nibble
  BY Digits
<1>2. AVR_Decoder_Function(w) = FormatByDigits(w, \h2F00)
  BY FormatOf DEF AVR_Decoder_Function
<1>3. ASSUME n \in {"JMP", "CALL"}, D3(w) = 9 /\ D2(w) \in {4, 5} /\ D0(w) >= 12
      PROVE  /\ Fields(w) = [k |-> 65536 * (Field(w, 0, 0) + 2 * Field(w, 8, 4)) + Second]
             /\ \A l : <<n, l>> \in FunctionReads <=> l \in {"k"}
  <2>1. AVR_Decoder_Function(w) \in {"JMP_CALL_22"}
    BY <1>1, <1>2, <1>3 DEF FormatByDigits, Nibble
  <2>2. Fields(w) = [k |-> 65536 * (Field(w, 0, 0) + 2 * Field(w, 8, 4)) + Second]
    BY <2>1, FieldsByFormat
  <2>. QED  BY <1>3, <2>2, ReadSets
<1>. QED  BY Switch7, <1>3

LEMMA Pairing8 ==
    ASSUME NEW w \in Words, NEW n, Finds(FunctionSwitches[8], w, n)
    PROVE  /\ n \in {"BLD", "BST", "SBRC", "SBRS"}
           /\ D3(w) = 15 /\ D2(w) >= 8
           /\ Fields(w) = [b |-> Field(w, 2, 0), Rd |-> RdOf(w)]
           /\ \A l : <<n, l>> \in FunctionReads <=> l \in {"Rd", "b"}
<1>1. D0(w) \in Nibble /\ D1(w) \in Nibble /\ D2(w) \in Nibble /\ D3(w) \in Nibble
  BY Digits
<1>2. AVR_Decoder_Function(w) = FormatByDigits(w, \h2F00)
  BY FormatOf DEF AVR_Decoder_Function
<1>3. ASSUME n \in {"BLD", "BST", "SBRC", "SBRS"}, D3(w) = 15 /\ D2(w) >= 8
      PROVE  /\ Fields(w) = [b |-> Field(w, 2, 0), Rd |-> RdOf(w)]
             /\ \A l : <<n, l>> \in FunctionReads <=> l \in {"Rd", "b"}
  <2>1. AVR_Decoder_Function(w) \in {"BLD_BST", "SBRC_SBRS"}
    BY <1>1, <1>2, <1>3 DEF FormatByDigits, Nibble
  <2>2. Fields(w) = [b |-> Field(w, 2, 0), Rd |-> RdOf(w)]
    BY <2>1, FieldsByFormat
  <2>. QED  BY <1>3, <2>2, ReadSets
<1>. QED  BY Switch8, <1>3

LEMMA Pairing9 ==
    ASSUME NEW w \in Words, NEW n, Finds(FunctionSwitches[9], w, n)
    PROVE  /\ n \in {"BRCS", "BREQ", "BRMI", "BRVS", "BRLT", "BRTS", "BRIE", "BRCC", "BRNE",
                   "BRPL", "BRVC", "BRGE", "BRHC", "BRTC", "BRID"}
           /\ D3(w) = 15 /\ D2(w) < 8
           /\ Fields(w) = [b |-> Field(w, 2, 0), k_s |-> SignedField(w, 9, 3)]
           /\ \A l : <<n, l>> \in FunctionReads <=> l \in {"k_s"}
<1>1. D0(w) \in Nibble /\ D1(w) \in Nibble /\ D2(w) \in Nibble /\ D3(w) \in Nibble
  BY Digits
<1>2. AVR_Decoder_Function(w) = FormatByDigits(w, \h2F00)
  BY FormatOf DEF AVR_Decoder_Function
<1>3. ASSUME n \in {"BRCS", "BREQ", "BRMI", "BRVS", "BRLT", "BRTS", "BRIE", "BRCC",
                    "BRNE", "BRPL", "BRVC", "BRGE", "BRHC", "BRTC", "BRID"}, D3(w) = 15 /\ D2(w) < 8
      PROVE  /\ Fields(w) = [b |-> Field(w, 2, 0), k_s |-> SignedField(w, 9, 3)]
             /\ \A l : <<n, l>> \in FunctionReads <=> l \in {"k_s"}
  <2>1. AVR_Decoder_Function(w) \in {"Conditional_Branch"}
    BY <1>1, <1>2, <1>3 DEF FormatByDigits, Nibble
  <2>2. Fields(w) = [b |-> Field(w, 2, 0), k_s |-> SignedField(w, 9, 3)]
    BY <2>1, FieldsByFormat
  <2>. QED  BY <1>3, <2>2, ReadSets
<1>. QED  BY Switch9, <1>3

LEMMA Pairing10 ==
    ASSUME NEW w \in Words, NEW n, Finds(FunctionSwitches[10], w, n)
    PROVE  \/ /\ n \in {"MUL"}
              /\ D3(w) = 9 /\ D2(w) >= 12
              /\ Fields(w) = [Rr |-> RrOf(w), Rd |-> RdOf(w)]
              /\ \A l : <<n, l>> \in FunctionReads <=> l \in {"Rd", "Rr"}
           \/ /\ n \in {"CPC", "SBC", "ADD", "CPSE", "CP", "ADC", "SUB", "AND", "EOR",
                      "MOV", "OR"}
              /\ (D3(w) \in {1, 2} \/ (D3(w) = 0 /\ D2(w) >= 4))
              /\ Fields(w) = [Rr |-> RrOf(w), Rd |-> RdOf(w)]
              /\ \A l : <<n, l>> \in FunctionReads <=> l \in {"Rd", "Rr"}
<1>1. D0(w) \in Nibble /\ D1(w) \in Nibble /\ D2(w) \in Nibble /\ D3(w) \in Nibble
  BY Digits
<1>2. AVR_Decoder_Function(w) = FormatByDigits(w, \h2F00)
  BY FormatOf DEF AVR_Decoder_Function
<1>3. ASSUME n \in {"MUL"}, D3(w) = 9 /\ D2(w) >= 12
      PROVE  /\ Fields(w) = [Rr |-> RrOf(w), Rd |-> RdOf(w)]
             /\ \A l : <<n, l>> \in FunctionReads <=> l \in {"Rd", "Rr"}
  <2>1. AVR_Decoder_Function(w) \in {"MUL"}
    BY <1>1, <1>2, <1>3 DEF FormatByDigits, Nibble
  <2>2. Fields(w) = [Rr |-> RrOf(w), Rd |-> RdOf(w)]
    BY <2>1, FieldsByFormat
  <2>. QED  BY <1>3, <2>2, ReadSets
<1>4. ASSUME n \in {"CPC", "SBC", "ADD", "CPSE", "CP", "ADC", "SUB", "AND", "EOR", "MOV",
                    "OR"}, (D3(w) \in {1, 2} \/ (D3(w) = 0 /\ D2(w) >= 4))
      PROVE  /\ Fields(w) = [Rr |-> RrOf(w), Rd |-> RdOf(w)]
             /\ \A l : <<n, l>> \in FunctionReads <=> l \in {"Rd", "Rr"}
  <2>1. AVR_Decoder_Function(w) \in {"Register_Pair_5bit"}
    BY <1>1, <1>2, <1>4 DEF FormatByDigits, Nibble
  <2>2. Fields(w) = [Rr |-> RrOf(w), Rd |-> RdOf(w)]
    BY <2>1, FieldsByFormat
  <2>. QED  BY <1>4, <2>2, ReadSets
<1>. QED  BY Switch10, <1>3, <1>4

LEMMA Pairing11 ==
    ASSUME NEW w \in Words, NEW n, Finds(FunctionSwitches[11], w, n)
    PROVE  /\ n \in {"IN", "OUT"}
           /\ D3(w) = 11
           /\ Fields(w) = [A |-> Field(w, 3, 0) + 16 * Field(w, 10, 9), Rd |-> RdOf(w)]
           /\ \A l : <<n, l>> \in FunctionReads <=> l \in {"Rd", "A"}
<1>1. D0(w) \in Nibble /\ D1(w) \in Nibble /\ D2(w) \in Nibble /\ D3(w) \in Nibble
  BY Digits
<1>2. AVR_Decoder_Function(w) = FormatByDigits(w, \h2F00)
  BY FormatOf DEF AVR_Decoder_Function
<1>3. ASSUME n \in {"IN", "OUT"}, D3(w) = 11
      PROVE  /\ Fields(w) = [A |-> Field(w, 3, 0) + 16 * Field(w, 10, 9), Rd |-> RdOf(w)]
             /\ \A l : <<n, l>> \in FunctionReads <=> l \in {"Rd", "A"}
  <2>1. AVR_Decoder_Function(w) \in {"IO_In_Out"}
    BY <1>1, <1>2, <1>3 DEF FormatByDigits, Nibble
  <2>2. Fields(w) = [A |-> Field(w, 3, 0) + 16 * Field(w, 10, 9), Rd |-> RdOf(w)]
    BY <2>1, FieldsByFormat
  <2>. QED  BY <1>3, <2>2, ReadSets
<1>. QED  BY Switch11, <1>3

LEMMA Pairing12 ==
    ASSUME NEW w \in Words, NEW n, Finds(FunctionSwitches[12], w, n)
    PROVE  \/ /\ n \in {"CPI", "SBCI", "SUBI", "ORI", "ANDI"}
              /\ D3(w) \in 3 .. 7
              /\ Fields(w) = [K |-> KOf(w), Rd |-> Field(w, 7, 4) + 16]
              /\ \A l : <<n, l>> \in FunctionReads <=> l \in {"Rd", "K"}
           \/ /\ n \in {"RJMP", "RCALL"}
              /\ D3(w) \in {12, 13}
              /\ Fields(w) = [k_s |-> SignedField(w, 11, 0)]
              /\ \A l : <<n, l>> \in FunctionReads <=> l \in {"k_s"}
           \/ /\ n \in {"LDI"}
              /\ D3(w) = 14
              /\ Fields(w) = [K |-> KOf(w), Rd |-> Field(w, 7, 4) + 16]
              /\ \A l : <<n, l>> \in FunctionReads <=> l \in {"Rd", "K"}
<1>1. D0(w) \in Nibble /\ D1(w) \in Nibble /\ D2(w) \in Nibble /\ D3(w) \in Nibble
  BY Digits
<1>2. AVR_Decoder_Function(w) = FormatByDigits(w, \h2F00)
  BY FormatOf DEF AVR_Decoder_Function
<1>3. ASSUME n \in {"CPI", "SBCI", "SUBI", "ORI", "ANDI"}, D3(w) \in 3 .. 7
      PROVE  /\ Fields(w) = [K |-> KOf(w), Rd |-> Field(w, 7, 4) + 16]
             /\ \A l : <<n, l>> \in FunctionReads <=> l \in {"Rd", "K"}
  <2>1. AVR_Decoder_Function(w) \in {"Register_Immediate"}
    BY <1>1, <1>2, <1>3 DEF FormatByDigits, Nibble
  <2>2. Fields(w) = [K |-> KOf(w), Rd |-> Field(w, 7, 4) + 16]
    BY <2>1, FieldsByFormat
  <2>. QED  BY <1>3, <2>2, ReadSets
<1>4. ASSUME n \in {"RJMP", "RCALL"}, D3(w) \in {12, 13}
      PROVE  /\ Fields(w) = [k_s |-> SignedField(w, 11, 0)]
             /\ \A l : <<n, l>> \in FunctionReads <=> l \in {"k_s"}
  <2>1. AVR_Decoder_Function(w) \in {"Relative_Jump"}
    BY <1>1, <1>2, <1>4 DEF FormatByDigits, Nibble
  <2>2. Fields(w) = [k_s |-> SignedField(w, 11, 0)]
    BY <2>1, FieldsByFormat
  <2>. QED  BY <1>4, <2>2, ReadSets
<1>5. ASSUME n \in {"LDI"}, D3(w) = 14
      PROVE  /\ Fields(w) = [K |-> KOf(w), Rd |-> Field(w, 7, 4) + 16]
             /\ \A l : <<n, l>> \in FunctionReads <=> l \in {"Rd", "K"}
  <2>1. AVR_Decoder_Function(w) \in {"LDI"}
    BY <1>1, <1>2, <1>5 DEF FormatByDigits, Nibble
  <2>2. Fields(w) = [K |-> KOf(w), Rd |-> Field(w, 7, 4) + 16]
    BY <2>1, FieldsByFormat
  <2>. QED  BY <1>5, <2>2, ReadSets
<1>. QED  BY Switch12, <1>3, <1>4, <1>5

LEMMA Pairing13 ==
    ASSUME NEW w \in Words, NEW n, Finds(FunctionSwitches[13], w, n)
    PROVE  /\ n \in {"LDD_Z", "LDD_Y", "STD_Z", "STD_Y"}
           /\ D3(w) \in {8, 10}
           /\ Fields(w) = [q |-> Field(w, 2, 0) + 8 * Field(w, 11, 10) + 32 * Field(w, 13, 13),
                Rd |-> RdOf(w)]
           /\ \A l : <<n, l>> \in FunctionReads <=> l \in {"Rd", "q"}
<1>1. D0(w) \in Nibble /\ D1(w) \in Nibble /\ D2(w) \in Nibble /\ D3(w) \in Nibble
  BY Digits
<1>2. AVR_Decoder_Function(w) = FormatByDigits(w, \h2F00)
  BY FormatOf DEF AVR_Decoder_Function
<1>3. ASSUME n \in {"LDD_Z", "LDD_Y", "STD_Z", "STD_Y"}, D3(w) \in {8, 10}
      PROVE  /\ Fields(w) = [q |-> Field(w, 2, 0) + 8 * Field(w, 11, 10) + 32 * Field(w, 13, 13),
                  Rd |-> RdOf(w)]
             /\ \A l : <<n, l>> \in FunctionReads <=> l \in {"Rd", "q"}
  <2>1. AVR_Decoder_Function(w) \in {"LDST_YZ_k"}
    BY <1>1, <1>2, <1>3 DEF FormatByDigits, Nibble
  <2>2. Fields(w) = [q |-> Field(w, 2, 0) + 8 * Field(w, 11, 10) + 32 * Field(w, 13, 13),
          Rd |-> RdOf(w)]
    BY <2>1, FieldsByFormat
  <2>. QED  BY <1>3, <2>2, ReadSets
<1>. QED  BY Switch13, <1>3

\* The mark for a second word is neither a byte nor the mark for stale operands.
LEMMA SecondBounds ==
    Second \in Int /\ 256 <= Second /\ Second < 65536 /\ Second # -5000
<1> DEFINE low == 256
           high == 60535
<1>1. Second \in low .. high
  BY OpcodesAssumption
<1>2. low \in Int /\ high \in Int /\ low = 256 /\ \A x \in Int : x <= high => x < 65536
  OBVIOUS
<1> HIDE DEF low, high
<1>3. Second \in Int /\ low <= Second /\ Second <= high
  BY <1>1, <1>2
<1>. QED  BY <1>2, <1>3

\* No latch is set to the marks for stale operands or for a second word.
LEMMA FieldRanges ==
    ASSUME NEW w \in Words
    PROVE  LET fields == Fields(w)
               format == AVR_Decoder_Function(w)
           IN  /\ \A l \in DOMAIN fields : fields[l] # Stale
               /\ "K" \in DOMAIN fields /\ fields["K"] = Second <=> format = "LDS_STS"
               /\ "k" \in DOMAIN fields /\ fields["k"] % 65536 = Second <=> format = "JMP_CALL_22"
<1>1. D0(w) \in Nibble /\ D1(w) \in Nibble /\ D2(w) \in Nibble /\ D3(w) \in Nibble
  BY Digits
<1>2. Second \in Int /\ 256 <= Second /\ Second < 65536 /\ Second # -5000
  BY SecondBounds
<1>3. AVR_Decoder_Function(w) = FormatByDigits(w, \h2F00)
  BY FormatOf DEF AVR_Decoder_Function
<1>4. /\ RdOf(w) \in 0 .. 31 /\ RrOf(w) \in 0 .. 31 /\ KOf(w) \in 0 .. 255
      /\ -2048 <= SignedField(w, 11, 0) /\ SignedField(w, 11, 0) \in Int
      /\ -64 <= SignedField(w, 9, 3) /\ SignedField(w, 9, 3) \in Int
  <2>1. RdOf(w) \in 0 .. 31
    BY <1>1, FieldDigits DEF RdOf, Nibble
  <2>2. RrOf(w) \in 0 .. 31
    BY <1>1, FieldDigits DEF RrOf, Nibble
  <2>3. KOf(w) \in 0 .. 255
    BY <1>1, FieldDigits DEF KOf, Nibble
  <2>4. Field(w, 11, 0) \in Nat /\ Field(w, 9, 3) \in Nat
    <3>1. Field(w, 11, 0) \in Nat
      BY <1>1, FieldDigits DEF Nibble
    <3>2. Field(w, 9, 3) \in Nat
      BY <1>1, FieldDigits DEF Nibble
    <3>. QED  BY <3>1, <3>2
  <2>5. 2 ^ (11 - 0) = 2048 /\ 2 ^ (9 - 3) = 64
    OBVIOUS
  <2>6. -2048 <= SignedField(w, 11, 0) /\ SignedField(w, 11, 0) \in Int
    BY <2>4, <2>5 DEF SignedField
  <2>7. -64 <= SignedField(w, 9, 3) /\ SignedField(w, 9, 3) \in Int
    BY <2>4, <2>5 DEF SignedField
  <2>. QED  BY <2>1, <2>2, <2>3, <2>6, <2>7
<1>5. \A field \in {Field(w, 3, 0), Field(w, 7, 4), Field(w, 2, 0), Field(w, 6, 4),
        Field(w, 11, 10),
                   Field(w, 13, 13), Field(w, 7, 6), Field(w, 5, 4), Field(w, 7, 3),
                       Field(w, 10, 9),
                   Field(w, 0, 0), Field(w, 8, 4)} : field \in 0 .. 31
  BY <1>1, FieldDigits DEF Nibble
<1> DEFINE Ranged == /\ \A l \in DOMAIN Fields(w) : Fields(w)[l] # Stale
                     /\ "K" \in DOMAIN Fields(w) /\ Fields(w)["K"] = Second
                           <=> AVR_Decoder_Function(w) = "LDS_STS"
                     /\ "k" \in DOMAIN Fields(w) /\ Fields(w)["k"] % 65536 = Second
                           <=> AVR_Decoder_Function(w) = "JMP_CALL_22"
<1>6. ASSUME AVR_Decoder_Function(w) \in {"Register_Pair_4bit"} PROVE Ranged
  <2>1. Fields(w) = [Rr16 |-> Field(w, 3, 0), Rd16 |-> Field(w, 7, 4)]
    BY <1>6, FieldsByFormat
  <2>. QED  BY <1>6, <1>2, <1>4, <1>5, <2>1 DEF Stale
<1>7. ASSUME AVR_Decoder_Function(w) \in {"Register_Pair_3bit"} PROVE Ranged
  <2>1. Fields(w) = [Rr |-> Field(w, 2, 0) + 16, Rd |-> Field(w, 6, 4) + 16]
    BY <1>7, FieldsByFormat
  <2>. QED  BY <1>7, <1>2, <1>4, <1>5, <2>1 DEF Stale
<1>8. ASSUME AVR_Decoder_Function(w) \in {"Register_Pair_5bit", "MUL"} PROVE Ranged
  <2>1. Fields(w) = [Rr |-> RrOf(w), Rd |-> RdOf(w)]
    BY <1>8, FieldsByFormat
  <2>. QED  BY <1>8, <1>2, <1>4, <1>5, <2>1 DEF Stale
<1>9. ASSUME AVR_Decoder_Function(w) \in {"Register_Immediate", "LDI"} PROVE Ranged
  <2>1. Fields(w) = [K |-> KOf(w), Rd |-> Field(w, 7, 4) + 16]
    BY <1>9, FieldsByFormat
  <2>. QED  BY <1>9, <1>2, <1>4, <1>5, <2>1 DEF Stale
<1>10. ASSUME AVR_Decoder_Function(w) \in {"LDST", "Register_Single", "DEC_Rd"} PROVE Ranged
  <2>1. Fields(w) = [Rd |-> RdOf(w)]
    BY <1>10, FieldsByFormat
  <2>. QED  BY <1>10, <1>2, <1>4, <1>5, <2>1 DEF Stale
<1>11. ASSUME AVR_Decoder_Function(w) \in {"LDST_YZ_k"} PROVE Ranged
  <2>1. Fields(w) = [q |-> Field(w, 2, 0) + 8 * Field(w, 11, 10) + 32 * Field(w, 13, 13),
          Rd |-> RdOf(w)]
    BY <1>11, FieldsByFormat
  <2>. QED  BY <1>11, <1>2, <1>4, <1>5, <2>1 DEF Stale
<1>12. ASSUME AVR_Decoder_Function(w) \in {"LDS_STS"} PROVE Ranged
  <2>1. Fields(w) = [Rd |-> RdOf(w), K |-> Second]
    BY <1>12, FieldsByFormat
  <2>. QED  BY <1>12, <1>2, <1>4, <1>5, <2>1 DEF Stale
<1>13. ASSUME AVR_Decoder_Function(w) \in {"Register_SC"} PROVE Ranged
  <2>1. Fields(w) = [b |-> Field(w, 6, 4)]
    BY <1>13, FieldsByFormat
  <2>. QED  BY <1>13, <1>2, <1>4, <1>5, <2>1 DEF Stale
<1>14. ASSUME AVR_Decoder_Function(w) \in {"DES_round_4"} PROVE Ranged
  <2>1. Fields(w) = [K |-> Field(w, 7, 4)]
    BY <1>14, FieldsByFormat
  <2>. QED  BY <1>14, <1>2, <1>4, <1>5, <2>1 DEF Stale
<1>15. ASSUME AVR_Decoder_Function(w) \in {"JMP_CALL_22"} PROVE Ranged
  <2>1. Fields(w) = [k |-> 65536 * (Field(w, 0, 0) + 2 * Field(w, 8, 4)) + Second]
    BY <1>15, FieldsByFormat
  <2> DEFINE high == Field(w, 0, 0) + 2 * Field(w, 8, 4)
             k == 65536 * high + Second
  <2>2. high \in Int /\ 0 <= high
    BY <1>5
  <2>3. k % 65536 = Second /\ k # -5000
    <3>. HIDE DEF high
    <3>. QED  BY <1>2, <2>2
  <2>4. Fields(w) = [k |-> k]
    BY <2>1
  <2>. HIDE DEF k, high
  <2>. QED  BY <1>15, <2>3, <2>4 DEF Stale
<1>16. ASSUME AVR_Decoder_Function(w) \in {"ADIW_SBIW_6"} PROVE Ranged
  <2>1. Fields(w) = [K |-> Field(w, 3, 0) + 16 * Field(w, 7, 6), Rd16 |-> Field(w, 5, 4) + 12]
    BY <1>16, FieldsByFormat
  <2>2. Field(w, 7, 6) \in 0 .. 3
    BY <1>1, FieldDigits DEF Nibble
  <2>. QED  BY <1>16, <1>2, <1>5, <2>1, <2>2 DEF Stale
<1>17. ASSUME AVR_Decoder_Function(w) \in {"IO_Bit"} PROVE Ranged
  <2>1. Fields(w) = [b |-> Field(w, 2, 0), A |-> Field(w, 7, 3)]
    BY <1>17, FieldsByFormat
  <2>. QED  BY <1>17, <1>2, <1>4, <1>5, <2>1 DEF Stale
<1>18. ASSUME AVR_Decoder_Function(w) \in {"IO_In_Out"} PROVE Ranged
  <2>1. Fields(w) = [A |-> Field(w, 3, 0) + 16 * Field(w, 10, 9), Rd |-> RdOf(w)]
    BY <1>18, FieldsByFormat
  <2>. QED  BY <1>18, <1>2, <1>4, <1>5, <2>1 DEF Stale
<1>19. ASSUME AVR_Decoder_Function(w) \in {"Relative_Jump"} PROVE Ranged
  <2>1. Fields(w) = [k_s |-> SignedField(w, 11, 0)]
    BY <1>19, FieldsByFormat
  <2>. QED  BY <1>19, <1>2, <1>4, <1>5, <2>1 DEF Stale
<1>20. ASSUME AVR_Decoder_Function(w) \in {"Conditional_Branch"} PROVE Ranged
  <2>1. Fields(w) = [b |-> Field(w, 2, 0), k_s |-> SignedField(w, 9, 3)]
    BY <1>20, FieldsByFormat
  <2>. QED  BY <1>20, <1>2, <1>4, <1>5, <2>1 DEF Stale
<1>21. ASSUME AVR_Decoder_Function(w) \in {"BLD_BST", "SBRC_SBRS"} PROVE Ranged
  <2>1. Fields(w) = [b |-> Field(w, 2, 0), Rd |-> RdOf(w)]
    BY <1>21, FieldsByFormat
  <2>. QED  BY <1>21, <1>2, <1>4, <1>5, <2>1 DEF Stale
<1>22. ASSUME AVR_Decoder_Function(w) \in {"NOP", "Misc", "Indirect_Jump"} PROVE Ranged
  <2>1. Fields(w) = <<>>
    BY <1>22, FieldsByFormat
  <2>. QED  BY <1>22, <1>2, <1>4, <1>5, <2>1 DEF Stale
<1>40. \/ AVR_Decoder_Function(w) \in {"Register_Pair_4bit"}
       \/ AVR_Decoder_Function(w) \in {"Register_Pair_3bit"}
       \/ AVR_Decoder_Function(w) \in {"Register_Pair_5bit", "MUL"}
       \/ AVR_Decoder_Function(w) \in {"Register_Immediate", "LDI"}
       \/ AVR_Decoder_Function(w) \in {"LDST", "Register_Single", "DEC_Rd"}
       \/ AVR_Decoder_Function(w) \in {"LDST_YZ_k"}
       \/ AVR_Decoder_Function(w) \in {"LDS_STS"}
       \/ AVR_Decoder_Function(w) \in {"Register_SC"}
       \/ AVR_Decoder_Function(w) \in {"DES_round_4"}
       \/ AVR_Decoder_Function(w) \in {"JMP_CALL_22"}
       \/ AVR_Decoder_Function(w) \in {"ADIW_SBIW_6"}
       \/ AVR_Decoder_Function(w) \in {"IO_Bit"}
       \/ AVR_Decoder_Function(w) \in {"IO_In_Out"}
       \/ AVR_Decoder_Function(w) \in {"Relative_Jump"}
       \/ AVR_Decoder_Function(w) \in {"Conditional_Branch"}
       \/ AVR_Decoder_Function(w) \in {"BLD_BST", "SBRC_SBRS"}
       \/ AVR_Decoder_Function(w) \in {"NOP", "Misc", "Indirect_Jump"}
  <2>1. AVR_Decoder_Function(w) \in {"Register_Pair_4bit", "Register_Pair_3bit",
          "Register_Pair_5bit", "MUL", "Register_Immediate", "LDI", "LDST", "Register_Single",
              "DEC_Rd", "LDST_YZ_k", "LDS_STS", "Register_SC", "DES_round_4", "JMP_CALL_22",
                  "ADIW_SBIW_6", "IO_Bit", "IO_In_Out", "Relative_Jump", "Conditional_Branch",
                      "BLD_BST", "SBRC_SBRS", "NOP", "Misc", "Indirect_Jump"}
    BY <1>3 DEF FormatByDigits
  <2>. QED  BY <2>1
<1>41. Ranged
  <2>. HIDE DEF Ranged
  <2>. QED  BY <1>40, <1>6, <1>7, <1>8, <1>9, <1>10, <1>11, <1>12, <1>13, <1>14, <1>15, <1>16,
               <1>17, <1>18, <1>19, <1>20, <1>21, <1>22
<1>. QED  BY <1>41

----------------------------------------------------------------------------
(* The steps compose the tables: operands are fresh.                      *)

Undecoded == [l \in Latches |-> Stale]

Printing(w) ==
    LET name == AVR_Disasm_Function(w)
    IN  [name |-> name, operands |-> Operands(name, DisasmReads, AVR_Decode(w, Undecoded))]

LookedUp ==
    /\ word \in Words
    /\ phase \in {"fetched", "decoded", "executed", "printed"}
    /\ phase = "fetched" => latch = Undecoded
    /\ phase # "fetched" =>
          /\ charge = AVR_Opcode_Cycles(word) /\ size = AVR_Opcode_Size(word)
          /\ latch = AVR_Decode(word, Undecoded)
    /\ phase = "executed" => done = Meaning(word)
    /\ phase = "printed" => done = Printing(word)

\* At every step the latches and results are those of the word itself.
LEMMA LookedUpHolds == LookUpSpec => []LookedUp
<1>1. Fetch => LookedUp
  BY DEF Fetch, LookedUp, Undecoded
<1>2. ASSUME LookedUp, [LookUpWord]_wordVars PROVE LookedUp'
  <2>1. CASE Decode
    BY <1>2, <2>1 DEF LookedUp, Decode
  <2>2. CASE Execute
    <3>1. phase = "decoded" /\ phase' = "executed" /\ UNCHANGED <<word, latch, size, charge>>
      BY <2>2 DEF Execute
    <3>2. done' = Meaning(word)
      BY <1>2, <2>2 DEF Execute, Run, Meaning, LookedUp, Undecoded
    <3>. QED  BY <1>2, <3>1, <3>2 DEF LookedUp
  <2>3. CASE Disassemble
    <3>1. phase = "decoded" /\ phase' = "printed" /\ UNCHANGED <<word, latch, size, charge>>
      BY <2>3 DEF Disassemble
    <3>2. done' = Printing(word)
      BY <1>2, <2>3 DEF Disassemble, Run, Printing, LookedUp
    <3>. QED  BY <1>2, <3>1, <3>2 DEF LookedUp
  <2>4. CASE UNCHANGED wordVars
    <3>1. UNCHANGED <<phase, word, latch, size, charge, done>>
      BY <2>4 DEF wordVars
    <3>. QED  BY <1>2, <3>1 DEF LookedUp
  <2>. QED  BY <1>2, <2>1, <2>2, <2>3, <2>4 DEF LookUpWord
<1>. QED  BY <1>1, <1>2, PTL DEF LookUpSpec

\* A word executes the case of the first switch that has one, or NOP.
LEMMA FunctionFound ==
    ASSUME NEW w \in Words
    PROVE  LET name == AVR_Opcode_Function(w)
           IN  \/ name = "NOP" /\ \A i \in 1 .. 13 : ~Hits(FunctionSwitches[i], w)
               \/ \E i \in 1 .. 13 : /\ Finds(FunctionSwitches[i], w, name)
                                     /\ \A j \in 1 .. 13 : j < i => ~Hits(FunctionSwitches[j], w)
<1>1. DOMAIN FunctionSwitches = 1 .. 13
  BY DEF FunctionSwitches
<1>. QED  BY <1>1, FirstHit DEF AVR_Opcode_Function

\* The functions of whole words read nothing.
LEMMA NoOperands ==
    ASSUME NEW w, NEW n, Finds(FunctionSwitches[1], w, n)
    PROVE  \A l : <<n, l>> \notin FunctionReads
<1>1. n \in {"NOP", "IJMP", "EIJMP", "RET", "ICALL", "RETI", "EICALL", "SLEEP", "BREAK", "WDR",
        "LPM",
             "ELPM", "SPM", "SPM_Z_Postinc2"}
  BY DEF Finds, FunctionSwitches, Switch
<1>. QED  BY <1>1, ReadSets

\* Every latch that a function reads is one its format sets.
LEMMA Feeding ==
    ASSUME NEW w \in Words, NEW l, <<AVR_Opcode_Function(w), l>> \in FunctionReads
    PROVE  l \in DOMAIN Fields(w)
<1> DEFINE n == AVR_Opcode_Function(w)
<1>1. n # "NOP"
  BY ReadSets
<1>2. PICK i \in 1 .. 13 : Finds(FunctionSwitches[i], w, n)
  BY <1>1, FunctionFound
<1> HIDE DEF n
<1>3. CASE i = 1
  BY <1>2, <1>3, NoOperands DEF n
<1>4. CASE i = 2
  <2>1. Finds(FunctionSwitches[2], w, n)
    BY <1>2, <1>4
  <2>. QED  BY <2>1, Pairing2 DEF n
<1>5. CASE i = 3
  <2>1. Finds(FunctionSwitches[3], w, n)
    BY <1>2, <1>5
  <2>. QED  BY <2>1, Pairing3 DEF n
<1>6. CASE i = 4
  <2>1. Finds(FunctionSwitches[4], w, n)
    BY <1>2, <1>6
  <2>. QED  BY <2>1, Pairing4 DEF n
<1>7. CASE i = 5
  <2>1. Finds(FunctionSwitches[5], w, n)
    BY <1>2, <1>7
  <2>. QED  BY <2>1, Pairing5 DEF n
<1>8. CASE i = 6
  <2>1. Finds(FunctionSwitches[6], w, n)
    BY <1>2, <1>8
  <2>. QED  BY <2>1, Pairing6 DEF n
<1>9. CASE i = 7
  <2>1. Finds(FunctionSwitches[7], w, n)
    BY <1>2, <1>9
  <2>. QED  BY <2>1, Pairing7 DEF n
<1>10. CASE i = 8
  <2>1. Finds(FunctionSwitches[8], w, n)
    BY <1>2, <1>10
  <2>. QED  BY <2>1, Pairing8 DEF n
<1>11. CASE i = 9
  <2>1. Finds(FunctionSwitches[9], w, n)
    BY <1>2, <1>11
  <2>. QED  BY <2>1, Pairing9 DEF n
<1>12. CASE i = 10
  <2>1. Finds(FunctionSwitches[10], w, n)
    BY <1>2, <1>12
  <2>. QED  BY <2>1, Pairing10 DEF n
<1>13. CASE i = 11
  <2>1. Finds(FunctionSwitches[11], w, n)
    BY <1>2, <1>13
  <2>. QED  BY <2>1, Pairing11 DEF n
<1>14. CASE i = 12
  <2>1. Finds(FunctionSwitches[12], w, n)
    BY <1>2, <1>14
  <2>. QED  BY <2>1, Pairing12 DEF n
<1>15. CASE i = 13
  <2>1. Finds(FunctionSwitches[13], w, n)
    BY <1>2, <1>15
  <2>. QED  BY <2>1, Pairing13 DEF n
<1>. QED  BY <1>2, <1>3, <1>4, <1>5, <1>6, <1>7, <1>8, <1>9, <1>10, <1>11, <1>12, <1>13, <1>14,
             <1>15

\* The operands a word executes with are its fields.
LEMMA MeaningOperands ==
    ASSUME NEW w \in Words
    PROVE  LET m == Meaning(w) IN
           /\ m.name = AVR_Opcode_Function(w)
           /\ \A l : l \in DOMAIN m.operands <=> <<m.name, l>> \in FunctionReads
           /\ \A l \in DOMAIN m.operands : l \in DOMAIN Fields(w) /\ m.operands[l] = Fields(w)[l]
<1> DEFINE n == AVR_Opcode_Function(w)
           fresh == AVR_Decode(w, Undecoded)
<1>1. Meaning(w) = [name |-> n, operands |-> Operands(n, FunctionReads, fresh)]
  BY TableEntries DEF Meaning, Undecoded
<1>2. \A l : <<n, l>> \in FunctionReads => l \in Latches
  BY DEF FunctionReads, All, ArithmeticReads, JumpReads, CompareReads, BranchReads, LoadReads,
         StoreReads, MemoryReads, TransferReads, BitReads, Latches
<1>3. \A l \in Latches : l \in DOMAIN Fields(w) => fresh[l] = Fields(w)[l]
  BY DEF AVR_Decode
<1> HIDE DEF fresh
<1>4. /\ DOMAIN Operands(n, FunctionReads, fresh) = {r \in Latches : <<n, r>> \in FunctionReads}
      /\ \A l \in DOMAIN Operands(n, FunctionReads, fresh) :
            Operands(n, FunctionReads, fresh)[l] = fresh[l]
  BY DEF Operands
<1>5. \A l : <<n, l>> \in FunctionReads => l \in DOMAIN Fields(w)
  BY Feeding
<1> HIDE DEF n
<1>. QED  BY <1>1, <1>2, <1>3, <1>4, <1>5 DEF n

\* Whatever the word, the decoder that the chain of tests in AVR_Decoder_Function
\* chooses sets every latch that the function in the opcode table reads: no
\* instruction runs on an operand that an earlier one left in stCPU.
THEOREM OperandsAreFresh == LookUpSpec => []OperandsFresh
<1>1. LookedUp => OperandsFresh
  <2>1. ASSUME LookedUp, phase = "executed",
                 NEW l \in DOMAIN done.operands PROVE done.operands[l] # Stale
    <3>1. word \in Words /\ done = Meaning(word)
      BY <2>1 DEF LookedUp
    <3>2. l \in DOMAIN Fields(word) /\ done.operands[l] = Fields(word)[l]
      BY <2>1, <3>1, MeaningOperands
    <3>3. \A r \in DOMAIN Fields(word) : Fields(word)[r] # Stale
      BY <3>1, FieldRanges
    <3>. QED  BY <3>2, <3>3
  <2>. QED  BY <2>1 DEF OperandsFresh
<1>. QED  BY <1>1, LookedUpHolds, PTL

----------------------------------------------------------------------------
(* The two lists of names: what executes is what is charged and printed.  *)

\* From the second switch on, the lists of names are those of the functions.
LEMMA SameSwitches ==
    /\ DOMAIN ListingSwitches = 1 .. 12
    /\ ListingSwitches[2] = FunctionSwitches[3]
    /\ ListingSwitches[3] = FunctionSwitches[4]
    /\ ListingSwitches[4] = FunctionSwitches[5]
    /\ ListingSwitches[5] = FunctionSwitches[6]
    /\ ListingSwitches[6] = FunctionSwitches[7]
    /\ ListingSwitches[7] = FunctionSwitches[8]
    /\ ListingSwitches[8] = FunctionSwitches[9]
    /\ ListingSwitches[9] = FunctionSwitches[10]
    /\ ListingSwitches[10] = FunctionSwitches[11]
    /\ ListingSwitches[11] = FunctionSwitches[12]
    /\ ListingSwitches[12] = FunctionSwitches[13]
<1>1. DOMAIN ListingSwitches = 1 .. 12
  BY DEF ListingSwitches
<1>2. ListingSwitches[2] = FunctionSwitches[3]
  BY DEF ListingSwitches, FunctionSwitches
<1>3. ListingSwitches[3] = FunctionSwitches[4]
  BY DEF ListingSwitches, FunctionSwitches
<1>4. ListingSwitches[4] = FunctionSwitches[5]
  BY DEF ListingSwitches, FunctionSwitches
<1>5. ListingSwitches[5] = FunctionSwitches[6]
  BY DEF ListingSwitches, FunctionSwitches
<1>6. ListingSwitches[6] = FunctionSwitches[7]
  BY DEF ListingSwitches, FunctionSwitches
<1>7. ListingSwitches[7] = FunctionSwitches[8]
  BY DEF ListingSwitches, FunctionSwitches
<1>8. ListingSwitches[8] = FunctionSwitches[9]
  BY DEF ListingSwitches, FunctionSwitches
<1>9. ListingSwitches[9] = FunctionSwitches[10]
  BY DEF ListingSwitches, FunctionSwitches
<1>10. ListingSwitches[10] = FunctionSwitches[11]
  BY DEF ListingSwitches, FunctionSwitches
<1>11. ListingSwitches[11] = FunctionSwitches[12]
  BY DEF ListingSwitches, FunctionSwitches
<1>12. ListingSwitches[12] = FunctionSwitches[13]
  BY DEF ListingSwitches, FunctionSwitches
<1>. QED  BY <1>1, <1>2, <1>3, <1>4, <1>5, <1>6, <1>7, <1>8, <1>9, <1>10, <1>11, <1>12

\* The first mask keeps everything.
LEMMA WholeWord == \A w \in Words : And(w, \hFFFF) = w
  BY Masks, Digits DEF Kept

\* The listing's names of whole words.
LEMMA ListedWords ==
    ASSUME NEW w \in Words, NEW n
    PROVE  n \in DOMAIN ListingSwitches[1].cases /\
             ListingSwitches[1].cases[n] = And(w, ListingSwitches[1].mask)
           <=> \/ n = "NOP" /\ w = \h0000
               \/ n = "SEC" /\ w = \h9408
               \/ n = "IJMP" /\ w = \h9409
               \/ n = "SEZ" /\ w = \h9418
               \/ n = "EIJMP" /\ w = \h9419
               \/ n = "SEN" /\ w = \h9428
               \/ n = "SEV" /\ w = \h9438
               \/ n = "SES" /\ w = \h9448
               \/ n = "SEH" /\ w = \h9458
               \/ n = "SET" /\ w = \h9468
               \/ n = "SEI" /\ w = \h9478
               \/ n = "CLC" /\ w = \h9488
               \/ n = "CLZ" /\ w = \h9498
               \/ n = "CLN" /\ w = \h94A8
               \/ n = "CLV" /\ w = \h94B8
               \/ n = "CLS" /\ w = \h94C8
               \/ n = "CLH" /\ w = \h94D8
               \/ n = "CLT" /\ w = \h94E8
               \/ n = "CLI" /\ w = \h94F8
               \/ n = "RET" /\ w = \h9508
               \/ n = "ICALL" /\ w = \h9509
               \/ n = "RETI" /\ w = \h9518
               \/ n = "EICALL" /\ w = \h9519
               \/ n = "SLEEP" /\ w = \h9588
               \/ n = "BREAK" /\ w = \h9598
               \/ n = "WDR" /\ w = \h95A8
               \/ n = "LPM" /\ w = \h95C8
               \/ n = "ELPM" /\ w = \h95D8
               \/ n = "SPM" /\ w = \h95E8
               \/ n = "SPM_Z_Postinc2" /\ w = \h95F8
<1>1. ListingSwitches[1].mask = \hFFFF
  BY DEF ListingSwitches, Switch
<1>2. And(w, \hFFFF) = w
  BY WholeWord
<1>3. ListingSwitches[1].cases =
        [NOP |-> \h0000, SEC |-> \h9408, IJMP |-> \h9409, SEZ |-> \h9418, EIJMP |-> \h9419,
         SEN |-> \h9428, SEV |-> \h9438, SES |-> \h9448, SEH |-> \h9458, SET |-> \h9468,
         SEI |-> \h9478, CLC |-> \h9488, CLZ |-> \h9498, CLN |-> \h94A8, CLV |-> \h94B8,
         CLS |-> \h94C8, CLH |-> \h94D8, CLT |-> \h94E8, CLI |-> \h94F8, RET |-> \h9508,
         ICALL |-> \h9509, RETI |-> \h9518, EICALL |-> \h9519, SLEEP |-> \h9588,
         BREAK |-> \h9598, WDR |-> \h95A8, LPM |-> \h95C8, ELPM |-> \h95D8, SPM |-> \h95E8,
         SPM_Z_Postinc2 |-> \h95F8]
  BY DEF ListingSwitches, Switch
<1>4. DOMAIN ListingSwitches[1].cases = {"NOP", "SEC", "IJMP", "SEZ", "EIJMP", "SEN", "SEV",
        "SES", "SEH", "SET",
            "SEI", "CLC", "CLZ", "CLN", "CLV", "CLS", "CLH", "CLT", "CLI", "RET", "ICALL",
            "RETI", "EICALL", "SLEEP", "BREAK", "WDR", "LPM", "ELPM", "SPM",
            "SPM_Z_Postinc2"}
  BY <1>3
<1>5. /\ ListingSwitches[1].cases["NOP"] = \h0000
      /\ ListingSwitches[1].cases["SEC"] = \h9408
      /\ ListingSwitches[1].cases["IJMP"] = \h9409
      /\ ListingSwitches[1].cases["SEZ"] = \h9418
      /\ ListingSwitches[1].cases["EIJMP"] = \h9419
      /\ ListingSwitches[1].cases["SEN"] = \h9428
      /\ ListingSwitches[1].cases["SEV"] = \h9438
      /\ ListingSwitches[1].cases["SES"] = \h9448
      /\ ListingSwitches[1].cases["SEH"] = \h9458
      /\ ListingSwitches[1].cases["SET"] = \h9468
      /\ ListingSwitches[1].cases["SEI"] = \h9478
      /\ ListingSwitches[1].cases["CLC"] = \h9488
      /\ ListingSwitches[1].cases["CLZ"] = \h9498
      /\ ListingSwitches[1].cases["CLN"] = \h94A8
      /\ ListingSwitches[1].cases["CLV"] = \h94B8
      /\ ListingSwitches[1].cases["CLS"] = \h94C8
      /\ ListingSwitches[1].cases["CLH"] = \h94D8
      /\ ListingSwitches[1].cases["CLT"] = \h94E8
      /\ ListingSwitches[1].cases["CLI"] = \h94F8
      /\ ListingSwitches[1].cases["RET"] = \h9508
      /\ ListingSwitches[1].cases["ICALL"] = \h9509
      /\ ListingSwitches[1].cases["RETI"] = \h9518
      /\ ListingSwitches[1].cases["EICALL"] = \h9519
      /\ ListingSwitches[1].cases["SLEEP"] = \h9588
      /\ ListingSwitches[1].cases["BREAK"] = \h9598
      /\ ListingSwitches[1].cases["WDR"] = \h95A8
      /\ ListingSwitches[1].cases["LPM"] = \h95C8
      /\ ListingSwitches[1].cases["ELPM"] = \h95D8
      /\ ListingSwitches[1].cases["SPM"] = \h95E8
      /\ ListingSwitches[1].cases["SPM_Z_Postinc2"] = \h95F8
  BY <1>3
<1>. QED  BY <1>1, <1>2, <1>4, <1>5

\* The functions of whole words.
LEMMA ExecutedWords ==
    ASSUME NEW w \in Words, NEW n
    PROVE  n \in DOMAIN FunctionSwitches[1].cases /\
             FunctionSwitches[1].cases[n] = And(w, FunctionSwitches[1].mask)
           <=> \/ n = "NOP" /\ w = \h0000
               \/ n = "IJMP" /\ w = \h9409
               \/ n = "EIJMP" /\ w = \h9419
               \/ n = "RET" /\ w = \h9508
               \/ n = "ICALL" /\ w = \h9509
               \/ n = "RETI" /\ w = \h9518
               \/ n = "EICALL" /\ w = \h9519
               \/ n = "SLEEP" /\ w = \h9588
               \/ n = "BREAK" /\ w = \h9598
               \/ n = "WDR" /\ w = \h95A8
               \/ n = "LPM" /\ w = \h95C8
               \/ n = "ELPM" /\ w = \h95D8
               \/ n = "SPM" /\ w = \h95E8
               \/ n = "SPM_Z_Postinc2" /\ w = \h95F8
<1>1. FunctionSwitches[1].mask = \hFFFF
  BY DEF FunctionSwitches, Switch
<1>2. And(w, \hFFFF) = w
  BY WholeWord
<1>3. FunctionSwitches[1].cases =
        [NOP |-> \h0000, IJMP |-> \h9409, EIJMP |-> \h9419, RET |-> \h9508, ICALL |-> \h9509,
         RETI |-> \h9518, EICALL |-> \h9519, SLEEP |-> \h9588, BREAK |-> \h9598,
         WDR |-> \h95A8, LPM |-> \h95C8, ELPM |-> \h95D8, SPM |-> \h95E8,
         SPM_Z_Postinc2 |-> \h95F8]
  BY DEF FunctionSwitches, Switch
<1>4. DOMAIN FunctionSwitches[1].cases = {"NOP", "IJMP", "EIJMP", "RET", "ICALL", "RETI",
        "EICALL", "SLEEP", "BREAK",
            "WDR", "LPM", "ELPM", "SPM", "SPM_Z_Postinc2"}
  BY <1>3
<1>5. /\ FunctionSwitches[1].cases["NOP"] = \h0000
      /\ FunctionSwitches[1].cases["IJMP"] = \h9409
      /\ FunctionSwitches[1].cases["EIJMP"] = \h9419
      /\ FunctionSwitches[1].cases["RET"] = \h9508
      /\ FunctionSwitches[1].cases["ICALL"] = \h9509
      /\ FunctionSwitches[1].cases["RETI"] = \h9518
      /\ FunctionSwitches[1].cases["EICALL"] = \h9519
      /\ FunctionSwitches[1].cases["SLEEP"] = \h9588
      /\ FunctionSwitches[1].cases["BREAK"] = \h9598
      /\ FunctionSwitches[1].cases["WDR"] = \h95A8
      /\ FunctionSwitches[1].cases["LPM"] = \h95C8
      /\ FunctionSwitches[1].cases["ELPM"] = \h95D8
      /\ FunctionSwitches[1].cases["SPM"] = \h95E8
      /\ FunctionSwitches[1].cases["SPM_Z_Postinc2"] = \h95F8
  BY <1>3
<1>. QED  BY <1>1, <1>2, <1>4, <1>5

\* The words of BSET and BCLR, by their bit.
LEMMA StatusWords ==
    ASSUME NEW w \in Words
    PROVE  /\ \A n : Finds(FunctionSwitches[2], w, n) =>
                 /\ Field(w, 6, 4) \in 0 .. 7
                 /\ \/ n = "BSET" /\ w = \h9408 + 16 * Field(w, 6, 4)
                    \/ n = "BCLR" /\ w = \h9488 + 16 * Field(w, 6, 4)
           /\ \A s \in 0 .. 7 : w \in {\h9408 + 16 * s, \h9488 + 16 * s} =>
                Hits(FunctionSwitches[2], w)
<1> DEFINE top == 8 * (D1(w) \div 8)
           low == D1(w) % 8
<1>1. /\ D0(w) \in Nibble /\ D1(w) \in Nibble /\ D2(w) \in Nibble /\ D3(w) \in Nibble
      /\ w = 4096 * D3(w) + 256 * D2(w) + 16 * D1(w) + D0(w)
  BY Digits
<1>2. And(w, \hFF8F) = Kept(D3(w), D2(w), top, D0(w)) /\ Field(w, 6, 4) = low
  BY Masks, FieldDigits
<1>3. top \in {0, 8} /\ low \in 0 .. 7 /\ D1(w) = top + low
  BY <1>1 DEF Nibble
<1>4. /\ FunctionSwitches[2].mask = \hFF8F /\ DOMAIN FunctionSwitches[2].cases = {"BSET", "BCLR"}
      /\ FunctionSwitches[2].cases["BSET"] = \h9408 /\ FunctionSwitches[2].cases["BCLR"] = \h9488
  BY DEF FunctionSwitches, Switch
<1> HIDE DEF top, low
<1>9. /\ top \in Nibble /\ low \in Nibble /\ 8 + low \in Nibble /\ 0 + low \in Nibble
      /\ 9 \in Nibble /\ 4 \in Nibble /\ 8 \in Nibble /\ 0 \in Nibble
      /\ w = Kept(D3(w), D2(w), D1(w), D0(w))
  <2>1. w = Kept(D3(w), D2(w), D1(w), D0(w))
    BY <1>1 DEF Kept
  <2>. QED  BY <1>3, <2>1 DEF Nibble
<1>5. And(w, \hFF8F) = \h9408 <=> w = \h9408 + 16 * low
  <2>1. \h9408 = Kept(9, 4, 0, 8) /\ \h9408 + 16 * low = Kept(9, 4, 0 + low, 8)
    BY <1>3 DEF Kept
  <2>2. And(w, \hFF8F) = \h9408 <=> D3(w) = 9 /\ D2(w) = 4 /\ top = 0 /\ D0(w) = 8
    BY <1>1, <1>2, <1>9, <2>1, DigitsOfKept
  <2>3. w = \h9408 + 16 * low <=> D3(w) = 9 /\ D2(w) = 4 /\ D1(w) = 0 + low /\ D0(w) = 8
    BY <1>1, <1>9, <2>1, DigitsOfKept
  <2>. QED  BY <1>3, <2>2, <2>3
<1>6. And(w, \hFF8F) = \h9488 <=> w = \h9488 + 16 * low
  <2>1. \h9488 = Kept(9, 4, 8, 8) /\ \h9488 + 16 * low = Kept(9, 4, 8 + low, 8)
    BY <1>3 DEF Kept
  <2>2. And(w, \hFF8F) = \h9488 <=> D3(w) = 9 /\ D2(w) = 4 /\ top = 8 /\ D0(w) = 8
    BY <1>1, <1>2, <1>9, <2>1, DigitsOfKept
  <2>3. w = \h9488 + 16 * low <=> D3(w) = 9 /\ D2(w) = 4 /\ D1(w) = 8 + low /\ D0(w) = 8
    BY <1>1, <1>9, <2>1, DigitsOfKept
  <2>. QED  BY <1>3, <2>2, <2>3
<1>7. ASSUME NEW n, Finds(FunctionSwitches[2], w, n)
      PROVE  \/ n = "BSET" /\ w = \h9408 + 16 * low
             \/ n = "BCLR" /\ w = \h9488 + 16 * low
  <2>1. n \in {"BSET", "BCLR"} /\ FunctionSwitches[2].cases[n] = And(w, \hFF8F)
    BY <1>4, <1>7 DEF Finds
  <2>. QED  BY <2>1, <1>4, <1>5, <1>6
<1>8. ASSUME NEW s \in 0 .. 7, w \in {\h9408 + 16 * s, \h9488 + 16 * s}
      PROVE  Hits(FunctionSwitches[2], w)
  <2>1. s = low
    <3>1. s \in Nibble /\ 8 + s \in Nibble /\ s \in Int /\ low \in Int
      BY <1>3 DEF Nibble
    <3>2. \h9408 + 16 * s = Kept(9, 4, s, 8) /\ \h9488 + 16 * s = Kept(9, 4, 8 + s, 8)
      BY <3>1 DEF Kept
    <3>3. D1(w) \in {s, 8 + s}
      BY <1>8, <1>9, <3>1, <3>2, DigitsOfKept
    <3>. QED  BY <1>3, <3>3
  <2>. QED  BY <1>4, <1>5, <1>6, <1>8, <2>1 DEF Hits
<1>. QED  BY <1>2, <1>3, <1>7, <1>8

\* The whole words of the listing execute under the first two switches.
LEMMA FirstListed ==
    ASSUME NEW w \in Words, Hits(ListingSwitches[1], w)
    PROVE  Hits(FunctionSwitches[1], w) \/ Hits(FunctionSwitches[2], w)
<1>1. PICK n : n \in DOMAIN ListingSwitches[1].cases /\
        ListingSwitches[1].cases[n] = And(w, ListingSwitches[1].mask)
  BY DEF Hits
<1>2. \/ w \in {\h0000, \h9409, \h9419, \h9508, \h9509, \h9518, \h9519, \h9588, \h9598, \h95A8,
            \h95C8, \h95D8, \h95E8, \h95F8}
      \/ \E s \in 0 .. 7 : w \in {\h9408 + 16 * s, \h9488 + 16 * s}
  <2>1. \A s \in 0 .. 7 : s \in Int
    OBVIOUS
  <2>2. \h9408 + 16 * 0 = \h9408 /\ \h9408 + 16 * 1 = \h9418 /\ \h9408 + 16 * 2 = \h9428 /\
          \h9408 + 16 * 3 = \h9438
        /\ \h9408 + 16 * 4 = \h9448 /\ \h9408 + 16 * 5 = \h9458 /\ \h9408 + 16 * 6 = \h9468 /\
             \h9408 + 16 * 7 = \h9478
        /\ \h9488 + 16 * 0 = \h9488 /\ \h9488 + 16 * 1 = \h9498 /\ \h9488 + 16 * 2 = \h94A8 /\
             \h9488 + 16 * 3 = \h94B8
        /\ \h9488 + 16 * 4 = \h94C8 /\ \h9488 + 16 * 5 = \h94D8 /\ \h9488 + 16 * 6 = \h94E8 /\
             \h9488 + 16 * 7 = \h94F8
    OBVIOUS
  <2>. QED  BY <1>1, <2>2, ListedWords
<1>3. ASSUME w \in {\h0000, \h9409, \h9419, \h9508, \h9509, \h9518, \h9519, \h9588, \h9598, \h95A8,
            \h95C8, \h95D8, \h95E8, \h95F8}
      PROVE  Hits(FunctionSwitches[1], w)
  BY <1>3, ExecutedWords DEF Hits
<1>. QED  BY <1>2, <1>3, StatusWords

\* A word is listed as the case of the first switch that has one, or as data.
LEMMA ListingFound ==
    ASSUME NEW w \in Words
    PROVE  \/ /\ AVR_Opcode_Cycles(w) = "Unimplemented"
              /\ \A i \in 1 .. 12 : ~Hits(ListingSwitches[i], w)
           \/ \E i \in 1 .. 12 : /\ Finds(ListingSwitches[i], w, AVR_Opcode_Cycles(w))
                                 /\ \A j \in 1 .. 12 : j < i => ~Hits(ListingSwitches[j], w)
<1>1. DOMAIN ListingSwitches = 1 .. 12
  BY SameSwitches
<1>. QED  BY <1>1, FirstHit DEF AVR_Opcode_Cycles

\* Further down the two lists are the same.
LEMMA SameAt ==
    ASSUME NEW i \in 3 .. 13
    PROVE  i - 1 \in 2 .. 12 /\ ListingSwitches[i - 1] = FunctionSwitches[i]
  BY SameSwitches

LEMMA FoundHits ==
    ASSUME NEW switch, NEW w, NEW n, Finds(switch, w, n)
    PROVE  Hits(switch, w)
  BY DEF Finds, Hits

\* No later switch sets a status bit or does nothing.
LEMMA LaterNames ==
    ASSUME NEW i \in 3 .. 13, NEW n \in DOMAIN FunctionSwitches[i].cases
    PROVE  n \notin {"NOP", "BSET", "BCLR"}
<1>1. SwitchOf(n) = i
  BY SwitchesApart
<1>2. SwitchOf("NOP") = 1 /\ SwitchOf("BSET") = 2 /\ SwitchOf("BCLR") = 2
  BY DEF SwitchOf
<1>. QED  BY <1>1, <1>2

\* Past the whole words, the cycle table and the disassembler list what executes.
LEMMA LaterListed ==
    ASSUME NEW w \in Words, NEW i \in 3 .. 13,
             Finds(FunctionSwitches[i], w, AVR_Opcode_Function(w)),
           \A j \in 1 .. 13 : j < i => ~Hits(FunctionSwitches[j], w)
    PROVE  AVR_Opcode_Cycles(w) = AVR_Opcode_Function(w)
<1>1. ListingSwitches[i - 1] = FunctionSwitches[i] /\ i - 1 \in 1 .. 12
  BY SameAt
<1>2. \A j \in 1 .. 12 : j < i - 1 => ~Hits(ListingSwitches[j], w)
  <2>1. ASSUME NEW j \in 1 .. 12, j < i - 1 PROVE ~Hits(ListingSwitches[j], w)
    <3>1. CASE j = 1
      BY <3>1, FirstListed
    <3>2. CASE j # 1
      <4>1. j + 1 \in 3 .. 13 /\ j + 1 < i /\ (j + 1) - 1 = j
        BY <2>1, <3>2
      <4>2. ListingSwitches[j] = FunctionSwitches[j + 1]
        BY <4>1, SameAt
      <4>. QED  BY <4>1, <4>2
    <3>. QED  BY <3>1, <3>2
  <2>. QED  BY <2>1
<1>3. Hits(ListingSwitches[i - 1], w)
  BY <1>1, FoundHits
<1>4. PICK k \in 1 .. 12 : /\ Finds(ListingSwitches[k], w, AVR_Opcode_Cycles(w))
                          /\ \A j \in 1 .. 12 : j < k => ~Hits(ListingSwitches[j], w)
  BY <1>1, <1>3, ListingFound
<1>5. Hits(ListingSwitches[k], w)
  BY <1>4, FoundHits
<1>6. k = i - 1
  BY <1>1, <1>2, <1>3, <1>4, <1>5
<1>. QED  BY <1>1, <1>4, <1>6 DEF Finds

\* A whole word is listed under its one name.
LEMMA FirstNamed ==
    ASSUME NEW w \in Words, NEW n \in DOMAIN ListingSwitches[1].cases,
           ListingSwitches[1].cases[n] = And(w, ListingSwitches[1].mask)
    PROVE  AVR_Opcode_Cycles(w) = n
<1>1. Hits(ListingSwitches[1], w)
  BY DEF Hits
<1>2. Finds(ListingSwitches[1], w, AVR_Opcode_Cycles(w))
  <2>1. PICK k \in 1 .. 12 : /\ Finds(ListingSwitches[k], w, AVR_Opcode_Cycles(w))
                            /\ \A j \in 1 .. 12 : j < k => ~Hits(ListingSwitches[j], w)
    BY <1>1, ListingFound
  <2>. QED  BY <1>1, <2>1
<1> DEFINE m == AVR_Opcode_Cycles(w)
<1>3. m \in DOMAIN ListingSwitches[1].cases /\
        ListingSwitches[1].cases[m] = And(w, ListingSwitches[1].mask)
  BY <1>2 DEF Finds
<1> HIDE DEF m
<1>4. m = n
  BY <1>3, ListedWords
<1>. QED  BY <1>4 DEF m

\* The name under which every word is listed.
LEMMA ListedName ==
    ASSUME NEW w \in Words
    PROVE  LET name == AVR_Opcode_Function(w)
               listed == AVR_Opcode_Cycles(w)
               s == Field(w, 6, 4)
           IN  \/ name = "NOP" /\ w # 0 /\ listed = "Unimplemented"
               \/ name \notin {"BSET", "BCLR"} /\ listed = name /\ (name = "NOP" => w = 0)
               \/ name = "BSET" /\ s \in 0 .. 7 /\ listed = SetNames[s + 1]
               \/ name = "BCLR" /\ s \in 0 .. 7 /\ listed = ClearNames[s + 1]
<1> DEFINE n == AVR_Opcode_Function(w)
<1>1. CASE n = "NOP" /\ \A i \in 1 .. 13 : ~Hits(FunctionSwitches[i], w)
  <2>1. w # 0
    <3>1. ASSUME w = 0 PROVE Hits(FunctionSwitches[1], w)
      BY <3>1, ExecutedWords DEF Hits
    <3>. QED  BY <1>1, <3>1
  <2>2. ASSUME NEW i \in 1 .. 12 PROVE ~Hits(ListingSwitches[i], w)
    <3>1. CASE i = 1
      BY <1>1, <3>1, FirstListed
    <3>2. CASE i # 1
      <4>1. i + 1 \in 3 .. 13 /\ (i + 1) - 1 = i
        BY <3>2
      <4>2. ListingSwitches[i] = FunctionSwitches[i + 1]
        BY <4>1, SameAt
      <4>. QED  BY <1>1, <4>1, <4>2
    <3>. QED  BY <3>1, <3>2
  <2>3. AVR_Opcode_Cycles(w) = "Unimplemented"
    BY <2>2, ListingFound, FoundHits
  <2>. QED  BY <1>1, <2>1, <2>3
<1>2. ASSUME NEW i \in 1 .. 13, Finds(FunctionSwitches[i], w, n),
             \A j \in 1 .. 13 : j < i => ~Hits(FunctionSwitches[j], w)
      PROVE  \/ n \notin {"BSET", "BCLR"} /\ AVR_Opcode_Cycles(w) = n /\ (n = "NOP" => w = 0)
             \/ n = "BSET" /\ Field(w, 6, 4) \in 0 .. 7 /\
                  AVR_Opcode_Cycles(w) = SetNames[Field(w, 6, 4) + 1]
             \/ n = "BCLR" /\ Field(w, 6, 4) \in 0 .. 7 /\
                  AVR_Opcode_Cycles(w) = ClearNames[Field(w, 6, 4) + 1]
  <2>1. CASE i = 1
    <3>1. n \in DOMAIN FunctionSwitches[1].cases /\
            FunctionSwitches[1].cases[n] = And(w, FunctionSwitches[1].mask)
      BY <1>2, <2>1 DEF Finds
    <3> HIDE DEF n
    <3>2. n \in DOMAIN ListingSwitches[1].cases /\
            ListingSwitches[1].cases[n] = And(w, ListingSwitches[1].mask)
      BY <3>1, ExecutedWords, ListedWords
    <3>3. n \notin {"BSET", "BCLR"} /\ (n = "NOP" => w = 0)
      BY <3>1, ExecutedWords
    <3>. QED  BY <3>2, <3>3, FirstNamed
  <2>2. CASE i = 2
    <3> DEFINE s == Field(w, 6, 4)
    <3>1. s \in 0 .. 7 /\ \/ n = "BSET" /\ w = \h9408 + 16 * s
                          \/ n = "BCLR" /\ w = \h9488 + 16 * s
      BY <1>2, <2>2, StatusWords
    <3> HIDE DEF s, n
    <3>2. ASSUME n = "BSET", w = \h9408 + 16 * s PROVE AVR_Opcode_Cycles(w) = SetNames[s + 1]
      BY <3>1, <3>2, FirstNamed, ListedWords DEF SetNames
    <3>3. ASSUME n = "BCLR", w = \h9488 + 16 * s PROVE AVR_Opcode_Cycles(w) = ClearNames[s + 1]
      BY <3>1, <3>3, FirstNamed, ListedWords DEF ClearNames
    <3>. QED  BY <3>1, <3>2, <3>3 DEF s
  <2>3. CASE i \in 3 .. 13
    <3>1. AVR_Opcode_Cycles(w) = n
      BY <1>2, <2>3, LaterListed
    <3>2. n \in DOMAIN FunctionSwitches[i].cases
      BY <1>2 DEF Finds
    <3> HIDE DEF n
    <3>. QED  BY <2>3, <3>1, <3>2, LaterNames
  <2>. QED  BY <2>1, <2>2, <2>3
<1>. QED  BY <1>1, <1>2, FunctionFound

\* Execution reads no latch that is not printed, addresses of LDS and STS apart.
LEMMA ReadsPrinted ==
    ASSUME NEW n, NEW l, <<n, l>> \in FunctionReads, n \notin {"BSET", "BCLR"}
    PROVE  <<n, l>> \in DisasmReads \/ (n \in {"LDS", "STS"} /\ l = "K")
<1>1. <<n, l>> \in ArithmeticReads => <<n, l>> \in DisasmReads
  BY DEF ArithmeticReads, All, DisasmReads, PrintsArithmetic, PrintsSingle, PrintsJump
<1>2. <<n, l>> \in JumpReads => <<n, l>> \in DisasmReads
  BY DEF JumpReads, All, DisasmReads, PrintsJump
<1>3. <<n, l>> \in CompareReads => <<n, l>> \in DisasmReads
  BY DEF CompareReads, All, DisasmReads, PrintsCompare
<1>4. <<n, l>> \in BranchReads => <<n, l>> \in DisasmReads
  BY DEF BranchReads, All, DisasmReads, PrintsBranch, PrintsBranchOrMove
<1>5. <<n, l>> \in LoadReads => <<n, l>> \in DisasmReads \/ (n = "LDS" /\ l = "K")
  BY DEF LoadReads, All, DisasmReads, PrintsLoad, PrintsBranchOrMove
<1>6. <<n, l>> \in StoreReads => <<n, l>> \in DisasmReads \/ (n = "STS" /\ l = "K")
  BY DEF StoreReads, All, DisasmReads, PrintsStore
<1>7. <<n, l>> \in MemoryReads => <<n, l>> \in DisasmReads
  BY DEF MemoryReads, All, DisasmReads, PrintsMemory
<1>8. <<n, l>> \in TransferReads => <<n, l>> \in DisasmReads
  BY DEF TransferReads, All, DisasmReads, PrintsMemory, PrintsBit, PrintsStatus
<1>9. <<n, l>> \in BitReads => n \in {"BSET", "BCLR"} \/ <<n, l>> \in DisasmReads
  BY DEF BitReads, All, DisasmReads, PrintsBit
<1>. QED  BY <1>1, <1>2, <1>3, <1>4, <1>5, <1>6, <1>7, <1>8, <1>9 DEF FunctionReads

\* BSET and BCLR read the bit that their word holds.
LEMMA StatusOperand ==
    ASSUME NEW w \in Words, AVR_Opcode_Function(w) \in {"BSET", "BCLR"}
    PROVE  Meaning(w).operands["b"] = Field(w, 6, 4)
<1> DEFINE n == AVR_Opcode_Function(w)
<1>1. PICK i \in 1 .. 13 : Finds(FunctionSwitches[i], w, n)
  BY FunctionFound
<1>2. n \in DOMAIN FunctionSwitches[i].cases
  BY <1>1 DEF Finds
<1>3. i \notin 3 .. 13
  BY <1>2, LaterNames
<1>4. i # 1
  <2>1. "BSET" \notin DOMAIN FunctionSwitches[1].cases /\
          "BCLR" \notin DOMAIN FunctionSwitches[1].cases
    BY DEF FunctionSwitches, Switch
  <2>. QED  BY <1>2, <2>1
<1>5. i = 2
  BY <1>3, <1>4
<1>6. Fields(w) = [b |-> Field(w, 6, 4)] /\ <<n, "b">> \in FunctionReads
  BY <1>1, <1>5, Pairing2
<1>. QED  BY <1>6, MeaningOperands

\* Every word is listed as what it means.
LEMMA ListedMeaning ==
    ASSUME NEW w \in Words
    PROVE  LET m == Meaning(w) IN
           AVR_Opcode_Cycles(w) = IF m.name = "NOP" /\ w # 0 THEN "Unimplemented" ELSE Listed(m)
<1>1. Meaning(w).name = AVR_Opcode_Function(w)
  BY MeaningOperands
<1>. QED  BY <1>1, ListedName, StatusOperand DEF Listed

\* For every word the cycle table charges, and the disassembler prints, the
\* function that the opcode table executes, with the operands execution uses,
\* although the three are separate cascades of masks; BSET and BCLR appear
\* under the eight names of their bits.
THEOREM ListedIsExecuted == LookUpSpec => []ListedAsExecuted
<1>1. ASSUME LookedUp PROVE ListedAsExecuted
  <2> DEFINE m == Meaning(word)
             listed == IF m.name = "NOP" /\ word # 0 THEN "Unimplemented" ELSE Listed(m)
             kept == DOMAIN m.operands \ (IF m.name \in {"LDS", "STS"} THEN {"K"} ELSE {})
             printed == IF m.name \in {"BSET", "BCLR"} THEN <<>> ELSE [l \in kept |-> m.operands[l]]
             latches == AVR_Decode(word, Undecoded)
             name == AVR_Disasm_Function(word)
  <2>1. word \in Words
    BY <1>1 DEF LookedUp
  <2>2. AVR_Opcode_Cycles(word) = listed /\ name = listed
    BY <2>1, ListedMeaning DEF AVR_Disasm_Function, AVR_Opcode_Cycles
  <2>3. phase # "fetched" => charge = listed
    BY <1>1, <2>2 DEF LookedUp
  <2>4. ASSUME phase = "printed"
        PROVE  /\ done.name = listed
               /\ \A l \in DOMAIN printed : l \in DOMAIN done.operands /\
                    done.operands[l] = printed[l]
    <3>1. done = [name |-> name, operands |-> Operands(name, DisasmReads, latches)]
      BY <1>1, <2>4 DEF LookedUp, Printing
    <3>2. ASSUME NEW l \in DOMAIN printed
          PROVE  l \in DOMAIN done.operands /\ done.operands[l] = printed[l]
      <4>1. m.name \notin {"BSET", "BCLR"} /\ l \in kept /\ printed[l] = m.operands[l]
        <5> HIDE DEF m, kept
        <5>1. m.name \notin {"BSET", "BCLR"}
          BY <3>2
        <5>2. printed = [k \in kept |-> m.operands[k]]
          BY <5>1
        <5>. QED  BY <5>1, <5>2, <3>2
      <4>2. <<m.name, l>> \in FunctionReads /\ l \in DOMAIN Fields(word) /\
              m.operands[l] = Fields(word)[l]
        BY <2>1, <4>1, MeaningOperands
      <4>3. <<m.name, l>> \in DisasmReads /\ l \in Latches
        <5>1. \A x \in FunctionReads : x[2] \in Latches
          BY DEF FunctionReads, All, ArithmeticReads, JumpReads, CompareReads, BranchReads,
             LoadReads,
                 StoreReads, MemoryReads, TransferReads, BitReads, Latches
        <5>2. l \in Latches
          BY <4>2, <5>1
        <5>3. ~(m.name \in {"LDS", "STS"} /\ l = "K")
          BY <4>1
        <5> HIDE DEF m
        <5>. QED  BY <4>1, <4>2, <5>2, <5>3, ReadsPrinted
      <4>4. m.name = AVR_Opcode_Function(word)
        BY <2>1, MeaningOperands
      <4>5. m.name # "NOP"
        BY <4>2, ReadSets
      <4>6. name = m.name
        BY <2>2, <4>1, <4>5 DEF Listed
      <4>7. latches[l] = Fields(word)[l]
        BY <4>2, <4>3 DEF AVR_Decode
      <4>8. DOMAIN Operands(name, DisasmReads, latches) =
              {r \in Latches : <<name, r>> \in DisasmReads}
            /\ (l \in Latches /\ <<name, l>> \in DisasmReads =>
                 Operands(name, DisasmReads, latches)[l] = latches[l])
        <5> HIDE DEF name, latches
        <5>. QED  BY DEF Operands
      <4> HIDE DEF m, name, latches, printed, kept
      <4>. QED  BY <3>1, <4>1, <4>2, <4>3, <4>6, <4>7, <4>8
    <3> HIDE DEF name, listed, latches, printed
    <3>. QED  BY <2>2, <3>1, <3>2
  <2>. QED  BY <2>3, <2>4 DEF ListedAsExecuted
<1>. QED  BY <1>1, LookedUpHolds, PTL

----------------------------------------------------------------------------
(* Sizes.                                                                 *)

\* The bound in which the size table is off changes no size.
LEMMA SizeAgrees ==
    ASSUME NEW w \in Words
    PROVE  AVR_Opcode_Size(w) = SizeOf(AVR_Decoder_Function(w))
<1>1. /\ AVR_Decoder_Function(w) = FormatByDigits(w, \h2F00)
      /\ FirstTest(Chain(\h4F00), w) = FormatByDigits(w, \h4F00)
  BY FormatOf DEF AVR_Decoder_Function
<1>2. FormatByDigits(w, \h2F00) \in {"LDS_STS", "JMP_CALL_22"}
      <=> FormatByDigits(w, \h4F00) \in {"LDS_STS", "JMP_CALL_22"}
  <2>1. D3(w) \in Nibble
    BY Digits
  <2>. QED  BY <2>1 DEF FormatByDigits, Nibble
<1>. QED  BY <1>1, <1>2 DEF AVR_Opcode_Size, SizeOf

\* The digits of words with a second one.
LEMMA TwoWordPattern ==
    ASSUME NEW w \in Words, AVR_Decoder_Function(w) \in {"LDS_STS", "JMP_CALL_22"}
    PROVE  D3(w) = 9 /\ \/ D2(w) <= 3 /\ D0(w) = 0
                        \/ D2(w) \in {4, 5} /\ D0(w) >= 12
<1>1. AVR_Decoder_Function(w) = FormatByDigits(w, \h2F00)
  BY FormatOf DEF AVR_Decoder_Function
<1>. QED  BY <1>1 DEF FormatByDigits

\* Every name takes a cycle, those with a second word two.
LEMMA Durations ==
    /\ \A n : Cycles(n) \in 1 .. 4
    /\ \A n \in {"LDS", "STS", "JMP", "CALL"} : Cycles(n) >= 2
<1>1. \A n : Cycles(n) \in 1 .. 4
  BY DEF Cycles
<1>2. ASSUME NEW n \in {"LDS", "STS", "JMP", "CALL"} PROVE Cycles(n) >= 2
  <2>1. \E c \in 2 .. 4 : <<n, c>> \in LongOnes
    <3>1. <<n, 2>> \in LongOnes \/ <<n, 4>> \in LongOnes
      BY DEF LongOnes, JumpCycles, LoadCycles, StoreCycles
    <3>. QED  BY <3>1
  <2>. QED  BY <2>1 DEF Cycles
<1>. QED  BY <1>1, <1>2

\* Words with a second one are listed as one of four names.
LEMMA TwoWordName ==
    ASSUME NEW w \in Words, AVR_Decoder_Function(w) \in {"LDS_STS", "JMP_CALL_22"}
    PROVE  AVR_Opcode_Cycles(w) \in {"LDS", "STS", "JMP", "CALL"}
<1> DEFINE n == AVR_Opcode_Function(w)
<1>1. /\ D0(w) \in Nibble /\ D1(w) \in Nibble /\ D2(w) \in Nibble /\ D3(w) \in Nibble
      /\ w = 4096 * D3(w) + 256 * D2(w) + 16 * D1(w) + D0(w)
  BY Digits
<1>2. D3(w) = 9 /\ \/ D2(w) <= 3 /\ D0(w) = 0
                   \/ D2(w) \in {4, 5} /\ D0(w) >= 12
  BY TwoWordPattern
<1>3. Hits(FunctionSwitches[6], w) \/ Hits(FunctionSwitches[7], w)
  <2>1. And(w, \hFE0F) = Kept(D3(w), 2 * (D2(w) \div 2), 0, D0(w))
        /\ And(w, \hFE0E) = Kept(D3(w), 2 * (D2(w) \div 2), 0, 2 * (D0(w) \div 2))
    BY Masks
  <2>2. \/ And(w, \hFE0F) \in {\h9000, \h9200}
        \/ And(w, \hFE0E) \in {\h940C, \h940E}
    BY <1>1, <1>2, <2>1 DEF Nibble, Kept
  <2>3. /\ FunctionSwitches[6].mask = \hFE0F /\ "LDS" \in DOMAIN FunctionSwitches[6].cases
        /\ FunctionSwitches[6].cases["LDS"] = \h9000
        /\ "STS" \in DOMAIN FunctionSwitches[6].cases /\ FunctionSwitches[6].cases["STS"] = \h9200
    BY DEF FunctionSwitches, Switch
  <2>4. /\ FunctionSwitches[7].mask = \hFE0E /\ DOMAIN FunctionSwitches[7].cases = {"JMP", "CALL"}
        /\ FunctionSwitches[7].cases["JMP"] = \h940C /\ FunctionSwitches[7].cases["CALL"] = \h940E
    BY DEF FunctionSwitches, Switch
  <2>. QED  BY <2>2, <2>3, <2>4 DEF Hits
<1>4. PICK i \in 1 .. 13 : /\ Finds(FunctionSwitches[i], w, n)
                           /\ \A j \in 1 .. 13 : j < i => ~Hits(FunctionSwitches[j], w)
  BY <1>3, FunctionFound
<1>5. i <= 7
  BY <1>3, <1>4
<1> HIDE DEF n
<1>6. CASE i = 1
  <2>1. w \notin {\h0000, \h9409, \h9419, \h9508, \h9509, \h9518, \h9519, \h9588, \h9598, \h95A8,
                  \h95C8, \h95D8, \h95E8, \h95F8}
    BY <1>1, <1>2 DEF Nibble
  <2>2. n \in DOMAIN FunctionSwitches[1].cases /\
          FunctionSwitches[1].cases[n] = And(w, FunctionSwitches[1].mask)
    BY <1>4, <1>6 DEF Finds
  <2>. QED  BY <2>1, <2>2, ExecutedWords
<1>7. CASE i = 2
  BY <1>1, <1>2, <1>4, <1>7, Switch2 DEF Nibble
<1>8. CASE i = 3
  BY <1>1, <1>2, <1>4, <1>8, Switch3 DEF Nibble
<1>9. CASE i = 4
  BY <1>1, <1>2, <1>4, <1>9, Switch4 DEF Nibble
<1>10. CASE i = 5
  BY <1>1, <1>2, <1>4, <1>10, Switch5 DEF Nibble
<1>11. CASE i \in {6, 7}
  <2>1. n \in {"LDS", "STS", "JMP", "CALL"}
    <3>1. CASE i = 6
      BY <1>1, <1>2, <1>4, <3>1, Switch6 DEF Nibble
    <3>2. CASE i = 7
      BY <1>1, <1>2, <1>4, <3>2, Switch7 DEF Nibble
    <3>. QED  BY <1>11, <3>1, <3>2
  <2>2. AVR_Opcode_Cycles(w) = n
    BY <1>4, <1>11, LaterListed DEF n
  <2>. QED  BY <2>1, <2>2
<1>. QED  BY <1>5, <1>6, <1>7, <1>8, <1>9, <1>10, <1>11

\* The size table says two words exactly where the decoder fetches a second one,
\* although the chains of tests differ in a bound, and the cycle table charges at
\* least a cycle for each.
THEOREM OperandsAdvancedPast == LookUpSpec => []AdvancesPastOperands
<1>1. ASSUME LookedUp, phase # "fetched"
      PROVE  /\ size \in {1, 2}
             /\ size = 2 <=> (latch["K"] = Second \/ latch["k"] % 65536 = Second)
             /\ Cycles(charge) >= size
  <2> DEFINE format == AVR_Decoder_Function(word)
             fields == Fields(word)
  <2>1. /\ word \in Words /\ charge = AVR_Opcode_Cycles(word) /\ size = AVR_Opcode_Size(word)
        /\ latch = AVR_Decode(word, Undecoded)
    BY <1>1 DEF LookedUp
  <2>2. size = IF format \in {"LDS_STS", "JMP_CALL_22"} THEN 2 ELSE 1
    BY <2>1, SizeAgrees DEF SizeOf
  <2>3. /\ latch["K"] = IF "K" \in DOMAIN fields THEN fields["K"] ELSE Stale
        /\ latch["k"] = IF "k" \in DOMAIN fields THEN fields["k"] ELSE Stale
    BY <2>1 DEF AVR_Decode, Latches, Undecoded
  <2>4. Stale # Second /\ Stale % 65536 # Second
    BY SecondBounds DEF Stale
  <2>5. /\ "K" \in DOMAIN fields /\ fields["K"] = Second <=> format = "LDS_STS"
        /\ "k" \in DOMAIN fields /\ fields["k"] % 65536 = Second <=> format = "JMP_CALL_22"
    BY <2>1, FieldRanges
  <2>6. Cycles(charge) >= size
    <3>1. CASE format \in {"LDS_STS", "JMP_CALL_22"}
      BY <2>1, <2>2, <3>1, TwoWordName, Durations
    <3>2. CASE format \notin {"LDS_STS", "JMP_CALL_22"}
      BY <2>2, <3>2, Durations
    <3>. QED  BY <3>1, <3>2
  <2> HIDE DEF format, fields
  <2>. QED  BY <2>2, <2>3, <2>4, <2>5, <2>6
<1>. QED  BY <1>1, LookedUpHolds, PTL DEF AdvancesPastOperands

----------------------------------------------------------------------------
(* Every bit counts: a word is known by its function and operands.        *)

\* Words that a mask leaves equal have equal digits where it keeps them.
LEMMA SameKept ==
    ASSUME NEW w \in Words, NEW v \in Words
    PROVE  /\ And(w, \hFF8F) = And(v, \hFF8F) =>
                 /\ D3(w) = D3(v)
                 /\ D2(w) = D2(v)
                 /\ 8 * (D1(w) \div 8) = 8 * (D1(v) \div 8)
                 /\ D0(w) = D0(v)
           /\ And(w, \hFF88) = And(v, \hFF88) =>
                 /\ D3(w) = D3(v)
                 /\ D2(w) = D2(v)
                 /\ 8 * (D1(w) \div 8) = 8 * (D1(v) \div 8)
                 /\ 8 * (D0(w) \div 8) = 8 * (D0(v) \div 8)
           /\ And(w, \hFF0F) = And(v, \hFF0F) =>
                 /\ D3(w) = D3(v)
                 /\ D2(w) = D2(v)
                 /\ D0(w) = D0(v)
           /\ And(w, \hFF00) = And(v, \hFF00) =>
                 /\ D3(w) = D3(v)
                 /\ D2(w) = D2(v)
           /\ And(w, \hFE0F) = And(v, \hFE0F) =>
                 /\ D3(w) = D3(v)
                 /\ 2 * (D2(w) \div 2) = 2 * (D2(v) \div 2)
                 /\ D0(w) = D0(v)
           /\ And(w, \hFE0E) = And(v, \hFE0E) =>
                 /\ D3(w) = D3(v)
                 /\ 2 * (D2(w) \div 2) = 2 * (D2(v) \div 2)
                 /\ 2 * (D0(w) \div 2) = 2 * (D0(v) \div 2)
           /\ And(w, \hFE08) = And(v, \hFE08) =>
                 /\ D3(w) = D3(v)
                 /\ 2 * (D2(w) \div 2) = 2 * (D2(v) \div 2)
                 /\ 8 * (D0(w) \div 8) = 8 * (D0(v) \div 8)
           /\ And(w, \hFC07) = And(v, \hFC07) =>
                 /\ D3(w) = D3(v)
                 /\ 4 * (D2(w) \div 4) = 4 * (D2(v) \div 4)
                 /\ D0(w) % 8 = D0(v) % 8
           /\ And(w, \hFC00) = And(v, \hFC00) =>
                 /\ D3(w) = D3(v)
                 /\ 4 * (D2(w) \div 4) = 4 * (D2(v) \div 4)
           /\ And(w, \hF800) = And(v, \hF800) =>
                 /\ D3(w) = D3(v)
                 /\ 8 * (D2(w) \div 8) = 8 * (D2(v) \div 8)
           /\ And(w, \hF000) = And(v, \hF000) =>
                 /\ D3(w) = D3(v)
           /\ And(w, \hD208) = And(v, \hD208) =>
                 /\ 4 * (D3(w) \div 4) + (D3(w) % 2) = 4 * (D3(v) \div 4) + (D3(v) % 2)
                 /\ 2 * ((D2(w) \div 2) % 2) = 2 * ((D2(v) \div 2) % 2)
                 /\ 8 * (D0(w) \div 8) = 8 * (D0(v) \div 8)
<1>1. /\ D0(w) \in Nibble /\ D1(w) \in Nibble /\ D2(w) \in Nibble /\ D3(w) \in Nibble
      /\ D0(v) \in Nibble /\ D1(v) \in Nibble /\ D2(v) \in Nibble /\ D3(v) \in Nibble
  BY Digits
<1>2. ASSUME And(w, \hFF8F) = And(v, \hFF8F)
      PROVE  /\ D3(w) = D3(v)
             /\ D2(w) = D2(v)
             /\ 8 * (D1(w) \div 8) = 8 * (D1(v) \div 8)
             /\ D0(w) = D0(v)
  <2> DEFINE d1w == 8 * (D1(w) \div 8)
             d1v == 8 * (D1(v) \div 8)
  <2>1. d1w \in Nibble /\ d1v \in Nibble
    BY <1>1 DEF Nibble
  <2>2. Kept(D3(w), D2(w), d1w, D0(w)) = Kept(D3(v), D2(v), d1v, D0(v))
    BY <1>2, Masks
  <2> HIDE DEF d1w, d1v
  <2>3. D3(w) = D3(v) /\ D2(w) = D2(v) /\ d1w = d1v /\ D0(w) = D0(v)
    BY <1>1, <2>1, <2>2, Zero, DigitsOfKept
  <2>. QED  BY <2>3 DEF d1w, d1v
<1>3. ASSUME And(w, \hFF88) = And(v, \hFF88)
      PROVE  /\ D3(w) = D3(v)
             /\ D2(w) = D2(v)
             /\ 8 * (D1(w) \div 8) = 8 * (D1(v) \div 8)
             /\ 8 * (D0(w) \div 8) = 8 * (D0(v) \div 8)
  <2> DEFINE d1w == 8 * (D1(w) \div 8)
             d1v == 8 * (D1(v) \div 8)
             d0w == 8 * (D0(w) \div 8)
             d0v == 8 * (D0(v) \div 8)
  <2>1. d1w \in Nibble /\ d1v \in Nibble /\ d0w \in Nibble /\ d0v \in Nibble
    BY <1>1 DEF Nibble
  <2>2. Kept(D3(w), D2(w), d1w, d0w) = Kept(D3(v), D2(v), d1v, d0v)
    BY <1>3, Masks
  <2> HIDE DEF d1w, d1v, d0w, d0v
  <2>3. D3(w) = D3(v) /\ D2(w) = D2(v) /\ d1w = d1v /\ d0w = d0v
    BY <1>1, <2>1, <2>2, Zero, DigitsOfKept
  <2>. QED  BY <2>3 DEF d1w, d1v, d0w, d0v
<1>4. ASSUME And(w, \hFF0F) = And(v, \hFF0F)
      PROVE  /\ D3(w) = D3(v)
             /\ D2(w) = D2(v)
             /\ D0(w) = D0(v)
  <2>1. Kept(D3(w), D2(w), 0, D0(w)) = Kept(D3(v), D2(v), 0, D0(v))
    BY <1>4, Masks
  <2>2. D3(w) = D3(v) /\ D2(w) = D2(v) /\ D0(w) = D0(v)
    BY <1>1, <2>1, Zero, DigitsOfKept
  <2>. QED  BY <2>2
<1>5. ASSUME And(w, \hFF00) = And(v, \hFF00)
      PROVE  /\ D3(w) = D3(v)
             /\ D2(w) = D2(v)
  <2>1. Kept(D3(w), D2(w), 0, 0) = Kept(D3(v), D2(v), 0, 0)
    BY <1>5, Masks
  <2>2. D3(w) = D3(v) /\ D2(w) = D2(v)
    BY <1>1, <2>1, Zero, DigitsOfKept
  <2>. QED  BY <2>2
<1>6. ASSUME And(w, \hFE0F) = And(v, \hFE0F)
      PROVE  /\ D3(w) = D3(v)
             /\ 2 * (D2(w) \div 2) = 2 * (D2(v) \div 2)
             /\ D0(w) = D0(v)
  <2> DEFINE d2w == 2 * (D2(w) \div 2)
             d2v == 2 * (D2(v) \div 2)
  <2>1. d2w \in Nibble /\ d2v \in Nibble
    BY <1>1 DEF Nibble
  <2>2. Kept(D3(w), d2w, 0, D0(w)) = Kept(D3(v), d2v, 0, D0(v))
    BY <1>6, Masks
  <2> HIDE DEF d2w, d2v
  <2>3. D3(w) = D3(v) /\ d2w = d2v /\ D0(w) = D0(v)
    BY <1>1, <2>1, <2>2, Zero, DigitsOfKept
  <2>. QED  BY <2>3 DEF d2w, d2v
<1>7. ASSUME And(w, \hFE0E) = And(v, \hFE0E)
      PROVE  /\ D3(w) = D3(v)
             /\ 2 * (D2(w) \div 2) = 2 * (D2(v) \div 2)
             /\ 2 * (D0(w) \div 2) = 2 * (D0(v) \div 2)
  <2> DEFINE d2w == 2 * (D2(w) \div 2)
             d2v == 2 * (D2(v) \div 2)
             d0w == 2 * (D0(w) \div 2)
             d0v == 2 * (D0(v) \div 2)
  <2>1. d2w \in Nibble /\ d2v \in Nibble /\ d0w \in Nibble /\ d0v \in Nibble
    BY <1>1 DEF Nibble
  <2>2. Kept(D3(w), d2w, 0, d0w) = Kept(D3(v), d2v, 0, d0v)
    BY <1>7, Masks
  <2> HIDE DEF d2w, d2v, d0w, d0v
  <2>3. D3(w) = D3(v) /\ d2w = d2v /\ d0w = d0v
    BY <1>1, <2>1, <2>2, Zero, DigitsOfKept
  <2>. QED  BY <2>3 DEF d2w, d2v, d0w, d0v
<1>8. ASSUME And(w, \hFE08) = And(v, \hFE08)
      PROVE  /\ D3(w) = D3(v)
             /\ 2 * (D2(w) \div 2) = 2 * (D2(v) \div 2)
             /\ 8 * (D0(w) \div 8) = 8 * (D0(v) \div 8)
  <2> DEFINE d2w == 2 * (D2(w) \div 2)
             d2v == 2 * (D2(v) \div 2)
             d0w == 8 * (D0(w) \div 8)
             d0v == 8 * (D0(v) \div 8)
  <2>1. d2w \in Nibble /\ d2v \in Nibble /\ d0w \in Nibble /\ d0v \in Nibble
    BY <1>1 DEF Nibble
  <2>2. Kept(D3(w), d2w, 0, d0w) = Kept(D3(v), d2v, 0, d0v)
    BY <1>8, Masks
  <2> HIDE DEF d2w, d2v, d0w, d0v
  <2>3. D3(w) = D3(v) /\ d2w = d2v /\ d0w = d0v
    BY <1>1, <2>1, <2>2, Zero, DigitsOfKept
  <2>. QED  BY <2>3 DEF d2w, d2v, d0w, d0v
<1>9. ASSUME And(w, \hFC07) = And(v, \hFC07)
      PROVE  /\ D3(w) = D3(v)
             /\ 4 * (D2(w) \div 4) = 4 * (D2(v) \div 4)
             /\ D0(w) % 8 = D0(v) % 8
  <2> DEFINE d2w == 4 * (D2(w) \div 4)
             d2v == 4 * (D2(v) \div 4)
             d0w == D0(w) % 8
             d0v == D0(v) % 8
  <2>1. d2w \in Nibble /\ d2v \in Nibble /\ d0w \in Nibble /\ d0v \in Nibble
    BY <1>1 DEF Nibble
  <2>2. Kept(D3(w), d2w, 0, d0w) = Kept(D3(v), d2v, 0, d0v)
    BY <1>9, Masks
  <2> HIDE DEF d2w, d2v, d0w, d0v
  <2>3. D3(w) = D3(v) /\ d2w = d2v /\ d0w = d0v
    BY <1>1, <2>1, <2>2, Zero, DigitsOfKept
  <2>. QED  BY <2>3 DEF d2w, d2v, d0w, d0v
<1>10. ASSUME And(w, \hFC00) = And(v, \hFC00)
      PROVE  /\ D3(w) = D3(v)
             /\ 4 * (D2(w) \div 4) = 4 * (D2(v) \div 4)
  <2> DEFINE d2w == 4 * (D2(w) \div 4)
             d2v == 4 * (D2(v) \div 4)
  <2>1. d2w \in Nibble /\ d2v \in Nibble
    BY <1>1 DEF Nibble
  <2>2. Kept(D3(w), d2w, 0, 0) = Kept(D3(v), d2v, 0, 0)
    BY <1>10, Masks
  <2> HIDE DEF d2w, d2v
  <2>3. D3(w) = D3(v) /\ d2w = d2v
    BY <1>1, <2>1, <2>2, Zero, DigitsOfKept
  <2>. QED  BY <2>3 DEF d2w, d2v
<1>11. ASSUME And(w, \hF800) = And(v, \hF800)
      PROVE  /\ D3(w) = D3(v)
             /\ 8 * (D2(w) \div 8) = 8 * (D2(v) \div 8)
  <2> DEFINE d2w == 8 * (D2(w) \div 8)
             d2v == 8 * (D2(v) \div 8)
  <2>1. d2w \in Nibble /\ d2v \in Nibble
    BY <1>1 DEF Nibble
  <2>2. Kept(D3(w), d2w, 0, 0) = Kept(D3(v), d2v, 0, 0)
    BY <1>11, Masks
  <2> HIDE DEF d2w, d2v
  <2>3. D3(w) = D3(v) /\ d2w = d2v
    BY <1>1, <2>1, <2>2, Zero, DigitsOfKept
  <2>. QED  BY <2>3 DEF d2w, d2v
<1>12. ASSUME And(w, \hF000) = And(v, \hF000)
      PROVE  /\ D3(w) = D3(v)
  <2>1. Kept(D3(w), 0, 0, 0) = Kept(D3(v), 0, 0, 0)
    BY <1>12, Masks
  <2>2. D3(w) = D3(v)
    BY <1>1, <2>1, Zero, DigitsOfKept
  <2>. QED  BY <2>2
<1>13. ASSUME And(w, \hD208) = And(v, \hD208)
      PROVE  /\ 4 * (D3(w) \div 4) + (D3(w) % 2) = 4 * (D3(v) \div 4) + (D3(v) % 2)
             /\ 2 * ((D2(w) \div 2) % 2) = 2 * ((D2(v) \div 2) % 2)
             /\ 8 * (D0(w) \div 8) = 8 * (D0(v) \div 8)
  <2> DEFINE d3w == 4 * (D3(w) \div 4) + (D3(w) % 2)
             d3v == 4 * (D3(v) \div 4) + (D3(v) % 2)
             d2w == 2 * ((D2(w) \div 2) % 2)
             d2v == 2 * ((D2(v) \div 2) % 2)
             d0w == 8 * (D0(w) \div 8)
             d0v == 8 * (D0(v) \div 8)
  <2>1. d3w \in Nibble /\ d3v \in Nibble /\ d2w \in Nibble /\ d2v \in Nibble /\ d0w \in Nibble /\
          d0v \in Nibble
    BY <1>1 DEF Nibble
  <2>2. Kept(d3w, d2w, 0, d0w) = Kept(d3v, d2v, 0, d0v)
    BY <1>13, Masks
  <2> HIDE DEF d3w, d3v, d2w, d2v, d0w, d0v
  <2>3. d3w = d3v /\ d2w = d2v /\ d0w = d0v
    BY <1>1, <2>1, <2>2, Zero, DigitsOfKept
  <2>. QED  BY <2>3 DEF d3w, d3v, d2w, d2v, d0w, d0v
<1>. QED  BY <1>2, <1>3, <1>4, <1>5, <1>6, <1>7, <1>8, <1>9, <1>10, <1>11, <1>12, <1>13

\* Words with equal digits are equal.
LEMMA SameDigits ==
    ASSUME NEW w \in Words, NEW v \in Words,
           D3(w) = D3(v), D2(w) = D2(v), D1(w) = D1(v), D0(w) = D0(v)
    PROVE  w = v
  BY Digits

\* Digits packed side by side are told apart.
LEMMA Packed ==
    ASSUME NEW h \in {0, 1}, NEW m \in Nibble, NEW t \in Nibble,
           NEW i \in {0, 1}, NEW n \in Nibble, NEW u \in Nibble,
           h + 2 * m + 32 * t = i + 2 * n + 32 * u
    PROVE  h = i /\ m = n /\ t = u
<1>1. /\ 8 * h \in Nibble /\ 8 * i \in Nibble /\ 0 \in Nibble
      /\ \A x \in Nibble : x \in Int
  BY DEF Nibble
<1>2. Kept(0, t, m, 8 * h) = Kept(0, u, n, 8 * i)
  BY <1>1 DEF Kept
<1>3. t = u /\ m = n /\ 8 * h = 8 * i
  BY <1>1, <1>2, DigitsOfKept
<1>. QED  BY <1>3

LEMMA PackedPair ==
    ASSUME NEW m \in Nibble, NEW t \in Nibble, NEW n \in Nibble, NEW u \in Nibble,
           m + 16 * t = n + 16 * u
    PROVE  m = n /\ t = u
  BY DEF Nibble

\* A signed displacement tells two fields of its width apart.
LEMMA SameSigned ==
    ASSUME NEW w \in Words, NEW v \in Words
    PROVE  /\ SignedField(w, 9, 3) = SignedField(v, 9, 3) =>
                 (D0(w) \div 8) + 2 * D1(w) + 32 * (D2(w) % 4)
                 = (D0(v) \div 8) + 2 * D1(v) + 32 * (D2(v) % 4)
           /\ SignedField(w, 11, 0) = SignedField(v, 11, 0) =>
                 D0(w) + 16 * D1(w) + 256 * D2(w) = D0(v) + 16 * D1(v) + 256 * D2(v)
<1>1. /\ D0(w) \in Nibble /\ D1(w) \in Nibble /\ D2(w) \in Nibble
      /\ D0(v) \in Nibble /\ D1(v) \in Nibble /\ D2(v) \in Nibble
  BY Digits
<1> DEFINE near(x) == (D0(x) \div 8) + 2 * D1(x) + 32 * (D2(x) % 4)
           far(x) == D0(x) + 16 * D1(x) + 256 * D2(x)
<1>2. /\ near(w) \in Int /\ 0 <= near(w) /\ near(w) < 128
      /\ near(v) \in Int /\ 0 <= near(v) /\ near(v) < 128
  BY <1>1 DEF Nibble
<1>3. /\ far(w) \in Int /\ 0 <= far(w) /\ far(w) < 4096
      /\ far(v) \in Int /\ 0 <= far(v) /\ far(v) < 4096
  <2>1. \A n \in Nibble : n \in Int /\ 0 <= n /\ n <= 15
    BY DEF Nibble
  <2>. QED  BY <1>1, <2>1
<1>4. /\ Field(w, 9, 3) = near(w) /\ Field(v, 9, 3) = near(v)
      /\ Field(w, 11, 0) = far(w) /\ Field(v, 11, 0) = far(v)
  BY FieldDigits
<1> HIDE DEF near, far
<1>5. /\ SignedField(w, 9, 3) = IF near(w) >= 64 THEN near(w) - 128 ELSE near(w)
      /\ SignedField(v, 9, 3) = IF near(v) >= 64 THEN near(v) - 128 ELSE near(v)
  <2>1. 2^(9 - 3) = 64
    OBVIOUS
  <2>. QED  BY <1>4, <2>1 DEF SignedField
<1>6. /\ SignedField(w, 11, 0) = IF far(w) >= 2048 THEN far(w) - 4096 ELSE far(w)
      /\ SignedField(v, 11, 0) = IF far(v) >= 2048 THEN far(v) - 4096 ELSE far(v)
  <2>1. 2^(11 - 0) = 2048
    OBVIOUS
  <2>. QED  BY <1>4, <2>1 DEF SignedField
<1>7. SignedField(w, 9, 3) = SignedField(v, 9, 3) => near(w) = near(v)
  BY <1>2, <1>5
<1>8. SignedField(w, 11, 0) = SignedField(v, 11, 0) => far(w) = far(v)
  BY <1>3, <1>6
<1>. QED  BY <1>7, <1>8 DEF near, far

\* Two words of one case, with equal fields where it reads them, are equal.
LEMMA Telling2 ==
    ASSUME NEW w \in Words, NEW v \in Words, NEW n,
           Finds(FunctionSwitches[2], w, n), Finds(FunctionSwitches[2], v, n), n # "DES",
           \A l : <<n, l>> \in FunctionReads => Fields(w)[l] = Fields(v)[l]
    PROVE  w = v
<1>1. /\ D0(w) \in Nibble /\ D1(w) \in Nibble /\ D2(w) \in Nibble /\ D3(w) \in Nibble
      /\ D0(v) \in Nibble /\ D1(v) \in Nibble /\ D2(v) \in Nibble /\ D3(v) \in Nibble
  BY Digits
<1>2. And(w, \hFF8F) = And(v, \hFF8F)
  <2>1. FunctionSwitches[2].mask = \hFF8F
    BY DEF FunctionSwitches, Switch
  <2>. QED  BY <2>1 DEF Finds
<1>3. /\ D3(w) = D3(v)
      /\ D2(w) = D2(v)
      /\ 8 * (D1(w) \div 8) = 8 * (D1(v) \div 8)
      /\ D0(w) = D0(v)
  BY <1>2, SameKept
<1>4. /\ Fields(w)["b"] = Field(w, 6, 4) /\ Fields(v)["b"] = Field(v, 6, 4)
      /\ <<n, "b">> \in FunctionReads
  BY Pairing2
<1>5. /\ Field(w, 6, 4) = Field(v, 6, 4)
  BY <1>4
<1>6. /\ D1(w) % 8 = D1(v) % 8
  BY <1>5, FieldDigits
<1>7. D3(w) = D3(v) /\ D2(w) = D2(v) /\ D1(w) = D1(v) /\ D0(w) = D0(v)
  BY <1>1, <1>3, <1>6 DEF Nibble
<1>. QED  BY <1>7, SameDigits

LEMMA Telling3 ==
    ASSUME NEW w \in Words, NEW v \in Words, NEW n,
           Finds(FunctionSwitches[3], w, n), Finds(FunctionSwitches[3], v, n), n # "DES",
           \A l : <<n, l>> \in FunctionReads => Fields(w)[l] = Fields(v)[l]
    PROVE  w = v
<1>1. /\ D0(w) \in Nibble /\ D1(w) \in Nibble /\ D2(w) \in Nibble /\ D3(w) \in Nibble
      /\ D0(v) \in Nibble /\ D1(v) \in Nibble /\ D2(v) \in Nibble /\ D3(v) \in Nibble
  BY Digits
<1>2. And(w, \hFF88) = And(v, \hFF88)
  <2>1. FunctionSwitches[3].mask = \hFF88
    BY DEF FunctionSwitches, Switch
  <2>. QED  BY <2>1 DEF Finds
<1>3. /\ D3(w) = D3(v)
      /\ D2(w) = D2(v)
      /\ 8 * (D1(w) \div 8) = 8 * (D1(v) \div 8)
      /\ 8 * (D0(w) \div 8) = 8 * (D0(v) \div 8)
  BY <1>2, SameKept
<1>4. /\ Fields(w)["Rr"] = Field(w, 2, 0) + 16 /\ Fields(v)["Rr"] = Field(v, 2, 0) + 16
      /\ <<n, "Rr">> \in FunctionReads
      /\ Fields(w)["Rd"] = Field(w, 6, 4) + 16 /\ Fields(v)["Rd"] = Field(v, 6, 4) + 16
      /\ <<n, "Rd">> \in FunctionReads
  BY Pairing3
<1>5. /\ Field(w, 2, 0) + 16 = Field(v, 2, 0) + 16
      /\ Field(w, 6, 4) + 16 = Field(v, 6, 4) + 16
  BY <1>4
<1>6. /\ (D0(w) % 8) + 16 = (D0(v) % 8) + 16
      /\ (D1(w) % 8) + 16 = (D1(v) % 8) + 16
  BY <1>5, FieldDigits
<1>7. D3(w) = D3(v) /\ D2(w) = D2(v) /\ D1(w) = D1(v) /\ D0(w) = D0(v)
  BY <1>1, <1>3, <1>6 DEF Nibble
<1>. QED  BY <1>7, SameDigits

LEMMA Telling4 ==
    ASSUME NEW w \in Words, NEW v \in Words, NEW n,
           Finds(FunctionSwitches[4], w, n), Finds(FunctionSwitches[4], v, n), n # "DES",
           \A l : <<n, l>> \in FunctionReads => Fields(w)[l] = Fields(v)[l]
    PROVE  w = v
<1>1. /\ D0(w) \in Nibble /\ D1(w) \in Nibble /\ D2(w) \in Nibble /\ D3(w) \in Nibble
      /\ D0(v) \in Nibble /\ D1(v) \in Nibble /\ D2(v) \in Nibble /\ D3(v) \in Nibble
  BY Digits
<1>2. And(w, \hFF0F) = And(v, \hFF0F)
  <2>1. FunctionSwitches[4].mask = \hFF0F
    BY DEF FunctionSwitches, Switch
  <2>. QED  BY <2>1 DEF Finds
<1>3. /\ D3(w) = D3(v)
      /\ D2(w) = D2(v)
      /\ D0(w) = D0(v)
  BY <1>2, SameKept
<1>4. ASSUME n \in {"SER"} PROVE w = v
  <2>1. /\ Fields(w)["Rd"] = Field(w, 7, 4) + 16 /\ Fields(v)["Rd"] = Field(v, 7, 4) + 16
        /\ <<n, "Rd">> \in FunctionReads
    BY Pairing4, <1>4
  <2>2. /\ Field(w, 7, 4) + 16 = Field(v, 7, 4) + 16
    BY <2>1
  <2>3. /\ D1(w) + 16 = D1(v) + 16
    BY <2>2, FieldDigits
  <2>4. D3(w) = D3(v) /\ D2(w) = D2(v) /\ D1(w) = D1(v) /\ D0(w) = D0(v)
    BY <1>1, <1>3, <2>3 DEF Nibble
  <2>. QED  BY <2>4, SameDigits
<1>. QED  BY Pairing4, <1>4

LEMMA Telling5 ==
    ASSUME NEW w \in Words, NEW v \in Words, NEW n,
           Finds(FunctionSwitches[5], w, n), Finds(FunctionSwitches[5], v, n), n # "DES",
           \A l : <<n, l>> \in FunctionReads => Fields(w)[l] = Fields(v)[l]
    PROVE  w = v
<1>1. /\ D0(w) \in Nibble /\ D1(w) \in Nibble /\ D2(w) \in Nibble /\ D3(w) \in Nibble
      /\ D0(v) \in Nibble /\ D1(v) \in Nibble /\ D2(v) \in Nibble /\ D3(v) \in Nibble
  BY Digits
<1>2. And(w, \hFF00) = And(v, \hFF00)
  <2>1. FunctionSwitches[5].mask = \hFF00
    BY DEF FunctionSwitches, Switch
  <2>. QED  BY <2>1 DEF Finds
<1>3. /\ D3(w) = D3(v)
      /\ D2(w) = D2(v)
  BY <1>2, SameKept
<1>4. ASSUME n \in {"MOVW"} PROVE w = v
  <2>1. /\ Fields(w)["Rr16"] = Field(w, 3, 0) /\ Fields(v)["Rr16"] = Field(v, 3, 0)
        /\ <<n, "Rr16">> \in FunctionReads
        /\ Fields(w)["Rd16"] = Field(w, 7, 4) /\ Fields(v)["Rd16"] = Field(v, 7, 4)
        /\ <<n, "Rd16">> \in FunctionReads
    BY Pairing5, <1>4
  <2>2. /\ Field(w, 3, 0) = Field(v, 3, 0)
        /\ Field(w, 7, 4) = Field(v, 7, 4)
    BY <2>1
  <2>3. /\ D0(w) = D0(v)
        /\ D1(w) = D1(v)
    BY <2>2, FieldDigits
  <2>4. D3(w) = D3(v) /\ D2(w) = D2(v) /\ D1(w) = D1(v) /\ D0(w) = D0(v)
    BY <1>1, <1>3, <2>3 DEF Nibble
  <2>. QED  BY <2>4, SameDigits
<1>5. ASSUME n \in {"ADIW", "SBIW"} PROVE w = v
  <2>1. /\ Fields(w)["K"] = Field(w, 3, 0) + 16 * Field(w, 7, 6) /\
             Fields(v)["K"] = Field(v, 3, 0) + 16 * Field(v, 7, 6)
        /\ <<n, "K">> \in FunctionReads
        /\ Fields(w)["Rd16"] = Field(w, 5, 4) + 12 /\ Fields(v)["Rd16"] = Field(v, 5, 4) + 12
        /\ <<n, "Rd16">> \in FunctionReads
    BY Pairing5, <1>5
  <2>2. /\ Field(w, 3, 0) + 16 * Field(w, 7, 6) = Field(v, 3, 0) + 16 * Field(v, 7, 6)
        /\ Field(w, 5, 4) + 12 = Field(v, 5, 4) + 12
    BY <2>1
  <2>3. /\ D0(w) + 16 * (D1(w) \div 4) = D0(v) + 16 * (D1(v) \div 4)
        /\ (D1(w) % 4) + 12 = (D1(v) % 4) + 12
    BY <2>2, FieldDigits
  <2>4. D3(w) = D3(v) /\ D2(w) = D2(v) /\ D1(w) = D1(v) /\ D0(w) = D0(v)
    BY <1>1, <1>3, <2>3 DEF Nibble
  <2>. QED  BY <2>4, SameDigits
<1>6. ASSUME n \in {"CBI", "SBIC", "SBI", "SBIS"} PROVE w = v
  <2>1. /\ Fields(w)["b"] = Field(w, 2, 0) /\ Fields(v)["b"] = Field(v, 2, 0)
        /\ <<n, "b">> \in FunctionReads
        /\ Fields(w)["A"] = Field(w, 7, 3) /\ Fields(v)["A"] = Field(v, 7, 3)
        /\ <<n, "A">> \in FunctionReads
    BY Pairing5, <1>6
  <2>2. /\ Field(w, 2, 0) = Field(v, 2, 0)
        /\ Field(w, 7, 3) = Field(v, 7, 3)
    BY <2>1
  <2>3. /\ D0(w) % 8 = D0(v) % 8
        /\ (D0(w) \div 8) + 2 * D1(w) = (D0(v) \div 8) + 2 * D1(v)
    BY <2>2, FieldDigits
  <2>4. D3(w) = D3(v) /\ D2(w) = D2(v) /\ D1(w) = D1(v) /\ D0(w) = D0(v)
    BY <1>1, <1>3, <2>3 DEF Nibble
  <2>. QED  BY <2>4, SameDigits
<1>. QED  BY Pairing5, <1>4, <1>5, <1>6

LEMMA Telling6 ==
    ASSUME NEW w \in Words, NEW v \in Words, NEW n,
           Finds(FunctionSwitches[6], w, n), Finds(FunctionSwitches[6], v, n), n # "DES",
           \A l : <<n, l>> \in FunctionReads => Fields(w)[l] = Fields(v)[l]
    PROVE  w = v
<1>1. /\ D0(w) \in Nibble /\ D1(w) \in Nibble /\ D2(w) \in Nibble /\ D3(w) \in Nibble
      /\ D0(v) \in Nibble /\ D1(v) \in Nibble /\ D2(v) \in Nibble /\ D3(v) \in Nibble
  BY Digits
<1>2. And(w, \hFE0F) = And(v, \hFE0F)
  <2>1. FunctionSwitches[6].mask = \hFE0F
    BY DEF FunctionSwitches, Switch
  <2>. QED  BY <2>1 DEF Finds
<1>3. /\ D3(w) = D3(v)
      /\ 2 * (D2(w) \div 2) = 2 * (D2(v) \div 2)
      /\ D0(w) = D0(v)
  BY <1>2, SameKept
<1>4. /\ Fields(w)["Rd"] = RdOf(w) /\ Fields(v)["Rd"] = RdOf(v)
      /\ <<n, "Rd">> \in FunctionReads
  BY Pairing6
<1>5. /\ RdOf(w) = RdOf(v)
  BY <1>4
<1>6. /\ D1(w) + 16 * (D2(w) % 2) = D1(v) + 16 * (D2(v) % 2)
  BY <1>5, FieldDigits DEF RdOf
<1>7. D3(w) = D3(v) /\ D2(w) = D2(v) /\ D1(w) = D1(v) /\ D0(w) = D0(v)
  BY <1>1, <1>3, <1>6 DEF Nibble
<1>. QED  BY <1>7, SameDigits

LEMMA Telling7 ==
    ASSUME NEW w \in Words, NEW v \in Words, NEW n,
           Finds(FunctionSwitches[7], w, n), Finds(FunctionSwitches[7], v, n), n # "DES",
           \A l : <<n, l>> \in FunctionReads => Fields(w)[l] = Fields(v)[l]
    PROVE  w = v
<1>1. /\ D0(w) \in Nibble /\ D1(w) \in Nibble /\ D2(w) \in Nibble /\ D3(w) \in Nibble
      /\ D0(v) \in Nibble /\ D1(v) \in Nibble /\ D2(v) \in Nibble /\ D3(v) \in Nibble
  BY Digits
<1>2. And(w, \hFE0E) = And(v, \hFE0E)
  <2>1. FunctionSwitches[7].mask = \hFE0E
    BY DEF FunctionSwitches, Switch
  <2>. QED  BY <2>1 DEF Finds
<1>3. /\ D3(w) = D3(v)
      /\ 2 * (D2(w) \div 2) = 2 * (D2(v) \div 2)
      /\ 2 * (D0(w) \div 2) = 2 * (D0(v) \div 2)
  BY <1>2, SameKept
<1>4. /\ Fields(w)["k"] = 65536 * (Field(w, 0, 0) + 2 * Field(w, 8, 4)) + Second /\
           Fields(v)["k"] = 65536 * (Field(v, 0, 0) + 2 * Field(v, 8, 4)) + Second
      /\ <<n, "k">> \in FunctionReads
  BY Pairing7
<1>5. /\ 65536 * (Field(w, 0, 0) + 2 * Field(w, 8, 4)) + Second =
           65536 * (Field(v, 0, 0) + 2 * Field(v, 8, 4)) + Second
  BY <1>4
<1>6. Field(w, 0, 0) + 2 * Field(w, 8, 4) = Field(v, 0, 0) + 2 * Field(v, 8, 4)
  <2> DEFINE fw == Field(w, 0, 0) + 2 * Field(w, 8, 4)
             fv == Field(v, 0, 0) + 2 * Field(v, 8, 4)
  <2>1. fw \in Int /\ fv \in Int
    <3>1. \A x \in Words : Field(x, 0, 0) = D0(x) % 2
      BY FieldDigits
    <3>2. \A x \in Words : Field(x, 8, 4) = D1(x) + 16 * (D2(x) % 2)
      BY FieldDigits
    <3>3. \A y \in Nibble : y \in Int /\ y % 2 \in Int
      BY DEF Nibble
    <3>4. /\ Field(w, 0, 0) \in Int /\ Field(v, 0, 0) \in Int
          /\ Field(w, 8, 4) \in Int /\ Field(v, 8, 4) \in Int
      BY <1>1, <3>1, <3>2, <3>3
    <3>. QED  BY <3>4
  <2>2. 65536 * fw + Second = 65536 * fv + Second
    BY <1>5
  <2>3. Second \in Int /\ \A x, y, z \in Int : 65536 * x + z = 65536 * y + z => x = y
    BY SecondBounds
  <2>. HIDE DEF fw, fv
  <2>4. fw = fv
    BY <2>1, <2>2, <2>3
  <2>. QED  BY <2>4 DEF fw, fv
<1>7. D3(w) = D3(v) /\ D2(w) = D2(v) /\ D1(w) = D1(v) /\ D0(w) = D0(v)
  <2> DEFINE lw == D0(w) % 2
             lv == D0(v) % 2
             tw == D2(w) % 2
             tv == D2(v) % 2
  <2>1. /\ lw \in {0, 1} /\ lv \in {0, 1} /\ tw \in Nibble /\ tv \in Nibble
        /\ \A x \in Nibble : x \in Int
    BY <1>1 DEF Nibble
  <2>2. lw + 2 * D1(w) + 32 * tw = lv + 2 * D1(v) + 32 * tv
    <3>1. lw + 2 * (D1(w) + 16 * tw) = lv + 2 * (D1(v) + 16 * tv)
      BY <1>6, FieldDigits
    <3>2. lw \in Int /\ lv \in Int /\ D1(w) \in Int /\ D1(v) \in Int /\ tw \in Int /\ tv \in Int
      BY <1>1, <2>1
    <3> HIDE DEF lw, lv, tw, tv
    <3>. QED  BY <3>1, <3>2
  <2>3. lw = lv /\ D1(w) = D1(v) /\ tw = tv
    <3> HIDE DEF lw, lv, tw, tv
    <3>. QED  BY <1>1, <2>1, <2>2, Packed
  <2>. QED  BY <1>1, <1>3, <2>3 DEF Nibble
<1>. QED  BY <1>7, SameDigits

LEMMA Telling8 ==
    ASSUME NEW w \in Words, NEW v \in Words, NEW n,
           Finds(FunctionSwitches[8], w, n), Finds(FunctionSwitches[8], v, n), n # "DES",
           \A l : <<n, l>> \in FunctionReads => Fields(w)[l] = Fields(v)[l]
    PROVE  w = v
<1>1. /\ D0(w) \in Nibble /\ D1(w) \in Nibble /\ D2(w) \in Nibble /\ D3(w) \in Nibble
      /\ D0(v) \in Nibble /\ D1(v) \in Nibble /\ D2(v) \in Nibble /\ D3(v) \in Nibble
  BY Digits
<1>2. And(w, \hFE08) = And(v, \hFE08)
  <2>1. FunctionSwitches[8].mask = \hFE08
    BY DEF FunctionSwitches, Switch
  <2>. QED  BY <2>1 DEF Finds
<1>3. /\ D3(w) = D3(v)
      /\ 2 * (D2(w) \div 2) = 2 * (D2(v) \div 2)
      /\ 8 * (D0(w) \div 8) = 8 * (D0(v) \div 8)
  BY <1>2, SameKept
<1>4. /\ Fields(w)["b"] = Field(w, 2, 0) /\ Fields(v)["b"] = Field(v, 2, 0)
      /\ <<n, "b">> \in FunctionReads
      /\ Fields(w)["Rd"] = RdOf(w) /\ Fields(v)["Rd"] = RdOf(v)
      /\ <<n, "Rd">> \in FunctionReads
  BY Pairing8
<1>5. /\ Field(w, 2, 0) = Field(v, 2, 0)
      /\ RdOf(w) = RdOf(v)
  BY <1>4
<1>6. /\ D0(w) % 8 = D0(v) % 8
      /\ D1(w) + 16 * (D2(w) % 2) = D1(v) + 16 * (D2(v) % 2)
  BY <1>5, FieldDigits DEF RdOf
<1>7. D3(w) = D3(v) /\ D2(w) = D2(v) /\ D1(w) = D1(v) /\ D0(w) = D0(v)
  BY <1>1, <1>3, <1>6 DEF Nibble
<1>. QED  BY <1>7, SameDigits

LEMMA Telling9 ==
    ASSUME NEW w \in Words, NEW v \in Words, NEW n,
           Finds(FunctionSwitches[9], w, n), Finds(FunctionSwitches[9], v, n), n # "DES",
           \A l : <<n, l>> \in FunctionReads => Fields(w)[l] = Fields(v)[l]
    PROVE  w = v
<1>1. /\ D0(w) \in Nibble /\ D1(w) \in Nibble /\ D2(w) \in Nibble /\ D3(w) \in Nibble
      /\ D0(v) \in Nibble /\ D1(v) \in Nibble /\ D2(v) \in Nibble /\ D3(v) \in Nibble
  BY Digits
<1>2. And(w, \hFC07) = And(v, \hFC07)
  <2>1. FunctionSwitches[9].mask = \hFC07
    BY DEF FunctionSwitches, Switch
  <2>. QED  BY <2>1 DEF Finds
<1>3. /\ D3(w) = D3(v)
      /\ 4 * (D2(w) \div 4) = 4 * (D2(v) \div 4)
      /\ D0(w) % 8 = D0(v) % 8
  BY <1>2, SameKept
<1>4. /\ Fields(w)["k_s"] = SignedField(w, 9, 3) /\ Fields(v)["k_s"] = SignedField(v, 9, 3)
      /\ <<n, "k_s">> \in FunctionReads
  BY Pairing9
<1>5. /\ SignedField(w, 9, 3) = SignedField(v, 9, 3)
  BY <1>4
<1>6. /\ (D0(w) \div 8) + 2 * D1(w) + 32 * (D2(w) % 4) = (D0(v) \div 8) + 2 * D1(v) +
           32 * (D2(v) % 4)
  BY <1>5, SameSigned
<1>7. D3(w) = D3(v) /\ D2(w) = D2(v) /\ D1(w) = D1(v) /\ D0(w) = D0(v)
  <2> DEFINE lw == D0(w) \div 8
             lv == D0(v) \div 8
             tw == D2(w) % 4
             tv == D2(v) % 4
  <2>1. lw \in {0, 1} /\ lv \in {0, 1} /\ tw \in Nibble /\ tv \in Nibble
    BY <1>1 DEF Nibble
  <2>2. lw + 2 * D1(w) + 32 * tw = lv + 2 * D1(v) + 32 * tv
    BY <1>6
  <2>3. lw = lv /\ D1(w) = D1(v) /\ tw = tv
    <3> HIDE DEF lw, lv, tw, tv
    <3>. QED  BY <1>1, <2>1, <2>2, Packed
  <2>. QED  BY <1>1, <1>3, <2>3 DEF Nibble
<1>. QED  BY <1>7, SameDigits

LEMMA Telling10 ==
    ASSUME NEW w \in Words, NEW v \in Words, NEW n,
           Finds(FunctionSwitches[10], w, n), Finds(FunctionSwitches[10], v, n), n # "DES",
           \A l : <<n, l>> \in FunctionReads => Fields(w)[l] = Fields(v)[l]
    PROVE  w = v
<1>1. /\ D0(w) \in Nibble /\ D1(w) \in Nibble /\ D2(w) \in Nibble /\ D3(w) \in Nibble
      /\ D0(v) \in Nibble /\ D1(v) \in Nibble /\ D2(v) \in Nibble /\ D3(v) \in Nibble
  BY Digits
<1>2. And(w, \hFC00) = And(v, \hFC00)
  <2>1. FunctionSwitches[10].mask = \hFC00
    BY DEF FunctionSwitches, Switch
  <2>. QED  BY <2>1 DEF Finds
<1>3. /\ D3(w) = D3(v)
      /\ 4 * (D2(w) \div 4) = 4 * (D2(v) \div 4)
  BY <1>2, SameKept
<1>4. /\ Fields(w)["Rr"] = RrOf(w) /\ Fields(v)["Rr"] = RrOf(v)
      /\ <<n, "Rr">> \in FunctionReads
      /\ Fields(w)["Rd"] = RdOf(w) /\ Fields(v)["Rd"] = RdOf(v)
      /\ <<n, "Rd">> \in FunctionReads
  BY Pairing10
<1>5. /\ RrOf(w) = RrOf(v)
      /\ RdOf(w) = RdOf(v)
  BY <1>4
<1>6. /\ D0(w) + 16 * ((D2(w) \div 2) % 2) = D0(v) + 16 * ((D2(v) \div 2) % 2)
      /\ D1(w) + 16 * (D2(w) % 2) = D1(v) + 16 * (D2(v) % 2)
  BY <1>5, FieldDigits DEF RdOf, RrOf
<1>7. D3(w) = D3(v) /\ D2(w) = D2(v) /\ D1(w) = D1(v) /\ D0(w) = D0(v)
  BY <1>1, <1>3, <1>6 DEF Nibble
<1>. QED  BY <1>7, SameDigits

LEMMA Telling11 ==
    ASSUME NEW w \in Words, NEW v \in Words, NEW n,
           Finds(FunctionSwitches[11], w, n), Finds(FunctionSwitches[11], v, n), n # "DES",
           \A l : <<n, l>> \in FunctionReads => Fields(w)[l] = Fields(v)[l]
    PROVE  w = v
<1>1. /\ D0(w) \in Nibble /\ D1(w) \in Nibble /\ D2(w) \in Nibble /\ D3(w) \in Nibble
      /\ D0(v) \in Nibble /\ D1(v) \in Nibble /\ D2(v) \in Nibble /\ D3(v) \in Nibble
  BY Digits
<1>2. And(w, \hF800) = And(v, \hF800)
  <2>1. FunctionSwitches[11].mask = \hF800
    BY DEF FunctionSwitches, Switch
  <2>. QED  BY <2>1 DEF Finds
<1>3. /\ D3(w) = D3(v)
      /\ 8 * (D2(w) \div 8) = 8 * (D2(v) \div 8)
  BY <1>2, SameKept
<1>4. /\ Fields(w)["A"] = Field(w, 3, 0) + 16 * Field(w, 10, 9) /\
           Fields(v)["A"] = Field(v, 3, 0) + 16 * Field(v, 10, 9)
      /\ <<n, "A">> \in FunctionReads
      /\ Fields(w)["Rd"] = RdOf(w) /\ Fields(v)["Rd"] = RdOf(v)
      /\ <<n, "Rd">> \in FunctionReads
  BY Pairing11
<1>5. /\ Field(w, 3, 0) + 16 * Field(w, 10, 9) = Field(v, 3, 0) + 16 * Field(v, 10, 9)
      /\ RdOf(w) = RdOf(v)
  BY <1>4
<1>6. /\ D0(w) + 16 * ((D2(w) \div 2) % 4) = D0(v) + 16 * ((D2(v) \div 2) % 4)
      /\ D1(w) + 16 * (D2(w) % 2) = D1(v) + 16 * (D2(v) % 2)
  BY <1>5, FieldDigits DEF RdOf
<1>7. D3(w) = D3(v) /\ D2(w) = D2(v) /\ D1(w) = D1(v) /\ D0(w) = D0(v)
  BY <1>1, <1>3, <1>6 DEF Nibble
<1>. QED  BY <1>7, SameDigits

LEMMA Telling12 ==
    ASSUME NEW w \in Words, NEW v \in Words, NEW n,
           Finds(FunctionSwitches[12], w, n), Finds(FunctionSwitches[12], v, n), n # "DES",
           \A l : <<n, l>> \in FunctionReads => Fields(w)[l] = Fields(v)[l]
    PROVE  w = v
<1>1. /\ D0(w) \in Nibble /\ D1(w) \in Nibble /\ D2(w) \in Nibble /\ D3(w) \in Nibble
      /\ D0(v) \in Nibble /\ D1(v) \in Nibble /\ D2(v) \in Nibble /\ D3(v) \in Nibble
  BY Digits
<1>2. And(w, \hF000) = And(v, \hF000)
  <2>1. FunctionSwitches[12].mask = \hF000
    BY DEF FunctionSwitches, Switch
  <2>. QED  BY <2>1 DEF Finds
<1>3. /\ D3(w) = D3(v)
  BY <1>2, SameKept
<1>4. ASSUME n \in {"CPI", "SBCI", "SUBI", "ORI", "ANDI", "LDI"} PROVE w = v
  <2>1. /\ Fields(w)["K"] = KOf(w) /\ Fields(v)["K"] = KOf(v)
        /\ <<n, "K">> \in FunctionReads
        /\ Fields(w)["Rd"] = Field(w, 7, 4) + 16 /\ Fields(v)["Rd"] = Field(v, 7, 4) + 16
        /\ <<n, "Rd">> \in FunctionReads
    BY Pairing12, <1>4
  <2>2. /\ KOf(w) = KOf(v)
        /\ Field(w, 7, 4) + 16 = Field(v, 7, 4) + 16
    BY <2>1
  <2>3. /\ D0(w) + 16 * D2(w) = D0(v) + 16 * D2(v)
        /\ D1(w) + 16 = D1(v) + 16
    BY <2>2, FieldDigits DEF KOf
  <2>4. D3(w) = D3(v) /\ D2(w) = D2(v) /\ D1(w) = D1(v) /\ D0(w) = D0(v)
    <3>1. D0(w) = D0(v) /\ D2(w) = D2(v)
      BY <1>1, <2>3, PackedPair
    <3>2. \A x, y \in Nibble : x + 16 = y + 16 => x = y
      BY DEF Nibble
    <3>3. D1(w) = D1(v)
      BY <1>1, <2>3, <3>2
    <3>. QED  BY <1>3, <3>1, <3>3
  <2>. QED  BY <2>4, SameDigits
<1>5. ASSUME n \in {"RJMP", "RCALL"} PROVE w = v
  <2>1. /\ Fields(w)["k_s"] = SignedField(w, 11, 0) /\ Fields(v)["k_s"] = SignedField(v, 11, 0)
        /\ <<n, "k_s">> \in FunctionReads
    BY Pairing12, <1>5
  <2>2. /\ SignedField(w, 11, 0) = SignedField(v, 11, 0)
    BY <2>1
  <2>3. /\ D0(w) + 16 * D1(w) + 256 * D2(w) = D0(v) + 16 * D1(v) + 256 * D2(v)
    BY <2>2, SameSigned
  <2>4. D3(w) = D3(v) /\ D2(w) = D2(v) /\ D1(w) = D1(v) /\ D0(w) = D0(v)
    <3>1. 0 \in Nibble /\ \A x \in Nibble : x \in Int
      BY DEF Nibble
    <3>2. Kept(0, D2(w), D1(w), D0(w)) = Kept(0, D2(v), D1(v), D0(v))
      BY <1>1, <2>3, <3>1 DEF Kept
    <3>. QED  BY <1>1, <1>3, <3>1, <3>2, DigitsOfKept
  <2>. QED  BY <2>4, SameDigits
<1>. QED  BY Pairing12, <1>4, <1>5

LEMMA Telling13 ==
    ASSUME NEW w \in Words, NEW v \in Words, NEW n,
           Finds(FunctionSwitches[13], w, n), Finds(FunctionSwitches[13], v, n), n # "DES",
           \A l : <<n, l>> \in FunctionReads => Fields(w)[l] = Fields(v)[l]
    PROVE  w = v
<1>1. /\ D0(w) \in Nibble /\ D1(w) \in Nibble /\ D2(w) \in Nibble /\ D3(w) \in Nibble
      /\ D0(v) \in Nibble /\ D1(v) \in Nibble /\ D2(v) \in Nibble /\ D3(v) \in Nibble
  BY Digits
<1>2. And(w, \hD208) = And(v, \hD208)
  <2>1. FunctionSwitches[13].mask = \hD208
    BY DEF FunctionSwitches, Switch
  <2>. QED  BY <2>1 DEF Finds
<1>3. /\ 4 * (D3(w) \div 4) + (D3(w) % 2) = 4 * (D3(v) \div 4) + (D3(v) % 2)
      /\ 2 * ((D2(w) \div 2) % 2) = 2 * ((D2(v) \div 2) % 2)
      /\ 8 * (D0(w) \div 8) = 8 * (D0(v) \div 8)
  BY <1>2, SameKept
<1>4. /\ Fields(w)["q"] = Field(w, 2, 0) + 8 * Field(w, 11, 10) + 32 * Field(w, 13, 13) /\
           Fields(v)["q"] = Field(v, 2, 0) + 8 * Field(v, 11, 10) + 32 * Field(v, 13, 13)
      /\ <<n, "q">> \in FunctionReads
      /\ Fields(w)["Rd"] = RdOf(w) /\ Fields(v)["Rd"] = RdOf(v)
      /\ <<n, "Rd">> \in FunctionReads
  BY Pairing13
<1>5. /\ Field(w, 2, 0) + 8 * Field(w, 11, 10) + 32 * Field(w, 13, 13) = Field(v, 2, 0) +
           8 * Field(v, 11, 10) + 32 * Field(v, 13, 13)
      /\ RdOf(w) = RdOf(v)
  BY <1>4
<1>6. /\ (D0(w) % 8) + 8 * (D2(w) \div 4) + 32 * ((D3(w) \div 2) % 2) = (D0(v) % 8) +
           8 * (D2(v) \div 4) + 32 * ((D3(v) \div 2) % 2)
      /\ D1(w) + 16 * (D2(w) % 2) = D1(v) + 16 * (D2(v) % 2)
  BY <1>5, FieldDigits DEF RdOf
<1>7. D3(w) = D3(v) /\ D2(w) = D2(v) /\ D1(w) = D1(v) /\ D0(w) = D0(v)
  <2> DEFINE lw == D0(w) % 8
             lv == D0(v) % 8
             mw == D2(w) \div 4
             mv == D2(v) \div 4
             hw == (D3(w) \div 2) % 2
             hv == (D3(v) \div 2) % 2
  <2>1. /\ lw \in 0 .. 7 /\ lv \in 0 .. 7 /\ mw \in 0 .. 3 /\ mv \in 0 .. 3
        /\ hw \in {0, 1} /\ hv \in {0, 1}
    BY <1>1 DEF Nibble
  <2>2. lw + 8 * mw + 32 * hw = lv + 8 * mv + 32 * hv
    BY <1>6
  <2>3. lw = lv /\ mw = mv /\ hw = hv
    <3> HIDE DEF lw, lv, mw, mv, hw, hv
    <3>. QED  BY <2>1, <2>2
  <2>4. D0(w) = D0(v)
    BY <1>1, <1>3, <2>3 DEF Nibble
  <2>5. D3(w) = D3(v)
    BY <1>1, <1>3, <2>3 DEF Nibble
  <2>6. D1(w) = D1(v) /\ D2(w) % 2 = D2(v) % 2
    BY <1>1, <1>6 DEF Nibble
  <2>7. D2(w) = D2(v)
    BY <1>1, <1>3, <2>3, <2>6 DEF Nibble
  <2>. QED  BY <2>4, <2>5, <2>6, <2>7
<1>. QED  BY <1>7, SameDigits

\* Executing the same function on the same operands takes the same word.
LEMMA SameMeaning ==
    ASSUME NEW w \in Words, NEW v \in Words, Meaning(w) = Meaning(v),
           Meaning(w).name \notin {"NOP", "DES"}
    PROVE  w = v
<1> DEFINE n == Meaning(w).name
<1>1. n = AVR_Opcode_Function(w) /\ n = AVR_Opcode_Function(v)
  BY MeaningOperands
<1>2. \A l : <<n, l>> \in FunctionReads => Fields(w)[l] = Fields(v)[l]
  <2>1. ASSUME NEW l, <<n, l>> \in FunctionReads PROVE Fields(w)[l] = Fields(v)[l]
    <3>1. l \in DOMAIN Meaning(w).operands /\ l \in DOMAIN Meaning(v).operands
      BY <2>1, MeaningOperands
    <3>. QED  BY <3>1, MeaningOperands
  <2>. QED  BY <2>1
<1> HIDE DEF n
<1>3. PICK i \in 1 .. 13 : Finds(FunctionSwitches[i], w, n)
  BY <1>1, FunctionFound DEF n
<1>4. PICK j \in 1 .. 13 : Finds(FunctionSwitches[j], v, n)
  BY <1>1, FunctionFound DEF n
<1>5. i = j
  <2>1. n \in DOMAIN FunctionSwitches[i].cases /\ n \in DOMAIN FunctionSwitches[j].cases
    BY <1>3, <1>4 DEF Finds
  <2>2. SwitchOf(n) = i
    BY <2>1, SwitchesApart
  <2>3. SwitchOf(n) = j
    BY <2>1, SwitchesApart
  <2>. QED  BY <2>2, <2>3
<1>6. Finds(FunctionSwitches[i], w, n) /\ Finds(FunctionSwitches[i], v, n) /\ n # "DES"
  BY <1>3, <1>4, <1>5 DEF n
<1>7. CASE i = 1
  <2>1. FunctionSwitches[1].mask = \hFFFF
    BY DEF FunctionSwitches, Switch
  <2>2. And(w, \hFFFF) = And(v, \hFFFF)
    BY <1>6, <1>7, <2>1 DEF Finds
  <2>. QED  BY <2>2, WholeWord
<1>8. CASE i = 2
  BY <1>2, <1>6, <1>8, Telling2
<1>9. CASE i = 3
  BY <1>2, <1>6, <1>9, Telling3
<1>10. CASE i = 4
  BY <1>2, <1>6, <1>10, Telling4
<1>11. CASE i = 5
  BY <1>2, <1>6, <1>11, Telling5
<1>12. CASE i = 6
  BY <1>2, <1>6, <1>12, Telling6
<1>13. CASE i = 7
  BY <1>2, <1>6, <1>13, Telling7
<1>14. CASE i = 8
  BY <1>2, <1>6, <1>14, Telling8
<1>15. CASE i = 9
  BY <1>2, <1>6, <1>15, Telling9
<1>16. CASE i = 10
  BY <1>2, <1>6, <1>16, Telling10
<1>17. CASE i = 11
  BY <1>2, <1>6, <1>17, Telling11
<1>18. CASE i = 12
  BY <1>2, <1>6, <1>18, Telling12
<1>19. CASE i = 13
  BY <1>2, <1>6, <1>19, Telling13
<1>. QED  BY <1>7, <1>8, <1>9, <1>10, <1>11, <1>12, <1>13, <1>14, <1>15, <1>16, <1>17, <1>18, <1>19

\* A bit that is clear can be set within the word.
LEMMA SetBit ==
    ASSUME NEW w \in Words, NEW i \in 0 .. 15, BitOf(w, i) = 0
    PROVE  w + 2^i \in Words /\ w + 2^i # w
<1>1. w \in Int /\ 0 <= w /\ w < 65536
  BY WordBounds
<1>2. \E p \in Nat : 2^i = p /\ 0 < p /\ w + p < 65536
  <2>1. CASE i = 0
    <3>1. 2^i = 1 /\ (w \div 1) % 2 = 0
      BY <2>1 DEF BitOf
    <3>2. w + 1 < 65536
      BY <1>1, <3>1
    <3>. QED  BY <3>1, <3>2
  <2>2. CASE i = 1
    <3>1. 2^i = 2 /\ (w \div 2) % 2 = 0
      BY <2>2 DEF BitOf
    <3>2. w + 2 < 65536
      BY <1>1, <3>1
    <3>. QED  BY <3>1, <3>2
  <2>3. CASE i = 2
    <3>1. 2^i = 4 /\ (w \div 4) % 2 = 0
      BY <2>3 DEF BitOf
    <3>2. w + 4 < 65536
      BY <1>1, <3>1
    <3>. QED  BY <3>1, <3>2
  <2>4. CASE i = 3
    <3>1. 2^i = 8 /\ (w \div 8) % 2 = 0
      BY <2>4 DEF BitOf
    <3>2. w + 8 < 65536
      BY <1>1, <3>1
    <3>. QED  BY <3>1, <3>2
  <2>5. CASE i = 4
    <3>1. 2^i = 16 /\ (w \div 16) % 2 = 0
      BY <2>5 DEF BitOf
    <3>2. w + 16 < 65536
      BY <1>1, <3>1
    <3>. QED  BY <3>1, <3>2
  <2>6. CASE i = 5
    <3>1. 2^i = 32 /\ (w \div 32) % 2 = 0
      BY <2>6 DEF BitOf
    <3>2. w + 32 < 65536
      BY <1>1, <3>1
    <3>. QED  BY <3>1, <3>2
  <2>7. CASE i = 6
    <3>1. 2^i = 64 /\ (w \div 64) % 2 = 0
      BY <2>7 DEF BitOf
    <3>2. w + 64 < 65536
      BY <1>1, <3>1
    <3>. QED  BY <3>1, <3>2
  <2>8. CASE i = 7
    <3>1. 2^i = 128 /\ (w \div 128) % 2 = 0
      BY <2>8 DEF BitOf
    <3>2. w + 128 < 65536
      BY <1>1, <3>1
    <3>. QED  BY <3>1, <3>2
  <2>9. CASE i = 8
    <3>1. 2^i = 256 /\ (w \div 256) % 2 = 0
      BY <2>9 DEF BitOf
    <3>2. w + 256 < 65536
      BY <1>1, <3>1
    <3>. QED  BY <3>1, <3>2
  <2>10. CASE i = 9
    <3>1. 2^i = 512 /\ (w \div 512) % 2 = 0
      BY <2>10 DEF BitOf
    <3>2. w + 512 < 65536
      BY <1>1, <3>1
    <3>. QED  BY <3>1, <3>2
  <2>11. CASE i = 10
    <3>1. 2^i = 1024 /\ (w \div 1024) % 2 = 0
      BY <2>11 DEF BitOf
    <3>2. w + 1024 < 65536
      BY <1>1, <3>1
    <3>. QED  BY <3>1, <3>2
  <2>12. CASE i = 11
    <3>1. 2^i = 2048 /\ (w \div 2048) % 2 = 0
      BY <2>12 DEF BitOf
    <3>2. w + 2048 < 65536
      BY <1>1, <3>1
    <3>. QED  BY <3>1, <3>2
  <2>13. CASE i = 12
    <3>1. 2^i = 4096 /\ (w \div 4096) % 2 = 0
      BY <2>13 DEF BitOf
    <3>2. w + 4096 < 65536
      BY <1>1, <3>1
    <3>. QED  BY <3>1, <3>2
  <2>14. CASE i = 13
    <3>1. 2^i = 8192 /\ (w \div 8192) % 2 = 0
      BY <2>14 DEF BitOf
    <3>2. w + 8192 < 65536
      BY <1>1, <3>1
    <3>. QED  BY <3>1, <3>2
  <2>15. CASE i = 14
    <3>1. 2^i = 16384 /\ (w \div 16384) % 2 = 0
      BY <2>15 DEF BitOf
    <3>2. w + 16384 < 65536
      BY <1>1, <3>1
    <3>. QED  BY <3>1, <3>2
  <2>16. CASE i = 15
    <3>1. 2^i = 32768 /\ (w \div 32768) % 2 = 0
      BY <2>16 DEF BitOf
    <3>2. w + 32768 < 65536
      BY <1>1, <3>1
    <3>. QED  BY <3>1, <3>2
  <2>. QED  BY <2>1, <2>2, <2>3, <2>4, <2>5, <2>6, <2>7, <2>8, <2>9, <2>10, <2>11, <2>12, <2>13,
               <2>14, <2>15, <2>16
<1>3. PICK p \in Nat : 2^i = p /\ 0 < p /\ w + p < 65536
  BY <1>2
<1>5. p \in Int /\ 0 < p /\ w + p < 65536
  BY <1>3
<1>6. w + p \in Words /\ w + p # w
  BY <1>1, <1>5, WordBounds
<1>. QED  BY <1>3, <1>6

\* Setting any clear bit of a word that executes changes the function or one of
\* the operands it reads: no decoder drops, or reads twice, a bit of its format.
THEOREM BitsCount == LookUpSpec => []EveryBitCounts
<1>1. ASSUME LookedUp, phase = "executed", done.name \notin {"NOP", "DES"},
             NEW i \in 0 .. 15, BitOf(word, i) = 0, Meaning(word + 2^i) = done
      PROVE  FALSE
  <2>1. word \in Words /\ done = Meaning(word)
    BY <1>1 DEF LookedUp
  <2>2. word + 2^i \in Words /\ word + 2^i # word
    BY <1>1, <2>1, SetBit
  <2>. QED  BY <1>1, <2>1, <2>2, SameMeaning
<1>2. LookedUp => EveryBitCounts
  BY <1>1 DEF EveryBitCounts
<1>. QED  BY <1>2, LookedUpHolds, PTL

----------------------------------------------------------------------------
(* Bytes.                                                                  *)

Carry == {0, 1}

InByteRange(x) == x >= -ByteHalf /\ x < ByteHalf

\* Result r and flags f are those of the sum of x, y and c: the carry makes it
\* exact, S is the sign of the exact signed sum and V says that it does not fit.
IsSum(x, y, c, r, f) ==
    /\ r \in Byte
    /\ f \in Sreg
    /\ f.C = 1 => r + Base = x + y + c
    /\ f.C = 0 => r = x + y + c
    /\ f.S = 1 <=> Signed(x) + Signed(y) + c < 0
    /\ f.V = 1 <=> ~InByteRange(Signed(x) + Signed(y) + c)

LEMMA AddExact ==
    ASSUME NEW x \in Byte, NEW y \in Byte, NEW c \in Carry
    PROVE  IsSum(x, y, c, ByteOf(x + y + c), AddFlags(x, y, ByteOf(x + y + c)))
<1> USE DEF Carry
<1> DEFINE r == ByteOf(x + y + c)
           f == AddFlags(x, y, r)
<1> DEFINE carry == ADD_Full_Carry(Top(x), Top(y), Top(r))
           over  == ADD_Overflow_Flag(Top(x), Top(y), Top(r))
<1>1. r \in Byte /\ (r = x + y + c \/ r + Base = x + y + c)
  BY AluAssumption DEF ByteOf, Byte, Base
<1>2. /\ f.C = Bit(carry)
      /\ f.V = Bit(over)
      /\ f.S = Bit(~(Top(r) <=> over))
      /\ f \in Sreg
  BY DEF AddFlags, Flags, Sreg, Bit
<1>3. carry <=> r + Base = x + y + c
  BY <1>1, AluAssumption DEF ADD_Full_Carry, Top, Byte, Base
<1>4. over <=> ~InByteRange(Signed(x) + Signed(y) + c)
  BY <1>1, AluAssumption DEF ADD_Overflow_Flag, Top, Byte, Base, Signed, InByteRange
<1>5. ~(Top(r) <=> over) <=> Signed(x) + Signed(y) + c < 0
  BY <1>1, AluAssumption DEF ADD_Overflow_Flag, Top, Byte, Base, Signed
<1>6. (f.C = 1 <=> carry) /\ (f.C = 0 <=> ~carry)
  BY <1>2 DEF Bit
<1>7. (f.V = 1 <=> over) /\ (f.S = 1 <=> ~(Top(r) <=> over))
  BY <1>2 DEF Bit
<1> HIDE DEF carry, over, f, r
<1>8. IsSum(x, y, c, r, f)
  BY <1>1, <1>2, <1>3, <1>4, <1>5, <1>6, <1>7 DEF IsSum
<1>. QED  BY <1>8 DEF r, f

\* A difference, likewise; what the opcode makes of Z is left to its caller.
IsDifference(x, y, c, r, f) ==
    /\ r \in Byte
    /\ f \in Sreg
    /\ f.C = 1 => r - Base = x - y - c
    /\ f.C = 0 => r = x - y - c
    /\ f.S = 1 <=> Signed(x) - Signed(y) - c < 0
    /\ f.V = 1 <=> ~InByteRange(Signed(x) - Signed(y) - c)

LEMMA SubExact ==
    ASSUME NEW x \in Byte, NEW y \in Byte, NEW c \in Carry, NEW z
    PROVE  IsDifference(x, y, c, ByteOf(x - y - c), SubFlags(x, y, ByteOf(x - y - c), z))
<1> USE DEF Carry
<1> DEFINE r == ByteOf(x - y - c)
           f == SubFlags(x, y, r, z)
<1> DEFINE borrow == SUB_Full_Carry(Top(x), Top(y), Top(r))
           over   == SUB_Overflow_Flag(Top(x), Top(y), Top(r))
<1>1. r \in Byte /\ (r = x - y - c \/ r - Base = x - y - c)
  BY AluAssumption DEF ByteOf, Byte, Base
<1>2. /\ f.C = Bit(borrow)
      /\ f.V = Bit(over)
      /\ f.S = Bit(~(Top(r) <=> over))
      /\ f \in Sreg
  BY DEF SubFlags, Flags, Sreg, Bit
<1>3. borrow <=> r - Base = x - y - c
  BY <1>1, AluAssumption DEF SUB_Full_Carry, Top, Byte, Base
<1>4. over <=> ~InByteRange(Signed(x) - Signed(y) - c)
  BY <1>1, AluAssumption DEF SUB_Overflow_Flag, Top, Byte, Base, Signed, InByteRange
<1>5. ~(Top(r) <=> over) <=> Signed(x) - Signed(y) - c < 0
  BY <1>1, AluAssumption DEF SUB_Overflow_Flag, Top, Byte, Base, Signed
<1>6. (f.C = 1 <=> borrow) /\ (f.C = 0 <=> ~borrow)
  BY <1>2 DEF Bit
<1>7. (f.V = 1 <=> over) /\ (f.S = 1 <=> ~(Top(r) <=> over))
  BY <1>2 DEF Bit
<1> HIDE DEF borrow, over, f, r
<1>8. IsDifference(x, y, c, r, f)
  BY <1>1, <1>2, <1>3, <1>4, <1>5, <1>6, <1>7 DEF IsDifference
<1>. QED  BY <1>8 DEF r, f

\* A shift right passes the low bit out and puts a bit in at the top.
LEMMA ShiftExact ==
    ASSUME NEW x \in Byte, NEW in \in {0, ByteHalf},
           NEW o, o = ShiftRight(x, in)
    PROVE  /\ o.value \in Byte
           /\ o.sreg \in Sreg
           /\ x = 2 * (o.value - in) + o.sreg.C
           /\ Top(o.value) <=> in = ByteHalf
<1>1. x \in Int /\ x \div 2 \in Int /\ x % 2 \in {0, 1}
      /\ x = 2 * (x \div 2) + (x % 2)
  BY AluAssumption DEF Byte, Base
<1>2. o.value = x \div 2 + in /\ o.sreg \in Sreg /\ o.sreg.C = x % 2
  BY <1>1 DEF ShiftRight, Out, Flags, Sreg, Bit, Odd
<1>. QED
  BY <1>1, <1>2, AluAssumption DEF Byte, Base, Top

----------------------------------------------------------------------------
(* Words: high and low bytes compare like the words they make.             *)

LEMMA BasePositive == Base \in Nat \ {0} /\ Base > 1 /\ Base = 2 * ByteHalf
  BY AluAssumption DEF Base

LEMMA PairOrder ==
    ASSUME NEW h \in Int, NEW k \in Int, NEW l \in Byte, NEW m \in Byte
    PROVE  /\ h * Base + l < k * Base + m <=> h < k \/ (h = k /\ l < m)
           /\ h * Base + l = k * Base + m <=> h = k /\ l = m
<1>1. \A B \in Nat \ {0} : \A i, j \in Int : i < j => i * B + B <= j * B
  <2> SUFFICES ASSUME NEW B \in Nat \ {0}, NEW i \in Int, NEW j \in Int, i < j
               PROVE  i * B + B <= j * B
    OBVIOUS
  <2>1. j * B - i * B = (j - i) * B /\ j - i \in Nat \ {0}
    OBVIOUS
  <2>2. \A n \in Nat \ {0} : n * B >= B
    OBVIOUS
  <2>. QED  BY <2>1, <2>2
<1>2. h < k => h * Base + Base <= k * Base
  BY <1>1, BasePositive
<1>3. k < h => k * Base + Base <= h * Base
  BY <1>1, BasePositive
<1>4. h * Base \in Int /\ k * Base \in Int /\ Base \in Nat
  BY BasePositive
<1>5. l \in Nat /\ l < Base /\ m \in Nat /\ m < Base
  BY BasePositive DEF Byte
<1>6. h = k => h * Base = k * Base
  OBVIOUS
<1>. QED  BY <1>2, <1>3, <1>4, <1>5, <1>6

LEMMA WordSizes ==
    /\ WordHalf \in Nat \ {0}
    /\ WordSize = 2 * WordHalf
    /\ WordHalf = ByteHalf * Base
    /\ WordSize = Base * Base
<1>1. \A h \in Nat \ {0} : h * (2 * h) \in Nat \ {0} /\ (2 * h) * (2 * h) = 2 * (h * (2 * h))
  OBVIOUS
<1>. QED  BY <1>1, AluAssumption DEF WordHalf, WordSize, Base

LEMMA PairIsWord ==
    ASSUME NEW h \in Byte, NEW l \in Byte
    PROVE  /\ h * Base + l \in Word
           /\ WordTop(h * Base + l) <=> Top(h)
           /\ SignedWord(h * Base + l) = Signed(h) * Base + l
<1>1. h \in Int /\ ByteHalf \in Int /\ Base \in Int /\ 0 \in Byte /\ h < Base /\ h >= 0
      /\ l \in Nat
  BY BasePositive, AluAssumption DEF Byte
<1>2. h * Base + l < ByteHalf * Base + 0 <=> h < ByteHalf
  <2>1. h * Base + l < ByteHalf * Base + 0 <=> h < ByteHalf \/ (h = ByteHalf /\ l < 0)
    BY <1>1, PairOrder
  <2>. QED  BY <1>1, <2>1
<1>3. h * Base + l < Base * Base + 0
  <2>1. h * Base + l < Base * Base + 0 <=> h < Base \/ (h = Base /\ l < 0)
    BY <1>1, PairOrder
  <2>. QED  BY <1>1, <2>1
<1>4. ~(h * Base + l < 0 * Base + 0)
  <2>1. h * Base + l < 0 * Base + 0 <=> h < 0 \/ (h = 0 /\ l < 0)
    BY <1>1, PairOrder
  <2>. QED  BY <1>1, <2>1
<1>5. h * Base \in Int /\ 0 * Base = 0 /\ WordSize \in Int /\ WordHalf \in Int
  BY <1>1, WordSizes
<1>6. (h - Base) * Base = h * Base - Base * Base
  BY <1>1
<1>7. h * Base + l \in Word
  BY <1>1, <1>3, <1>4, <1>5, WordSizes DEF Word
<1>8. WordTop(h * Base + l) <=> Top(h)
  BY <1>1, <1>2, <1>5, WordSizes DEF WordTop, Top
<1>9. SignedWord(h * Base + l) = Signed(h) * Base + l
  BY <1>1, <1>5, <1>6, <1>8, WordSizes DEF SignedWord, Signed
<1>. QED  BY <1>7, <1>8, <1>9

\* A signed high byte decides the sign and the range of a word.
LEMMA SignOfPair ==
    ASSUME NEW h \in Int, NEW l \in Byte
    PROVE  /\ h * Base + l < 0 <=> h < 0
           /\ InRange(h * Base + l) <=> InByteRange(h)
<1>1. ByteHalf \in Int /\ -ByteHalf \in Int /\ Base \in Int /\ 0 \in Byte /\ l \in Nat
  BY BasePositive, AluAssumption DEF Byte
<1>2. \A k \in Int : h * Base + l < k * Base + 0 <=> h < k
  <2>1. ASSUME NEW k \in Int PROVE h * Base + l < k * Base + 0 <=> h < k
    <3>1. h * Base + l < k * Base + 0 <=> h < k \/ (h = k /\ l < 0)
      BY <1>1, PairOrder
    <3>. QED  BY <1>1, <3>1
  <2>. QED  BY <2>1
<1>3. /\ h * Base + l < 0 * Base + 0 <=> h < 0
      /\ h * Base + l < ByteHalf * Base + 0 <=> h < ByteHalf
      /\ h * Base + l < (-ByteHalf) * Base + 0 <=> h < -ByteHalf
  BY <1>1, <1>2
<1>4. h * Base \in Int /\ 0 * Base = 0 /\ (-ByteHalf) * Base = -(ByteHalf * Base)
      /\ ByteHalf * Base \in Int
  BY <1>1
<1>. QED  BY <1>1, <1>3, <1>4, WordSizes DEF InRange, InByteRange

----------------------------------------------------------------------------
(* Two byte operations joined by a carry are one word operation.           *)

Weight(c) == IF c = 1 THEN Base ELSE 0

\* The word of hi and lo and the carry d are the sum of the words of ah and al
\* and of bh and bl, made byte by byte with carry c between.
IsWordSum(ah, al, bh, bl, c, hi, lo, d) ==
    LET x == ah * Base + al
        y == bh * Base + bl
    IN  /\ hi * Base + lo = WordOf(x + y)
        /\ d = 1 <=> x + y >= WordSize
        /\ SignedWord(x) + SignedWord(y) = (Signed(ah) + Signed(bh) + c) * Base + lo

LEMMA WordSum ==
    ASSUME NEW ah \in Byte, NEW al \in Byte, NEW bh \in Byte, NEW bl \in Byte,
           NEW lo \in Byte, NEW hi \in Byte, NEW c \in Carry, NEW d \in Carry,
           lo + Weight(c) = al + bl, hi + Weight(d) = ah + bh + c
    PROVE  IsWordSum(ah, al, bh, bl, c, hi, lo, d)
<1> USE DEF Carry
<1> DEFINE x == ah * Base + al
           y == bh * Base + bl
<1>1. Base \in Int /\ ah \in Int /\ al \in Int /\ bh \in Int /\ bl \in Int
      /\ lo \in Int /\ hi \in Int /\ Signed(ah) \in Int /\ Signed(bh) \in Int
  BY BasePositive DEF Byte, Signed
<1>2. hi * Base + lo \in Word
  BY PairIsWord
<1>3. hi * Base + lo + (IF d = 1 THEN WordSize ELSE 0) = x + y
  <2>1. al + bl = lo + c * Base
    BY <1>1 DEF Weight
  <2>2. hi = ah + bh + c - d * Base
    BY <1>1 DEF Weight
  <2>3. hi * Base = ah * Base + bh * Base + c * Base - (d * Base) * Base
    BY <1>1, <2>2
  <2>4. (d * Base) * Base = IF d = 1 THEN WordSize ELSE 0
    BY <1>1, WordSizes
  <2>. QED  BY <1>1, <2>1, <2>3, <2>4, WordSizes
<1>4. x + y \in Int /\ WordSize \in Nat
  BY <1>1, WordSizes
<1>5. SignedWord(x) = Signed(ah) * Base + al /\ SignedWord(y) = Signed(bh) * Base + bl
  BY PairIsWord
<1>6. (Signed(ah) + Signed(bh) + c) * Base = Signed(ah) * Base + Signed(bh) * Base + c * Base
  BY <1>1
<1>7. al + bl = lo + c * Base
  BY <1>1 DEF Weight
<1>8. hi * Base + lo = WordOf(x + y) /\ (d = 1 <=> x + y >= WordSize)
  BY <1>2, <1>3, <1>4 DEF WordOf, Word
<1>10. SignedWord(x) + SignedWord(y) = (Signed(ah) + Signed(bh) + c) * Base + lo
  <2>1. Signed(ah) * Base \in Int /\ Signed(bh) * Base \in Int /\ c * Base \in Int
    BY <1>1
  <2>2. (Signed(ah) + Signed(bh) + c) * Base + lo
           = Signed(ah) * Base + Signed(bh) * Base + c * Base + lo
    BY <1>6
  <2> DEFINE p == Signed(ah) * Base  q == Signed(bh) * Base  w == c * Base
  <2>3. (p + al) + (q + bl) = p + q + w + lo
    <3> HIDE DEF p, q, w
    <3>1. p \in Int /\ q \in Int /\ w \in Int
      BY <2>1 DEF p, q, w
    <3>2. al + bl = lo + w
      BY <1>7 DEF w
    <3>. QED  BY <1>1, <3>1, <3>2
  <2>. QED  BY <1>5, <2>2, <2>3
<1>. QED  BY <1>8, <1>10 DEF IsWordSum

IsWordDifference(ah, al, bh, bl, c, hi, lo, d) ==
    LET x == ah * Base + al
        y == bh * Base + bl
    IN  /\ hi * Base + lo = WordOf(x - y)
        /\ d = 1 <=> x < y
        /\ SignedWord(x) - SignedWord(y) = (Signed(ah) - Signed(bh) - c) * Base + lo
        /\ x = y <=> hi = 0 /\ lo = 0
        /\ SignedWord(x) \in Int /\ SignedWord(y) \in Int

LEMMA WordDifference ==
    ASSUME NEW ah \in Byte, NEW al \in Byte, NEW bh \in Byte, NEW bl \in Byte,
           NEW lo \in Byte, NEW hi \in Byte, NEW c \in Carry, NEW d \in Carry,
           lo - Weight(c) = al - bl, hi - Weight(d) = ah - bh - c
    PROVE  IsWordDifference(ah, al, bh, bl, c, hi, lo, d)
<1> USE DEF Carry
<1> DEFINE x == ah * Base + al
           y == bh * Base + bl
<1>1. Base \in Int /\ ah \in Int /\ al \in Int /\ bh \in Int /\ bl \in Int
      /\ lo \in Int /\ hi \in Int /\ Signed(ah) \in Int /\ Signed(bh) \in Int
  BY BasePositive DEF Byte, Signed
<1>2. hi * Base + lo \in Word
  BY PairIsWord
<1>3. hi * Base + lo - (IF d = 1 THEN WordSize ELSE 0) = x - y
  <2>1. al - bl = lo - c * Base
    BY <1>1 DEF Weight
  <2>2. hi = ah - bh - c + d * Base
    BY <1>1 DEF Weight
  <2>3. hi * Base = ah * Base - bh * Base - c * Base + (d * Base) * Base
    BY <1>1, <2>2
  <2>4. (d * Base) * Base = IF d = 1 THEN WordSize ELSE 0
    BY <1>1, WordSizes
  <2>. QED  BY <1>1, <2>1, <2>3, <2>4, WordSizes
<1>4. x \in Int /\ y \in Int /\ WordSize \in Nat
  BY <1>1, WordSizes
<1>5. SignedWord(x) = Signed(ah) * Base + al /\ SignedWord(y) = Signed(bh) * Base + bl
  BY PairIsWord
<1>6. (Signed(ah) - Signed(bh) - c) * Base = Signed(ah) * Base - Signed(bh) * Base - c * Base
  BY <1>1
<1>7. al - bl = lo - c * Base
  BY <1>1 DEF Weight
<1>8. hi * Base + lo = WordOf(x - y) /\ (d = 1 <=> x < y)
  <2> DEFINE v == hi * Base + lo
  <2>1. v \in Int /\ 0 <= v /\ v < WordSize
    BY <1>1, <1>2, <1>4 DEF Word
  <2>2. d = 1 => v - WordSize = x - y
    BY <1>1, <1>3, <1>4, <2>1
  <2>3. d = 0 => v = x - y
    BY <1>1, <1>3
  <2> HIDE DEF v
  <2>4. v = WordOf(x - y) /\ (d = 1 <=> x < y)
    BY <1>4, <2>1, <2>2, <2>3 DEF WordOf
  <2>. QED  BY <2>4 DEF v
<1>9. x = y <=> hi = 0 /\ lo = 0
  <2>1. x = y <=> ah = bh /\ al = bl
    BY <1>1, PairOrder
  <2>. QED  BY <2>1, <1>1, BasePositive DEF Weight, Byte
<1>10. SignedWord(x) - SignedWord(y) = (Signed(ah) - Signed(bh) - c) * Base + lo
  <2>1. Signed(ah) * Base \in Int /\ Signed(bh) * Base \in Int /\ c * Base \in Int
    BY <1>1
  <2>2. (Signed(ah) - Signed(bh) - c) * Base + lo
           = Signed(ah) * Base - Signed(bh) * Base - c * Base + lo
    BY <1>6
  <2> DEFINE p == Signed(ah) * Base  q == Signed(bh) * Base  w == c * Base
  <2>3. (p + al) - (q + bl) = p - q - w + lo
    <3> HIDE DEF p, q, w
    <3>1. p \in Int /\ q \in Int /\ w \in Int
      BY <2>1 DEF p, q, w
    <3>2. al - bl = lo - w
      BY <1>7 DEF w
    <3>. QED  BY <1>1, <3>1, <3>2
  <2>. QED  BY <1>5, <2>2, <2>3
<1>11. SignedWord(x) \in Int /\ SignedWord(y) \in Int
  BY <1>1, <1>5
<1>. QED  BY <1>8, <1>10, <1>11, <1>9 DEF IsWordDifference

----------------------------------------------------------------------------
(* The invariant: what has been computed at each place of a fragment.      *)

OldHigh == 2 * rd.hi + sreg.C - (IF idiom = "asr" /\ Top(rd.hi) THEN Base ELSE 0)

Partial ==
    /\ b = Value(rr)
    /\ idiom \in {"adiw", "sbiw"} => b <= MaxImmediate
    /\ step = 0 \/ idiom \in {"mul", "mulsu"} => a = Value(rd)
    /\ At("add", 1) =>
          LET l == rd.lo + Weight(sreg.C) - rr.lo
          IN  l \in Byte /\ a = rd.hi * Base + l
    /\ At("sub", 1) =>
          LET l == rd.lo - Weight(sreg.C) + rr.lo
          IN  /\ l \in Byte /\ a = rd.hi * Base + l
              /\ ~mixed => (sreg.Z = 1 <=> rd.lo = 0)
    /\ At("cp", 1) =>
          /\ a = Value(rd)
          /\ sreg.C = 1 <=> rd.lo < rr.lo
          /\ ~mixed => (sreg.Z = 1 <=> rd.lo = rr.lo)
    /\ idiom \in {"lsr", "asr"} /\ step = 1 =>
          /\ OldHigh \in Byte /\ a = OldHigh * Base + rd.lo
          /\ IF idiom = "lsr" THEN ~Top(rd.hi) ELSE Top(OldHigh) <=> Top(rd.hi)
    /\ At("neg", 1) => a = (Base - 1 - rd.hi) * Base + rd.lo
    /\ At("neg", 2) =>
          LET l == Weight(sreg.C) - rd.lo
          IN  /\ l \in Byte /\ a = (Base - 1 - rd.hi) * Base + l
              /\ ~mixed => (sreg.Z = 1 <=> rd.lo = 0)

IInv == TypeOK /\ Partial /\ WordResult /\ BranchDecides

----------------------------------------------------------------------------
(* Each fragment keeps it.  A fragment's last step is where its words meet *)
(* its bytes; the earlier ones only need the facts of their byte.          *)

Rest == UNCHANGED <<idiom, rr, r1_0, acc, a, b, mixed>>

LEMMA Types ==
    ASSUME TypeOK
    PROVE  /\ rd.lo \in Byte /\ rd.hi \in Byte /\ rr.lo \in Byte /\ rr.hi \in Byte
           /\ sreg \in Sreg /\ sreg.C \in Carry /\ sreg.Z \in Carry
           /\ step \in Int
  BY DEF TypeOK, Pair, Sreg, Length, Carry

\* An unfinished fragment promises nothing about its words.
LEMMA NotYet ==
    ASSUME step' # Length[idiom'] PROVE WordResult' /\ BranchDecides'
  BY DEF WordResult, BranchDecides, Finished

LEMMA ADDStep == ASSUME TypeOK, Partial, ADD, Rest PROVE IInv'
<1> DEFINE o == AVR_Opcode_ADD(rd.lo, rr.lo)
<1>1. idiom = "add" /\ step = 0 /\ step' = 1 /\ rd' = [rd EXCEPT !.lo = o.value]
      /\ sreg' = o.sreg /\ Rest
  BY DEF ADD, Low, Advance, At
<1>2. o.value = ByteOf(rd.lo + rr.lo + 0) /\ o.sreg = AddFlags(rd.lo, rr.lo, o.value)
  <2>1. rd.lo + rr.lo + 0 = rd.lo + rr.lo
    BY Types, BasePositive DEF Byte
  <2>. QED  BY <2>1 DEF AVR_Opcode_ADD, Out
<1> HIDE DEF o
<1>3. /\ o.value \in Byte /\ o.sreg \in Sreg /\ o.sreg.C \in Carry
      /\ o.sreg.C = 1 => o.value + Base = rd.lo + rr.lo
      /\ o.sreg.C = 0 => o.value = rd.lo + rr.lo
  <2>1. IsSum(rd.lo, rr.lo, 0, o.value, o.sreg)
    <3>1. 0 \in Carry  BY DEF Carry
    <3>. QED  BY <1>2, <3>1, Types, AddExact
  <2>. QED  BY <2>1, Types, BasePositive DEF Byte, Sreg, IsSum, Carry
<1>4. rd'.lo = o.value /\ rd'.hi = rd.hi /\ rd' \in Pair
  BY <1>1, <1>3 DEF TypeOK, Pair
<1>5. TypeOK'
  BY <1>1, <1>3, <1>4 DEF TypeOK, Rest, Length
<1>6. Partial'
  <2>1. rd'.lo + Weight(sreg'.C) - rr'.lo = rd.lo
    BY <1>1, <1>3, <1>4, Types, BasePositive DEF Weight, Byte, Rest, Carry
  <2>2. a' = rd'.hi * Base + rd.lo
    BY <1>1, <1>4 DEF Partial, Value, Rest
  <2>. QED  BY <1>1, <2>1, <2>2, Types DEF Partial, At, Rest, Value
<1>7. WordResult' /\ BranchDecides'
  BY <1>1, NotYet DEF Length, Rest
<1>. QED  BY <1>5, <1>6, <1>7 DEF IInv

LEMMA ADCStep == ASSUME TypeOK, Partial, ADC, Rest PROVE IInv'
<1> DEFINE o == AVR_Opcode_ADC(rd.hi, rr.hi, sreg)
           l == rd.lo + Weight(sreg.C) - rr.lo
<1>1. idiom = "add" /\ step = 1 /\ step' = 2 /\ rd' = [rd EXCEPT !.hi = o.value]
      /\ sreg' = o.sreg /\ Rest
  BY DEF ADC, High, Advance, At
<1>2. o.value = ByteOf(rd.hi + rr.hi + sreg.C) /\ o.sreg = AddFlags(rd.hi, rr.hi, o.value)
  BY DEF AVR_Opcode_ADC, Out
<1> HIDE DEF o
<1>3. /\ o.value \in Byte /\ o.sreg \in Sreg
      /\ o.sreg.C = 1 => o.value + Base = rd.hi + rr.hi + sreg.C
      /\ o.sreg.C = 0 => o.value = rd.hi + rr.hi + sreg.C
      /\ o.sreg.S = 1 <=> Signed(rd.hi) + Signed(rr.hi) + sreg.C < 0
      /\ o.sreg.V = 1 <=> ~InByteRange(Signed(rd.hi) + Signed(rr.hi) + sreg.C)
  <2>1. IsSum(rd.hi, rr.hi, sreg.C, o.value, o.sreg)
    BY <1>2, Types, AddExact
  <2>. QED  BY <2>1 DEF IsSum
<1>4. rd'.hi = o.value /\ rd'.lo = rd.lo /\ rd' \in Pair
  BY <1>1, <1>3 DEF TypeOK, Pair
<1>5. TypeOK'
  BY <1>1, <1>3, <1>4 DEF TypeOK, Rest, Length
<1>6. Partial'
  BY <1>1 DEF Partial, At, Rest, Value
<1>7. l \in Byte /\ a = rd.hi * Base + l /\ b = rr.hi * Base + rr.lo
  BY <1>1 DEF Partial, At, Value
<1>8. o.sreg.C \in Carry /\ o.sreg.V \in Carry
  BY <1>3 DEF Sreg, Carry
<1>9. rd.lo + Weight(sreg.C) = l + rr.lo /\ o.value + Weight(o.sreg.C) = rd.hi + rr.hi + sreg.C
  BY <1>3, <1>8, Types, BasePositive DEF Weight, Byte, Carry
<1> HIDE DEF l
<1>10. /\ o.value * Base + rd.lo = WordOf(a + b)
       /\ o.sreg.C = 1 <=> a + b >= WordSize
       /\ SignedWord(a) + SignedWord(b)
             = (Signed(rd.hi) + Signed(rr.hi) + sreg.C) * Base + rd.lo
  <2>1. IsWordSum(rd.hi, l, rr.hi, rr.lo, sreg.C, o.value, rd.lo, o.sreg.C)
    BY <1>3, <1>7, <1>8, <1>9, Types, WordSum
  <2>. QED  BY <1>7, <2>1 DEF IsWordSum
<1>11. WordResult'
  BY <1>1, <1>4, <1>10 DEF WordResult, Expected, Value, Rest
<1>12. Signed(rd.hi) + Signed(rr.hi) + sreg.C \in Int
  BY Types, BasePositive DEF Byte, Signed, Carry
<1>13. /\ o.sreg.S = 1 <=> SignedWord(a) + SignedWord(b) < 0
       /\ o.sreg.V = 1 <=> ~InRange(SignedWord(a) + SignedWord(b))
  BY <1>3, <1>10, <1>12, Types, SignOfPair
<1>14. BranchDecides'
  BY <1>1, <1>8, <1>10, <1>13 DEF BranchDecides, Compares, Taken, Rest, SignedWord,
     InRange, Carry
<1>. QED  BY <1>5, <1>6, <1>11, <1>14 DEF IInv
LEMMA SUBStep == ASSUME TypeOK, Partial, SUB, Rest PROVE IInv'
<1> DEFINE o == AVR_Opcode_SUB(rd.lo, rr.lo)
<1>1. idiom = "sub" /\ step = 0 /\ step' = 1 /\ rd' = [rd EXCEPT !.lo = o.value]
      /\ sreg' = o.sreg /\ Rest
  BY DEF SUB, Low, Advance, At
<1>2. /\ o.value = ByteOf(rd.lo - rr.lo - 0)
      /\ o.sreg = SubFlags(rd.lo, rr.lo, o.value, o.value = 0)
  <2>1. rd.lo - rr.lo - 0 = rd.lo - rr.lo
    BY Types, BasePositive DEF Byte
  <2>. QED  BY <2>1 DEF AVR_Opcode_SUB, Out
<1>3. o.sreg.Z = 1 <=> o.value = 0
  BY <1>2 DEF SubFlags, Flags, Bit
<1> HIDE DEF o
<1>4. /\ o.value \in Byte /\ o.sreg \in Sreg /\ o.sreg.C \in Carry
      /\ o.sreg.C = 1 => o.value - Base = rd.lo - rr.lo
      /\ o.sreg.C = 0 => o.value = rd.lo - rr.lo
  <2>1. IsDifference(rd.lo, rr.lo, 0, o.value, o.sreg)
    <3>1. 0 \in Carry  BY DEF Carry
    <3>. QED  BY <1>2, <3>1, Types, SubExact
  <2>. QED  BY <2>1, Types, BasePositive DEF Byte, Sreg, IsDifference, Carry
<1>5. rd'.lo = o.value /\ rd'.hi = rd.hi /\ rd' \in Pair
  BY <1>1, <1>4 DEF TypeOK, Pair
<1>6. TypeOK'
  BY <1>1, <1>4, <1>5 DEF TypeOK, Rest, Length
<1>7. Partial'
  <2>1. rd'.lo - Weight(sreg'.C) + rr'.lo = rd.lo
    BY <1>1, <1>4, <1>5, Types, BasePositive DEF Weight, Byte, Rest, Carry
  <2>2. a' = rd'.hi * Base + rd.lo
    BY <1>1, <1>5 DEF Partial, Value, Rest
  <2>. QED  BY <1>1, <1>3, <1>5, <2>1, <2>2, Types DEF Partial, At, Rest, Value
<1>8. WordResult' /\ BranchDecides'
  BY <1>1, NotYet DEF Length, Rest
<1>. QED  BY <1>6, <1>7, <1>8 DEF IInv

\* What the branches of a comparison ask, once the flags of the high bytes are
\* those of the signed difference and Z is that of both results.
LEMMA Decides ==
    ASSUME NEW hi \in Byte, NEW lo \in Byte, NEW h \in Int, NEW f \in Sreg,
           idiom \in {"sub", "cp"},
           f.C = 1 <=> a < b,
           f.S = 1 <=> h < 0,
           f.V = 1 <=> ~InByteRange(h),
           SignedWord(a) - SignedWord(b) = h * Base + lo,
           SignedWord(a) \in Int, SignedWord(b) \in Int,
           a = b <=> hi = 0 /\ lo = 0,
           ~mixed => (f.Z = 1 <=> hi = 0 /\ lo = 0),
           Rest, sreg' = f
    PROVE  BranchDecides'
<1>1. /\ f.S = 1 <=> SignedWord(a) - SignedWord(b) < 0
      /\ f.V = 1 <=> ~InRange(SignedWord(a) - SignedWord(b))
  BY SignOfPair
<1>2. f.S = 0 <=> SignedWord(a) >= SignedWord(b)
  <2>1. f.S = 0 <=> ~(f.S = 1)
    BY DEF Sreg
  <2>2. SignedWord(a) - SignedWord(b) < 0 <=> ~(SignedWord(a) >= SignedWord(b))
    OBVIOUS
  <2>. QED  BY <1>1, <2>1, <2>2
<1>3. ~mixed => (f.Z = 1 <=> a = b)
  OBVIOUS
<1>. QED
  BY <1>1, <1>2, <1>3 DEF BranchDecides, Compares, Taken, Rest, SignedWord, InRange

LEMMA SBCStep == ASSUME TypeOK, Partial, SBC, Rest PROVE IInv'
<1> DEFINE o == AVR_Opcode_SBC(rd.hi, rr.hi, sreg)
           l == rd.lo - Weight(sreg.C) + rr.lo
           h == Signed(rd.hi) - Signed(rr.hi) - sreg.C
<1>1. idiom = "sub" /\ step = 1 /\ step' = 2 /\ rd' = [rd EXCEPT !.hi = o.value]
      /\ sreg' = o.sreg /\ Rest
  BY DEF SBC, High, Advance, At
<1>2. /\ o.value = ByteOf(rd.hi - rr.hi - sreg.C)
      /\ o.sreg = SubFlags(rd.hi, rr.hi, o.value, o.value = 0 /\ sreg.Z = 1)
  BY DEF AVR_Opcode_SBC, Out
<1>3. o.sreg.Z = 1 <=> o.value = 0 /\ sreg.Z = 1
  BY <1>2 DEF SubFlags, Flags, Bit
<1> HIDE DEF o
<1>4. /\ o.value \in Byte /\ o.sreg \in Sreg
      /\ o.sreg.C = 1 => o.value - Base = rd.hi - rr.hi - sreg.C
      /\ o.sreg.C = 0 => o.value = rd.hi - rr.hi - sreg.C
      /\ o.sreg.S = 1 <=> h < 0
      /\ o.sreg.V = 1 <=> ~InByteRange(h)
  <2>1. IsDifference(rd.hi, rr.hi, sreg.C, o.value, o.sreg)
    BY <1>2, Types, SubExact
  <2>. QED  BY <2>1 DEF IsDifference
<1>5. rd'.hi = o.value /\ rd'.lo = rd.lo /\ rd' \in Pair
  BY <1>1, <1>4 DEF TypeOK, Pair
<1>6. TypeOK'
  BY <1>1, <1>4, <1>5 DEF TypeOK, Rest, Length
<1>7. Partial'
  BY <1>1 DEF Partial, At, Rest, Value
<1>8. /\ l \in Byte /\ a = rd.hi * Base + l /\ b = rr.hi * Base + rr.lo
      /\ ~mixed => (sreg.Z = 1 <=> rd.lo = 0)
  BY <1>1 DEF Partial, At, Value
<1>9. o.sreg.C \in Carry
  BY <1>4 DEF Sreg, Carry
<1>10. rd.lo - Weight(sreg.C) = l - rr.lo /\ o.value - Weight(o.sreg.C) = rd.hi - rr.hi - sreg.C
  BY <1>4, <1>9, Types, BasePositive DEF Weight, Byte, Carry
<1>11. h \in Int
  BY Types, BasePositive DEF Byte, Signed, Carry
<1> HIDE DEF l
<1>12. /\ o.value * Base + rd.lo = WordOf(a - b)
       /\ o.sreg.C = 1 <=> a < b
       /\ SignedWord(a) - SignedWord(b) = h * Base + rd.lo
       /\ a = b <=> o.value = 0 /\ rd.lo = 0
       /\ SignedWord(a) \in Int /\ SignedWord(b) \in Int
  <2>1. IsWordDifference(rd.hi, l, rr.hi, rr.lo, sreg.C, o.value, rd.lo, o.sreg.C)
    BY <1>4, <1>8, <1>9, <1>10, Types, WordDifference
  <2>. QED  BY <1>8, <2>1 DEF IsWordDifference
<1>13. WordResult'
  BY <1>1, <1>5, <1>12 DEF WordResult, Expected, Value, Rest
<1> HIDE DEF h
<1>14. BranchDecides'
  BY <1>1, <1>3, <1>4, <1>8, <1>11, <1>12, Types, Decides
<1>. QED  BY <1>6, <1>7, <1>13, <1>14 DEF IInv

LEMMA CPStep == ASSUME TypeOK, Partial, CP, Rest PROVE IInv'
<1> DEFINE o == AVR_Opcode_CP(rd.lo, rr.lo)
           r == ByteOf(rd.lo - rr.lo)
<1>1. idiom = "cp" /\ step = 0 /\ step' = 1 /\ rd' = [rd EXCEPT !.lo = o.value]
      /\ sreg' = o.sreg /\ Rest
  BY DEF CP, Low, Advance, At
<1>2. o.value = rd.lo /\ o.sreg = SubFlags(rd.lo, rr.lo, r, r = 0)
  BY DEF AVR_Opcode_CP, Out
<1>3. o.sreg.Z = 1 <=> r = 0
  BY <1>2 DEF SubFlags, Flags, Bit
<1>4. r = ByteOf(rd.lo - rr.lo - 0)
  BY Types, BasePositive DEF Byte
<1> HIDE DEF o, r
<1>5. /\ r \in Byte /\ o.sreg \in Sreg /\ o.sreg.C \in Carry
      /\ o.sreg.C = 1 => r - Base = rd.lo - rr.lo
      /\ o.sreg.C = 0 => r = rd.lo - rr.lo
  <2>1. IsDifference(rd.lo, rr.lo, 0, r, o.sreg)
    <3>1. 0 \in Carry  BY DEF Carry
    <3>. QED  BY <1>2, <1>4, <3>1, Types, SubExact
  <2>. QED  BY <2>1, Types, BasePositive DEF Byte, Sreg, IsDifference, Carry
<1>6. rd' = rd
  BY <1>1, <1>2 DEF TypeOK, Pair
<1>7. TypeOK'
  BY <1>1, <1>5, <1>6 DEF TypeOK, Rest, Length
<1>8. Partial'
  <2>1. /\ o.sreg.C = 1 <=> rd.lo < rr.lo
        /\ o.sreg.Z = 1 <=> rd.lo = rr.lo
    BY <1>3, <1>5, Types, BasePositive DEF Byte, Carry
  <2>2. a' = Value(rd')
    BY <1>1, <1>6 DEF Partial, Rest
  <2>. QED  BY <1>1, <1>6, <2>1, <2>2 DEF Partial, At, Rest, Value
<1>9. WordResult' /\ BranchDecides'
  BY <1>1, NotYet DEF Length, Rest
<1>. QED  BY <1>7, <1>8, <1>9 DEF IInv

LEMMA CPCStep == ASSUME TypeOK, Partial, CPC, Rest PROVE IInv'
<1> DEFINE o == AVR_Opcode_CPC(rd.hi, rr.hi, sreg)
           r == ByteOf(rd.hi - rr.hi - sreg.C)
           l == rd.lo - rr.lo + Weight(sreg.C)
           h == Signed(rd.hi) - Signed(rr.hi) - sreg.C
<1>1. idiom = "cp" /\ step = 1 /\ step' = 2 /\ rd' = [rd EXCEPT !.hi = o.value]
      /\ sreg' = o.sreg /\ Rest
  BY DEF CPC, High, Advance, At
<1>2. o.value = rd.hi /\ o.sreg = SubFlags(rd.hi, rr.hi, r, sreg.Z = 1 /\ r = 0)
  BY DEF AVR_Opcode_CPC, Out
<1>3. o.sreg.Z = 1 <=> sreg.Z = 1 /\ r = 0
  BY <1>2 DEF SubFlags, Flags, Bit
<1> HIDE DEF o
<1>4. /\ r \in Byte /\ o.sreg \in Sreg
      /\ o.sreg.C = 1 => r - Base = rd.hi - rr.hi - sreg.C
      /\ o.sreg.C = 0 => r = rd.hi - rr.hi - sreg.C
      /\ o.sreg.S = 1 <=> h < 0
      /\ o.sreg.V = 1 <=> ~InByteRange(h)
  <2>1. IsDifference(rd.hi, rr.hi, sreg.C, r, o.sreg)
    BY <1>2, Types, SubExact
  <2>. QED  BY <2>1 DEF IsDifference
<1> HIDE DEF r
<1>5. rd' = rd
  BY <1>1, <1>2 DEF TypeOK, Pair
<1>6. TypeOK'
  BY <1>1, <1>4, <1>5 DEF TypeOK, Rest, Length
<1>7. Partial'
  BY <1>1 DEF Partial, At, Rest, Value
<1>8. /\ a = Value(rd) /\ b = Value(rr)
      /\ sreg.C = 1 <=> rd.lo < rr.lo
      /\ ~mixed => (sreg.Z = 1 <=> rd.lo = rr.lo)
  BY <1>1 DEF Partial, At
<1>9. o.sreg.C \in Carry
  BY <1>4 DEF Sreg, Carry
<1>10. l \in Byte /\ (l = 0 <=> rd.lo = rr.lo) /\ l - Weight(sreg.C) = rd.lo - rr.lo
  BY <1>8, Types, BasePositive DEF Weight, Byte, Carry
<1>11. r - Weight(o.sreg.C) = rd.hi - rr.hi - sreg.C
  BY <1>4, <1>9, Types, BasePositive DEF Weight, Byte, Carry
<1>12. h \in Int
  BY Types, BasePositive DEF Byte, Signed, Carry
<1> HIDE DEF l
<1>13. /\ o.sreg.C = 1 <=> a < b
       /\ SignedWord(a) - SignedWord(b) = h * Base + l
       /\ a = b <=> r = 0 /\ l = 0
       /\ SignedWord(a) \in Int /\ SignedWord(b) \in Int
  <2>1. IsWordDifference(rd.hi, rd.lo, rr.hi, rr.lo, sreg.C, r, l, o.sreg.C)
    BY <1>4, <1>9, <1>10, <1>11, Types, WordDifference
  <2>. QED  BY <1>8, <2>1 DEF IsWordDifference, Value
<1>14. WordResult'
  BY <1>1, <1>5, <1>8 DEF WordResult, Expected, Value, Rest
<1> HIDE DEF h
<1>15. BranchDecides'
  BY <1>1, <1>3, <1>4, <1>8, <1>10, <1>12, <1>13, Decides
<1>. QED  BY <1>6, <1>7, <1>14, <1>15 DEF IInv
\* Both shifts leave in C and the new high byte what the old high byte was.
LEMMA ShiftStep == ASSUME TypeOK, Partial, LSR \/ ASR, Rest PROVE IInv'
<1> DEFINE in == IF idiom = "asr" /\ Top(rd.hi) THEN ByteHalf ELSE 0
           o  == ShiftRight(rd.hi, in)
<1>1. idiom \in {"lsr", "asr"} /\ step = 0 /\ step' = 1
      /\ rd' = [rd EXCEPT !.hi = o.value] /\ sreg' = o.sreg /\ Rest
  BY DEF LSR, ASR, High, Advance, At, AVR_Opcode_LSR, AVR_Opcode_ASR
<1>2. in \in {0, ByteHalf}
  OBVIOUS
<1>3. in = ByteHalf <=> idiom = "asr" /\ Top(rd.hi)
  BY AluAssumption
<1> HIDE DEF o, in
<1>4. /\ o.value \in Byte /\ o.sreg \in Sreg
      /\ rd.hi = 2 * (o.value - in) + o.sreg.C
      /\ Top(o.value) <=> in = ByteHalf
  <2>1. o = ShiftRight(rd.hi, in)
    BY DEF o
  <2>. QED  BY <1>2, <2>1, Types, ShiftExact
<1>5. rd'.hi = o.value /\ rd'.lo = rd.lo /\ rd' \in Pair
  BY <1>1, <1>4 DEF TypeOK, Pair
<1>6. TypeOK'
  BY <1>1, <1>4, <1>5 DEF TypeOK, Rest, Length
<1>7. OldHigh' = rd.hi
  <2>1. OldHigh' = 2 * o.value + o.sreg.C - (IF in = ByteHalf THEN Base ELSE 0)
    BY <1>1, <1>3, <1>4, <1>5 DEF OldHigh, Rest
  <2>2. o.value \in Int /\ o.sreg.C \in Int
    BY <1>4, BasePositive DEF Byte, Sreg
  <2>3. 2 * o.value + o.sreg.C - (IF in = ByteHalf THEN Base ELSE 0) = rd.hi
    BY <1>2, <1>4, <2>2, AluAssumption DEF Base
  <2>. QED  BY <2>1, <2>3
<1>8. Partial'
  <2>1. a' = rd.hi * Base + rd'.lo
    BY <1>1, <1>5 DEF Partial, Value, Rest
  <2>2. IF idiom = "lsr" THEN ~Top(rd'.hi) ELSE Top(rd.hi) <=> Top(rd'.hi)
    BY <1>1, <1>3, <1>4, <1>5
  <2>. QED  BY <1>1, <1>7, <2>1, <2>2, Types DEF Partial, At, Rest, Value
<1>9. WordResult' /\ BranchDecides'
  BY <1>1, NotYet DEF Length, Rest
<1>. QED  BY <1>6, <1>8, <1>9 DEF IInv

LEMMA RORStep == ASSUME TypeOK, Partial, ROR, Rest PROVE IInv'
<1> DEFINE in == IF sreg.C = 1 THEN ByteHalf ELSE 0
           o  == ShiftRight(rd.lo, in)
           v  == rd.hi * Base + o.value
           t  == IF idiom = "asr" /\ Top(rd.hi) THEN Base ELSE 0
           w  == IF idiom = "asr" /\ Top(rd.hi) THEN WordHalf ELSE 0
<1>1. idiom \in {"lsr", "asr"} /\ step = 1 /\ step' = 2
      /\ rd' = [rd EXCEPT !.lo = o.value] /\ sreg' = o.sreg /\ Rest
  BY DEF ROR, Low, Advance, AVR_Opcode_ROR
<1>2. in \in {0, ByteHalf}
  OBVIOUS
<1>3. 2 * in = sreg.C * Base
  BY Types, AluAssumption DEF Base, Carry
<1>4. t * Base = 2 * w /\ w \in Int /\ t \in Int
  <2>1. Base * Base = 2 * WordHalf /\ 0 * Base = 2 * 0 /\ WordHalf \in Int /\ Base \in Int
    BY WordSizes, BasePositive
  <2>. QED  BY <2>1
<1> HIDE DEF o, in
<1>5. /\ o.value \in Byte /\ o.sreg \in Sreg
      /\ rd.lo = 2 * (o.value - in) + o.sreg.C
  <2>1. o = ShiftRight(rd.lo, in)
    BY DEF o
  <2>. QED  BY <1>2, <2>1, Types, ShiftExact
<1>6. rd'.lo = o.value /\ rd'.hi = rd.hi /\ rd' \in Pair
  BY <1>1, <1>5 DEF TypeOK, Pair
<1>7. TypeOK'
  BY <1>1, <1>5, <1>6 DEF TypeOK, Rest, Length
<1>8. Partial'
  BY <1>1 DEF Partial, At, Rest, Value
<1>9. /\ OldHigh \in Byte /\ a = OldHigh * Base + rd.lo
      /\ idiom = "asr" => (Top(OldHigh) <=> Top(rd.hi))
      /\ OldHigh = 2 * rd.hi + sreg.C - t
  BY <1>1 DEF Partial, OldHigh
<1>10. v \in Int /\ o.value \in Int /\ o.sreg.C \in {0, 1} /\ rd.hi \in Int /\ sreg.C \in Int
       /\ Base \in Int /\ in \in Int /\ rd.hi * Base \in Int
  BY <1>2, <1>5, Types, BasePositive, AluAssumption DEF Byte, Sreg, Carry
<1> HIDE DEF t, w
<1>11. a = 2 * (v - w) + o.sreg.C
  <2>1. OldHigh * Base = 2 * (rd.hi * Base) + sreg.C * Base - t * Base
    BY <1>4, <1>9, <1>10
  <2> DEFINE p == rd.hi * Base
  <2>2. a = 2 * p + 2 * in - 2 * w + rd.lo
    BY <1>3, <1>4, <1>9, <2>1
  <2>. HIDE DEF p
  <2>3. p \in Int /\ v = p + o.value
    BY <1>10 DEF p
  <2> HIDE DEF v
  <2>. QED  BY <1>4, <1>5, <1>10, <2>2, <2>3
<1>12. a \div 2 = v - w /\ a % 2 = o.sreg.C
  <2>1. \A z \in Int : \A d \in {0, 1} : (2 * z + d) \div 2 = z /\ (2 * z + d) % 2 = d
    OBVIOUS
  <2>2. v - w \in Int
    BY <1>4, <1>10
  <2>. QED  BY <1>10, <1>11, <2>1, <2>2
<1>13. WordTop(a) <=> Top(OldHigh)
  BY <1>9, Types, PairIsWord
<1>14. Value(rd') = v
  BY <1>6 DEF Value
<1> HIDE DEF v
<1>15. WordResult'
  <2>1. CASE idiom = "lsr"
    <3>1. w = 0  BY <2>1 DEF w
    <3>2. v = a \div 2  BY <1>10, <1>12, <3>1
    <3>. QED  BY <1>1, <1>14, <2>1, <3>2 DEF WordResult, Expected, Rest
  <2>2. CASE idiom = "asr"
    <3>1. w = IF WordTop(a) THEN WordHalf ELSE 0  BY <1>9, <1>13, <2>2 DEF w
    <3>2. v = a \div 2 + w  BY <1>4, <1>10, <1>12
    <3>. QED  BY <1>1, <1>14, <2>2, <3>1, <3>2 DEF WordResult, Expected, Rest
  <2>. QED  BY <1>1, <2>1, <2>2
<1>16. BranchDecides'
  BY <1>1, <1>12 DEF BranchDecides, Compares, Taken, Rest
<1>. QED  BY <1>7, <1>8, <1>15, <1>16 DEF IInv

LEMMA COMStep == ASSUME TypeOK, Partial, COM, Rest PROVE IInv'
<1> DEFINE o == AVR_Opcode_COM(rd.hi)
<1>1. idiom = "neg" /\ step = 0 /\ step' = 1 /\ rd' = [rd EXCEPT !.hi = o.value]
      /\ sreg' = o.sreg /\ Rest
  BY DEF COM, High, Advance, At
<1>2. o.value = Base - 1 - rd.hi /\ o.value \in Byte /\ o.sreg \in Sreg
  BY Types, BasePositive DEF AVR_Opcode_COM, Out, Byte, Flags, Sreg, Bit
<1> HIDE DEF o
<1>3. rd'.hi = o.value /\ rd'.lo = rd.lo /\ rd' \in Pair
  BY <1>1, <1>2 DEF TypeOK, Pair
<1>4. TypeOK'
  BY <1>1, <1>2, <1>3 DEF TypeOK, Rest, Length
<1>5. Partial'
  <2>1. Base - 1 - rd'.hi = rd.hi
    BY <1>2, <1>3, Types, BasePositive DEF Byte
  <2>2. a' = (Base - 1 - rd'.hi) * Base + rd'.lo
    BY <1>1, <1>3, <2>1 DEF Partial, Value, Rest
  <2>. QED  BY <1>1, <2>2 DEF Partial, At, Rest, Value
<1>6. WordResult' /\ BranchDecides'
  BY <1>1, NotYet DEF Length, Rest
<1>. QED  BY <1>4, <1>5, <1>6 DEF IInv

LEMMA NEGStep == ASSUME TypeOK, Partial, NEG, Rest PROVE IInv'
<1> DEFINE o == AVR_Opcode_NEG(rd.lo)
<1>1. idiom = "neg" /\ step = 1 /\ step' = 2 /\ rd' = [rd EXCEPT !.lo = o.value]
      /\ sreg' = o.sreg /\ Rest
  BY DEF NEG, Low, Advance, At
<1>2. /\ o.value = ByteOf(0 - rd.lo) /\ o.sreg \in Sreg
      /\ o.sreg.C = Bit(o.value # 0) /\ o.sreg.Z = Bit(o.value = 0)
  BY DEF AVR_Opcode_NEG, Out, Flags, Sreg, Bit
<1> HIDE DEF o
<1>3. /\ o.value \in Byte
      /\ Weight(o.sreg.C) - o.value = rd.lo
      /\ o.sreg.Z = 1 <=> o.value = 0
  BY <1>2, Types, BasePositive DEF ByteOf, Byte, Bit, Weight
<1>4. rd'.lo = o.value /\ rd'.hi = rd.hi /\ rd' \in Pair
  BY <1>1, <1>3 DEF TypeOK, Pair
<1>5. TypeOK'
  BY <1>1, <1>2, <1>4 DEF TypeOK, Rest, Length
<1>6. Partial'
  <2>1. a' = (Base - 1 - rd'.hi) * Base + rd.lo
    BY <1>1, <1>4 DEF Partial, At, Rest
  <2>2. Weight(sreg'.C) - rd'.lo = rd.lo /\ (sreg'.Z = 1 <=> rd'.lo = 0)
    BY <1>1, <1>3, <1>4
  <2>. QED  BY <1>1, <2>1, <2>2, Types DEF Partial, At, Rest, Value
<1>7. WordResult' /\ BranchDecides'
  BY <1>1, NotYet DEF Length, Rest
<1>. QED  BY <1>5, <1>6, <1>7 DEF IInv

LEMMA SBCIStep == ASSUME TypeOK, Partial, SBCI, Rest PROVE IInv'
<1> DEFINE o == AVR_Opcode_SBC(rd.hi, Base - 1, sreg)
           k == Base - 1 - rd.hi
           l == Weight(sreg.C) - rd.lo
           h == Signed(0) - Signed(k) - sreg.C
<1>1. idiom = "neg" /\ step = 2 /\ step' = 3 /\ rd' = [rd EXCEPT !.hi = o.value]
      /\ sreg' = o.sreg /\ Rest
  BY DEF SBCI, High, Advance, At
<1>2. /\ o.value = ByteOf(rd.hi - (Base - 1) - sreg.C)
      /\ o.sreg = SubFlags(rd.hi, Base - 1, o.value, o.value = 0 /\ sreg.Z = 1)
  BY DEF AVR_Opcode_SBC, Out
<1>3. o.sreg.Z = 1 <=> o.value = 0 /\ sreg.Z = 1
  BY <1>2 DEF SubFlags, Flags, Bit
<1> HIDE DEF o
<1>4. Base - 1 \in Byte /\ k \in Byte /\ 0 \in Byte
  BY Types, BasePositive DEF Byte
<1>5. h = Signed(rd.hi) - Signed(Base - 1) - sreg.C /\ h \in Int
  BY Types, BasePositive, AluAssumption DEF Byte, Signed, Top, Carry
<1>6. /\ o.value \in Byte /\ o.sreg \in Sreg
      /\ o.sreg.C = 1 => o.value - Base = rd.hi - (Base - 1) - sreg.C
      /\ o.sreg.C = 0 => o.value = rd.hi - (Base - 1) - sreg.C
      /\ o.sreg.S = 1 <=> h < 0
  <2>1. IsDifference(rd.hi, Base - 1, sreg.C, o.value, o.sreg)
    BY <1>2, <1>4, Types, SubExact
  <2>. QED  BY <1>5, <2>1 DEF IsDifference
<1>7. rd'.hi = o.value /\ rd'.lo = rd.lo /\ rd' \in Pair
  BY <1>1, <1>6 DEF TypeOK, Pair
<1>8. TypeOK'
  BY <1>1, <1>6, <1>7 DEF TypeOK, Rest, Length
<1>9. Partial'
  BY <1>1 DEF Partial, At, Rest, Value
<1>10. /\ l \in Byte /\ a = k * Base + l
       /\ ~mixed => (sreg.Z = 1 <=> rd.lo = 0)
  BY <1>1 DEF Partial, At
<1>11. o.sreg.C \in Carry
  BY <1>6 DEF Sreg, Carry
<1>12. /\ rd.lo - Weight(sreg.C) = 0 - l
       /\ o.value - Weight(o.sreg.C) = 0 - k - sreg.C
  BY <1>6, <1>11, Types, BasePositive DEF Weight, Byte, Carry
<1>13. 0 * Base + 0 = 0
  BY BasePositive
<1> HIDE DEF l, k
<1>14. /\ o.value * Base + rd.lo = WordOf(0 - a)
       /\ SignedWord(0) - SignedWord(a) = h * Base + rd.lo
       /\ 0 = a <=> o.value = 0 /\ rd.lo = 0
       /\ SignedWord(a) \in Int
  <2>1. IsWordDifference(0, 0, k, l, sreg.C, o.value, rd.lo, o.sreg.C)
    BY <1>4, <1>6, <1>10, <1>11, <1>12, Types, WordDifference
  <2>. QED  BY <1>10, <1>13, <2>1 DEF IsWordDifference
<1>15. WordResult'
  BY <1>1, <1>7, <1>14 DEF WordResult, Expected, Value, Rest
<1>16. SignedWord(0) = 0
  BY WordSizes DEF SignedWord, WordTop
<1> HIDE DEF h
<1>17. o.sreg.S = 1 <=> SignedWord(a) > 0
  <2>1. SignedWord(0) - SignedWord(a) < 0 <=> h < 0
    BY <1>5, <1>14, Types, SignOfPair
  <2>. QED  BY <1>6, <1>14, <1>16, <2>1
<1>18. BranchDecides'
  <2>1. ~mixed => (o.sreg.Z = 0 <=> a # 0)
    BY <1>3, <1>6, <1>10, <1>14 DEF Sreg
  <2>. QED  BY <1>1, <1>17, <2>1 DEF BranchDecides, Compares, Taken, Rest, SignedWord
<1>. QED  BY <1>8, <1>9, <1>15, <1>18 DEF IInv
\* A word is taken apart into its bytes and put together again.
LEMMA SplitWord ==
    ASSUME NEW v \in Word
    PROVE  /\ v \div Base \in Byte /\ v % Base \in Byte
           /\ (v \div Base) * Base + (v % Base) = v
<1>1. v \in Int /\ v >= 0 /\ v < WordSize /\ v < Base * Base
  BY WordSizes DEF Word
<1>2. \A n \in Nat \ {0} : \A x \in Int :
         x \div n \in Int /\ x % n \in 0 .. n - 1 /\ x = n * (x \div n) + (x % n)
  OBVIOUS
<1>3. v \div Base \in Int /\ v % Base \in Byte
  BY <1>1, <1>2, BasePositive DEF Byte
<1>4. (v \div Base) * Base + (v % Base) = v
  <2>1. v = Base * (v \div Base) + (v % Base)
    BY <1>1, <1>2, BasePositive
  <2>2. Base * (v \div Base) = (v \div Base) * Base
    BY <1>3, BasePositive
  <2>. QED  BY <2>1, <2>2
<1>5. v \div Base < Base /\ ~(v \div Base < 0)
  <2>1. 0 \in Byte /\ 0 * Base + 0 = 0 /\ Base \in Int /\ Base * Base + 0 = Base * Base
    BY BasePositive DEF Byte
  <2> DEFINE q == v \div Base  r == v % Base
  <2>2. q \in Int /\ r \in Byte /\ q * Base + r = v
    BY <1>3, <1>4
  <2> HIDE DEF q, r
  <2>3. q * Base + r < Base * Base + 0 <=> q < Base \/ (q = Base /\ r < 0)
    BY <2>1, <2>2, PairOrder
  <2>4. q * Base + r < 0 * Base + 0 <=> q < 0 \/ (q = 0 /\ r < 0)
    BY <2>1, <2>2, PairOrder
  <2>5. r >= 0
    BY <2>2, BasePositive DEF Byte
  <2>6. v < Base * Base + 0 /\ ~(v < 0 * Base + 0)
    <3>1. ~(v < 0)  BY <1>1
    <3>. QED  BY <1>1, <2>1, <3>1
  <2>7. q < Base \/ (q = Base /\ r < 0)
    BY <2>2, <2>3, <2>6
  <2>8. ~(q < 0)
    BY <2>2, <2>4, <2>6
  <2>9. q < Base /\ ~(q < 0)
    <3>1. ~(r < 0)
      BY <2>2, <2>5, BasePositive DEF Byte
    <3>. QED  BY <2>7, <2>8, <3>1
  <2>. QED  BY <2>9 DEF q
<1>. QED  BY <1>3, <1>4, <1>5, BasePositive DEF Byte

\* Adding or subtracting a small number to or from a word.
LEMMA ImmediateExact ==
    ASSUME NEW x \in Word, NEW k \in Nat, k <= MaxImmediate
    PROVE  LET p == AVR_Opcode_ADIW(x, k)
               m == AVR_Opcode_SBIW(x, k)
           IN  /\ p.value = WordOf(x + k) /\ p.value \in Word /\ p.sreg \in Sreg
               /\ p.sreg.C = 1 <=> x + k >= WordSize
               /\ p.sreg.S = 1 <=> SignedWord(x) + SignedWord(k) < 0
               /\ p.sreg.V = 1 <=> ~InRange(SignedWord(x) + SignedWord(k))
               /\ m.value = WordOf(x - k) /\ m.value \in Word /\ m.sreg \in Sreg
               /\ m.sreg.C = 1 <=> x < k
               /\ m.sreg.S = 1 <=> SignedWord(x) - SignedWord(k) < 0
               /\ m.sreg.V = 1 <=> ~InRange(SignedWord(x) - SignedWord(k))
               /\ m.sreg.Z = 1 <=> x = k
<1> DEFINE p == AVR_Opcode_ADIW(x, k)
           m == AVR_Opcode_SBIW(x, k)
<1>1. x \in Int /\ 0 <= x /\ x < 2 * WordHalf /\ WordHalf \in Nat \ {0}
      /\ WordSize = 2 * WordHalf /\ k < WordHalf
  BY WordSizes, ArithAssumption DEF Word
<1>2. SignedWord(k) = k
  BY <1>1 DEF SignedWord, WordTop
<1>3. WordOf(x + k) \in Word /\ WordOf(x - k) \in Word
  BY <1>1 DEF WordOf, Word
<1>4. /\ p.value = WordOf(x + k) /\ p.sreg \in Sreg
      /\ p.sreg.C = 1 <=> WordTop(x) /\ ~WordTop(p.value)
      /\ p.sreg.V = 1 <=> ~WordTop(x) /\ WordTop(p.value)
      /\ p.sreg.S = 1 <=> ~(WordTop(p.value) <=> ~WordTop(x) /\ WordTop(p.value))
  BY DEF AVR_Opcode_ADIW, Out, Flags, Sreg, Bit
<1>5. /\ m.value = WordOf(x - k) /\ m.sreg \in Sreg
      /\ m.sreg.C = 1 <=> ~WordTop(x) /\ WordTop(m.value)
      /\ m.sreg.V = 1 <=> WordTop(x) /\ ~WordTop(m.value)
      /\ m.sreg.S = 1 <=> ~(WordTop(m.value) <=> WordTop(x) /\ ~WordTop(m.value))
      /\ m.sreg.Z = 1 <=> m.value = 0
  BY DEF AVR_Opcode_SBIW, Out, Flags, Sreg, Bit
<1> HIDE DEF p, m
<1>6. /\ p.sreg.C = 1 <=> x + k >= WordSize
      /\ p.sreg.S = 1 <=> SignedWord(x) + k < 0
      /\ p.sreg.V = 1 <=> ~InRange(SignedWord(x) + k)
  BY <1>1, <1>4 DEF WordOf, WordTop, SignedWord, InRange
<1>7. /\ m.sreg.C = 1 <=> x < k
      /\ m.sreg.S = 1 <=> SignedWord(x) - k < 0
      /\ m.sreg.V = 1 <=> ~InRange(SignedWord(x) - k)
      /\ m.sreg.Z = 1 <=> x = k
  BY <1>1, <1>5 DEF WordOf, WordTop, SignedWord, InRange
<1>. QED  BY <1>2, <1>3, <1>4, <1>5, <1>6, <1>7 DEF p, m

LEMMA ImmediateStep == ASSUME TypeOK, Partial, ADIW \/ SBIW, Rest PROVE IInv'
<1> DEFINE p == AVR_Opcode_ADIW(a, b)
           m == AVR_Opcode_SBIW(a, b)
           o == IF idiom = "adiw" THEN p ELSE m
<1>1. idiom \in {"adiw", "sbiw"} /\ step = 0 /\ a = Value(rd) /\ b = Value(rr)
  BY DEF ADIW, SBIW, At, Partial
<1>2. step' = 1 /\ sreg' = o.sreg /\ Rest
      /\ rd' = [hi |-> o.value \div Base, lo |-> o.value % Base]
  BY <1>1 DEF ADIW, SBIW, At, Both, Advance, Value
<1>3. a \in Word /\ b \in Word /\ b <= MaxImmediate /\ b \in Nat
  BY <1>1 DEF TypeOK, Partial, Word
<1>4. /\ p.value = WordOf(a + b) /\ p.value \in Word /\ p.sreg \in Sreg
      /\ p.sreg.C = 1 <=> a + b >= WordSize
      /\ p.sreg.S = 1 <=> SignedWord(a) + SignedWord(b) < 0
      /\ p.sreg.V = 1 <=> ~InRange(SignedWord(a) + SignedWord(b))
      /\ m.value = WordOf(a - b) /\ m.value \in Word /\ m.sreg \in Sreg
      /\ m.sreg.C = 1 <=> a < b
      /\ m.sreg.S = 1 <=> SignedWord(a) - SignedWord(b) < 0
      /\ m.sreg.V = 1 <=> ~InRange(SignedWord(a) - SignedWord(b))
      /\ m.sreg.Z = 1 <=> a = b
  BY <1>3, ImmediateExact
<1> HIDE DEF p, m
<1>5. o.value \in Word /\ o.sreg \in Sreg
  BY <1>4
<1>6. rd' \in Pair /\ Value(rd') = o.value
  BY <1>2, <1>5, SplitWord DEF Pair, Value
<1>7. TypeOK'
  BY <1>1, <1>2, <1>5, <1>6 DEF TypeOK, Rest, Length
<1>8. Partial'
  BY <1>1, <1>2, <1>3 DEF Partial, At, Rest, Value
<1>9. WordResult'
  BY <1>1, <1>2, <1>4, <1>6 DEF WordResult, Expected, Rest
<1>10. BranchDecides'
  <2>1. SignedWord(a) \in Int /\ SignedWord(b) \in Int
    BY <1>3, WordSizes DEF SignedWord, Word
  <2>2. CASE idiom = "adiw"
    <3>1. p.sreg.V \in {0, 1}
      BY <1>4 DEF Sreg
    <3>2. sreg' = p.sreg
      BY <1>2, <2>2
    <3>. QED
      BY <1>2, <1>4, <2>2, <3>1, <3>2 DEF BranchDecides, Compares, Taken, Rest, InRange,
         SignedWord
  <2>3. CASE idiom = "sbiw"
    <3>1. sreg' = m.sreg
      BY <1>2, <2>3
    <3>2. m.sreg.S = 0 <=> SignedWord(a) >= SignedWord(b)
      <4>1. m.sreg.S = 0 <=> ~(m.sreg.S = 1)
        BY <1>4 DEF Sreg
      <4>. QED  BY <1>4, <2>1, <4>1
    <3>. QED
      BY <1>2, <1>4, <2>3, <3>1, <3>2 DEF BranchDecides, Compares, Taken, Rest, InRange,
         SignedWord
  <2>. QED  BY <1>1, <2>2, <2>3
<1>. QED  BY <1>7, <1>8, <1>9, <1>10 DEF IInv
----------------------------------------------------------------------------
(* Products: first the types.                                              *)

LEMMA ProductInWord ==
    ASSUME NEW x \in Byte, NEW y \in Byte
    PROVE  x * y \in Word /\ WordOf(Signed(x) * y) \in Word
<1>1. \A m, n, k \in Nat : m <= n => m * k <= n * k
  <2>1. ASSUME NEW m \in Nat, NEW n \in Nat, NEW k \in Nat, m <= n
        PROVE  m * k <= n * k
    <3>1. n * k - m * k = (n - m) * k /\ n - m \in Nat
      BY <2>1
    <3>2. \A i \in Nat : i * k >= 0
      OBVIOUS
    <3>. QED  BY <3>1, <3>2
  <2>. QED  BY <2>1
<1>2. \A m, n \in Nat : m < Base /\ n < Base => m * n < Base * Base
  <2>1. ASSUME NEW m \in Nat, NEW n \in Nat, m < Base, n < Base
        PROVE  m * n < Base * Base
    <3>1. m * n <= Base * n
      BY <1>1, <2>1, BasePositive
    <3>2. n * Base <= (Base - 1) * Base
      BY <1>1, <2>1, BasePositive
    <3>3. (Base - 1) * Base = Base * Base - Base /\ n * Base = Base * n
      BY BasePositive
    <3>4. m * n \in Int /\ Base * n \in Int /\ Base * Base \in Int
      BY BasePositive
    <3>. QED  BY <3>1, <3>2, <3>3, <3>4, BasePositive
  <2>. QED  BY <2>1
<1>3. x \in Nat /\ y \in Nat /\ x < Base /\ y < Base
  BY BasePositive DEF Byte
<1>4. x * y \in Nat /\ x * y < Base * Base
  BY <1>2, <1>3
<1>5. x * y \in Word
  BY <1>4, WordSizes DEF Word
<1>6. WordOf(Signed(x) * y) \in Word
  <2>1. CASE ~Top(x)
    BY <1>5, <2>1, WordSizes DEF Signed, WordOf, Word
  <2>2. CASE Top(x)
    <3> DEFINE n == Base - x
    <3>1. n \in Nat /\ n < Base /\ Signed(x) = -n
      BY <1>3, <2>2, AluAssumption, BasePositive DEF Signed, Top
    <3>2. n * y \in Nat /\ n * y < Base * Base
      BY <1>2, <1>3, <3>1
    <3>3. Signed(x) * y = -(n * y)
      BY <1>3, <3>1
    <3> DEFINE p == n * y
    <3>4. p \in Nat /\ p < WordSize /\ Signed(x) * y = -p
      BY <3>2, <3>3, WordSizes
    <3> HIDE DEF n, p
    <3>. QED  BY <3>4, WordSizes DEF WordOf, Word
  <2>. QED  BY <2>1, <2>2
<1>. QED  BY <1>5, <1>6

LEMMA MultiplyStep == ASSUME TypeOK, Partial, WordResult, Multiply PROVE IInv'
<1> DEFINE Untouched == UNCHANGED <<idiom, rd, rr, a, b, mixed>>
<1>1. Untouched /\ idiom \in {"mul", "mulsu"} /\ step' = step + 1
      /\ step \in 0 .. Length[idiom] - 1
  <2>1. Untouched
    BY DEF Multiply
  <2>2. CASE MULLow
    BY <2>1, <2>2 DEF MULLow, Advance, Length
  <2>3. CASE MULCross
    BY <2>1, <2>3 DEF MULCross, Product, Advance, At, Length
  <2>4. CASE MULSU
    BY <2>1, <2>4 DEF MULSU, Product, Advance, At, Length
  <2>5. CASE ADDProduct
    BY <2>1, <2>5 DEF ADDProduct, Advance, At, Length
  <2>6. CASE ADCProduct
    BY <2>1, <2>6 DEF ADCProduct, Advance, At, Length
  <2>. QED  BY <2>1, <2>2, <2>3, <2>4, <2>5, <2>6 DEF Multiply
<1>2. \A p : \A s \in Sreg : MulOut(p, s).value = p /\ MulOut(p, s).sreg \in Sreg
  <2>1. \A p, r, s : Out(r, s).value = r /\ Out(r, s).sreg = s
    BY DEF Out
  <2>2. \A p : \A s \in Sreg : MulOut(p, s).value = p
    BY <2>1 DEF MulOut
  <2>3. \A p : Bit(p) \in {0, 1}
    BY DEF Bit
  <2>4. ASSUME NEW p, NEW s \in Sreg PROVE MulOut(p, s).sreg \in Sreg
    <3>1. MulOut(p, s).sreg = [s EXCEPT !.C = Bit(WordTop(p)), !.Z = Bit(p = 0)]
      BY <2>1 DEF MulOut
    <3>. QED  BY <2>3, <3>1 DEF Sreg
  <2>. QED  BY <2>2, <2>4
<1>3. \A x, y : \A r : AddFlags(x, y, r) \in Sreg
  BY DEF AddFlags, Flags, Sreg, Bit
<1>4. \A v \in Word : v \div Base \in Byte /\ v % Base \in Byte
  BY SplitWord
<1>5. /\ r1_0' \in Word /\ sreg' \in Sreg
      /\ acc' \in [lo : Byte, hi : Byte, ext : Byte]
  <2>1. acc \in [lo : Byte, hi : Byte, ext : Byte] /\ r1_0 \in Word
    BY DEF TypeOK
  <2>2. CASE MULLow
    <3> DEFINE o == AVR_Opcode_MUL(rd.lo, rr.lo, sreg)
    <3>1. o.value \in Word /\ o.sreg \in Sreg
      BY <1>2, Types, ProductInWord DEF AVR_Opcode_MUL
    <3> HIDE DEF o
    <3>2. sreg' = o.sreg /\ r1_0' = o.value
          /\ acc' = [acc EXCEPT !.lo = o.value % Base, !.hi = o.value \div Base]
      BY <2>2 DEF MULLow, Advance, o
    <3>. QED  BY <1>4, <2>1, <3>1, <3>2
  <2>3. CASE MULCross
    <3>1. PICK x \in Byte, y \in Byte : Product(AVR_Opcode_MUL(x, y, sreg))
      BY <2>3, Types DEF MULCross
    <3>. QED
      BY <1>2, <2>1, <3>1, Types, ProductInWord DEF Product, Advance, AVR_Opcode_MUL
  <2>4. CASE MULSU
    BY <1>2, <2>1, <2>4, Types, ProductInWord DEF MULSU, Product, Advance, AVR_Opcode_MULSU
  <2>5. CASE ADDProduct
    <3> DEFINE y == r1_0 % Base
               o == AVR_Opcode_ADD(acc.hi, y)
    <3>1. y \in Byte /\ acc.hi \in Byte
      BY <1>4, <2>1
    <3>2. acc' = [acc EXCEPT !.hi = o.value] /\ sreg' = o.sreg /\ r1_0' = r1_0
      BY <2>5 DEF ADDProduct, Advance
    <3> HIDE DEF y
    <3>3. o.value \in Byte /\ o.sreg \in Sreg
      BY <1>3, <3>1, BasePositive DEF AVR_Opcode_ADD, Out, ByteOf, Byte
    <3> HIDE DEF o
    <3>. QED  BY <2>1, <3>2, <3>3
  <2>6. CASE ADCProduct
    <3> DEFINE x == r1_0 \div Base
               o == AVR_Opcode_ADC(x, 0, sreg)
    <3>1. x \in Byte
      BY <1>4, <2>1
    <3>2. acc' = [acc EXCEPT !.ext = o.value] /\ sreg' = o.sreg /\ r1_0' = r1_0
      BY <2>6 DEF ADCProduct, Advance
    <3> HIDE DEF x
    <3>3. o.value \in Byte /\ o.sreg \in Sreg
      BY <1>3, <3>1, Types, BasePositive DEF AVR_Opcode_ADC, Out, ByteOf, Byte, Carry
    <3> HIDE DEF o
    <3>. QED  BY <2>1, <3>2, <3>3
  <2>. QED  BY <2>2, <2>3, <2>4, <2>5, <2>6 DEF Multiply
<1>6. TypeOK'
  BY <1>1, <1>5 DEF TypeOK, Length
<1>7. Partial'
  BY <1>1 DEF Partial, At, Value
<1>8. WordResult' /\ BranchDecides'
  BY <1>1 DEF Partial, WordResult, BranchDecides, Expected, Value, Compares
<1>. QED  BY <1>6, <1>7, <1>8 DEF IInv

\* INC, DEC and the logic opcodes leave the carry alone.
LEMMA CarrySurvives ==
    ASSUME TypeOK, Between PROVE sreg' \in Sreg /\ sreg'.C = sreg.C
<1>1. sreg.C \in {0, 1}
  BY Types DEF Carry
<1>2. \A x : LET o == AVR_Opcode_INC(x, sreg)
             IN  o.sreg \in Sreg /\ o.sreg.C = sreg.C
  BY <1>1 DEF AVR_Opcode_INC, Out, Flags, Sreg, Bit
<1>3. \A x : LET o == AVR_Opcode_DEC(x, sreg)
             IN  o.sreg \in Sreg /\ o.sreg.C = sreg.C
  BY <1>1 DEF AVR_Opcode_DEC, Out, Flags, Sreg, Bit
<1>4. \A x : LET o == AVR_Opcode_Logic(x, sreg)
             IN  o.sreg \in Sreg /\ o.sreg.C = sreg.C
  BY <1>1 DEF AVR_Opcode_Logic, Out, Flags, Sreg, Bit
<1>5. PICK x \in Byte : \E out \in {AVR_Opcode_INC(x, sreg), AVR_Opcode_DEC(x, sreg),
                                    AVR_Opcode_Logic(x, sreg)} : sreg' = out.sreg
  BY DEF Between
<1>. QED  BY <1>2, <1>3, <1>4, <1>5

LEMMA BetweenStep == ASSUME TypeOK, Partial, Between PROVE IInv'
<1>1. step' = step /\ step \in 1 .. Length[idiom] - 1 /\ mixed' = TRUE
      /\ UNCHANGED <<idiom, rd, rr, r1_0, acc, a, b>>
  BY DEF Between
<1>2. sreg' \in Sreg /\ sreg'.C = sreg.C
  BY CarrySurvives
<1>3. TypeOK'
  BY <1>1, <1>2 DEF TypeOK
<1>4. OldHigh' = OldHigh
  BY <1>1, <1>2 DEF OldHigh
<1>5. Partial'
  BY <1>1, <1>2, <1>4, Types DEF Partial, At, Value
<1>6. WordResult' /\ BranchDecides'
  <2>1. step' # Length[idiom']
    BY <1>1 DEF TypeOK, Length
  <2>. QED  BY <2>1, NotYet
<1>. QED  BY <1>3, <1>5, <1>6 DEF IInv

----------------------------------------------------------------------------
LEMMA InitInv == ASSUME Init PROVE IInv
<1>1. 0 \in Byte /\ 0 \in Word
  BY BasePositive, WordSizes DEF Byte, Word
<1>2. idiom \in DOMAIN Length /\ step = 0 /\ step # Length[idiom]
  BY DEF Init, Length
<1>3. rd \in Pair /\ rr \in Operand(idiom) /\ a = Value(rd) /\ b = Value(rr)
      /\ r1_0 = 0 /\ acc = [lo |-> 0, hi |-> 0, ext |-> 0] /\ mixed = FALSE
      /\ sreg \in Sreg
  BY DEF Init, Sreg
<1>4. rr \in Pair
  BY <1>1, <1>3 DEF Operand, Pair
<1>5. a \in Word /\ b \in Word
  BY <1>3, <1>4, PairIsWord DEF Pair, Value
<1>6. TypeOK
  <2>1. step \in 0 .. Length[idiom]
    BY <1>2 DEF Length
  <2>2. r1_0 \in Word /\ acc \in [lo : Byte, hi : Byte, ext : Byte]
    BY <1>1, <1>3
  <2>. QED  BY <1>2, <1>3, <1>4, <1>5, <2>1, <2>2 DEF TypeOK
<1>7. idiom \in {"adiw", "sbiw"} => b <= MaxImmediate
  BY <1>3 DEF Operand
<1>8. Partial
  BY <1>2, <1>3, <1>7 DEF Partial, At
<1>. QED  BY <1>2, <1>6, <1>8 DEF IInv, WordResult, BranchDecides, Finished

LEMMA StepInv == ASSUME IInv, [Next]_vars PROVE IInv'
<1>1. CASE Fragment
  <2>1. Rest
    BY <1>1 DEF Fragment, Rest
  <2>. QED
    BY <1>1, <2>1, ADDStep, ADCStep, SUBStep, SBCStep, CPStep, CPCStep, ShiftStep, RORStep,
       COMStep, NEGStep, SBCIStep, ImmediateStep DEF Fragment, IInv
<1>2. CASE Multiply
  BY <1>2, MultiplyStep DEF IInv
<1>3. CASE Between
  BY <1>3, BetweenStep DEF IInv
<1>4. CASE UNCHANGED vars
  BY <1>4 DEF vars, IInv, TypeOK, Partial, OldHigh, At, Value, WordResult, BranchDecides,
     Finished, Expected, Compares
<1>. QED  BY <1>1, <1>2, <1>3, <1>4 DEF Next

LEMMA Invariance == Spec => []IInv
<1>1. Init => IInv
  BY InitInv
<1>2. IInv /\ [Next]_vars => IInv'
  BY StepInv
<1>. QED  BY <1>1, <1>2, PTL DEF Spec

\* Every register, product and flag stays in its range.
THEOREM TypeCorrect == Spec => []TypeOK
<1>1. IInv => TypeOK  BY DEF IInv
<1>. QED  BY <1>1, Invariance, PTL

\* Sums, differences, shifts and negatives computed byte by byte are those of
\* words, for bytes of every size and whatever runs between the instructions.
THEOREM WordCorrect == Spec => []WordResult
<1>1. IInv => WordResult  BY DEF IInv
<1>. QED  BY <1>1, Invariance, PTL

\* After a fragment the conditional branches decide as mathematics does.
THEOREM BranchesCorrect == Spec => []BranchDecides
<1>1. IInv => BranchDecides  BY DEF IInv
<1>. QED  BY <1>1, Invariance, PTL

----------------------------------------------------------------------------
(* Products: what the accumulator holds between the partial products.      *)

LEMMA ProductsOrdered ==
    \A m, n, k, l \in Nat : m <= n /\ k <= l => m * k <= n * l
<1>1. ASSUME NEW m \in Nat, NEW n \in Nat, NEW k \in Nat, m <= n
      PROVE  m * k <= n * k
  <2>1. n * k - m * k = (n - m) * k /\ n - m \in Nat
    BY <1>1
  <2>2. \A i \in Nat : i * k \in Nat
    OBVIOUS
  <2>. QED  BY <2>1, <2>2
<1>2. ASSUME NEW m \in Nat, NEW n \in Nat, NEW k \in Nat, NEW l \in Nat, m <= n, k <= l
      PROVE  m * k <= n * l
  <2>1. m * k <= n * k /\ k * n <= l * n
    BY <1>1, <1>2
  <2>2. k * n = n * k /\ l * n = n * l /\ m * k \in Int /\ n * k \in Int /\ n * l \in Int
    OBVIOUS
  <2>. QED  BY <2>1, <2>2
<1>. QED  BY <1>2

\* The bytes of a signed product, which leave room for a carry unless the low
\* one is zero.
LEMMA SignedProduct ==
    ASSUME NEW x \in Byte, NEW y \in Byte,
           NEW v, v = WordOf(Signed(x) * y)
    PROVE  /\ v \in Word
           /\ Signed(v \div Base) * Base + (v % Base) = Signed(x) * y
           /\ v \div Base = ByteHalf - 1 => v % Base = 0
<1> DEFINE p == Signed(x) * y
           most == (ByteHalf - 1) * Base
           q == v \div Base
           m == v % Base
<1>1. x \in Nat /\ y \in Nat /\ x < Base /\ y <= Base /\ ByteHalf \in Nat /\ ByteHalf - 1 \in Nat
      /\ Base \in Nat
  BY BasePositive, AluAssumption DEF Byte
<1>2. most \in Nat /\ WordHalf = most + Base /\ WordHalf \in Nat /\ WordSize = 2 * WordHalf
  <2>1. \A h \in Nat \ {0} : \A n \in Nat : (h - 1) * n \in Nat /\ h * n = (h - 1) * n + n
    OBVIOUS
  <2>. QED  BY <1>1, <2>1, WordSizes, AluAssumption
<1>3. p \in Int /\ -WordHalf <= p /\ p <= most
  <2>1. CASE ~Top(x)
    <3>1. Signed(x) = x /\ x <= ByteHalf - 1
      BY <1>1, <2>1 DEF Signed, Top
    <3>2. x * y <= (ByteHalf - 1) * Base /\ x * y \in Nat
      BY <1>1, <3>1, ProductsOrdered
    <3>. QED  BY <1>1, <1>2, <3>1, <3>2
  <2>2. CASE Top(x)
    <3> DEFINE n == Base - x
    <3>1. n \in Nat /\ n <= ByteHalf /\ Signed(x) = -n
      BY <1>1, <2>2, BasePositive DEF Signed, Top
    <3>2. n * y <= ByteHalf * Base /\ n * y \in Nat /\ (-n) * y = -(n * y)
      BY <1>1, <3>1, ProductsOrdered
    <3> DEFINE w == n * y
    <3>3. w <= WordHalf /\ w \in Nat /\ p = -w
      BY <3>1, <3>2, WordSizes
    <3> HIDE DEF n, w
    <3>. QED  BY <1>2, <3>3
  <2>. QED  BY <2>1, <2>2
<1>4. v \in Word
  BY ProductInWord
<1>5. q \in Byte /\ m \in Byte /\ q * Base + m = v
  BY <1>4, SplitWord
<1>6. SignedWord(v) = Signed(q) * Base + m
  BY <1>5, PairIsWord
<1>7. SignedWord(v) = p
  <2>1. p < WordHalf /\ v = IF p < 0 THEN p + WordSize ELSE IF p >= WordSize THEN p - WordSize
                                                             ELSE p
    BY <1>1, <1>2, <1>3, BasePositive DEF WordOf
  <2> HIDE DEF p, most
  <2>. QED  BY <1>2, <1>3, <2>1 DEF SignedWord, WordTop
<1>8. ASSUME q = ByteHalf - 1 PROVE m = 0
  <2>1. Signed(q) = ByteHalf - 1
    BY <1>1, <1>8 DEF Signed, Top
  <2>2. most + m = p
    BY <1>6, <1>7, <2>1
  <2>3. m \in Int /\ m >= 0
    BY <1>5, BasePositive DEF Byte
  <2> HIDE DEF p, most, m
  <2>. QED  BY <1>2, <1>3, <2>2, <2>3
<1>. QED  BY <1>4, <1>6, <1>7, <1>8

\* Adding the low byte of a word to the high byte of the accumulator.
LEMMA AddHigh ==
    ASSUME NEW h \in Byte, NEW v \in Word, NEW o, o = AVR_Opcode_ADD(h, v % Base)
    PROVE  /\ o.value \in Byte /\ o.sreg.C \in Carry
           /\ o.value + Weight(o.sreg.C) = h + (v % Base)
           /\ v % Base = 0 => o.sreg.C = 0
<1> DEFINE m == v % Base
<1>1. m \in Byte
  BY SplitWord
<1> HIDE DEF m
<1>2. h \in Int /\ m \in Int /\ 0 <= h /\ h < Base /\ h + m + 0 = h + m /\
        Base \in Nat /\ 0 \in Carry
  BY <1>1, BasePositive DEF Byte, Carry
<1>3. IsSum(h, m, 0, o.value, o.sreg)
  <2>1. IsSum(h, m, 0, ByteOf(h + m + 0), AddFlags(h, m, ByteOf(h + m + 0)))
    BY <1>1, <1>2, AddExact
  <2>2. o.value = ByteOf(h + m) /\ o.sreg = AddFlags(h, m, ByteOf(h + m))
    BY DEF AVR_Opcode_ADD, Out, m
  <2>. QED  BY <1>2, <2>1, <2>2
<1>4. o.value \in Byte /\ o.sreg.C \in {0, 1} /\ o.value \in Int /\ 0 <= o.value
  BY <1>3, BasePositive DEF IsSum, Sreg, Byte
<1>5. o.value + Weight(o.sreg.C) = h + m
  BY <1>2, <1>3, <1>4 DEF IsSum, Weight
<1>6. m = 0 => o.sreg.C = 0
  BY <1>2, <1>4, <1>5 DEF Weight
<1>. QED  BY <1>4, <1>5, <1>6 DEF Carry, m

Accumulated == acc.hi * Base + acc.lo

\* Equal but for carries out of the word.
Congruent(x, y) == \E k \in Int : x = y - k * WordSize

ProductInv ==
    /\ idiom \in {"mul", "mulsu"} /\ step \in {1, 2} => Accumulated = rd.lo * rr.lo
    /\ At("mul", 2) => r1_0 = rd.hi * rr.lo
    /\ idiom = "mul" /\ step \in {3, 4} =>
          Congruent(Accumulated, rd.lo * rr.lo + (rd.hi * rr.lo) * Base)
    /\ At("mul", 4) => r1_0 = rd.lo * rr.hi
    /\ At("mul", 5) =>
          Congruent(Accumulated,
                    rd.lo * rr.lo + (rd.hi * rr.lo) * Base + (rd.lo * rr.hi) * Base)
    /\ idiom = "mulsu" => rr.hi = 0
    /\ idiom = "mulsu" /\ step \in {2, 3} => r1_0 = WordOf(Signed(rd.hi) * rr.lo)
    /\ At("mulsu", 3) =>
          /\ acc.hi * Base + acc.lo + sreg.C * WordSize
                = rd.lo * rr.lo + (r1_0 % Base) * Base
          /\ r1_0 % Base = 0 => sreg.C = 0
    /\ At("mulsu", 4) =>
          Signed(acc.ext) * WordSize + Accumulated
             = (Signed(rd.hi) * rr.lo) * Base + rd.lo * rr.lo

\* One addition to the high byte adds the word, shifted, but for carries.
LEMMA AddShifted ==
    ASSUME NEW h \in Byte, NEW l \in Byte, NEW v \in Word, NEW o,
           o = AVR_Opcode_ADD(h, v % Base), NEW y \in Int,
           Congruent(h * Base + l, y)
    PROVE  Congruent(o.value * Base + l, y + v * Base)
<1> DEFINE m == v % Base
           q == v \div Base
           c == o.sreg.C
<1>1. q \in Byte /\ m \in Byte /\ q * Base + m = v
  BY SplitWord
<1>2. o.value \in Byte /\ c \in {0, 1} /\ o.value + Weight(c) = h + m
  BY AddHigh DEF Carry
<1> HIDE DEF m, q, c
<1>3. h \in Int /\ l \in Int /\ q \in Int /\ m \in Int /\ o.value \in Int /\ Base \in Int
      /\ v \in Int
  BY <1>1, <1>2, BasePositive DEF Byte, Word
<1>4. o.value = h + m - c * Base
  BY <1>2, <1>3 DEF Weight
<1>5. PICK k \in Int : h * Base + l = y - k * WordSize
  BY DEF Congruent
<1>6. o.value * Base = h * Base + m * Base - c * (Base * Base)
  BY <1>2, <1>3, <1>4
<1>7. v * Base = q * (Base * Base) + m * Base
  BY <1>1, <1>3
<1>8. o.value * Base + l = (y + v * Base) - (k + q + c) * WordSize
  <2> DEFINE A == o.value * Base
             H == h * Base
             M == m * Base
             V == v * Base
             K == k * WordSize
             Q == q * WordSize
             C == c * WordSize
             all == (k + q + c) * WordSize
  <2>1. all = K + Q + C
    BY <1>2, <1>3, WordSizes
  <2>2. A \in Int /\ H \in Int /\ M \in Int /\ V \in Int /\ K \in Int /\ Q \in Int /\ C \in Int
    BY <1>2, <1>3, WordSizes
  <2>3. A = H + M - C /\ V = Q + M /\ H + l = y - K
    BY <1>5, <1>6, <1>7, WordSizes
  <2> HIDE DEF A, H, M, V, K, Q, C, all
  <2>4. A + l = (y + V) - all
    BY <1>3, <2>1, <2>2, <2>3
  <2>. QED  BY <2>4 DEF A, V, all
<1>9. k + q + c \in Int
  BY <1>2, <1>3
<1>. QED  BY <1>8, <1>9 DEF Congruent

LEMMA MULLowProduct ==
    ASSUME TypeOK, ProductInv, MULLow, Multiply PROVE ProductInv'
<1> DEFINE o == AVR_Opcode_MUL(rd.lo, rr.lo, sreg)
<1>1. idiom' = idiom /\ step' = 1 /\ rd' = rd /\ rr' = rr
  BY DEF MULLow, Advance, Multiply
<1>2. acc'.lo = o.value % Base /\ acc'.hi = o.value \div Base
  BY DEF MULLow, TypeOK
<1>3. o.value = rd.lo * rr.lo /\ o.value \in Word
  BY Types, ProductInWord DEF AVR_Opcode_MUL, MulOut, Out
<1>4. Accumulated' = rd'.lo * rr'.lo
  BY <1>1, <1>2, <1>3, SplitWord DEF Accumulated
<1>. QED  BY <1>1, <1>4 DEF ProductInv, At

LEMMA CrossProduct ==
    ASSUME TypeOK, ProductInv, MULCross, Multiply PROVE ProductInv'
<1>1. /\ idiom = "mul" /\ idiom' = idiom /\ rd' = rd /\ rr' = rr /\ acc' = acc
      /\ \/ step = 1 /\ step' = 2 /\ r1_0' = rd.hi * rr.lo
         \/ step = 3 /\ step' = 4 /\ r1_0' = rd.lo * rr.hi
  BY DEF MULCross, Product, Advance, At, Multiply, AVR_Opcode_MUL, MulOut, Out
<1>2. Accumulated' = Accumulated
  BY <1>1 DEF Accumulated
<1>3. \A y : Congruent(Accumulated, y) => Congruent(Accumulated', y)
  BY <1>2
<1>. QED  BY <1>1, <1>2, <1>3 DEF ProductInv, At, Congruent

LEMMA SignedStep ==
    ASSUME TypeOK, ProductInv, MULSU, Multiply PROVE ProductInv'
<1>1. /\ idiom = "mulsu" /\ idiom' = idiom /\ rd' = rd /\ rr' = rr /\ acc' = acc
      /\ step = 1 /\ step' = 2 /\ r1_0' = WordOf(Signed(rd.hi) * rr.lo)
  BY DEF MULSU, Product, Advance, At, Multiply, AVR_Opcode_MULSU, MulOut, Out
<1>. QED  BY <1>1 DEF ProductInv, At, Accumulated

LEMMA ADDStepProduct ==
    ASSUME TypeOK, ProductInv, ADDProduct, Multiply PROVE ProductInv'
<1> DEFINE o == AVR_Opcode_ADD(acc.hi, r1_0 % Base)
<1>1. /\ idiom' = idiom /\ rd' = rd /\ rr' = rr /\ r1_0' = r1_0 /\ step' = step + 1
      /\ acc'.hi = o.value /\ acc'.lo = acc.lo /\ sreg' = o.sreg
  BY DEF ADDProduct, Advance, Multiply, TypeOK
<1>2. acc.hi \in Byte /\ acc.lo \in Byte /\ r1_0 \in Word
  BY DEF TypeOK
<1>3. rd.lo \in Int /\ rd.hi \in Int /\ rr.lo \in Int /\ rr.hi \in Int /\ Base \in Int
  BY Types, BasePositive DEF Byte
<1>4. \A x, y \in Int : x * y \in Int
  OBVIOUS
<1>5. Accumulated' = o.value * Base + acc.lo
  BY <1>1 DEF Accumulated
<1>6. \A y \in Int : Congruent(Accumulated, y) => Congruent(Accumulated', y + r1_0 * Base)
  BY <1>2, <1>5, AddShifted DEF Accumulated
<1> HIDE DEF o
<1>7. CASE At("mul", 2)
  <2> DEFINE y == rd.lo * rr.lo
  <2>1. y \in Int
    BY <1>3, <1>4
  <2>2. Accumulated = y /\ r1_0 = rd.hi * rr.lo
    BY <1>7 DEF ProductInv, At
  <2>3. Congruent(Accumulated, y)
    <3>1. y = y - 0 * WordSize /\ 0 \in Int
      BY <2>1, WordSizes
    <3> HIDE DEF y
    <3>. QED  BY <2>2, <3>1 DEF Congruent
  <2>4. Congruent(Accumulated', y + r1_0 * Base)
    BY <1>6, <2>1, <2>3
  <2>5. Congruent(Accumulated, rd.lo * rr.lo + (rd.hi * rr.lo) * Base)'
    BY <1>1, <2>2, <2>4 DEF Congruent
  <2>. QED  BY <1>1, <1>7, <2>5 DEF ProductInv, At
<1>8. CASE At("mul", 4)
  <2> DEFINE y == rd.lo * rr.lo + (rd.hi * rr.lo) * Base
  <2>1. y \in Int
    BY <1>3, <1>4
  <2>2. Congruent(Accumulated, y) /\ r1_0 = rd.lo * rr.hi
    BY <1>8 DEF ProductInv, At
  <2>3. Congruent(Accumulated', y + r1_0 * Base)
    BY <1>6, <2>1, <2>2
  <2>4. Congruent(Accumulated,
                  rd.lo * rr.lo + (rd.hi * rr.lo) * Base + (rd.lo * rr.hi) * Base)'
    BY <1>1, <2>2, <2>3 DEF Congruent
  <2>. QED  BY <1>1, <1>8, <2>4 DEF ProductInv, At
<1>9. CASE At("mulsu", 2)
  <2> DEFINE m == r1_0 % Base
             c == o.sreg.C
  <2>1. m \in Byte /\ m \in Int /\ acc.hi \in Int /\ acc.lo \in Int
    BY <1>2, <1>3, SplitWord DEF Byte
  <2>2. o.value \in Byte /\ c \in {0, 1} /\ o.value + Weight(c) = acc.hi + m /\ (m = 0 => c = 0)
    BY <1>2, AddHigh DEF Carry, o
  <2>3. Accumulated = rd.lo * rr.lo
    BY <1>9 DEF ProductInv, At
  <2>4. o.value * Base + acc.lo + c * WordSize = rd.lo * rr.lo + m * Base
    <3> DEFINE y == rd.lo * rr.lo
               A == o.value * Base
               H == acc.hi * Base
               M == m * Base
               C == c * WordSize
    <3> HIDE DEF m, c
    <3>1. o.value \in Int /\ o.value = acc.hi + m - c * Base
      BY <1>3, <2>1, <2>2 DEF Weight, Byte
    <3>2. o.value * Base = acc.hi * Base + m * Base - c * (Base * Base)
      BY <1>3, <2>1, <2>2, <3>1
    <3>3. A = H + M - C
      BY <3>2, WordSizes
    <3>4. A \in Int /\ H \in Int /\ M \in Int /\ C \in Int /\ y \in Int
      BY <1>3, <2>1, <2>2, <3>1, WordSizes
    <3>5. H + acc.lo = y
      BY <2>3 DEF Accumulated
    <3> HIDE DEF A, H, M, C, y
    <3>6. A + acc.lo + C = y + M
      BY <2>1, <3>3, <3>4, <3>5
    <3>. QED  BY <3>6 DEF A, M, C, y
  <2>5. r1_0 = WordOf(Signed(rd.hi) * rr.lo) /\ rr.hi = 0
    BY <1>9 DEF ProductInv, At
  <2>. QED  BY <1>1, <1>9, <2>2, <2>4, <2>5 DEF ProductInv, At
<1>. QED  BY <1>7, <1>8, <1>9 DEF ADDProduct

LEMMA ADCStepProduct ==
    ASSUME TypeOK, ProductInv, ADCProduct, Multiply PROVE ProductInv'
<1> DEFINE q == r1_0 \div Base
           m == r1_0 % Base
           c == sreg.C
           o == AVR_Opcode_ADC(q, 0, sreg)
           p == Signed(rd.hi) * rr.lo
<1>1. /\ idiom = "mulsu" /\ step = 3 /\ step' = 4
      /\ idiom' = idiom /\ rd' = rd /\ rr' = rr
      /\ acc'.ext = o.value /\ acc'.hi = acc.hi /\ acc'.lo = acc.lo
  BY DEF ADCProduct, Advance, At, Multiply, TypeOK
<1>2. /\ rr.hi = 0
      /\ r1_0 = WordOf(p)
      /\ Accumulated + c * WordSize = rd.lo * rr.lo + m * Base
      /\ m = 0 => c = 0
  BY <1>1 DEF ProductInv, At, Accumulated
<1>3. q \in Byte /\ m \in Byte /\ 0 \in Byte /\ c \in Carry
  BY Types, SplitWord, BasePositive DEF TypeOK, Byte
<1>4. Signed(q) * Base + m = p /\ (q = ByteHalf - 1 => m = 0)
  BY <1>2, Types, SignedProduct
<1>5. Signed(o.value) = Signed(q) + c
  <2>1. IsSum(q, 0, c, o.value, AddFlags(q, 0, o.value))
    <3>1. o.value = ByteOf(q + 0 + c)
      BY DEF AVR_Opcode_ADC, Out
    <3>. QED  BY <1>3, <3>1, AddExact
  <2>2. q = ByteHalf - 1 => c = 0
    BY <1>2, <1>4
  <2>3. o.value \in Byte /\ (o.value = q + c \/ o.value + Base = q + c)
    BY <1>3, <2>1, BasePositive DEF IsSum, Sreg, Carry, Byte
  <2>4. c \in {0, 1}
    BY <1>3 DEF Carry
  <2> HIDE DEF q, c, o
  <2>. QED  BY <1>3, <2>2, <2>3, <2>4, AluAssumption DEF Signed, Top, Byte, Base
<1>6. Signed(o.value) * WordSize + Accumulated = p * Base + rd.lo * rr.lo
  <2> DEFINE s == Signed(q)
             C == c * WordSize
             M == m * Base
             S == s * WordSize
             L == rd.lo * rr.lo
             P == p * Base
             E == Signed(o.value) * WordSize
  <2>1. s \in Int /\ m \in Int /\ c \in Int /\ Base \in Int /\ WordSize \in Int
        /\ rd.lo \in Int /\ rr.lo \in Int /\ rd.hi \in Int
    BY <1>3, Types, BasePositive, WordSizes DEF Signed, Byte, Carry
  <2>2. (s + c) * WordSize = s * WordSize + c * WordSize
    BY <2>1
  <2>3. (s * Base + m) * Base = s * (Base * Base) + m * Base
    BY <2>1
  <2>4. E = S + C /\ P = S + M
    BY <1>4, <1>5, <2>2, <2>3, WordSizes
  <2>5. C \in Int /\ M \in Int /\ S \in Int /\ L \in Int
    BY <2>1
  <2>6. Accumulated \in Int
    BY BasePositive DEF TypeOK, Accumulated, Byte
  <2>7. Accumulated + C = L + M
    BY <1>2
  <2> HIDE DEF C, M, S, L, P, E
  <2>8. E + Accumulated = P + L
    BY <2>4, <2>5, <2>6, <2>7
  <2>. QED  BY <2>8 DEF E, P, L
<1>7. (Signed(acc.ext) * WordSize + Accumulated)' = Signed(o.value) * WordSize + Accumulated
  BY <1>1 DEF Accumulated
<1> HIDE DEF o
<1>. QED  BY <1>1, <1>2, <1>6, <1>7 DEF ProductInv, At

LEMMA ProductInit == ASSUME Init PROVE ProductInv
<1>1. idiom = "mulsu" => rr.hi = 0
  BY DEF Init, Operand
<1>2. step = 0
  BY DEF Init
<1>. QED  BY <1>1, <1>2 DEF ProductInv, At

LEMMA ProductStep == ASSUME IInv, ProductInv, [Next]_vars PROVE ProductInv'
<1>1. CASE Fragment
  <2>1. idiom' = idiom /\ idiom \notin {"mul", "mulsu"}
    BY <1>1 DEF Fragment, ADD, ADC, SUB, SBC, CP, CPC, LSR, ASR, ROR, COM, NEG, SBCI,
                ADIW, SBIW, At
  <2>. QED  BY <2>1 DEF ProductInv, At
<1>2. CASE Multiply
  <2>1. TypeOK
    BY DEF IInv
  <2>. QED
    BY <1>2, <2>1, MULLowProduct, CrossProduct, SignedStep, ADDStepProduct, ADCStepProduct
    DEF Multiply
<1>3. CASE Between
  <2>1. sreg'.C = sreg.C
    BY <1>3, CarrySurvives DEF IInv
  <2>2. UNCHANGED <<idiom, step, rd, rr, r1_0, acc>>
    BY <1>3 DEF Between
  <2>. QED  BY <2>1, <2>2 DEF ProductInv, At, Accumulated, Congruent
<1>4. CASE UNCHANGED vars
  BY <1>4 DEF vars, ProductInv, At, Accumulated, Congruent
<1>. QED  BY <1>1, <1>2, <1>3, <1>4 DEF Next

LEMMA Remainder ==
    ASSUME NEW w \in Word, NEW z \in Int, NEW k \in Int, w = z - k * WordSize
    PROVE  z % WordSize = w
<1> DEFINE r == z % WordSize
           j == z \div WordSize
<1>1. \A n \in Nat \ {0} : \A x \in Int :
         x \div n \in Int /\ x % n \in 0 .. n - 1 /\ x = n * (x \div n) + (x % n)
  OBVIOUS
<1>2. WordSize \in Nat \ {0}
  BY WordSizes
<1>3. r \in Int /\ 0 <= r /\ r < WordSize /\ j \in Int /\ z = WordSize * j + r
  BY <1>1, <1>2
<1>4. w \in Int /\ 0 <= w /\ w < WordSize
  BY <1>2 DEF Word
<1>5. \A n \in Nat \ {0} : \A i \in Int : i >= 1 => i * n >= n
  <2>1. \A n \in Nat \ {0} : \A i \in Int : i >= 1 => i * n = (i - 1) * n + n
    OBVIOUS
  <2>2. \A n \in Nat \ {0} : \A i \in Nat : i * n \in Nat
    OBVIOUS
  <2>. QED  BY <2>1, <2>2
<1>6. w - r = (j - k) * WordSize /\ r - w = (k - j) * WordSize
  <2>1. WordSize * j = j * WordSize
    BY <1>2, <1>3
  <2>2. (j - k) * WordSize = j * WordSize - k * WordSize
        /\ (k - j) * WordSize = k * WordSize - j * WordSize
    BY <1>2, <1>3
  <2> DEFINE J == j * WordSize
             K == k * WordSize
  <2>3. J \in Int /\ K \in Int /\ z = J + r /\ w = z - K
    BY <1>2, <1>3, <2>1
  <2> HIDE DEF J, K, r, j
  <2>4. w - r = J - K /\ r - w = K - J
    BY <1>3, <1>4, <2>3
  <2>. QED  BY <2>2, <2>4 DEF J, K
<1> HIDE DEF r, j
<1>7. ~(j - k >= 1)
  <2> SUFFICES ASSUME j - k >= 1 PROVE FALSE
    OBVIOUS
  <2>1. (j - k) * WordSize >= WordSize
    BY <1>2, <1>3, <1>5
  <2>2. w - r >= WordSize
    BY <1>6, <2>1
  <2>. QED  BY <1>2, <1>3, <1>4, <2>2
<1>8. ~(k - j >= 1)
  <2> SUFFICES ASSUME k - j >= 1 PROVE FALSE
    OBVIOUS
  <2>1. (k - j) * WordSize >= WordSize
    BY <1>2, <1>3, <1>5
  <2>2. r - w >= WordSize
    BY <1>6, <2>1
  <2>. QED  BY <1>2, <1>3, <1>4, <2>2
<1>9. j = k
  BY <1>3, <1>7, <1>8
<1>10. w = r
  BY <1>2, <1>3, <1>4, <1>6, <1>9
<1>. QED  BY <1>10 DEF r

LEMMA ProductCorrect == ASSUME IInv, ProductInv PROVE ProductResult
<1>1. /\ Base \in Int /\ rd.lo \in Int /\ rd.hi \in Int /\ rr.lo \in Int /\ rr.hi \in Int
      /\ WordSize = Base * Base /\ WordSize \in Int
  BY Types, BasePositive, WordSizes DEF IInv, Byte
<1>2. acc.hi \in Byte /\ acc.lo \in Byte
  BY DEF IInv, TypeOK
<1>3. Accumulated \in Word /\ Accumulated = acc.hi * Base + acc.lo
  BY <1>2, PairIsWord DEF Accumulated
<1>4. ASSUME idiom \in {"mul", "mulsu"}
      PROVE  a = rd.hi * Base + rd.lo /\ b = rr.hi * Base + rr.lo
  BY <1>4 DEF IInv, Partial, Value
<1>5. ASSUME Finished, idiom = "mul"
      PROVE  Accumulated = (a * b) % WordSize
  <2> DEFINE L == rd.lo * rr.lo
             H == (rd.hi * rr.lo) * Base
             M == (rd.lo * rr.hi) * Base
             Q == rd.hi * rr.hi
  <2>1. PICK k \in Int : Accumulated = L + H + M - k * WordSize
    <3>1. step = 5
      BY <1>5 DEF Finished, Length
    <3>2. Congruent(Accumulated, L + H + M)
      BY <1>5, <3>1 DEF ProductInv, At
    <3>3. PICK k \in Int : Accumulated = (L + H + M) - k * WordSize
      BY <3>2 DEF Congruent
    <3>4. L \in Int /\ H \in Int /\ M \in Int /\ k * WordSize \in Int
      BY <1>1
    <3> HIDE DEF L, H, M
    <3>. QED  BY <3>3, <3>4
  <2>2. a * b = L + H + M + Q * WordSize
    <3>1. a * b = (rd.hi * Base + rd.lo) * (rr.hi * Base + rr.lo)
      BY <1>4, <1>5
    <3>. QED  BY <1>1, <3>1
  <2>3. (k + Q) * WordSize = k * WordSize + Q * WordSize
    BY <1>1
  <2>4. L \in Int /\ H \in Int /\ M \in Int /\ Q \in Int
        /\ k * WordSize \in Int /\ Q * WordSize \in Int /\ a * b \in Int
    BY <1>1, <2>2
  <2>5. Accumulated = a * b - (k + Q) * WordSize /\ k + Q \in Int
    <3> DEFINE K == k * WordSize
               R == Q * WordSize
               z == a * b
               all == (k + Q) * WordSize
    <3>1. /\ K \in Int /\ R \in Int /\ z = L + H + M + R /\ all = K + R
          /\ Accumulated = L + H + M - K
      BY <2>1, <2>2, <2>3, <2>4
    <3> HIDE DEF L, H, M, Q, K, R, z, all
    <3>2. Accumulated = z - all
      BY <2>4, <3>1
    <3>. QED  BY <2>4, <3>2 DEF z, all
  <2>. QED  BY <1>3, <2>4, <2>5, Remainder
<1>6. ASSUME Finished, idiom = "mulsu"
      PROVE  Signed(acc.ext) * WordSize + Accumulated = SignedWord(a) * b
  <2>1. step = 4
    BY <1>6 DEF Finished, Length
  <2>2. /\ Signed(acc.ext) * WordSize + Accumulated
              = (Signed(rd.hi) * rr.lo) * Base + rd.lo * rr.lo
        /\ rr.hi = 0
    BY <1>6, <2>1 DEF ProductInv, At
  <2>3. b = rr.lo
    BY <1>1, <1>4, <1>6, <2>2
  <2>4. SignedWord(a) = Signed(rd.hi) * Base + rd.lo
    BY <1>4, <1>6, Types, PairIsWord DEF IInv
  <2>5. Signed(rd.hi) \in Int
    BY <1>1 DEF Signed
  <2>6. (Signed(rd.hi) * Base + rd.lo) * rr.lo = (Signed(rd.hi) * rr.lo) * Base + rd.lo * rr.lo
    BY <1>1, <2>5
  <2>. QED  BY <2>2, <2>3, <2>4, <2>6
<1>7. acc.hi * Base \in Int /\ acc.lo \in Int /\ Signed(acc.ext) * WordSize \in Int
  BY <1>1, BasePositive DEF IInv, TypeOK, Byte, Signed
<1>. QED  BY <1>3, <1>5, <1>6, <1>7 DEF ProductResult

\* Partial products added with their carries give the low word of an unsigned
\* product and the exact product of a signed word and a byte, for bytes of
\* every size and whatever runs between the instructions.
THEOREM ProductsCorrect == Spec => []ProductResult
<1>1. Init => ProductInv
  BY ProductInit
<1>2. IInv /\ ProductInv /\ [Next]_vars => ProductInv'
  BY ProductStep
<1>3. IInv /\ ProductInv => ProductResult
  BY ProductCorrect
<1>. QED  BY <1>1, <1>2, <1>3, Invariance, PTL DEF Spec
============================================================================
