------------------------------ MODULE IsaProofs ------------------------------
(***************************************************************************)
(* Assembled, loaded and run, every program that keeps code, data and      *)
(* stack apart does what its lines say: Simulator implements Isa.          *)
(***************************************************************************)
EXTENDS SimulatorProofs

-----------------------------------------------------------------------------
\* Bits.

Bit(x, i) == (x \div Machine!Weight[i]) % 2

LEMMA Weights ==
  /\ DOMAIN Machine!Weight = 1 .. 16
  /\ Machine!Weight[1] = 1 /\ Machine!Weight[2] = 2 /\ Machine!Weight[3] = 4 /\ Machine!Weight[4] = 8
  /\ Machine!Weight[5] = 16 /\ Machine!Weight[6] = 32 /\ Machine!Weight[7] = 64 /\ Machine!Weight[8] = 128
  /\ Machine!Weight[9] = 256 /\ Machine!Weight[10] = 512 /\ Machine!Weight[11] = 1024 /\ Machine!Weight[12] = 2048
  /\ Machine!Weight[13] = 4096 /\ Machine!Weight[14] = 8192 /\ Machine!Weight[15] = 16384
  /\ Machine!Weight[16] = 32768
BY DEF Machine!Weight

LEMMA BitValues ==
  ASSUME NEW x \in Words
  PROVE  /\ Bit(x, 1) = x % 2 /\ Bit(x, 2) = (x \div 2) % 2 /\ Bit(x, 3) = (x \div 4) % 2
         /\ Bit(x, 4) = (x \div 8) % 2 /\ Bit(x, 5) = (x \div 16) % 2 /\ Bit(x, 6) = (x \div 32) % 2
         /\ Bit(x, 7) = (x \div 64) % 2 /\ Bit(x, 8) = (x \div 128) % 2 /\ Bit(x, 9) = (x \div 256) % 2
         /\ Bit(x, 10) = (x \div 512) % 2 /\ Bit(x, 11) = (x \div 1024) % 2 /\ Bit(x, 12) = (x \div 2048) % 2
         /\ Bit(x, 13) = (x \div 4096) % 2 /\ Bit(x, 14) = (x \div 8192) % 2
         /\ Bit(x, 15) = (x \div 16384) % 2 /\ Bit(x, 16) = x \div 32768
<1>1. x \div 1 = x /\ (x \div 32768) % 2 = x \div 32768
  BY DEF Words
<1> QED BY <1>1, Weights DEF Bit


Below(n) == 0 .. n - 1

\* AND of numbers that are put together of two parts.
LEMMA And2Parts ==
  ASSUME NEW a \in Below(2), NEW b \in Below(2), NEW c \in Below(2), NEW d \in Below(2)
  PROVE  And2(a + 2 * b, c + 2 * d) = And1(a, c) + 2 * And1(b, d)
<1>1. (a + 2 * b) % 2 = a /\ (a + 2 * b) \div 2 = b /\ (c + 2 * d) % 2 = c /\ (c + 2 * d) \div 2 = d
  BY DEF Below
<1> QED BY <1>1, Zenon DEF And2

LEMMA And4Parts ==
  ASSUME NEW a \in Below(4), NEW b \in Below(4), NEW c \in Below(4), NEW d \in Below(4)
  PROVE  And4(a + 4 * b, c + 4 * d) = And2(a, c) + 4 * And2(b, d)
<1>1. (a + 4 * b) % 4 = a /\ (a + 4 * b) \div 4 = b /\ (c + 4 * d) % 4 = c /\ (c + 4 * d) \div 4 = d
  BY DEF Below
<1> QED BY <1>1, Zenon DEF And4

LEMMA And8Parts ==
  ASSUME NEW a \in Below(16), NEW b \in Below(16), NEW c \in Below(16), NEW d \in Below(16)
  PROVE  And8(a + 16 * b, c + 16 * d) = And4(a, c) + 16 * And4(b, d)
<1>1. (a + 16 * b) % 16 = a /\ (a + 16 * b) \div 16 = b /\ (c + 16 * d) % 16 = c /\ (c + 16 * d) \div 16 = d
  BY DEF Below
<1> QED BY <1>1, Zenon DEF And8

LEMMA AndBytes ==
  ASSUME NEW a \in Below(256), NEW b \in Below(256), NEW c \in Below(256), NEW d \in Below(256)
  PROVE  And(a + 256 * b, c + 256 * d) = And8(a, c) + 256 * And8(b, d)
<1>1. (a + 256 * b) % 256 = a /\ (a + 256 * b) \div 256 = b
  BY DEF Below
<1>2. (c + 256 * d) % 256 = c /\ (c + 256 * d) \div 256 = d
  BY DEF Below
<1> QED BY <1>1, <1>2 DEF And

\* Numbers put together of bits, in the same way.
Pair(f, k) == f[k] + 2 * f[k + 1]
Nibble(f, k) == Pair(f, k) + 4 * Pair(f, k + 2)
Byte(f, k) == Nibble(f, k) + 16 * Nibble(f, k + 4)
Word(f) == Byte(f, 1) + 256 * Byte(f, 9)
BitLists == [1 .. 16 -> Below(2)]
Both(f, g) == [i \in 1 .. 16 |-> And1(f[i], g[i])]

LEMMA AndWord ==
  ASSUME NEW f \in BitLists, NEW g \in BitLists PROVE And(Word(f), Word(g)) = Word(Both(f, g))
<1> DEFINE h == Both(f, g)
<1>1. \A i \in 1 .. 16 : f[i] \in Below(2) /\ g[i] \in Below(2) /\ h[i] = And1(f[i], g[i])
  BY DEF BitLists, Both
<1> HIDE DEF h
<1>2. ASSUME NEW k \in 1 .. 15
      PROVE  Pair(f, k) \in Below(4) /\ Pair(g, k) \in Below(4) /\ And2(Pair(f, k), Pair(g, k)) = Pair(h, k)
  <2>1. k \in 1 .. 16 /\ k + 1 \in 1 .. 16
    OBVIOUS
  <2>2. /\ f[k] \in Below(2) /\ f[k + 1] \in Below(2) /\ g[k] \in Below(2) /\ g[k + 1] \in Below(2)
        /\ h[k] = And1(f[k], g[k]) /\ h[k + 1] = And1(f[k + 1], g[k + 1])
    BY <1>1, <2>1
  <2> DEFINE a == f[k]  b == f[k + 1]  c == g[k]  d == g[k + 1]
  <2> HIDE DEF a, b, c, d
  <2>4. a \in Below(2) /\ b \in Below(2) /\ c \in Below(2) /\ d \in Below(2)
    BY <2>2 DEF a, b, c, d
  <2>3. And2(a + 2 * b, c + 2 * d) = And1(a, c) + 2 * And1(b, d)
    BY <2>4, And2Parts
  <2> QED BY <2>2, <2>3 DEF Pair, Below, a, b, c, d
<1>3. ASSUME NEW k \in 1 .. 13
      PROVE  Nibble(f, k) \in Below(16) /\ Nibble(g, k) \in Below(16) /\ And4(Nibble(f, k), Nibble(g, k)) = Nibble(h, k)
  <2>1. k \in 1 .. 15 /\ k + 2 \in 1 .. 15
    OBVIOUS
  <2>2. /\ Pair(f, k) \in Below(4) /\ Pair(g, k) \in Below(4) /\ And2(Pair(f, k), Pair(g, k)) = Pair(h, k)
        /\ Pair(f, k + 2) \in Below(4) /\ Pair(g, k + 2) \in Below(4)
        /\ And2(Pair(f, k + 2), Pair(g, k + 2)) = Pair(h, k + 2)
    BY <1>2, <2>1
  <2> DEFINE a == Pair(f, k)  b == Pair(f, k + 2)  c == Pair(g, k)  d == Pair(g, k + 2)
  <2> HIDE DEF a, b, c, d
  <2>4. a \in Below(4) /\ b \in Below(4) /\ c \in Below(4) /\ d \in Below(4)
    BY <2>2 DEF a, b, c, d
  <2>3. And4(a + 4 * b, c + 4 * d) = And2(a, c) + 4 * And2(b, d)
    BY <2>4, And4Parts
  <2> QED BY <2>2, <2>3 DEF Nibble, Below, a, b, c, d
<1>4. ASSUME NEW k \in 1 .. 9
      PROVE  Byte(f, k) \in Below(256) /\ Byte(g, k) \in Below(256) /\ And8(Byte(f, k), Byte(g, k)) = Byte(h, k)
  <2>1. k \in 1 .. 13 /\ k + 4 \in 1 .. 13
    OBVIOUS
  <2>2. /\ Nibble(f, k) \in Below(16) /\ Nibble(g, k) \in Below(16) /\ And4(Nibble(f, k), Nibble(g, k)) = Nibble(h, k)
        /\ Nibble(f, k + 4) \in Below(16) /\ Nibble(g, k + 4) \in Below(16)
        /\ And4(Nibble(f, k + 4), Nibble(g, k + 4)) = Nibble(h, k + 4)
    BY <1>3, <2>1
  <2> DEFINE a == Nibble(f, k)  b == Nibble(f, k + 4)  c == Nibble(g, k)  d == Nibble(g, k + 4)
  <2> HIDE DEF a, b, c, d
  <2>4. a \in Below(16) /\ b \in Below(16) /\ c \in Below(16) /\ d \in Below(16)
    BY <2>2 DEF a, b, c, d
  <2>3. And8(a + 16 * b, c + 16 * d) = And4(a, c) + 16 * And4(b, d)
    BY <2>4, And8Parts
  <2> QED BY <2>2, <2>3 DEF Byte, Below, a, b, c, d
<1>5. /\ Byte(f, 1) \in Below(256) /\ Byte(g, 1) \in Below(256) /\ And8(Byte(f, 1), Byte(g, 1)) = Byte(h, 1)
      /\ Byte(f, 9) \in Below(256) /\ Byte(g, 9) \in Below(256) /\ And8(Byte(f, 9), Byte(g, 9)) = Byte(h, 9)
  BY <1>4
<1>6. And(Word(f), Word(g)) = Word(h)
  <2> DEFINE a == Byte(f, 1)  b == Byte(f, 9)  c == Byte(g, 1)  d == Byte(g, 9)
  <2> HIDE DEF a, b, c, d
  <2>2. a \in Below(256) /\ b \in Below(256) /\ c \in Below(256) /\ d \in Below(256)
    BY <1>5 DEF a, b, c, d
  <2>1. And(a + 256 * b, c + 256 * d) = And8(a, c) + 256 * And8(b, d)
    BY <2>2, AndBytes
  <2> QED BY <1>5, <2>1 DEF Word, a, b, c, d
<1> QED BY <1>6 DEF h

\* A word is put together of its bits.
BitsIn(x) == [i \in 1 .. 16 |-> Bit(x, i)]

LEMMA WordBits ==
  ASSUME NEW x \in Words PROVE BitsIn(x) \in BitLists /\ Word(BitsIn(x)) = x
<1> DEFINE f == BitsIn(x)
<1>1. x \in Nat /\ x < 65536
  BY DEF Words
<1> DEFINE q1 == x \div 2  q2 == x \div 4  q3 == x \div 8  q4 == x \div 16  q5 == x \div 32  q6 == x \div 64  q7 == x \div 128  q8 == x \div 256  q9 == x \div 512  q10 == x \div 1024  q11 == x \div 2048  q12 == x \div 4096  q13 == x \div 8192  q14 == x \div 16384  q15 == x \div 32768
<1>2. /\ f[1] = x % 2
      /\ f[2] = q1 % 2
      /\ f[3] = q2 % 2
      /\ f[4] = q3 % 2
      /\ f[5] = q4 % 2
      /\ f[6] = q5 % 2
      /\ f[7] = q6 % 2
      /\ f[8] = q7 % 2
      /\ f[9] = q8 % 2
      /\ f[10] = q9 % 2
      /\ f[11] = q10 % 2
      /\ f[12] = q11 % 2
      /\ f[13] = q12 % 2
      /\ f[14] = q13 % 2
      /\ f[15] = q14 % 2
      /\ f[16] = q15
  BY BitValues DEF BitsIn
<1>3. \A n \in Nat : n = (n % 2) + 2 * (n \div 2) /\ n % 2 \in 0 .. 1 /\ n \div 2 \in Nat
  OBVIOUS
<1>4. /\ x \div 2 = q1
      /\ q1 \div 2 = q2
      /\ q2 \div 2 = q3
      /\ q3 \div 2 = q4
      /\ q4 \div 2 = q5
      /\ q5 \div 2 = q6
      /\ q6 \div 2 = q7
      /\ q7 \div 2 = q8
      /\ q8 \div 2 = q9
      /\ q9 \div 2 = q10
      /\ q10 \div 2 = q11
      /\ q11 \div 2 = q12
      /\ q12 \div 2 = q13
      /\ q13 \div 2 = q14
      /\ q14 \div 2 = q15
  BY <1>1
<1>5. q15 \in 0 .. 1
  BY <1>1
<1> HIDE DEF q1, q2, q3, q4, q5, q6, q7, q8, q9, q10, q11, q12, q13, q14, q15
<1>6. /\ q1 \in Nat /\ x = f[1] + 2 * q1 /\ f[1] \in 0 .. 1
  BY <1>1, <1>2, <1>3, <1>4
<1>7. q2 \in Nat /\ q1 = f[2] + 2 * q2 /\ f[2] \in 0 .. 1
  BY <1>6, <1>2, <1>3, <1>4
<1>8. q3 \in Nat /\ q2 = f[3] + 2 * q3 /\ f[3] \in 0 .. 1
  BY <1>7, <1>2, <1>3, <1>4
<1>9. q4 \in Nat /\ q3 = f[4] + 2 * q4 /\ f[4] \in 0 .. 1
  BY <1>8, <1>2, <1>3, <1>4
<1>10. q5 \in Nat /\ q4 = f[5] + 2 * q5 /\ f[5] \in 0 .. 1
  BY <1>9, <1>2, <1>3, <1>4
<1>11. q6 \in Nat /\ q5 = f[6] + 2 * q6 /\ f[6] \in 0 .. 1
  BY <1>10, <1>2, <1>3, <1>4
<1>12. q7 \in Nat /\ q6 = f[7] + 2 * q7 /\ f[7] \in 0 .. 1
  BY <1>11, <1>2, <1>3, <1>4
<1>13. q8 \in Nat /\ q7 = f[8] + 2 * q8 /\ f[8] \in 0 .. 1
  BY <1>12, <1>2, <1>3, <1>4
<1>14. q9 \in Nat /\ q8 = f[9] + 2 * q9 /\ f[9] \in 0 .. 1
  BY <1>13, <1>2, <1>3, <1>4
<1>15. q10 \in Nat /\ q9 = f[10] + 2 * q10 /\ f[10] \in 0 .. 1
  BY <1>14, <1>2, <1>3, <1>4
<1>16. q11 \in Nat /\ q10 = f[11] + 2 * q11 /\ f[11] \in 0 .. 1
  BY <1>15, <1>2, <1>3, <1>4
<1>17. q12 \in Nat /\ q11 = f[12] + 2 * q12 /\ f[12] \in 0 .. 1
  BY <1>16, <1>2, <1>3, <1>4
<1>18. q13 \in Nat /\ q12 = f[13] + 2 * q13 /\ f[13] \in 0 .. 1
  BY <1>17, <1>2, <1>3, <1>4
<1>19. q14 \in Nat /\ q13 = f[14] + 2 * q14 /\ f[14] \in 0 .. 1
  BY <1>18, <1>2, <1>3, <1>4
<1>20. q15 \in Nat /\ q14 = f[15] + 2 * q15 /\ f[15] \in 0 .. 1
  BY <1>19, <1>2, <1>3, <1>4
<1>21. f[16] = q15 /\ f[16] \in 0 .. 1
  BY <1>2, <1>5
<1>22. x = Byte(f, 1) + 256 * q8
  <2>1. /\ x = Pair(f, 1) + 4 * q2 /\ Pair(f, 1) \in Nat
    BY <1>6, <1>7 DEF Pair
  <2>2. q2 = Pair(f, 3) + 4 * q4 /\ Pair(f, 3) \in Nat
    BY <1>8, <1>9 DEF Pair
  <2>3. q4 = Pair(f, 5) + 4 * q6 /\ Pair(f, 5) \in Nat
    BY <1>10, <1>11 DEF Pair
  <2>4. q6 = Pair(f, 7) + 4 * q8 /\ Pair(f, 7) \in Nat /\ q8 \in Nat
    BY <1>12, <1>13 DEF Pair
  <2>5. q4 = Nibble(f, 5) + 16 * q8 /\ Nibble(f, 5) \in Nat
    BY <2>3, <2>4 DEF Nibble
  <2>6. x = Nibble(f, 1) + 16 * q4 /\ Nibble(f, 1) \in Nat
    BY <2>1, <2>2, <2>3, <2>4 DEF Nibble
  <2> QED BY <2>4, <2>5, <2>6 DEF Byte
<1>23. q8 = Byte(f, 9)
  <2>1. q8 = Pair(f, 9) + 4 * q10 /\ Pair(f, 9) \in Nat
    BY <1>14, <1>15 DEF Pair
  <2>2. q10 = Pair(f, 11) + 4 * q12 /\ Pair(f, 11) \in Nat
    BY <1>16, <1>17 DEF Pair
  <2>3. q12 = Pair(f, 13) + 4 * q14 /\ Pair(f, 13) \in Nat
    BY <1>18, <1>19 DEF Pair
  <2>4. q14 = Pair(f, 15) /\ Pair(f, 15) \in Nat
    BY <1>20, <1>21 DEF Pair
  <2>5. q12 = Nibble(f, 13) /\ Nibble(f, 13) \in Nat
    BY <2>3, <2>4 DEF Nibble
  <2>6. q8 = Nibble(f, 9) + 16 * q12 /\ Nibble(f, 9) \in Nat
    BY <2>1, <2>2, <2>3, <2>4 DEF Nibble
  <2> QED BY <2>5, <2>6 DEF Byte
<1>24. Word(f) = x
  BY <1>22, <1>23 DEF Word
<1>25. f \in BitLists
  <2>1. \A i \in 1 .. 16 : Bit(x, i) \in 0 .. 1
    <3> SUFFICES ASSUME NEW i \in 1 .. 16 PROVE Bit(x, i) \in 0 .. 1
      OBVIOUS
    <3>1. x \div Machine!Weight[i] \in Nat
      BY <1>1, Weights
    <3> QED BY <3>1 DEF Bit
  <2> QED BY <2>1 DEF BitsIn, BitLists, Below
<1> QED BY <1>24, <1>25 DEF f

\* The list of the bits of a set.
ListOf(bits) == [i \in 1 .. 16 |-> IF i \in bits THEN 1 ELSE 0]

LEMMA ListType ==
  ASSUME NEW bits
  PROVE  ListOf(bits) \in BitLists /\ \A i \in 1 .. 16 : ListOf(bits)[i] = IF i \in bits THEN 1 ELSE 0
<1>1. 0 \in Below(2) /\ 1 \in Below(2)
  BY DEF Below
<1> QED BY <1>1 DEF ListOf, BitLists

\* The sum of the weights of a set of bits is the word put together of them.
LEMMA SumOfBits ==
  ASSUME NEW bits PROVE Machine!FromBits(bits) = Word(ListOf(bits))
<1> DEFINE w(i) == IF i \in bits THEN Machine!Weight[i] ELSE 0
           step == [a \in (1 .. 16) \X Nat |-> a[2] + w(a[1])]
           Body(g) == [i \in 0 .. 16 |-> IF i = 0 THEN 0 ELSE g[i - 1] + IF i \in bits THEN Machine!Weight[i] ELSE 0]
           f == ListOf(bits)
<1>1. \A i \in 1 .. 16 : w(i) \in Nat
  BY Weights
<1>2. step \in [(1 .. 16) \X Nat -> Nat]
  <2> HIDE DEF w
  <2> QED BY <1>1
<1>3. PICK g : Turns(g, 16, Nat, 0, step)
  <2> HIDE DEF step
  <2> QED BY <1>2, Recursion
<1>4. g \in [0 .. 16 -> Nat] /\ g[0] = 0 /\ \A k \in 1 .. 16 : g[k] = step[<<k, g[k - 1]>>]
  BY <1>3 DEF Turns
<1>5. ASSUME NEW k \in 1 .. 16 PROVE g[k] = g[k - 1] + w(k)
  <2>1. k - 1 \in 0 .. 16 /\ g[k - 1] \in Nat
    BY <1>4
  <2> HIDE DEF w
  <2>2. step[<<k, g[k - 1]>>] = g[k - 1] + w(k)
    BY <2>1
  <2> QED BY <1>4, <2>2
<1>6. g = Body(g)
  BY <1>4, <1>5
<1> DEFINE sum == CHOOSE h : h = Body(h)
<1>7. sum = Body(sum)
  <2> HIDE DEF Body
  <2> QED BY <1>6
<1>8. Machine!FromBits(bits) = sum[16]
  BY DEF Machine!FromBits
<1> HIDE DEF sum
<1>9. sum[0] = 0 /\ \A k \in 1 .. 16 : sum[k] = sum[k - 1] + w(k)
  BY <1>7
<1>10. \A i \in 1 .. 16 : f[i] \in 0 .. 1 /\ w(i) = f[i] * Machine!Weight[i]
  BY ListType, Weights DEF BitLists, Below
<1> HIDE DEF w, f
<1>22. sum[1] = f[1] /\ f[1] \in Nat
  <2>1. sum[1] = sum[0] + w(1) /\ w(1) = f[1] * Machine!Weight[1] /\ f[1] \in 0 .. 1
    BY <1>9, <1>10
  <2> QED BY <1>9, <2>1, Weights
<1>11. /\ sum[2] = sum[1] + 2 * f[2] /\ f[2] \in Nat
       /\ sum[3] = sum[2] + 4 * f[3] /\ f[3] \in Nat /\ sum[4] = sum[3] + 8 * f[4] /\ f[4] \in Nat
  BY <1>9, <1>10, Weights
<1>12. /\ sum[5] = sum[4] + 16 * f[5] /\ f[5] \in Nat /\ sum[6] = sum[5] + 32 * f[6] /\ f[6] \in Nat
       /\ sum[7] = sum[6] + 64 * f[7] /\ f[7] \in Nat /\ sum[8] = sum[7] + 128 * f[8] /\ f[8] \in Nat
  BY <1>9, <1>10, Weights
<1>13. /\ sum[9] = sum[8] + 256 * f[9] /\ f[9] \in Nat /\ sum[10] = sum[9] + 512 * f[10] /\ f[10] \in Nat
       /\ sum[11] = sum[10] + 1024 * f[11] /\ f[11] \in Nat /\ sum[12] = sum[11] + 2048 * f[12] /\ f[12] \in Nat
  BY <1>9, <1>10, Weights
<1>14. sum[13] = sum[12] + 4096 * f[13] /\ f[13] \in Nat /\ sum[14] = sum[13] + 8192 * f[14] /\ f[14] \in Nat
  BY <1>9, <1>10, Weights
<1>20. sum[15] = sum[14] + 16384 * f[15] /\ f[15] \in Nat
  BY <1>9, <1>10, Weights
<1>21. sum[16] = sum[15] + 32768 * f[16] /\ f[16] \in Nat
  BY <1>9, <1>10, Weights
<1>15. sum[4] = Nibble(f, 1) /\ sum[4] \in Nat
  BY <1>11, <1>22 DEF Nibble, Pair
<1>16. sum[8] = Byte(f, 1) /\ sum[8] \in Nat
  BY <1>12, <1>15 DEF Byte, Nibble, Pair
<1>17. sum[12] = sum[8] + 256 * Nibble(f, 9) /\ Nibble(f, 9) \in Nat
  BY <1>13, <1>16 DEF Nibble, Pair
<1>18. sum[16] = sum[12] + 4096 * Nibble(f, 13) /\ Nibble(f, 13) \in Nat
  BY <1>14, <1>20, <1>21, <1>16, <1>17 DEF Nibble, Pair
<1>19. sum[16] = Word(f)
  BY <1>16, <1>17, <1>18 DEF Word, Byte
<1> QED BY <1>8, <1>19 DEF f

LEMMA WordAdds ==
  ASSUME NEW f \in BitLists, NEW g \in BitLists, NEW u \in BitLists, NEW v \in BitLists,
         \A i \in 1 .. 16 : u[i] + v[i] = f[i] + g[i]
  PROVE  Word(u) + Word(v) = Word(f) + Word(g)
<1>1. \A i \in 1 .. 16 : f[i] \in Nat /\ g[i] \in Nat /\ u[i] \in Nat /\ v[i] \in Nat
  BY DEF BitLists, Below
<1>2. ASSUME NEW k \in 1 .. 15
      PROVE  /\ Pair(f, k) \in Nat /\ Pair(g, k) \in Nat /\ Pair(u, k) \in Nat /\ Pair(v, k) \in Nat
             /\ Pair(u, k) + Pair(v, k) = Pair(f, k) + Pair(g, k)
  <2>1. k \in 1 .. 16 /\ k + 1 \in 1 .. 16
    OBVIOUS
  <2>2. u[k] + v[k] = f[k] + g[k] /\ u[k + 1] + v[k + 1] = f[k + 1] + g[k + 1]
    BY <2>1
  <2>3. f[k] \in Nat /\ g[k] \in Nat /\ u[k] \in Nat /\ v[k] \in Nat
    BY <1>1, <2>1
  <2>4. f[k + 1] \in Nat /\ g[k + 1] \in Nat /\ u[k + 1] \in Nat /\ v[k + 1] \in Nat
    BY <1>1, <2>1
  <2> QED BY <2>2, <2>3, <2>4 DEF Pair
<1>3. ASSUME NEW k \in 1 .. 13
      PROVE  /\ Nibble(f, k) \in Nat /\ Nibble(g, k) \in Nat /\ Nibble(u, k) \in Nat /\ Nibble(v, k) \in Nat
             /\ Nibble(u, k) + Nibble(v, k) = Nibble(f, k) + Nibble(g, k)
  <2>1. k \in 1 .. 15 /\ k + 2 \in 1 .. 15
    OBVIOUS
  <2>2. /\ Pair(f, k) \in Nat /\ Pair(g, k) \in Nat /\ Pair(u, k) \in Nat /\ Pair(v, k) \in Nat
        /\ Pair(u, k) + Pair(v, k) = Pair(f, k) + Pair(g, k)
    BY <1>2, <2>1
  <2>3. /\ Pair(f, k + 2) \in Nat /\ Pair(g, k + 2) \in Nat /\ Pair(u, k + 2) \in Nat /\ Pair(v, k + 2) \in Nat
        /\ Pair(u, k + 2) + Pair(v, k + 2) = Pair(f, k + 2) + Pair(g, k + 2)
    BY <1>2, <2>1
  <2> QED BY <2>2, <2>3 DEF Nibble
<1>4. ASSUME NEW k \in 1 .. 9
      PROVE  /\ Byte(f, k) \in Nat /\ Byte(g, k) \in Nat /\ Byte(u, k) \in Nat /\ Byte(v, k) \in Nat
             /\ Byte(u, k) + Byte(v, k) = Byte(f, k) + Byte(g, k)
  <2>1. k \in 1 .. 13 /\ k + 4 \in 1 .. 13
    OBVIOUS
  <2> QED BY <1>3, <2>1 DEF Byte
<1> QED BY <1>4 DEF Word

\* The emulator's AND, OR and XOR are those of sets of bits.
LEMMA BitwiseSets ==
  ASSUME NEW x \in Words, NEW y \in Words
  PROVE  LET both == Machine!BitsOf(x) \cap Machine!BitsOf(y)
             any == Machine!BitsOf(x) \cup Machine!BitsOf(y)
         IN /\ And(x, y) = Machine!FromBits(both)
            /\ Or(x, y) = Machine!FromBits(any)
            /\ Xor(x, y) = Machine!FromBits(any) - Machine!FromBits(both)
<1> DEFINE both == Machine!BitsOf(x) \cap Machine!BitsOf(y)
           any == Machine!BitsOf(x) \cup Machine!BitsOf(y)
           f == BitsIn(x)  g == BitsIn(y)  u == ListOf(any)  v == ListOf(both)
<1>1. f \in BitLists /\ g \in BitLists /\ Word(f) = x /\ Word(g) = y
  BY WordBits
<1>2. u \in BitLists /\ v \in BitLists
  BY ListType
<1>3. ASSUME NEW i \in 1 .. 16
      PROVE  /\ f[i] = (IF i \in Machine!BitsOf(x) THEN 1 ELSE 0)
             /\ g[i] = (IF i \in Machine!BitsOf(y) THEN 1 ELSE 0)
  <2>1. f[i] = Bit(x, i) /\ g[i] = Bit(y, i)
    BY DEF BitsIn
  <2>2. f[i] \in 0 .. 1 /\ g[i] \in 0 .. 1
    BY <1>1 DEF BitLists, Below
  <2>3. (i \in Machine!BitsOf(x) <=> f[i] = 1) /\ (i \in Machine!BitsOf(y) <=> g[i] = 1)
    BY <2>1 DEF Machine!BitsOf, Bit
  <2> QED BY <2>2, <2>3
<1>4. ASSUME NEW i \in 1 .. 16
      PROVE  u[i] + v[i] = f[i] + g[i] /\ v[i] = And1(f[i], g[i])
  <2>1. u[i] = (IF i \in any THEN 1 ELSE 0) /\ v[i] = (IF i \in both THEN 1 ELSE 0)
    BY ListType
  <2> HIDE DEF f, g, u, v
  <2> QED BY <1>3, <2>1 DEF And1
<1> HIDE DEF f, g, u
<1>5. v = Both(f, g)
  <2>1. v = [i \in 1 .. 16 |-> v[i]]
    BY DEF ListOf
  <2> HIDE DEF v
  <2> QED BY <1>4, <2>1 DEF Both
<1> HIDE DEF v
<1>6. And(x, y) = Word(v)
  BY <1>1, <1>5, AndWord
<1>7. Word(u) + Word(v) = x + y
  BY <1>1, <1>2, <1>4, WordAdds
<1>8. Machine!FromBits(both) = Word(v) /\ Machine!FromBits(any) = Word(u)
  BY SumOfBits DEF u, v
<1>9. Word(u) \in Int /\ Word(v) \in Int /\ x \in Int /\ y \in Int
  <2>1. \A h \in BitLists : Word(h) \in Int
    <3> SUFFICES ASSUME NEW h \in BitLists PROVE Word(h) \in Int
      OBVIOUS
    <3>1. \A i \in 1 .. 16 : h[i] \in Int
      BY DEF BitLists, Below
    <3> QED BY <3>1 DEF Word, Byte, Nibble, Pair
  <2> QED BY <1>2, <2>1 DEF Words
<1> HIDE DEF both, any
<1>10. Or(x, y) = Word(u) /\ Xor(x, y) = Word(u) - Word(v)
  BY <1>6, <1>7, <1>9 DEF Or, Xor
<1> QED BY <1>6, <1>8, <1>10 DEF both, any

\* A shift by less than 16 divides by the weight of a bit.
LEMMA HalfWeights ==
  ASSUME NEW x \in Words
  PROVE  /\ \A k \in 1 .. 15 : (x \div Machine!Weight[k]) \div 2 = x \div Machine!Weight[k + 1]
         /\ (x \div Machine!Weight[16]) \div 2 = 0
<1>1. x \in Nat /\ x < 65536
  BY DEF Words
<1>2. /\ (x \div 1) \div 2 = x \div 2 /\ (x \div 2) \div 2 = x \div 4 /\ (x \div 4) \div 2 = x \div 8
      /\ (x \div 8) \div 2 = x \div 16 /\ (x \div 16) \div 2 = x \div 32 /\ (x \div 32) \div 2 = x \div 64
  BY <1>1
<1>3. /\ (x \div 64) \div 2 = x \div 128 /\ (x \div 128) \div 2 = x \div 256
      /\ (x \div 256) \div 2 = x \div 512 /\ (x \div 512) \div 2 = x \div 1024
  BY <1>1
<1>4. /\ (x \div 1024) \div 2 = x \div 2048 /\ (x \div 2048) \div 2 = x \div 4096
      /\ (x \div 4096) \div 2 = x \div 8192 /\ (x \div 8192) \div 2 = x \div 16384
  BY <1>1
<1>5. (x \div 16384) \div 2 = x \div 32768 /\ (x \div 32768) \div 2 = 0
  BY <1>1
<1>6. ASSUME NEW k \in 1 .. 15 PROVE (x \div Machine!Weight[k]) \div 2 = x \div Machine!Weight[k + 1]
  <2>1. \/ k = 1 \/ k = 2 \/ k = 3 \/ k = 4 \/ k = 5 \/ k = 6 \/ k = 7 \/ k = 8
        \/ k = 9 \/ k = 10 \/ k = 11 \/ k = 12 \/ k = 13 \/ k = 14 \/ k = 15
    OBVIOUS
  <2> DEFINE half(m) == (x \div Machine!Weight[m]) \div 2 = x \div Machine!Weight[m + 1]
  <2>2. half(1) /\ half(2) /\ half(3) /\ half(4) /\ half(5)
    BY <1>2, Weights
  <2>3. half(6) /\ half(7) /\ half(8) /\ half(9) /\ half(10)
    BY <1>2, <1>3, Weights
  <2>4. half(11) /\ half(12) /\ half(13) /\ half(14) /\ half(15)
    BY <1>4, <1>5, Weights
  <2> HIDE DEF half
  <2>5. half(k)
    BY <2>1, <2>2, <2>3, <2>4
  <2> QED BY <2>5 DEF half
<1> QED BY <1>5, <1>6, Weights

LEMMA ShiftDivides ==
  ASSUME NEW x \in Words, NEW n \in Nat
  PROVE  RightShift(x, n) = IF n < 16 THEN x \div Machine!Weight[n + 1] ELSE 0
<1> DEFINE value_(k) == IF k < 16 THEN x \div Machine!Weight[k + 1] ELSE 0
<1>1. PICK g : g[0] = x /\ RightShift(x, n) = g[n] /\ \A k \in 1 .. n : g[k] = g[k - 1] \div 2
  BY ShiftRuns
<1> DEFINE T == {k \in 0 .. n : g[k] = value_(k)}
<1>2. 0 \in T
  <2>1. x \div 1 = x
    BY DEF Words
  <2> QED BY <1>1, <2>1, Weights
<1>3. ASSUME NEW k \in 1 .. n, k - 1 \in T PROVE k \in T
  <2>1. g[k - 1] = value_(k - 1) /\ g[k] = g[k - 1] \div 2 /\ (k - 1) + 1 = k
    BY <1>1, <1>3
  <2>2. CASE k < 16
    <3>1. k \in 1 .. 15 /\ value_(k - 1) = x \div Machine!Weight[k] /\ value_(k) = x \div Machine!Weight[k + 1]
      BY <2>1, <2>2
    <3> QED BY <2>1, <3>1, HalfWeights
  <2>3. CASE k = 16
    <3>1. value_(k - 1) = x \div Machine!Weight[16] /\ value_(k) = 0
      BY <2>1, <2>3
    <3> QED BY <2>1, <3>1, HalfWeights
  <2>4. CASE k > 16
    <3>1. value_(k - 1) = 0 /\ value_(k) = 0
      BY <2>4
    <3> QED BY <2>1, <3>1
  <2> QED BY <2>2, <2>3, <2>4
<1>4. 0 .. n \subseteq T
  <2> HIDE DEF T
  <2> QED BY <1>2, <1>3, RangeInduction
<1> QED BY <1>1, <1>4

\* Whatever the ALU may compute, the instruction set allows.
LEMMA ResultsAllowed ==
  ASSUME MachineOK, NEW name, op \in 0 .. 7, alu_ops[op + 1] = name, NEW res \in results
  PROVE  res \in Machine!Results(name, R[ra], R[rb])
<1> DEFINE x == R[ra]  y == R[rb]
<1>1. x \in Words /\ y \in Words
  BY InstructionParts
<1> DEFINE both == Machine!FromBits(Machine!BitsOf(x) \cap Machine!BitsOf(y))
           any == Machine!FromBits(Machine!BitsOf(x) \cup Machine!BitsOf(y))
           shifted == IF y < 16 THEN {x \div Machine!Weight[y + 1]} ELSE IF y < 32 THEN {0} ELSE 0 .. x
<1>2. And(x, y) = both /\ Or(x, y) = any /\ Xor(x, y) = any - both
  BY <1>1, BitwiseSets
<1>3. Shifted(x, y) \subseteq shifted
  <2>1. y \in Nat /\ y < 65536 /\ x \in Nat
    BY <1>1 DEF Words
  <2>2. CASE y < 32
    <3>1. Shifted(x, y) = {RightShift(x, y)}
      BY <2>2 DEF Shifted
    <3> HIDE DEF x, y
    <3>2. RightShift(x, y) = IF y < 16 THEN x \div Machine!Weight[y + 1] ELSE 0
      BY <1>1, <2>1, ShiftDivides
    <3> QED BY <2>2, <3>1, <3>2
  <2>3. CASE ~(y < 32)
    <3>1. Shifted(x, y) = {RightShift(x, y % 32), 0}
      BY <2>3 DEF Shifted
    <3>2. y % 32 \in Nat
      BY <2>1
    <3> HIDE DEF x, y
    <3>3. RightShift(x, y % 32) \in 0 .. x /\ 0 \in 0 .. x
      BY <1>1, <2>1, <3>2, ShiftBounds
    <3>4. shifted = 0 .. x
      BY <2>1, <2>3
    <3> QED BY <3>1, <3>3, <3>4
  <2> QED BY <2>2, <2>3
<1>4. results = CASE op = 0 -> {Wrap(x + y)} [] op \in {1, 6} -> {Wrap(x - y)}
                  [] op = 2 -> {And(x, y)} [] op = 3 -> {Or(x, y)} [] op = 4 -> {Xor(x, y)}
                  [] op = 5 -> Shifted(x, y) [] op = 7 -> {x}
  BY DEF results
<1>5. Machine!Results(name, x, y) =
        CASE name = "ADD" -> {(x + y) % 65536} [] name \in {"SUB", "CMP"} -> {(x - y) % 65536}
          [] name = "AND" -> {both} [] name = "OR" -> {any} [] name = "XOR" -> {any - both}
          [] name = "RSHIFT" -> shifted [] name = "TEST" -> {x}
  BY DEF Machine!Results, Machine!word
<1>6. /\ alu_ops[1] = "ADD" /\ alu_ops[2] = "SUB" /\ alu_ops[3] = "AND" /\ alu_ops[4] = "OR"
      /\ alu_ops[5] = "XOR" /\ alu_ops[6] = "RSHIFT" /\ alu_ops[7] = "CMP" /\ alu_ops[8] = "TEST"
  BY DEF alu_ops
<1>7. Wrap(x + y) = (x + y) % 65536 /\ Wrap(x - y) = (x - y) % 65536
  BY DEF Wrap
<1> DEFINE sum == (x + y) % 65536  difference == (x - y) % 65536
<1> HIDE DEF x, y, both, any, shifted, sum, difference
<1>11. Wrap(x + y) = sum /\ Wrap(x - y) = difference
  BY <1>7 DEF sum, difference
<1> DEFINE o == op  difference2 == any - both
<1> HIDE DEF o, difference2
<1>12. Xor(x, y) = difference2
  BY <1>2 DEF difference2
<1>13. results = CASE o = 0 -> {sum} [] o \in {1, 6} -> {difference}
                  [] o = 2 -> {both} [] o = 3 -> {any} [] o = 4 -> {difference2}
                  [] o = 5 -> Shifted(x, y) [] o = 7 -> {x}
  BY <1>2, <1>4, <1>11, <1>12, Zenon DEF o
<1>8. results = CASE op = 0 -> {sum} [] op \in {1, 6} -> {difference}
                  [] op = 2 -> {both} [] op = 3 -> {any} [] op = 4 -> {any - both}
                  [] op = 5 -> Shifted(x, y) [] op = 7 -> {x}
  BY <1>13, Zenon DEF o, difference2
<1>9. Machine!Results(name, x, y) =
        CASE name = "ADD" -> {sum} [] name \in {"SUB", "CMP"} -> {difference}
          [] name = "AND" -> {both} [] name = "OR" -> {any} [] name = "XOR" -> {any - both}
          [] name = "RSHIFT" -> shifted [] name = "TEST" -> {x}
  BY <1>5 DEF sum, difference
<1>10. results \subseteq Machine!Results(name, x, y)
  <2>1. op = 0 => name = "ADD" /\ results = {sum}
    BY <1>6, <1>8
  <2>2. op = 1 => name = "SUB" /\ results = {difference}
    BY <1>6, <1>8
  <2>3. op = 2 => name = "AND" /\ results = {both}
    BY <1>6, <1>8
  <2>4. op = 3 => name = "OR" /\ results = {any}
    BY <1>6, <1>8
  <2>5. op = 4 => name = "XOR" /\ results = {any - both}
    BY <1>6, <1>8
  <2>6. op = 5 => name = "RSHIFT" /\ results = Shifted(x, y)
    BY <1>6, <1>8
  <2>7. op = 6 => name = "CMP" /\ results = {difference}
    BY <1>6, <1>8
  <2>8. op = 7 => name = "TEST" /\ results = {x}
    BY <1>6, <1>8
  <2>9. op = 0 \/ op = 1 \/ op = 2 \/ op = 3 \/ op = 4 \/ op = 5 \/ op = 6 \/ op = 7
    OBVIOUS
  <2> QED BY <1>3, <1>9, <2>1, <2>2, <2>3, <2>4, <2>5, <2>6, <2>7, <2>8, <2>9
<1> QED BY <1>10 DEF x, y

-----------------------------------------------------------------------------
\* The instruction to carry out.

\* The abstract machine reads the same listing.
LEMMA SameAddresses == \A p : Machine!Addresses(p) = Addresses(p)
BY Zenon DEF Machine!Addresses, Addresses, Machine!Size, Size, Machine!IsInstruction, IsInstruction,
       Machine!Directives, Directives, Machine!Long, Long, Machine!DataBytes, DataBytes, Machine!NoName, NoName

LEMMA SameListing ==
  /\ \A l : Machine!Size(l) = Size(l) /\ (Machine!IsInstruction(l) <=> IsInstruction(l))
  /\ \A p, addr : Machine!LineAt(p, addr) = LineAt(p, addr)
  /\ \A p, l : Machine!Operand(p, l) = Operand(p, l)
  /\ \A p : Machine!Code(p) = Code(p)
  /\ \A p, addr : Machine!InitialByte(p, addr) = InitialByte(p, addr)
<1>1. \A l : Machine!Size(l) = Size(l) /\ (Machine!IsInstruction(l) <=> IsInstruction(l)) /\ Machine!DataBytes(l) = DataBytes(l)
  BY Zenon DEF Machine!Size, Size, Machine!IsInstruction, IsInstruction,
       Machine!Directives, Directives, Machine!Long, Long, Machine!DataBytes, DataBytes, Machine!NoName, NoName
<1>2. \A p, addr : Machine!LineAt(p, addr) = LineAt(p, addr)
  BY Zenon DEF Machine!LineAt, LineAt, Machine!Size, Size, Machine!IsInstruction, IsInstruction,
       Machine!Directives, Directives, Machine!Long, Long, Machine!DataBytes, DataBytes, Machine!NoName, NoName,
       Machine!Addresses, Addresses
<1>3. \A p, l : Machine!Operand(p, l) = Operand(p, l)
  BY Zenon DEF Machine!Operand, Operand, Machine!Meaning, Meaning, Machine!Defines, Defines, Machine!Size, Size, Machine!IsInstruction, IsInstruction,
       Machine!Directives, Directives, Machine!Long, Long, Machine!DataBytes, DataBytes, Machine!NoName, NoName,
       Machine!Addresses, Addresses
<1>4. \A p : Machine!Code(p) = Code(p)
  BY <1>1, SameAddresses DEF Machine!Code, Code
<1>5. ASSUME NEW p, NEW addr PROVE Machine!InitialByte(p, addr) = InitialByte(p, addr)
  <2> DEFINE A == Addresses(p)  MA == Machine!Addresses(p)
             lines == {i \in DOMAIN p : addr \in A[i] .. A[i] + Len(DataBytes(p[i])) - 1}
             theirs == {i \in DOMAIN p : addr \in MA[i] .. MA[i] + Len(Machine!DataBytes(p[i])) - 1}
             first == CHOOSE i \in lines : TRUE
             their == CHOOSE i \in theirs : TRUE
  <2>1. InitialByte(p, addr) = IF lines = {} THEN 0 ELSE DataBytes(p[first])[addr - A[first] + 1]
    BY DEF InitialByte
  <2>2. Machine!InitialByte(p, addr) = IF theirs = {} THEN 0 ELSE Machine!DataBytes(p[their])[addr - MA[their] + 1]
    BY DEF Machine!InitialByte
  <2>3. MA = A
    BY SameAddresses
  <2> HIDE DEF A, MA
  <2>4. \A i \in DOMAIN p : Machine!DataBytes(p[i]) = DataBytes(p[i])
    BY <1>1
  <2>5. theirs = lines
    BY <2>3, <2>4
  <2>6. their = first
    BY <2>5
  <2> HIDE DEF lines, theirs, first, their
  <2>7. Machine!DataBytes(p[first]) = DataBytes(p[first])
    BY <1>1
  <2> QED BY <2>1, <2>2, <2>3, <2>5, <2>6, <2>7
<1> QED BY <1>1, <1>2, <1>3, <1>4, <1>5

-----------------------------------------------------------------------------
\* The instruction at PC is that of a line.
LEMMA AtInstruction ==
  ASSUME AssemblerOK, Safe, WordsKept, phase = "run", AtLine # 0
  PROVE  LET l == program[AtLine] IN
         /\ AtLine \in DOMAIN program /\ IsInstruction(l) /\ Accepted(l) /\ l.op \in Mnemonics
         /\ Addresses(program)[AtLine] = PC
         /\ insn = insn_word(l)
         /\ Long(l) => operand = Operand(program, l)
         /\ Long(l) => PC + 3 \in Words /\ {PC + 2, PC + 3} \subseteq Code(program)
         /\ {PC, PC + 1} \subseteq Code(program)
         /\ Machine!following = Wrap(PC + IF Long(l) THEN 4 ELSE 2)
<1> DEFINE i == AtLine  l == program[i]
<1>1. i \in DOMAIN program /\ IsInstruction(l) /\ Addresses(program)[i] = PC
  BY DEF LineAt, AtLine
<1>2. Machine!following = (Addresses(program)[i] + Size(l)) % 65536
  BY SameAddresses, SameListing DEF Machine!following, Machine!word, Machine!l
<1> HIDE DEF i
<1>3. insn = insn_word(l) /\ (Long(l) => WordIn(memory, PC + 2) = Operand(program, l))
  BY <1>1 DEF WordsKept, CodeOK, insn, load2
<1>4. Accepted(l)
  BY <1>1 DEF AssemblerOK, Program
<1>5. l.op \in Mnemonics
  BY <1>1, <1>4, OperationType
<1>6. Size(l) = IF Long(l) THEN 4 ELSE 2
  BY <1>1 DEF Size
<1>7. Place(program, i) \subseteq Code(program)
  BY <1>1 DEF Place, Code
<1>8. /\ PC \in Nat /\ {PC, PC + 1} \subseteq Place(program, i)
      /\ Long(l) => {PC + 2, PC + 3} \subseteq Place(program, i)
      /\ Place(program, i) \subseteq Words
  BY <1>1, InstructionPlace
<1>9. Long(l) => operand = Operand(program, l)
  <2> SUFFICES ASSUME Long(l) PROVE operand = Operand(program, l)
    OBVIOUS
  <2>1. PC \in Nat /\ PC + 3 \in Words
    BY <1>8
  <2>2. Wrap(PC + 2) = PC + 2
    BY <2>1 DEF Wrap, Words
  <2> QED BY <1>3, <2>2 DEF operand, load2
<1>10. Machine!following = Wrap(PC + IF Long(l) THEN 4 ELSE 2)
  BY <1>1, <1>2, <1>6 DEF Wrap
<1>11. /\ Long(l) => PC + 3 \in Words /\ {PC + 2, PC + 3} \subseteq Code(program)
       /\ {PC, PC + 1} \subseteq Code(program)
  BY <1>7, <1>8
<1> QED BY <1>1, <1>3, <1>4, <1>5, <1>9, <1>10, <1>11 DEF i

\* The operation's number, and the register of an instruction that has one.
Number(l) ==
  CASE l.op = "SET" -> 1 [] l.op = "LOAD" -> 2 [] l.op = "STORE" -> 3 [] l.op = "MOVE" -> 4
    [] l.op = "ALU" -> 5 [] l.op = "JMP" -> IF l.rel THEN 7 ELSE 6
    [] l.op = "CALL" -> IF l.rel THEN 9 ELSE 8 [] l.op = "RET" -> 10 [] l.op = "PUSH" -> 11
    [] l.op = "POP" -> 12 [] l.op = "IN" -> 13 [] l.op = "OUT" -> 14 [] OTHER -> 15

LEMMA PlainBits ==
  ASSUME NEW code \in 1 .. 15, NEW x \in 0 .. 7, NEW w, w = 4096 * code + x
  PROVE  w \div 4096 = code /\ w % 8 = x
<1>1. w \div 4096 = code
  OBVIOUS
<1>2. w % 8 = x
  OBVIOUS
<1> QED BY <1>1, <1>2

LEMMA JumpBits ==
  ASSUME NEW l, Accepted(l), IsInstruction(l), l.op = "JMP"
  PROVE  LET w == insn_word(l) IN
         /\ Coded(w) = (IF l.rel THEN 7 ELSE 6) /\ OpIn(w) = Position(jmp_code, l.sub) - 1
         /\ l.rel => RaIn(w) = l.a
<1> DEFINE k == Position(jmp_code, l.sub)  w == insn_word(l)  x == l.a
<1>1. CASE ~l.rel
  BY <1>1, JmpBits
<1>2. CASE l.rel
  <2>1. k \in 1 .. 7 /\ x \in 0 .. 7
    BY JmpCode, Fields DEF Accepted
  <2>2. w = 24576 + (512 * (k - 1) + (4096 + x))
    <3>1. do_jmp(l) = 512 * (k - 1) + (4096 + x)
      BY <1>2 DEF do_jmp
    <3> QED BY <3>1, InsnWord
  <2> HIDE DEF k, w, x
  <2>3. Coded(w) = 7
    BY <2>1, <2>2 DEF Coded
  <2>4. OpIn(w) = k - 1
    BY <2>1, <2>2 DEF OpIn
  <2>5. RaIn(w) = x
    BY <2>1, <2>2 DEF RaIn
  <2> QED BY <1>2, <2>3, <2>4, <2>5 DEF w, k, x
<1> QED BY <1>1, <1>2

LEMMA Decoded ==
  ASSUME NEW l, Accepted(l), IsInstruction(l)
  PROVE  /\ Coded(insn_word(l)) = Number(l)
         /\ l.op \in {"SET", "PUSH", "POP", "IN", "OUT"} \/ (l.op = "CALL" /\ l.rel) => RaIn(insn_word(l)) = l.a
<1> DEFINE w == insn_word(l)  x == l.a
<1>1. x \in 0 .. 8 /\ (l.op # "MOVE" => x \in 0 .. 7)
  BY Fields
<1>2. l.op \in Mnemonics
  BY OperationType
<1>3. CASE l.op \in {"LOAD", "STORE"}
  BY <1>3, LoadStoreBits DEF Number
<1>4. CASE l.op \in {"MOVE", "ALU"}
  BY <1>4, MoveBits, AluBits DEF Number
<1>5. CASE l.op = "JMP"
  BY <1>5, JumpBits DEF Number
<1>6. CASE l.op \notin {"LOAD", "STORE", "MOVE", "ALU", "JMP"} /\ ~(l.op = "CALL" /\ ~l.rel)
  <2>1. Number(l) \in 1 .. 15 /\ w = 4096 * Number(l) + x
    BY <1>1, <1>2, <1>6, InsnWord DEF Number, Mnemonics
  <2>2. x \in 0 .. 7
    BY <1>1, <1>6
  <2> HIDE DEF w, x
  <2>3. Coded(w) = Number(l) /\ RaIn(w) = x
    BY <2>1, <2>2, PlainBits DEF Coded, RaIn
  <2> QED BY <2>3 DEF w, x
<1>7. CASE l.op = "CALL" /\ ~l.rel
  <2>1. Number(l) = 8 /\ w = 4096 * 8 + 0
    BY <1>7, InsnWord DEF Number
  <2>2. Coded(w) = 8
    BY <2>1, PlainBits DEF Coded
  <2> QED BY <1>7, <2>1, <2>2
<1> QED BY <1>2, <1>3, <1>4, <1>5, <1>6, <1>7 DEF Mnemonics

LEMMA StoreForm ==
  ASSUME NEW l, Accepted(l), IsInstruction(l), l.op = "STORE"
  PROVE  insn_word(l) \div 256 = 48 + (IF l.byte THEN 4 ELSE 0) + (IF l.rel THEN 8 ELSE 0)
<1> DEFINE x == l.a  y == l.b  bit == l.byte  far == l.rel  w == insn_word(l)
<1>1. x \in 0 .. 7 /\ y \in 0 .. 7 /\ bit \in BOOLEAN /\ far \in BOOLEAN
  BY Fields
<1>2. w = 12288 + ((IF bit THEN 1024 ELSE 0) + (IF far THEN 2048 + 8 * y ELSE 0) + x)
  BY InsnWord DEF do_load_store
<1> HIDE DEF x, y, bit, far, w
<1>3. w \div 256 = 48 + (IF bit THEN 4 ELSE 0) + (IF far THEN 8 ELSE 0)
  BY <1>1, <1>2
<1> QED BY <1>3 DEF w, bit, far

\* emulate's case for each number.
LEMMA EmulateCases ==
  ASSUME emulate
  PROVE  /\ opcode = 1 => SET
         /\ opcode = 2 => LOAD
         /\ opcode = 3 => STORE
         /\ opcode = 4 => MOVE
         /\ opcode = 5 => ALU
         /\ opcode \in {6, 7} => JMP
         /\ opcode \in {8, 9} => CALL
         /\ opcode = 10 => RET
         /\ opcode = 11 => PUSH
         /\ opcode = 12 => POP
         /\ opcode = 13 => IN_
         /\ opcode = 14 => OUT
<1> DEFINE o == opcode
<1>2. (STORE => o = 3) /\ (MOVE => o = 4) /\ (ALU => o = 5) /\ (JMP => o \in {6, 7}) /\ (CALL => o \in {8, 9})
  BY DEF STORE, MOVE, ALU, JMP, CALL
<1>3. (RET => o = 10) /\ (PUSH => o = 11) /\ (POP => o = 12) /\ (IN_ => o = 13) /\ (OUT => o = 14)
  BY DEF RET, PUSH, POP, IN_, OUT
<1>4. (SET => o = 1) /\ (LOAD => o = 2)
  BY DEF SET, LOAD
<1> HIDE DEF o
<1> QED BY <1>2, <1>3, <1>4 DEF emulate, o

-----------------------------------------------------------------------------
\* The bytes of the directives.

\* The addresses of the bytes of a directive.
DataPlace(p, i) == Addresses(p)[i] .. Addresses(p)[i] + Len(DataBytes(p[i])) - 1

\* Off the code, bytes has what the first n lines put there.
HasData(bytes, n) ==
  \A addr : addr \notin Code(program) =>
    /\ \A i \in 1 .. n : addr \in DataPlace(program, i) =>
         ByteIn(bytes, addr) = DataBytes(program[i])[addr - Addresses(program)[i] + 1]
    /\ (\A i \in 1 .. n : addr \notin DataPlace(program, i)) => ByteIn(bytes, addr) = 0

DataOK == HasData(image, lineno - 1)

LEMMA DataPlaces ==
  ASSUME AssemblerOK, NEW i \in DOMAIN program
  PROVE  /\ DataPlace(program, i) \subseteq Place(program, i)
         /\ ~IsInstruction(program[i]) => DataPlace(program, i) = Place(program, i)
         /\ IsInstruction(program[i]) => DataPlace(program, i) = {} /\ Place(program, i) \subseteq Code(program)
<1> DEFINE l == program[i]  addr == Addresses(program)[i]
<1>1. Accepted(l) /\ addr \in Words
  BY DEF AssemblerOK, Program
<1>2. addr \in Nat
  BY <1>1 DEF Words
<1>3. ASSUME ~IsInstruction(l) PROVE DataPlace(program, i) = Place(program, i)
  BY <1>3 DEF DataPlace, Place, Size
<1>4. ASSUME IsInstruction(l) PROVE DataPlace(program, i) = {} /\ Place(program, i) \subseteq Code(program)
  <2>1. DataBytes(l) = <<>>
    BY <1>4 DEF IsInstruction, Directives, DataBytes
  <2>2. DataPlace(program, i) = addr .. addr + 0 - 1
    BY <2>1 DEF DataPlace
  <2> HIDE DEF addr
  <2>3. DataPlace(program, i) = {}
    BY <1>2, <2>2
  <2>4. Place(program, i) \subseteq Code(program)
    BY <1>4 DEF Place, Code
  <2> QED BY <2>3, <2>4
<1> QED BY <1>3, <1>4

LEMMA DataInit == Init => DataOK
<1> SUFFICES ASSUME Init PROVE DataOK
  OBVIOUS
<1>1. lineno = 1 /\ image = <<>>
  BY DEF Init, AsmInit
<1>2. DOMAIN image = {} /\ 1 .. lineno - 1 = {}
  BY <1>1
<1> QED BY <1>2 DEF DataOK, HasData, ByteIn

LEMMA DataLine ==
  ASSUME AssemblerOK, SymbolsOK, DataOK, do_line PROVE DataOK'
<1> DEFINE l == program[lineno]  A == Addresses(program)  bytes == stored_bytes(l, symtab')
<1>1. /\ lineno \in 1 .. Len(program) /\ lineno \in DOMAIN program /\ lineno' = lineno + 1 /\ program' = program
      /\ current_addr = A[lineno]
      /\ bytes \in Seq(Bytes) /\ Len(bytes) = Size(l)
      /\ image' = Placed(bytes, current_addr, image)
  BY LineRead
<1>2. /\ Len(program) \in Nat /\ DOMAIN program = 1 .. Len(program) /\ Cells(image) /\ current_addr \in Nat
  BY MemoryParts DEF AssemblerOK, Program
<1>3. current_addr .. current_addr + Len(bytes) - 1 = Place(program, lineno)
  BY <1>1 DEF Place
<1>4. \A a : ByteIn(image', a) =
        IF a \in Place(program, lineno) THEN bytes[a - current_addr + 1] ELSE ByteIn(image, a)
  BY <1>1, <1>2, <1>3, PlacedBytes
<1>5. ~IsInstruction(l) => bytes = DataBytes(l)
  BY DEF stored_bytes
<1> HIDE DEF bytes
<1>6. ASSUME NEW a, a \notin Code(program)
      PROVE  /\ \A i \in 1 .. lineno : a \in DataPlace(program, i) =>
                  ByteIn(image', a) = DataBytes(program[i])[a - A[i] + 1]
             /\ (\A i \in 1 .. lineno : a \notin DataPlace(program, i)) => ByteIn(image', a) = 0
  <2>1. /\ \A i \in 1 .. lineno - 1 : a \in DataPlace(program, i) =>
             ByteIn(image, a) = DataBytes(program[i])[a - A[i] + 1]
        /\ (\A i \in 1 .. lineno - 1 : a \notin DataPlace(program, i)) => ByteIn(image, a) = 0
    BY <1>6 DEF DataOK, HasData
  <2>2. a \in Place(program, lineno) <=> a \in DataPlace(program, lineno)
    BY <1>1, <1>6, DataPlaces
  <2>3. CASE a \in DataPlace(program, lineno)
    <3>1. ~IsInstruction(l) /\ a \in Place(program, lineno)
      BY <1>1, <2>2, <2>3, DataPlaces
    <3>2. ByteIn(image', a) = DataBytes(l)[a - A[lineno] + 1]
      BY <1>1, <1>4, <1>5, <3>1
    <3>3. \A i \in 1 .. lineno : a \in DataPlace(program, i) => i = lineno
      <4> SUFFICES ASSUME NEW i \in 1 .. lineno, a \in DataPlace(program, i), i # lineno PROVE FALSE
        OBVIOUS
      <4>1. i \in DOMAIN program
        BY <1>1, <1>2
      <4>2. a \in Place(program, i)
        BY <4>1, DataPlaces
      <4>3. Place(program, i) \cap Place(program, lineno) = {}
        BY <1>1, <4>1 DEF SymbolsOK, Clear
      <4> QED BY <3>1, <4>2, <4>3
    <3>4. lineno \in 1 .. lineno
      BY <1>1
    <3> QED BY <2>3, <3>2, <3>3, <3>4
  <2>4. CASE a \notin DataPlace(program, lineno)
    <3>1. ByteIn(image', a) = ByteIn(image, a)
      BY <1>4, <2>2, <2>4
    <3>2. \A i \in 1 .. lineno : i = lineno \/ i \in 1 .. lineno - 1
      BY <1>1
    <3>3. \A i \in 1 .. lineno - 1 : i \in 1 .. lineno
      BY <1>1
    <3> QED BY <2>1, <2>4, <3>1, <3>2, <3>3
  <2> QED BY <2>3, <2>4
<1>7. lineno' - 1 = lineno
  BY <1>1
<1> HIDE DEF l
<1> QED BY <1>1, <1>6, <1>7 DEF DataOK, HasData

\* The fixups change code only.
LEMMA BinaryElsewhere ==
  ASSUME AssemblerOK, lineno > Len(program), Undefined = {}
  PROVE  \A a : a \notin Code(program) => ByteIn(binary, a) = ByteIn(image, a)
<1> DEFINE K == Len(fixups)  Same(m) == \A a : a \notin Code(program) => ByteIn(m, a) = ByteIn(image, a)
<1>1. K \in Nat /\ DOMAIN fixups = 1 .. K
  BY DEF AssemblerOK
<1>2. PICK g : Patches(g)
  BY BinaryRun
<1>3. /\ g[0] = image /\ binary = g[K]
      /\ \A n \in 1 .. K :
           /\ fixups[n][1] \in DOMAIN symtab /\ g[n - 1] \in Memories
           /\ g[n] = Placed(two_bytes(symtab[fixups[n][1]]), fixups[n][2], g[n - 1])
  BY <1>2 DEF Patches
<1> DEFINE T == {n \in 0 .. K : Same(g[n])}
<1>4. 0 \in T
  BY <1>1, <1>3
<1>5. ASSUME NEW n \in 1 .. K, n - 1 \in T PROVE n \in T
  <2> DEFINE m == g[n - 1]  v == symtab[fixups[n][1]]  new == g[n]
  <2>1. fixups[n][1] \in DOMAIN symtab /\ Cells(m) /\ new = Placed(two_bytes(v), fixups[n][2], m)
    BY <1>3, MemoryParts
  <2>2. v \in Words
    BY <2>1 DEF AssemblerOK, Values
  <2>3. PICK j \in 1 .. lineno - 1 : program[j].sym # NoName /\ fixups[n] = <<program[j].sym, Addresses(program)[j] + 2>>
    BY <1>1 DEF AssemblerOK
  <2>4. j \in DOMAIN program
    BY DEF AssemblerOK, Program
  <2> DEFINE c == Addresses(program)[j]  b == c + 2
  <2>5. b \in Nat /\ b \in Place(program, j) /\ b + 1 \in Place(program, j)
    <3>1. c \in Nat /\ {c + 2, c + 3} \subseteq Place(program, j)
      BY <2>3, <2>4, OpenOperand
    <3> HIDE DEF c
    <3>2. c + 2 \in Nat /\ (c + 2) + 1 = c + 3
      BY <3>1
    <3> QED BY <3>1, <3>2
  <2>6. fixups[n][2] = b
    BY <2>3
  <2>7. IsInstruction(program[j])
    <3>1. Accepted(program[j])
      BY <2>4 DEF AssemblerOK, Program
    <3> QED BY <2>3, <3>1, LongIsInstruction DEF Accepted
  <2>8. Place(program, j) \subseteq Code(program)
    BY <2>4, <2>7, DataPlaces
  <2>9. \A x : x \notin {b, b + 1} => ByteIn(new, x) = ByteIn(m, x)
    <3> HIDE DEF b, v, m, new
    <3>1. new = Placed(two_bytes(v), b, m) /\ Cells(m) /\ b \in Nat
      BY <2>1, <2>5, <2>6
    <3>2. \A x : x \notin {b, b + 1} => ByteIn(Placed(two_bytes(v), b, m), x) = ByteIn(m, x)
      BY <2>2, <3>1, PlacedWord
    <3> QED BY <3>1, <3>2
  <2>10. Same(m)
    BY <1>5
  <2>11. Same(new)
    <3> HIDE DEF b, m, new
    <3> QED BY <2>5, <2>8, <2>9, <2>10
  <2> QED BY <2>11
<1>6. K \in T
  <2> HIDE DEF T
  <2>1. 0 .. K \subseteq T
    BY <1>1, <1>4, <1>5, RangeInduction
  <2> QED BY <1>1, <2>1
<1> QED BY <1>3, <1>6

\* The program that is run starts with the data of its directives.
LEMMA LoadedData ==
  ASSUME AssemblerOK, SymbolsOK, DataOK, Load_, phase' = "run",
         NEW a, a \notin Code(program)
  PROVE  ByteIn(memory', a) = InitialByte(program, a)
<1> DEFINE A == Addresses(program)  D == 0 .. max_addr - 1
           lines == {i \in DOMAIN program : a \in A[i] .. A[i] + Len(DataBytes(program[i])) - 1}
           first == CHOOSE i \in lines : TRUE
<1>1. /\ Undefined = {} /\ memory' = [addr \in DOMAIN binary \cap 0 .. max_addr - 1 |-> binary[addr]]
      /\ lineno > Len(program)
  BY Loaded DEF Load_
<1>2. /\ lineno = Len(program) + 1 /\ Len(program) \in Nat /\ DOMAIN program = 1 .. lineno - 1
      /\ max_addr \in Nat
  BY <1>1 DEF AssemblerOK, Program
<1>3. ByteIn(binary, a) = ByteIn(image, a)
  BY <1>1, BinaryElsewhere
<1>4. ByteIn(memory', a) = IF a \in D THEN ByteIn(binary, a) ELSE 0
  <2> HIDE DEF D
  <2>1. memory' = [addr \in DOMAIN binary \cap D |-> binary[addr]]
    BY <1>1 DEF D
  <2> QED BY <2>1 DEF ByteIn
<1>5. InitialByte(program, a) = IF lines = {} THEN 0 ELSE DataBytes(program[first])[a - A[first] + 1]
  BY DEF InitialByte
<1>6. /\ \A i \in DOMAIN program : a \in DataPlace(program, i) =>
           ByteIn(image, a) = DataBytes(program[i])[a - A[i] + 1]
      /\ (\A i \in DOMAIN program : a \notin DataPlace(program, i)) => ByteIn(image, a) = 0
  BY <1>2 DEF DataOK, HasData
<1>7. lines = {i \in DOMAIN program : a \in DataPlace(program, i)}
  BY DEF DataPlace
<1> HIDE DEF lines
<1>8. CASE lines = {}
  BY <1>3, <1>4, <1>5, <1>6, <1>7, <1>8
<1>9. CASE lines # {}
  <2>1. first \in lines
    BY <1>9
  <2> HIDE DEF first
  <2>2. first \in DOMAIN program /\ a \in DataPlace(program, first)
    BY <1>7, <2>1
  <2>3. a \in D
    <3>1. a \in Place(program, first)
      BY <2>2, DataPlaces
    <3>2. A[first] \in Nat /\ A[first] + Size(program[first]) <= max_addr /\ Size(program[first]) \in Nat
      <4>1. A[first] \in Words /\ Accepted(program[first])
        BY <2>2 DEF AssemblerOK, Program
      <4>2. A[first] + Size(program[first]) <= max_addr
        BY <1>2, <2>2 DEF AssemblerOK
      <4>3. A[first] \in Nat
        BY <4>1 DEF Words
      <4> QED BY <4>1, <4>2, <4>3, LineType
    <3> DEFINE c == A[first]  n == Size(program[first])
    <3>3. a \in c .. c + n - 1
      BY <3>1 DEF Place
    <3> HIDE DEF c, n
    <3>4. c \in Nat /\ n \in Nat /\ c + n <= max_addr
      BY <3>2 DEF c, n
    <3> QED BY <1>2, <3>3, <3>4
  <2> QED BY <1>3, <1>4, <1>5, <1>6, <1>9, <2>2, <2>3
<1> QED BY <1>8, <1>9

-----------------------------------------------------------------------------
\* The states the abstract machine is seen in.

\* The sign is one of three, SP has words above it, and nothing is carried out
\* before the load, after which there is a first line.
SignOK == ~(Z /\ N)
StackOK == SP % 2 = 0 /\ SP <= 65534
StartOK ==
  /\ phase \in {"assemble", "failed"} => PC = 0 /\ SP = 65534
  /\ phase = "run" => LineAt(program, 0) # 0

\* A turn of the simulator that a program of the kind makes.
Ready == AssemblerOK /\ Safe /\ WordsKept /\ SignOK /\ StackOK /\ StartOK /\ phase = "run" /\ KeepsApart
Turn == Ready /\ Execute /\ phase' = "run" /\ KeepsApart'

LEMMA StackSize ==
  ASSUME MachineOK, StackOK
  PROVE  \E n \in Nat : n = (65534 - SP) \div 2 /\ SP = 65534 - 2 * n
<1> DEFINE n == (65534 - SP) \div 2
<1>1. SP \in Nat /\ SP <= 65534 /\ SP % 2 = 0
  BY DEF MachineOK, StackOK, Words
<1>2. n \in Nat /\ SP = 65534 - 2 * n
  BY <1>1
<1> QED BY <1>2

LEMMA StackKept ==
  ASSUME MachineOK, StackOK, SP' = SP, \A a \in SP .. 65533 : ByteIn(memory', a) = ByteIn(memory, a)
  PROVE  StackHeld' = StackHeld
<1>1. PICK n \in Nat : n = (65534 - SP) \div 2 /\ SP = 65534 - 2 * n
  BY StackSize
<1>2. ASSUME NEW i \in 1 .. n PROVE WordIn(memory', 65534 - 2 * i) = WordIn(memory, 65534 - 2 * i)
  <2>1. 65534 - 2 * i \in SP .. 65533 /\ (65534 - 2 * i) + 1 \in SP .. 65533
    BY <1>1
  <2> QED BY <2>1 DEF WordIn
<1>3. StackHeld = [i \in 1 .. n |-> WordIn(memory, 65534 - 2 * i)]
  BY <1>1 DEF StackHeld, load2
<1>4. StackHeld' = [i \in 1 .. n |-> WordIn(memory', 65534 - 2 * i)]
  BY <1>1 DEF StackHeld, load2
<1> QED BY <1>2, <1>3, <1>4

LEMMA DataKept ==
  ASSUME program' = program, phase \notin {"assemble", "failed"}, phase' \notin {"assemble", "failed"},
         \A a \in Data \ Code(program) : ByteIn(memory', a) = ByteIn(memory, a)
  PROVE  DataHeld' = DataHeld
BY DEF DataHeld

LEMMA StoreReads ==
  ASSUME Cells(memory), NEW v \in Words, NEW addr \in Int
  PROVE  /\ \A a : ByteIn(store2(v, addr), a) =
                IF a = addr THEN v % 256 ELSE IF a = addr + 1 THEN v \div 256 ELSE ByteIn(memory, a)
         /\ WordIn(store2(v, addr), addr) = v
<1> DEFINE low == v % 256  upper == v \div 256  next == addr + 1
           inner == Put(upper, next, memory)  new == Put(low, addr, inner)
<1>1. low \in Bytes /\ upper \in Bytes /\ v = low + 256 * upper
  BY WordParts
<1>2. store2(v, addr) = new
  BY DEF store2
<1>3. next # addr
  OBVIOUS
<1> HIDE DEF low, upper, next
<1>9. ASSUME NEW bytes, NEW byte, NEW b
      PROVE  \A a : ByteIn(Put(byte, b, bytes), a) = IF a = b THEN byte ELSE ByteIn(bytes, a)
  BY DEF Put, ByteIn
<1> HIDE DEF new, inner
<1>10. inner = Put(upper, next, memory) /\ new = Put(low, addr, inner)
  BY DEF new, inner
<1>4. \A a : ByteIn(inner, a) = IF a = next THEN upper ELSE ByteIn(memory, a)
  BY <1>1, <1>9, <1>10
<1>5. \A a : ByteIn(new, a) = IF a = addr THEN low ELSE ByteIn(inner, a)
  BY <1>1, <1>4, <1>9, <1>10
<1>6. \A a : ByteIn(new, a) = IF a = addr THEN low ELSE IF a = next THEN upper ELSE ByteIn(memory, a)
  BY <1>4, <1>5
<1>7. WordIn(new, addr) = v
  <2>1. WordIn(new, addr) = ByteIn(new, addr) + 256 * ByteIn(new, next)
    BY DEF WordIn, next
  <2> QED BY <1>1, <1>3, <1>6, <2>1
<1> QED BY <1>2, <1>6, <1>7 DEF low, upper, next

\* What is known of the line in such a state.
LEMMA AtLineFacts ==
  ASSUME Ready
  PROVE  LET l == program[AtLine] IN
         /\ Machine!l = l /\ MachineOK
         /\ IsInstruction(l) /\ Accepted(l) /\ l.op \in Mnemonics
         /\ insn = insn_word(l) /\ opcode = Number(l)
         /\ Long(l) => operand = Operand(program, l)
         /\ PC \in Code(program) /\ 0 \in Code(program)
         /\ Machine!following = Wrap(PC + IF Long(l) THEN 4 ELSE 2)
         /\ SP \in Nat /\ SP # 0
<1> DEFINE l == program[AtLine]
<1>1. AssemblerOK /\ Safe /\ WordsKept /\ phase = "run" /\ AtLine # 0 /\ MachineOK
  BY DEF Ready, KeepsApart, Safe
<1>2. /\ IsInstruction(l) /\ Accepted(l) /\ l.op \in Mnemonics
      /\ insn = insn_word(l)
      /\ Long(l) => operand = Operand(program, l)
      /\ {PC, PC + 1} \subseteq Code(program)
      /\ Machine!following = Wrap(PC + IF Long(l) THEN 4 ELSE 2)
  BY <1>1, AtInstruction
<1>3. opcode = Number(l)
  BY <1>2, Decoded DEF opcode, Coded
<1>4. Machine!l = l
  BY DEF Machine!l
<1>5. 0 \in Code(program)
  <2> DEFINE i == LineAt(program, 0)
  <2>1. i # 0
    BY DEF Ready, StartOK
  <2>2. i \in DOMAIN program /\ IsInstruction(program[i]) /\ Addresses(program)[i] = 0
    BY <2>1 DEF LineAt
  <2> HIDE DEF i
  <2>3. Addresses(program)[i] \in Place(program, i)
    BY <1>1, <2>2, InstructionPlace
  <2>4. Place(program, i) \subseteq Code(program)
    BY <2>2 DEF Place, Code
  <2> QED BY <2>2, <2>3, <2>4
<1>6. SP \in Nat /\ SP # 0
  <2>1. SP \in Nat /\ 0 \notin SP .. 65533
    BY <1>1, <1>5, SMTT(30) DEF Ready, KeepsApart, MachineOK, Words
  <2> QED BY <2>1
<1> QED BY <1>1, <1>2, <1>3, <1>4, <1>5, <1>6

LEMMA NumberOf ==
  ASSUME NEW l, l.op \in Mnemonics, l.rel \in BOOLEAN
  PROVE  /\ Number(l) \in 1 .. 15
         /\ Number(l) = 1 <=> l.op = "SET"
         /\ Number(l) = 2 <=> l.op = "LOAD"
         /\ Number(l) = 3 <=> l.op = "STORE"
         /\ Number(l) = 4 <=> l.op = "MOVE"
         /\ Number(l) = 5 <=> l.op = "ALU"
         /\ Number(l) \in {6, 7} <=> l.op = "JMP"
         /\ Number(l) = 7 <=> l.op = "JMP" /\ l.rel
         /\ Number(l) \in {8, 9} <=> l.op = "CALL"
         /\ Number(l) = 9 <=> l.op = "CALL" /\ l.rel
         /\ Number(l) = 10 <=> l.op = "RET"
         /\ Number(l) = 11 <=> l.op = "PUSH"
         /\ Number(l) = 12 <=> l.op = "POP"
         /\ Number(l) = 13 <=> l.op = "IN"
         /\ Number(l) = 14 <=> l.op = "OUT"
         /\ Number(l) = 15 <=> l.op = "HALT"
<1> DEFINE name == l.op  far == l.rel
<1>1. Number(l) = CASE name = "SET" -> 1 [] name = "LOAD" -> 2 [] name = "STORE" -> 3 [] name = "MOVE" -> 4
                    [] name = "ALU" -> 5 [] name = "JMP" -> IF far THEN 7 ELSE 6
                    [] name = "CALL" -> IF far THEN 9 ELSE 8 [] name = "RET" -> 10 [] name = "PUSH" -> 11
                    [] name = "POP" -> 12 [] name = "IN" -> 13 [] name = "OUT" -> 14 [] OTHER -> 15
  BY DEF Number
<1>2. name \in Mnemonics /\ far \in BOOLEAN
  OBVIOUS
<1> DEFINE n == Number(l)
<1> HIDE DEF name, far, n
<1>3. /\ name = "SET" => n = 1
      /\ name = "LOAD" => n = 2
      /\ name = "STORE" => n = 3
      /\ name = "MOVE" => n = 4
      /\ name = "ALU" => n = 5
      /\ name = "JMP" => n = IF far THEN 7 ELSE 6
      /\ name = "CALL" => n = IF far THEN 9 ELSE 8
      /\ name = "RET" => n = 10
      /\ name = "PUSH" => n = 11
      /\ name = "POP" => n = 12
      /\ name = "IN" => n = 13
      /\ name = "OUT" => n = 14
      /\ name = "HALT" => n = 15
  BY <1>1 DEF n
<1>4. \/ name = "SET" \/ name = "LOAD" \/ name = "STORE" \/ name = "MOVE" \/ name = "ALU" \/ name = "JMP"
      \/ name = "CALL" \/ name = "RET" \/ name = "PUSH" \/ name = "POP" \/ name = "IN" \/ name = "OUT" \/ name = "HALT"
  BY <1>2 DEF Mnemonics
<1> QED BY <1>2, <1>3, <1>4 DEF n, name, far

-----------------------------------------------------------------------------
\* What a turn touches.

LEMMA TurnTouches ==
  ASSUME Turn
  PROVE  LET l == program[AtLine] IN
         /\ opcode = 3 => Touched = Accessed(l) /\ Touched \subseteq Data \ Code(program)
         /\ opcode \in {8, 9, 11} =>
              /\ SP - 2 \in Nat /\ SP' = SP - 2 /\ Wrap(SP - 2) = SP - 2
              /\ Touched = {SP - 2, (SP - 2) + 1} /\ Touched \cap (Data \cup Code(program)) = {}
         /\ opcode \notin {3, 8, 9, 11} => Touched = {}
         /\ SparesCode
<1> DEFINE l == program[AtLine]
<1>1. /\ Ready /\ emulate /\ program' = program /\ KeepsApart /\ KeepsApart' /\ StackOK
  BY DEF Turn, Ready, Execute, asm
<1>2. /\ IsInstruction(l) /\ Accepted(l) /\ l.op \in Mnemonics
      /\ insn = insn_word(l) /\ opcode = Number(l)
      /\ Long(l) => operand = Operand(program, l)
      /\ SP \in Nat /\ SP # 0 /\ MachineOK
  BY <1>1, AtLineFacts
<1>3. ASSUME opcode = 3 PROVE Touched = Accessed(l) /\ Touched \subseteq Data \ Code(program)
  <2>1. l.op = "STORE" /\ l.rel \in BOOLEAN /\ l.byte \in BOOLEAN
    BY <1>2, <1>3, NumberOf, Fields
  <2>2. insn \div 256 = 48 + (IF l.byte THEN 4 ELSE 0) + (IF l.rel THEN 8 ELSE 0)
    BY <1>2, <2>1, StoreForm
  <2>3. l.rel => R[rb] = R[l.b]
    BY <1>2, <2>1, LoadStoreBits DEF rb, RbIn
  <2>4. ~l.rel => operand = Operand(program, l)
    BY <1>2, <2>1 DEF Long
  <2> DEFINE far == l.rel  bit == l.byte  x == operand  y == R[rb]  form == insn \div 256
  <2>5. Touched = CASE form = 52 -> {x + 1} [] form = 60 -> {y} [] form = 48 -> {x, x + 1}
                    [] form \notin {48, 52, 60} -> {y, y + 1}
    BY <1>3 DEF Touched
  <2>6. Accessed(l) = LET place == IF far THEN y ELSE x IN
                      IF ~bit THEN {place, place + 1} ELSE {IF far THEN place ELSE place + 1}
    BY <2>1, <2>3, <2>4 DEF Accessed
  <2>7. far \in BOOLEAN /\ bit \in BOOLEAN /\ form = 48 + (IF bit THEN 4 ELSE 0) + (IF far THEN 8 ELSE 0)
    BY <2>1, <2>2
  <2>8. Accessed(l) \subseteq Data \ Code(program)
    BY <1>1, <2>1 DEF KeepsApart
  <2> DEFINE T == Touched  A == Accessed(l)
  <2> HIDE DEF far, bit, x, y, form, T, A
  <2>9. T = A
    <3>1. T = CASE form = 52 -> {x + 1} [] form = 60 -> {y} [] form = 48 -> {x, x + 1}
                [] form \notin {48, 52, 60} -> {y, y + 1}
      BY <2>5 DEF T
    <3>2. A = IF ~bit THEN {IF far THEN y ELSE x, (IF far THEN y ELSE x) + 1} ELSE {IF far THEN y ELSE x + 1}
      BY <2>6 DEF A
    <3>3. CASE bit /\ far
      BY <2>7, <3>1, <3>2, <3>3
    <3>4. CASE bit /\ ~far
      BY <2>7, <3>1, <3>2, <3>4
    <3>5. CASE ~bit /\ far
      BY <2>7, <3>1, <3>2, <3>5
    <3>6. CASE ~bit /\ ~far
      BY <2>7, <3>1, <3>2, <3>6
    <3> QED BY <2>7, <3>3, <3>4, <3>5, <3>6
  <2> QED BY <2>8, <2>9 DEF T, A
<1>4. ASSUME opcode \in {8, 9, 11}
      PROVE  /\ SP - 2 \in Nat /\ SP' = SP - 2 /\ Wrap(SP - 2) = SP - 2
             /\ Touched = {SP - 2, (SP - 2) + 1} /\ Touched \cap (Data \cup Code(program)) = {}
  <2>1. SP - 2 \in Nat /\ SP <= 65534
    BY <1>1, <1>2 DEF StackOK
  <2> DEFINE x == SP - 2
  <2>7. x \in Nat /\ x <= 65532
    <3>1. SP \in Nat
      BY <1>2
    <3> QED BY <2>1, <3>1
  <2>8. Wrap(x) = x /\ x \in x .. 65533 /\ x + 1 \in x .. 65533
    <3> HIDE DEF x
    <3> QED BY <2>7 DEF Wrap
  <2>2. Wrap(SP - 2) = SP - 2
    BY <2>8
  <2>3. SP' = Wrap(SP - 2)
    BY <1>1, <1>4, EmulateCases DEF CALL, PUSH
  <2>4. Touched = {Wrap(SP - 2), Wrap(SP - 2) + 1}
    BY <1>4 DEF Touched
  <2>5. (SP' .. 65533) \cap (Data \cup Code(program)) = {}
    BY <1>1 DEF KeepsApart
  <2>6. {SP - 2, (SP - 2) + 1} \subseteq SP - 2 .. 65533
    <3>1. {x, x + 1} \subseteq x .. 65533
      <4> HIDE DEF x
      <4> QED BY <2>8
    <3> QED BY <3>1
  <2> QED BY <2>1, <2>2, <2>3, <2>4, <2>5, <2>6
<1>5. opcode \notin {3, 8, 9, 11} => Touched = {}
  BY DEF Touched
<1>6. SparesCode
  <2>1. CASE opcode = 3
    BY <1>3, <2>1 DEF SparesCode
  <2>2. CASE opcode \in {8, 9, 11}
    BY <1>4, <2>2 DEF SparesCode
  <2>3. CASE opcode \notin {3, 8, 9, 11}
    BY <1>5, <2>3 DEF SparesCode
  <2> QED BY <2>1, <2>2, <2>3
<1> QED BY <1>3, <1>4, <1>5, <1>6

\* What is true of every turn.
LEMMA TurnFacts ==
  ASSUME Turn
  PROVE  LET l == program[AtLine] IN
         /\ Ready /\ KeepsApart /\ Machine!l = l /\ MachineOK /\ StackOK /\ SignOK
         /\ IsInstruction(l) /\ Accepted(l) /\ l.op \in Mnemonics /\ l.rel \in BOOLEAN /\ l.byte \in BOOLEAN
         /\ insn = insn_word(l) /\ opcode = Number(l)
         /\ Long(l) => operand = Operand(program, l)
         /\ emulate /\ program' = program
         /\ SP \in Nat /\ SP <= 65534
         /\ \A n : n = (IF Long(l) THEN 4 ELSE 2) /\ Skip(n) => Machine!On
         /\ \A addr : PC' = addr => AtLine' = Machine!LineAt(program, addr)
         /\ (\A a \in Data \ Code(program) : ByteIn(memory', a) = ByteIn(memory, a)) => DataHeld' = DataHeld
         /\ opcode \notin {3, 8, 9, 11} => DataHeld' = DataHeld
         /\ memory' = memory /\ SP' = SP => StackHeld' = StackHeld
<1> DEFINE l == program[AtLine]
<1>1. /\ Ready /\ emulate /\ program' = program /\ KeepsApart /\ KeepsApart' /\ StackOK /\ SignOK
      /\ phase = "run" /\ phase' = "run"
  BY DEF Turn, Ready, Execute, asm
<1>2. /\ Machine!l = l /\ MachineOK
      /\ IsInstruction(l) /\ Accepted(l) /\ l.op \in Mnemonics
      /\ insn = insn_word(l) /\ opcode = Number(l)
      /\ Long(l) => operand = Operand(program, l)
      /\ Machine!following = Wrap(PC + IF Long(l) THEN 4 ELSE 2)
      /\ SP \in Nat
  BY <1>1, AtLineFacts
<1>3. l.rel \in BOOLEAN /\ l.byte \in BOOLEAN
  BY <1>2, Fields
<1>4. ASSUME NEW addr, PC' = addr PROVE AtLine' = Machine!LineAt(program, addr)
  BY <1>1, <1>4, SameListing DEF AtLine
<1>5. ASSUME NEW n, n = (IF Long(l) THEN 4 ELSE 2), Skip(n) PROVE Machine!On
  BY <1>2, <1>4, <1>5 DEF Skip, Machine!On
<1>6. ASSUME \A a \in Data \ Code(program) : ByteIn(memory', a) = ByteIn(memory, a) PROVE DataHeld' = DataHeld
  BY <1>1, <1>6, DataKept
<1>7. ASSUME opcode \notin {3, 8, 9, 11} PROVE DataHeld' = DataHeld
  <2>1. Touched = {}
    BY <1>7 DEF Touched
  <2> QED BY <1>1, <1>2, <1>6, <2>1, Elsewhere
<1>8. ASSUME memory' = memory, SP' = SP PROVE StackHeld' = StackHeld
  BY <1>8 DEF StackHeld, load2
<1>9. SP <= 65534
  BY <1>1 DEF StackOK
<1> QED BY <1>1, <1>2, <1>3, <1>4, <1>5, <1>6, <1>7, <1>8, <1>9

-----------------------------------------------------------------------------
\* Each instruction is that of the abstract machine.

LEMMA RunsSet ==
  ASSUME Turn, program[AtLine].op = "SET" PROVE Machine!Set
<1> DEFINE l == program[AtLine]
<1>1. /\ Machine!l = l /\ IsInstruction(l) /\ Accepted(l) /\ l.op \in Mnemonics /\ l.rel \in BOOLEAN
      /\ insn = insn_word(l) /\ opcode = Number(l) /\ (Long(l) => operand = Operand(program, l))
      /\ emulate
      /\ \A n : n = (IF Long(l) THEN 4 ELSE 2) /\ Skip(n) => Machine!On
      /\ opcode \notin {3, 8, 9, 11} => DataHeld' = DataHeld
      /\ memory' = memory /\ SP' = SP => StackHeld' = StackHeld
  BY TurnFacts
<1>2. opcode = 1
  BY <1>1, NumberOf
<1>3. R' = [R EXCEPT ![ra] = operand] /\ Skip(4) /\ UNCHANGED <<memory, SP, flags, terminal>>
  BY <1>1, <1>2, EmulateCases DEF SET
<1>4. Long(l)
  BY DEF Long
<1>5. ra = l.a /\ operand = Machine!Operand(program, l)
  BY <1>1, <1>4, Decoded, SameListing DEF ra, RaIn
<1>6. Machine!On
  BY <1>1, <1>3, <1>4
<1>7. DataHeld' = DataHeld /\ StackHeld' = StackHeld /\ LastSign' = LastSign /\ input' = input /\ output' = output
  BY <1>1, <1>2, <1>3 DEF LastSign, flags, terminal
<1>8. R' = [R EXCEPT ![l.a] = Machine!Operand(program, l)]
  BY <1>3, <1>5
<1> HIDE DEF l
<1>9. l.op = "SET"
  BY DEF l
<1> QED BY <1>1, <1>6, <1>7, <1>8, <1>9 DEF Machine!Set

LEMMA RunsLoad ==
  ASSUME Turn, program[AtLine].op = "LOAD" PROVE Machine!Load
<1> DEFINE l == program[AtLine]
<1>1. /\ Machine!l = l /\ IsInstruction(l) /\ Accepted(l) /\ l.op \in Mnemonics /\ l.rel \in BOOLEAN /\ l.byte \in BOOLEAN
      /\ insn = insn_word(l) /\ opcode = Number(l) /\ (Long(l) => operand = Operand(program, l))
      /\ emulate /\ MachineOK /\ KeepsApart /\ phase = "run"
      /\ \A n : n = (IF Long(l) THEN 4 ELSE 2) /\ Skip(n) => Machine!On
      /\ opcode \notin {3, 8, 9, 11} => DataHeld' = DataHeld
      /\ memory' = memory /\ SP' = SP => StackHeld' = StackHeld
  BY TurnFacts DEF Turn, Ready
<1>2. opcode = 2
  BY <1>1, NumberOf
<1> DEFINE from == IF is_indirect THEN R[rb] ELSE operand
           val == IF is_byte THEN ByteIn(memory, from) ELSE load2(from)
<1>3. R' = [R EXCEPT ![ra] = val] /\ Skip(IF is_indirect THEN 2 ELSE 4) /\ UNCHANGED <<memory, SP, flags, terminal>>
  BY <1>1, <1>2, EmulateCases DEF LOAD
<1>4. /\ is_indirect = l.rel /\ is_byte = l.byte /\ ra = l.a /\ (l.rel => rb = l.b)
  BY <1>1, LoadStoreBits DEF is_indirect, is_byte, ra, rb, Indirect, ByteForm, RaIn, RbIn
<1>5. Long(l) <=> ~l.rel
  BY DEF Long
<1>6. Machine!place = from
  BY <1>1, <1>4, <1>5, SameListing DEF Machine!place
<1>7. Machine!On
  BY <1>1, <1>3, <1>4, <1>5
<1>8. DataHeld' = DataHeld /\ StackHeld' = StackHeld /\ LastSign' = LastSign /\ input' = input /\ output' = output
  BY <1>1, <1>2, <1>3 DEF LastSign, flags, terminal
<1>9. Accessed(l) = (IF l.byte THEN {from} ELSE {from, from + 1}) /\ Accessed(l) \subseteq Data \ Code(program)
  BY <1>1, <1>4, <1>5 DEF Accessed, KeepsApart
<1> HIDE DEF from
<1>10. \A a \in Data \ Code(program) : DataHeld[a] = ByteIn(memory, a)
  BY <1>1 DEF DataHeld
<1>11. DataHeld[from] = ByteIn(memory, from) /\ (~l.byte => DataHeld[from + 1] = ByteIn(memory, from + 1))
  BY <1>1, <1>9, <1>10
<1>12. ByteIn(memory, from) \in Int
  BY <1>1, ReadsBytes DEF MachineOK, Bytes
<1> HIDE DEF l
<1>13. val = DataHeld[from] + IF l.byte THEN 0 ELSE 256 * DataHeld[from + 1]
  <2>1. val = IF l.byte THEN ByteIn(memory, from) ELSE ByteIn(memory, from) + 256 * ByteIn(memory, from + 1)
    BY <1>4 DEF load2, WordIn
  <2> DEFINE low == ByteIn(memory, from)  next == from + 1
  <2> HIDE DEF low, val, next
  <2> QED BY <1>1, <1>11, <1>12, <2>1 DEF low, next
<1>14. R' = [R EXCEPT ![l.a] = DataHeld[Machine!place] + IF l.byte THEN 0 ELSE 256 * DataHeld[Machine!place + 1]]
  BY <1>3, <1>4, <1>6, <1>13
<1>15. l.op = "LOAD"
  BY DEF l
<1> QED BY <1>1, <1>7, <1>8, <1>14, <1>15 DEF Machine!Load

LEMMA RunsStore ==
  ASSUME Turn, program[AtLine].op = "STORE" PROVE Machine!Store
<1> DEFINE l == program[AtLine]  v == R[ra]  x == operand  y == R[rb]  far == l.rel  bit == l.byte
           place == IF far THEN y ELSE x   spot == IF far THEN place ELSE place + 1
           D == Data \ Code(program)
<1>1. /\ Machine!l = l /\ IsInstruction(l) /\ Accepted(l) /\ l.op \in Mnemonics /\ far \in BOOLEAN /\ bit \in BOOLEAN
      /\ insn = insn_word(l) /\ opcode = Number(l) /\ (Long(l) => operand = Operand(program, l))
      /\ emulate /\ MachineOK /\ KeepsApart /\ StackOK /\ phase = "run" /\ phase' = "run" /\ program' = program
      /\ \A n : n = (IF Long(l) THEN 4 ELSE 2) /\ Skip(n) => Machine!On
  BY TurnFacts DEF Turn, Ready
<1>2. opcode = 3
  BY <1>1, NumberOf
<1>3. memory' = stored /\ Skip(IF insn \div 256 \in {48, 52} THEN 4 ELSE 2) /\ UNCHANGED <<R, SP, flags, terminal>>
  BY <1>1, <1>2, EmulateCases DEF STORE
<1>4. ra = l.a /\ (far => rb = l.b) /\ v = R[l.a]
  BY <1>1, LoadStoreBits DEF ra, rb, RaIn, RbIn
<1>5. Long(l) <=> ~far
  BY DEF Long
<1>6. Machine!place = place
  BY <1>1, <1>4, <1>5, SameListing DEF Machine!place
<1> DEFINE form == insn \div 256
<1>7. form = 48 + (IF bit THEN 4 ELSE 0) + (IF far THEN 8 ELSE 0)
  BY <1>1, StoreForm
<1>8. stored = CASE form = 48 -> store2(v, x) [] form = 52 -> Stored(v % 256, x + 1)
                 [] form = 60 -> Stored(v % 256, y) [] OTHER -> store2(v, y)
  BY DEF stored
<1>9. Accessed(l) = (IF bit THEN {spot} ELSE {place, place + 1}) /\ Accessed(l) \subseteq D
  <2>1. Accessed(l) \subseteq D
    BY <1>1 DEF KeepsApart
  <2>2. (IF l.rel THEN R[l.b] ELSE Operand(program, l)) = place
    BY <1>1, <1>4, <1>5
  <2>3. Accessed(l) = IF ~l.byte THEN {place, place + 1} ELSE {IF l.op = "STORE" /\ ~l.rel THEN place + 1 ELSE place}
    BY <2>2 DEF Accessed
  <2> HIDE DEF place
  <2> QED BY <2>1, <2>3
<1>10. v \in Words /\ x \in Words /\ y \in Words /\ Cells(memory)
  BY <1>1, InstructionParts DEF MachineOK
<1> HIDE DEF l, v, x, y, far, bit, form
<1>11. form \in {48, 52} <=> ~far
  BY <1>1, <1>7
<1>12. memory' = IF bit THEN Stored(v % 256, spot) ELSE store2(v, place)
  BY <1>1, <1>3, <1>7, <1>8
<1>13. Machine!On
  BY <1>1, <1>3, <1>5, <1>11 DEF form
<1>14. place \in Int
  BY <1>1, <1>10 DEF Words
<1> HIDE DEF place, spot
<1>15. \A a : ByteIn(memory', a) =
         IF bit THEN IF a = spot THEN v % 256 ELSE ByteIn(memory, a)
         ELSE IF a = place THEN v % 256 ELSE IF a = place + 1 THEN v \div 256 ELSE ByteIn(memory, a)
  <2>1. CASE bit
    <3>1. memory' = Put(v % 256, spot, memory)
      BY <1>12, <2>1 DEF Stored
    <3> QED BY <2>1, <3>1 DEF Put, ByteIn
  <2>2. CASE ~bit
    <3>1. \A a : ByteIn(store2(v, place), a) =
            IF a = place THEN v % 256 ELSE IF a = place + 1 THEN v \div 256 ELSE ByteIn(memory, a)
      BY <1>10, <1>14, StoreReads
    <3>2. memory' = store2(v, place)
      BY <1>12, <2>2
    <3> QED BY <2>2, <3>1, <3>2
  <2> QED BY <1>1, <2>1, <2>2
<1>16. DataHeld = [a \in D |-> ByteIn(memory, a)] /\ DataHeld' = [a \in D |-> ByteIn(memory', a)]
  BY <1>1 DEF DataHeld
<1> HIDE DEF D
<1>17. place + 1 # place
  BY <1>14
<1>18. DataHeld' = IF bit THEN [DataHeld EXCEPT ![spot] = v % 256]
                   ELSE [DataHeld EXCEPT ![place] = v % 256, ![place + 1] = v \div 256]
  <2>1. CASE bit
    <3>1. spot \in D
      BY <1>9, <2>1
    <3> QED BY <1>15, <1>16, <2>1, <3>1
  <2>2. CASE ~bit
    <3> DEFINE next == place + 1
    <3>1. place \in D /\ next \in D /\ next # place
      BY <1>9, <1>17, <2>2
    <3>2. \A a : ByteIn(memory', a) = IF a = place THEN v % 256 ELSE IF a = next THEN v \div 256 ELSE ByteIn(memory, a)
      BY <1>15, <2>2
    <3> DEFINE low == v % 256  upper == v \div 256
    <3> HIDE DEF next, low, upper
    <3>3. DataHeld' = [DataHeld EXCEPT ![place] = low, ![next] = upper]
      BY <1>16, <3>1, <3>2 DEF low, upper
    <3> QED BY <2>2, <3>3 DEF next, low, upper
  <2> QED BY <1>1, <2>1, <2>2
<1>19. StackHeld' = StackHeld
  <2>1. (SP .. 65533) \cap (Data \cup Code(program)) = {}
    BY <1>1 DEF KeepsApart
  <2>2. \A a \in SP .. 65533 : a \notin Accessed(l)
    BY <1>9, <2>1 DEF D
  <2>3. \A a \in SP .. 65533 : ByteIn(memory', a) = ByteIn(memory, a)
    BY <1>1, <1>9, <1>15, <2>2
  <2>4. SP' = SP
    BY <1>3
  <2> QED BY <1>1, <2>3, <2>4, StackKept
<1>20. LastSign' = LastSign /\ input' = input /\ output' = output /\ R' = R
  BY <1>3 DEF LastSign, flags, terminal
<1>21. l.op = "STORE" /\ v = R[l.a]
  BY <1>4 DEF l
<1>22. spot = (IF l.rel THEN place ELSE place + 1) /\ (bit <=> l.byte)
  BY DEF spot, far, bit
<1> QED BY <1>1, <1>6, <1>13, <1>18, <1>19, <1>20, <1>21, <1>22 DEF Machine!Store

-----------------------------------------------------------------------------
\* The stack.

LEMMA StackWords ==
  ASSUME MachineOK, StackOK
  PROVE  /\ StackHeld \in Seq(Words) /\ Len(StackHeld) \in Nat /\ SP = 65534 - 2 * Len(StackHeld)
         /\ (65534 - SP) \div 2 = Len(StackHeld)
         /\ \A i \in 1 .. Len(StackHeld) : StackHeld[i] = load2(65534 - 2 * i)
<1>1. PICK n \in Nat : n = (65534 - SP) \div 2 /\ SP = 65534 - 2 * n
  BY StackSize
<1>2. \A a : load2(a) \in Words
  BY ReadsBytes DEF MachineOK, load2
<1> DEFINE word_(i) == load2(65534 - 2 * i)
<1>3. StackHeld = [i \in 1 .. n |-> word_(i)]
  BY <1>1 DEF StackHeld
<1>4. \A i : word_(i) \in Words
  BY <1>2
<1> HIDE DEF word_
<1>5. StackHeld \in Seq(Words) /\ Len(StackHeld) = n /\ \A i \in 1 .. n : StackHeld[i] = word_(i)
  BY <1>3, <1>4
<1> QED BY <1>1, <1>5 DEF word_

LEMMA FewerWords ==
  ASSUME NEW n \in Nat, NEW q \in 65534 - 2 * n .. 65534
  PROVE  (65534 - q) \div 2 \in Nat /\ (65534 - q) \div 2 <= n
<1> DEFINE d == 65534 - q
<1>1. d \in Nat /\ d <= 2 * n
  OBVIOUS
<1> HIDE DEF d
<1>2. d \div 2 \in Nat /\ d \div 2 <= n
  BY <1>1
<1> QED BY <1>2 DEF d

LEMMA StackDrops ==
  ASSUME MachineOK, StackOK, NEW q \in SP .. 65534, q % 2 = 0, memory' = memory, SP' = q
  PROVE  /\ StackHeld' = SubSeq(StackHeld, 1, (65534 - q) \div 2)
         /\ StackOK'
<1> DEFINE n == Len(StackHeld)  m == (65534 - q) \div 2  s == StackHeld
<1>1. /\ s \in Seq(Words) /\ n \in Nat /\ SP = 65534 - 2 * n
      /\ \A i \in 1 .. n : s[i] = load2(65534 - 2 * i)
  BY StackWords
<1>2. m \in Nat /\ m <= n
  <2>1. q \in 65534 - 2 * n .. 65534 /\ n \in Nat
    BY <1>1
  <2> HIDE DEF n
  <2> QED BY <2>1, FewerWords
<1>3. StackHeld' = [i \in 1 .. m |-> load2(65534 - 2 * i)]
  BY DEF StackHeld, load2
<1> DEFINE t == SubSeq(s, 1, m)
<1>9. q <= 65534
  BY <1>1
<1>8. StackOK'
  BY <1>9 DEF StackOK
<1> HIDE DEF m, s
<1>4. Len(t) = m /\ t \in Seq(Words) /\ \A i \in 1 .. m : t[i] = s[i]
  BY <1>1, <1>2 DEF s
<1>5. t = [i \in 1 .. m |-> t[i]]
  <2> HIDE DEF t
  <2> QED BY <1>4
<1>6. \A i \in 1 .. m : t[i] = load2(65534 - 2 * i)
  BY <1>1, <1>2, <1>4 DEF s
<1>7. StackHeld' = t
  <2> HIDE DEF t
  <2> QED BY <1>3, <1>5, <1>6
<1> QED BY <1>7, <1>8 DEF m, s

LEMMA RunsMove ==
  ASSUME Turn, program[AtLine].op = "MOVE" PROVE Machine!Move
<1> DEFINE l == program[AtLine]
           moved == IF l.a < 8 THEN R[l.a] ELSE IF l.a = 8 /\ l.b # 8 THEN SP ELSE beyond(l.a)
<1>1. /\ Machine!l = l /\ IsInstruction(l) /\ Accepted(l) /\ l.op \in Mnemonics /\ l.rel \in BOOLEAN
      /\ insn = insn_word(l) /\ opcode = Number(l)
      /\ emulate /\ MachineOK /\ KeepsApart /\ StackOK
      /\ \A n : n = (IF Long(l) THEN 4 ELSE 2) /\ Skip(n) => Machine!On
      /\ opcode \notin {3, 8, 9, 11} => DataHeld' = DataHeld
      /\ memory' = memory /\ SP' = SP => StackHeld' = StackHeld
  BY TurnFacts DEF Turn, Ready
<1>2. opcode = 4
  BY <1>1, NumberOf
<1>3. insn % 16 = l.a /\ (insn \div 16) % 16 = l.b /\ l.a \in 0 .. 8 /\ l.b \in 0 .. 8
  BY <1>1, MoveBits, Fields
<1>4. /\ IF l.b \in {8, 9} THEN SP' = moved /\ UNCHANGED R
         ELSE R' = [R EXCEPT ![l.b] = moved] /\ UNCHANGED SP
      /\ Skip(2) /\ UNCHANGED <<memory, flags, terminal>>
  BY <1>1, <1>2, <1>3, EmulateCases DEF MOVE
<1>5. ~Long(l)
  BY DEF Long
<1>6. Machine!On
  BY <1>1, <1>4, <1>5
<1>7. DataHeld' = DataHeld /\ LastSign' = LastSign /\ input' = input /\ output' = output
  BY <1>1, <1>2, <1>4 DEF LastSign, flags, terminal
<1>8. Machine!sp = SP /\ Machine!StackTop = 65534
  BY <1>1, StackWords DEF Machine!sp, Machine!StackTop
<1>9. CASE l.b = 8
  <2>1. l.a # 8 /\ R[l.a] \in SP .. 65534 /\ R[l.a] % 2 = 0
    BY <1>1, <1>9 DEF KeepsApart
  <2>2. SP' = R[l.a] /\ R' = R /\ memory' = memory
    BY <1>3, <1>4, <1>9, <2>1
  <2>3. StackHeld' = SubSeq(StackHeld, 1, (65534 - R[l.a]) \div 2)
    <3> DEFINE q == R[l.a]
    <3>1. q \in SP .. 65534 /\ q % 2 = 0 /\ SP' = q /\ MachineOK /\ StackOK /\ memory' = memory
      BY <1>1, <2>1, <2>2
    <3> HIDE DEF q
    <3>2. StackHeld' = SubSeq(StackHeld, 1, (65534 - q) \div 2)
      BY <3>1, StackDrops
    <3> QED BY <3>2 DEF q
  <2> HIDE DEF l
  <2>4. l.op = "MOVE"
    BY DEF l
  <2> QED BY <1>1, <1>6, <1>7, <1>8, <1>9, <2>1, <2>2, <2>3, <2>4 DEF Machine!Move
<1>10. CASE l.b # 8
  <2>1. R' = [R EXCEPT ![l.b] = IF l.a = 8 THEN SP ELSE R[l.a]] /\ SP' = SP /\ memory' = memory
    BY <1>3, <1>4, <1>10
  <2>2. StackHeld' = StackHeld
    BY <1>1, <2>1
  <2> HIDE DEF l
  <2>3. l.op = "MOVE"
    BY DEF l
  <2> QED BY <1>1, <1>6, <1>7, <1>8, <1>10, <2>1, <2>2, <2>3 DEF Machine!Move
<1> QED BY <1>9, <1>10

LEMMA SameNoName == Machine!NoName = NoName
BY Zenon DEF Machine!NoName, NoName

LEMMA RunsAlu ==
  ASSUME Turn, program[AtLine].op = "ALU" PROVE Machine!Compute
<1> DEFINE l == program[AtLine]  k == Position(alu_ops, l.sub)
<1>1. /\ Machine!l = l /\ IsInstruction(l) /\ Accepted(l) /\ l.op \in Mnemonics /\ l.rel \in BOOLEAN
      /\ insn = insn_word(l) /\ opcode = Number(l)
      /\ emulate /\ MachineOK
      /\ \A n : n = (IF Long(l) THEN 4 ELSE 2) /\ Skip(n) => Machine!On
      /\ opcode \notin {3, 8, 9, 11} => DataHeld' = DataHeld
      /\ memory' = memory /\ SP' = SP => StackHeld' = StackHeld
  BY TurnFacts DEF Turn, Ready
<1>2. opcode = 5
  BY <1>1, NumberOf
<1>3. PICK res \in results :
        /\ R' = IF op \in {6, 7} THEN R ELSE [R EXCEPT ![rc] = res]
        /\ Z' = (res = 0)
        /\ N' = (res >= 32768)
  BY <1>1, <1>2, EmulateCases DEF ALU
<1>4. Skip(2) /\ UNCHANGED <<memory, SP, terminal>>
  BY <1>1, <1>2, EmulateCases DEF ALU
<1>5. op = k - 1 /\ ra = l.a /\ rb = l.b /\ rc = l.c
  BY <1>1, AluBits DEF op, ra, rb, rc, OpIn, RaIn, RbIn, RcIn
<1>6. k \in 1 .. 8 /\ alu_ops[k] = l.sub
  BY <1>1, AluCode DEF Accepted
<1>7. op \in 0 .. 7 /\ op + 1 = k
  BY <1>5, <1>6
<1>8. res \in Machine!Results(l.sub, R[l.a], R[l.b])
  BY <1>1, <1>5, <1>6, <1>7, ResultsAllowed
<1>9. op \in {6, 7} <=> l.sub \in {"CMP", "TEST"}
  <2>1. /\ alu_ops[1] = "ADD" /\ alu_ops[2] = "SUB" /\ alu_ops[3] = "AND" /\ alu_ops[4] = "OR"
        /\ alu_ops[5] = "XOR" /\ alu_ops[6] = "RSHIFT" /\ alu_ops[7] = "CMP" /\ alu_ops[8] = "TEST"
    BY DEF alu_ops
  <2> DEFINE name == l.sub
  <2> HIDE DEF k, name
  <2>2. alu_ops[k] = name
    BY <1>6 DEF name
  <2>3. k = 1 \/ k = 2 \/ k = 3 \/ k = 4 \/ k = 5 \/ k = 6 \/ k = 7 \/ k = 8
    BY <1>6
  <2>4. op \in {6, 7} <=> k \in {7, 8}
    BY <1>5, <1>6
  <2>5. k \in {7, 8} <=> name \in {"CMP", "TEST"}
    BY <2>1, <2>2, <2>3
  <2> QED BY <2>4, <2>5 DEF name
<1>10. R' = IF l.sub \in {"CMP", "TEST"} THEN R ELSE [R EXCEPT ![l.c] = res]
  BY <1>3, <1>5, <1>9
<1>11. LastSign' = Machine!SignOf(res)
  <2>1. res \in Words
    BY <1>1, ResultType
  <2>2. Z' = (res = 0) /\ N' = (res >= 32768)
    BY <1>3
  <2>3. Machine!SignOf(res) = IF res = 0 THEN "zero" ELSE IF res >= 32768 THEN "negative" ELSE "positive"
    BY <2>1 DEF Machine!SignOf, Words
  <2>4. LastSign' = IF Z' THEN "zero" ELSE IF N' THEN "negative" ELSE "positive"
    BY DEF LastSign
  <2>5. LastSign' = IF res = 0 THEN "zero" ELSE IF res >= 32768 THEN "negative" ELSE "positive"
    <3> DEFINE big == res >= 32768  none == res = 0
    <3>1. Z' = none /\ N' = big
      BY <2>2
    <3> HIDE DEF big, none
    <3>2. LastSign' = IF none THEN "zero" ELSE IF big THEN "negative" ELSE "positive"
      BY <2>4, <3>1, Zenon
    <3> QED BY <3>2 DEF big, none
  <2> QED BY <2>3, <2>5
<1>12. ~Long(l)
  BY DEF Long
<1>13. Machine!On
  BY <1>1, <1>4, <1>12
<1>14. DataHeld' = DataHeld /\ StackHeld' = StackHeld /\ input' = input /\ output' = output
  BY <1>1, <1>2, <1>4 DEF terminal
<1> HIDE DEF l
<1>15. l.op = "ALU"
  BY DEF l
<1> QED BY <1>1, <1>8, <1>10, <1>11, <1>13, <1>14, <1>15 DEF Machine!Compute

LEMMA JumpNames ==
  /\ "_Z" # NoName /\ "_NZ" # NoName /\ "_LT" # NoName /\ "_GT" # NoName /\ "_LE" # NoName /\ "_GE" # NoName
BY Zenon DEF NoName

LEMMA SignSets ==
  /\ Machine!Signs(NoName) = {"negative", "zero", "positive"}
  /\ Machine!Signs("_Z") = {"zero"}
  /\ Machine!Signs("_NZ") = {"negative", "positive"}
  /\ Machine!Signs("_LT") = {"negative"}
  /\ Machine!Signs("_GT") = {"positive"}
  /\ Machine!Signs("_LE") = {"negative", "zero"}
  /\ Machine!Signs("_GE") = {"zero", "positive"}
BY JumpNames, SameNoName DEF Machine!Signs

LEMMA JumpSigns ==
  /\ Machine!Signs(jmp_code[1]) = {"negative", "zero", "positive"}
  /\ Machine!Signs(jmp_code[2]) = {"zero"}
  /\ Machine!Signs(jmp_code[3]) = {"negative", "positive"}
  /\ Machine!Signs(jmp_code[4]) = {"negative"}
  /\ Machine!Signs(jmp_code[5]) = {"positive"}
  /\ Machine!Signs(jmp_code[6]) = {"negative", "zero"}
  /\ Machine!Signs(jmp_code[7]) = {"zero", "positive"}
<1>1. Machine!Signs(jmp_code[1]) = {"negative", "zero", "positive"}
  <2>1. jmp_code[1] = NoName
    BY DEF jmp_code
  <2> QED BY <2>1, SignSets
<1>2. Machine!Signs(jmp_code[2]) = {"zero"}
  <2>1. jmp_code[2] = "_Z"
    BY DEF jmp_code
  <2> QED BY <2>1, SignSets
<1>3. Machine!Signs(jmp_code[3]) = {"negative", "positive"}
  <2>1. jmp_code[3] = "_NZ"
    BY DEF jmp_code
  <2> QED BY <2>1, SignSets
<1>4. Machine!Signs(jmp_code[4]) = {"negative"}
  <2>1. jmp_code[4] = "_LT"
    BY DEF jmp_code
  <2> QED BY <2>1, SignSets
<1>5. Machine!Signs(jmp_code[5]) = {"positive"}
  <2>1. jmp_code[5] = "_GT"
    BY DEF jmp_code
  <2> QED BY <2>1, SignSets
<1>6. Machine!Signs(jmp_code[6]) = {"negative", "zero"}
  <2>1. jmp_code[6] = "_LE"
    BY DEF jmp_code
  <2> QED BY <2>1, SignSets
<1>7. Machine!Signs(jmp_code[7]) = {"zero", "positive"}
  <2>1. jmp_code[7] = "_GE"
    BY DEF jmp_code
  <2> QED BY <2>1, SignSets
<1> QED BY <1>1, <1>2, <1>3, <1>4, <1>5, <1>6, <1>7

LEMMA TakenSigns ==
  ASSUME Z \in BOOLEAN, N \in BOOLEAN, SignOK, op \in 0 .. 6
  PROVE  taken <=> LastSign \in Machine!Signs(jmp_code[op + 1])
<1> DEFINE o == op  s == LastSign
<1>1. s \in {"zero", "negative", "positive"} /\ (Z <=> s = "zero") /\ (N <=> s = "negative")
  BY DEF LastSign, SignOK
<1>2. taken = CASE o = 0 -> TRUE [] o = 1 -> Z [] o = 2 -> ~Z [] o = 3 -> N
                [] o = 4 -> ~N /\ ~Z [] o = 5 -> N \/ Z [] o = 6 -> ~N
  BY Zenon DEF taken
<1> DEFINE c0 == o = 0  c1 == o = 1  c2 == o = 2  c3 == o = 3  c4 == o = 4  c5 == o = 5  c6 == o = 6
           t == taken
<1> HIDE DEF s
<1>3. /\ c0 => t
      /\ c1 => (t <=> Z)
      /\ c2 => (t <=> ~Z)
      /\ c3 => (t <=> N)
      /\ c4 => (t <=> ~N /\ ~Z)
      /\ c5 => (t <=> N \/ Z)
      /\ c6 => (t <=> ~N)
  <2>1. t = CASE c0 -> TRUE [] c1 -> Z [] c2 -> ~Z [] c3 -> N
                [] c4 -> ~N /\ ~Z [] c5 -> N \/ Z [] c6 -> ~N
    BY <1>2
  <2>2. /\ c0 => ~c1 /\ ~c2 /\ ~c3 /\ ~c4 /\ ~c5 /\ ~c6
        /\ c1 => ~c0 /\ ~c2 /\ ~c3 /\ ~c4 /\ ~c5 /\ ~c6
        /\ c2 => ~c0 /\ ~c1 /\ ~c3 /\ ~c4 /\ ~c5 /\ ~c6
        /\ c3 => ~c0 /\ ~c1 /\ ~c2 /\ ~c4 /\ ~c5 /\ ~c6
        /\ c4 => ~c0 /\ ~c1 /\ ~c2 /\ ~c3 /\ ~c5 /\ ~c6
        /\ c5 => ~c0 /\ ~c1 /\ ~c2 /\ ~c3 /\ ~c4 /\ ~c6
        /\ c6 => ~c0 /\ ~c1 /\ ~c2 /\ ~c3 /\ ~c4 /\ ~c5
    OBVIOUS
  <2> HIDE DEF c0, c1, c2, c3, c4, c5, c6, t
  <2>3. c0 => t
    BY <2>1, <2>2, Zenon
  <2>4. c1 => (t <=> Z)
    BY <2>1, <2>2, Zenon
  <2>5. c2 => (t <=> ~Z)
    BY <2>1, <2>2, Zenon
  <2>6. c3 => (t <=> N)
    BY <2>1, <2>2, Zenon
  <2>7. c4 => (t <=> ~N /\ ~Z)
    BY <2>1, <2>2, Zenon
  <2>8. c5 => (t <=> N \/ Z)
    BY <2>1, <2>2, Zenon
  <2>9. c6 => (t <=> ~N)
    BY <2>1, <2>2, Zenon
  <2> QED BY <2>3, <2>4, <2>5, <2>6, <2>7, <2>8, <2>9
<1>4. c0 \/ c1 \/ c2 \/ c3 \/ c4 \/ c5 \/ c6
  OBVIOUS
<1> DEFINE signs == Machine!Signs(jmp_code[o + 1])
<1>5. /\ c0 => signs = {"negative", "zero", "positive"}
      /\ c1 => signs = {"zero"}
      /\ c2 => signs = {"negative", "positive"}
      /\ c3 => signs = {"negative"}
      /\ c4 => signs = {"positive"}
      /\ c5 => signs = {"negative", "zero"}
      /\ c6 => signs = {"zero", "positive"}
  <2> DEFINE sets(i) == Machine!Signs(jmp_code[i])
  <2>1. /\ sets(1) = {"negative", "zero", "positive"} /\ sets(2) = {"zero"} /\ sets(3) = {"negative", "positive"}
        /\ sets(4) = {"negative"} /\ sets(5) = {"positive"} /\ sets(6) = {"negative", "zero"}
        /\ sets(7) = {"zero", "positive"}
    BY JumpSigns
  <2>2. signs = sets(o + 1)
    OBVIOUS
  <2> HIDE DEF sets, signs
  <2> QED BY <2>1, <2>2
<1> HIDE DEF o, signs, c0, c1, c2, c3, c4, c5, c6, t
<1>6. t <=> s \in signs
  BY <1>1, <1>3, <1>4, <1>5
<1> QED BY <1>6 DEF o, s, signs, t

LEMMA RunsJump ==
  ASSUME Turn, program[AtLine].op = "JMP" PROVE Machine!Jump
<1> DEFINE l == program[AtLine]  k == Position(jmp_code, l.sub)
<1>1. /\ Machine!l = l /\ IsInstruction(l) /\ Accepted(l) /\ l.op \in Mnemonics /\ l.rel \in BOOLEAN
      /\ insn = insn_word(l) /\ opcode = Number(l) /\ (Long(l) => operand = Operand(program, l))
      /\ emulate /\ MachineOK /\ SignOK
      /\ \A n : n = (IF Long(l) THEN 4 ELSE 2) /\ Skip(n) => Machine!On
      /\ \A addr : PC' = addr => AtLine' = Machine!LineAt(program, addr)
      /\ opcode \notin {3, 8, 9, 11} => DataHeld' = DataHeld
      /\ memory' = memory /\ SP' = SP => StackHeld' = StackHeld
  BY TurnFacts DEF Turn, Ready
<1>2. opcode \in {6, 7} /\ (opcode = 7 <=> l.rel)
  BY <1>1, NumberOf
<1>3. /\ IF taken THEN PC' = IF opcode = 6 THEN operand ELSE R[ra]
         ELSE Skip(IF opcode = 6 THEN 4 ELSE 2)
      /\ UNCHANGED <<memory, R, SP, flags, terminal>>
  BY <1>1, <1>2, EmulateCases DEF JMP
<1>4. op = k - 1 /\ (l.rel => ra = l.a)
  BY <1>1, JumpBits DEF op, ra, OpIn, RaIn
<1>5. k \in 1 .. 7 /\ jmp_code[k] = l.sub
  BY <1>1, JmpCode DEF Accepted
<1>6. op \in 0 .. 6 /\ op + 1 = k
  BY <1>4, <1>5
<1>7. taken <=> LastSign \in Machine!Signs(l.sub)
  BY <1>1, <1>5, <1>6, TakenSigns DEF MachineOK
<1>8. Long(l) <=> ~l.rel
  BY DEF Long
<1>9. IF LastSign \in Machine!Signs(l.sub) THEN AtLine' = Machine!target ELSE Machine!On
  <2>1. CASE LastSign \in Machine!Signs(l.sub)
    <3>1. PC' = IF l.rel THEN R[l.a] ELSE Operand(program, l)
      BY <1>1, <1>2, <1>3, <1>4, <1>7, <1>8, <2>1
    <3>2. AtLine' = Machine!target
      BY <1>1, <3>1, SameListing DEF Machine!target
    <3> QED BY <2>1, <3>2
  <2>2. CASE LastSign \notin Machine!Signs(l.sub)
    <3>1. Machine!On
      BY <1>1, <1>2, <1>3, <1>7, <1>8, <2>2
    <3> QED BY <2>2, <3>1
  <2> QED BY <2>1, <2>2
<1>10. DataHeld' = DataHeld /\ StackHeld' = StackHeld /\ LastSign' = LastSign /\ input' = input /\ output' = output /\ R' = R
  BY <1>1, <1>2, <1>3 DEF LastSign, flags, terminal
<1> HIDE DEF l
<1>11. l.op = "JMP"
  BY DEF l
<1> QED BY <1>1, <1>9, <1>10, <1>11 DEF Machine!Jump

\* A word is put on the stack.
LEMMA Pushes ==
  ASSUME Turn, opcode \in {8, 9, 11}, NEW v \in Words, memory' = store2(v, SP - 2)
  PROVE  /\ StackHeld' = Append(StackHeld, v)
         /\ DataHeld' = DataHeld
         /\ \A a \in Code(program) : ByteIn(memory', a) = ByteIn(memory, a)
<1> DEFINE n == Len(StackHeld)  x == SP - 2  m == memory  mm == memory'  s == StackHeld
<1>1. /\ MachineOK /\ StackOK /\ Cells(memory) /\ SP \in Nat
      /\ (\A a \in Data \ Code(program) : ByteIn(memory', a) = ByteIn(memory, a)) => DataHeld' = DataHeld
  BY TurnFacts DEF MachineOK
<1>2. /\ s \in Seq(Words) /\ n \in Nat /\ SP = 65534 - 2 * n
      /\ \A i \in 1 .. n : s[i] = load2(65534 - 2 * i)
  BY <1>1, StackWords
<1>3. SP' = SP - 2 /\ {SP - 2, (SP - 2) + 1} \cap (Data \cup Code(program)) = {}
  BY TurnTouches
<1>4. x \in Int /\ x = 65534 - 2 * (n + 1)
  <2> HIDE DEF n
  <2> QED BY <1>2
<1>5. /\ \A a : ByteIn(mm, a) = IF a = x THEN v % 256 ELSE IF a = x + 1 THEN v \div 256 ELSE ByteIn(m, a)
      /\ WordIn(mm, x) = v
  BY <1>1, <1>4, StoreReads
<1>6. \A a : a \notin {x, x + 1} => ByteIn(mm, a) = ByteIn(m, a)
  BY <1>5
<1>7. \A a \in Data \cup Code(program) : a \notin {x, x + 1}
  BY <1>3
<1> HIDE DEF x
<1>8. \A a \in Data \cup Code(program) : ByteIn(memory', a) = ByteIn(memory, a)
  BY <1>6, <1>7 DEF m, mm
<1>9. StackHeld' = [i \in 1 .. n + 1 |-> WordIn(mm, 65534 - 2 * i)]
  <2> DEFINE k == (65534 - SP') \div 2
  <2>1. StackHeld' = [i \in 1 .. k |-> WordIn(mm, 65534 - 2 * i)]
    BY DEF StackHeld, load2
  <2>2. k = n + 1
    <3> DEFINE q == SP'
    <3>1. q = 65534 - 2 * (n + 1)
      BY <1>3, <1>4 DEF x
    <3> HIDE DEF q, n
    <3>2. (65534 - q) \div 2 = n + 1
      BY <1>2, <3>1
    <3> QED BY <3>2 DEF q
  <2> HIDE DEF k
  <2> QED BY <2>1, <2>2
<1> HIDE DEF n, m, mm, s
<1>10. ASSUME NEW i \in 1 .. n PROVE WordIn(mm, 65534 - 2 * i) = s[i]
  <2>1. 65534 - 2 * i \notin {x, x + 1} /\ (65534 - 2 * i) + 1 \notin {x, x + 1}
    BY <1>2, <1>4
  <2>2. s[i] = WordIn(m, 65534 - 2 * i)
    BY <1>2 DEF load2, m
  <2> DEFINE y == 65534 - 2 * i
  <2> HIDE DEF y
  <2>3. WordIn(mm, y) = WordIn(m, y)
    BY <1>6, <2>1 DEF WordIn, y
  <2> QED BY <2>2, <2>3 DEF y
<1>11. Append(s, v) = [i \in 1 .. n + 1 |-> IF i = n + 1 THEN v ELSE s[i]]
  <2> DEFINE t == Append(s, v)
  <2>1. s \in Seq(Words) /\ n = Len(s)
    BY <1>2 DEF n, s
  <2>2. t \in Seq(Words) /\ Len(t) = n + 1 /\ \A i \in 1 .. n + 1 : t[i] = IF i = n + 1 THEN v ELSE s[i]
    BY <2>1, AppendParts
  <2> HIDE DEF t
  <2>3. t = [i \in 1 .. n + 1 |-> t[i]]
    BY <2>2
  <2>4. t = [i \in 1 .. n + 1 |-> IF i = n + 1 THEN v ELSE s[i]]
    BY <2>2, <2>3
  <2> QED BY <2>4 DEF t
<1>12. \A i \in 1 .. n + 1 : WordIn(mm, 65534 - 2 * i) = IF i = n + 1 THEN v ELSE s[i]
  <2> DEFINE word_(i) == WordIn(mm, 65534 - 2 * i)
  <2>1. word_(n + 1) = v
    BY <1>4, <1>5
  <2>2. \A i \in 1 .. n : word_(i) = s[i]
    BY <1>10
  <2> HIDE DEF word_
  <2>3. \A i \in 1 .. n + 1 : word_(i) = IF i = n + 1 THEN v ELSE s[i]
    BY <1>2, <2>1, <2>2
  <2> QED BY <2>3 DEF word_
<1>13. StackHeld' = Append(s, v)
  BY <1>9, <1>11, <1>12
<1> QED BY <1>1, <1>8, <1>13 DEF s

LEMMA RunsPush ==
  ASSUME Turn, program[AtLine].op = "PUSH" PROVE Machine!Push
<1> DEFINE l == program[AtLine]
<1>1. /\ Machine!l = l /\ IsInstruction(l) /\ Accepted(l) /\ l.op \in Mnemonics /\ l.rel \in BOOLEAN
      /\ insn = insn_word(l) /\ opcode = Number(l)
      /\ emulate /\ MachineOK
      /\ \A n : n = (IF Long(l) THEN 4 ELSE 2) /\ Skip(n) => Machine!On
  BY TurnFacts
<1>2. opcode = 11
  BY <1>1, NumberOf
<1>3. memory' = store2(R[ra], SP') /\ Skip(2) /\ UNCHANGED <<R, flags, terminal>>
  BY <1>1, <1>2, EmulateCases DEF PUSH
<1>4. SP' = SP - 2
  BY <1>2, TurnTouches
<1>5. R[ra] \in Words
  BY <1>1, InstructionParts DEF MachineOK
<1>6. ra = l.a
  BY <1>1, Decoded DEF ra, RaIn
<1>7. StackHeld' = Append(StackHeld, R[l.a]) /\ DataHeld' = DataHeld
  BY <1>2, <1>3, <1>4, <1>5, <1>6, Pushes
<1>8. ~Long(l)
  BY DEF Long
<1>9. Machine!On
  BY <1>1, <1>3, <1>8
<1>10. LastSign' = LastSign /\ input' = input /\ output' = output /\ R' = R
  BY <1>3 DEF LastSign, flags, terminal
<1> HIDE DEF l
<1>11. l.op = "PUSH"
  BY DEF l
<1> QED BY <1>1, <1>7, <1>9, <1>10, <1>11 DEF Machine!Push

LEMMA RunsCall ==
  ASSUME Turn, program[AtLine].op = "CALL" PROVE Machine!Call
<1> DEFINE l == program[AtLine]
<1>1. /\ Machine!l = l /\ IsInstruction(l) /\ Accepted(l) /\ l.op \in Mnemonics /\ l.rel \in BOOLEAN
      /\ insn = insn_word(l) /\ opcode = Number(l) /\ (Long(l) => operand = Operand(program, l))
      /\ emulate /\ MachineOK /\ Ready
      /\ \A addr : PC' = addr => AtLine' = Machine!LineAt(program, addr)
  BY TurnFacts
<1>2. opcode \in {8, 9} /\ (opcode = 9 <=> l.rel)
  BY <1>1, NumberOf
<1>3. /\ memory' = store2(return_to, SP') /\ UNCHANGED <<R, flags, terminal>>
      /\ PC' = IF opcode = 8 THEN WordIn(memory', Wrap(PC + 2)) ELSE R[ra]
  BY <1>1, <1>2, EmulateCases DEF CALL
<1>4. SP' = SP - 2
  BY <1>2, TurnTouches
<1>5. Long(l) <=> ~l.rel
  BY DEF Long
<1>6. return_to = Machine!following
  <2>1. Machine!following = Wrap(PC + IF Long(l) THEN 4 ELSE 2)
    BY <1>1, AtLineFacts
  <2> QED BY <1>1, <1>2, <1>5, <2>1 DEF return_to
<1>7. return_to \in Words
  BY <1>1, SkipType DEF return_to
<1>8. /\ StackHeld' = Append(StackHeld, return_to) /\ DataHeld' = DataHeld
      /\ \A a \in Code(program) : ByteIn(memory', a) = ByteIn(memory, a)
  BY <1>2, <1>3, <1>4, <1>7, Pushes
<1>9. Long(l) => WordIn(memory', Wrap(PC + 2)) = operand
  <2> SUFFICES ASSUME Long(l) PROVE WordIn(memory', Wrap(PC + 2)) = operand
    OBVIOUS
  <2>1. PC + 3 \in Words /\ {PC + 2, PC + 3} \subseteq Code(program) /\ PC \in Nat
    BY <1>1, AtInstruction DEF Ready, KeepsApart, MachineOK, Words
  <2>2. Wrap(PC + 2) = PC + 2 /\ (PC + 2) + 1 = PC + 3
    BY <2>1 DEF Wrap, Words
  <2> QED BY <1>8, <2>1, <2>2 DEF WordIn, operand, load2
<1>10. l.rel => ra = l.a
  BY <1>1, Decoded DEF ra, RaIn
<1>11. PC' = IF l.rel THEN R[l.a] ELSE Operand(program, l)
  BY <1>1, <1>2, <1>3, <1>5, <1>9, <1>10
<1>12. AtLine' = Machine!target
  BY <1>1, <1>11, SameListing DEF Machine!target
<1>13. LastSign' = LastSign /\ input' = input /\ output' = output /\ R' = R
  BY <1>3 DEF LastSign, flags, terminal
<1> HIDE DEF l
<1>14. l.op = "CALL"
  BY DEF l
<1> QED BY <1>1, <1>6, <1>8, <1>12, <1>13, <1>14 DEF Machine!Call

\* A word is taken from the stack.
LEMMA Pops ==
  ASSUME Turn, SP # 65534
  PROVE  /\ Wrap(SP + 2) = SP + 2
         /\ StackHeld # <<>> /\ load2(SP) = Machine!Last(StackHeld)
         /\ memory' = memory /\ SP' = SP + 2 => StackHeld' = Machine!Front(StackHeld)
         /\ SP' = SP + 2 => StackOK'
<1> DEFINE n == Len(StackHeld)  x == SP + 2  s == StackHeld
<1>1. MachineOK /\ StackOK
  BY TurnFacts
<1>2. /\ s \in Seq(Words) /\ n \in Nat /\ SP = 65534 - 2 * n
      /\ \A i \in 1 .. n : s[i] = load2(65534 - 2 * i)
  BY <1>1, StackWords
<1>3. SP \in Nat
  BY <1>1 DEF MachineOK, Words
<1> HIDE DEF n
<1>4. n # 0 /\ n \in 1 .. n
  BY <1>2
<1>5. x \in SP .. 65534 /\ x % 2 = 0 /\ (65534 - x) \div 2 = n - 1 /\ x \in Nat /\ x < 65536
  <2>1. x = 65534 - 2 * (n - 1)
    BY <1>2
  <2>2. SP = x - 2
    BY <1>3
  <2> HIDE DEF x
  <2>3. x \in SP .. 65534 /\ x \in Nat /\ x < 65536
    BY <1>2, <1>3, <1>4, <2>1, <2>2
  <2>4. x % 2 = 0
    BY <1>2, <1>4, <2>1
  <2>5. (65534 - x) \div 2 = n - 1
    BY <1>2, <1>4, <2>1
  <2> QED BY <2>3, <2>4, <2>5
<1>6. Wrap(x) = x
  <2> HIDE DEF x
  <2> QED BY <1>5 DEF Wrap
<1>7. s # <<>> /\ load2(SP) = Machine!Last(s)
  <2>1. s[n] = load2(SP)
    BY <1>2, <1>4
  <2>2. s # <<>>
    BY <1>2, <1>4 DEF n
  <2> QED BY <2>1, <2>2 DEF Machine!Last, n
<1> HIDE DEF x
<1>8. ASSUME memory' = memory, SP' = x PROVE StackHeld' = Machine!Front(s)
  <2>1. StackHeld' = SubSeq(StackHeld, 1, (65534 - x) \div 2)
    BY <1>1, <1>5, <1>8, StackDrops
  <2> QED BY <1>5, <2>1 DEF Machine!Front, n, s
<1>9. ASSUME SP' = x PROVE StackOK'
  <2>1. x <= 65534
    BY <1>3, <1>5
  <2> QED BY <1>5, <1>9, <2>1 DEF StackOK
<1> QED BY <1>6, <1>7, <1>8, <1>9 DEF x, s

LEMMA RunsPop ==
  ASSUME Turn, program[AtLine].op = "POP" PROVE Machine!Pop
<1> DEFINE l == program[AtLine]
<1>1. /\ Machine!l = l /\ IsInstruction(l) /\ Accepted(l) /\ l.op \in Mnemonics /\ l.rel \in BOOLEAN
      /\ insn = insn_word(l) /\ opcode = Number(l)
      /\ emulate /\ MachineOK /\ KeepsApart
      /\ \A n : n = (IF Long(l) THEN 4 ELSE 2) /\ Skip(n) => Machine!On
      /\ opcode \notin {3, 8, 9, 11} => DataHeld' = DataHeld
  BY TurnFacts
<1>2. opcode = 12
  BY <1>1, NumberOf
<1>3. R' = [R EXCEPT ![ra] = load2(SP)] /\ SP' = Wrap(SP + 2) /\ Skip(2) /\ UNCHANGED <<memory, flags, terminal>>
  BY <1>1, <1>2, EmulateCases DEF POP
<1>4. SP # 65534
  BY <1>1 DEF KeepsApart
<1>5. ra = l.a
  BY <1>1, Decoded DEF ra, RaIn
<1>6. /\ StackHeld # <<>> /\ load2(SP) = Machine!Last(StackHeld)
      /\ StackHeld' = Machine!Front(StackHeld)
  BY <1>3, <1>4, Pops
<1>7. R' = [R EXCEPT ![l.a] = Machine!Last(StackHeld)]
  BY <1>3, <1>5, <1>6
<1>8. ~Long(l)
  BY DEF Long
<1>9. Machine!On
  BY <1>1, <1>3, <1>8
<1>10. LastSign' = LastSign /\ input' = input /\ output' = output /\ DataHeld' = DataHeld
  BY <1>1, <1>2, <1>3 DEF LastSign, flags, terminal
<1> HIDE DEF l
<1>11. l.op = "POP"
  BY DEF l
<1> QED BY <1>1, <1>6, <1>7, <1>9, <1>10, <1>11 DEF Machine!Pop

LEMMA RunsReturn ==
  ASSUME Turn, program[AtLine].op = "RET" PROVE Machine!Return
<1> DEFINE l == program[AtLine]
<1>1. /\ Machine!l = l /\ IsInstruction(l) /\ Accepted(l) /\ l.op \in Mnemonics /\ l.rel \in BOOLEAN
      /\ opcode = Number(l)
      /\ emulate /\ MachineOK /\ KeepsApart
      /\ \A addr : PC' = addr => AtLine' = Machine!LineAt(program, addr)
      /\ opcode \notin {3, 8, 9, 11} => DataHeld' = DataHeld
  BY TurnFacts
<1>2. opcode = 10
  BY <1>1, NumberOf
<1>3. PC' = load2(SP) /\ SP' = Wrap(SP + 2) /\ UNCHANGED <<memory, R, flags, terminal>>
  BY <1>1, <1>2, EmulateCases DEF RET
<1>4. SP # 65534
  BY <1>1 DEF KeepsApart
<1>5. /\ StackHeld # <<>> /\ load2(SP) = Machine!Last(StackHeld)
      /\ StackHeld' = Machine!Front(StackHeld)
  BY <1>3, <1>4, Pops
<1>6. AtLine' = Machine!LineAt(program, Machine!Last(StackHeld))
  BY <1>1, <1>3, <1>5
<1>7. LastSign' = LastSign /\ input' = input /\ output' = output /\ R' = R /\ DataHeld' = DataHeld
  BY <1>1, <1>2, <1>3 DEF LastSign, flags, terminal
<1> HIDE DEF l
<1>8. l.op = "RET"
  BY DEF l
<1> QED BY <1>1, <1>5, <1>6, <1>7, <1>8 DEF Machine!Return

LEMMA RunsIn ==
  ASSUME Turn, program[AtLine].op = "IN" PROVE Machine!In
<1> DEFINE l == program[AtLine]
<1>1. /\ Machine!l = l /\ IsInstruction(l) /\ Accepted(l) /\ l.op \in Mnemonics /\ l.rel \in BOOLEAN
      /\ insn = insn_word(l) /\ opcode = Number(l)
      /\ emulate /\ MachineOK
      /\ \A n : n = (IF Long(l) THEN 4 ELSE 2) /\ Skip(n) => Machine!On
      /\ opcode \notin {3, 8, 9, 11} => DataHeld' = DataHeld
      /\ memory' = memory /\ SP' = SP => StackHeld' = StackHeld
  BY TurnFacts
<1>2. opcode = 13
  BY <1>1, NumberOf
<1>3. /\ IF input = <<>> THEN R' = [R EXCEPT ![ra] = 65535] /\ UNCHANGED input
         ELSE R' = [R EXCEPT ![ra] = Head(input)] /\ input' = Tail(input)
      /\ Skip(2) /\ UNCHANGED <<memory, SP, flags, output>>
  BY <1>1, <1>2, EmulateCases DEF IN_
<1>4. ra = l.a
  BY <1>1, Decoded DEF ra, RaIn
<1>5. /\ R' = [R EXCEPT ![l.a] = IF input = <<>> THEN 65535 ELSE Head(input)]
      /\ input' = IF input = <<>> THEN <<>> ELSE Tail(input)
  BY <1>3, <1>4
<1>6. ~Long(l)
  BY DEF Long
<1>7. Machine!On
  BY <1>1, <1>3, <1>6
<1>8. DataHeld' = DataHeld /\ StackHeld' = StackHeld /\ LastSign' = LastSign /\ output' = output
  BY <1>1, <1>2, <1>3 DEF LastSign, flags
<1> HIDE DEF l
<1>9. l.op = "IN"
  BY DEF l
<1> QED BY <1>1, <1>5, <1>7, <1>8, <1>9 DEF Machine!In

LEMMA RunsOut ==
  ASSUME Turn, program[AtLine].op = "OUT" PROVE Machine!Out
<1> DEFINE l == program[AtLine]
<1>1. /\ Machine!l = l /\ IsInstruction(l) /\ Accepted(l) /\ l.op \in Mnemonics /\ l.rel \in BOOLEAN
      /\ insn = insn_word(l) /\ opcode = Number(l)
      /\ emulate /\ MachineOK
      /\ \A n : n = (IF Long(l) THEN 4 ELSE 2) /\ Skip(n) => Machine!On
      /\ opcode \notin {3, 8, 9, 11} => DataHeld' = DataHeld
      /\ memory' = memory /\ SP' = SP => StackHeld' = StackHeld
  BY TurnFacts
<1>2. opcode = 14
  BY <1>1, NumberOf
<1>3. output' = Append(output, R[ra] % 256) /\ Skip(2) /\ UNCHANGED <<memory, R, SP, flags, input>>
  BY <1>1, <1>2, EmulateCases DEF OUT
<1>4. ra = l.a
  BY <1>1, Decoded DEF ra, RaIn
<1>5. output' = Append(output, R[l.a] % 256)
  BY <1>3, <1>4
<1>6. ~Long(l)
  BY DEF Long
<1>7. Machine!On
  BY <1>1, <1>3, <1>6
<1>8. DataHeld' = DataHeld /\ StackHeld' = StackHeld /\ LastSign' = LastSign /\ input' = input /\ R' = R
  BY <1>1, <1>2, <1>3 DEF LastSign, flags
<1> HIDE DEF l
<1>9. l.op = "OUT"
  BY DEF l
<1> QED BY <1>1, <1>5, <1>7, <1>8, <1>9 DEF Machine!Out

\* A turn is one step of the abstract machine.
LEMMA RunsTurn ==
  ASSUME Turn PROVE Machine!Next
<1> DEFINE l == program[AtLine]
<1>1. /\ Machine!l = l /\ l.op \in Mnemonics /\ l.rel \in BOOLEAN /\ opcode = Number(l) /\ emulate
      /\ program' = program /\ KeepsApart
  BY TurnFacts
<1>2. phase = "run" /\ phase' = "run" /\ AtLine # 0
  BY <1>1 DEF Turn, Ready, KeepsApart
<1>3. l.op # "HALT"
  BY <1>1, EmulatedOpcode, NumberOf
<1>4. Machine!Instruction
  <2>1. l.op = "SET" => Machine!Instruction
    BY RunsSet DEF Machine!Instruction
  <2>2. l.op = "LOAD" => Machine!Instruction
    BY RunsLoad DEF Machine!Instruction
  <2>3. l.op = "STORE" => Machine!Instruction
    BY RunsStore DEF Machine!Instruction
  <2>4. l.op = "MOVE" => Machine!Instruction
    BY RunsMove DEF Machine!Instruction
  <2>5. l.op = "ALU" => Machine!Instruction
    BY RunsAlu DEF Machine!Instruction
  <2>6. l.op = "JMP" => Machine!Instruction
    BY RunsJump DEF Machine!Instruction
  <2>7. l.op = "CALL" => Machine!Instruction
    BY RunsCall DEF Machine!Instruction
  <2>8. l.op = "RET" => Machine!Instruction
    BY RunsReturn DEF Machine!Instruction
  <2>9. l.op = "PUSH" => Machine!Instruction
    BY RunsPush DEF Machine!Instruction
  <2>10. l.op = "POP" => Machine!Instruction
    BY RunsPop DEF Machine!Instruction
  <2>11. l.op = "IN" => Machine!Instruction
    BY RunsIn DEF Machine!Instruction
  <2>12. l.op = "OUT" => Machine!Instruction
    BY RunsOut DEF Machine!Instruction
  <2> HIDE DEF l
  <2> QED BY <1>1, <1>3, <2>1, <2>2, <2>3, <2>4, <2>5, <2>6, <2>7, <2>8, <2>9, <2>10, <2>11, <2>12 DEF Mnemonics
<1>5. Stopped = FALSE /\ Stopped' = FALSE
  BY <1>2 DEF Stopped
<1> QED BY <1>1, <1>2, <1>4, <1>5 DEF Machine!Next

\* So is the turn that ends the run.
LEMMA RunsHalt ==
  ASSUME Ready, HaltRun PROVE Machine!Next
<1> DEFINE l == program[AtLine]
<1>1. /\ Machine!l = l /\ l.op \in Mnemonics /\ opcode = Number(l) /\ insn = insn_word(l)
      /\ IsInstruction(l) /\ Accepted(l)
  BY AtLineFacts
<1>2. l.rel \in BOOLEAN
  BY <1>1, Fields
<1>3. phase = "run" /\ phase' = "halted" /\ UNCHANGED <<asm, cpu>> /\ halts
  BY DEF HaltRun
<1>4. l.op = "HALT"
  <2>1. opcode = 15 \/ (opcode \in {6, 7} /\ op = 7)
    BY <1>1, <1>2, <1>3, NumberOf DEF halts
  <2>2. ASSUME opcode \in {6, 7} PROVE op # 7
    <3>1. l.op = "JMP"
      BY <1>1, <1>2, <2>2, NumberOf
    <3>2. op = Position(jmp_code, l.sub) - 1 /\ Position(jmp_code, l.sub) \in 1 .. 7
      BY <1>1, <3>1, JumpBits, JmpCode DEF op, OpIn, Accepted
    <3> QED BY <3>2
  <2>3. opcode = 15
    BY <2>1, <2>2
  <2> QED BY <1>1, <1>2, <2>3, NumberOf
<1>5. UNCHANGED <<program, memory, R, PC, SP, Z, N, input, output>>
  BY <1>3 DEF asm, cpu
<1>6. AtLine' = AtLine /\ LastSign' = LastSign /\ StackHeld' = StackHeld
  BY <1>5 DEF AtLine, LastSign, StackHeld, load2
<1>7. DataHeld' = DataHeld
  BY <1>3, <1>5 DEF DataHeld
<1>8. Stopped = FALSE /\ Stopped' = TRUE
  BY <1>3 DEF Stopped
<1>9. AtLine # 0
  BY DEF Ready, KeepsApart
<1> HIDE DEF l
<1>10. Machine!Halt
  BY <1>1, <1>4, <1>5, <1>6, <1>7, <1>8 DEF Machine!Halt
<1> QED BY <1>5, <1>8, <1>9, <1>10 DEF Machine!Next

-----------------------------------------------------------------------------
\* The other steps leave what there is of the abstract machine.

mvars == <<program, AtLine, R, LastSign, DataHeld, StackHeld, input, output, Stopped>>

LEMMA AssembleStutters ==
  ASSUME Assemble PROVE UNCHANGED mvars
<1>1. do_line /\ phase = "assemble" /\ phase' = "assemble" /\ UNCHANGED cpu
  BY DEF Assemble
<1>2. UNCHANGED <<program, memory, R, PC, SP, Z, N, input, output>>
  BY <1>1 DEF cpu, do_line
<1>3. AtLine' = AtLine /\ LastSign' = LastSign /\ StackHeld' = StackHeld
  BY <1>2 DEF AtLine, LastSign, StackHeld, load2
<1>4. DataHeld' = DataHeld /\ Stopped' = Stopped
  BY <1>1, <1>2 DEF DataHeld, Stopped
<1> QED BY <1>2, <1>3, <1>4 DEF mvars

LEMMA LoadStutters ==
  ASSUME AssemblerOK, SymbolsOK, DataOK, StartOK, Load_ PROVE UNCHANGED mvars
<1>1. /\ phase = "assemble" /\ UNCHANGED <<asm, R, PC, SP, flags, terminal>>
      /\ phase' \in {"failed", "run"} /\ (phase' = "failed" => memory' = memory)
  BY DEF Load_
<1>2. UNCHANGED <<program, R, PC, SP, Z, N, input, output>>
  BY <1>1 DEF asm, flags, terminal
<1>3. AtLine' = AtLine /\ LastSign' = LastSign
  BY <1>2 DEF AtLine, LastSign
<1>4. SP = 65534 /\ SP' = 65534
  BY <1>1, <1>2 DEF StartOK
<1>5. StackHeld = <<>> /\ StackHeld' = <<>>
  <2>1. (65534 - 65534) \div 2 = 0
    OBVIOUS
  <2>2. StackHeld = [i \in 1 .. 0 |-> load2(65534 - 2 * i)]
    BY <1>4, <2>1 DEF StackHeld
  <2>3. StackHeld' = [i \in 1 .. 0 |-> WordIn(memory', 65534 - 2 * i)]
    BY <1>4, <2>1 DEF StackHeld, load2
  <2> QED BY <2>2, <2>3
<1>6. DataHeld = [addr \in Data \ Code(program) |-> InitialByte(program, addr)]
  BY <1>1 DEF DataHeld
<1>7. CASE phase' = "failed"
  <2>1. DataHeld' = DataHeld /\ Stopped' = Stopped
    BY <1>1, <1>2, <1>7 DEF DataHeld, Stopped
  <2> QED BY <1>2, <1>3, <1>5, <2>1 DEF mvars
<1>8. CASE phase' = "run"
  <2>1. DataHeld' = [addr \in Data \ Code(program) |-> ByteIn(memory', addr)]
    BY <1>2, <1>8 DEF DataHeld
  <2>2. \A addr \in Data \ Code(program) : ByteIn(memory', addr) = InitialByte(program, addr)
    BY <1>8, LoadedData
  <2>3. DataHeld' = DataHeld
    BY <1>6, <2>1, <2>2
  <2>4. Stopped' = Stopped
    BY <1>1, <1>8 DEF Stopped
  <2> QED BY <1>2, <1>3, <1>5, <2>3, <2>4 DEF mvars
<1> QED BY <1>1, <1>7, <1>8

LEMMA RestStutters ==
  ASSUME Terminated \/ UNCHANGED vars PROVE UNCHANGED mvars
<1>1. UNCHANGED <<program, memory, R, PC, SP, Z, N, input, output, phase>>
  BY DEF Terminated, vars, asm, cpu
<1>2. AtLine' = AtLine /\ LastSign' = LastSign /\ StackHeld' = StackHeld
  BY <1>1 DEF AtLine, LastSign, StackHeld, load2
<1>3. DataHeld' = DataHeld /\ Stopped' = Stopped
  BY <1>1 DEF DataHeld, Stopped
<1> QED BY <1>1, <1>2, <1>3 DEF mvars

-----------------------------------------------------------------------------
\* The inductive invariant.

RunsOK ==
  /\ AssemblerOK /\ Safe /\ SymbolsOK /\ OperandsOK /\ WordsKept
  /\ DataOK /\ SignOK /\ StackOK /\ StartOK

LEMMA RunsInit == Init => RunsOK /\ Machine!Init
<1> SUFFICES ASSUME Init PROVE RunsOK /\ Machine!Init
  OBVIOUS
<1>1. PC = 0 /\ SP = 65534 /\ Z = FALSE /\ N = FALSE /\ phase = "assemble" /\ output = <<>>
      /\ R = [r \in 0 .. 7 |-> 0]
  BY DEF Init
<1>2. SignOK
  BY <1>1 DEF SignOK
<1>3. StackOK /\ StartOK
  BY <1>1 DEF StackOK, StartOK
<1>4. RunsOK
  BY <1>2, <1>3, AssemblerInit, SafeInit, SymbolsInit, WordsInit, DataInit DEF RunsOK
<1>5. AtLine = Machine!LineAt(program, 0)
  BY <1>1, SameListing DEF AtLine
<1>6. LastSign = "positive" /\ Stopped = FALSE
  BY <1>1 DEF LastSign, Stopped
<1>7. DataHeld = [addr \in Data \ Machine!Code(program) |-> Machine!InitialByte(program, addr)]
  <2>1. DataHeld = [addr \in Data \ Code(program) |-> InitialByte(program, addr)]
    BY <1>1 DEF DataHeld
  <2> QED BY <2>1, SameListing
<1>8. StackHeld = <<>>
  <2>1. (65534 - 65534) \div 2 = 0
    OBVIOUS
  <2>2. StackHeld = [i \in 1 .. 0 |-> load2(65534 - 2 * i)]
    BY <1>1, <2>1 DEF StackHeld
  <2> QED BY <2>2
<1>9. Machine!Init
  BY <1>1, <1>5, <1>6, <1>7, <1>8 DEF Machine!Init
<1> QED BY <1>4, <1>9

\* Only a turn changes the flags and SP.
LEMMA SignStep ==
  ASSUME MachineOK, SignOK, emulate PROVE SignOK'
<1>1. CASE ALU
  <2>1. PICK res \in results : Z' = (res = 0) /\ N' = (res >= 32768)
    BY <1>1 DEF ALU
  <2>2. ~(res = 0 /\ res >= 32768)
    OBVIOUS
  <2> DEFINE big == res >= 32768  none == res = 0
  <2>3. Z' = none /\ N' = big /\ ~(none /\ big)
    BY <2>1, <2>2
  <2> HIDE DEF big, none
  <2> QED BY <2>3 DEF SignOK
<1>2. CASE ~ALU
  <2>1. UNCHANGED flags
    BY <1>2 DEF emulate, SET, LOAD, STORE, MOVE, JMP, CALL, RET, PUSH, POP, IN_, OUT
  <2> QED BY <2>1 DEF flags, SignOK
<1> QED BY <1>1, <1>2

LEMMA StackStep ==
  ASSUME Turn PROVE StackOK'
<1> DEFINE l == program[AtLine]
<1>1. /\ l.op \in Mnemonics /\ l.rel \in BOOLEAN /\ opcode = Number(l) /\ emulate
      /\ insn = insn_word(l) /\ IsInstruction(l) /\ Accepted(l)
      /\ KeepsApart /\ StackOK /\ MachineOK /\ SP \in Nat
  BY TurnFacts
<1>2. opcode \in 1 .. 14
  BY <1>1, EmulatedOpcode
<1>3. SP' = SP => StackOK'
  BY <1>1 DEF StackOK
<1>4. CASE opcode \in {1, 2, 3, 5, 6, 7, 13, 14}
  <2>1. SP' = SP
    BY <1>1, <1>4, EmulateCases DEF SET, LOAD, STORE, ALU, JMP, IN_, OUT
  <2> QED BY <1>3, <2>1
<1>5. CASE opcode \in {8, 9, 11}
  <2>1. SP' = SP - 2
    BY <1>5, TurnTouches
  <2>2. SP - 2 <= 65534 /\ (SP - 2) % 2 = 0
    BY <1>1 DEF StackOK
  <2> DEFINE x == SP - 2
  <2>3. SP' = x /\ x <= 65534 /\ x % 2 = 0
    BY <2>1, <2>2
  <2> HIDE DEF x
  <2> QED BY <2>3 DEF StackOK
<1>6. CASE opcode \in {10, 12}
  <2>1. l.op \in {"RET", "POP"}
    BY <1>1, <1>6, NumberOf
  <2>2. SP # 65534
    BY <1>1, <2>1 DEF KeepsApart
  <2>3. SP' = Wrap(SP + 2)
    BY <1>1, <1>6, EmulateCases DEF RET, POP
  <2> QED BY <2>2, <2>3, Pops
<1>7. CASE opcode = 4
  <2>1. l.op = "MOVE"
    BY <1>1, <1>7, NumberOf
  <2>2. insn % 16 = l.a /\ (insn \div 16) % 16 = l.b /\ l.a \in 0 .. 8
    BY <1>1, <2>1, MoveBits, Fields
  <2> DEFINE moved == IF l.a < 8 THEN R[l.a] ELSE IF l.a = 8 /\ l.b # 8 THEN SP ELSE beyond(l.a)
  <2>7. IF l.b \in {8, 9} THEN SP' = moved ELSE UNCHANGED SP
    BY <1>1, <1>7, <2>2, EmulateCases DEF MOVE
  <2>6. l.a \in 0 .. 8 /\ l.b \in 0 .. 8
    BY <1>1, Fields
  <2>3. IF l.b = 8 THEN l.a < 8 => SP' = R[l.a] ELSE UNCHANGED SP
    BY <2>6, <2>7
  <2> HIDE DEF moved
  <2>4. CASE l.b = 8
    <3> DEFINE q == R[l.a]
    <3>1. l.a # 8 /\ q \in SP .. 65534 /\ q % 2 = 0
      BY <1>1, <2>1, <2>4 DEF KeepsApart
    <3>2. SP' = q
      BY <2>2, <2>3, <2>4, <3>1
    <3> HIDE DEF q
    <3>3. q <= 65534
      BY <1>1, <3>1
    <3> QED BY <3>1, <3>2, <3>3 DEF StackOK
  <2>5. CASE l.b # 8
    BY <1>3, <2>3, <2>5
  <2> QED BY <2>4, <2>5
<1> QED BY <1>2, <1>4, <1>5, <1>6, <1>7

LEMMA DataStep ==
  AssemblerOK /\ SymbolsOK /\ DataOK /\ [Next]_vars => DataOK'
<1>1. Assemble => do_line
  BY DEF Assemble
<1>2. Load_ \/ Execute \/ HaltRun \/ Terminated \/ UNCHANGED vars => UNCHANGED asm
  BY DEF Load_, Execute, HaltRun, Terminated, vars
<1>3. DataOK /\ UNCHANGED asm => DataOK'
  BY DEF DataOK, HasData, asm
<1> QED BY <1>1, <1>2, <1>3, DataLine DEF Next

\* A step of a program of the kind, seen from the abstract machine.
LEMMA RunsStep ==
  ASSUME RunsOK, WellBehaved, WellBehaved', [Next]_vars
  PROVE  RunsOK' /\ [Machine!Next]_mvars
<1>1. /\ AssemblerOK' /\ Safe' /\ SymbolsOK' /\ OperandsOK' /\ DataOK'
  BY AssemblerStep, SafeStep, SymbolsStep, DataStep DEF RunsOK
<1>2. ASSUME UNCHANGED <<Z, N, SP>> PROVE SignOK' /\ StackOK'
  BY <1>2 DEF RunsOK, SignOK, StackOK
<1>3. CASE Assemble
  <2>1. phase = "assemble" /\ phase' = "assemble" /\ UNCHANGED <<Z, N, SP, PC>>
    BY <1>3 DEF Assemble, cpu
  <2>2. StartOK'
    BY <2>1 DEF RunsOK, StartOK
  <2>3. WordsKept'
    BY <2>1, WordsStep DEF RunsOK
  <2> QED BY <1>1, <1>2, <1>3, <2>1, <2>2, <2>3, AssembleStutters DEF RunsOK
<1>4. CASE Load_
  <2>1. phase = "assemble" /\ phase' \in {"run", "failed"} /\ UNCHANGED <<asm, Z, N, SP, PC>> /\ PC = 0 /\ SP = 65534
    BY <1>4 DEF Load_, RunsOK, StartOK, flags
  <2>2. phase' = "run" => LineAt(program, 0)' # 0
    BY <2>1 DEF WellBehaved, KeepsApart, AtLine
  <2>3. StartOK'
    BY <2>1, <2>2 DEF StartOK
  <2>4. WordsKept'
    BY <2>1, WordsStep DEF RunsOK
  <2> QED BY <1>1, <1>2, <1>4, <2>1, <2>3, <2>4, LoadStutters DEF RunsOK
<1>5. CASE Execute
  <2>1. phase = "run" /\ phase' = "run" /\ UNCHANGED asm /\ emulate
    BY <1>5 DEF Execute, WellBehaved
  <2>2. Turn
    BY <1>5, <2>1 DEF Turn, Ready, RunsOK, WellBehaved
  <2>3. SparesCode
    BY <2>2, TurnTouches
  <2>4. WordsKept'
    BY <2>3, WordsStep DEF RunsOK
  <2>5. SignOK'
    BY <2>1, SignStep DEF RunsOK, Safe
  <2>6. StackOK'
    BY <2>2, StackStep
  <2>7. StartOK'
    BY <2>1 DEF RunsOK, StartOK, asm
  <2> QED BY <1>1, <2>2, <2>4, <2>5, <2>6, <2>7, RunsTurn DEF RunsOK
<1>6. CASE HaltRun
  <2>1. phase = "run" /\ phase' = "halted" /\ UNCHANGED <<asm, Z, N, SP>>
    BY <1>6 DEF HaltRun, cpu
  <2>2. Ready
    BY <2>1 DEF Ready, RunsOK, WellBehaved
  <2>3. WordsKept'
    BY <2>1 DEF RunsOK, WordsKept, WordsOK, asm
  <2>4. StartOK'
    BY <2>1 DEF StartOK
  <2> QED BY <1>1, <1>2, <1>6, <2>1, <2>2, <2>3, <2>4, RunsHalt DEF RunsOK
<1>7. CASE Terminated \/ UNCHANGED vars
  <2>1. UNCHANGED <<asm, program, memory, Z, N, SP, PC, phase>>
    BY <1>7 DEF Terminated, vars, asm, cpu
  <2>2. WordsKept'
    BY <2>1 DEF RunsOK, WordsKept, WordsOK, CodeOK, asm
  <2>3. StartOK'
    BY <2>1 DEF RunsOK, StartOK
  <2> QED BY <1>1, <1>2, <1>7, <2>1, <2>2, <2>3, RestStutters DEF RunsOK
<1> QED BY <1>3, <1>4, <1>5, <1>6, <1>7 DEF Next

\* Assembled, loaded, decoded and executed, a program that keeps apart what the
\* lines leave to its author does what its lines say: each turn of runsim is
\* the line at PC, carried out by the abstract machine.
THEOREM RunsAsWritten == Spec /\ []WellBehaved => RunsProgram
<1>1. RunsOK /\ WellBehaved /\ WellBehaved' /\ [Next]_vars => RunsOK' /\ [Machine!Next]_mvars
  BY RunsStep
<1>2. Spec /\ []WellBehaved => Machine!Init /\ [][Machine!Next]_mvars
  BY <1>1, RunsInit, PTL DEF Spec
<1>3. Machine!Init /\ [][Machine!Next]_mvars => RunsProgram
  BY DEF RunsProgram, Machine!Spec, mvars
<1> QED BY <1>2, <1>3

=============================================================================
