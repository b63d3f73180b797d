--------------------------- MODULE SimulatorProofs ---------------------------
(***************************************************************************)
(* Programs of any length, assembled, loaded and run: the machine's words  *)
(* stay words, whatever it executes, and the labels are resolved.          *)
(***************************************************************************)
EXTENDS Simulator, WellFoundedInduction, TLAPS

\* A set of numbers with 0 and every successor has them all.
LEMMA SetInduction ==
  ASSUME NEW S, 0 \in S, \A n \in Nat : n \in S => n + 1 \in S
  PROVE  Nat \subseteq S
<1>1. SUFFICES ASSUME Nat \ S # {} PROVE FALSE
  OBVIOUS
<1>2. PICK m \in Nat \ S : \A k \in Nat \ S : <<k, m>> \notin OpToRel(<, Nat)
  BY <1>1, NatLessThanWellFounded, WFMin
<1>3. \A k \in Nat \ S : ~(k < m)
  BY <1>2 DEF OpToRel
<1>4. m # 0 /\ m - 1 \in Nat /\ m - 1 < m /\ m = (m - 1) + 1
  OBVIOUS
<1> QED BY <1>3, <1>4

\* Up to a bound.
LEMMA RangeInduction ==
  ASSUME NEW K \in Nat, NEW S, 0 \in S, \A n \in 1 .. K : n - 1 \in S => n \in S
  PROVE  0 .. K \subseteq S
<1> DEFINE T == {n \in Nat : n <= K => n \in S}
<1>1. 0 \in T
  OBVIOUS
<1>2. ASSUME NEW n \in Nat, n \in T PROVE n + 1 \in T
  <2>1. CASE n + 1 <= K
    <3>1. n + 1 \in 1 .. K /\ (n + 1) - 1 = n /\ n \in S
      BY <1>2, <2>1
    <3> QED BY <3>1
  <2>2. CASE ~(n + 1 <= K)
    BY <2>2
  <2> QED BY <2>1, <2>2
<1>3. Nat \subseteq T
  <2> HIDE DEF T
  <2> QED BY <1>1, <1>2, SetInduction
<1> QED BY <1>3

\* A function that is defined by recursion on its argument exists: turn n makes
\* step[<<n, v>>] of v.
Turns(g, K, S, c, step) ==
  g \in [0 .. K -> S] /\ g[0] = c /\ \A n \in 1 .. K : g[n] = step[<<n, g[n - 1]>>]

LEMMA Recursion ==
  ASSUME NEW K \in Nat, NEW S, NEW c \in S, NEW step \in [(1 .. K) \X S -> S]
  PROVE  \E g : Turns(g, K, S, c, step)
<1> DEFINE Runs == {k \in 0 .. K : \E g \in [0 .. k -> S] :
                      g[0] = c /\ \A n \in 1 .. k : g[n] = step[<<n, g[n - 1]>>]}
<1>1. 0 \in Runs
  <2> DEFINE g == [n \in 0 .. 0 |-> c]
  <2>1. g \in [0 .. 0 -> S] /\ g[0] = c
    OBVIOUS
  <2> HIDE DEF g
  <2> QED BY <2>1
<1>2. ASSUME NEW k \in 1 .. K, k - 1 \in Runs PROVE k \in Runs
  <2>1. PICK g \in [0 .. k - 1 -> S] : g[0] = c /\ \A n \in 1 .. k - 1 : g[n] = step[<<n, g[n - 1]>>]
    BY <1>2
  <2> DEFINE h == [n \in 0 .. k |-> IF n = k THEN step[<<k, g[k - 1]>>] ELSE g[n]]
  <2>2. g[k - 1] \in S /\ step[<<k, g[k - 1]>>] \in S
    BY <2>1
  <2>3. h \in [0 .. k -> S] /\ h[0] = c
    BY <2>1, <2>2
  <2>4. ASSUME NEW n \in 1 .. k PROVE h[n] = step[<<n, h[n - 1]>>]
    <3>1. CASE n = k
      <4>1. h[n] = step[<<k, g[k - 1]>>] /\ h[n - 1] = g[k - 1]
        BY <3>1
      <4> HIDE DEF h
      <4> QED BY <3>1, <4>1
    <3>2. CASE n # k
      <4>1. n \in 1 .. k - 1 /\ h[n] = g[n] /\ h[n - 1] = g[n - 1]
        BY <3>2
      <4> QED BY <2>1, <4>1
    <3> QED BY <3>1, <3>2
  <2> HIDE DEF h
  <2> QED BY <2>3, <2>4
<1>3. K \in Runs
  <2> HIDE DEF Runs
  <2> QED BY <1>1, <1>2, RangeInduction
<1> QED BY <1>3 DEF Turns

-----------------------------------------------------------------------------
\* Words.

LEMMA WordParts ==
  ASSUME NEW x \in Words
  PROVE  x % 256 \in Bytes /\ x \div 256 \in Bytes /\ x = (x % 256) + 256 * (x \div 256)
BY DEF Words, Bytes

LEMMA Wraps == \A n \in Int : Wrap(n) \in Words
BY DEF Wrap, Words

LEMMA WordOf ==
  ASSUME NEW x \in Bytes, NEW y \in Bytes PROVE x + 256 * y \in Words
BY DEF Bytes, Words

\* What the machine reads is bytes and words.
Cells(bytes) == \A addr \in DOMAIN bytes : bytes[addr] \in Bytes

LEMMA ReadsBytes ==
  ASSUME NEW bytes, Cells(bytes), NEW addr
  PROVE  ByteIn(bytes, addr) \in Bytes /\ WordIn(bytes, addr) \in Words
<1>1. \A a : ByteIn(bytes, a) \in Bytes
  BY DEF ByteIn, Cells, Bytes
<1> QED BY <1>1, WordOf DEF WordIn

LEMMA PutsBytes ==
  ASSUME NEW bytes, Cells(bytes), NEW byte \in Bytes, NEW addr
  PROVE  /\ Cells(Put(byte, addr, bytes))
         /\ DOMAIN Put(byte, addr, bytes) = DOMAIN bytes \cup {addr}
         /\ \A a : ByteIn(Put(byte, addr, bytes), a) = IF a = addr THEN byte ELSE ByteIn(bytes, a)
BY DEF Put, Cells, ByteIn

LEMMA StoresBytes ==
  ASSUME Cells(memory), NEW data_ \in Words, NEW addr
  PROVE  Cells(store2(data_, addr)) /\ DOMAIN store2(data_, addr) = DOMAIN memory \cup {addr, addr + 1}
<1> DEFINE l_ == data_ % 256  h_ == data_ \div 256  next == addr + 1
           high == Put(h_, next, memory)
<1>1. l_ \in Bytes /\ h_ \in Bytes
  BY WordParts
<1> HIDE DEF l_, h_, next
<1>2. Cells(high) /\ DOMAIN high = DOMAIN memory \cup {next}
  BY <1>1, PutsBytes
<1>3. store2(data_, addr) = Put(l_, addr, high)
  BY DEF store2, l_, h_, next
<1> HIDE DEF high
<1>4. Cells(Put(l_, addr, high)) /\ DOMAIN Put(l_, addr, high) = DOMAIN high \cup {addr}
  BY <1>1, <1>2, PutsBytes
<1> QED BY <1>2, <1>3, <1>4 DEF next

-----------------------------------------------------------------------------
\* Arithmetic.

\* AND has no more than either word, and at least what both hold together.
Bounded(z, x, y, top) == z \in Nat /\ z <= x /\ z <= y /\ z >= x + y - top

LEMMA And1Bounds == \A x, y \in 0 .. 1 : Bounded(And1(x, y), x, y, 1)
BY DEF And1, Bounded

LEMMA And2Bounds == \A x, y \in 0 .. 3 : Bounded(And2(x, y), x, y, 3)
BY DEF And1, And2, Bounded

LEMMA Halves4 ==
  ASSUME NEW x \in 0 .. 15
  PROVE  x % 4 \in 0 .. 3 /\ x \div 4 \in 0 .. 3 /\ x = (x % 4) + 4 * (x \div 4)
OBVIOUS

LEMMA And4Bounds == \A x, y \in 0 .. 15 : Bounded(And4(x, y), x, y, 15)
<1> SUFFICES ASSUME NEW x \in 0 .. 15, NEW y \in 0 .. 15 PROVE Bounded(And4(x, y), x, y, 15)
  OBVIOUS
<1> DEFINE a == x % 4  b == x \div 4  c == y % 4  d == y \div 4
           low == And2(a, c)  high == And2(b, d)
<1>1. /\ a \in 0 .. 3 /\ b \in 0 .. 3 /\ c \in 0 .. 3 /\ d \in 0 .. 3
      /\ x = a + 4 * b /\ y = c + 4 * d
  BY Halves4
<1>2. Bounded(low, a, c, 3) /\ Bounded(high, b, d, 3)
  BY <1>1, And2Bounds
<1>3. And4(x, y) = low + 4 * high
  BY DEF And4
<1> HIDE DEF a, b, c, d, low, high
<1> QED BY <1>1, <1>2, <1>3 DEF Bounded

LEMMA Halves8 ==
  ASSUME NEW x \in Bytes
  PROVE  x % 16 \in 0 .. 15 /\ x \div 16 \in 0 .. 15 /\ x = (x % 16) + 16 * (x \div 16)
BY DEF Bytes

LEMMA And8Bounds == \A x, y \in Bytes : Bounded(And8(x, y), x, y, 255)
<1> SUFFICES ASSUME NEW x \in Bytes, NEW y \in Bytes PROVE Bounded(And8(x, y), x, y, 255)
  OBVIOUS
<1> DEFINE a == x % 16  b == x \div 16  c == y % 16  d == y \div 16
           low == And4(a, c)  high == And4(b, d)
<1>1. /\ a \in 0 .. 15 /\ b \in 0 .. 15 /\ c \in 0 .. 15 /\ d \in 0 .. 15
      /\ x = a + 16 * b /\ y = c + 16 * d
  BY Halves8
<1>2. Bounded(low, a, c, 15) /\ Bounded(high, b, d, 15)
  BY <1>1, And4Bounds
<1>3. And8(x, y) = low + 16 * high
  BY DEF And8
<1> HIDE DEF a, b, c, d, low, high
<1>4. a \in Int /\ b \in Int /\ c \in Int /\ d \in Int
  BY <1>1
<1> QED BY <1>1, <1>2, <1>3, <1>4 DEF Bounded

LEMMA AndBounds == \A x, y \in Words : Bounded(And(x, y), x, y, 65535)
<1> SUFFICES ASSUME NEW x \in Words, NEW y \in Words PROVE Bounded(And(x, y), x, y, 65535)
  OBVIOUS
<1> DEFINE a == x % 256  b == x \div 256  c == y % 256  d == y \div 256
           low == And8(a, c)  high == And8(b, d)
<1>1. /\ a \in Bytes /\ b \in Bytes /\ c \in Bytes /\ d \in Bytes
      /\ x = a + 256 * b /\ y = c + 256 * d
  BY WordParts
<1>2. Bounded(low, a, c, 255) /\ Bounded(high, b, d, 255)
  BY <1>1, And8Bounds
<1>3. And(x, y) = low + 256 * high
  BY DEF And
<1> HIDE DEF a, b, c, d, low, high
<1>4. a \in Int /\ b \in Int /\ c \in Int /\ d \in Int
  BY <1>1 DEF Bytes
<1> QED BY <1>1, <1>2, <1>3, <1>4 DEF Bounded

\* A shift to the right halves as often as it shifts.
LEMMA ShiftRuns ==
  ASSUME NEW x \in Words, NEW n \in Nat
  PROVE  \E g : /\ g[0] = x /\ RightShift(x, n) = g[n]
               /\ \A k \in 1 .. n : g[k] = g[k - 1] \div 2
<1> DEFINE step == [a \in (1 .. n) \X (0 .. x) |-> a[2] \div 2]
           Body(g) == [k \in 0 .. n |-> IF k = 0 THEN x ELSE g[k - 1] \div 2]
<1>1. step \in [(1 .. n) \X (0 .. x) -> 0 .. x]
  <2>1. ASSUME NEW v \in 0 .. x PROVE v \div 2 \in 0 .. x
    <3>1. v \in Int /\ 0 <= v /\ v <= x /\ x \in Int
      BY DEF Words
    <3>2. v \div 2 \in Int /\ 0 <= v \div 2 /\ v \div 2 <= v
      BY <3>1
    <3> QED BY <3>1, <3>2
  <2> QED BY <2>1
<1>2. x \in 0 .. x
  BY DEF Words
<1>3. PICK g : Turns(g, n, 0 .. x, x, step)
  <2> HIDE DEF step
  <2> QED BY <1>1, <1>2, Recursion
<1>4. g \in [0 .. n -> 0 .. x] /\ g[0] = x /\ \A k \in 1 .. n : g[k] = step[<<k, g[k - 1]>>]
  BY <1>3 DEF Turns
<1>5. ASSUME NEW k \in 1 .. n PROVE g[k] = g[k - 1] \div 2
  <2>1. k - 1 \in 0 .. n /\ g[k - 1] \in 0 .. x
    BY <1>4
  <2>2. step[<<k, g[k - 1]>>] = g[k - 1] \div 2
    BY <2>1
  <2> QED BY <1>4, <2>2
<1>6. g = Body(g)
  BY <1>4, <1>5
<1> DEFINE shifted == CHOOSE h : h = Body(h)
<1>7. shifted = Body(shifted)
  <2> HIDE DEF Body
  <2> QED BY <1>6
<1>8. RightShift(x, n) = shifted[n]
  BY DEF RightShift
<1> HIDE DEF shifted
<1>9. shifted[0] = x /\ \A k \in 1 .. n : shifted[k] = shifted[k - 1] \div 2
  BY <1>7
<1> QED BY <1>8, <1>9

\* What is shifted to the right is no greater, however far.
LEMMA ShiftBounds ==
  ASSUME NEW x \in Words, NEW n \in Nat
  PROVE  RightShift(x, n) \in 0 .. x
<1>1. PICK g : g[0] = x /\ RightShift(x, n) = g[n] /\ \A k \in 1 .. n : g[k] = g[k - 1] \div 2
  BY ShiftRuns
<1> DEFINE T == {k \in 0 .. n : g[k] \in 0 .. x}
<1>2. 0 \in T
  BY <1>1 DEF Words
<1>3. ASSUME NEW k \in 1 .. n, k - 1 \in T PROVE k \in T
  <2>1. g[k - 1] \in 0 .. x /\ g[k] = g[k - 1] \div 2
    BY <1>1, <1>3
  <2> DEFINE v == g[k - 1]
  <2>2. v \in Int /\ 0 <= v /\ v <= x /\ x \in Int
    BY <2>1 DEF Words
  <2> HIDE DEF v
  <2>3. v \div 2 \in Int /\ 0 <= v \div 2 /\ v \div 2 <= v
    BY <2>2
  <2> QED BY <2>1, <2>2, <2>3 DEF v
<1>4. 0 .. n \subseteq T
  <2> HIDE DEF T
  <2> QED BY <1>2, <1>3, RangeInduction
<1> QED BY <1>1, <1>4

-----------------------------------------------------------------------------
\* The machine.

\* What every instruction keeps.
MachineOK ==
  /\ R \in [0 .. 7 -> Words]
  /\ PC \in Words /\ SP \in Words
  /\ Z \in BOOLEAN /\ N \in BOOLEAN
  /\ Cells(memory)
  /\ input \in Seq(Bytes)

LEMMA InstructionParts ==
  ASSUME MachineOK
  PROVE  /\ insn \in Words /\ operand \in Words
         /\ opcode \in 0 .. 15 /\ op \in 0 .. 7 /\ rc \in 0 .. 7 /\ rb \in 0 .. 7 /\ ra \in 0 .. 7
         /\ R[ra] \in Words /\ R[rb] \in Words
<1>1. \A addr : load2(addr) \in Words
  BY ReadsBytes DEF MachineOK, load2
<1>2. insn \in Words /\ operand \in Words
  BY <1>1 DEF insn, operand
<1>3. opcode \in 0 .. 15
  BY <1>2 DEF opcode, Words
<1>4. op \in 0 .. 7 /\ rc \in 0 .. 7 /\ rb \in 0 .. 7 /\ ra \in 0 .. 7
  BY <1>2 DEF op, rc, rb, ra, Words
<1> QED BY <1>2, <1>3, <1>4 DEF MachineOK

LEMMA SkipType ==
  ASSUME MachineOK, NEW n \in Int PROVE Wrap(PC + n) \in Words /\ Wrap(SP + n) \in Words /\ Wrap(SP - n) \in Words
<1>1. PC + n \in Int /\ SP + n \in Int /\ SP - n \in Int
  BY DEF MachineOK, Words
<1> QED BY <1>1, Wraps

\* Every result of the ALU is a word.
LEMMA ResultType ==
  ASSUME MachineOK PROVE \A res \in results : res \in Words
<1> DEFINE x == R[ra]  y == R[rb]
<1>1. x \in Words /\ y \in Words
  BY InstructionParts
<1>2. x \in Nat /\ y \in Nat /\ x <= 65535 /\ y <= 65535
  BY <1>1 DEF Words
<1>3. Wrap(x + y) \in Words /\ Wrap(x - y) \in Words
  BY <1>2, Wraps
<1>4. And(x, y) \in Words /\ Or(x, y) \in Words /\ Xor(x, y) \in Words
  <2> DEFINE both == And(x, y)
  <2>1. both \in Nat /\ both <= x /\ both <= y /\ both >= x + y - 65535
    BY <1>1, AndBounds DEF Bounded
  <2>2. Or(x, y) = x + y - both /\ Xor(x, y) = x + y - 2 * both
    BY DEF Or, Xor
  <2> HIDE DEF both, x, y
  <2>3. both \in Words /\ x + y - both \in Words /\ x + y - 2 * both \in Words
    BY <1>2, <2>1 DEF Words
  <2> QED BY <2>2, <2>3 DEF both
<1>5. \A s \in Shifted(x, y) : s \in Words
  <2>1. \A n \in Nat : RightShift(x, n) \in Words
    <3> SUFFICES ASSUME NEW n \in Nat PROVE RightShift(x, n) \in Words
      OBVIOUS
    <3> DEFINE z == RightShift(x, n)
    <3>1. z \in 0 .. x
      BY <1>1, ShiftBounds
    <3> HIDE DEF z, x
    <3>2. z \in Words
      BY <1>2, <3>1 DEF Words
    <3> QED BY <3>2 DEF z
  <2>2. y % 32 \in Nat /\ 0 \in Words
    BY <1>2 DEF Words
  <2> HIDE DEF x, y
  <2> QED BY <1>2, <2>1, <2>2 DEF Shifted
<1>6. op \in 0 .. 7
  BY InstructionParts
<1>7. results = CASE op = 0 -> {Wrap(x + y)} [] op \in {1, 6} -> {Wrap(x - y)}
                  [] op = 2 -> {And(x, y)} [] op = 3 -> {Or(x, y)} [] op = 4 -> {Xor(x, y)}
                  [] op = 5 -> Shifted(x, y) [] op = 7 -> {x}
  BY DEF results
<1> DEFINE sum == Wrap(x + y)  difference == Wrap(x - y)  o == op
<1> HIDE DEF sum, difference, o, x, y
<1>8. results = CASE o = 0 -> {sum} [] o \in {1, 6} -> {difference}
                  [] o = 2 -> {And(x, y)} [] o = 3 -> {Or(x, y)} [] o = 4 -> {Xor(x, y)}
                  [] o = 5 -> Shifted(x, y) [] o = 7 -> {x}
  BY <1>7 DEF sum, difference, o
<1>9. o \in 0 .. 7 /\ sum \in Words /\ difference \in Words
  BY <1>3, <1>6 DEF sum, difference, o
<1> QED BY <1>1, <1>4, <1>5, <1>8, <1>9

\* The addresses the instruction at PC stores to.
Touched ==
  CASE opcode = 3 /\ insn \div 256 = 52 -> {operand + 1}
    [] opcode = 3 /\ insn \div 256 = 60 -> {R[rb]}
    [] opcode = 3 /\ insn \div 256 = 48 -> {operand, operand + 1}
    [] opcode = 3 /\ insn \div 256 \notin {48, 52, 60} -> {R[rb], R[rb] + 1}
    [] opcode \in {8, 9, 11} -> {Wrap(SP - 2), Wrap(SP - 2) + 1}
    [] OTHER -> {}

LEMMA StoreType ==
  ASSUME MachineOK, opcode = 3
  PROVE  Cells(stored) /\ DOMAIN stored = DOMAIN memory \cup Touched
<1> DEFINE form == insn \div 256
<1>1. operand \in Words /\ R[ra] \in Words /\ R[rb] \in Words /\ Cells(memory)
  BY InstructionParts DEF MachineOK
<1>2. R[ra] % 256 \in Bytes
  BY <1>1, WordParts
<1>3. stored = CASE form = 48 -> store2(R[ra], operand) [] form = 52 -> Stored(R[ra] % 256, operand + 1)
                 [] form = 60 -> Stored(R[ra] % 256, R[rb]) [] OTHER -> store2(R[ra], R[rb])
  BY DEF stored
<1> DEFINE low == R[ra] % 256  behind == operand + 1
<1>4. /\ Cells(Stored(low, behind)) /\ DOMAIN Stored(low, behind) = DOMAIN memory \cup {behind}
      /\ Cells(Stored(low, R[rb])) /\ DOMAIN Stored(low, R[rb]) = DOMAIN memory \cup {R[rb]}
  <2> HIDE DEF low, behind
  <2>1. low \in Bytes
    BY <1>2 DEF low
  <2> QED BY <1>1, <2>1, PutsBytes DEF Stored
<1>5. /\ Cells(store2(R[ra], operand)) /\ DOMAIN store2(R[ra], operand) = DOMAIN memory \cup {operand, operand + 1}
      /\ Cells(store2(R[ra], R[rb])) /\ DOMAIN store2(R[ra], R[rb]) = DOMAIN memory \cup {R[rb], R[rb] + 1}
  BY <1>1, StoresBytes
<1>6. Touched = IF form = 52 THEN {operand + 1} ELSE IF form = 60 THEN {R[rb]}
                ELSE IF form = 48 THEN {operand, operand + 1} ELSE {R[rb], R[rb] + 1}
  BY DEF Touched
<1>7. CASE form = 48
  BY <1>3, <1>5, <1>6, <1>7
<1>8. CASE form = 52
  BY <1>3, <1>4, <1>6, <1>8
<1>9. CASE form = 60
  BY <1>3, <1>4, <1>6, <1>9
<1>10. CASE form \notin {48, 52, 60}
  BY <1>3, <1>5, <1>6, <1>10
<1> QED BY <1>7, <1>8, <1>9, <1>10

LEMMA EmulateKeeps ==
  ASSUME MachineOK, emulate
  PROVE  MachineOK' /\ DOMAIN memory' = DOMAIN memory \cup Touched
<1>1. /\ insn \in Words /\ operand \in Words
      /\ opcode \in 0 .. 15 /\ op \in 0 .. 7 /\ rc \in 0 .. 7 /\ rb \in 0 .. 7 /\ ra \in 0 .. 7
      /\ R[ra] \in Words /\ R[rb] \in Words
  BY InstructionParts
<1>2. /\ R \in [0 .. 7 -> Words] /\ PC \in Words /\ SP \in Words
      /\ Z \in BOOLEAN /\ N \in BOOLEAN /\ Cells(memory) /\ input \in Seq(Bytes)
  BY DEF MachineOK
<1>3. \A n \in Int : Skip(n) => PC' \in Words
  BY SkipType DEF Skip
<1>4. ASSUME opcode \notin {3, 8, 9, 11}, memory' = memory
      PROVE  Cells(memory)' /\ DOMAIN memory' = DOMAIN memory \cup Touched
  <2>1. Touched = {}
    BY <1>1, <1>4 DEF Touched
  <2> QED BY <1>2, <1>4, <2>1 DEF Cells
<1>5. \A addr : load2(addr) \in Words /\ ByteIn(memory, addr) \in Bytes
  BY <1>2, ReadsBytes DEF load2
<1>6. Bytes \subseteq Words /\ 65535 \in Words
  BY DEF Bytes, Words
<1>7. Wrap(SP - 2) \in Words /\ Wrap(SP + 2) \in Words
  BY SkipType
<1>8. CASE SET
  <2>1. R' \in [0 .. 7 -> Words] /\ PC' \in Words
    BY <1>1, <1>2, <1>3, <1>8 DEF SET
  <2>2. opcode = 1 /\ UNCHANGED <<memory, SP, Z, N, input>>
    BY <1>8 DEF SET, flags, terminal
  <2>3. Cells(memory)' /\ DOMAIN memory' = DOMAIN memory \cup Touched
    BY <1>4, <2>2
  <2> QED BY <1>2, <2>1, <2>2, <2>3 DEF MachineOK
<1>9. CASE LOAD
  <2>1. R' \in [0 .. 7 -> Words]
    <3> DEFINE from == IF is_indirect THEN R[rb] ELSE operand
               val == IF is_byte THEN ByteIn(memory, from) ELSE load2(from)
    <3>1. R' = [R EXCEPT ![ra] = val]
      BY <1>9 DEF LOAD
    <3>2. val \in Words
      BY <1>5, <1>6
    <3> HIDE DEF val
    <3> QED BY <1>1, <1>2, <3>1, <3>2
  <2>2. PC' \in Words
    BY <1>3, <1>9 DEF LOAD
  <2>3. opcode = 2 /\ UNCHANGED <<memory, SP, Z, N, input>>
    BY <1>9 DEF LOAD, flags, terminal
  <2>4. Cells(memory)' /\ DOMAIN memory' = DOMAIN memory \cup Touched
    BY <1>4, <2>3
  <2> QED BY <1>2, <2>1, <2>2, <2>3, <2>4 DEF MachineOK
<1>10. CASE STORE
  <2>1. PC' \in Words
    BY <1>3, <1>10 DEF STORE
  <2>2. opcode = 3 /\ memory' = stored /\ UNCHANGED <<R, SP, Z, N, input>>
    BY <1>10 DEF STORE, flags, terminal
  <2>3. Cells(memory') /\ DOMAIN memory' = DOMAIN memory \cup Touched
    BY <2>2, StoreType
  <2> QED BY <1>2, <2>1, <2>2, <2>3 DEF MachineOK, Cells
<1>11. CASE MOVE
  <2> DEFINE s == insn % 16  d == (insn \div 16) % 16
             moved == IF s < 8 THEN R[s] ELSE IF s = 8 /\ d # 8 THEN SP ELSE beyond(s)
  <2>1. /\ IF d \in {8, 9} THEN SP' = moved /\ UNCHANGED R
           ELSE R' = [R EXCEPT ![d] = moved] /\ UNCHANGED SP
        /\ Skip(2) /\ opcode = 4 /\ UNCHANGED <<memory, Z, N, input>>
    BY <1>11 DEF MOVE, flags, terminal
  <2>2. s \in 0 .. 15
    BY <1>1 DEF Words
  <2>6. beyond(s) \in Words
    BY <1>2 DEF beyond, Words
  <2> HIDE DEF s, d
  <2>3. moved \in Words
    BY <1>2, <2>2, <2>6
  <2> HIDE DEF moved
  <2>4. R' \in [0 .. 7 -> Words] /\ SP' \in Words
    BY <1>2, <2>1, <2>3
  <2>5. Cells(memory)' /\ DOMAIN memory' = DOMAIN memory \cup Touched
    BY <1>4, <2>1
  <2> QED BY <1>2, <1>3, <2>1, <2>4, <2>5 DEF MachineOK
<1>12. CASE ALU
  <2>1. PICK res \in results : /\ R' = IF op \in {6, 7} THEN R ELSE [R EXCEPT ![rc] = res]
                               /\ Z' = (res = 0) /\ N' = (res >= 32768)
    BY <1>12 DEF ALU
  <2>2. res \in Words
    BY ResultType
  <2>3. R' \in [0 .. 7 -> Words]
    BY <1>1, <1>2, <2>1, <2>2
  <2>4. Z' \in BOOLEAN /\ N' \in BOOLEAN
    <3>1. Z' = (res = 0) /\ N' = (res >= 32768)
      BY <2>1
    <3>2. Z' \in BOOLEAN
      BY <3>1
    <3>3. N' \in BOOLEAN
      BY <3>1
    <3> QED BY <3>2, <3>3
  <2>5. Skip(2) /\ opcode = 5 /\ UNCHANGED <<memory, SP, input>>
    BY <1>12 DEF ALU, terminal
  <2>6. Cells(memory)' /\ DOMAIN memory' = DOMAIN memory \cup Touched
    BY <1>4, <2>5
  <2> QED BY <1>2, <1>3, <2>3, <2>4, <2>5, <2>6 DEF MachineOK
<1>13. CASE JMP
  <2>1. PC' \in Words
    BY <1>1, <1>3, <1>13 DEF JMP
  <2>2. opcode \in {6, 7} /\ UNCHANGED <<memory, R, SP, Z, N, input>>
    BY <1>13 DEF JMP, flags, terminal
  <2>3. Cells(memory)' /\ DOMAIN memory' = DOMAIN memory \cup Touched
    BY <1>4, <2>2
  <2> QED BY <1>2, <2>1, <2>2, <2>3 DEF MachineOK
<1>14. CASE CALL
  <2>1. /\ opcode \in {8, 9} /\ SP' = Wrap(SP - 2) /\ memory' = store2(return_to, SP')
        /\ PC' = IF opcode = 8 THEN WordIn(memory', Wrap(PC + 2)) ELSE R[ra]
        /\ UNCHANGED <<R, Z, N, input>>
    BY <1>14 DEF CALL, flags, terminal
  <2>2. return_to \in Words
    BY SkipType DEF return_to
  <2>3. Cells(memory') /\ DOMAIN memory' = DOMAIN memory \cup {Wrap(SP - 2), Wrap(SP - 2) + 1}
    BY <1>2, <2>1, <2>2, StoresBytes
  <2>4. PC' \in Words
    BY <1>1, <2>1, <2>3, ReadsBytes
  <2>5. Touched = {Wrap(SP - 2), Wrap(SP - 2) + 1}
    BY <2>1 DEF Touched
  <2> QED BY <1>2, <1>7, <2>1, <2>3, <2>4, <2>5 DEF MachineOK, Cells
<1>15. CASE RET
  <2>1. opcode = 10 /\ PC' \in Words /\ SP' \in Words /\ UNCHANGED <<memory, R, Z, N, input>>
    BY <1>5, <1>7, <1>15 DEF RET, flags, terminal
  <2>2. Cells(memory)' /\ DOMAIN memory' = DOMAIN memory \cup Touched
    BY <1>4, <2>1
  <2> QED BY <1>2, <2>1, <2>2 DEF MachineOK
<1>16. CASE PUSH
  <2>1. /\ opcode = 11 /\ SP' = Wrap(SP - 2) /\ memory' = store2(R[ra], SP') /\ Skip(2)
        /\ UNCHANGED <<R, Z, N, input>>
    BY <1>16 DEF PUSH, flags, terminal
  <2>2. Cells(memory') /\ DOMAIN memory' = DOMAIN memory \cup {Wrap(SP - 2), Wrap(SP - 2) + 1}
    BY <1>1, <1>2, <2>1, StoresBytes
  <2>3. Touched = {Wrap(SP - 2), Wrap(SP - 2) + 1}
    BY <2>1 DEF Touched
  <2> QED BY <1>2, <1>3, <1>7, <2>1, <2>2, <2>3 DEF MachineOK, Cells
<1>17. CASE POP
  <2>1. opcode = 12 /\ R' \in [0 .. 7 -> Words] /\ SP' \in Words /\ Skip(2) /\ UNCHANGED <<memory, Z, N, input>>
    BY <1>1, <1>2, <1>5, <1>7, <1>17 DEF POP, flags, terminal
  <2>2. Cells(memory)' /\ DOMAIN memory' = DOMAIN memory \cup Touched
    BY <1>4, <2>1
  <2> QED BY <1>2, <1>3, <2>1, <2>2 DEF MachineOK
<1>18. CASE IN_
  <2>1. R' \in [0 .. 7 -> Words] /\ input' \in Seq(Bytes)
    <3>1. CASE input = <<>>
      BY <1>1, <1>2, <1>6, <1>18, <3>1 DEF IN_
    <3>2. CASE input # <<>>
      <4>1. Head(input) \in Bytes /\ Tail(input) \in Seq(Bytes)
        BY <1>2, <3>2
      <4>2. R' = [R EXCEPT ![ra] = Head(input)] /\ input' = Tail(input)
        BY <1>18, <3>2 DEF IN_
      <4> DEFINE c == Head(input)
      <4> HIDE DEF c
      <4>3. c \in Words /\ R' = [R EXCEPT ![ra] = c]
        BY <1>6, <4>1, <4>2 DEF c
      <4> QED BY <1>1, <1>2, <4>1, <4>2, <4>3
    <3> QED BY <3>1, <3>2
  <2>2. opcode = 13 /\ Skip(2) /\ UNCHANGED <<memory, SP, Z, N>>
    BY <1>18 DEF IN_, flags
  <2>3. Cells(memory)' /\ DOMAIN memory' = DOMAIN memory \cup Touched
    BY <1>4, <2>2
  <2> QED BY <1>2, <1>3, <2>1, <2>2, <2>3 DEF MachineOK
<1>19. CASE OUT
  <2>1. opcode = 14 /\ Skip(2) /\ UNCHANGED <<memory, R, SP, Z, N, input>>
    BY <1>19 DEF OUT, flags
  <2>2. Cells(memory)' /\ DOMAIN memory' = DOMAIN memory \cup Touched
    BY <1>4, <2>1
  <2> QED BY <1>2, <1>3, <2>1, <2>2 DEF MachineOK
<1> QED BY <1>8, <1>9, <1>10, <1>11, <1>12, <1>13, <1>14, <1>15, <1>16, <1>17, <1>18, <1>19 DEF emulate

-----------------------------------------------------------------------------
\* Where the lines lie.

LEMMA Multiple ==
  ASSUME NEW m \in Nat \ {0}, NEW a \in Nat
  PROVE  \E n \in a .. a + m - 1 : n % m = 0
<1> DEFINE S == {k \in Nat : \E n \in k .. k + m - 1 : n % m = 0}
<1>1. 0 \in S
  <2>1. 0 \in 0 .. 0 + m - 1 /\ 0 % m = 0
    OBVIOUS
  <2> QED BY <2>1
<1>2. ASSUME NEW k \in Nat, k \in S PROVE k + 1 \in S
  <2>1. PICK n \in k .. k + m - 1 : n % m = 0
    BY <1>2
  <2>2. CASE n # k
    <3>1. n \in k + 1 .. (k + 1) + m - 1
      BY <2>2
    <3> QED BY <2>1, <3>1
  <2>3. CASE n = k
    <3>1. (k + m) % m = 0
      BY <2>1, <2>3, SMTT(30)
    <3>2. k + m \in k + 1 .. (k + 1) + m - 1
      OBVIOUS
    <3> QED BY <3>1, <3>2
  <2> QED BY <2>2, <2>3
<1>3. Nat \subseteq S
  <2> HIDE DEF S
  <2> QED BY <1>1, <1>2, SetInduction
<1> QED BY <1>3

\* What asm.py can make a file of.
Program(p) ==
  /\ Len(p) \in Nat /\ DOMAIN p = 1 .. Len(p)
  /\ \A i \in DOMAIN p : Accepted(p[i]) /\ Addresses(p)[i] \in Words /\ Place(p, i) \subseteq Words

LEMMA LineType ==
  ASSUME NEW l, Accepted(l)
  PROVE  /\ l.num \in Words /\ l.chars \in Seq(Bytes)
         /\ DataBytes(l) \in Seq(Bytes)
         /\ Size(l) \in Nat
         /\ l.op = "ALIGN" => l.num # 0
         /\ l.op \in {"ADDR", "ALIGN"} => ~IsInstruction(l) /\ DataBytes(l) = <<>>
<1>1. l.num \in Words /\ l.chars \in Seq(Bytes) /\ (l.op = "BYTES" => l.num \in Bytes)
  <2>1. l.num \in (IF l.op = "BYTES" THEN Bytes ELSE Words) /\ l.chars \in Seq(Bytes)
    BY DEF Accepted
  <2>2. Bytes \subseteq Words
    BY DEF Bytes, Words
  <2> QED BY <2>1, <2>2
<1>2. DataBytes(l) \in Seq(Bytes)
  <2>1. CASE l.op = "WORDS"
    <3> DEFINE low == l.num % 256  high == l.num \div 256
    <3>1. low \in Bytes /\ high \in Bytes
      BY <1>1, WordParts
    <3>2. DataBytes(l) = <<low, high>>
      BY <2>1 DEF DataBytes
    <3> HIDE DEF low, high
    <3> QED BY <3>1, <3>2
  <2>2. CASE l.op = "BYTES"
    BY <1>1, <2>2 DEF DataBytes
  <2>3. CASE l.op = "STRING"
    <3>1. 0 \in Bytes
      BY DEF Bytes
    <3> QED BY <1>1, <2>3, <3>1 DEF DataBytes
  <2>4. CASE l.op \notin {"WORDS", "BYTES", "STRING"}
    BY <2>4 DEF DataBytes
  <2> QED BY <2>1, <2>2, <2>3, <2>4
<1>3. Size(l) \in Nat
  <2>1. Len(DataBytes(l)) \in Nat
    BY <1>2
  <2> QED BY <2>1 DEF Size
<1>4. l.op \in {"ADDR", "ALIGN"} => ~IsInstruction(l) /\ DataBytes(l) = <<>>
  BY DEF IsInstruction, Directives, DataBytes
<1>5. l.op = "ALIGN" => l.num # 0
  BY DEF Accepted
<1> QED BY <1>1, <1>2, <1>3, <1>4, <1>5

\* The address after a line.
Following(l, here) ==
  CASE l.op = "ADDR"  -> l.num
    [] l.op = "ALIGN" -> CHOOSE n \in here .. here + l.num - 1 : n % l.num = 0
    [] OTHER          -> here + Size(l)

LEMMA FollowingType ==
  ASSUME NEW l, Accepted(l), NEW here \in Nat
  PROVE  Following(l, here) \in Nat
<1>1. l.num \in Nat /\ Size(l) \in Nat /\ (l.op = "ALIGN" => l.num # 0)
  BY LineType DEF Words
<1>2. CASE l.op = "ALIGN"
  <2>1. \E n \in here .. here + l.num - 1 : n % l.num = 0
    BY <1>1, <1>2, Multiple
  <2> DEFINE n == CHOOSE n \in here .. here + l.num - 1 : n % l.num = 0
  <2>2. n \in here .. here + l.num - 1
    BY <2>1
  <2> HIDE DEF n
  <2>3. n \in Nat
    BY <1>1, <2>2
  <2> QED BY <1>2, <2>3 DEF Following, n
<1>3. CASE l.op # "ALIGN"
  BY <1>1, <1>3 DEF Following
<1> QED BY <1>2, <1>3

LEMMA AddressesRun ==
  ASSUME NEW p, Len(p) \in Nat, DOMAIN p = 1 .. Len(p), \A i \in DOMAIN p : Accepted(p[i])
  PROVE  /\ Addresses(p)[1] = 0
         /\ \A i \in 1 .. Len(p) : Addresses(p)[i + 1] = Following(p[i], Addresses(p)[i])
<1> DEFINE L == Len(p)
           Turn(n, here) == Following(p[n], here)
           step == [a \in (1 .. L) \X Nat |-> Turn(a[1], a[2])]
           Body(g) == [i \in 1 .. L + 1 |->
                         IF i = 1 THEN 0
                         ELSE LET before == p[i - 1]
                                  here == g[i - 1]
                              IN CASE before.op = "ADDR"  -> before.num
                                   [] before.op = "ALIGN" ->
                                        CHOOSE n \in here .. here + before.num - 1 : n % before.num = 0
                                   [] OTHER -> here + Size(before)]
           Body2(g) == [i \in 1 .. L + 1 |-> IF i = 1 THEN 0 ELSE Turn(i - 1, g[i - 1])]
<1>1. \A g : Body(g) = Body2(g)
  BY DEF Following
<1>2. step \in [(1 .. L) \X Nat -> Nat]
  <2>1. \A n \in 1 .. L, here \in Nat : Turn(n, here) \in Nat
    BY FollowingType
  <2> HIDE DEF Turn
  <2> QED BY <2>1
<1>3. PICK f : Turns(f, L, Nat, 0, step)
  <2> HIDE DEF step
  <2> QED BY <1>2, Recursion
<1>4. f \in [0 .. L -> Nat] /\ f[0] = 0 /\ \A n \in 1 .. L : f[n] = step[<<n, f[n - 1]>>]
  BY <1>3 DEF Turns
<1>5. ASSUME NEW n \in 1 .. L PROVE f[n] = Turn(n, f[n - 1])
  <2>1. f[n - 1] \in Nat
    BY <1>4
  <2> HIDE DEF Turn
  <2>2. step[<<n, f[n - 1]>>] = Turn(n, f[n - 1])
    BY <2>1
  <2> QED BY <1>4, <2>2
<1> DEFINE g == [i \in 1 .. L + 1 |-> f[i - 1]]
<1>6. g = Body2(g)
  <2> HIDE DEF Turn, step
  <2>1. ASSUME NEW i \in 1 .. L + 1 PROVE g[i] = IF i = 1 THEN 0 ELSE Turn(i - 1, g[i - 1])
    <3>1. CASE i = 1
      BY <1>4, <3>1
    <3>2. CASE i # 1
      <4>1. i - 1 \in 1 .. L /\ i - 1 \in 1 .. L + 1 /\ g[i] = f[i - 1] /\ g[i - 1] = f[(i - 1) - 1]
        BY <3>2
      <4> HIDE DEF g
      <4> QED BY <1>5, <3>2, <4>1
    <3> QED BY <3>1, <3>2
  <2>2. DOMAIN g = 1 .. L + 1 /\ g = [i \in 1 .. L + 1 |-> g[i]]
    OBVIOUS
  <2> HIDE DEF g
  <2> QED BY <2>1, <2>2
<1> DEFINE address == CHOOSE h : h = Body(h)
<1>7. address = Body(address)
  <2> HIDE DEF Body, Body2
  <2>1. g = Body(g)
    BY <1>1, <1>6
  <2> HIDE DEF g
  <2> QED BY <2>1
<1>8. Addresses(p) = address
  BY DEF Addresses
<1>9. address = Body2(address)
  <2> HIDE DEF Body, Body2, address
  <2> QED BY <1>1, <1>7
<1> HIDE DEF address, Turn
<1>10. address[1] = 0 /\ \A i \in 1 .. L : address[i + 1] = Turn(i, address[i])
  <2>1. address[1] = 0
    BY <1>9
  <2>2. ASSUME NEW i \in 1 .. L PROVE address[i + 1] = Turn(i, address[i])
    <3>1. i + 1 \in 1 .. L + 1 /\ i + 1 # 1 /\ (i + 1) - 1 = i
      OBVIOUS
    <3>2. address[i + 1] = Turn((i + 1) - 1, address[(i + 1) - 1])
      BY <1>9, <3>1
    <3> QED BY <3>1, <3>2
  <2> QED BY <2>1, <2>2
<1> QED BY <1>8, <1>10 DEF Turn

-----------------------------------------------------------------------------
\* The words of the instructions.

LEMMA Named ==
  /\ "SET" # NoName /\ "LOAD" # NoName /\ "STORE" # NoName /\ "MOVE" # NoName /\ "ALU" # NoName
  /\ "JMP" # NoName /\ "CALL" # NoName /\ "RET" # NoName /\ "PUSH" # NoName /\ "POP" # NoName
  /\ "IN" # NoName /\ "OUT" # NoName /\ "HALT" # NoName
BY Zenon DEF NoName

\* The operations of instructions.
Mnemonics == {"SET", "LOAD", "STORE", "MOVE", "ALU", "JMP", "CALL", "RET", "PUSH", "POP", "IN", "OUT", "HALT"}

LEMMA OpcodeNames ==
  /\ DOMAIN opcodes = 1 .. 15
  /\ opcodes[1] = "SET" /\ opcodes[2] = "LOAD" /\ opcodes[3] = "STORE" /\ opcodes[4] = "MOVE"
  /\ opcodes[5] = "ALU" /\ opcodes[6] = "JMP" /\ opcodes[7] = "JMP *" /\ opcodes[8] = "CALL"
  /\ opcodes[9] = "CALL *" /\ opcodes[10] = "RET" /\ opcodes[11] = "PUSH" /\ opcodes[12] = "POP"
  /\ opcodes[13] = "IN" /\ opcodes[14] = "OUT" /\ opcodes[15] = "HALT"
BY DEF opcodes

LEMMA Fifteen ==
  ASSUME NEW i \in 1 .. 15
  PROVE  \/ i = 1 \/ i = 2 \/ i = 3 \/ i = 4 \/ i = 5 \/ i = 6 \/ i = 7 \/ i = 8
         \/ i = 9 \/ i = 10 \/ i = 11 \/ i = 12 \/ i = 13 \/ i = 14 \/ i = 15
OBVIOUS

LEMMA OperationType ==
  ASSUME NEW l, Accepted(l), IsInstruction(l) PROVE l.op \in Mnemonics
<1>1. l.op \in Range(opcodes) /\ l.op \notin {"JMP *", "CALL *"}
  BY DEF Accepted, IsInstruction
<1>2. PICK i \in 1 .. 15 : l.op = opcodes[i]
  BY <1>1, OpcodeNames DEF Range
<1> DEFINE name == l.op
<1> HIDE DEF name
<1>3. name = opcodes[i] /\ name # "JMP *" /\ name # "CALL *"
  BY <1>1, <1>2 DEF name
<1>4. name \in Mnemonics
  BY <1>3, Fifteen, OpcodeNames, Zenon DEF Mnemonics
<1> QED BY <1>4 DEF name

LEMMA LongIsInstruction == \A l : Long(l) => IsInstruction(l)
BY Named DEF Long, IsInstruction, Directives

\* The position of a name, for names that are all different.
LEMMA PositionOf ==
  ASSUME NEW names, NEW name, NEW k \in DOMAIN names, names[k] = name,
         \A i \in DOMAIN names : names[i] = name => i = k
  PROVE  Position(names, name) = k
BY DEF Position

Rank(name) ==
  CASE name = "SET" -> 1 [] name = "LOAD" -> 2 [] name = "STORE" -> 3 [] name = "MOVE" -> 4
    [] name = "ALU" -> 5 [] name = "JMP" -> 6 [] name = "JMP *" -> 7 [] name = "CALL" -> 8
    [] name = "CALL *" -> 9 [] name = "RET" -> 10 [] name = "PUSH" -> 11 [] name = "POP" -> 12
    [] name = "IN" -> 13 [] name = "OUT" -> 14 [] OTHER -> 15

LEMMA OpcodeOf ==
  /\ Position(opcodes, "SET") = 1 /\ Position(opcodes, "LOAD") = 2 /\ Position(opcodes, "STORE") = 3
  /\ Position(opcodes, "MOVE") = 4 /\ Position(opcodes, "ALU") = 5 /\ Position(opcodes, "JMP") = 6
  /\ Position(opcodes, "CALL") = 8 /\ Position(opcodes, "RET") = 10 /\ Position(opcodes, "PUSH") = 11
  /\ Position(opcodes, "POP") = 12 /\ Position(opcodes, "IN") = 13 /\ Position(opcodes, "OUT") = 14
  /\ Position(opcodes, "HALT") = 15
<1>1. ASSUME NEW i \in 1 .. 15 PROVE Rank(opcodes[i]) = i
  <2>1. /\ Rank("SET") = 1 /\ Rank("LOAD") = 2 /\ Rank("STORE") = 3 /\ Rank("MOVE") = 4
        /\ Rank("ALU") = 5 /\ Rank("JMP") = 6 /\ Rank("JMP *") = 7 /\ Rank("CALL") = 8
        /\ Rank("CALL *") = 9 /\ Rank("RET") = 10 /\ Rank("PUSH") = 11 /\ Rank("POP") = 12
        /\ Rank("IN") = 13 /\ Rank("OUT") = 14 /\ Rank("HALT") = 15
    BY DEF Rank
  <2>2. /\ Rank(opcodes[1]) = 1 /\ Rank(opcodes[2]) = 2 /\ Rank(opcodes[3]) = 3 /\ Rank(opcodes[4]) = 4
        /\ Rank(opcodes[5]) = 5 /\ Rank(opcodes[6]) = 6 /\ Rank(opcodes[7]) = 7 /\ Rank(opcodes[8]) = 8
        /\ Rank(opcodes[9]) = 9 /\ Rank(opcodes[10]) = 10 /\ Rank(opcodes[11]) = 11 /\ Rank(opcodes[12]) = 12
        /\ Rank(opcodes[13]) = 13 /\ Rank(opcodes[14]) = 14 /\ Rank(opcodes[15]) = 15
    BY <2>1, OpcodeNames, ZenonT(30)
  <2> QED BY <2>2, Fifteen
<1>2. \A k \in 1 .. 15 : Position(opcodes, opcodes[k]) = k
  <2> SUFFICES ASSUME NEW k \in 1 .. 15 PROVE Position(opcodes, opcodes[k]) = k
    OBVIOUS
  <2>1. \A i \in DOMAIN opcodes : opcodes[i] = opcodes[k] => i = k
    <3> SUFFICES ASSUME NEW i \in 1 .. 15, opcodes[i] = opcodes[k] PROVE i = k
      BY OpcodeNames
    <3> QED BY <1>1
  <2>2. k \in DOMAIN opcodes
    BY OpcodeNames
  <2> QED BY <2>1, <2>2, PositionOf
<1>3. /\ Position(opcodes, opcodes[1]) = 1 /\ Position(opcodes, opcodes[2]) = 2
      /\ Position(opcodes, opcodes[3]) = 3 /\ Position(opcodes, opcodes[4]) = 4
      /\ Position(opcodes, opcodes[5]) = 5 /\ Position(opcodes, opcodes[6]) = 6
      /\ Position(opcodes, opcodes[8]) = 8 /\ Position(opcodes, opcodes[10]) = 10
      /\ Position(opcodes, opcodes[11]) = 11 /\ Position(opcodes, opcodes[12]) = 12
      /\ Position(opcodes, opcodes[13]) = 13 /\ Position(opcodes, opcodes[14]) = 14
      /\ Position(opcodes, opcodes[15]) = 15
  BY <1>2
<1> QED BY <1>3, OpcodeNames, ZenonT(30)

LEMMA AluCode == \A name \in Range(alu_ops) : Position(alu_ops, name) \in 1 .. 8 /\ alu_ops[Position(alu_ops, name)] = name
<1>1. DOMAIN alu_ops = 1 .. 8
  BY DEF alu_ops
<1> QED BY <1>1 DEF Position, Range

LEMMA JmpCode == \A name \in Range(jmp_code) : Position(jmp_code, name) \in 1 .. 7 /\ jmp_code[Position(jmp_code, name)] = name
<1>1. DOMAIN jmp_code = 1 .. 7
  BY DEF jmp_code
<1> QED BY <1>1 DEF Position, Range

\* The numbers of a line.
LEMMA Fields ==
  ASSUME NEW l, Accepted(l)
  PROVE  /\ l.a \in 0 .. 8 /\ l.b \in 0 .. 8 /\ l.c \in 0 .. 7
         /\ l.op # "MOVE" => l.a \in 0 .. 7 /\ l.b \in 0 .. 7
         /\ l.byte \in BOOLEAN /\ l.rel \in BOOLEAN
<1> DEFINE regs == IF l.op = "MOVE" THEN 0 .. 8 ELSE 0 .. 7
<1>1. {l.a, l.b} \subseteq regs /\ l.c \in 0 .. 7 /\ {l.byte, l.rel} \subseteq BOOLEAN
  BY DEF Accepted
<1>2. regs \subseteq 0 .. 8 /\ (l.op # "MOVE" => regs = 0 .. 7)
  OBVIOUS
<1> HIDE DEF regs
<1>3. l.a \in regs /\ l.b \in regs /\ l.byte \in BOOLEAN /\ l.rel \in BOOLEAN
  BY <1>1
<1> QED BY <1>1, <1>2, <1>3

\* An instruction's word, from its operation and its registers.
LEMMA InsnWord ==
  ASSUME NEW l, Accepted(l), IsInstruction(l)
  PROVE  /\ l.op = "SET"   => insn_word(l) = 4096 + l.a
         /\ l.op = "LOAD"  => insn_word(l) = 8192 + do_load_store(l)
         /\ l.op = "STORE" => insn_word(l) = 12288 + do_load_store(l)
         /\ l.op = "MOVE"  => insn_word(l) = 16384 + (16 * l.b + l.a)
         /\ l.op = "ALU"   => insn_word(l) = 20480 + do_alu(l)
         /\ l.op = "JMP"   => insn_word(l) = 24576 + do_jmp(l)
         /\ l.op = "CALL"  => insn_word(l) = 32768 + (IF l.rel THEN 4096 + l.a ELSE 0)
         /\ l.op = "RET"   => insn_word(l) = 40960 + l.a
         /\ l.op = "PUSH"  => insn_word(l) = 45056 + l.a
         /\ l.op = "POP"   => insn_word(l) = 49152 + l.a
         /\ l.op = "IN"    => insn_word(l) = 53248 + l.a
         /\ l.op = "OUT"   => insn_word(l) = 57344 + l.a
         /\ l.op = "HALT"  => insn_word(l) = 61440 + l.a
<1> DEFINE rest == CASE l.op \in {"LOAD", "STORE"} -> do_load_store(l)
                     [] l.op = "MOVE" -> 16 * l.b + l.a
                     [] l.op = "ALU"  -> do_alu(l)
                     [] l.op = "JMP"  -> do_jmp(l)
                     [] l.op = "CALL" -> IF l.rel THEN 4096 + l.a ELSE 0
                     [] OTHER         -> l.a
<1>1. insn_word(l) = 4096 * Position(opcodes, l.op) + rest
  BY DEF insn_word
<1>3. /\ l.op \in {"LOAD", "STORE"} => rest = do_load_store(l)
      /\ l.op = "MOVE" => rest = 16 * l.b + l.a
      /\ l.op = "ALU"  => rest = do_alu(l)
      /\ l.op = "JMP"  => rest = do_jmp(l)
      /\ l.op = "CALL" => rest = IF l.rel THEN 4096 + l.a ELSE 0
      /\ l.op \notin {"LOAD", "STORE", "MOVE", "ALU", "JMP", "CALL"} => rest = l.a
  OBVIOUS
<1> HIDE DEF rest
<1> QED BY <1>1, <1>3, OpcodeOf

LEMMA LoadStoreWord ==
  ASSUME NEW l, Accepted(l), l.op \in {"LOAD", "STORE"} PROVE do_load_store(l) \in Nat /\ do_load_store(l) < 4096
<1> DEFINE x == l.a  y == l.b  bit == l.byte  far == l.rel
<1>1. x \in 0 .. 7 /\ y \in 0 .. 7 /\ bit \in BOOLEAN /\ far \in BOOLEAN
  BY Fields
<1>2. do_load_store(l) = (IF bit THEN 1024 ELSE 0) + (IF far THEN 2048 + 8 * y ELSE 0) + x
  BY DEF do_load_store
<1> HIDE DEF x, y, bit, far
<1> QED BY <1>1, <1>2

LEMMA AluWord ==
  ASSUME NEW l, Accepted(l), l.op = "ALU" PROVE do_alu(l) \in Nat /\ do_alu(l) < 4096
<1> DEFINE x == l.a  y == l.b  z == l.c  k == Position(alu_ops, l.sub)
<1>1. x \in 0 .. 7 /\ y \in 0 .. 7 /\ z \in 0 .. 7
  BY Fields
<1>2. k \in 1 .. 8
  BY AluCode DEF Accepted
<1>3. do_alu(l) = 512 * (k - 1) + 64 * z + 8 * y + x
  BY DEF do_alu
<1> HIDE DEF x, y, z, k
<1> QED BY <1>1, <1>2, <1>3

LEMMA JmpWord ==
  ASSUME NEW l, Accepted(l), l.op = "JMP" PROVE do_jmp(l) \in Nat /\ do_jmp(l) < 8192
<1> DEFINE x == l.a  k == Position(jmp_code, l.sub)  far == l.rel
<1>1. x \in 0 .. 7 /\ far \in BOOLEAN
  BY Fields
<1>2. k \in 1 .. 7
  BY JmpCode DEF Accepted
<1>3. do_jmp(l) = 512 * (k - 1) + IF far THEN 4096 + x ELSE 0
  BY DEF do_jmp
<1> HIDE DEF x, k, far
<1> QED BY <1>1, <1>2, <1>3

LEMMA InsnWordType ==
  ASSUME NEW l, Accepted(l), IsInstruction(l) PROVE insn_word(l) \in Words
<1> DEFINE x == l.a  y == l.b  far == l.rel  w == insn_word(l)  name == l.op
           ls == do_load_store(l)  alu == do_alu(l)  jmp == do_jmp(l)
<1>1. /\ x \in 0 .. 8 /\ y \in 0 .. 8 /\ far \in BOOLEAN /\ (name # "MOVE" => x \in 0 .. 7)
      /\ name \in Mnemonics
  BY Fields, OperationType
<1>2. /\ name \in {"LOAD", "STORE"} => ls \in Nat /\ ls < 4096
      /\ name = "ALU" => alu \in Nat /\ alu < 4096
      /\ name = "JMP" => jmp \in Nat /\ jmp < 8192
  BY LoadStoreWord, AluWord, JmpWord
<1>3. /\ name = "SET"   => w = 4096 + x
      /\ name = "LOAD"  => w = 8192 + ls
      /\ name = "STORE" => w = 12288 + ls
      /\ name = "MOVE"  => w = 16384 + (16 * y + x)
      /\ name = "ALU"   => w = 20480 + alu
      /\ name = "JMP"   => w = 24576 + jmp
      /\ name = "CALL"  => w = 32768 + (IF far THEN 4096 + x ELSE 0)
      /\ name = "RET"   => w = 40960 + x
      /\ name = "PUSH"  => w = 45056 + x
      /\ name = "POP"   => w = 49152 + x
      /\ name = "IN"    => w = 53248 + x
      /\ name = "OUT"   => w = 57344 + x
      /\ name = "HALT"  => w = 61440 + x
  BY InsnWord
<1> HIDE DEF x, y, far, w, name, ls, alu, jmp
<1>4. w \in Nat /\ w < 65536
  <2>1. CASE name \in {"SET", "LOAD", "STORE", "MOVE"}
    <3>1. name = "SET" => w = 4096 + x
      BY <1>3
    <3>2. name = "LOAD" => w = 8192 + ls /\ ls \in Nat /\ ls < 4096
      BY <1>2, <1>3
    <3>3. name = "STORE" => w = 12288 + ls /\ ls \in Nat /\ ls < 4096
      BY <1>2, <1>3
    <3>4. name = "MOVE" => w = 16384 + (16 * y + x)
      BY <1>3
    <3>5. x \in 0 .. 8 /\ y \in 0 .. 8
      BY <1>1
    <3> QED BY <2>1, <3>1, <3>2, <3>3, <3>4, <3>5
  <2>2. CASE name \in {"ALU", "JMP", "CALL"}
    <3>1. name = "ALU" => w = 20480 + alu /\ alu \in Nat /\ alu < 4096
      BY <1>2, <1>3
    <3>2. name = "JMP" => w = 24576 + jmp /\ jmp \in Nat /\ jmp < 8192
      BY <1>2, <1>3
    <3>3. name = "CALL" => w = 32768 + (IF far THEN 4096 + x ELSE 0)
      BY <1>3
    <3>4. x \in 0 .. 8 /\ far \in BOOLEAN
      BY <1>1
    <3> QED BY <2>2, <3>1, <3>2, <3>3, <3>4
  <2>3. CASE name \in {"RET", "PUSH", "POP", "IN", "OUT", "HALT"}
    <3>1. x \in 0 .. 7
      BY <1>1, <2>3
    <3> QED BY <1>3, <2>3, <3>1
  <2> QED BY <1>1, <2>1, <2>2, <2>3 DEF Mnemonics
<1> QED BY <1>4 DEF w, Words

-----------------------------------------------------------------------------
\* The bytes the assembler stores.

LEMMA TwoBytes ==
  ASSUME NEW n \in Words
  PROVE  /\ two_bytes(n) \in Seq(Bytes) /\ Len(two_bytes(n)) = 2
         /\ two_bytes(n)[1] + 256 * two_bytes(n)[2] = n
<1> DEFINE low == n % 256  high == n \div 256
<1>1. low \in Bytes /\ high \in Bytes /\ n = low + 256 * high
  BY WordParts
<1>2. two_bytes(n) = <<low, high>>
  BY DEF two_bytes
<1> DEFINE t == two_bytes(n)
<1> HIDE DEF low, high, t
<1>3. t = <<low, high>>
  BY <1>2 DEF t
<1>4. t \in Seq(Bytes)
  BY <1>1, <1>3
<1>5. Len(t) = 2 /\ t[1] = low /\ t[2] = high
  BY <1>3
<1> QED BY <1>1, <1>4, <1>5 DEF t

\* Every label read has an address.
Values(symbols) == \A sym \in DOMAIN symbols : symbols[sym] \in Words

LEMMA ValueType ==
  ASSUME NEW l, Accepted(l), NEW symbols, Values(symbols) PROVE value(l, symbols) \in Words
<1>1. l.num \in Words /\ 0 \in Words
  BY LineType DEF Words
<1> QED BY <1>1 DEF value, Values

LEMMA Joined ==
  ASSUME NEW C, NEW s \in Seq(C), NEW t \in Seq(C)
  PROVE  /\ s \o t \in Seq(C) /\ Len(s \o t) = Len(s) + Len(t)
         /\ \A i \in 1 .. Len(t) : (s \o t)[Len(s) + i] = t[i]
OBVIOUS

LEMMA StoredBytes ==
  ASSUME NEW l, Accepted(l), NEW symbols, Values(symbols)
  PROVE  /\ stored_bytes(l, symbols) \in Seq(Bytes) /\ Len(stored_bytes(l, symbols)) = Size(l)
         /\ Long(l) => /\ stored_bytes(l, symbols)[3] + 256 * stored_bytes(l, symbols)[4] = value(l, symbols)
                       /\ Size(l) = 4
<1> DEFINE w == two_bytes(insn_word(l))  v == two_bytes(value(l, symbols))  bytes == stored_bytes(l, symbols)
<1>1. CASE ~IsInstruction(l)
  <2>1. ~Long(l)
    BY <1>1, LongIsInstruction
  <2>2. bytes = DataBytes(l) /\ Size(l) = Len(DataBytes(l))
    BY <1>1 DEF stored_bytes, Size
  <2> QED BY <2>1, <2>2, LineType
<1>2. CASE IsInstruction(l)
  <2>1. w \in Seq(Bytes) /\ Len(w) = 2
    BY <1>2, InsnWordType, TwoBytes
  <2>2. v \in Seq(Bytes) /\ Len(v) = 2 /\ v[1] + 256 * v[2] = value(l, symbols)
    BY ValueType, TwoBytes
  <2>3. bytes = (w \o IF Long(l) THEN v ELSE <<>>) /\ Size(l) = IF Long(l) THEN 4 ELSE 2
    BY <1>2 DEF stored_bytes, Size
  <2> HIDE DEF w, v, bytes
  <2>4. CASE Long(l)
    <3>1. bytes = w \o v
      BY <2>3, <2>4
    <3>2. w \in Seq(Bytes)
      BY <2>1
    <3>6. v \in Seq(Bytes)
      BY <2>2
    <3>3. /\ bytes \in Seq(Bytes) /\ Len(bytes) = Len(w) + Len(v)
          /\ \A i \in 1 .. Len(v) : bytes[Len(w) + i] = v[i]
      BY <3>1, <3>2, <3>6, Joined
    <3>4. bytes[2 + 1] = v[1]
      BY <2>1, <2>2, <3>3
    <3>5. bytes[2 + 2] = v[2]
      BY <2>1, <2>2, <3>3
    <3>7. bytes \in Seq(Bytes) /\ Len(bytes) = 4 /\ bytes[3] = v[1] /\ bytes[4] = v[2]
      BY <2>1, <2>2, <3>3, <3>4, <3>5
    <3> QED BY <2>2, <2>3, <2>4, <3>7 DEF bytes
  <2>5. CASE ~Long(l)
    <3>1. bytes = w \o <<>>
      BY <2>3, <2>5
    <3>2. bytes \in Seq(Bytes) /\ Len(bytes) = 2
      BY <2>1, <3>1
    <3> QED BY <2>3, <2>5, <3>2 DEF bytes
  <2> QED BY <2>4, <2>5
<1> QED BY <1>1, <1>2

LEMMA PlacedBytes ==
  ASSUME NEW m, Cells(m), NEW bytes \in Seq(Bytes), NEW addr \in Nat
  PROVE  /\ Cells(Placed(bytes, addr, m))
         /\ DOMAIN Placed(bytes, addr, m) = DOMAIN m \cup (addr .. addr + Len(bytes) - 1)
         /\ \A a : ByteIn(Placed(bytes, addr, m), a) =
              IF a \in addr .. addr + Len(bytes) - 1 THEN bytes[a - addr + 1] ELSE ByteIn(m, a)
<1> DEFINE place == addr .. addr + Len(bytes) - 1
           new == Placed(bytes, addr, m)
<1>1. new = [a \in DOMAIN m \cup place |-> IF a \in place THEN bytes[a - addr + 1] ELSE m[a]]
  BY DEF Placed
<1>2. \A a \in place : bytes[a - addr + 1] \in Bytes
  <2> SUFFICES ASSUME NEW a \in place PROVE bytes[a - addr + 1] \in Bytes
    OBVIOUS
  <2>1. a - addr + 1 \in 1 .. Len(bytes)
    OBVIOUS
  <2> QED BY <2>1
<1> HIDE DEF place, new
<1>3. Cells(new)
  BY <1>1, <1>2 DEF Cells
<1>4. DOMAIN new = DOMAIN m \cup place
  BY <1>1
<1>5. \A a : ByteIn(new, a) = IF a \in place THEN bytes[a - addr + 1] ELSE ByteIn(m, a)
  BY <1>1 DEF ByteIn
<1> QED BY <1>3, <1>4, <1>5 DEF place, new

\* The word of a label, put where an operand was left open.
LEMMA PlacedWord ==
  ASSUME NEW m, Cells(m), NEW n \in Words, NEW addr \in Nat
  PROVE  /\ Cells(Placed(two_bytes(n), addr, m))
         /\ DOMAIN Placed(two_bytes(n), addr, m) = DOMAIN m \cup {addr, addr + 1}
         /\ WordIn(Placed(two_bytes(n), addr, m), addr) = n
         /\ \A a : a \notin {addr, addr + 1} => ByteIn(Placed(two_bytes(n), addr, m), a) = ByteIn(m, a)
<1> DEFINE b == two_bytes(n)  new == Placed(b, addr, m)
<1>1. b \in Seq(Bytes) /\ Len(b) = 2 /\ b[1] + 256 * b[2] = n
  BY TwoBytes
<1> HIDE DEF b
<1>2. addr .. addr + Len(b) - 1 = {addr, addr + 1}
  BY <1>1
<1>3. /\ Cells(new) /\ DOMAIN new = DOMAIN m \cup {addr, addr + 1}
      /\ \A a : ByteIn(new, a) = IF a \in {addr, addr + 1} THEN b[a - addr + 1] ELSE ByteIn(m, a)
  BY <1>1, <1>2, PlacedBytes
<1> HIDE DEF new
<1>4. ByteIn(new, addr) = b[1] /\ ByteIn(new, addr + 1) = b[2]
  BY <1>3
<1>5. WordIn(new, addr) = n
  BY <1>1, <1>4 DEF WordIn
<1> QED BY <1>3, <1>5 DEF new, b

-----------------------------------------------------------------------------
\* The invariant of the assembler.

\* Bytes at some of the addresses.
Memories == UNION {[D -> Bytes] : D \in SUBSET Words}

LEMMA MemoryParts ==
  ASSUME NEW m PROVE m \in Memories => Cells(m) /\ DOMAIN m \subseteq Words
BY DEF Memories, Cells

LEMMA PlacedMemory ==
  ASSUME NEW m \in Memories, NEW bytes \in Seq(Bytes), NEW addr \in Nat,
         addr .. addr + Len(bytes) - 1 \subseteq Words
  PROVE  Placed(bytes, addr, m) \in Memories
<1> DEFINE place == addr .. addr + Len(bytes) - 1
           new == Placed(bytes, addr, m)
           D == DOMAIN m \cup place
<1>1. Cells(m) /\ DOMAIN m \subseteq Words
  BY MemoryParts
<1>2. Cells(new) /\ DOMAIN new = D
  BY <1>1, PlacedBytes
<1>3. new = [a \in D |-> IF a \in place THEN bytes[a - addr + 1] ELSE m[a]]
  BY DEF Placed
<1> HIDE DEF place, new
<1>4. D \subseteq Words
  BY <1>1 DEF place
<1>5. new \in [D -> Bytes]
  <2>1. new = [a \in D |-> new[a]]
    BY <1>3
  <2>2. \A a \in D : new[a] \in Bytes
    BY <1>2 DEF Cells
  <2> HIDE DEF D
  <2> QED BY <2>1, <2>2
<1> HIDE DEF D
<1> QED BY <1>4, <1>5 DEF Memories, new

Safe ==
  /\ MachineOK
  /\ phase \in {"assemble", "failed", "run", "halted", "error"}
  /\ \A addr \in DOMAIN memory : addr \in Nat /\ addr <= 65536

AssemblerOK ==
  /\ Program(program)
  /\ lineno \in 1 .. Len(program) + 1
  /\ current_addr = Addresses(program)[lineno] /\ current_addr \in Nat
  /\ max_addr \in Nat /\ current_addr <= max_addr
  /\ \A i \in 1 .. lineno - 1 : Addresses(program)[i] + Size(program[i]) <= max_addr
  /\ Values(symtab)
  /\ image \in Memories
  /\ Len(fixups) \in Nat /\ DOMAIN fixups = 1 .. Len(fixups)
  /\ \A k \in DOMAIN fixups : \E i \in 1 .. lineno - 1 :
       program[i].sym # NoName /\ fixups[k] = <<program[i].sym, Addresses(program)[i] + 2>>

\* No label is defined twice, and no line lies over another.
Clear(p) ==
  \A i, j \in DOMAIN p :
    i # j => /\ p[i].label # NoName => p[i].label # p[j].label
             /\ Place(p, i) \cap Place(p, j) = {}

\* The labels read so far have the addresses of their lines, and each operand
\* that is a label has its value or is among the fixups.
SymbolsOK ==
  /\ Clear(program)
  /\ DOMAIN symtab = {program[i].label : i \in 1 .. lineno - 1} \ {NoName}
  /\ \A i \in 1 .. lineno - 1 :
       program[i].label # NoName => symtab[program[i].label] = Addresses(program)[i]
OperandsOK ==
  \A i \in 1 .. lineno - 1 : program[i].sym # NoName =>
    \/ /\ program[i].sym \in DOMAIN symtab
       /\ WordIn(image, Addresses(program)[i] + 2) = symtab[program[i].sym]
    \/ \E k \in DOMAIN fixups : fixups[k] = <<program[i].sym, Addresses(program)[i] + 2>>

\* What reading a line does.
LEMMA LineRead ==
  ASSUME AssemblerOK, do_line
  PROVE  LET l == program[lineno]
             bytes == stored_bytes(l, symtab')
         IN /\ lineno \in 1 .. Len(program) /\ lineno \in DOMAIN program
            /\ lineno' = lineno + 1 /\ program' = program
            /\ Accepted(l)
            /\ current_addr = Addresses(program)[lineno] /\ current_addr \in Words
            /\ symtab' = IF l.label = NoName THEN symtab ELSE Known(l.label, current_addr)
            /\ Values(symtab')
            /\ bytes \in Seq(Bytes) /\ Len(bytes) = Size(l)
            /\ image' = Placed(bytes, current_addr, image)
            /\ fixups' = IF l.sym # NoName /\ l.sym \notin DOMAIN symtab'
                         THEN Append(fixups, <<l.sym, Addresses(program)[lineno] + 2>>) ELSE fixups
            /\ current_addr' = Following(l, current_addr)
            /\ current_addr' = Addresses(program)[lineno + 1]
            /\ max_addr' = IF current_addr' > max_addr THEN current_addr' ELSE max_addr
<1> DEFINE l == program[lineno]  bytes == stored_bytes(l, symtab')
<1>1. /\ lineno <= Len(program)
      /\ symtab' = IF l.label = NoName THEN symtab ELSE Known(l.label, current_addr)
      /\ lineno' = lineno + 1 /\ program' = program
      /\ max_addr' = IF current_addr' > max_addr THEN current_addr' ELSE max_addr
  BY DEF do_line
<1>2. /\ image' = Placed(bytes, current_addr, image)
      /\ current_addr' = after(l, current_addr, bytes)
      /\ fixups' = IF IsInstruction(l) /\ Long(l) /\ l.sym # NoName /\ l.sym \notin DOMAIN symtab'
                   THEN Append(fixups, <<l.sym, fixup_at(current_addr)>>) ELSE fixups
  BY <1>1 DEF do_line
<1>3. /\ Len(program) \in Nat /\ lineno \in 1 .. Len(program) /\ lineno \in DOMAIN program
      /\ \A i \in DOMAIN program : Accepted(program[i]) /\ Addresses(program)[i] \in Words
      /\ DOMAIN program = 1 .. Len(program)
      /\ current_addr = Addresses(program)[lineno]
  <2>1. /\ Len(program) \in Nat /\ DOMAIN program = 1 .. Len(program)
        /\ \A i \in DOMAIN program : Accepted(program[i]) /\ Addresses(program)[i] \in Words
    BY DEF AssemblerOK, Program
  <2>2. lineno \in 1 .. Len(program)
    BY <1>1, <2>1 DEF AssemblerOK
  <2> QED BY <2>1, <2>2 DEF AssemblerOK
<1>4. Accepted(l) /\ current_addr \in Words
  BY <1>3
<1> HIDE DEF l
<1>5. Values(symtab')
  <2>1. Values(symtab)
    BY DEF AssemblerOK
  <2>2. CASE l.label = NoName
    BY <1>1, <2>1, <2>2
  <2>3. CASE l.label # NoName
    BY <1>1, <1>4, <2>1, <2>3 DEF Values, Known
  <2> QED BY <2>2, <2>3
<1>6. bytes \in Seq(Bytes) /\ Len(bytes) = Size(l)
  BY <1>4, <1>5, StoredBytes
<1> HIDE DEF bytes
<1>7. current_addr' = Following(l, current_addr)
  BY <1>2, <1>6 DEF after, Following
<1>8. current_addr' = Addresses(program)[lineno + 1]
  <2>1. Addresses(program)[lineno + 1] = Following(program[lineno], Addresses(program)[lineno])
    BY <1>3, AddressesRun
  <2> QED BY <1>3, <1>7, <2>1 DEF l
<1>9. fixups' = IF l.sym # NoName /\ l.sym \notin DOMAIN symtab'
                THEN Append(fixups, <<l.sym, Addresses(program)[lineno] + 2>>) ELSE fixups
  <2>1. l.sym # NoName => IsInstruction(l) /\ Long(l)
    BY <1>4, LongIsInstruction DEF Accepted
  <2>2. fixup_at(current_addr) = Addresses(program)[lineno] + 2
    BY <1>3 DEF fixup_at
  <2> QED BY <1>2, <2>1, <2>2
<1> QED BY <1>1, <1>2, <1>3, <1>4, <1>5, <1>6, <1>7, <1>8, <1>9 DEF bytes, l

LEMMA AssemblerInit == Init => AssemblerOK
<1> SUFFICES ASSUME Init PROVE AssemblerOK
  OBVIOUS
<1>1. Program(program)
  <2>1. PICK s \in Sessions : program = s.program
    BY DEF Init
  <2> QED BY <2>1, ProgramsFit DEF Program
<1>2. Addresses(program)[1] = 0 /\ Len(program) \in Nat
  BY <1>1, AddressesRun DEF Program
<1>3. /\ lineno = 1 /\ symtab = <<>> /\ current_addr = 0 /\ max_addr = 0 /\ image = <<>> /\ fixups = <<>>
  BY DEF Init, AsmInit
<1>4. DOMAIN symtab = {} /\ DOMAIN image = {} /\ Len(fixups) = 0 /\ DOMAIN fixups = {}
  BY <1>3
<1>5. Values(symtab) /\ DOMAIN fixups = 1 .. Len(fixups)
  BY <1>4 DEF Values
<1>6. image \in Memories
  <2>1. image \in [{} -> Bytes]
    BY <1>3
  <2>2. {} \in SUBSET Words
    OBVIOUS
  <2> QED BY <2>1, <2>2, Zenon DEF Memories
<1> QED BY <1>1, <1>2, <1>3, <1>4, <1>5, <1>6 DEF AssemblerOK

LEMMA AppendParts ==
  ASSUME NEW s, Len(s) \in Nat, DOMAIN s = 1 .. Len(s), NEW e
  PROVE  /\ Len(Append(s, e)) = Len(s) + 1 /\ DOMAIN Append(s, e) = 1 .. Len(s) + 1
         /\ \A k \in DOMAIN s : Append(s, e)[k] = s[k]
         /\ Append(s, e)[Len(s) + 1] = e
OBVIOUS

LEMMA AssemblerLine == AssemblerOK /\ do_line => AssemblerOK'
<1> SUFFICES ASSUME AssemblerOK, do_line PROVE AssemblerOK'
  OBVIOUS
<1> DEFINE l == program[lineno]  bytes == stored_bytes(l, symtab')  A == Addresses(program)
           left == <<l.sym, A[lineno] + 2>>
<1>1. /\ lineno \in 1 .. Len(program) /\ lineno \in DOMAIN program
      /\ lineno' = lineno + 1 /\ program' = program
      /\ Accepted(l)
      /\ current_addr = A[lineno] /\ current_addr \in Words
      /\ Values(symtab')
      /\ bytes \in Seq(Bytes) /\ Len(bytes) = Size(l)
      /\ image' = Placed(bytes, current_addr, image)
      /\ fixups' = IF l.sym # NoName /\ l.sym \notin DOMAIN symtab' THEN Append(fixups, left) ELSE fixups
      /\ current_addr' = Following(l, current_addr)
      /\ current_addr' = A[lineno + 1]
      /\ max_addr' = IF current_addr' > max_addr THEN current_addr' ELSE max_addr
  BY LineRead
<1>2. /\ Program(program) /\ lineno \in 1 .. Len(program) + 1
      /\ current_addr \in Nat /\ max_addr \in Nat /\ current_addr <= max_addr
      /\ \A i \in 1 .. lineno - 1 : A[i] + Size(program[i]) <= max_addr
      /\ image \in Memories
      /\ Len(fixups) \in Nat /\ DOMAIN fixups = 1 .. Len(fixups)
      /\ \A k \in DOMAIN fixups : \E i \in 1 .. lineno - 1 :
           program[i].sym # NoName /\ fixups[k] = <<program[i].sym, A[i] + 2>>
  BY DEF AssemblerOK
<1>3. Len(program) \in Nat /\ Place(program, lineno) \subseteq Words
  BY <1>1, <1>2 DEF Program
<1>4. current_addr' \in Nat
  BY <1>1, <1>2, FollowingType
<1>5. max_addr' \in Nat /\ current_addr' <= max_addr' /\ max_addr <= max_addr'
  BY <1>1, <1>2, <1>4
<1>6. A[lineno] + Size(l) <= max_addr'
  <2>1. CASE l.op \in {"ADDR", "ALIGN"}
    <3>1. Size(l) = 0
      <4>1. ~IsInstruction(l) /\ DataBytes(l) = <<>>
        BY <1>1, <2>1, LineType
      <4> QED BY <4>1 DEF Size
    <3> HIDE DEF l
    <3> QED BY <1>1, <1>2, <1>5, <3>1
  <2>2. CASE l.op \notin {"ADDR", "ALIGN"}
    <3>1. Following(l, current_addr) = current_addr + Size(l)
      BY <2>2 DEF Following
    <3> QED BY <1>1, <1>5, <3>1
  <2> QED BY <2>1, <2>2
<1>7. \A i \in 1 .. lineno : A[i] + Size(program[i]) <= max_addr'
  <2> SUFFICES ASSUME NEW i \in 1 .. lineno PROVE A[i] + Size(program[i]) <= max_addr'
    OBVIOUS
  <2>1. CASE i = lineno
    BY <1>6, <2>1
  <2>2. CASE i # lineno
    <3>1. i \in 1 .. lineno - 1 /\ i \in DOMAIN program
      BY <1>1, <1>2, <2>2 DEF Program
    <3>2. A[i] \in Nat /\ Size(program[i]) \in Nat
      BY <1>2, <3>1, LineType DEF Program, Words
    <3> DEFINE end == A[i] + Size(program[i])
    <3>3. end \in Nat /\ end <= max_addr
      BY <1>2, <3>1, <3>2
    <3> HIDE DEF end
    <3>4. end <= max_addr'
      BY <1>2, <1>5, <3>3
    <3> QED BY <3>4 DEF end
  <2> QED BY <2>1, <2>2
<1>8. image' \in Memories
  <2>1. current_addr \in Nat
    BY <1>2
  <2>2. current_addr .. current_addr + Len(bytes) - 1 \subseteq Words
    BY <1>1, <1>3 DEF Place
  <2> HIDE DEF bytes
  <2> QED BY <1>1, <1>2, <2>1, <2>2, PlacedMemory
<1>9. /\ Len(fixups') \in Nat /\ DOMAIN fixups' = 1 .. Len(fixups')
      /\ \A k \in DOMAIN fixups' : \E i \in 1 .. lineno :
           program[i].sym # NoName /\ fixups'[k] = <<program[i].sym, A[i] + 2>>
  <2>1. CASE fixups' = fixups
    <3> SUFFICES ASSUME NEW k \in DOMAIN fixups
                 PROVE  \E i \in 1 .. lineno : program[i].sym # NoName /\ fixups[k] = <<program[i].sym, A[i] + 2>>
      BY <1>2, <2>1
    <3>1. PICK i \in 1 .. lineno - 1 : program[i].sym # NoName /\ fixups[k] = <<program[i].sym, A[i] + 2>>
      BY <1>2
    <3>2. i \in 1 .. lineno
      BY <1>1
    <3> QED BY <3>1, <3>2
  <2>2. CASE l.sym # NoName /\ fixups' = Append(fixups, left)
    <3> HIDE DEF left
    <3>1. /\ Len(fixups') = Len(fixups) + 1 /\ DOMAIN fixups' = 1 .. Len(fixups) + 1
          /\ \A k \in DOMAIN fixups : fixups'[k] = fixups[k]
          /\ fixups'[Len(fixups) + 1] = left
      BY <1>2, <2>2, AppendParts
    <3> SUFFICES ASSUME NEW k \in DOMAIN fixups'
                 PROVE  \E i \in 1 .. lineno : program[i].sym # NoName /\ fixups'[k] = <<program[i].sym, A[i] + 2>>
      BY <1>2, <3>1
    <3>2. CASE k = Len(fixups) + 1
      <4>1. lineno \in 1 .. lineno /\ program[lineno].sym # NoName /\ fixups'[k] = <<program[lineno].sym, A[lineno] + 2>>
        BY <1>1, <2>2, <3>1, <3>2 DEF left
      <4> QED BY <4>1
    <3>3. CASE k # Len(fixups) + 1
      <4>1. k \in DOMAIN fixups /\ fixups'[k] = fixups[k]
        BY <1>2, <3>1, <3>3
      <4>2. PICK i \in 1 .. lineno - 1 : program[i].sym # NoName /\ fixups[k] = <<program[i].sym, A[i] + 2>>
        BY <1>2, <4>1
      <4>3. i \in 1 .. lineno
        BY <1>1
      <4> QED BY <4>1, <4>2, <4>3
    <3> QED BY <3>2, <3>3
  <2> QED BY <1>1, <2>1, <2>2
<1>10. lineno' \in 1 .. Len(program') + 1 /\ 1 .. lineno' - 1 = 1 .. lineno
  BY <1>1, <1>3
<1> HIDE DEF l, bytes, left
<1> QED BY <1>1, <1>2, <1>4, <1>5, <1>7, <1>8, <1>9, <1>10 DEF AssemblerOK

\* The image after each of the fixups.
Patches(g) ==
  /\ g[0] = image
  /\ \A n \in 1 .. Len(fixups) :
       /\ fixups[n][1] \in DOMAIN symtab
       /\ g[n] = Placed(two_bytes(symtab[fixups[n][1]]), fixups[n][2], g[n - 1])
       /\ g[n - 1] \in Memories
  /\ binary = g[Len(fixups)] /\ binary \in Memories

LEMMA OpenOperand ==
  ASSUME AssemblerOK, NEW i \in DOMAIN program, program[i].sym # NoName
  PROVE  /\ Addresses(program)[i] \in Nat /\ Size(program[i]) = 4
         /\ {Addresses(program)[i] + 2, Addresses(program)[i] + 3} \subseteq Place(program, i)
         /\ {Addresses(program)[i] + 2, Addresses(program)[i] + 3} \subseteq Words
<1> DEFINE l == program[i]  addr == Addresses(program)[i]
<1>1. Accepted(l) /\ addr \in Words /\ Place(program, i) \subseteq Words
  BY DEF AssemblerOK, Program
<1>2. Long(l) /\ IsInstruction(l)
  BY <1>1, LongIsInstruction DEF Accepted
<1>3. Size(l) = 4
  BY <1>2 DEF Size
<1>4. Place(program, i) = addr .. addr + 4 - 1
  BY <1>3 DEF Place
<1> HIDE DEF addr
<1>5. addr \in Nat
  BY <1>1 DEF Words
<1>6. {addr + 2, addr + 3} \subseteq Place(program, i)
  BY <1>4, <1>5
<1> QED BY <1>1, <1>3, <1>5, <1>6 DEF addr

LEMMA BinaryRun ==
  ASSUME AssemblerOK, Undefined = {} PROVE \E g : Patches(g)
<1> DEFINE K == Len(fixups)
           Turn(n, m) == Placed(two_bytes(symtab[fixups[n][1]]), fixups[n][2], m)
           step == [a \in (1 .. K) \X Memories |-> Turn(a[1], a[2])]
           Body(g) == [n \in 0 .. K |-> IF n = 0 THEN image
                         ELSE Placed(two_bytes(symtab[fixups[n][1]]), fixups[n][2], g[n - 1])]
<1>1. K \in Nat /\ DOMAIN fixups = 1 .. K /\ image \in Memories /\ Values(symtab)
  BY DEF AssemblerOK
<1>2. ASSUME NEW n \in 1 .. K
      PROVE  /\ fixups[n][1] \in DOMAIN symtab /\ fixups[n][2] \in Nat
             /\ {fixups[n][2], fixups[n][2] + 1} \subseteq Words
  <2>1. fixups[n][1] \in DOMAIN symtab
    BY <1>1 DEF Undefined
  <2>2. PICK i \in 1 .. lineno - 1 : program[i].sym # NoName /\ fixups[n] = <<program[i].sym, Addresses(program)[i] + 2>>
    BY <1>1 DEF AssemblerOK
  <2>3. i \in DOMAIN program
    BY DEF AssemblerOK, Program
  <2> DEFINE addr == Addresses(program)[i]
  <2>4. addr \in Nat /\ {addr + 2, addr + 3} \subseteq Words
    BY <2>2, <2>3, OpenOperand
  <2>5. fixups[n][2] = addr + 2
    BY <2>2
  <2> HIDE DEF addr
  <2>6. addr + 2 \in Nat /\ (addr + 2) + 1 = addr + 3
    BY <2>4
  <2> QED BY <2>1, <2>4, <2>5, <2>6
<1>3. ASSUME NEW n \in 1 .. K, NEW m \in Memories PROVE Turn(n, m) \in Memories
  <2> DEFINE b == two_bytes(symtab[fixups[n][1]])  addr == fixups[n][2]
  <2>1. b \in Seq(Bytes) /\ Len(b) = 2
    <3>1. symtab[fixups[n][1]] \in Words
      BY <1>1, <1>2 DEF Values
    <3> QED BY <3>1, TwoBytes
  <2>2. addr \in Nat /\ {addr, addr + 1} \subseteq Words
    BY <1>2
  <2> HIDE DEF b, addr
  <2>3. addr .. addr + Len(b) - 1 \subseteq Words
    BY <2>1, <2>2
  <2>4. Placed(b, addr, m) \in Memories
    BY <2>1, <2>2, <2>3, PlacedMemory
  <2> QED BY <2>4 DEF b, addr
<1>4. step \in [(1 .. K) \X Memories -> Memories]
  <2> HIDE DEF Turn
  <2> QED BY <1>3
<1>5. PICK g : Turns(g, K, Memories, image, step)
  <2> HIDE DEF step
  <2> QED BY <1>1, <1>4, Recursion
<1>6. g \in [0 .. K -> Memories] /\ g[0] = image /\ \A n \in 1 .. K : g[n] = step[<<n, g[n - 1]>>]
  BY <1>5 DEF Turns
<1>7. ASSUME NEW n \in 1 .. K PROVE g[n] = Turn(n, g[n - 1])
  <2>1. g[n - 1] \in Memories
    BY <1>6
  <2> HIDE DEF Turn
  <2>2. step[<<n, g[n - 1]>>] = Turn(n, g[n - 1])
    BY <2>1
  <2> QED BY <1>6, <2>2
<1>8. g = Body(g)
  BY <1>6, <1>7
<1> DEFINE patched == CHOOSE h : h = Body(h)
<1>9. patched = Body(patched)
  <2> HIDE DEF Body
  <2> QED BY <1>8
<1>10. binary = patched[K]
  BY DEF binary
<1> HIDE DEF patched
<1>11. patched[0] = image /\ \A n \in 1 .. K : patched[n] = Turn(n, patched[n - 1])
  BY <1>1, <1>9
<1> DEFINE T == {n \in 0 .. K : patched[n] \in Memories}
<1>12. 0 \in T
  BY <1>1, <1>11
<1>13. ASSUME NEW n \in 1 .. K, n - 1 \in T PROVE n \in T
  <2> HIDE DEF Turn
  <2> QED BY <1>3, <1>11, <1>13
<1>14. 0 .. K \subseteq T
  <2> HIDE DEF T
  <2> QED BY <1>1, <1>12, <1>13, RangeInduction
<1>15. \A n \in 0 .. K : patched[n] \in Memories
  BY <1>14
<1>16. binary \in Memories /\ \A n \in 1 .. K : patched[n - 1] \in Memories
  BY <1>1, <1>10, <1>15
<1>17. Patches(patched)
  <2> HIDE DEF Turn
  <2>1. \A n \in 1 .. K : patched[n] = Placed(two_bytes(symtab[fixups[n][1]]), fixups[n][2], patched[n - 1])
    BY <1>11 DEF Turn
  <2> QED BY <1>2, <1>10, <1>11, <1>16, <2>1 DEF Patches
<1> QED BY <1>17

-----------------------------------------------------------------------------
\* The machine runs any program.

\* The instruction at PC stores no word to the last address, by a STORE, a PUSH
\* or a CALL, and no byte to that address as a constant.
StoresWords ==
  /\ opcode = 3 => IF insn \div 256 \in {48, 52} THEN operand # 65535
                   ELSE insn \div 256 # 60 => R[rb] # 65535
  /\ opcode \in {8, 9, 11} => SP # 1

\* Everything that was ever written lies in the memory.
NothingBehindMemory == \A addr \in DOMAIN memory : addr \in Words

LEMMA TouchedAddresses ==
  ASSUME MachineOK
  PROVE  /\ \A addr \in Touched : addr \in Nat /\ addr <= 65536
         /\ StoresWords => Touched \subseteq Words
<1> DEFINE x == operand  y == R[rb]  z == Wrap(SP - 2)  form == insn \div 256
<1>1. x \in Words /\ y \in Words /\ z \in Words
  BY InstructionParts, SkipType
<1>2. \/ Touched = {}
      \/ opcode = 3 /\ Touched = {x + 1} /\ form = 52
      \/ opcode = 3 /\ Touched = {y} /\ form = 60
      \/ opcode = 3 /\ Touched = {x, x + 1} /\ form = 48
      \/ opcode = 3 /\ Touched = {y, y + 1} /\ form \notin {48, 52, 60}
      \/ opcode \in {8, 9, 11} /\ Touched = {z, z + 1}
  BY DEF Touched
<1>3. z = 65535 => SP = 1
  BY SMTT(30) DEF MachineOK, Wrap, Words
<1>4. StoresWords => /\ opcode = 3 /\ form \in {48, 52} => x # 65535
                     /\ opcode = 3 /\ form \notin {48, 52, 60} => y # 65535
                     /\ opcode \in {8, 9, 11} => z # 65535
  BY <1>3 DEF StoresWords
<1> HIDE DEF x, y, z, form
<1>5. \A addr \in Touched : addr \in Nat /\ addr <= 65536
  BY <1>1, <1>2 DEF Words
<1>6. ASSUME StoresWords PROVE Touched \subseteq Words
  BY <1>1, <1>2, <1>4, <1>6 DEF Words
<1> QED BY <1>5, <1>6

LEMMA SafeInit == Init => Safe
<1> SUFFICES ASSUME Init PROVE Safe
  OBVIOUS
<1>1. input \in Seq(Bytes)
  BY ProgramsFit DEF Init
<1>2. /\ memory = <<>> /\ R = [r \in 0 .. 7 |-> 0] /\ PC = 0 /\ SP = 65534 /\ Z = FALSE /\ N = FALSE
      /\ phase = "assemble"
  BY DEF Init
<1>3. 0 \in Words /\ 65534 \in Words
  BY DEF Words
<1>4. DOMAIN memory = {}
  BY <1>2
<1>5. R \in [0 .. 7 -> Words] /\ Cells(memory)
  BY <1>2, <1>3, <1>4 DEF Cells
<1>6. Z \in BOOLEAN /\ N \in BOOLEAN
  <2>1. Z = FALSE
    BY <1>2
  <2>2. N = FALSE
    BY <1>2
  <2>3. Z \in BOOLEAN
    BY <2>1, Zenon
  <2>4. N \in BOOLEAN
    BY <2>2, Zenon
  <2> QED BY <2>3, <2>4
<1> QED BY <1>1, <1>2, <1>3, <1>4, <1>5, <1>6 DEF Safe, MachineOK

\* The loader takes over bytes of the binary.
LEMMA Loaded ==
  ASSUME AssemblerOK, Load_, phase' = "run"
  PROVE  /\ Undefined = {}
         /\ memory' = [addr \in DOMAIN binary \cap 0 .. max_addr - 1 |-> binary[addr]]
         /\ Cells(memory') /\ DOMAIN memory' \subseteq Words
<1>1. Undefined = {} /\ memory' = [addr \in DOMAIN binary \cap 0 .. max_addr - 1 |-> binary[addr]]
  BY DEF Load_
<1>2. Cells(binary) /\ DOMAIN binary \subseteq Words
  <2>1. binary \in Memories
    BY <1>1, BinaryRun DEF Patches
  <2> QED BY <2>1, MemoryParts
<1> DEFINE D == DOMAIN binary \cap 0 .. max_addr - 1
<1>3. D \subseteq DOMAIN binary
  OBVIOUS
<1> HIDE DEF D
<1>4. memory' = [addr \in D |-> binary[addr]]
  BY <1>1 DEF D
<1>5. DOMAIN memory' = D /\ Cells(memory')
  BY <1>2, <1>3, <1>4 DEF Cells
<1> QED BY <1>1, <1>2, <1>3, <1>5

LEMMA AsmKept == AssemblerOK /\ UNCHANGED asm => AssemblerOK'
BY DEF AssemblerOK, asm

LEMMA AssemblerStep == AssemblerOK /\ [Next]_vars => AssemblerOK'
<1>1. Assemble => do_line
  BY DEF Assemble
<1>2. Load_ \/ Execute \/ HaltRun \/ Terminated \/ UNCHANGED vars => UNCHANGED asm
  BY DEF Load_, Execute, HaltRun, Terminated, vars
<1> QED BY <1>1, <1>2, AssemblerLine, AsmKept DEF Next

\* What a step does to the memory.
LEMMA SafeStep ==
  ASSUME AssemblerOK, Safe, [Next]_vars
  PROVE  /\ Safe'
         /\ \/ memory' = memory
            \/ phase = "assemble" /\ DOMAIN memory' \subseteq Words
            \/ phase = "run" /\ DOMAIN memory' = DOMAIN memory \cup Touched
<1>1. CASE UNCHANGED cpu /\ phase' \in {"assemble", "failed", "run", "halted", "error"}
  <2>1. UNCHANGED <<memory, R, PC, SP, Z, N, input>>
    BY <1>1 DEF cpu
  <2>2. Safe'
    BY <1>1, <2>1 DEF Safe, MachineOK, Cells
  <2> QED BY <2>1, <2>2
<1>2. CASE Assemble
  <2>1. UNCHANGED cpu /\ phase' = phase
    BY <1>2 DEF Assemble
  <2> QED BY <1>1, <2>1 DEF Safe
<1>3. CASE Load_
  <2>1. CASE Undefined # {}
    <3>1. UNCHANGED cpu /\ phase' = "failed"
      BY <1>3, <2>1 DEF Load_, cpu, flags, terminal
    <3> QED BY <1>1, <3>1
  <2>2. CASE Undefined = {}
    <3>1. phase = "assemble" /\ phase' = "run" /\ UNCHANGED <<R, PC, SP, Z, N, input>>
      BY <1>3, <2>2 DEF Load_, flags, terminal
    <3>2. Cells(memory') /\ DOMAIN memory' \subseteq Words
      BY <1>3, <3>1, Loaded
    <3>3. \A addr \in DOMAIN memory' : addr \in Nat /\ addr <= 65536
      BY <3>2 DEF Words
    <3>4. Safe'
      BY <3>1, <3>2, <3>3 DEF Safe, MachineOK, Cells
    <3> QED BY <3>1, <3>2, <3>4
  <2> QED BY <2>1, <2>2
<1>4. CASE Execute
  <2>1. emulate /\ phase = "run" /\ phase' \in {"run", "error"}
    BY <1>4 DEF Execute
  <2>2. MachineOK' /\ DOMAIN memory' = DOMAIN memory \cup Touched
    BY <2>1, EmulateKeeps DEF Safe
  <2>3. \A addr \in DOMAIN memory' : addr \in Nat /\ addr <= 65536
    BY <2>2, TouchedAddresses DEF Safe
  <2> QED BY <2>1, <2>2, <2>3 DEF Safe
<1>5. CASE HaltRun
  <2>1. UNCHANGED cpu /\ phase' = "halted"
    BY <1>5 DEF HaltRun
  <2> QED BY <1>1, <2>1
<1>6. CASE Terminated \/ UNCHANGED vars
  <2>1. UNCHANGED cpu /\ phase' = phase
    BY <1>6 DEF Terminated, vars
  <2> QED BY <1>1, <2>1 DEF Safe
<1> QED BY <1>2, <1>3, <1>4, <1>5, <1>6 DEF Next

LEMMA SafeAlways == Spec => [](AssemblerOK /\ Safe)
<1>1. Init => AssemblerOK /\ Safe
  BY AssemblerInit, SafeInit
<1>2. AssemblerOK /\ Safe /\ [Next]_vars => (AssemblerOK /\ Safe)'
  BY AssemblerStep, SafeStep
<1> QED BY <1>1, <1>2, PTL DEF Spec

\* Whatever a program does, its own code overwritten included, registers, PC
\* and SP stay words and every cell of the memory a byte.
THEOREM MachineTypes == Spec => []TypeOK
<1>1. Safe => TypeOK
  BY DEF Safe, MachineOK, Cells, TypeOK
<1> QED BY <1>1, SafeAlways, PTL

\* No program gets further than the byte behind the memory: a word stored at the
\* last address, or a byte to it by a constant, lies there.
THEOREM OneByteBehind == Spec => []AtMostOneBehind
<1>1. Safe => AtMostOneBehind
  BY DEF Safe, AtMostOneBehind
<1> QED BY <1>1, SafeAlways, PTL

\* A program whose stores keep off the last address, but for single bytes
\* through a register, touches nothing behind its memory.
THEOREM StoresStayInMemory == Spec /\ [](phase = "run" => StoresWords) => []NothingBehindMemory
<1> DEFINE H == phase = "run" => StoresWords
<1>1. Init => NothingBehindMemory
  <2> SUFFICES ASSUME Init PROVE NothingBehindMemory
    OBVIOUS
  <2>1. memory = <<>>
    BY DEF Init
  <2> QED BY <2>1 DEF NothingBehindMemory
<1>2. AssemblerOK /\ Safe /\ H /\ NothingBehindMemory /\ [Next]_vars => NothingBehindMemory'
  <2> SUFFICES ASSUME AssemblerOK, Safe, H, NothingBehindMemory, [Next]_vars PROVE NothingBehindMemory'
    OBVIOUS
  <2>1. phase = "run" => Touched \subseteq Words
    BY TouchedAddresses DEF Safe
  <2> QED BY <2>1, SafeStep DEF NothingBehindMemory
<1> HIDE DEF H
<1>3. Spec /\ []H => []NothingBehindMemory
  BY <1>1, <1>2, SafeAlways, PTL DEF Spec
<1> QED BY <1>3 DEF H

-----------------------------------------------------------------------------
\* Labels.

\* A label that was read keeps its address.
LEMMA SymbolsLine ==
  ASSUME AssemblerOK, SymbolsOK, do_line
  PROVE  /\ SymbolsOK'
         /\ \A sym \in DOMAIN symtab : sym \in DOMAIN symtab' /\ symtab'[sym] = symtab[sym]
<1> DEFINE l == program[lineno]  A == Addresses(program)  name == l.label
<1>1. /\ lineno \in 1 .. Len(program) /\ lineno \in DOMAIN program /\ lineno' = lineno + 1 /\ program' = program
      /\ current_addr = A[lineno]
      /\ symtab' = IF name = NoName THEN symtab ELSE Known(name, current_addr)
  BY LineRead
<1>2. /\ Len(program) \in Nat /\ DOMAIN program = 1 .. Len(program)
  BY DEF AssemblerOK, Program
<1>3. /\ Clear(program) /\ DOMAIN symtab = {program[i].label : i \in 1 .. lineno - 1} \ {NoName}
      /\ \A i \in 1 .. lineno - 1 : program[i].label # NoName => symtab[program[i].label] = A[i]
  BY DEF SymbolsOK
<1>4. /\ 1 .. lineno' - 1 = 1 .. lineno
      /\ \A i \in 1 .. lineno : i = lineno \/ (i \in 1 .. lineno - 1 /\ i \in DOMAIN program /\ i # lineno)
      /\ \A i \in 1 .. lineno - 1 : i \in 1 .. lineno /\ i \in DOMAIN program /\ i # lineno
      /\ lineno \in 1 .. lineno
  BY <1>1, <1>2
<1>5. name # NoName => \A i \in 1 .. lineno - 1 : program[i].label # name
  BY <1>1, <1>3, <1>4 DEF Clear
<1>6. name # NoName => name \notin DOMAIN symtab
  BY <1>3, <1>5
<1>7. CASE name = NoName
  <2>1. symtab' = symtab
    BY <1>1, <1>7
  <2>2. {program[i].label : i \in 1 .. lineno} \ {NoName} = {program[i].label : i \in 1 .. lineno - 1} \ {NoName}
    BY <1>4, <1>7
  <2>3. \A i \in 1 .. lineno : program[i].label # NoName => symtab[program[i].label] = A[i]
    BY <1>3, <1>4, <1>7
  <2>4. DOMAIN symtab' = {program[i].label : i \in 1 .. lineno} \ {NoName}
    BY <1>3, <2>1, <2>2
  <2>5. \A i \in 1 .. lineno : program[i].label # NoName => symtab'[program[i].label] = A[i]
    BY <2>1, <2>3
  <2>6. /\ program' = program /\ 1 .. lineno' - 1 = 1 .. lineno
    BY <1>1, <1>4
  <2>7. /\ Clear(program')
        /\ DOMAIN symtab' = {program'[i].label : i \in 1 .. lineno' - 1} \ {NoName}
        /\ \A i \in 1 .. lineno' - 1 :
             program'[i].label # NoName => symtab'[program'[i].label] = Addresses(program')[i]
    BY <1>3, <2>4, <2>5, <2>6
  <2>8. SymbolsOK'
    BY <2>7 DEF SymbolsOK
  <2> QED BY <2>1, <2>8
<1>8. CASE name # NoName
  <2>1. symtab' = [sym \in DOMAIN symtab \cup {name} |-> IF sym = name THEN A[lineno] ELSE symtab[sym]]
    BY <1>1, <1>8 DEF Known
  <2> HIDE DEF name
  <2>2. DOMAIN symtab' = DOMAIN symtab \cup {name} /\ symtab'[name] = A[lineno]
    BY <2>1
  <2>3. \A sym \in DOMAIN symtab : symtab'[sym] = symtab[sym]
    BY <1>6, <1>8, <2>1
  <2>4. {program[i].label : i \in 1 .. lineno} \ {NoName} = DOMAIN symtab \cup {name}
    <3>1. \A x : x \in {program[i].label : i \in 1 .. lineno} <=> x \in {program[i].label : i \in 1 .. lineno - 1} \/ x = name
      BY <1>4 DEF name
    <3> QED BY <1>3, <1>8, <3>1
  <2>5. ASSUME NEW i \in 1 .. lineno, program[i].label # NoName
        PROVE  symtab'[program[i].label] = A[i]
    <3>1. CASE i = lineno
      BY <2>2, <3>1 DEF name
    <3>2. CASE i # lineno
      <4>1. i \in 1 .. lineno - 1
        BY <1>4, <3>2
      <4>2. program[i].label \in DOMAIN symtab /\ symtab[program[i].label] = A[i]
        BY <1>3, <2>5, <4>1
      <4> QED BY <2>3, <4>2
    <3> QED BY <3>1, <3>2
  <2>6. DOMAIN symtab' = {program[i].label : i \in 1 .. lineno} \ {NoName}
    BY <2>2, <2>4
  <2>7. /\ program' = program /\ 1 .. lineno' - 1 = 1 .. lineno
    BY <1>1, <1>4
  <2>8. /\ Clear(program')
        /\ DOMAIN symtab' = {program'[i].label : i \in 1 .. lineno' - 1} \ {NoName}
        /\ \A i \in 1 .. lineno' - 1 :
             program'[i].label # NoName => symtab'[program'[i].label] = Addresses(program')[i]
    BY <1>3, <2>5, <2>6, <2>7
  <2>9. SymbolsOK'
    BY <2>8 DEF SymbolsOK
  <2> QED BY <2>2, <2>3, <2>9
<1> QED BY <1>7, <1>8

\* Operands do not share addresses with other lines.
LEMMA Apart ==
  ASSUME AssemblerOK, Clear(program), NEW i \in DOMAIN program, NEW j \in DOMAIN program, i # j,
         program[i].sym # NoName
  PROVE  /\ Addresses(program)[i] + 2 \notin Place(program, j)
         /\ (Addresses(program)[i] + 2) + 1 \notin Place(program, j)
<1>1. Place(program, i) \cap Place(program, j) = {}
  BY DEF Clear
<1> DEFINE a == Addresses(program)[i]
<1>2. a \in Nat /\ {a + 2, a + 3} \subseteq Place(program, i)
  BY OpenOperand
<1> HIDE DEF a
<1>3. (a + 2) + 1 = a + 3
  BY <1>2
<1>4. a + 2 \notin Place(program, j) /\ (a + 2) + 1 \notin Place(program, j)
  BY <1>1, <1>2, <1>3
<1> QED BY <1>4 DEF a

LEMMA OperandsLine ==
  ASSUME AssemblerOK, SymbolsOK, OperandsOK, do_line PROVE OperandsOK'
<1> DEFINE l == program[lineno]  A == Addresses(program)  bytes == stored_bytes(l, symtab')
           left == <<l.sym, A[lineno] + 2>>
<1>1. /\ lineno \in 1 .. Len(program) /\ lineno \in DOMAIN program /\ lineno' = lineno + 1 /\ program' = program
      /\ Accepted(l)
      /\ current_addr = A[lineno]
      /\ Values(symtab')
      /\ bytes \in Seq(Bytes) /\ Len(bytes) = Size(l)
      /\ image' = Placed(bytes, current_addr, image)
      /\ fixups' = IF l.sym # NoName /\ l.sym \notin DOMAIN symtab' THEN Append(fixups, left) ELSE fixups
  BY LineRead
<1>2. /\ Len(program) \in Nat /\ DOMAIN program = 1 .. Len(program) /\ Cells(image) /\ current_addr \in Nat
      /\ Len(fixups) \in Nat /\ DOMAIN fixups = 1 .. Len(fixups)
  BY MemoryParts DEF AssemblerOK, Program
<1>3. current_addr .. current_addr + Len(bytes) - 1 = Place(program, lineno)
  BY <1>1 DEF Place
<1>4. \A a : ByteIn(image', a) =
        IF a \in Place(program, lineno) THEN bytes[a - current_addr + 1] ELSE ByteIn(image, a)
  BY <1>1, <1>2, <1>3, PlacedBytes
<1>5. \A k \in DOMAIN fixups : k \in DOMAIN fixups' /\ fixups'[k] = fixups[k]
  <2>1. CASE fixups' = fixups
    BY <2>1
  <2>2. CASE fixups' = Append(fixups, left)
    <3> HIDE DEF left
    <3> QED BY <1>2, <2>2, AppendParts
  <2> QED BY <1>1, <2>1, <2>2
<1> HIDE DEF bytes
<1>6. ASSUME NEW i \in 1 .. lineno, program[i].sym # NoName
      PROVE  \/ program[i].sym \in DOMAIN symtab' /\ WordIn(image', A[i] + 2) = symtab'[program[i].sym]
             \/ \E k \in DOMAIN fixups' : fixups'[k] = <<program[i].sym, A[i] + 2>>
  <2> DEFINE sym == program[i].sym  a == A[i] + 2
  <2> HIDE DEF l
  <2>1. CASE i = lineno
    <3>1. l.sym = sym /\ sym # NoName
      BY <1>6, <2>1 DEF l
    <3>2. CASE sym \in DOMAIN symtab'
      <4>1. value(l, symtab') = symtab'[sym]
        BY <3>1, <3>2 DEF value
      <4>2. bytes[3] + 256 * bytes[4] = value(l, symtab')
        <5>1. Long(l)
          BY <1>1, <3>1 DEF Accepted
        <5> QED BY <1>1, <5>1, StoredBytes DEF bytes
      <4>3. A[lineno] \in Nat /\ {A[lineno] + 2, A[lineno] + 3} \subseteq Place(program, lineno)
        BY <1>1, <3>1, OpenOperand DEF l
      <4>4. ByteIn(image', a) = bytes[3] /\ ByteIn(image', a + 1) = bytes[4]
        <5> DEFINE c == A[lineno]
        <5>1. a = c + 2 /\ c = current_addr
          BY <1>1, <2>1
        <5>2. c \in Nat /\ {c + 2, c + 3} \subseteq Place(program, lineno)
          BY <4>3
        <5> HIDE DEF c, a
        <5>3. (c + 2) + 1 = c + 3 /\ (c + 2) - c + 1 = 3 /\ (c + 3) - c + 1 = 4
          BY <5>2
        <5> QED BY <1>4, <5>1, <5>2, <5>3
      <4>5. WordIn(image', a) = symtab'[sym]
        BY <4>1, <4>2, <4>4 DEF WordIn
      <4> QED BY <3>2, <4>5
    <3>3. CASE sym \notin DOMAIN symtab'
      <4>1. fixups' = Append(fixups, left) /\ left = <<sym, a>>
        BY <1>1, <2>1, <3>1, <3>3 DEF l
      <4> HIDE DEF left, a, sym
      <4>2. Len(fixups) + 1 \in DOMAIN fixups' /\ fixups'[Len(fixups) + 1] = left
        BY <1>2, <4>1, AppendParts
      <4>3. \E k \in DOMAIN fixups' : fixups'[k] = <<sym, a>>
        BY <4>1, <4>2
      <4> QED BY <4>3 DEF sym, a
    <3> QED BY <3>2, <3>3
  <2>2. CASE i # lineno
    <3>1. i \in 1 .. lineno - 1 /\ i \in DOMAIN program
      BY <1>1, <1>2, <2>2
    <3>2. CASE sym \in DOMAIN symtab /\ WordIn(image, a) = symtab[sym]
      <4>1. a \notin Place(program, lineno) /\ a + 1 \notin Place(program, lineno)
        BY <1>1, <1>6, <2>2, <3>1, Apart DEF SymbolsOK
      <4> HIDE DEF a, sym
      <4>2. WordIn(image', a) = WordIn(image, a)
        BY <1>4, <4>1 DEF WordIn
      <4>3. sym \in DOMAIN symtab' /\ symtab'[sym] = symtab[sym]
        BY <3>2, SymbolsLine
      <4>4. sym \in DOMAIN symtab' /\ WordIn(image', a) = symtab'[sym]
        BY <3>2, <4>2, <4>3
      <4> QED BY <4>4 DEF sym, a
    <3>3. CASE \E k \in DOMAIN fixups : fixups[k] = <<sym, a>>
      <4> HIDE DEF a, sym
      <4>1. \E k \in DOMAIN fixups' : fixups'[k] = <<sym, a>>
        BY <1>5, <3>3
      <4> QED BY <4>1 DEF a, sym
    <3> QED BY <1>6, <3>1, <3>2, <3>3 DEF OperandsOK
  <2> QED BY <2>1, <2>2
<1>7. 1 .. lineno' - 1 = 1 .. lineno
  BY <1>1
<1> HIDE DEF l, left
<1> QED BY <1>1, <1>6, <1>7 DEF OperandsOK

\* The fixups leave no operand open, and none wrong.
LEMMA BinaryOperands ==
  ASSUME AssemblerOK, SymbolsOK, OperandsOK, lineno > Len(program), Undefined = {},
         NEW i \in DOMAIN program, program[i].sym # NoName
  PROVE  /\ program[i].sym \in DOMAIN symtab
         /\ WordIn(binary, Addresses(program)[i] + 2) = symtab[program[i].sym]
<1> DEFINE sym == program[i].sym  a == Addresses(program)[i] + 2  K == Len(fixups)
           Solved(m) == sym \in DOMAIN symtab /\ WordIn(m, a) = symtab[sym]
           Left(n) == \E k \in DOMAIN fixups : k > n /\ fixups[k] = <<sym, a>>
<1>1. /\ lineno = Len(program) + 1 /\ Len(program) \in Nat /\ i \in 1 .. lineno - 1
      /\ K \in Nat /\ DOMAIN fixups = 1 .. K
  BY DEF AssemblerOK, Program
<1>2. PICK g : Patches(g)
  BY BinaryRun
<1>3. /\ g[0] = image /\ binary = g[K]
      /\ \A n \in 1 .. K :
           /\ fixups[n][1] \in DOMAIN symtab /\ g[n - 1] \in Memories
           /\ g[n] = Placed(two_bytes(symtab[fixups[n][1]]), fixups[n][2], g[n - 1])
  BY <1>2 DEF Patches
<1> DEFINE T == {n \in 0 .. K : Solved(g[n]) \/ Left(n)}
<1>4. 0 \in T
  <2>1. Solved(image) \/ \E k \in DOMAIN fixups : fixups[k] = <<sym, a>>
    BY <1>1 DEF OperandsOK
  <2>2. \A k \in DOMAIN fixups : k > 0
    BY <1>1
  <2> HIDE DEF a, sym
  <2> QED BY <1>1, <1>3, <2>1, <2>2
<1>5. ASSUME NEW n \in 1 .. K, n - 1 \in T PROVE n \in T
  <2> DEFINE m == g[n - 1]  v == symtab[fixups[n][1]]
  <2>1. fixups[n][1] \in DOMAIN symtab /\ Cells(m) /\ g[n] = Placed(two_bytes(v), fixups[n][2], m)
    BY <1>3, MemoryParts
  <2>2. v \in Words
    BY <2>1 DEF AssemblerOK, Values
  <2>3. PICK j \in 1 .. lineno - 1 : program[j].sym # NoName /\ fixups[n] = <<program[j].sym, Addresses(program)[j] + 2>>
    BY <1>1 DEF AssemblerOK
  <2>4. j \in DOMAIN program
    BY DEF AssemblerOK, Program
  <2> DEFINE b == Addresses(program)[j] + 2
  <2>5. b \in Nat /\ b \in Place(program, j) /\ b + 1 \in Place(program, j)
    <3> DEFINE c == Addresses(program)[j]
    <3>1. c \in Nat /\ {c + 2, c + 3} \subseteq Place(program, j)
      BY <2>3, <2>4, OpenOperand
    <3> HIDE DEF c
    <3>2. c + 2 \in Nat /\ (c + 2) + 1 = c + 3
      BY <3>1
    <3>3. c + 2 \in Place(program, j) /\ (c + 2) + 1 \in Place(program, j) /\ c + 2 \in Nat
      BY <3>1, <3>2
    <3> QED BY <3>3 DEF c
  <2>6. fixups[n][2] = b /\ fixups[n][1] = program[j].sym
    BY <2>3
  <2>7. /\ WordIn(g[n], b) = v
        /\ \A x : x \notin {b, b + 1} => ByteIn(g[n], x) = ByteIn(m, x)
    <3> HIDE DEF b, v, m
    <3>1. g[n] = Placed(two_bytes(v), b, m) /\ Cells(m) /\ b \in Nat
      BY <2>1, <2>5, <2>6
    <3>2. WordIn(Placed(two_bytes(v), b, m), b) = v
      BY <2>2, <3>1, PlacedWord
    <3>3. \A x : x \notin {b, b + 1} => ByteIn(Placed(two_bytes(v), b, m), x) = ByteIn(m, x)
      BY <2>2, <3>1, PlacedWord
    <3> QED BY <3>1, <3>2, <3>3
  <2>8. CASE j = i
    <3>1. b = a /\ v = symtab[sym] /\ sym \in DOMAIN symtab
      BY <2>1, <2>6, <2>8
    <3>2. Solved(g[n])
      BY <2>7, <3>1
    <3> QED BY <3>2
  <2>9. CASE j # i
    <3>1. a \notin Place(program, j) /\ a + 1 \notin Place(program, j)
      BY <2>4, <2>9, Apart DEF SymbolsOK
    <3>2. a # b /\ a # b + 1 /\ a + 1 # b /\ a + 1 # b + 1
      <4> HIDE DEF a, b
      <4> QED BY <2>5, <3>1
    <3>3. WordIn(g[n], a) = WordIn(m, a)
      <4> HIDE DEF a, b, m
      <4> QED BY <2>7, <3>2 DEF WordIn
    <3>4. CASE Solved(m)
      <4>1. Solved(g[n])
        BY <3>3, <3>4
      <4> QED BY <4>1
    <3>5. CASE Left(n - 1)
      <4>1. PICK k \in DOMAIN fixups : k > n - 1 /\ fixups[k] = <<sym, a>>
        BY <3>5
      <4>2. fixups[k][2] = a
        BY <4>1
      <4>3. k # n
        BY <2>6, <3>2, <4>2
      <4>4. k > n
        BY <1>1, <4>1, <4>3
      <4> HIDE DEF sym, a
      <4>5. Left(n)
        BY <4>1, <4>4
      <4> QED BY <4>5
    <3> QED BY <1>5, <3>4, <3>5
  <2> QED BY <2>8, <2>9
<1>6. K \in T
  <2> HIDE DEF T
  <2>1. 0 .. K \subseteq T
    BY <1>1, <1>4, <1>5, RangeInduction
  <2> QED BY <1>1, <2>1
<1>7. ~Left(K)
  BY <1>1
<1> QED BY <1>3, <1>6, <1>7

\* Where every line is read, the table of symbols has the addresses that the
\* labels stand for.
LEMMA SymbolMeaning ==
  ASSUME AssemblerOK, SymbolsOK, lineno > Len(program), NEW sym \in DOMAIN symtab
  PROVE  symtab[sym] = Meaning(program, sym)
<1>1. lineno = Len(program) + 1 /\ Len(program) \in Nat /\ DOMAIN program = 1 .. lineno - 1
  BY DEF AssemblerOK, Program
<1>2. PICK i \in 1 .. lineno - 1 : program[i].label = sym
  BY DEF SymbolsOK
<1>3. sym # NoName
  BY DEF SymbolsOK
<1>4. \A j \in DOMAIN program : program[j].label = sym => j = i
  BY <1>1, <1>2, <1>3 DEF SymbolsOK, Clear
<1>5. Defines(program, sym) = {i}
  BY <1>1, <1>2, <1>4 DEF Defines
<1>6. Meaning(program, sym) = Addresses(program)[i]
  BY <1>5 DEF Meaning
<1> QED BY <1>2, <1>3, <1>6 DEF SymbolsOK

LEMMA LoadedOperands ==
  ASSUME AssemblerOK, SymbolsOK, OperandsOK, Load_, phase' = "run",
         NEW i \in DOMAIN program, program[i].sym # NoName
  PROVE  WordIn(memory', Addresses(program)[i] + 2) = Meaning(program, program[i].sym)
<1> DEFINE c == Addresses(program)[i]  sym == program[i].sym
<1>1. /\ Undefined = {} /\ memory' = [addr \in DOMAIN binary \cap 0 .. max_addr - 1 |-> binary[addr]]
      /\ lineno > Len(program)
  BY Loaded DEF Load_
<1>2. sym \in DOMAIN symtab /\ WordIn(binary, c + 2) = symtab[sym]
  BY <1>1, BinaryOperands
<1>3. symtab[sym] = Meaning(program, sym)
  BY <1>1, <1>2, SymbolMeaning
<1>4. c \in Nat /\ Size(program[i]) = 4
  BY OpenOperand
<1>5. c + 4 <= max_addr /\ max_addr \in Nat
  <2>1. i \in 1 .. lineno - 1
    BY <1>1 DEF AssemblerOK, Program
  <2> QED BY <1>4, <2>1 DEF AssemblerOK
<1> HIDE DEF c
<1>6. c + 2 \in 0 .. max_addr - 1 /\ (c + 2) + 1 \in 0 .. max_addr - 1
  BY <1>4, <1>5
<1> DEFINE D == 0 .. max_addr - 1
<1>7. \A x \in D : ByteIn(memory', x) = ByteIn(binary, x)
  <2> HIDE DEF D
  <2>1. memory' = [addr \in DOMAIN binary \cap D |-> binary[addr]]
    BY <1>1 DEF D
  <2> QED BY <2>1 DEF ByteIn
<1> HIDE DEF D
<1>8. WordIn(memory', c + 2) = WordIn(binary, c + 2)
  BY <1>6, <1>7 DEF WordIn, D
<1> QED BY <1>2, <1>3, <1>8 DEF c

\* The disassembler prints an operation for every instruction that is carried out.
LEMMA EmulatedOpcode == emulate => opcode \in 1 .. 14
BY DEF emulate, SET, LOAD, STORE, MOVE, ALU, JMP, CALL, RET, PUSH, POP, IN_, OUT

LEMMA DisasmNames ==
  ASSUME NEW w, NEW next, w \div 4096 \in 1 .. 14 PROVE disasm(w, next) # Blank
<1> DEFINE code == w \div 4096  d == disasm(w, next)
<1>1. DOMAIN Blank = {"op", "sub", "byte", "rel", "a", "b", "c", "num"} /\ Blank.op = NoName
  BY DEF Blank
<1>2. misc_name[1] = "RET" /\ misc_name[2] = "PUSH" /\ misc_name[3] = "POP" /\ misc_name[4] = "IN" /\ misc_name[5] = "OUT"
  BY DEF misc_name
<1>3. code = 1 => d.op = "SET"
  BY <1>1 DEF disasm
<1>4. code = 2 => d.op = "LOAD"
  BY <1>1 DEF disasm
<1>5. code = 3 => d.op = "STORE"
  BY <1>1 DEF disasm
<1>6. code = 4 => d.op = "MOVE"
  BY <1>1 DEF disasm
<1>7. code = 5 => d.op = "ALU"
  BY <1>1 DEF disasm
<1>8. code \in {6, 7} => d.op = "JMP"
  BY <1>1 DEF disasm
<1>9. code \in {8, 9} => d.op = "CALL"
  BY <1>1 DEF disasm
<1>10. code \in 10 .. 14 => d.op = misc_name[code - 9]
  BY <1>1 DEF disasm
<1> HIDE DEF d, code
<1>11. code \in 10 .. 14 => d.op \in {"RET", "PUSH", "POP", "IN", "OUT"}
  BY <1>2, <1>10
<1>12. d.op \in Mnemonics
  BY <1>3, <1>4, <1>5, <1>6, <1>7, <1>8, <1>9, <1>11 DEF Mnemonics, code
<1>13. d.op # NoName
  BY <1>12, Named DEF Mnemonics
<1> QED BY <1>1, <1>13 DEF d

LEMMA SymbolsStep ==
  AssemblerOK /\ SymbolsOK /\ OperandsOK /\ [Next]_vars => SymbolsOK' /\ OperandsOK'
<1>1. Assemble => do_line
  BY DEF Assemble
<1>2. Load_ \/ Execute \/ HaltRun \/ Terminated \/ UNCHANGED vars => UNCHANGED asm
  BY DEF Load_, Execute, HaltRun, Terminated, vars
<1>3. SymbolsOK /\ OperandsOK /\ UNCHANGED asm => SymbolsOK' /\ OperandsOK'
  BY DEF SymbolsOK, OperandsOK, asm
<1> QED BY <1>1, <1>2, <1>3, SymbolsLine, OperandsLine DEF Next

LEMMA SymbolsInit == Init => SymbolsOK /\ OperandsOK
<1> SUFFICES ASSUME Init PROVE SymbolsOK /\ OperandsOK
  OBVIOUS
<1>1. Clear(program)
  <2>1. PICK s \in Sessions : program = s.program
    BY DEF Init
  <2> QED BY <2>1, ProgramsClear DEF Clear
<1>2. lineno = 1 /\ symtab = <<>>
  BY DEF Init, AsmInit
<1>3. DOMAIN symtab = {} /\ 1 .. lineno - 1 = {}
  BY <1>2
<1> QED BY <1>1, <1>3 DEF SymbolsOK, OperandsOK

LEMMA LabelsStep ==
  ASSUME AssemblerOK, SymbolsOK, OperandsOK, LabelsResolved, [Next]_vars PROVE LabelsResolved'
<1>1. CASE Assemble
  <2>1. phase' = "assemble"
    BY <1>1 DEF Assemble
  <2> QED BY <2>1 DEF LabelsResolved
<1>2. CASE Load_ /\ Undefined # {}
  <2>1. phase' = "failed" /\ program' = program /\ lineno > Len(program)
    BY <1>2 DEF Load_, asm
  <2>2. PICK k \in DOMAIN fixups : fixups[k][1] \notin DOMAIN symtab
    BY <1>2 DEF Undefined
  <2>3. PICK i \in 1 .. lineno - 1 : program[i].sym # NoName /\ fixups[k] = <<program[i].sym, Addresses(program)[i] + 2>>
    BY DEF AssemblerOK
  <2>4. lineno = Len(program) + 1 /\ Len(program) \in Nat /\ DOMAIN program = 1 .. lineno - 1
    BY <2>1, SMTT(30) DEF AssemblerOK, Program
  <2> DEFINE sym == program[i].sym
  <2>5. sym \notin DOMAIN symtab /\ sym # NoName
    BY <2>2, <2>3
  <2> HIDE DEF sym
  <2>6. Defines(program, sym) = {}
    BY <2>4, <2>5 DEF Defines, SymbolsOK
  <2>7. i \in DOMAIN program
    BY <2>4
  <2> QED BY <2>1, <2>3, <2>6, <2>7 DEF LabelsResolved, sym
<1>3. CASE Load_ /\ Undefined = {}
  <2>1. phase' = "run" /\ program' = program
    BY <1>3 DEF Load_, asm
  <2>2. \A i \in DOMAIN program : program[i].sym # NoName =>
          WordIn(memory', Addresses(program)[i] + 2) = Meaning(program, program[i].sym)
    BY <1>3, <2>1, LoadedOperands
  <2> QED BY <2>1, <2>2 DEF LabelsResolved, load2
<1>4. CASE Execute
  <2>1. opcode \in 1 .. 14 /\ shown' = disasm(insn, operand) /\ phase' \in {"error", "run"}
    BY <1>4, EmulatedOpcode DEF Execute
  <2>2. shown' # Blank
    BY <2>1, DisasmNames DEF opcode
  <2> QED BY <2>1, <2>2 DEF LabelsResolved
<1>5. CASE HaltRun
  <2>1. phase' = "halted"
    BY <1>5 DEF HaltRun
  <2> QED BY <2>1 DEF LabelsResolved
<1>6. CASE Terminated \/ UNCHANGED vars
  <2>1. UNCHANGED <<program, memory, phase, shown>>
    BY <1>6 DEF Terminated, vars, asm, cpu
  <2> QED BY <2>1 DEF LabelsResolved, load2
<1> QED BY <1>1, <1>2, <1>3, <1>4, <1>5, <1>6 DEF Next

\* Whatever the order of definitions and uses, the operands that are labels hold
\* the labels' addresses when the program starts; the assembler fails only if a
\* label is not defined.
THEOREM LabelsHold == Spec => []LabelsResolved
<1>1. Init => SymbolsOK /\ OperandsOK /\ LabelsResolved
  <2>1. Init => phase = "assemble"
    BY DEF Init
  <2> QED BY <2>1, SymbolsInit DEF LabelsResolved
<1>2. AssemblerOK /\ SymbolsOK /\ OperandsOK /\ LabelsResolved /\ [Next]_vars
        => (SymbolsOK /\ OperandsOK /\ LabelsResolved)'
  BY SymbolsStep, LabelsStep
<1> QED BY <1>1, <1>2, SafeAlways, PTL DEF Spec

-----------------------------------------------------------------------------
\* The trace.

LEMMA JoinedFront ==
  ASSUME NEW C, NEW s \in Seq(C), NEW t \in Seq(C)
  PROVE  \A i \in 1 .. Len(s) : (s \o t)[i] = s[i]
OBVIOUS

LEMMA StoredWord ==
  ASSUME NEW l, Accepted(l), IsInstruction(l), NEW symbols, Values(symbols)
  PROVE  stored_bytes(l, symbols)[1] + 256 * stored_bytes(l, symbols)[2] = insn_word(l)
<1> DEFINE w == two_bytes(insn_word(l))  v == two_bytes(value(l, symbols))
           rest == IF Long(l) THEN v ELSE <<>>
<1>1. w \in Seq(Bytes) /\ Len(w) = 2 /\ w[1] + 256 * w[2] = insn_word(l)
  BY InsnWordType, TwoBytes
<1>2. v \in Seq(Bytes)
  BY ValueType, TwoBytes
<1>3. stored_bytes(l, symbols) = w \o rest
  BY DEF stored_bytes
<1> HIDE DEF w, v
<1>4. rest \in Seq(Bytes)
  BY <1>2
<1> HIDE DEF rest
<1>5. w \in Seq(Bytes)
  BY <1>1
<1>6. \A i \in 1 .. Len(w) : (w \o rest)[i] = w[i]
  BY <1>4, <1>5, JoinedFront
<1>8. 1 \in 1 .. Len(w) /\ 2 \in 1 .. Len(w)
  BY <1>1
<1> DEFINE joined == w \o rest
<1> HIDE DEF joined
<1>9. \A i \in 1 .. Len(w) : joined[i] = w[i]
  BY <1>6 DEF joined
<1>10. joined[1] = w[1] /\ joined[2] = w[2]
  BY <1>8, <1>9
<1>7. (w \o rest)[1] = w[1] /\ (w \o rest)[2] = w[2]
  BY <1>10 DEF joined
<1> QED BY <1>1, <1>3, <1>7

\* Each instruction read is there as its word and, behind it, a number.
WordsOK ==
  \A i \in 1 .. lineno - 1 : IsInstruction(program[i]) =>
    /\ WordIn(image, Addresses(program)[i]) = insn_word(program[i])
    /\ Long(program[i]) /\ program[i].sym = NoName =>
         WordIn(image, Addresses(program)[i] + 2) = program[i].num

LEMMA InstructionPlace ==
  ASSUME AssemblerOK, NEW i \in DOMAIN program, IsInstruction(program[i])
  PROVE  /\ Accepted(program[i]) /\ Addresses(program)[i] \in Nat
         /\ {Addresses(program)[i], Addresses(program)[i] + 1} \subseteq Place(program, i)
         /\ Long(program[i]) => {Addresses(program)[i] + 2, Addresses(program)[i] + 3} \subseteq Place(program, i)
         /\ Place(program, i) \subseteq Words
<1> DEFINE l == program[i]  addr == Addresses(program)[i]
<1>1. Accepted(l) /\ addr \in Words /\ Place(program, i) \subseteq Words
  BY DEF AssemblerOK, Program
<1>2. Size(l) = IF Long(l) THEN 4 ELSE 2
  BY DEF Size
<1>3. Place(program, i) = addr .. addr + Size(l) - 1
  BY DEF Place
<1> HIDE DEF addr, l
<1>4. addr \in Nat
  BY <1>1 DEF Words
<1>5. {addr, addr + 1} \subseteq Place(program, i)
  BY <1>2, <1>3, <1>4
<1>6. Long(l) => {addr + 2, addr + 3} \subseteq Place(program, i)
  BY <1>2, <1>3, <1>4
<1> QED BY <1>1, <1>4, <1>5, <1>6 DEF addr, l

\* The words of a line are the same in two memories that differ at another's place.
LEMMA WordsApart ==
  ASSUME AssemblerOK, Clear(program), NEW i \in DOMAIN program, IsInstruction(program[i]),
         NEW j \in DOMAIN program, i # j, NEW m, NEW n,
         \A a : a \notin Place(program, j) => ByteIn(n, a) = ByteIn(m, a)
  PROVE  /\ WordIn(n, Addresses(program)[i]) = WordIn(m, Addresses(program)[i])
         /\ Long(program[i]) => WordIn(n, Addresses(program)[i] + 2) = WordIn(m, Addresses(program)[i] + 2)
<1> DEFINE addr == Addresses(program)[i]  P == Place(program, j)
<1>1. /\ addr \in Nat /\ {addr, addr + 1} \subseteq Place(program, i)
      /\ Long(program[i]) => {addr + 2, addr + 3} \subseteq Place(program, i)
  BY InstructionPlace
<1>2. Place(program, i) \cap P = {}
  BY DEF Clear
<1> HIDE DEF addr, P
<1>3. (addr + 2) + 1 = addr + 3
  BY <1>1
<1>4. \A a : a \notin P => ByteIn(n, a) = ByteIn(m, a)
  BY DEF P
<1>5. WordIn(n, addr) = WordIn(m, addr)
  BY <1>1, <1>2, <1>4 DEF WordIn
<1>6. Long(program[i]) => WordIn(n, addr + 2) = WordIn(m, addr + 2)
  BY <1>1, <1>2, <1>3, <1>4 DEF WordIn
<1> QED BY <1>5, <1>6 DEF addr

LEMMA WordsLine ==
  ASSUME AssemblerOK, SymbolsOK, WordsOK, do_line PROVE WordsOK'
<1> DEFINE l == program[lineno]  A == Addresses(program)  bytes == stored_bytes(l, symtab')
<1>1. /\ lineno \in 1 .. Len(program) /\ lineno \in DOMAIN program /\ lineno' = lineno + 1 /\ program' = program
      /\ Accepted(l)
      /\ current_addr = A[lineno]
      /\ Values(symtab')
      /\ bytes \in Seq(Bytes) /\ Len(bytes) = Size(l)
      /\ image' = Placed(bytes, current_addr, image)
  BY LineRead
<1>2. /\ Len(program) \in Nat /\ DOMAIN program = 1 .. Len(program) /\ Cells(image) /\ current_addr \in Nat
  BY MemoryParts DEF AssemblerOK, Program
<1>3. current_addr .. current_addr + Len(bytes) - 1 = Place(program, lineno)
  BY <1>1 DEF Place
<1>4. \A a : ByteIn(image', a) =
        IF a \in Place(program, lineno) THEN bytes[a - current_addr + 1] ELSE ByteIn(image, a)
  BY <1>1, <1>2, <1>3, PlacedBytes
<1>5. IsInstruction(l) => bytes[1] + 256 * bytes[2] = insn_word(l)
  BY <1>1, StoredWord
<1>6. Long(l) /\ l.sym = NoName => bytes[3] + 256 * bytes[4] = l.num
  <2>1. Long(l) => bytes[3] + 256 * bytes[4] = value(l, symtab')
    BY <1>1, StoredBytes
  <2>2. l.sym = NoName => value(l, symtab') = l.num
    <3>1. NoName \notin DOMAIN symtab'
      BY SymbolsLine DEF SymbolsOK
    <3> HIDE DEF l
    <3> QED BY <3>1 DEF value
  <2> HIDE DEF bytes, l
  <2> QED BY <2>1, <2>2
<1> HIDE DEF bytes
<1>7. ASSUME NEW i \in 1 .. lineno, IsInstruction(program[i])
      PROVE  /\ WordIn(image', A[i]) = insn_word(program[i])
             /\ Long(program[i]) /\ program[i].sym = NoName => WordIn(image', A[i] + 2) = program[i].num
  <2>1. CASE i = lineno
    <3> DEFINE c == current_addr
    <3>1. /\ c \in Nat /\ {c, c + 1} \subseteq Place(program, lineno)
          /\ Long(l) => {c + 2, c + 3} \subseteq Place(program, lineno)
      BY <1>1, <1>2, <1>7, <2>1, InstructionPlace
    <3> HIDE DEF c
    <3>2. c - c + 1 = 1 /\ (c + 1) - c + 1 = 2 /\ (c + 2) - c + 1 = 3 /\ (c + 3) - c + 1 = 4 /\ (c + 2) + 1 = c + 3
      BY <3>1
    <3>3. ByteIn(image', c) = bytes[1] /\ ByteIn(image', c + 1) = bytes[2]
      BY <1>4, <3>1, <3>2 DEF c
    <3>4. Long(l) => ByteIn(image', c + 2) = bytes[3] /\ ByteIn(image', (c + 2) + 1) = bytes[4]
      BY <1>4, <3>1, <3>2 DEF c
    <3>5. WordIn(image', c) = insn_word(l)
      BY <1>5, <1>7, <2>1, <3>3 DEF WordIn
    <3>6. Long(l) /\ l.sym = NoName => WordIn(image', c + 2) = l.num
      BY <1>6, <3>4 DEF WordIn
    <3> QED BY <1>1, <2>1, <3>5, <3>6 DEF c
  <2>2. CASE i # lineno
    <3>1. i \in 1 .. lineno - 1 /\ i \in DOMAIN program
      BY <1>1, <1>2, <2>2
    <3>2. /\ WordIn(image', A[i]) = WordIn(image, A[i])
          /\ Long(program[i]) => WordIn(image', A[i] + 2) = WordIn(image, A[i] + 2)
      <4>1. Clear(program) /\ IsInstruction(program[i])
        BY <1>7 DEF SymbolsOK
      <4>2. \A a : a \notin Place(program, lineno) => ByteIn(image', a) = ByteIn(image, a)
        BY <1>4
      <4>3. i \in DOMAIN program /\ lineno \in DOMAIN program /\ i # lineno
        BY <1>1, <2>2, <3>1
      <4> DEFINE m == image  n == image'
      <4>4. \A a : a \notin Place(program, lineno) => ByteIn(n, a) = ByteIn(m, a)
        BY <4>2
      <4> HIDE DEF m, n
      <4>5. /\ WordIn(n, A[i]) = WordIn(m, A[i])
            /\ Long(program[i]) => WordIn(n, A[i] + 2) = WordIn(m, A[i] + 2)
        BY <4>1, <4>3, <4>4, WordsApart
      <4> QED BY <4>5 DEF m, n
    <3> QED BY <1>7, <3>1, <3>2 DEF WordsOK
  <2> QED BY <2>1, <2>2
<1>8. 1 .. lineno' - 1 = 1 .. lineno
  BY <1>1
<1> HIDE DEF l
<1> QED BY <1>1, <1>7, <1>8 DEF WordsOK

\* The words the instructions have in the program that is run.
CodeOK ==
  \A i \in DOMAIN program : IsInstruction(program[i]) =>
    /\ WordIn(memory, Addresses(program)[i]) = insn_word(program[i])
    /\ Long(program[i]) => WordIn(memory, Addresses(program)[i] + 2) = Operand(program, program[i])

LEMMA BinaryWords ==
  ASSUME AssemblerOK, SymbolsOK, WordsOK, lineno > Len(program), Undefined = {},
         NEW i \in DOMAIN program, IsInstruction(program[i])
  PROVE  /\ WordIn(binary, Addresses(program)[i]) = insn_word(program[i])
         /\ Long(program[i]) /\ program[i].sym = NoName =>
              WordIn(binary, Addresses(program)[i] + 2) = program[i].num
<1> DEFINE a == Addresses(program)[i]  K == Len(fixups)  alone == Long(program[i]) /\ program[i].sym = NoName
           Same(m) == /\ WordIn(m, a) = insn_word(program[i])
                      /\ alone => WordIn(m, a + 2) = program[i].num
<1>1. /\ lineno = Len(program) + 1 /\ Len(program) \in Nat /\ i \in 1 .. lineno - 1
      /\ K \in Nat /\ DOMAIN fixups = 1 .. K /\ Clear(program)
  BY DEF AssemblerOK, Program, SymbolsOK
<1>2. PICK g : Patches(g)
  BY BinaryRun
<1>3. /\ g[0] = image /\ binary = g[K]
      /\ \A n \in 1 .. K :
           /\ fixups[n][1] \in DOMAIN symtab /\ g[n - 1] \in Memories
           /\ g[n] = Placed(two_bytes(symtab[fixups[n][1]]), fixups[n][2], g[n - 1])
  BY <1>2 DEF Patches
<1> DEFINE T == {n \in 0 .. K : Same(g[n])}
<1>4. 0 \in T
  <2>1. Same(image)
    BY <1>1 DEF WordsOK
  <2> HIDE DEF Same
  <2> QED BY <1>1, <1>3, <2>1
<1>5. ASSUME NEW n \in 1 .. K, n - 1 \in T PROVE n \in T
  <2> DEFINE m == g[n - 1]  v == symtab[fixups[n][1]]  new == g[n]
  <2>1. fixups[n][1] \in DOMAIN symtab /\ Cells(m) /\ new = Placed(two_bytes(v), fixups[n][2], m)
    BY <1>3, MemoryParts
  <2>2. v \in Words
    BY <2>1 DEF AssemblerOK, Values
  <2>3. PICK j \in 1 .. lineno - 1 : program[j].sym # NoName /\ fixups[n] = <<program[j].sym, Addresses(program)[j] + 2>>
    BY <1>1 DEF AssemblerOK
  <2>4. j \in DOMAIN program
    BY DEF AssemblerOK, Program
  <2> DEFINE c == Addresses(program)[j]  b == c + 2
  <2>5. b \in Nat /\ c \in Nat /\ b \in Place(program, j) /\ b + 1 \in Place(program, j)
    <3>1. c \in Nat /\ {c + 2, c + 3} \subseteq Place(program, j)
      BY <2>3, <2>4, OpenOperand
    <3> HIDE DEF c
    <3>2. c + 2 \in Nat /\ (c + 2) + 1 = c + 3
      BY <3>1
    <3> QED BY <3>1, <3>2
  <2>6. fixups[n][2] = b
    BY <2>3
  <2>7. \A x : x \notin {b, b + 1} => ByteIn(new, x) = ByteIn(m, x)
    <3> HIDE DEF b, v, m, new
    <3>1. new = Placed(two_bytes(v), b, m) /\ Cells(m) /\ b \in Nat
      BY <2>1, <2>5, <2>6
    <3>2. \A x : x \notin {b, b + 1} => ByteIn(Placed(two_bytes(v), b, m), x) = ByteIn(m, x)
      BY <2>2, <3>1, PlacedWord
    <3> QED BY <3>1, <3>2
  <2>8. Same(m)
    BY <1>5
  <2>9. CASE j = i
    <3>1. ~alone /\ a = c
      BY <2>3, <2>9
    <3>2. a \notin {b, b + 1} /\ a + 1 \notin {b, b + 1}
      <4> HIDE DEF c, a
      <4> QED BY <2>5, <3>1
    <3>3. WordIn(new, a) = WordIn(m, a)
      <4> HIDE DEF a, b, m, new
      <4> QED BY <2>7, <3>2 DEF WordIn
    <3>4. Same(new)
      BY <2>8, <3>1, <3>3
    <3> QED BY <3>4
  <2>10. CASE j # i
    <3>1. \A x : x \notin Place(program, j) => ByteIn(new, x) = ByteIn(m, x)
      <4> HIDE DEF b, m, new
      <4> QED BY <2>5, <2>7
    <3>2. /\ WordIn(new, a) = WordIn(m, a)
          /\ Long(program[i]) => WordIn(new, a + 2) = WordIn(m, a + 2)
      <4> HIDE DEF m, new
      <4> QED BY <1>1, <2>4, <2>10, <3>1, WordsApart
    <3>3. Same(new)
      BY <2>8, <3>2
    <3> QED BY <3>3
  <2> QED BY <2>9, <2>10
<1>6. K \in T
  <2> HIDE DEF T
  <2>1. 0 .. K \subseteq T
    BY <1>1, <1>4, <1>5, RangeInduction
  <2> QED BY <1>1, <2>1
<1> QED BY <1>3, <1>6

LEMMA LoadedCode ==
  ASSUME AssemblerOK, SymbolsOK, OperandsOK, WordsOK, Load_, phase' = "run" PROVE CodeOK'
<1>1. /\ Undefined = {} /\ memory' = [addr \in DOMAIN binary \cap 0 .. max_addr - 1 |-> binary[addr]]
      /\ lineno > Len(program) /\ program' = program
  BY Loaded DEF Load_, asm
<1> SUFFICES ASSUME NEW i \in DOMAIN program, IsInstruction(program[i])
             PROVE  /\ WordIn(memory', Addresses(program)[i]) = insn_word(program[i])
                    /\ Long(program[i]) => WordIn(memory', Addresses(program)[i] + 2) = Operand(program, program[i])
  BY <1>1 DEF CodeOK
<1> DEFINE c == Addresses(program)[i]
<1>2. /\ WordIn(binary, c) = insn_word(program[i])
      /\ Long(program[i]) /\ program[i].sym = NoName => WordIn(binary, c + 2) = program[i].num
  BY <1>1, BinaryWords
<1>3. c \in Nat /\ Accepted(program[i]) /\ Size(program[i]) = IF Long(program[i]) THEN 4 ELSE 2
  BY InstructionPlace DEF Size
<1>4. c + Size(program[i]) <= max_addr /\ max_addr \in Nat
  <2>1. i \in 1 .. lineno - 1
    BY <1>1 DEF AssemblerOK, Program
  <2> QED BY <2>1 DEF AssemblerOK
<1> DEFINE D == 0 .. max_addr - 1
<1>5. \A x \in D : ByteIn(memory', x) = ByteIn(binary, x)
  <2> HIDE DEF D
  <2>1. memory' = [addr \in DOMAIN binary \cap D |-> binary[addr]]
    BY <1>1 DEF D
  <2> QED BY <2>1 DEF ByteIn
<1>6. c \in D /\ c + 1 \in D
  <2> HIDE DEF c
  <2> QED BY <1>3, <1>4
<1>7. WordIn(memory', c) = WordIn(binary, c)
  <2> HIDE DEF c, D
  <2> QED BY <1>5, <1>6 DEF WordIn
<1>8. CASE Long(program[i]) /\ program[i].sym = NoName
  <2>1. c + 2 \in D /\ (c + 2) + 1 \in D
    <3> HIDE DEF c
    <3> QED BY <1>3, <1>4, <1>8
  <2>2. WordIn(memory', c + 2) = WordIn(binary, c + 2)
    <3> HIDE DEF c, D
    <3> QED BY <1>5, <2>1 DEF WordIn
  <2>3. Operand(program, program[i]) = program[i].num
    BY <1>8 DEF Operand
  <2> QED BY <1>2, <1>7, <1>8, <2>2, <2>3
<1>9. CASE program[i].sym # NoName
  <2>1. WordIn(memory', c + 2) = Meaning(program, program[i].sym)
    BY <1>9, LoadedOperands
  <2>2. Operand(program, program[i]) = Meaning(program, program[i].sym)
    BY <1>9 DEF Operand
  <2> QED BY <1>2, <1>7, <2>1, <2>2
<1> QED BY <1>2, <1>7, <1>8, <1>9

LEMMA PutElsewhere ==
  ASSUME NEW byte, NEW addr, NEW bytes, NEW a, a # addr
  PROVE  ByteIn(Put(byte, addr, bytes), a) = ByteIn(bytes, a)
BY DEF ByteIn, Put

\* An instruction changes no cell but those it touches.
LEMMA Elsewhere ==
  ASSUME MachineOK, emulate
  PROVE  \A a : a \notin Touched => ByteIn(memory', a) = ByteIn(memory, a)
<1>1. /\ R[ra] \in Words /\ R[rb] \in Words /\ Cells(memory)
  BY InstructionParts DEF MachineOK
<1>2. ASSUME NEW n \in Words, NEW addr
      PROVE  \A a : a \notin {addr, addr + 1} => ByteIn(store2(n, addr), a) = ByteIn(memory, a)
  <2> SUFFICES ASSUME NEW a, a # addr, a # addr + 1 PROVE ByteIn(store2(n, addr), a) = ByteIn(memory, a)
    OBVIOUS
  <2> DEFINE upper == Put(n \div 256, addr + 1, memory)
  <2>1. ByteIn(upper, a) = ByteIn(memory, a)
    BY PutElsewhere
  <2>2. store2(n, addr) = Put(n % 256, addr, upper)
    BY DEF store2
  <2> HIDE DEF upper
  <2>3. ByteIn(Put(n % 256, addr, upper), a) = ByteIn(upper, a)
    BY PutElsewhere
  <2> QED BY <2>1, <2>2, <2>3
<1>3. ASSUME NEW n \in Words, NEW addr
      PROVE  \A a : a # addr => ByteIn(Stored(n % 256, addr), a) = ByteIn(memory, a)
  BY PutElsewhere DEF Stored
<1>4. CASE memory' = memory
  BY <1>4
<1>5. CASE STORE
  <2> DEFINE form == insn \div 256  x == operand  y == R[rb]  v == R[ra]
  <2>1. opcode = 3 /\ memory' = stored
    BY <1>5 DEF STORE
  <2>2. stored = CASE form = 48 -> store2(v, x) [] form = 52 -> Stored(v % 256, x + 1)
                   [] form = 60 -> Stored(v % 256, y) [] OTHER -> store2(v, y)
    BY DEF stored
  <2>3. Touched = IF form = 52 THEN {x + 1} ELSE IF form = 60 THEN {y}
                  ELSE IF form = 48 THEN {x, x + 1} ELSE {y, y + 1}
    BY <2>1 DEF Touched
  <2>4. v \in Words
    BY <1>1
  <2> HIDE DEF form, x, y, v
  <2>5. CASE form = 48
    BY <1>2, <2>1, <2>2, <2>3, <2>4, <2>5
  <2>6. CASE form = 52
    BY <1>3, <2>1, <2>2, <2>3, <2>4, <2>6
  <2>7. CASE form = 60
    BY <1>3, <2>1, <2>2, <2>3, <2>4, <2>7
  <2>8. CASE form \notin {48, 52, 60}
    BY <1>2, <2>1, <2>2, <2>3, <2>4, <2>8
  <2> QED BY <2>5, <2>6, <2>7, <2>8
<1>6. CASE CALL
  <2>1. opcode \in {8, 9} /\ memory' = store2(return_to, Wrap(SP - 2))
    BY <1>6 DEF CALL
  <2>2. return_to \in Words
    BY SkipType DEF return_to
  <2>3. Touched = {Wrap(SP - 2), Wrap(SP - 2) + 1}
    BY <2>1 DEF Touched
  <2> QED BY <1>2, <2>1, <2>2, <2>3
<1>7. CASE PUSH
  <2>1. opcode = 11 /\ memory' = store2(R[ra], Wrap(SP - 2))
    BY <1>7 DEF PUSH
  <2>2. Touched = {Wrap(SP - 2), Wrap(SP - 2) + 1}
    BY <2>1 DEF Touched
  <2> QED BY <1>1, <1>2, <2>1, <2>2
<1>8. memory' = memory \/ STORE \/ CALL \/ PUSH
  BY DEF emulate, SET, LOAD, MOVE, ALU, JMP, RET, POP, IN_, OUT
<1> QED BY <1>4, <1>5, <1>6, <1>7, <1>8

\* What is shown, field by field.
Rec(o, s, bt, rl, x, y, z, n) ==
  [op |-> o, sub |-> s, byte |-> bt, rel |-> rl, a |-> x, b |-> y, c |-> z, num |-> n]

LEMMA BlankParts ==
  /\ DOMAIN Blank = {"op", "sub", "byte", "rel", "a", "b", "c", "num"}
  /\ Blank.op = NoName /\ Blank.sub = NoName /\ Blank.byte = FALSE /\ Blank.rel = FALSE
  /\ Blank.a = 0 /\ Blank.b = 0 /\ Blank.c = 0 /\ Blank.num = 0
BY DEF Blank

LEMMA PrintedRec ==
  ASSUME NEW l
  PROVE  Printed(l) = Rec(l.op, l.sub, l.byte, l.rel, l.a, l.b, l.c, IF Long(l) THEN Operand(program, l) ELSE l.num)
<1> DEFINE n == IF Long(l) THEN Operand(program, l) ELSE l.num
           F == {"op", "sub", "byte", "rel", "a", "b", "c", "num"}
<1>1. Printed(l) = [f \in F |-> IF f = "num" /\ Long(l) THEN Operand(program, l) ELSE l[f]]
  BY BlankParts DEF Printed
<1>2. ASSUME NEW f \in F
      PROVE  (IF f = "num" /\ Long(l) THEN Operand(program, l) ELSE l[f])
               = Rec(l.op, l.sub, l.byte, l.rel, l.a, l.b, l.c, n)[f]
  BY DEF Rec
<1>3. Rec(l.op, l.sub, l.byte, l.rel, l.a, l.b, l.c, n) = [f \in F |-> Rec(l.op, l.sub, l.byte, l.rel, l.a, l.b, l.c, n)[f]]
  BY DEF Rec
<1> QED BY <1>1, <1>2, <1>3

\* The fields that a line does not have.
LEMMA Untaken ==
  ASSUME NEW l, Accepted(l), NEW f \in DOMAIN Blank, f # "op", f \notin Taken(l)
  PROVE  l[f] = Blank[f]
BY DEF Accepted

LEMMA RecOf ==
  ASSUME NEW d, DOMAIN d = DOMAIN Blank, d = [f \in DOMAIN Blank |-> d[f]]
  PROVE  d = Rec(d.op, d.sub, d.byte, d.rel, d.a, d.b, d.c, d.num)
<1>1. \A f \in DOMAIN Blank : d[f] = Rec(d.op, d.sub, d.byte, d.rel, d.a, d.b, d.c, d.num)[f]
  BY BlankParts DEF Rec
<1> DEFINE e == Rec(d.op, d.sub, d.byte, d.rel, d.a, d.b, d.c, d.num)
<1>2. e = [f \in DOMAIN Blank |-> e[f]]
  BY BlankParts DEF Rec
<1> HIDE DEF e
<1>3. \A f \in DOMAIN Blank : d[f] = e[f]
  BY <1>1 DEF e
<1>4. d = e
  BY <1>2, <1>3
<1> QED BY <1>4 DEF e

\* Blank with some of its fields filled.
FilledSet(o, x, n) == [Blank EXCEPT !.op = o, !.a = x, !.num = n]
FilledAccess(o, bt, rl, x, y, n) == [Blank EXCEPT !.op = o, !.byte = bt, !.rel = rl, !.a = x, !.b = y, !.num = n]
FilledMove(o, x, y) == [Blank EXCEPT !.op = o, !.a = x, !.b = y]
FilledAlu(o, s, x, y, z) == [Blank EXCEPT !.op = o, !.sub = s, !.a = x, !.b = y, !.c = z]
FilledJump(o, s, n) == [Blank EXCEPT !.op = o, !.sub = s, !.num = n]
FilledCall(o, n) == [Blank EXCEPT !.op = o, !.num = n]
FilledFar(o, s, x) == [Blank EXCEPT !.op = o, !.sub = s, !.rel = TRUE, !.a = x]
FilledFarCall(o, x) == [Blank EXCEPT !.op = o, !.rel = TRUE, !.a = x]
FilledMisc(o, x) == [Blank EXCEPT !.op = o, !.a = x]

LEMMA SetRec ==
  ASSUME NEW o, NEW x, NEW n
  PROVE  FilledSet(o, x, n) = Rec(o, NoName, FALSE, FALSE, x, 0, 0, n)
<1> SUFFICES ASSUME NEW d, d = [Blank EXCEPT !.op = o, !.a = x, !.num = n] PROVE d = Rec(o, NoName, FALSE, FALSE, x, 0, 0, n)
  BY DEF FilledSet
<1>1. DOMAIN d = DOMAIN Blank
  OBVIOUS
<1>2. d = [f \in DOMAIN Blank |-> d[f]]
  BY Zenon
<1>3. d.op = o /\ d.sub = NoName /\ d.byte = FALSE /\ d.rel = FALSE /\ d.a = x /\ d.b = 0 /\ d.c = 0 /\ d.num = n
  BY BlankParts
<1>4. d = Rec(d.op, d.sub, d.byte, d.rel, d.a, d.b, d.c, d.num)
  BY <1>1, <1>2, RecOf, ZenonT(40)
<1> QED BY <1>3, <1>4

LEMMA AccessRec ==
  ASSUME NEW o, NEW bt, NEW rl, NEW x, NEW y, NEW n
  PROVE  FilledAccess(o, bt, rl, x, y, n) = Rec(o, NoName, bt, rl, x, y, 0, n)
<1> SUFFICES ASSUME NEW d, d = [Blank EXCEPT !.op = o, !.byte = bt, !.rel = rl, !.a = x, !.b = y, !.num = n] PROVE d = Rec(o, NoName, bt, rl, x, y, 0, n)
  BY DEF FilledAccess
<1>1. DOMAIN d = DOMAIN Blank
  OBVIOUS
<1>2. d = [f \in DOMAIN Blank |-> d[f]]
  BY Zenon
<1>3. d.op = o /\ d.sub = NoName /\ d.byte = bt /\ d.rel = rl /\ d.a = x /\ d.b = y /\ d.c = 0 /\ d.num = n
  BY BlankParts
<1>4. d = Rec(d.op, d.sub, d.byte, d.rel, d.a, d.b, d.c, d.num)
  BY <1>1, <1>2, RecOf, ZenonT(40)
<1> QED BY <1>3, <1>4

LEMMA MoveRec ==
  ASSUME NEW o, NEW x, NEW y
  PROVE  FilledMove(o, x, y) = Rec(o, NoName, FALSE, FALSE, x, y, 0, 0)
<1> SUFFICES ASSUME NEW d, d = [Blank EXCEPT !.op = o, !.a = x, !.b = y] PROVE d = Rec(o, NoName, FALSE, FALSE, x, y, 0, 0)
  BY DEF FilledMove
<1>1. DOMAIN d = DOMAIN Blank
  OBVIOUS
<1>2. d = [f \in DOMAIN Blank |-> d[f]]
  BY Zenon
<1>3. d.op = o /\ d.sub = NoName /\ d.byte = FALSE /\ d.rel = FALSE /\ d.a = x /\ d.b = y /\ d.c = 0 /\ d.num = 0
  BY BlankParts
<1>4. d = Rec(d.op, d.sub, d.byte, d.rel, d.a, d.b, d.c, d.num)
  BY <1>1, <1>2, RecOf, ZenonT(40)
<1> QED BY <1>3, <1>4

LEMMA AluRec ==
  ASSUME NEW o, NEW s, NEW x, NEW y, NEW z
  PROVE  FilledAlu(o, s, x, y, z) = Rec(o, s, FALSE, FALSE, x, y, z, 0)
<1> SUFFICES ASSUME NEW d, d = [Blank EXCEPT !.op = o, !.sub = s, !.a = x, !.b = y, !.c = z] PROVE d = Rec(o, s, FALSE, FALSE, x, y, z, 0)
  BY DEF FilledAlu
<1>1. DOMAIN d = DOMAIN Blank
  OBVIOUS
<1>2. d = [f \in DOMAIN Blank |-> d[f]]
  BY Zenon
<1>3. d.op = o /\ d.sub = s /\ d.byte = FALSE /\ d.rel = FALSE /\ d.a = x /\ d.b = y /\ d.c = z /\ d.num = 0
  BY BlankParts
<1>4. d = Rec(d.op, d.sub, d.byte, d.rel, d.a, d.b, d.c, d.num)
  BY <1>1, <1>2, RecOf
<1> QED BY <1>3, <1>4

LEMMA JumpRec ==
  ASSUME NEW o, NEW s, NEW n
  PROVE  FilledJump(o, s, n) = Rec(o, s, FALSE, FALSE, 0, 0, 0, n)
<1> SUFFICES ASSUME NEW d, d = [Blank EXCEPT !.op = o, !.sub = s, !.num = n] PROVE d = Rec(o, s, FALSE, FALSE, 0, 0, 0, n)
  BY DEF FilledJump
<1>1. DOMAIN d = DOMAIN Blank
  OBVIOUS
<1>2. d = [f \in DOMAIN Blank |-> d[f]]
  BY Zenon
<1>3. d.op = o /\ d.sub = s /\ d.byte = FALSE /\ d.rel = FALSE /\ d.a = 0 /\ d.b = 0 /\ d.c = 0 /\ d.num = n
  BY BlankParts
<1>4. d = Rec(d.op, d.sub, d.byte, d.rel, d.a, d.b, d.c, d.num)
  BY <1>1, <1>2, RecOf
<1> QED BY <1>3, <1>4

LEMMA CallRec ==
  ASSUME NEW o, NEW n
  PROVE  FilledCall(o, n) = Rec(o, NoName, FALSE, FALSE, 0, 0, 0, n)
<1> SUFFICES ASSUME NEW d, d = [Blank EXCEPT !.op = o, !.num = n] PROVE d = Rec(o, NoName, FALSE, FALSE, 0, 0, 0, n)
  BY DEF FilledCall
<1>1. DOMAIN d = DOMAIN Blank
  OBVIOUS
<1>2. d = [f \in DOMAIN Blank |-> d[f]]
  BY Zenon
<1>3. d.op = o /\ d.sub = NoName /\ d.byte = FALSE /\ d.rel = FALSE /\ d.a = 0 /\ d.b = 0 /\ d.c = 0 /\ d.num = n
  BY BlankParts
<1>4. d = Rec(d.op, d.sub, d.byte, d.rel, d.a, d.b, d.c, d.num)
  BY <1>1, <1>2, RecOf
<1> QED BY <1>3, <1>4

LEMMA FarRec ==
  ASSUME NEW o, NEW s, NEW x
  PROVE  FilledFar(o, s, x) = Rec(o, s, FALSE, TRUE, x, 0, 0, 0)
<1> SUFFICES ASSUME NEW d, d = [Blank EXCEPT !.op = o, !.sub = s, !.rel = TRUE, !.a = x] PROVE d = Rec(o, s, FALSE, TRUE, x, 0, 0, 0)
  BY DEF FilledFar
<1>1. DOMAIN d = DOMAIN Blank
  OBVIOUS
<1>2. d = [f \in DOMAIN Blank |-> d[f]]
  BY Zenon
<1>3. d.op = o /\ d.sub = s /\ d.byte = FALSE /\ d.rel = TRUE /\ d.a = x /\ d.b = 0 /\ d.c = 0 /\ d.num = 0
  BY BlankParts
<1>4. d = Rec(d.op, d.sub, d.byte, d.rel, d.a, d.b, d.c, d.num)
  BY <1>1, <1>2, RecOf, ZenonT(40)
<1> QED BY <1>3, <1>4

LEMMA FarCallRec ==
  ASSUME NEW o, NEW x
  PROVE  FilledFarCall(o, x) = Rec(o, NoName, FALSE, TRUE, x, 0, 0, 0)
<1> SUFFICES ASSUME NEW d, d = [Blank EXCEPT !.op = o, !.rel = TRUE, !.a = x] PROVE d = Rec(o, NoName, FALSE, TRUE, x, 0, 0, 0)
  BY DEF FilledFarCall
<1>1. DOMAIN d = DOMAIN Blank
  OBVIOUS
<1>2. d = [f \in DOMAIN Blank |-> d[f]]
  BY Zenon
<1>3. d.op = o /\ d.sub = NoName /\ d.byte = FALSE /\ d.rel = TRUE /\ d.a = x /\ d.b = 0 /\ d.c = 0 /\ d.num = 0
  BY BlankParts
<1>4. d = Rec(d.op, d.sub, d.byte, d.rel, d.a, d.b, d.c, d.num)
  BY <1>1, <1>2, RecOf, ZenonT(40)
<1> QED BY <1>3, <1>4

LEMMA MiscRec ==
  ASSUME NEW o, NEW x
  PROVE  FilledMisc(o, x) = Rec(o, NoName, FALSE, FALSE, x, 0, 0, 0)
<1> SUFFICES ASSUME NEW d, d = [Blank EXCEPT !.op = o, !.a = x] PROVE d = Rec(o, NoName, FALSE, FALSE, x, 0, 0, 0)
  BY DEF FilledMisc
<1>1. DOMAIN d = DOMAIN Blank
  OBVIOUS
<1>2. d = [f \in DOMAIN Blank |-> d[f]]
  BY Zenon
<1>3. d.op = o /\ d.sub = NoName /\ d.byte = FALSE /\ d.rel = FALSE /\ d.a = x /\ d.b = 0 /\ d.c = 0 /\ d.num = 0
  BY BlankParts
<1>4. d = Rec(d.op, d.sub, d.byte, d.rel, d.a, d.b, d.c, d.num)
  BY <1>1, <1>2, RecOf, ZenonT(40)
<1> QED BY <1>3, <1>4

Coded(w) == w \div 4096
Indirect(w) == (w \div 2048) % 2 = 1
ByteForm(w) == (w \div 1024) % 2 = 1
OpIn(w) == (w \div 512) % 8
RcIn(w) == (w \div 64) % 8
RbIn(w) == (w \div 8) % 8
RaIn(w) == w % 8

LEMMA DisasmSet ==
  ASSUME NEW w, NEW next, Coded(w) = 1
  PROVE  disasm(w, next) = Rec("SET", NoName, FALSE, FALSE, w % 8, 0, 0, next)
<1>1. disasm(w, next) = FilledSet("SET", w % 8, next)
  BY DEF disasm, FilledSet, Coded
<1>2. FilledSet("SET", w % 8, next) = Rec("SET", NoName, FALSE, FALSE, w % 8, 0, 0, next)
  BY SetRec, Zenon
<1> QED BY <1>1, <1>2

LEMMA DisasmAccess ==
  ASSUME NEW w, NEW next, Coded(w) \in {2, 3}
  PROVE  disasm(w, next) =
           Rec(IF Coded(w) = 2 THEN "LOAD" ELSE "STORE", NoName, ByteForm(w), Indirect(w), RaIn(w),
               IF Indirect(w) THEN RbIn(w) ELSE 0, 0, IF Indirect(w) THEN 0 ELSE next)
<1>1. disasm(w, next) =
        FilledAccess(IF Coded(w) = 2 THEN "LOAD" ELSE "STORE", ByteForm(w), Indirect(w), RaIn(w),
               IF Indirect(w) THEN RbIn(w) ELSE 0, IF Indirect(w) THEN 0 ELSE next)
  BY DEF disasm, FilledAccess, Coded, Indirect, ByteForm, RaIn, RbIn
<1>2. FilledAccess(IF Coded(w) = 2 THEN "LOAD" ELSE "STORE", ByteForm(w), Indirect(w), RaIn(w),
               IF Indirect(w) THEN RbIn(w) ELSE 0, IF Indirect(w) THEN 0 ELSE next)
       = Rec(IF Coded(w) = 2 THEN "LOAD" ELSE "STORE", NoName, ByteForm(w), Indirect(w), RaIn(w),
               IF Indirect(w) THEN RbIn(w) ELSE 0, 0, IF Indirect(w) THEN 0 ELSE next)
  BY AccessRec, Zenon
<1> QED BY <1>1, <1>2, Zenon

LEMMA DisasmMove ==
  ASSUME NEW w, NEW next, Coded(w) = 4
  PROVE  disasm(w, next) = Rec("MOVE", NoName, FALSE, FALSE, w % 16, (w \div 16) % 16, 0, 0)
<1>1. disasm(w, next) = FilledMove("MOVE", w % 16, (w \div 16) % 16)
  BY DEF disasm, FilledMove, Coded
<1>2. FilledMove("MOVE", w % 16, (w \div 16) % 16) = Rec("MOVE", NoName, FALSE, FALSE, w % 16, (w \div 16) % 16, 0, 0)
  BY MoveRec, Zenon
<1> QED BY <1>1, <1>2, Zenon

LEMMA DisasmAlu ==
  ASSUME NEW w, NEW next, Coded(w) = 5
  PROVE  disasm(w, next) =
           Rec("ALU", alu_name[OpIn(w) + 1], FALSE, FALSE, RaIn(w),
               IF OpIn(w) = 7 THEN 0 ELSE RbIn(w), IF OpIn(w) \in {6, 7} THEN 0 ELSE RcIn(w), 0)
<1>1. disasm(w, next) =
        FilledAlu("ALU", alu_name[OpIn(w) + 1], RaIn(w),
               IF OpIn(w) = 7 THEN 0 ELSE RbIn(w), IF OpIn(w) \in {6, 7} THEN 0 ELSE RcIn(w))
  BY DEF disasm, FilledAlu, Coded, OpIn, RaIn, RbIn, RcIn
<1>2. FilledAlu("ALU", alu_name[OpIn(w) + 1], RaIn(w),
               IF OpIn(w) = 7 THEN 0 ELSE RbIn(w), IF OpIn(w) \in {6, 7} THEN 0 ELSE RcIn(w))
        = Rec("ALU", alu_name[OpIn(w) + 1], FALSE, FALSE, RaIn(w),
               IF OpIn(w) = 7 THEN 0 ELSE RbIn(w), IF OpIn(w) \in {6, 7} THEN 0 ELSE RcIn(w), 0)
  BY AluRec, Zenon
<1> QED BY <1>1, <1>2, Zenon

LEMMA DisasmJump ==
  ASSUME NEW w, NEW next, Coded(w) = 6
  PROVE  disasm(w, next) = Rec("JMP", jmp_suff[OpIn(w) + 1], FALSE, FALSE, 0, 0, 0, next)
<1>1. disasm(w, next) = FilledJump("JMP", jmp_suff[OpIn(w) + 1], next)
  BY DEF disasm, FilledJump, Coded, OpIn
<1>2. FilledJump("JMP", jmp_suff[OpIn(w) + 1], next) = Rec("JMP", jmp_suff[OpIn(w) + 1], FALSE, FALSE, 0, 0, 0, next)
  BY JumpRec, Zenon
<1> QED BY <1>1, <1>2, Zenon

LEMMA DisasmCall ==
  ASSUME NEW w, NEW next, Coded(w) = 8
  PROVE  disasm(w, next) = Rec("CALL", NoName, FALSE, FALSE, 0, 0, 0, next)
<1>1. disasm(w, next) = FilledCall("CALL", next)
  BY DEF disasm, FilledCall, Coded
<1>2. FilledCall("CALL", next) = Rec("CALL", NoName, FALSE, FALSE, 0, 0, 0, next)
  BY CallRec, Zenon
<1> QED BY <1>1, <1>2, Zenon

LEMMA DisasmFar ==
  ASSUME NEW w, NEW next, Coded(w) = 7
  PROVE  disasm(w, next) = Rec("JMP", jmp_suff[OpIn(w) + 1], FALSE, TRUE, RcIn(w), 0, 0, 0)
<1>1. disasm(w, next) = FilledFar("JMP", jmp_suff[OpIn(w) + 1], RcIn(w))
  BY DEF disasm, FilledFar, Coded, OpIn, RcIn
<1>2. FilledFar("JMP", jmp_suff[OpIn(w) + 1], RcIn(w)) = Rec("JMP", jmp_suff[OpIn(w) + 1], FALSE, TRUE, RcIn(w), 0, 0, 0)
  BY FarRec, Zenon
<1> QED BY <1>1, <1>2, Zenon

LEMMA DisasmFarCall ==
  ASSUME NEW w, NEW next, Coded(w) = 9
  PROVE  disasm(w, next) = Rec("CALL", NoName, FALSE, TRUE, RcIn(w), 0, 0, 0)
<1>1. disasm(w, next) = FilledFarCall("CALL", RcIn(w))
  BY DEF disasm, FilledFarCall, Coded, RcIn
<1>2. FilledFarCall("CALL", RcIn(w)) = Rec("CALL", NoName, FALSE, TRUE, RcIn(w), 0, 0, 0)
  BY FarCallRec, Zenon
<1> QED BY <1>1, <1>2, Zenon

LEMMA DisasmMisc ==
  ASSUME NEW w, NEW next, NEW code \in 10 .. 15, Coded(w) = code, RcIn(w) = 0
  PROVE  disasm(w, next) = Rec(misc_name[code - 9], NoName, FALSE, FALSE, 0, 0, 0, 0)
<1>1. disasm(w, next) = [Blank EXCEPT !.op = misc_name[Coded(w) - 9], !.a = IF Coded(w) \in {10, 15} THEN 0 ELSE RcIn(w)]
  <2>1. Coded(w) \in 10 .. 15 /\ Coded(w) \notin {1, 2, 3, 4, 5, 6, 7, 8, 9}
    OBVIOUS
  <2> QED BY <2>1 DEF disasm, Coded, RcIn
<1>2. disasm(w, next) = FilledMisc(misc_name[Coded(w) - 9], IF Coded(w) \in {10, 15} THEN 0 ELSE RcIn(w))
  BY <1>1, Zenon DEF FilledMisc
<1>3. FilledMisc(misc_name[Coded(w) - 9], IF Coded(w) \in {10, 15} THEN 0 ELSE RcIn(w)) =
         Rec(misc_name[Coded(w) - 9], NoName, FALSE, FALSE, IF Coded(w) \in {10, 15} THEN 0 ELSE RcIn(w), 0, 0, 0)
  BY MiscRec, Zenon
<1>4. disasm(w, next) = Rec(misc_name[Coded(w) - 9], NoName, FALSE, FALSE, IF Coded(w) \in {10, 15} THEN 0 ELSE RcIn(w), 0, 0, 0)
  BY <1>2, <1>3, Zenon
<1>5. (IF Coded(w) \in {10, 15} THEN 0 ELSE RcIn(w)) = 0
  OBVIOUS
<1> QED BY <1>4, <1>5, Zenon

LEMMA LoadStoreBits ==
  ASSUME NEW l, Accepted(l), IsInstruction(l), l.op \in {"LOAD", "STORE"}
  PROVE  LET w == insn_word(l) IN
         /\ Coded(w) = (IF l.op = "LOAD" THEN 2 ELSE 3)
         /\ Indirect(w) = l.rel /\ ByteForm(w) = l.byte /\ RaIn(w) = l.a
         /\ l.rel => RbIn(w) = l.b
<1> DEFINE x == l.a  y == l.b  bit == l.byte  far == l.rel  w == insn_word(l)
           base == IF l.op = "LOAD" THEN 2 ELSE 3
<1>1. x \in 0 .. 7 /\ y \in 0 .. 7 /\ bit \in BOOLEAN /\ far \in BOOLEAN
  BY Fields
<1>2. w = 4096 * base + ((IF bit THEN 1024 ELSE 0) + (IF far THEN 2048 + 8 * y ELSE 0) + x)
  BY InsnWord DEF do_load_store
<1>3. base \in {2, 3}
  OBVIOUS
<1> HIDE DEF x, y, bit, far, w, base
<1>4. Coded(w) = base
  BY <1>1, <1>2, <1>3 DEF Coded
<1>5. Indirect(w) = far
  BY <1>1, <1>2, <1>3 DEF Indirect
<1>6. ByteForm(w) = bit
  BY <1>1, <1>2, <1>3 DEF ByteForm
<1>7. RaIn(w) = x
  BY <1>1, <1>2, <1>3 DEF RaIn
<1>8. far => RbIn(w) = y
  BY <1>1, <1>2, <1>3 DEF RbIn
<1> QED BY <1>4, <1>5, <1>6, <1>7, <1>8 DEF w, base, far, bit, x, y

LEMMA AluBits ==
  ASSUME NEW l, Accepted(l), IsInstruction(l), l.op = "ALU"
  PROVE  LET w == insn_word(l) IN
         /\ Coded(w) = 5 /\ OpIn(w) = Position(alu_ops, l.sub) - 1
         /\ RaIn(w) = l.a /\ RbIn(w) = l.b /\ RcIn(w) = l.c
<1> DEFINE x == l.a  y == l.b  z == l.c  k == Position(alu_ops, l.sub)  w == insn_word(l)
<1>1. x \in 0 .. 7 /\ y \in 0 .. 7 /\ z \in 0 .. 7
  BY Fields
<1>2. k \in 1 .. 8
  BY AluCode DEF Accepted
<1>3. w = 20480 + (512 * (k - 1) + 64 * z + 8 * y + x)
  BY InsnWord DEF do_alu
<1> HIDE DEF x, y, z, k, w
<1>4. Coded(w) = 5
  BY <1>1, <1>2, <1>3 DEF Coded
<1>5. OpIn(w) = k - 1
  BY <1>1, <1>2, <1>3 DEF OpIn
<1>6. RaIn(w) = x
  BY <1>1, <1>2, <1>3 DEF RaIn
<1>7. RbIn(w) = y
  BY <1>1, <1>2, <1>3 DEF RbIn
<1>8. RcIn(w) = z
  BY <1>1, <1>2, <1>3 DEF RcIn
<1> QED BY <1>4, <1>5, <1>6, <1>7, <1>8 DEF w, k, x, y, z

LEMMA JmpBits ==
  ASSUME NEW l, Accepted(l), IsInstruction(l), l.op = "JMP", ~l.rel
  PROVE  LET w == insn_word(l) IN Coded(w) = 6 /\ OpIn(w) = Position(jmp_code, l.sub) - 1
<1> DEFINE k == Position(jmp_code, l.sub)  w == insn_word(l)
<1>2. k \in 1 .. 7
  BY JmpCode DEF Accepted
<1>3. w = 24576 + 512 * (k - 1)
  <2>1. do_jmp(l) = 512 * (k - 1) + 0
    BY DEF do_jmp
  <2>2. w = 24576 + do_jmp(l)
    BY InsnWord
  <2> HIDE DEF k, w
  <2> QED BY <1>2, <2>1, <2>2
<1> HIDE DEF k, w
<1>4. Coded(w) = 6
  BY <1>2, <1>3 DEF Coded
<1>5. OpIn(w) = k - 1
  BY <1>2, <1>3 DEF OpIn
<1> QED BY <1>4, <1>5 DEF w, k

LEMMA FarBits ==
  ASSUME NEW l, Accepted(l), IsInstruction(l), l.op = "JMP", l.rel
  PROVE  LET w == insn_word(l) IN Coded(w) = 7 /\ OpIn(w) = Position(jmp_code, l.sub) - 1 /\ RcIn(w) = 0
<1> DEFINE k == Position(jmp_code, l.sub)  x == l.a  w == insn_word(l)
<1>1. x \in 0 .. 7
  BY Fields
<1>2. k \in 1 .. 7
  BY JmpCode DEF Accepted
<1>3. w = 28672 + 512 * (k - 1) + x
  <2>1. do_jmp(l) = 512 * (k - 1) + (4096 + x)
    BY DEF do_jmp
  <2>2. w = 24576 + do_jmp(l)
    BY InsnWord
  <2> HIDE DEF k, x, w
  <2> QED BY <1>1, <1>2, <2>1, <2>2
<1> HIDE DEF k, x, w
<1>4. Coded(w) = 7
  BY <1>1, <1>2, <1>3 DEF Coded
<1>5. OpIn(w) = k - 1
  BY <1>1, <1>2, <1>3 DEF OpIn
<1>6. RcIn(w) = 0
  BY <1>1, <1>2, <1>3 DEF RcIn
<1> QED BY <1>4, <1>5, <1>6 DEF w, k

LEMMA MoveBits ==
  ASSUME NEW l, Accepted(l), IsInstruction(l), l.op = "MOVE"
  PROVE  LET w == insn_word(l) IN Coded(w) = 4 /\ w % 16 = l.a /\ (w \div 16) % 16 = l.b
<1> DEFINE x == l.a  y == l.b  w == insn_word(l)
<1>1. x \in 0 .. 8 /\ y \in 0 .. 8
  BY Fields
<1>2. w = 16384 + (16 * y + x)
  BY InsnWord
<1> HIDE DEF x, y, w
<1>3. Coded(w) = 4 /\ w % 16 = x /\ (w \div 16) % 16 = y
  BY <1>1, <1>2 DEF Coded
<1> QED BY <1>3 DEF x, y, w

LEMMA ShowsSet ==
  ASSUME NEW l, Accepted(l), l.op = "SET",
         NEW next, Long(l) => next = Operand(program, l)
  PROVE  disasm(insn_word(l), next) = Printed(l)
<1> DEFINE x == l.a  w == insn_word(l)  n == next
<1>1. IsInstruction(l) /\ x \in 0 .. 7 /\ Long(l)
  BY Fields, LongIsInstruction DEF Long
<1>2. w = 4096 + x
  BY <1>1, InsnWord
<1>3. Coded(w) = 1 /\ w % 8 = x
  <2> HIDE DEF w, x
  <2> QED BY <1>1, <1>2 DEF Coded
<1>4. Taken(l) = {"a", "num"}
  BY <1>1 DEF Taken, IsInstruction
<1>5. l.sub = NoName /\ l.byte = FALSE /\ l.rel = FALSE /\ l.b = 0 /\ l.c = 0
  BY <1>4, BlankParts, Untaken
<1>6. Printed(l) = Rec("SET", NoName, FALSE, FALSE, x, 0, 0, n)
  BY <1>1, <1>5, PrintedRec
<1> HIDE DEF w, n, x
<1>7. disasm(w, n) = Rec("SET", NoName, FALSE, FALSE, w % 8, 0, 0, n)
  BY <1>3, DisasmSet
<1>8. disasm(w, n) = Printed(l)
  BY <1>3, <1>6, <1>7
<1> QED BY <1>8 DEF w, n

LEMMA ShowsAccess ==
  ASSUME NEW l, Accepted(l), IsInstruction(l), l.op \in {"LOAD", "STORE"},
         NEW next, Long(l) => next = Operand(program, l)
  PROVE  disasm(insn_word(l), next) = Printed(l)
<1> DEFINE w == insn_word(l)  n == next  o == l.op  far == l.rel  bit == l.byte  x == l.a  y == l.b
           code == Coded(w)
<1>1. /\ code = (IF o = "LOAD" THEN 2 ELSE 3)
      /\ Indirect(w) = far /\ ByteForm(w) = bit /\ RaIn(w) = x
      /\ far => RbIn(w) = y
  BY LoadStoreBits
<1>2. far \in BOOLEAN /\ bit \in BOOLEAN /\ o \in {"LOAD", "STORE"} /\ (Long(l) <=> ~far)
  BY Fields DEF Long
<1>3. Taken(l) = {"byte", "rel", "a", IF far THEN "b" ELSE "num"}
  BY DEF Taken, IsInstruction
<1>4. l.sub = NoName /\ l.c = 0 /\ (far => l.num = 0) /\ (~far => y = 0)
  BY <1>3, BlankParts, Untaken
<1>5. Printed(l) = Rec(o, NoName, bit, far, x, y, 0, IF Long(l) THEN n ELSE l.num)
  BY <1>4, PrintedRec
<1>6. disasm(w, n) = Rec(IF code = 2 THEN "LOAD" ELSE "STORE", NoName, ByteForm(w), Indirect(w), RaIn(w),
               IF Indirect(w) THEN RbIn(w) ELSE 0, 0, IF Indirect(w) THEN 0 ELSE n)
  <2> HIDE DEF w, n
  <2>1. Coded(w) \in {2, 3}
    BY <1>1
  <2> QED BY <2>1, DisasmAccess
<1> HIDE DEF w, n, o, far, bit, x, y, code
<1>7. (IF code = 2 THEN "LOAD" ELSE "STORE") = o
  BY <1>1, <1>2
<1>8. (IF Indirect(w) THEN RbIn(w) ELSE 0) = y /\ (IF Indirect(w) THEN 0 ELSE n) = IF Long(l) THEN n ELSE l.num
  BY <1>1, <1>2, <1>4 DEF far, y
<1>9. disasm(w, n) = Rec(o, NoName, bit, far, x, y, 0, IF Long(l) THEN n ELSE l.num)
  BY <1>1, <1>6, <1>7, <1>8, Zenon
<1>10. disasm(w, n) = Printed(l)
  BY <1>5, <1>9
<1> QED BY <1>10 DEF w, n

LEMMA ShowsMove ==
  ASSUME NEW l, Accepted(l), IsInstruction(l), l.op = "MOVE",
         NEW next, Long(l) => next = Operand(program, l)
  PROVE  disasm(insn_word(l), next) = Printed(l)
<1> DEFINE w == insn_word(l)  n == next
<1>1. Coded(w) = 4 /\ w % 16 = l.a /\ (w \div 16) % 16 = l.b
  BY MoveBits
<1>2. Taken(l) = {"a", "b"} /\ ~Long(l)
  BY DEF Taken, Long, IsInstruction
<1>3. l.sub = NoName /\ l.byte = FALSE /\ l.rel = FALSE /\ l.c = 0 /\ l.num = 0
  BY <1>2, BlankParts, Untaken
<1>4. Printed(l) = Rec("MOVE", NoName, FALSE, FALSE, l.a, l.b, 0, 0)
  BY <1>2, <1>3, PrintedRec
<1> HIDE DEF w, n
<1>5. disasm(w, n) = Rec("MOVE", NoName, FALSE, FALSE, w % 16, (w \div 16) % 16, 0, 0)
  BY <1>1, DisasmMove
<1>6. disasm(w, n) = Printed(l)
  BY <1>1, <1>4, <1>5
<1> QED BY <1>6 DEF w, n

LEMMA SameNames == alu_name = alu_ops /\ \A k \in 1 .. 7 : jmp_suff[k] = jmp_code[k]
<1>1. alu_name = alu_ops
  BY Zenon DEF alu_name, alu_ops
<1>2. \A k \in 1 .. 7 : jmp_suff[k] = jmp_code[k]
  BY DEF jmp_suff, jmp_code
<1> QED BY <1>1, <1>2

LEMMA ShowsAlu ==
  ASSUME NEW l, Accepted(l), IsInstruction(l), l.op = "ALU",
         NEW next, Long(l) => next = Operand(program, l)
  PROVE  disasm(insn_word(l), next) = Printed(l)
<1> DEFINE w == insn_word(l)  n == next  k == Position(alu_ops, l.sub)  s == l.sub
           y == IF OpIn(w) = 7 THEN 0 ELSE RbIn(w)  z == IF OpIn(w) \in {6, 7} THEN 0 ELSE RcIn(w)
<1>1. /\ Coded(w) = 5 /\ OpIn(w) = k - 1
      /\ RaIn(w) = l.a /\ RbIn(w) = l.b /\ RcIn(w) = l.c
  BY AluBits
<1>2. k \in 1 .. 8 /\ alu_ops[k] = s
  BY AluCode DEF Accepted
<1>3. Taken(l) = {"sub", "a"} \cup (CASE s = "TEST" -> {} [] s = "CMP" -> {"b"} [] OTHER -> {"b", "c"}) /\ ~Long(l)
  BY DEF Taken, Long, IsInstruction
<1>4. l.byte = FALSE /\ l.rel = FALSE /\ l.num = 0
  BY <1>3, BlankParts, Untaken
<1>5. (s = "TEST" => l.b = 0 /\ l.c = 0) /\ (s = "CMP" => l.c = 0)
  BY <1>3, BlankParts, Untaken
<1>6. alu_ops[7] = "CMP" /\ alu_ops[8] = "TEST"
  BY DEF alu_ops
<1>7. Printed(l) = Rec("ALU", s, FALSE, FALSE, l.a, l.b, l.c, 0)
  BY <1>3, <1>4, PrintedRec
<1> HIDE DEF w, n, k
<1>8. disasm(w, n) = Rec("ALU", alu_name[OpIn(w) + 1], FALSE, FALSE, RaIn(w), y, z, 0)
  BY <1>1, DisasmAlu
<1>9. alu_name[OpIn(w) + 1] = s
  <2>1. OpIn(w) + 1 = k
    BY <1>1, <1>2
  <2> QED BY <1>2, <2>1, SameNames
<1>10. y = l.b /\ z = l.c
  <2> HIDE DEF s
  <2>1. OpIn(w) = 7 => s = "TEST"
    BY <1>1, <1>2, <1>6
  <2>2. OpIn(w) = 6 => s = "CMP"
    BY <1>1, <1>2, <1>6
  <2> QED BY <1>1, <1>5, <2>1, <2>2
<1> HIDE DEF y, z, s
<1>11. disasm(w, n) = Printed(l)
  BY <1>1, <1>7, <1>8, <1>9, <1>10
<1> QED BY <1>11 DEF w, n

LEMMA ShowsJump ==
  ASSUME NEW l, Accepted(l), IsInstruction(l), l.op = "JMP", ~l.rel,
         NEW next, Long(l) => next = Operand(program, l)
  PROVE  disasm(insn_word(l), next) = Printed(l)
<1> DEFINE w == insn_word(l)  n == next  k == Position(jmp_code, l.sub)
<1>1. Coded(w) = 6 /\ OpIn(w) = k - 1
  BY JmpBits
<1>2. k \in 1 .. 7 /\ jmp_code[k] = l.sub
  BY JmpCode DEF Accepted
<1>3. Taken(l) = {"sub", "rel", "num"} /\ Long(l) /\ l.rel = FALSE
  BY Fields DEF Taken, Long, IsInstruction
<1>4. l.byte = FALSE /\ l.a = 0 /\ l.b = 0 /\ l.c = 0
  BY <1>3, BlankParts, Untaken
<1>5. Printed(l) = Rec("JMP", l.sub, FALSE, FALSE, 0, 0, 0, n)
  BY <1>3, <1>4, PrintedRec
<1> HIDE DEF w, n, k
<1>6. disasm(w, n) = Rec("JMP", jmp_suff[OpIn(w) + 1], FALSE, FALSE, 0, 0, 0, n)
  BY <1>1, DisasmJump
<1>7. jmp_suff[OpIn(w) + 1] = l.sub
  <2>1. OpIn(w) + 1 = k
    BY <1>1, <1>2
  <2> QED BY <1>2, <2>1, SameNames
<1>8. disasm(w, n) = Printed(l)
  BY <1>5, <1>6, <1>7
<1> QED BY <1>8 DEF w, n

LEMMA ShowsCall ==
  ASSUME NEW l, Accepted(l), IsInstruction(l), l.op = "CALL", ~l.rel,
         NEW next, Long(l) => next = Operand(program, l)
  PROVE  disasm(insn_word(l), next) = Printed(l)
<1> DEFINE w == insn_word(l)  n == next
<1>1. Coded(w) = 8
  <2>1. w = 32768 + 0
    BY InsnWord
  <2> HIDE DEF w
  <2> QED BY <2>1 DEF Coded
<1>3. Taken(l) = {"rel", "num"} /\ Long(l) /\ l.rel = FALSE
  BY Fields DEF Taken, Long, IsInstruction
<1>4. l.sub = NoName /\ l.byte = FALSE /\ l.a = 0 /\ l.b = 0 /\ l.c = 0
  BY <1>3, BlankParts, Untaken
<1>5. Printed(l) = Rec("CALL", NoName, FALSE, FALSE, 0, 0, 0, n)
  BY <1>3, <1>4, PrintedRec
<1> HIDE DEF w, n
<1>6. disasm(w, n) = Rec("CALL", NoName, FALSE, FALSE, 0, 0, 0, n)
  BY <1>1, DisasmCall
<1>8. disasm(w, n) = Printed(l)
  BY <1>5, <1>6
<1> QED BY <1>8 DEF w, n

LEMMA ShowsMisc ==
  ASSUME NEW l, Accepted(l), IsInstruction(l), l.op \in {"RET", "HALT"},
         NEW next, Long(l) => next = Operand(program, l)
  PROVE  disasm(insn_word(l), next) = Printed(l)
<1> DEFINE w == insn_word(l)  n == next  o == l.op  code == IF o = "RET" THEN 10 ELSE 15
<1>3. Taken(l) = {} /\ ~Long(l)
  BY DEF Taken, Long, IsInstruction
<1>4. l.sub = NoName /\ l.byte = FALSE /\ l.rel = FALSE /\ l.a = 0 /\ l.b = 0 /\ l.c = 0 /\ l.num = 0
  BY <1>3, BlankParts, Untaken
<1>1. Coded(w) = code /\ RcIn(w) = 0 /\ code \in {10, 15}
  <2>1. w = 4096 * code
    <3>1. (o = "RET" => w = 40960 + 0) /\ (o = "HALT" => w = 61440 + 0)
      BY <1>4, InsnWord
    <3> HIDE DEF w
    <3> QED BY <3>1
  <2>2. code \in {10, 15}
    OBVIOUS
  <2> HIDE DEF w, code
  <2> QED BY <2>1, <2>2 DEF Coded, RcIn
<1>5. Printed(l) = Rec(o, NoName, FALSE, FALSE, 0, 0, 0, 0)
  BY <1>3, <1>4, PrintedRec
<1>6. misc_name[code - 9] = o
  <2>1. misc_name[1] = "RET" /\ misc_name[6] = "HALT"
    BY DEF misc_name
  <2>2. o = "RET" => code - 9 = 1
    OBVIOUS
  <2>3. o = "HALT" => code - 9 = 6
    OBVIOUS
  <2> HIDE DEF code
  <2> QED BY <2>1, <2>2, <2>3
<1> HIDE DEF w, n, code, o
<1>7. disasm(w, n) = Rec(misc_name[code - 9], NoName, FALSE, FALSE, 0, 0, 0, 0)
  <2>1. code \in 10 .. 15
    BY <1>1
  <2> QED BY <1>1, <2>1, DisasmMisc
<1>8. disasm(w, n) = Printed(l)
  BY <1>5, <1>6, <1>7
<1> QED BY <1>8 DEF w, n

\* What is to be shown of a line whose register is misread.
LEMMA ShownRec ==
  ASSUME NEW l, Misread(l)
  PROVE  Shown(l) = Rec(l.op, l.sub, l.byte, l.rel, 0, l.b, l.c, IF Long(l) THEN Operand(program, l) ELSE l.num)
<1> DEFINE n == IF Long(l) THEN Operand(program, l) ELSE l.num
           p == Rec(l.op, l.sub, l.byte, l.rel, l.a, l.b, l.c, n)
<1>1. Shown(l) = [Printed(l) EXCEPT !.a = 0]
  BY DEF Shown
<1>2. Printed(l) = p
  BY PrintedRec
<1>3. [p EXCEPT !.a = 0] = Rec(l.op, l.sub, l.byte, l.rel, 0, l.b, l.c, n)
  <2> HIDE DEF n
  <2> QED BY DEF Rec
<1> HIDE DEF p, n
<1>4. Shown(l) = [p EXCEPT !.a = 0]
  BY <1>1, <1>2
<1> QED BY <1>3, <1>4 DEF n

LEMMA ShowsFar ==
  ASSUME NEW l, Accepted(l), IsInstruction(l), l.op = "JMP", l.rel, NEW next
  PROVE  disasm(insn_word(l), next) = Shown(l)
<1> DEFINE w == insn_word(l)  n == next  k == Position(jmp_code, l.sub)
<1>1. Coded(w) = 7 /\ OpIn(w) = k - 1 /\ RcIn(w) = 0
  BY FarBits
<1>2. k \in 1 .. 7 /\ jmp_code[k] = l.sub
  BY JmpCode DEF Accepted
<1>3. Taken(l) = {"sub", "rel", "a"} /\ ~Long(l) /\ l.rel = TRUE /\ Misread(l)
  BY Fields DEF Taken, Long, IsInstruction, Misread
<1>4. l.byte = FALSE /\ l.b = 0 /\ l.c = 0 /\ l.num = 0
  BY <1>3, BlankParts, Untaken
<1>5. Shown(l) = Rec("JMP", l.sub, FALSE, TRUE, 0, 0, 0, 0)
  BY <1>3, <1>4, ShownRec
<1> HIDE DEF w, n, k
<1>6. disasm(w, n) = Rec("JMP", jmp_suff[OpIn(w) + 1], FALSE, TRUE, RcIn(w), 0, 0, 0)
  BY <1>1, DisasmFar
<1>7. jmp_suff[OpIn(w) + 1] = l.sub
  <2>1. OpIn(w) + 1 = k
    BY <1>1, <1>2
  <2> QED BY <1>2, <2>1, SameNames
<1>8. disasm(w, n) = Shown(l)
  BY <1>1, <1>5, <1>6, <1>7
<1> QED BY <1>8 DEF w, n

LEMMA ShowsFarCall ==
  ASSUME NEW l, Accepted(l), IsInstruction(l), l.op = "CALL", l.rel, NEW next
  PROVE  disasm(insn_word(l), next) = Shown(l)
<1> DEFINE w == insn_word(l)  n == next  x == l.a
<1>1. Coded(w) = 9 /\ RcIn(w) = 0
  <2>1. w = 32768 + (4096 + x) /\ x \in 0 .. 7
    BY InsnWord, Fields
  <2> HIDE DEF w, x
  <2> QED BY <2>1 DEF Coded, RcIn
<1>3. Taken(l) = {"rel", "a"} /\ ~Long(l) /\ l.rel = TRUE /\ Misread(l)
  BY Fields DEF Taken, Long, IsInstruction, Misread
<1>4. l.sub = NoName /\ l.byte = FALSE /\ l.b = 0 /\ l.c = 0 /\ l.num = 0
  BY <1>3, BlankParts, Untaken
<1>5. Shown(l) = Rec("CALL", NoName, FALSE, TRUE, 0, 0, 0, 0)
  BY <1>3, <1>4, ShownRec
<1> HIDE DEF w, n
<1>6. disasm(w, n) = Rec("CALL", NoName, FALSE, TRUE, RcIn(w), 0, 0, 0)
  BY <1>1, DisasmFarCall
<1>8. disasm(w, n) = Shown(l)
  BY <1>1, <1>5, <1>6
<1> QED BY <1>8 DEF w, n

LEMMA ShowsRegister ==
  ASSUME NEW l, Accepted(l), IsInstruction(l), l.op \in {"PUSH", "POP", "IN", "OUT"}, NEW next
  PROVE  disasm(insn_word(l), next) = Shown(l)
<1> DEFINE w == insn_word(l)  n == next  o == l.op  x == l.a
           code == CASE o = "PUSH" -> 11 [] o = "POP" -> 12 [] o = "IN" -> 13 [] o = "OUT" -> 14
<1>2. code \in 11 .. 14
  OBVIOUS
<1>3. Taken(l) = {"a"} /\ ~Long(l) /\ Misread(l)
  BY DEF Taken, Long, IsInstruction, Misread
<1>4. l.sub = NoName /\ l.byte = FALSE /\ l.rel = FALSE /\ l.b = 0 /\ l.c = 0 /\ l.num = 0
  BY <1>3, BlankParts, Untaken
<1>1. Coded(w) = code /\ RcIn(w) = 0
  <2>1. w = 4096 * code + x /\ x \in 0 .. 7
    <3>1. /\ o = "PUSH" => w = 45056 + x
          /\ o = "POP"  => w = 49152 + x
          /\ o = "IN"   => w = 53248 + x
          /\ o = "OUT"  => w = 57344 + x
      BY InsnWord
    <3>2. x \in 0 .. 7
      BY Fields
    <3> HIDE DEF w, x
    <3> QED BY <3>1, <3>2
  <2> HIDE DEF w, code, x
  <2> QED BY <1>2, <2>1 DEF Coded, RcIn
<1>5. Shown(l) = Rec(o, NoName, FALSE, FALSE, 0, 0, 0, 0)
  BY <1>3, <1>4, ShownRec
<1>6. misc_name[code - 9] = o
  <2>1. /\ misc_name[2] = "PUSH" /\ misc_name[3] = "POP"
        /\ misc_name[4] = "IN" /\ misc_name[5] = "OUT"
    BY DEF misc_name
  <2>2. /\ o = "PUSH" => code - 9 = 2
        /\ o = "POP"  => code - 9 = 3
        /\ o = "IN"   => code - 9 = 4
        /\ o = "OUT"  => code - 9 = 5
    OBVIOUS
  <2> HIDE DEF code
  <2> QED BY <2>1, <2>2
<1> HIDE DEF w, n, code, o
<1>7. disasm(w, n) = Rec(misc_name[code - 9], NoName, FALSE, FALSE, 0, 0, 0, 0)
  <2>1. code \in 10 .. 15
    BY <1>2
  <2> QED BY <1>1, <2>1, DisasmMisc
<1>8. disasm(w, n) = Shown(l)
  BY <1>5, <1>6, <1>7
<1> QED BY <1>8 DEF w, n
-----------------------------------------------------------------------------
\* Programs that keep off their own code.

SparesCode == Touched \cap Code(program) = {}
WordsKept == WordsOK /\ (phase = "run" => CodeOK)

LEMMA WordsInit == Init => WordsKept
<1> SUFFICES ASSUME Init PROVE WordsKept
  OBVIOUS
<1>1. lineno = 1 /\ phase = "assemble"
  BY DEF Init, AsmInit
<1>2. 1 .. lineno - 1 = {}
  BY <1>1
<1> QED BY <1>1, <1>2 DEF WordsKept, WordsOK

\* The words of an instruction are the same in a memory that differs off the code.
LEMMA CodeApart ==
  ASSUME AssemblerOK, NEW i \in DOMAIN program, IsInstruction(program[i]), NEW m, NEW n,
         \A a \in Code(program) : ByteIn(n, a) = ByteIn(m, a)
  PROVE  /\ WordIn(n, Addresses(program)[i]) = WordIn(m, Addresses(program)[i])
         /\ Long(program[i]) => WordIn(n, Addresses(program)[i] + 2) = WordIn(m, Addresses(program)[i] + 2)
<1> DEFINE addr == Addresses(program)[i]  C == Code(program)
<1>1. /\ addr \in Nat /\ {addr, addr + 1} \subseteq Place(program, i)
      /\ Long(program[i]) => {addr + 2, addr + 3} \subseteq Place(program, i)
  BY InstructionPlace
<1>2. Place(program, i) \subseteq C
  BY DEF Place, Code
<1> HIDE DEF addr, C
<1>3. (addr + 2) + 1 = addr + 3
  BY <1>1
<1>4. \A a \in C : ByteIn(n, a) = ByteIn(m, a)
  BY DEF C
<1>5. WordIn(n, addr) = WordIn(m, addr)
  BY <1>1, <1>2, <1>4 DEF WordIn
<1>6. Long(program[i]) => WordIn(n, addr + 2) = WordIn(m, addr + 2)
  BY <1>1, <1>2, <1>3, <1>4 DEF WordIn
<1> QED BY <1>5, <1>6 DEF addr

LEMMA WordsStep ==
  ASSUME AssemblerOK, Safe, SymbolsOK, OperandsOK, WordsKept, phase = "run" => SparesCode, [Next]_vars
  PROVE  WordsKept'
<1>1. CASE Assemble
  <2>1. do_line /\ phase' = "assemble"
    BY <1>1 DEF Assemble
  <2>2. WordsOK'
    BY <2>1, WordsLine DEF WordsKept
  <2> QED BY <2>1, <2>2 DEF WordsKept
<1>2. UNCHANGED asm => WordsOK'
  BY DEF asm, WordsKept, WordsOK
<1>3. CASE Load_
  <2>1. UNCHANGED asm
    BY <1>3 DEF Load_
  <2>2. phase' = "run" => CodeOK'
    BY <1>3, LoadedCode DEF WordsKept
  <2> QED BY <1>2, <2>1, <2>2 DEF WordsKept
<1>4. CASE Execute
  <2>1. emulate /\ phase = "run" /\ UNCHANGED asm /\ program' = program
    BY <1>4 DEF Execute, asm
  <2>2. \A a \in Code(program) : ByteIn(memory', a) = ByteIn(memory, a)
    BY <2>1, Elsewhere DEF Safe, SparesCode
  <2> DEFINE m == memory  n == memory'
  <2>3. \A a \in Code(program) : ByteIn(n, a) = ByteIn(m, a)
    BY <2>2
  <2> HIDE DEF m, n
  <2>4. \A i \in DOMAIN program : IsInstruction(program[i]) =>
          /\ WordIn(n, Addresses(program)[i]) = WordIn(m, Addresses(program)[i])
          /\ Long(program[i]) => WordIn(n, Addresses(program)[i] + 2) = WordIn(m, Addresses(program)[i] + 2)
    BY <2>3, CodeApart
  <2>5. CodeOK'
    BY <2>1, <2>4 DEF CodeOK, WordsKept, m, n
  <2> QED BY <1>2, <2>1, <2>5 DEF WordsKept
<1>5. CASE HaltRun
  <2>1. UNCHANGED asm /\ phase' = "halted"
    BY <1>5 DEF HaltRun
  <2> QED BY <1>2, <2>1 DEF WordsKept
<1>6. CASE Terminated \/ UNCHANGED vars
  <2>1. UNCHANGED <<asm, program, memory, phase>>
    BY <1>6 DEF Terminated, vars, asm, cpu
  <2> QED BY <1>2, <2>1 DEF WordsKept, CodeOK
<1> QED BY <1>1, <1>3, <1>4, <1>5, <1>6 DEF Next

LEMMA Shows ==
  ASSUME NEW l, Accepted(l), IsInstruction(l), NEW next, Long(l) => next = Operand(program, l)
  PROVE  disasm(insn_word(l), next) = Shown(l)
<1>1. l.op \in Mnemonics /\ l.rel \in BOOLEAN
  BY OperationType, Fields
<1>2. CASE Misread(l)
  <2>1. l.op \in {"PUSH", "POP", "IN", "OUT"} \/ (l.op = "JMP" /\ l.rel) \/ (l.op = "CALL" /\ l.rel)
    BY <1>2 DEF Misread
  <2> QED BY <2>1, ShowsFar, ShowsFarCall, ShowsRegister
<1>3. CASE ~Misread(l)
  <2>1. \/ l.op \in {"SET", "MOVE", "ALU"} \/ l.op \in {"LOAD", "STORE"} \/ l.op \in {"RET", "HALT"}
        \/ l.op \in {"JMP", "CALL"} /\ ~l.rel
    BY <1>1, <1>3 DEF Mnemonics, Misread
  <2>2. disasm(insn_word(l), next) = Printed(l)
    BY <2>1, ShowsSet, ShowsAccess, ShowsMove, ShowsAlu, ShowsJump, ShowsCall, ShowsMisc
  <2> QED BY <1>3, <2>2 DEF Shown
<1> QED BY <1>2, <1>3

LEMMA TraceStep ==
  ASSUME AssemblerOK, Safe, WordsKept, [Next]_vars
  PROVE  [phase = "run" =>
            LET i == LineAt(program, PC) IN i = 0 \/ shown' = Shown(program[i])]_vars
<1> SUFFICES ASSUME phase = "run", Next, LineAt(program, PC) # 0
             PROVE  shown' = Shown(program[LineAt(program, PC)])
  OBVIOUS
<1> DEFINE i == LineAt(program, PC)  l == program[i]
<1>1. shown' = disasm(insn, operand)
  BY DEF Next, Assemble, Load_, Execute, HaltRun, Terminated, Ended
<1>2. i \in DOMAIN program /\ IsInstruction(l) /\ Addresses(program)[i] = PC
  BY DEF LineAt
<1> HIDE DEF i
<1>3. insn = insn_word(l) /\ (Long(l) => WordIn(memory, PC + 2) = Operand(program, l))
  BY <1>2 DEF WordsKept, CodeOK, insn, load2
<1>4. Long(l) => operand = Operand(program, l)
  <2> SUFFICES ASSUME Long(l) PROVE operand = Operand(program, l)
    OBVIOUS
  <2>1. PC \in Nat /\ PC + 3 \in Words
    BY <1>2, InstructionPlace, SMTT(30) DEF Safe, MachineOK, Words
  <2>2. Wrap(PC + 2) = PC + 2
    BY <2>1 DEF Wrap, Words
  <2> QED BY <1>3, <2>2 DEF operand, load2
<1>5. Accepted(l)
  BY <1>2 DEF AssemblerOK, Program
<1> HIDE DEF l
<1>7. disasm(insn_word(l), operand) = Shown(l)
  BY <1>2, <1>4, <1>5, Shows DEF l
<1> QED BY <1>1, <1>3, <1>7 DEF l, i

LEMMA WordsAlways ==
  Spec /\ [](phase = "run" => SparesCode) => [](AssemblerOK /\ Safe /\ WordsKept)
<1> DEFINE H == phase = "run" => SparesCode
<1>1. Init => AssemblerOK /\ Safe /\ SymbolsOK /\ OperandsOK /\ WordsKept
  BY AssemblerInit, SafeInit, SymbolsInit, WordsInit
<1>2. AssemblerOK /\ Safe /\ SymbolsOK /\ OperandsOK /\ WordsKept /\ H /\ [Next]_vars
        => (AssemblerOK /\ Safe /\ SymbolsOK /\ OperandsOK /\ WordsKept)'
  BY AssemblerStep, SafeStep, SymbolsStep, WordsStep
<1> HIDE DEF H
<1>3. Spec /\ []H => [](AssemblerOK /\ Safe /\ WordsKept)
  BY <1>1, <1>2, PTL DEF Spec
<1> QED BY <1>3 DEF H

\* A program that does not store to its own code runs as it was assembled: each
\* instruction, when PC is at it, is the word of its line, with the operand's
\* value behind it.
CodeStands == phase = "run" => CodeOK
THEOREM CodeStaysAssembled == Spec /\ [](phase = "run" => SparesCode) => []CodeStands
<1>1. WordsKept => CodeStands
  BY DEF WordsKept, CodeStands
<1> QED BY <1>1, WordsAlways, PTL

\* Of such a program the trace shows every line, in the order they are carried
\* out, as it was written, operand included; only PUSH, POP, IN, OUT, JMP * and
\* CALL * are shown with R0 for their register.
THEOREM TraceIsListing == Spec /\ [](phase = "run" => SparesCode) => TraceShowsProgram
<1> DEFINE H == phase = "run" => SparesCode
<1>1. AssemblerOK /\ Safe /\ WordsKept /\ [Next]_vars =>
        [phase = "run" =>
            LET i == LineAt(program, PC) IN i = 0 \/ shown' = Shown(program[i])]_vars
  BY TraceStep
<1> QED BY <1>1, WordsAlways, PTL DEF Spec, TraceShowsProgram
=============================================================================
