------------------------------- MODULE Emulator -------------------------------
(***************************************************************************)
(* emulate() of the 16-bit computer (emulate.c): one instruction, decoded  *)
(* from the bytes at PC.  The registers, PC and SP are words, so what is   *)
(* added to them wraps; an address one behind a word's wraps only if the C *)
(* code keeps it in a word, and addr + 1 it does not: the second byte of   *)
(* the word at the last address is the byte behind the memory, an unused   *)
(* global of the program.  Input and output are the two ends of the        *)
(* terminal.                                                               *)
(***************************************************************************)
EXTENDS Integers, Sequences

VARIABLES
  memory,         \* the bytes that were written; every other one is 0
  R, PC, SP,      \* the registers
  Z, N,           \* the flags: TRUE for 1
  input, output   \* the characters not yet read, and those written

cpu == <<memory, R, PC, SP, Z, N, input, output>>
flags == <<Z, N>>
terminal == <<input, output>>

\* (Slip: kept in an int.)
Wrap_Int(n) == n
Wrap(n) == n % 65536

ByteIn(bytes, addr) == IF addr \in DOMAIN bytes THEN bytes[addr] ELSE 0
WordIn(bytes, addr) == ByteIn(bytes, addr) + 256 * ByteIn(bytes, addr + 1)
Put(byte, addr, bytes) ==
  [a \in DOMAIN bytes \cup {addr} |-> IF a = addr THEN byte ELSE bytes[a]]
\* (Slip: as STORE.B to a constant address has it.)
Stored_Behind(byte, addr) == Put(byte, addr + 1, memory)
Stored(byte, addr) == Put(byte, addr, memory)

load2(addr) == WordIn(memory, addr)
store2(data, addr) == Put(data % 256, addr, Put(data \div 256, addr + 1, memory))

insn == load2(PC)
opcode == insn \div 4096
op == (insn \div 512) % 8
rc == (insn \div 64) % 8
rb == (insn \div 8) % 8
ra == insn % 8
is_indirect == (insn \div 2048) % 2 = 1
is_byte == (insn \div 1024) % 2 = 1
operand == load2(Wrap(PC + 2))

Skip(bytes) == PC' = Wrap(PC + bytes)

SET ==
  /\ opcode = 1
  /\ R' = [R EXCEPT ![ra] = operand]
  /\ Skip(4)
  /\ UNCHANGED <<memory, SP, flags, terminal>>

LOAD ==
  /\ opcode = 2
  /\ LET from == IF is_indirect THEN R[rb] ELSE operand IN
     R' = [R EXCEPT ![ra] = IF is_byte THEN ByteIn(memory, from) ELSE load2(from)]
  /\ Skip(IF is_indirect THEN 2 ELSE 4)
  /\ UNCHANGED <<memory, SP, flags, terminal>>

\* Any form but the three tested for is taken for a word to the address in a
\* register.  A byte for a constant address goes to the address behind it.
stored ==
  LET form == insn \div 256 IN
  CASE form = 48 -> store2(R[ra], operand)
    [] form = 52 -> Stored(R[ra] % 256, operand + 1)
    [] form = 60 -> Stored(R[ra] % 256, R[rb])
    [] OTHER     -> store2(R[ra], R[rb])

STORE ==
  /\ opcode = 3
  /\ memory' = stored
  /\ Skip(IF insn \div 256 \in {48, 52} THEN 4 ELSE 2)
  /\ UNCHANGED <<R, SP, flags, terminal>>

\* The assembler knows registers up to 8, SP.  R[s] for others is what struct cpu
\* has behind the array: PC, SP, and four bytes for each flag.  From SP to SP
\* reads R[8].  (A flag half overwritten, d above 9, is left out: only data
\* carried out as instructions has such registers.)
beyond(s) ==
  CASE s = 8 -> PC
    [] s = 9 -> SP
    [] (s = 10 /\ Z) \/ (s = 12 /\ N) -> 1
    [] OTHER -> 0
MOVE ==
  /\ opcode = 4
  /\ LET s == insn % 16
         d == (insn \div 16) % 16
         moved == IF s < 8 THEN R[s] ELSE IF s = 8 /\ d # 8 THEN SP ELSE beyond(s)
     IN IF d \in {8, 9} THEN SP' = moved /\ UNCHANGED R
        ELSE R' = [R EXCEPT ![d] = moved] /\ UNCHANGED SP
  /\ Skip(2)
  /\ UNCHANGED <<memory, flags, terminal>>

\* x & y half by half, down to a bit; what it tells of x | y and x ^ y.
And1(x, y) == IF x = 1 /\ y = 1 THEN 1 ELSE 0
And2(x, y) == And1(x % 2, y % 2) + 2 * And1(x \div 2, y \div 2)
And4(x, y) == And2(x % 4, y % 4) + 4 * And2(x \div 4, y \div 4)
And8(x, y) == And4(x % 16, y % 16) + 16 * And4(x \div 16, y \div 16)
And(x, y) == And8(x % 256, y % 256) + 256 * And8(x \div 256, y \div 256)
Or(x, y) == x + y - And(x, y)
Xor(x, y) == x + y - 2 * And(x, y)

\* C leaves a shift by 32 or more open: the processor takes the count modulo
\* 32, a compiler that knows the count may take 0.
RightShift(x, n) ==
  LET shifted[k \in 0 .. n] == IF k = 0 THEN x ELSE shifted[k - 1] \div 2 IN shifted[n]
Shifted(x, n) == IF n < 32 THEN {RightShift(x, n)} ELSE {RightShift(x, n % 32), 0}

results ==
  LET x == R[ra]
      y == R[rb]
  IN CASE op = 0      -> {Wrap(x + y)}
       [] op \in {1, 6} -> {Wrap(x - y)}
       [] op = 2      -> {And(x, y)}
       [] op = 3      -> {Or(x, y)}
       [] op = 4      -> {Xor(x, y)}
       [] op = 5      -> Shifted(x, y)
       [] op = 7      -> {x}

\* CMP and TEST, 6 and 7, set the flags only.
ALU ==
  /\ opcode = 5
  /\ \E res \in results :
       /\ R' = IF op \in {6, 7} THEN R ELSE [R EXCEPT ![rc] = res]
       /\ Z' = (res = 0)
       /\ N' = (res >= 32768)
  /\ Skip(2)
  /\ UNCHANGED <<memory, SP, terminal>>

taken ==
  CASE op = 0 -> TRUE
    [] op = 1 -> Z
    [] op = 2 -> ~Z
    [] op = 3 -> N
    [] op = 4 -> ~N /\ ~Z
    [] op = 5 -> N \/ Z
    [] op = 6 -> ~N

JMP ==
  /\ opcode \in {6, 7} /\ op < 7
  /\ IF taken THEN PC' = IF opcode = 6 THEN operand ELSE R[ra]
              ELSE Skip(IF opcode = 6 THEN 4 ELSE 2)
  /\ UNCHANGED <<memory, R, SP, flags, terminal>>

\* Slip: every call is four bytes long.
return_to_Long == Wrap(PC + 4)
return_to == Wrap(PC + IF opcode = 8 THEN 4 ELSE 2)

\* The target is read after the return address was stored.
CALL ==
  /\ opcode \in {8, 9}
  /\ SP' = Wrap(SP - 2)
  /\ memory' = store2(return_to, SP')
  /\ PC' = IF opcode = 8 THEN WordIn(memory', Wrap(PC + 2)) ELSE R[ra]
  /\ UNCHANGED <<R, flags, terminal>>

RET ==
  /\ opcode = 10
  /\ PC' = load2(SP)
  /\ SP' = Wrap(SP + 2)
  /\ UNCHANGED <<memory, R, flags, terminal>>

PUSH ==
  /\ opcode = 11
  /\ SP' = Wrap(SP - 2)
  /\ memory' = store2(R[ra], SP')
  /\ Skip(2)
  /\ UNCHANGED <<R, flags, terminal>>

POP ==
  /\ opcode = 12
  /\ R' = [R EXCEPT ![ra] = load2(SP)]
  /\ SP' = Wrap(SP + 2)
  /\ Skip(2)
  /\ UNCHANGED <<memory, flags, terminal>>

\* At the end of the input fgetc returns -1.
IN_ ==
  /\ opcode = 13
  /\ IF input = <<>> THEN R' = [R EXCEPT ![ra] = 65535] /\ UNCHANGED input
     ELSE R' = [R EXCEPT ![ra] = Head(input)] /\ input' = Tail(input)
  /\ Skip(2)
  /\ UNCHANGED <<memory, SP, flags, output>>

OUT ==
  /\ opcode = 14
  /\ output' = Append(output, R[ra] % 256)
  /\ Skip(2)
  /\ UNCHANGED <<memory, R, SP, flags, input>>

\* emulate returns 0 after each of these, and 1, with nothing changed, where
\* halts holds.
emulate ==
  SET \/ LOAD \/ STORE \/ MOVE \/ ALU \/ JMP \/ CALL \/ RET \/ PUSH \/ POP \/ IN_ \/ OUT
halts == opcode \in {0, 15} \/ (opcode \in {6, 7} /\ op = 7)

==============================================================================
