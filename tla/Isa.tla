---------------------------------- MODULE Isa ----------------------------------
(***************************************************************************)
(* What a program in the assembly language of the 16-bit computer means:   *)
(* its lines are carried out one after the other, as they read.  There are *)
(* no instruction words: the stack is a sequence, the flags are the sign   *)
(* of the last result, memory is the data only, and AND, OR and XOR are    *)
(* operations on the sets of bits.                                         *)
(***************************************************************************)
EXTENDS Listing, SequencesExt

CONSTANT Data   \* the addresses of data, where there is no code

VARIABLES
  program,        \* its lines
  line,           \* the one to carry out
  R, sign,        \* registers; the sign of the last result
  data, stack,    \* a byte for each address of data; words, the oldest first
  input, output,  \* characters
  done            \* the program has come to its HALT

StackTop == 65534
word(n) == n % 65536
Weight == <<1, 2, 4, 8, 16, 32, 64, 128, 256, 512, 1024, 2048, 4096, 8192, 16384, 32768>>
BitsOf(x) == {i \in 1 .. 16 : (x \div Weight[i]) % 2 = 1}
FromBits(bits) ==
  LET sum[i \in 0 .. 16] ==
        IF i = 0 THEN 0 ELSE sum[i - 1] + IF i \in bits THEN Weight[i] ELSE 0
  IN sum[16]
SignOf(x) == IF x = 0 THEN "zero" ELSE IF x < 32768 THEN "positive" ELSE "negative"

Init ==
  /\ line = LineAt(program, 0)
  /\ R = [r \in 0 .. 7 |-> 0]
  /\ sign = "positive"
  /\ data = [addr \in Data \ Code(program) |-> InitialByte(program, addr)]
  /\ stack = <<>>
  /\ output = <<>>
  /\ done = FALSE

l == program[line]
following == word(Addresses(program)[line] + Size(l))
On == line' = LineAt(program, following)
target == LineAt(program, IF l.rel THEN R[l.a] ELSE Operand(program, l))
place == IF l.rel THEN R[l.b] ELSE Operand(program, l)
sp == StackTop - 2 * Len(stack)

Set ==
  /\ l.op = "SET"
  /\ R' = [R EXCEPT ![l.a] = Operand(program, l)]
  /\ On /\ UNCHANGED <<sign, data, stack, input, output>>

Load ==
  /\ l.op = "LOAD"
  /\ R' = [R EXCEPT ![l.a] = data[place] + IF l.byte THEN 0 ELSE 256 * data[place + 1]]
  /\ On /\ UNCHANGED <<sign, data, stack, input, output>>

\* A byte for a constant address is the one after it, as test_STORE_2 of test.c
\* has it.
Store ==
  /\ l.op = "STORE"
  /\ data' = IF l.byte THEN [data EXCEPT ![IF l.rel THEN place ELSE place + 1] = R[l.a] % 256]
             ELSE [data EXCEPT ![place] = R[l.a] % 256, ![place + 1] = R[l.a] \div 256]
  /\ On /\ UNCHANGED <<R, sign, stack, input, output>>

\* Giving SP an earlier value drops what was pushed since.
Move ==
  /\ l.op = "MOVE"
  /\ LET from == IF l.a = 8 THEN sp ELSE R[l.a] IN
     IF l.b = 8 THEN stack' = SubSeq(stack, 1, (StackTop - from) \div 2) /\ UNCHANGED R
                ELSE R' = [R EXCEPT ![l.b] = from] /\ UNCHANGED stack
  /\ On /\ UNCHANGED <<sign, data, input, output>>

\* A shift by more than 31 is left open.
Results(op, x, y) ==
  CASE op = "ADD" -> {word(x + y)}
    [] op \in {"SUB", "CMP"} -> {word(x - y)}
    [] op = "AND" -> {FromBits(BitsOf(x) \cap BitsOf(y))}
    [] op = "OR"  -> {FromBits(BitsOf(x) \cup BitsOf(y))}
    [] op = "XOR" -> {FromBits(BitsOf(x) \cup BitsOf(y)) - FromBits(BitsOf(x) \cap BitsOf(y))}
    [] op = "RSHIFT" -> IF y < 16 THEN {x \div Weight[y + 1]} ELSE IF y < 32 THEN {0} ELSE 0 .. x
    [] op = "TEST" -> {x}

Compute ==
  /\ l.op = "ALU"
  /\ \E res \in Results(l.sub, R[l.a], R[l.b]) :
       /\ R' = IF l.sub \in {"CMP", "TEST"} THEN R ELSE [R EXCEPT ![l.c] = res]
       /\ sign' = SignOf(res)
  /\ On /\ UNCHANGED <<data, stack, input, output>>

Signs(sub) ==
  CASE sub = NoName -> {"negative", "zero", "positive"}
    [] sub = "_Z"  -> {"zero"}
    [] sub = "_NZ" -> {"negative", "positive"}
    [] sub = "_LT" -> {"negative"}
    [] sub = "_GT" -> {"positive"}
    [] sub = "_LE" -> {"negative", "zero"}
    [] sub = "_GE" -> {"zero", "positive"}

Jump ==
  /\ l.op = "JMP"
  /\ IF sign \in Signs(l.sub) THEN line' = target ELSE On
  /\ UNCHANGED <<R, sign, data, stack, input, output>>

Call ==
  /\ l.op = "CALL"
  /\ stack' = Append(stack, following)
  /\ line' = target
  /\ UNCHANGED <<R, sign, data, input, output>>

Return ==
  /\ l.op = "RET"
  /\ stack # <<>>
  /\ line' = LineAt(program, Last(stack))
  /\ stack' = Front(stack)
  /\ UNCHANGED <<R, sign, data, input, output>>

Push ==
  /\ l.op = "PUSH"
  /\ stack' = Append(stack, R[l.a])
  /\ On /\ UNCHANGED <<R, sign, data, input, output>>

Pop ==
  /\ l.op = "POP"
  /\ stack # <<>>
  /\ R' = [R EXCEPT ![l.a] = Last(stack)]
  /\ stack' = Front(stack)
  /\ On /\ UNCHANGED <<sign, data, input, output>>

\* At the end of the input there is all ones.
In ==
  /\ l.op = "IN"
  /\ R' = [R EXCEPT ![l.a] = IF input = <<>> THEN 65535 ELSE Head(input)]
  /\ input' = IF input = <<>> THEN <<>> ELSE Tail(input)
  /\ On /\ UNCHANGED <<sign, data, stack, output>>

Out ==
  /\ l.op = "OUT"
  /\ output' = Append(output, R[l.a] % 256)
  /\ On /\ UNCHANGED <<R, sign, data, stack, input>>

Instruction ==
  Set \/ Load \/ Store \/ Move \/ Compute \/ Jump \/ Call \/ Return \/ Push \/ Pop \/ In \/ Out

Halt ==
  /\ l.op = "HALT"
  /\ done' = TRUE
  /\ UNCHANGED <<line, R, sign, data, stack, input, output>>

Next ==
  /\ ~done /\ line # 0
  /\ (Instruction /\ UNCHANGED done) \/ Halt
  /\ UNCHANGED program

Spec == Init /\ [][Next]_<<program, line, R, sign, data, stack, input, output, done>>

================================================================================
