------------------------------- MODULE Simulator -------------------------------
(***************************************************************************)
(* The tools of the 16-bit computer together: a program is assembled       *)
(* (asm.py), and runsim -v loads the bytes and runs them (runsim.c),       *)
(* disassembling each instruction before it calls emulate.                 *)
(***************************************************************************)
EXTENDS Assembler, Emulator, Disassembler

CONSTANTS Sessions,   \* programs, each with what is typed at it
          Data        \* the addresses of their data

Words == {n \in Nat : n < 65536}
Bytes == {n \in Nat : n < 256}

\* What a pattern of asm.py has of a line, besides its operation.
Taken(l) ==
  CASE l.op = "SET" -> {"a", "num"}
    [] l.op \in {"LOAD", "STORE"} -> {"byte", "rel", "a", IF l.rel THEN "b" ELSE "num"}
    [] l.op = "MOVE" -> {"a", "b"}
    [] l.op = "ALU" -> {"sub", "a"} \cup CASE l.sub = "TEST" -> {} [] l.sub = "CMP" -> {"b"} [] OTHER -> {"b", "c"}
    [] l.op = "JMP" -> {"sub", "rel", IF l.rel THEN "a" ELSE "num"}
    [] l.op = "CALL" -> {"rel", IF l.rel THEN "a" ELSE "num"}
    [] l.op \in {"PUSH", "POP", "IN", "OUT"} -> {"a"}
    [] l.op \in Directives -> {"num"}
    [] OTHER -> {}

\* A line as a pattern of asm.py lets it through, with numbers that its word or
\* byte can hold: asm.py makes no file of others.
Accepted(l) ==
  /\ l.op \in Directives \cup (Range(opcodes) \ {"JMP *", "CALL *"})
  /\ {l.byte, l.rel} \subseteq BOOLEAN
  /\ {l.a, l.b} \subseteq (IF l.op = "MOVE" THEN 0 .. 8 ELSE 0 .. 7) /\ l.c \in 0 .. 7
  /\ l.op = "ALU" => l.sub \in Range(alu_ops)
  /\ l.op = "JMP" => l.sub \in Range(jmp_code)
  /\ l.num \in IF l.op = "BYTES" THEN Bytes ELSE Words
  /\ l.op = "ALIGN" => l.num # 0
  /\ l.chars \in Seq(Bytes)
  /\ l.sym # NoName => Long(l)
  /\ \A f \in DOMAIN Blank \ ({"op"} \cup Taken(l)) : l[f] = Blank[f]

\* The bytes a line takes up.
Place(p, i) == Addresses(p)[i] .. Addresses(p)[i] + Size(p[i]) - 1

\* asm.py fails at a line that does not lie in its array of bytes.
ASSUME ProgramsFit ==
  \A s \in Sessions :
    /\ s.input \in Seq(Bytes)
    /\ Len(s.program) \in Nat /\ DOMAIN s.program = 1 .. Len(s.program)
    /\ \A i \in DOMAIN s.program :
         Accepted(s.program[i]) /\ Addresses(s.program)[i] \in Words /\ Place(s.program, i) \subseteq Words

\* It does accept a label that is defined again, and lines that are put over
\* others.
ASSUME ProgramsClear ==
  \A s \in Sessions : \A i, j \in DOMAIN s.program :
    i # j => /\ s.program[i].label # NoName => s.program[i].label # s.program[j].label
             /\ Place(s.program, i) \cap Place(s.program, j) = {}

VARIABLES
  phase,   \* "assemble", "failed", "run", "halted" or "error"
  shown    \* what runsim printed of the last instruction

vars == <<asm, cpu, phase, shown>>

Init ==
  /\ \E s \in Sessions : program = s.program /\ input = s.input
  /\ AsmInit
  /\ memory = <<>>
  /\ R = [r \in 0 .. 7 |-> 0]
  /\ PC = 0 /\ SP = 65534
  /\ Z = FALSE /\ N = FALSE
  /\ output = <<>>
  /\ phase = "assemble"
  /\ shown = Blank

Assemble ==
  /\ phase = "assemble"
  /\ do_line
  /\ UNCHANGED <<cpu, phase, shown>>

\* The fixups, the file, and its load into a memory of zeros.
Load_ ==
  /\ phase = "assemble"
  /\ lineno > Len(program)
  /\ IF Undefined # {} THEN phase' = "failed" /\ UNCHANGED memory
     ELSE /\ phase' = "run"
          /\ memory' = [addr \in DOMAIN binary \cap 0 .. max_addr - 1 |-> binary[addr]]
  /\ UNCHANGED <<asm, R, PC, SP, flags, terminal, shown>>

\* A turn of main's loop.  old_pc is the word at PC, not PC.
old_pc == load2(PC)
Execute ==
  /\ phase = "run"
  /\ shown' = disasm(insn, operand)
  /\ emulate
  /\ phase' = IF old_pc = PC' THEN "error" ELSE "run"
  /\ UNCHANGED asm

HaltRun ==
  /\ phase = "run"
  /\ halts
  /\ phase' = "halted"
  /\ shown' = disasm(insn, operand)
  /\ UNCHANGED <<asm, cpu>>

Ended == phase \in {"failed", "halted", "error"}
Terminated == Ended /\ UNCHANGED vars

Next == Assemble \/ Load_ \/ Execute \/ HaltRun \/ Terminated

Spec == Init /\ [][Next]_vars

(***************************************************************************)
(* Properties.                                                             *)
(***************************************************************************)

\* Type invariant: registers and PC stay words, the memory's cells bytes.
TypeOK ==
  /\ R \in [0 .. 7 -> Words]
  /\ PC \in Words /\ SP \in Words
  /\ Z \in BOOLEAN /\ N \in BOOLEAN
  /\ \A addr \in DOMAIN memory : memory[addr] \in Bytes
  /\ phase \in {"assemble", "failed", "run", "halted", "error"}

\* Whatever the order of uses and definitions, in the program that is run every
\* operand that is a label holds the address of the line that defines it; the
\* assembler fails only if no line defines one.
LabelsResolved ==
  /\ phase = "run" /\ shown = Blank =>
       \A i \in DOMAIN program : program[i].sym # NoName =>
         load2(Addresses(program)[i] + 2) = Meaning(program, program[i].sym)
  /\ phase = "failed" =>
       \E i \in DOMAIN program : program[i].sym # NoName /\ Defines(program, program[i].sym) = {}

\* A word at the last address, and a byte stored to it by a constant, lie behind
\* the memory; but whatever is stored, no more than one byte of it.
AtMostOneBehind == \A addr \in DOMAIN memory : addr \in Nat /\ addr <= 65536

\* The fields of a line that a disassembler prints.
Printed(l) == [f \in DOMAIN Blank |-> IF f = "num" /\ Long(l) THEN Operand(program, l) ELSE l[f]]
\* The lines whose only register disasm takes from bits that are 0, and so prints
\* as R0.
Misread(l) == l.op \in {"PUSH", "POP", "IN", "OUT"} \/ (l.op \in {"JMP", "CALL"} /\ l.rel)
Shown(l) == IF Misread(l) THEN [Printed(l) EXCEPT !.a = 0] ELSE Printed(l)

\* The trace of runsim -v shows every source line that is carried out, in the
\* order they are, operands and labels' values included, and all of it but for
\* the register of the lines that are misread.
TraceShowsProgram ==
  [][phase = "run" =>
       LET i == LineAt(program, PC) IN i = 0 \/ shown' = Shown(program[i])]_vars

\* What there is of the abstract machine in these states.
AtLine == LineAt(program, PC)
LastSign == IF Z THEN "zero" ELSE IF N THEN "negative" ELSE "positive"
DataHeld ==
  [addr \in Data \ Code(program) |->
     IF phase \in {"assemble", "failed"} THEN InitialByte(program, addr) ELSE ByteIn(memory, addr)]
StackHeld == [i \in 1 .. (65534 - SP) \div 2 |-> load2(65534 - 2 * i)]
Stopped == phase \in {"halted", "error"}

\* Where a LOAD takes its bytes from, and a STORE puts them.
Accessed(l) ==
  LET place == IF l.rel THEN R[l.b] ELSE Operand(program, l) IN
  IF ~l.byte THEN {place, place + 1}
  ELSE {IF l.op = "STORE" /\ ~l.rel THEN place + 1 ELSE place}

\* What the lines leave to their author: to come to lines only, to keep code,
\* data and stack apart, to take from the stack what is there, and to give SP
\* earlier values only.
KeepsApart ==
  /\ AtLine # 0
  /\ (SP .. 65533) \cap (Data \cup Code(program)) = {}
  /\ LET l == program[AtLine] IN
     /\ l.op \in {"LOAD", "STORE"} => Accessed(l) \subseteq Data \ Code(program)
     /\ l.op \in {"RET", "POP"} => SP # 65534
     /\ l.op = "MOVE" /\ l.b = 8 => l.a # 8 /\ R[l.a] \in SP .. 65534 /\ R[l.a] % 2 = 0

\* The programs do, and runsim ends none of them with its error.
WellBehaved == phase # "error" /\ (phase = "run" => KeepsApart)

\* Assembled, loaded, decoded and executed, a program does what its lines say.
Machine == INSTANCE Isa WITH
  line <- AtLine, sign <- LastSign, data <- DataHeld, stack <- StackHeld, done <- Stopped
RunsProgram == Machine!Spec

================================================================================
