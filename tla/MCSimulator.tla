------------------------------ MODULE MCSimulator ------------------------------
(***************************************************************************)
(* Simulator for TLC: families of short programs that between them use     *)
(* each instruction in each of its forms, at the edges of words and memory.*)
(***************************************************************************)
EXTENDS Simulator

Line(name) == [label |-> NoName, op |-> name, sub |-> NoName, byte |-> FALSE, rel |-> FALSE,
             a |-> 0, b |-> 0, c |-> 0, sym |-> NoName, num |-> 0, chars |-> <<>>]
At(label, l) == [l EXCEPT !.label = label]
With(name, n) == [Line(name) EXCEPT !.num = n]
OnReg(name, r) == [Line(name) EXCEPT !.a = r]
Set(r, n) == [OnReg("SET", r) EXCEPT !.num = n]
SetTo(r, sym) == [OnReg("SET", r) EXCEPT !.sym = sym]
Jump(sub, sym) == [Line("JMP") EXCEPT !.sub = sub, !.sym = sym]
JumpReg(sub, r) == [OnReg("JMP", r) EXCEPT !.sub = sub, !.rel = TRUE]
Alu(sub, a, b, c) == [Line("ALU") EXCEPT !.sub = sub, !.a = a, !.b = b, !.c = c]
Move(a, b) == [Line("MOVE") EXCEPT !.a = a, !.b = b]
Access(name, byte, r, sym, n) == [OnReg(name, r) EXCEPT !.byte = byte, !.sym = sym, !.num = n]
AccessReg(name, byte, r, b) == [OnReg(name, r) EXCEPT !.byte = byte, !.rel = TRUE, !.b = b]
HALT == Line("HALT")

\* An operation on the words x and y, and a jump that its result takes or not.
Edges == {0, 1, 32767, 32768, 65535}
Operations ==
  {<<Alu(f, 1, 2, 1), x, y>> : f \in {"ADD", "SUB", "AND", "OR", "XOR"}, x \in Edges, y \in Edges}
    \cup {<<Alu("CMP", 1, 2, 0), x, y>> : x \in Edges, y \in Edges}
    \cup {<<Alu("RSHIFT", 1, 2, 3), x, y>> : x \in Edges, y \in {0, 1, 15, 16, 31, 32}}
    \cup {<<Alu("TEST", 1, 0, 0), x, 0>> : x \in Edges}
Branch(o, jump) ==
  <<Set(1, o[2]), Set(2, o[3]), SetTo(6, "end"), o[1], jump, Set(4, 1), At("end", HALT)>>
Branches ==
  {Branch(o, Jump(sub, "end")) : o \in Operations, sub \in {"_LT", "_LE"}}
    \cup {Branch(o, j) : o \in {<<Alu("CMP", 1, 2, 0), x, y>> : x \in {0, 1}, y \in {0, 1}},
                         j \in {Jump(sub, "end") : sub \in Range(jmp_code)}
                                 \cup {JumpReg(sub, 6) : sub \in Range(jmp_code)}}

\* A word or byte stored and read again, by constant address, label or register;
\* at 65535 a word, and a byte stored by a constant, is partly or all behind the
\* memory.
Accesses(name, r, addr) ==
  {Access(name, FALSE, r, NoName, addr), AccessReg(name, FALSE, r, 2), AccessReg(name, TRUE, r, 2)}
    \cup (IF addr = 256 THEN {Access(name, FALSE, r, "cell", 0)} ELSE {})
    \cup {Access(name, TRUE, r, NoName, addr)}
Reads(addr, stores, loads) ==
  {<<Set(1, 65408), Set(2, addr), s, l, HALT, With("ADDR", 256),
     At("cell", With("WORDS", 4660)), With("BYTES", 7)>> : s \in stores, l \in loads}
Memories ==
  UNION {Reads(addr, Accesses("STORE", 1, addr), Accesses("LOAD", 3, addr)) :
           addr \in {256, 65534, 65535}}

\* A call with a frame of its own between a push and its pop.
Calls ==
  {<<Set(1, 513), SetTo(6, "sub"), OnReg("PUSH", 1), call, OnReg("POP", 2), Move(8, 5), HALT,
     At("sub", Move(8, 7)), OnReg("PUSH", 6), again, Move(7, 8), Move(1, 3), Line("RET"),
     At("leaf", OnReg("PUSH", 7)), OnReg("POP", 4), Line("RET")>> :
     call \in {[Line("CALL") EXCEPT !.sym = "sub"], [OnReg("CALL", 6) EXCEPT !.rel = TRUE]},
     again \in {OnReg("PUSH", 1), [Line("CALL") EXCEPT !.sym = "leaf"]}}

\* hello.asm; a copy of the input; the end of memory run over; no such label.
Hello ==
  <<SetTo(0, "hello_str"), At("loop", AccessReg("LOAD", TRUE, 1, 0)), Alu("TEST", 1, 0, 0),
    Jump("_Z", "done"), OnReg("OUT", 1), Set(2, 1), Alu("ADD", 0, 2, 0), Jump(NoName, "loop"),
    At("done", HALT), With("ADDR", 256), With("BYTES", 9), With("ALIGN", 2), With("ALIGN", 2),
    At("hello_str", Line(NoName)), [Line("STRING") EXCEPT !.chars = <<72, 105>>]>>
Copy ==
  <<At("loop", OnReg("IN", 1)), Alu("TEST", 1, 0, 0), Jump("_LT", "end"), OnReg("OUT", 1),
    Jump(NoName, "loop"), At("end", HALT)>>
Around ==
  <<Jump("_Z", "end"), Jump(NoName, "last"), At("end", HALT),
    With("ADDR", 65534), At("last", Alu("TEST", 0, 0, 0))>>
Nowhere == <<Jump(NoName, "nowhere"), HALT>>

Run(p, typed) == [program |-> p, input |-> typed]
MachineSessions ==
  {Run(p, <<>>) : p \in Branches \cup Memories \cup Calls \cup {Hello, Around, Nowhere}}
    \cup {Run(Copy, typed) : typed \in {<<>>, <<72>>, <<0, 255>>}}
MachineData == 256 .. 260 \cup {65534, 65535, 65536}

================================================================================
