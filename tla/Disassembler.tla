----------------------------- MODULE Disassembler -----------------------------
(***************************************************************************)
(* disasm() of the 16-bit computer (disasm.c): what it prints of an        *)
(* instruction and the word behind it, as the fields of a line of assembly *)
(* language.  Fields that are not printed are those of Blank.              *)
(***************************************************************************)
EXTENDS Listing

Blank == [op |-> NoName, sub |-> NoName, byte |-> FALSE, rel |-> FALSE,
          a |-> 0, b |-> 0, c |-> 0, num |-> 0]

\* (Slip: two suffixes swapped.)
jmp_suff_Swapped == <<NoName, "_Z", "_NZ", "_GT", "_LT", "_LE", "_GE", "_*ILLEGAL*">>
jmp_suff == <<NoName, "_Z", "_NZ", "_LT", "_GT", "_LE", "_GE", "_*ILLEGAL*">>
alu_name == <<"ADD", "SUB", "AND", "OR", "XOR", "RSHIFT", "CMP", "TEST">>
misc_name == <<"RET", "PUSH", "POP", "IN", "OUT", "HALT">>

\* The register of an instruction that has one only is printed from the bits
\* of rc, though it is encoded in those of ra.
disasm(insn, next) ==
  LET opcode == insn \div 4096
      op == (insn \div 512) % 8
      rc == (insn \div 64) % 8
      rb == (insn \div 8) % 8
      ra == insn % 8
      indir == (insn \div 2048) % 2 = 1
      byte == (insn \div 1024) % 2 = 1
  IN CASE opcode = 1 -> [Blank EXCEPT !.op = "SET", !.a = ra, !.num = next]
       [] opcode \in {2, 3} ->
            [Blank EXCEPT !.op = IF opcode = 2 THEN "LOAD" ELSE "STORE", !.byte = byte,
                          !.rel = indir, !.a = ra, !.b = IF indir THEN rb ELSE 0,
                          !.num = IF indir THEN 0 ELSE next]
       [] opcode = 4 -> [Blank EXCEPT !.op = "MOVE", !.a = insn % 16, !.b = (insn \div 16) % 16]
       [] opcode = 5 ->
            [Blank EXCEPT !.op = "ALU", !.sub = alu_name[op + 1], !.a = ra,
                          !.b = IF op = 7 THEN 0 ELSE rb,
                          !.c = IF op \in {6, 7} THEN 0 ELSE rc]
       [] opcode = 6 -> [Blank EXCEPT !.op = "JMP", !.sub = jmp_suff[op + 1], !.num = next]
       [] opcode = 7 ->
            [Blank EXCEPT !.op = "JMP", !.sub = jmp_suff[op + 1], !.rel = TRUE, !.a = rc]
       [] opcode = 8 -> [Blank EXCEPT !.op = "CALL", !.num = next]
       [] opcode = 9 -> [Blank EXCEPT !.op = "CALL", !.rel = TRUE, !.a = rc]
       [] opcode \in 10 .. 15 ->
            [Blank EXCEPT !.op = misc_name[opcode - 9],
                          !.a = IF opcode \in {10, 15} THEN 0 ELSE rc]
       [] OTHER -> Blank   \* nothing is written to the caller's buffer

==============================================================================
