------------------------------- MODULE Assembler -------------------------------
(***************************************************************************)
(* The assembler of the 16-bit computer (asm.py): a pass over the lines    *)
(* that stores their words and notes the labels not yet known, and the     *)
(* fixups after it.  A line is one of Listing's records: the patterns that *)
(* pick its words apart are left out.                                      *)
(***************************************************************************)
EXTENDS Listing, SequencesExt

VARIABLES
  program, lineno,        \* the lines, and the next one to read
  symtab,                 \* the address of each label read so far
  current_addr, max_addr,
  image,                  \* asm.py's memory: the bytes that were stored
  fixups                  \* <<label, address>> of each operand left open

asm == <<program, lineno, symtab, current_addr, max_addr, image, fixups>>

alu_ops == <<"ADD", "SUB", "AND", "OR", "XOR", "RSHIFT", "CMP", "TEST">>
jmp_code == <<NoName, "_Z", "_NZ", "_LT", "_GT", "_LE", "_GE">>
opcodes == <<"SET", "LOAD", "STORE", "MOVE", "ALU", "JMP", "JMP *", "CALL", "CALL *",
             "RET", "PUSH", "POP", "IN", "OUT", "HALT">>
Position(names, name) == CHOOSE i \in DOMAIN names : names[i] = name

do_load_store(l) ==
  (IF l.byte THEN 1024 ELSE 0) + (IF l.rel THEN 2048 + 8 * l.b ELSE 0) + l.a
do_alu(l) == 512 * (Position(alu_ops, l.sub) - 1) + 64 * l.c + 8 * l.b + l.a
do_jmp(l) ==
  512 * (Position(jmp_code, l.sub) - 1) + IF l.rel THEN 4096 + l.a ELSE 0

\* The first word of an instruction.
insn_word(l) ==
  4096 * Position(opcodes, l.op) +
    CASE l.op \in {"LOAD", "STORE"} -> do_load_store(l)
      [] l.op = "MOVE" -> 16 * l.b + l.a
      [] l.op = "ALU"  -> do_alu(l)
      [] l.op = "JMP"  -> do_jmp(l)
      [] l.op = "CALL" -> IF l.rel THEN 4096 + l.a ELSE 0
      [] OTHER         -> l.a

two_bytes(n) == <<n % 256, n \div 256>>

\* An operand's value as far as it is known.
value(l, symbols) ==
  CASE l.sym = NoName          -> l.num
    [] l.sym \in DOMAIN symbols -> symbols[l.sym]
    [] OTHER                   -> 0

\* The bytes a line stores.
stored_bytes(l, symbols) ==
  IF ~IsInstruction(l) THEN DataBytes(l)
  ELSE two_bytes(insn_word(l)) \o IF Long(l) THEN two_bytes(value(l, symbols)) ELSE <<>>

after(l, addr, bytes) ==
  CASE l.op = "ADDR"  -> l.num
    [] l.op = "ALIGN" -> CHOOSE n \in addr .. addr + l.num - 1 : n % l.num = 0
    [] OTHER          -> addr + Len(bytes)

\* The address of an operand left open: value() is called when the first word
\* is stored.  (Slip: before.)
fixup_at_First(addr) == addr
fixup_at(addr) == addr + 2

\* Bytes stored from addr on.
Placed(bytes, addr, memory_) ==
  LET place == addr .. addr + Len(bytes) - 1 IN
  [a \in DOMAIN memory_ \cup place |-> IF a \in place THEN bytes[a - addr + 1] ELSE memory_[a]]

AsmInit ==
  /\ lineno = 1
  /\ symtab = <<>>
  /\ current_addr = 0 /\ max_addr = 0
  /\ image = <<>>
  /\ fixups = <<>>

\* The symbols once label is known, or known anew.
Known(label, addr) ==
  [sym \in DOMAIN symtab \cup {label} |-> IF sym = label THEN addr ELSE symtab[sym]]

\* One line: its label, then its pattern's function.
do_line ==
  LET l == program[lineno]
      symbols == IF l.label = NoName THEN symtab ELSE Known(l.label, current_addr)
      bytes == stored_bytes(l, symbols)
      open == IsInstruction(l) /\ Long(l) /\ l.sym # NoName /\ l.sym \notin DOMAIN symbols
  IN /\ lineno <= Len(program)
     /\ symtab' = symbols
     /\ image' = Placed(bytes, current_addr, image)
     /\ fixups' = IF open THEN Append(fixups, <<l.sym, fixup_at(current_addr)>>) ELSE fixups
     /\ current_addr' = after(l, current_addr, bytes)
     /\ max_addr' = IF current_addr' > max_addr THEN current_addr' ELSE max_addr
     /\ lineno' = lineno + 1
     /\ UNCHANGED program

\* After the last line; a label nobody defined is a KeyError.
Undefined == {i \in DOMAIN fixups : fixups[i][1] \notin DOMAIN symtab}
binary ==
  LET patched[n \in 0 .. Len(fixups)] ==
        IF n = 0 THEN image
        ELSE Placed(two_bytes(symtab[fixups[n][1]]), fixups[n][2], patched[n - 1])
  IN patched[Len(fixups)]

================================================================================
