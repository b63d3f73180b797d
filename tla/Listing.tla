-------------------------------- MODULE Listing --------------------------------
(***************************************************************************)
(* Programs in the assembly language of the 16-bit computer, and where     *)
(* their lines lie in memory.  A program is a sequence of lines, each a    *)
(* record of                                                               *)
(*   label    the name it defines, or NoName                               *)
(*   op, sub  its instruction or directive, NoName for a label alone; sub  *)
(*            is the ALU operation or the suffix of a jump                 *)
(*   byte, rel   the .B of LOAD and STORE; * reg instead of an address     *)
(*   a, b, c  registers in the order of the line, 8 for SP                 *)
(*   sym, num the operand: a label, or a number if sym is NoName           *)
(*   chars    the characters of a STRING                                   *)
(***************************************************************************)
EXTENDS Integers, Sequences

NoName == ""

\* Instructions with a second word.
Long(l) == l.op = "SET" \/ (l.op \in {"LOAD", "STORE", "JMP", "CALL"} /\ ~l.rel)

Directives == {NoName, "ADDR", "ALIGN", "WORDS", "BYTES", "STRING"}
IsInstruction(l) == l.op \notin Directives

DataBytes(l) ==
  CASE l.op = "WORDS"  -> <<l.num % 256, l.num \div 256>>
    [] l.op = "BYTES"  -> <<l.num>>
    [] l.op = "STRING" -> Append(l.chars, 0)
    [] OTHER           -> <<>>

Size(l) == IF IsInstruction(l) THEN IF Long(l) THEN 4 ELSE 2 ELSE Len(DataBytes(l))

\* The address of each line of program p, and the one after the last.
Addresses(p) ==
  LET address[i \in 1 .. Len(p) + 1] ==
        IF i = 1 THEN 0
        ELSE LET before == p[i - 1]
                 here == address[i - 1]
             IN CASE before.op = "ADDR"  -> before.num
                  [] before.op = "ALIGN" ->
                       CHOOSE n \in here .. here + before.num - 1 : n % before.num = 0
                  [] OTHER -> here + Size(before)
  IN address

\* The instruction of p that starts at addr, or 0.
LineAt(p, addr) ==
  LET starts == {i \in DOMAIN p : IsInstruction(p[i]) /\ Addresses(p)[i] = addr} IN
  IF starts = {} THEN 0 ELSE CHOOSE i \in starts : TRUE

\* The address a label of p stands for, if a line defines it.
Defines(p, sym) == {i \in DOMAIN p : p[i].label = sym}
Meaning(p, sym) ==
  IF Defines(p, sym) = {} THEN 0 ELSE Addresses(p)[CHOOSE i \in Defines(p, sym) : TRUE]
Operand(p, l) == IF l.sym = NoName THEN l.num ELSE Meaning(p, l.sym)

\* The addresses p's instructions take up.
Code(p) ==
  UNION {Addresses(p)[i] .. Addresses(p)[i] + Size(p[i]) - 1 :
           i \in {j \in DOMAIN p : IsInstruction(p[j])}}

\* The byte the directives of p put at addr, 0 if none does.
InitialByte(p, addr) ==
  LET covers(i) == addr \in Addresses(p)[i] .. Addresses(p)[i] + Len(DataBytes(p[i])) - 1
      lines == {i \in DOMAIN p : covers(i)}
  IN IF lines = {} THEN 0
     ELSE LET i == CHOOSE i \in lines : TRUE IN DataBytes(p[i])[addr - Addresses(p)[i] + 1]

================================================================================
