------------------------------- MODULE Tokenizer -------------------------------
(***************************************************************************)
(* split and parse of the shell (parser.c): from the characters of a line  *)
(* to its tokens, within the caller's argv of argc_max pointers and its    *)
(* buffer of buf_len bytes.  A character is a string of length one.        *)
(***************************************************************************)
EXTENDS Naturals, Sequences

Nul == ""         \* the zero that stands for no character, and for no quote
Space == " "      \* whatever isspace holds for
DoubleQuote == "\""
Quotes == {DoubleQuote, "'"}
Angles == {"<", ">"}

\* c2 after c1 (Nul at the start) and inside quote, the open quote or Nul: does
\* it start a new word, is it stored, and which quote is open after it?
split(c1, c2, quote) ==
  LET result(new, save, open) == [new |-> new, save |-> save, quote |-> open] IN
  IF c1 = Nul THEN result(FALSE, c2 # Space, Nul)
  ELSE IF quote # Nul THEN
    IF c2 = quote THEN result(TRUE, FALSE, Nul) ELSE result(FALSE, TRUE, quote)
  ELSE IF c2 \in Quotes THEN result(c1 # Space, FALSE, c2)
  ELSE IF c2 = "|"      THEN result(c1 # Space, TRUE, Nul)
  ELSE IF c1 = "|"      THEN result(TRUE, c2 # Space, Nul)
  ELSE IF c2 = Space    THEN result(c1 \notin Quotes \cup {Space}, FALSE, Nul)
  ELSE IF c2 \in Angles THEN result(c1 # Space, TRUE, Nul)
  ELSE IF c1 \in Angles THEN result(TRUE, c2 # Space, Nul)
  ELSE result(FALSE, TRUE, Nul)

\* The state of parse's loop: argv is the finished words, word the one argv[i]
\* points at, ptr the number of bytes written to buf.
Start == [prev |-> Nul, quote |-> Nul, argv |-> <<>>, word |-> <<>>, ptr |-> 0]

Read(s, c) ==
  LET val == split(s.prev, c, s.quote) IN
  [ prev  |-> c,
    quote |-> val.quote,
    argv  |-> IF val.new THEN Append(s.argv, s.word) ELSE s.argv,
    word  |-> (IF val.new THEN <<>> ELSE s.word) \o (IF val.save THEN <<c>> ELSE <<>>),
    ptr   |-> s.ptr + (IF val.new THEN 1 ELSE 0) + (IF val.save THEN 1 ELSE 0) ]

\* The loop ends early when the buffer or argv is full.  (Slip: argv is not
\* looked at.)
Full_Buffer(s, argc_max, buf_len) == s.ptr > buf_len - 2
Full(s, argc_max, buf_len) == s.ptr > buf_len - 2 \/ Len(s.argv) >= argc_max - 1

\* The states of the loop, and the one it ends in.
LoopStates(line, argc_max, buf_len) ==
  LET state[n \in 0 .. Len(line)] ==
        IF n = 0 THEN Start
        ELSE LET s == state[n - 1] IN
             IF Full(s, argc_max, buf_len) THEN s ELSE Read(s, line[n])
  IN state
Loop(line, argc_max, buf_len) == LoopStates(line, argc_max, buf_len)[Len(line)]

\* The last word is closed.  (Slip: it is not.)
Closed_Open(s) == s
Closed(s) ==
  IF s.word = <<>> THEN s ELSE [s EXCEPT !.argv = Append(@, s.word), !.ptr = @ + 1]

parse(line, argc_max, buf_len) == Closed(Loop(line, argc_max, buf_len))

\* A word as the string it is.
Text(word) ==
  LET prefix[n \in 0 .. Len(word)] == IF n = 0 THEN "" ELSE prefix[n - 1] \o word[n]
  IN prefix[Len(word)]

================================================================================
