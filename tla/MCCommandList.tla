---------------------------- MODULE MCCommandList ----------------------------
(***************************************************************************)
(* From the characters of a line over its tokens to its commands, for TLC: *)
(* the lines of every short pipeline, written down in several ways from    *)
(* its stages, every short line of characters, and every short list of     *)
(* tokens.                                                                 *)
(***************************************************************************)
EXTENDS CommandList, Tokenizer, SequencesExt

CONSTANTS Words,       \* the words of arbitrary lists of tokens
          Characters,  \* of arbitrary lines
          MaxTokens,   \* bound: the length of an arbitrary list of tokens
          MaxLine,     \* bound: the length of an arbitrary line
          Limits,      \* argc_max and buf_len for arbitrary lines
          MaxStages    \* bound: the stages of a pipeline

\* parse's callers give it room for a word and the closing NULL, and for a
\* character and its zero.
ASSUME LimitsOK == Limits \subseteq [argc_max : Nat \ {0, 1}, buf_len : Nat \ {0, 1}]

\* A stage of a pipeline: its words, then its redirections.
Quoting == "a|'"     \* the word that single quotes cannot hold
Arguments == {"b", Quoting, "> a"}
Stage == [ words  : {<<"a">>} \cup {<<"a", w>> : w \in Arguments},
           redirs : UNION {[1 .. n -> [op : Redirections, file : {"b", "a b"}]] : n \in 0 .. 2} ]
Pipelines == UNION {[1 .. n -> Stage] : n \in 1 .. MaxStages}

\* How a pipeline is written: spaces around the operators or not, and which
\* quotes around the words that need them.
Style == [pad : {<<>>, <<Space>>}, quote : Quotes]
Spelled == [w \in Arguments \cup {"a", "a b"} |->
             IF w = "> a" THEN <<">", Space, "a">>
             ELSE IF w = "a b" THEN <<"a", Space, "b">>
             ELSE IF w = Quoting THEN <<"a", "|", "'">> ELSE <<w>>]
Quoted(w, style) ==
  LET quote == IF w = Quoting THEN DoubleQuote ELSE style.quote IN
  IF Len(Spelled[w]) = 1 THEN Spelled[w] ELSE <<quote>> \o Spelled[w] \o <<quote>>
Written(stage, style) ==
  FlattenSeq([i \in DOMAIN stage.words |->
                (IF i = 1 THEN <<>> ELSE <<Space>>) \o Quoted(stage.words[i], style)])
    \o FlattenSeq([k \in DOMAIN stage.redirs |->
                     <<Space, stage.redirs[k].op>> \o style.pad \o Quoted(stage.redirs[k].file, style)])
Ends(l) == IF Last(l) \in Quotes THEN <<Space>> ELSE <<>>
Line(stages, style) ==
  FlattenSeq([k \in DOMAIN stages |->
                (IF k = 1 THEN <<>>
                 ELSE Ends(Written(stages[k - 1], style)) \o style.pad \o <<"|">> \o style.pad)
                  \o Written(stages[k], style)])
LastFile(stage, op) ==
  LET files == SelectSeq(stage.redirs, LAMBDA r : r.op = op) IN
  IF files = <<>> THEN NULL ELSE Last(files).file
Meaning(stage) ==
  [ args |-> stage.words, command |-> Head(stage.words),
    input |-> LastFile(stage, "<"), output |-> LastFile(stage, ">"),
    redirects |-> stage.redirs # <<>>, and |-> FALSE ]

VARIABLES line,      \* characters
          limits,    \* argc_max and buf_len
          parsed,    \* what parse leaves
          tokens, list, pipeline,
          phase      \* "line", "tokens" or "list"
vars == <<line, limits, parsed, tokens, list, pipeline, phase>>

None == <<>>
KindsOfCharacters == {"a", Space, "|", ">"} \cup Quotes
TightLimits == {[argc_max |-> 4, buf_len |-> 8], [argc_max |-> 8, buf_len |-> 6]}
Roomy == [argc_max |-> 32, buf_len |-> 1024]

InitLine ==
  /\ \/ /\ pipeline \in Pipelines
        /\ \E style \in Style : line = Line(pipeline, style)
        /\ limits = Roomy
     \/ /\ pipeline = None
        /\ line \in UNION {[1 .. n -> Characters] : n \in 0 .. MaxLine}
        /\ limits \in Limits
  /\ tokens = None
  /\ phase = "line"

InitTokens ==
  /\ pipeline = None /\ line = None /\ limits = Roomy
  /\ tokens \in UNION {[1 .. n -> Words \cup Operators] : n \in 0 .. MaxTokens}
  /\ phase = "tokens"

Init == (InitLine \/ InitTokens) /\ parsed = Start /\ list = None

Tokenize ==
  /\ phase = "line"
  /\ parsed' = parse(line, limits.argc_max, limits.buf_len)
  /\ tokens' = [i \in DOMAIN parsed'.argv |-> Text(parsed'.argv[i])]
  /\ phase' = "tokens"
  /\ UNCHANGED <<line, limits, list, pipeline>>

Build ==
  /\ phase = "tokens"
  /\ list' = buildCommandList(tokens)
  /\ phase' = "list"
  /\ UNCHANGED <<line, limits, parsed, tokens, pipeline>>

Next == Tokenize \/ Build
Spec == Init /\ [][Next]_vars

\* Token k names the file of a redirection: the token before it is one, and is
\* not itself such a name.
IsName(k) ==
  LET name[j \in 0 .. k] == j > 1 /\ tokens[j - 1] \in Redirections /\ ~name[j - 1]
  IN name[k]


\* The tokens that are neither operators nor names of files.
PlainTokens ==
  LET plain[n \in 0 .. Len(tokens)] ==
        IF n = 0 THEN <<>>
        ELSE IF tokens[n] \in Operators \/ IsName(n) THEN plain[n - 1]
        ELSE Append(plain[n - 1], tokens[n])
  IN plain[Len(tokens)]

\* Whatever the line, its words reach the commands in order, none twice and
\* none dropped, but for those that name a file.
ArgumentsKept ==
  phase = "list" => FlattenSeq([k \in DOMAIN list |-> list[k].args]) = PlainTokens

\* Whatever the line and however it is quoted, the tokens hold its letters and
\* operators in the order they were typed: all of them, unless a limit was
\* reached while there was still a character to read.
Loud(s) ==
  LET loud[n \in 0 .. Len(s)] ==
        IF n = 0 THEN <<>>
        ELSE IF s[n] \in Quotes \cup {Space} THEN loud[n - 1] ELSE Append(loud[n - 1], s[n])
  IN loud[Len(s)]
CutOff ==
  LET states == LoopStates(line, limits.argc_max, limits.buf_len) IN
  line # <<>> /\ Full(states[Len(line) - 1], limits.argc_max, limits.buf_len)
CharactersKept ==
  phase = "tokens" /\ line # None =>
    LET kept == Loud(FlattenSeq(parsed.argv)) IN
    /\ IsPrefix(kept, Loud(line))
    /\ CutOff \/ kept = Loud(line)

\* parse writes at most one pointer behind argv, the closing NULL, and at most
\* one byte behind buf, the closing zero.
OneBehindAtMost ==
  phase # "line" => Len(parsed.argv) <= limits.argc_max /\ parsed.ptr <= limits.buf_len + 1

==============================================================================
