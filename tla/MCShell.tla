------------------------------- MODULE MCShell -------------------------------
(***************************************************************************)
(* Shell for TLC: what the user types.                                     *)
(***************************************************************************)
EXTENDS Shell

\* One command or two, none of them redirected by itself.
ShortLines ==
  { <<>>, <<"echo">>, <<"false">>, <<"nosuch">>, <<"echo", "&&">>,
    <<"cd", "a">>, <<"cd", "a", "b">>, <<"exit", "$?">>, <<"exit", "1", "1">>,
    <<"echo", "|", "cat">>, <<"echo", "|", "head">>, <<"echo", "|", "nosuch">>,
    <<"false", "|", "cat", ">", "f">>, <<"cat", "<", "locked", "|", "cat">>,
    <<"nosuch", "|", "false">>, <<"echo", "|", "cat", "|", "cat">> }

\* Three commands, redirected ones, and the paths of a builtin that ShortLines
\* leaves out.
LongLines ==
  { <<"echo", "|", "cat", "|", "cat">>, <<"echo", "|", "head", "|", "false">>,
    <<"cat", "<", "f", "|", "nosuch", "|", "cat">>, <<"pwd">>, <<"exit", "$?">>,
    <<"cat", "<", "f">>, <<"echo", ">", "f">>, <<"echo", ">", ">">>,
    <<"nosuch", ">", "f">>, <<"cat", "<", "foreign">>, <<"echo">> }

UnreadOutput == {<<"yes", "|", "head">>}
MissingProgram == {<<"nosuch", ">", "f">>}

\* What the theorems of ShellProofs ask of the lines.
ASSUME AllComplete == LinesComplete
ASSUME ShortArePlain == Lines = ShortLines => LinesPlain
ASSUME OthersAreShort == Lines \in {UnreadOutput, MissingProgram} => AtMostTwo

==============================================================================
