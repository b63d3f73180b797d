----------------------------- MODULE CommandList -----------------------------
(***************************************************************************)
(* buildCommandList of the shell (linked_list.c): from the tokens of a     *)
(* line to the list of its commands.  A token is an operator of the list   *)
(* below or a word.  The list is a sequence; a command's prev and next     *)
(* are its neighbours.                                                     *)
(***************************************************************************)
EXTENDS Naturals, Sequences

CONSTANT NULL   \* as the name of a file or of a command

Redirections == {"<", ">"}
Separators == {"|", "&&", "!"}
Operators == Redirections \cup Separators

\* The first position from i on of a token in ops, or the one after the last.
NextIn(tokens, i, ops) ==
  CHOOSE j \in i .. Len(tokens) + 1 :
    /\ j = Len(tokens) + 1 \/ tokens[j] \in ops
    /\ \A k \in i .. j - 1 : tokens[k] \notin ops

\* Where the arguments that start at i end, and the operators begin.
ArgsEnd(tokens, i) == NextIn(tokens, i, Operators)

\* Where the redirections that start at e end, each with the token after it as
\* the file's name, whatever that token is.  The last one of a line may lack
\* its name: it is the token at the end then.
PairsEnd(tokens, e) ==
  CHOOSE j \in e .. Len(tokens) + 1 :
    /\ (j - e) % 2 = 0
    /\ \A k \in e .. j - 1 : (k - e) % 2 = 0 => tokens[k] \in Redirections
    /\ j < Len(tokens) => tokens[j] \notin Redirections


\* The file of the last redirection op among the pairs from e to j - 1.
FileOf(tokens, op, e, j) ==
  LET uses == {k \in e .. j - 1 : (k - e) % 2 = 0 /\ tokens[k] = op} IN
  IF uses = {} THEN NULL
  ELSE tokens[1 + CHOOSE k \in uses : \A l \in uses : l <= k]

\* j ends the redirections at one that lacks its name, or at a separator.
Dangling(tokens, j) == j = Len(tokens) /\ tokens[j] \in Redirections
Separated(tokens, j) == j <= Len(tokens) /\ tokens[j] \in Separators

\* Where the next command starts.  (Slip: the token at j is skipped, whatever
\* it is.)
NextStart_Skips(tokens, j) == IF j <= Len(tokens) THEN j + 1 ELSE j
NextStart(tokens, j) ==
  IF Dangling(tokens, j) \/ Separated(tokens, j) THEN j + 1 ELSE j

\* The command of one turn of the outer loop, from token i on; j ends it.
\* redirect is written only if there is a redirection.
CommandAt(tokens, i, j) ==
  LET e == ArgsEnd(tokens, i) IN
  [ args      |-> SubSeq(tokens, i, e - 1),
    command   |-> IF e > i THEN tokens[i] ELSE NULL,
    input     |-> FileOf(tokens, "<", e, j),
    output    |-> FileOf(tokens, ">", e, j),
    redirects |-> j > e \/ Dangling(tokens, j),
    and       |-> Separated(tokens, j) /\ tokens[j] = "&&" ]

buildCommandList(tokens) ==
  LET list[i \in 1 .. Len(tokens) + 1] ==
        IF i > Len(tokens) THEN <<>>
        ELSE LET j == PairsEnd(tokens, ArgsEnd(tokens, i)) IN
             <<CommandAt(tokens, i, j)>> \o list[NextStart(tokens, j)]
  IN list[1]

==============================================================================
