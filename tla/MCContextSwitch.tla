--------------------------- MODULE MCContextSwitch ---------------------------
(* ContextSwitch for TLC: stacks one behind the other, and a load that gives   *)
(* every register a value of its own, so that no two of them, and no thread    *)
(* that loaded and one that did not, may be taken for each other.              *)
EXTENDS ContextSwitch, SequencesExt

Order == SetToSeq(Threads)
Stacks == [t \in Threads |-> 2 + StackWords * (CHOOSE i \in DOMAIN Order : Order[i] = t)]

Names == SetToSeq(CalleeSaved)
Marks == {[r \in CalleeSaved |-> 1000 + (CHOOSE i \in DOMAIN Names : Names[i] = r)]}

==============================================================================
