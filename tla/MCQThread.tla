------------------------------ MODULE MCQThread ------------------------------
(***************************************************************************)
(* Instances of QThread for TLC.                                           *)
(***************************************************************************)
EXTENDS QThread, TLC

\* The threads other than main are interchangeable: none is named by the code.
Symmetry == Permutations(Threads \ {Main})

==============================================================================
