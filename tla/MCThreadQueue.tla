---------------------------- MODULE MCThreadQueue ----------------------------
(* ThreadQueue for TLC. *)
EXTENDS ThreadQueue, TLC

Symmetry == Permutations(Threads)

==============================================================================
