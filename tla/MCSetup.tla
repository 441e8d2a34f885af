------------------------------ MODULE MCSetup -------------------------------
(* Instances of Setup for TLC. *)
EXTENDS Setup, TLC

\* Which thread and which loop is which does not matter.
SetupSymmetry == Permutations(Threads) \cup Permutations(Loops)
=============================================================================
