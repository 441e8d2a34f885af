------------------------ MODULE MCCallbackRegistry --------------------------
(* Instances of CallbackRegistry for TLC. *)
EXTENDS CallbackRegistry

\* Which callback is which does not matter.
CallbackSymmetry == Permutations(Callbacks)
=============================================================================
