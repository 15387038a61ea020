---------------------------- MODULE MCRevocation ----------------------------
(* Small instances of the revocation store.  Writers and keys are          *)
(* interchangeable, so the safety runs may permute them.                   *)
EXTENDS Revocation, TLC

Symmetry == Permutations(Writers) \cup Permutations(Keys)
=============================================================================
