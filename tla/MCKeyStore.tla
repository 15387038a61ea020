----------------------------- MODULE MCKeyStore -----------------------------
(* Small instances of KeyStore. *)
EXTENDS KeyStore, TLC

(* Processes, provider keys and backup directories are interchangeable. *)
Symmetry == Permutations(Procs) \cup Permutations(Values) \cup Permutations(Dirs)
=============================================================================
