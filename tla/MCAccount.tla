------------------------------ MODULE MCAccount -------------------------------
(* Account with its processes, and its readers, taken as interchangeable. *)
EXTENDS Account, TLC

Symmetry == Permutations(Procs) \cup Permutations(Readers)
===============================================================================
