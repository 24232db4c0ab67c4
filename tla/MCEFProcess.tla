---------------------------- MODULE MCEFProcess -----------------------------
(* A small instance of EFProcess for TLC. *)
EXTENDS EFProcess, TLC

ProcessSymmetry == Permutations(Thread) \cup Permutations(Object)
=============================================================================
