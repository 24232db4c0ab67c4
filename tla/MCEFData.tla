------------------------------ MODULE MCEFData ------------------------------
(* A small instance of EFData for TLC. *)
EXTENDS EFData, TLC

DataSymmetry == Permutations(Data) \cup Permutations(Block)
=============================================================================
