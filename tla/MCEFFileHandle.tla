--------------------------- MODULE MCEFFileHandle ---------------------------
(* Small instances of EFFileHandle for TLC. *)
EXTENDS EFFileHandle, TLC

\* -1 is the answer of a refused lseek.
MCLocations == {-2, -1, 1}

MCSymmetry == Permutations(Thread) \cup Permutations(Handle) \cup Permutations(Desc)
=============================================================================
