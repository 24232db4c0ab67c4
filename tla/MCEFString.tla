----------------------------- MODULE MCEFString -----------------------------
(* A small instance of EFString for TLC. *)
EXTENDS EFString

MCTexts == {<<>>, <<" ">>, <<"/", "/">>, <<"L", "C">>, <<"+">>}
MCSeparators == {<<"/">>, <<"/", "/">>, <<"+", "/">>}

StringSymmetry == Permutations(Str)
=============================================================================
