----------------------------- MODULE MCEFArray ------------------------------
(* A small instance of EFArray for TLC. *)
EXTENDS EFArray

\* Below, at and above the negative capacity that one reallocation brings to
\* zero, none, and some.
MCCapacities == {-3, -2, -1, 0, 1}
=============================================================================
