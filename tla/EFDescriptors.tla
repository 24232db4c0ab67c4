--------------------------- MODULE EFDescriptors ---------------------------
(***************************************************************************)
(* The descriptors a process may have open, as what uses them sees them: a *)
(* number of places.  EFFileHandle has the table behind it and shows that  *)
(* a handle keeps its description; here it only matters how many are taken *)
(* and whether those who took them give them back.                         *)
(***************************************************************************)
EXTENDS Naturals

CONSTANT MaxOpen    \* the limit on open descriptors

ASSUME DescriptorsAssumption == MaxOpen \in Nat

VARIABLE used       \* how many are open

Room(n) == used + n <= MaxOpen
Take(n) == Room(n) /\ used' = used + n
GiveBack(n) == used' = used - n
=============================================================================
