------------------------------ MODULE EFSplit -------------------------------
(***************************************************************************)
(* EFStringComponentsSplitBySeparator (EFString.c): one pass over the      *)
(* string from left to right.  A separator ends the component that began   *)
(* after the last one, is skipped whole, and yields nothing when there is  *)
(* nothing between them.                                                   *)
(***************************************************************************)
EXTENDS Integers, Sequences, FiniteSetsExt

\* strncmp cannot match over the end: the terminator is not in a separator.
MatchAt(s, sep, i) == /\ i + Len(sep) - 1 <= Len(s)
                      /\ SubSeq(s, i, i + Len(sep) - 1) = sep

Matches(s, sep, from) == {i \in from..Len(s) : MatchAt(s, sep, i)}

Piece(s, from, to) == IF to < from THEN <<>> ELSE <<SubSeq(s, from, to)>>

\* A bug: of a separator only the first byte is skipped.
ComponentsNotSkipping(s, sep) ==
    LET rest[last \in 1..Len(s) + 1] ==
            IF Matches(s, sep, last) = {} THEN Piece(s, last, Len(s))
            ELSE LET i == Min(Matches(s, sep, last)) IN Piece(s, last, i - 1) \o rest[i + 1]
    IN rest[1]

\* rest[last]: what is found from position last on, where a component begins;
\* it ends at the first separator.
Components(s, sep) ==
    LET rest[last \in 1..Len(s) + 1] ==
            IF Matches(s, sep, last) = {} THEN Piece(s, last, Len(s))
            ELSE LET i == Min(Matches(s, sep, last)) IN Piece(s, last, i - 1) \o rest[i + Len(sep)]
    IN rest[1]

\* NULL unless the string is longer than the separator.
Splits(s, sep) == Len(sep) < Len(s)
=============================================================================
