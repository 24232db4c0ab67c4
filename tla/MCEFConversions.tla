--------------------------- MODULE MCEFConversions ---------------------------
(* A small instance of EFConversions for TLC: 64 bits are two, and the array  *)
(* and the buffer have their real sizes.                                      *)
EXTENDS EFConversions

MCASCII == {"0", "1", "2", "3", "b", "x", "-", "'", "\\"}
MCChar == MCASCII \cup {"~n"}
MCDigitOf == [c \in MCChar |->
    CASE c = "0" -> 0 [] c = "1" -> 1 [] c = "2" -> 2 [] c = "3" -> 3 [] c = "b" -> 11 [] OTHER -> -1]
MCCode == [c \in MCChar |-> IF c \in {"'", "\\"} THEN 1 ELSE 0]
MCEscapeCode == [c \in MCChar |->
    CASE c = "'" -> 1 [] c = "\\" -> 0 [] c = "b" -> 1 [] c = "0" -> 0 [] OTHER -> -1]
MCHalf == [n \in Sizes |-> IF n \in {8, 16} THEN 1 ELSE 2]

\* Text up to the boundaries of the buffer, and one directive of each sort.
MCItems == {Text(1), Text(62), Text(63), Percent,
          Directive(0, Absent, Absent, "", "d"), Directive(1, 2, Star, "l", "u"),
          Directive(0, Star, 1, "L", "f"), Directive(0, Absent, Absent, "", "c"),
          Directive(0, 3, Absent, "hh", "d"), Directive(2, Star, Star, "ll", "d"),
          Directive(0, Absent, Absent, "", "s"), Directive(0, Absent, Absent, "", "@"),
          Directive(0, Star, Absent, "", "n"), Directive(1, Absent, 1, "", "unknown")}

\* Directives at the boundaries of the array, which stand alone.
Large == {Directive(57, 70, 70, "ll", "d"), Directive(57, Absent, Absent, "", "d"), Directive(58, Absent, Absent, "", "d"),
          Directive(34, Star, Star, "ll", "d"), Directive(35, Star, Star, "ll", "d"), Directive(40, Star, Star, "ll", "d"),
          Directive(57, Star, Star, "", "@"), Directive(57, Star, Absent, "", "@"), Directive(57, Star, Absent, "l", "n"),
          Directive(55, Absent, Star, "ll", "end"), Directive(0, 57, Star, "", "s"), Directive(0, 40, Star, "", "s"), Directive(20, 70, 70, "hh", "unknown")}

Ends == {Directive(1, 2, Star, "l", "end"), Directive(0, Absent, 0, "", "end")}

MCFormats == UNION {[1..n -> MCItems] : n \in 0..2} \cup {<<i>> : i \in Large}
             \cup {<<i, e>> : i \in MCItems, e \in Ends} \cup {<<Text(62), i, j>> : i, j \in MCItems}
=============================================================================
