------------------------------ MODULE EFFormat ------------------------------
(***************************************************************************)
(* The interpreter of format strings, EFStringCreateWithFormatAndArguments *)
(* of EFString.c.  It copies the text of the format into a buffer that     *)
(* grows, and rebuilds every directive in an array of 64 characters that   *)
(* it hands to snprintf together with the next argument.                   *)
(*                                                                         *)
(* A format is a sequence of items: text of some bytes, a doubled percent  *)
(* sign, or a directive.  What an argument prints is a number of bytes and *)
(* whether that is the single byte NUL.                                    *)
(***************************************************************************)
EXTENDS Integers, Sequences, FiniteSetsExt

CONSTANTS Formats,    \* the formats that callers pass
          Lengths,    \* how many bytes an argument may print
          StarChars,  \* how many characters the numbers for stars may have
          SpecSize,   \* cells of the array for a directive
          SpecLimit,  \* cells of it that flags and digits may take
          FirstCap,   \* cells that the buffer gets first
          MaxDoublings  \* bound: a buffer that has to double more often gets no memory

VARIABLES fmt,     \* the items left to read, Idle when no call is under way
          asked,   \* the format of the call
          next,    \* arguments consumed
          size,    \* the fields size, cap and failed of __EFFmtBuf
          cap,
          failed,
          top,     \* cells of the buffer that were ever written
          cells,   \* cells of the array that the last directive took
          out,     \* the pieces in the buffer
          result   \* what the call has returned, Waiting before

callVars == <<next, size, cap, failed, top, cells, out, result>>
formatVars == <<fmt, asked, callVars>>

Idle == <<[idle |-> TRUE]>>
Waiting == <<[waiting |-> TRUE]>>
Null == <<[null |-> TRUE]>>
Undefined == <<[undefined |-> TRUE]>>

InitFormat == /\ fmt = Idle /\ asked = Idle /\ result = Waiting
              /\ next = 0 /\ size = 0 /\ cap = 0 /\ failed = FALSE
              /\ top = 0 /\ cells = 0 /\ out = <<>>

(***************************************************************************)
(* Items.  A width or a precision is absent, a number of digits, or a star.*)
(***************************************************************************)

Text(n) == [text |-> n]
Percent == [text |-> 1, doubled |-> TRUE]
Directive(flags, width, precision, length, conv) ==
    [flags |-> flags, width |-> width, precision |-> precision, length |-> length, conv |-> conv]

Absent == -1
Star == -2

Fields == Nat \cup {Absent, Star}
Items == [text : Nat] \cup {Percent}
         \cup [flags : Nat, width : Fields, precision : Fields,
               length : {"", "hh", "h", "l", "ll", "j", "z", "t", "L"},
               conv : {"d", "u", "f", "c", "s", "p", "@", "n", "unknown", "end"}]

\* The number for a star is an int, of at most eleven characters.  Behind the
\* last digit that is stored there is room for a length, a conversion and NUL.
ASSUME FormatAssumption ==
    /\ Formats \subseteq Seq(Items) /\ Lengths \subseteq Nat /\ StarChars \subseteq 0..11
    /\ {SpecSize, SpecLimit, FirstCap} \subseteq Nat \ {0} /\ MaxDoublings \in Nat
    /\ SpecLimit + 4 <= SpecSize

IsDirective(item) == "conv" \in DOMAIN item
Starred(field) == IF field = Star THEN 1 ELSE 0
Digits(field) == IF field >= 0 THEN field ELSE 0
LengthChars(length) == CASE length = "" -> 0 [] length \in {"hh", "ll"} -> 2 [] OTHER -> 1

\* Characters that a directive without its conversion has in the format.
Raw(item) == 1 + item.flags + Digits(item.width) + Starred(item.width)
               + (IF item.precision = Absent THEN 0 ELSE 1 + Digits(item.precision) + Starred(item.precision))
               + LengthChars(item.length)

\* What is put into the buffer for an item: with which argument, read as which
\* type, and with which arguments for its stars.
Piece(item, stars, arg, type) == [item |-> item, stars |-> stars, arg |-> arg, type |-> type, nul |-> FALSE]
NoArg == 0
Untyped == "none"

(***************************************************************************)
(* The buffer.                                                             *)
(***************************************************************************)

Capacities(n) == {c \in {(IF cap = 0 THEN FirstCap ELSE cap) * 2^k : k \in 0..MaxDoublings} : c >= n}
Doubled(n) == Min(Capacities(n))
Grows(extra) == size + extra + 1 > cap

\* A bug: the terminator that snprintf writes is not counted.
CapWithoutNul(extra) == IF size + extra > cap THEN Doubled(size + extra) ELSE cap

\* __evfb_ensure
EnsuredCap(extra) == IF Grows(extra) THEN Doubled(size + extra + 1) ELSE cap

\* n bytes are put into the buffer, and by snprintf a terminator; realloc may
\* fail, and nothing is put into a buffer that has failed.
Put(piece, n, terminator) ==
    \/ /\ ~failed
       /\ Grows(n) => Capacities(size + n + 1) # {}
       /\ size' = size + n
       /\ cap' = EnsuredCap(n)
       /\ top' = Max({top, size + n + terminator})
       /\ out' = Append(out, piece)
       /\ UNCHANGED failed
    \/ /\ failed \/ Grows(n)
       /\ failed' = TRUE
       /\ UNCHANGED <<size, cap, top, out>>

(***************************************************************************)
(* The array for a directive.                                              *)
(***************************************************************************)

\* Digits that are stored behind si other characters; the rest is dropped.
Stored(si, n) == Min({n, Max({0, SpecLimit - si})})

\* Cells up to the width, up to the precision, up to the length, and for the whole directive, when the
\* number for a star has so many characters.
UpToWidth(item, star) == LET si == 1 + item.flags IN
    IF item.width = Star THEN si + star ELSE si + Stored(si, Digits(item.width))

UpToPrecision(item, star) ==
    LET si == UpToWidth(item, star)
        dotted == IF item.precision # Absent /\ si < SpecLimit THEN si + 1 ELSE si
    IN  IF item.precision = Star THEN dotted + star ELSE dotted + Stored(dotted, Digits(item.precision))

UpToLength(item, star) == UpToPrecision(item, star) + LengthChars(item.length)

\* Conversions that are not handed to snprintf, so that neither they nor a
\* terminator are stored.
Unstored == {"@", "n", "end"}

\* The number for the last star is cut off at the end of the array, unless it
\* begins behind it or more is stored behind it.
CutNumber(item, star) == item.length = "" /\ ~(item.precision = Star /\ UpToWidth(item, star) > SpecSize)

CellsOf(item, star) ==
    IF item.conv \notin Unstored THEN UpToLength(item, star) + 2
    ELSE IF CutNumber(item, star) /\ UpToLength(item, star) > SpecSize THEN SpecSize
    ELSE UpToLength(item, star)

\* The directive as snprintf gets it.
Rebuilt(item, star) == [item EXCEPT
    !.width = IF @ < 0 THEN @ ELSE Stored(1 + item.flags, @),
    !.precision = IF @ < 0 THEN @ ELSE Stored(UpToWidth(item, star) + 1, @)]

(***************************************************************************)
(* The loop over the format.                                               *)
(***************************************************************************)

Begin(f) == fmt = Idle /\ fmt' = f /\ asked' = f /\ UNCHANGED callVars

Reading == fmt \notin {Idle, <<>>} /\ result = Waiting
Item == Head(fmt)
Advance == fmt' = Tail(fmt) /\ UNCHANGED <<asked, result>>

CopyText == /\ Reading /\ ~IsDirective(Item)
            /\ Put(Piece(Item, <<>>, NoArg, Untyped), Item.text, 0)
            /\ Advance /\ UNCHANGED <<next, cells>>

\* A bug: two cells less for flags.
FewerFlagsFit == Item.flags < SpecLimit - 2

\* The loop over flags moves on only while it stores them.
FlagsFit == Item.flags < SpecLimit

FlagsSpin == Reading /\ IsDirective(Item) /\ ~FlagsFit /\ UNCHANGED formatVars

\* A bug: only the star of the width reads an argument.
WidthStar(item) == Starred(item.width)

StarsRead(item) == Starred(item.width) + Starred(item.precision)

Values == {"d", "u", "f", "c", "s", "p", "unknown"}

InDirective(convs) == Reading /\ IsDirective(Item) /\ FlagsFit /\ Item.conv \in convs

\* The directive is stored inside the array.
Stores(star) == cells' = CellsOf(Item, star) /\ cells' <= SpecSize
Consumed == [k \in 1..StarsRead(Item) |-> next + k]

\* __EFEmitValue: the type that it reads for a conversion.
ReadAs(length, conv) ==
    CASE conv \in {"d", "u"} -> (CASE length \in {"l", "ll", "j", "z", "t"} -> length
                                   [] OTHER -> "int")
      [] conv = "f" -> IF length = "L" THEN "long double" ELSE "double"
      [] conv = "c" -> "int"
      [] conv \in {"s", "p"} -> "pointer"

\* A conversion of a value, or one unknown, which is printed as it stands.
EmitValue(star) ==
    LET stars == StarsRead(Item)
        spec == Rebuilt(Item, star)
        known == Item.conv # "unknown"
    IN  /\ InDirective(Values) /\ Stores(star)
        /\ Advance
        /\ next' = next + stars + (IF known THEN 1 ELSE 0)
        /\ IF known
           THEN \E n \in Lengths, nul \in BOOLEAN :
                  /\ nul => n = 1 /\ Item.conv = "c"
                  /\ Put([Piece(spec, Consumed, next', ReadAs(Item.length, Item.conv)) EXCEPT !.nul = nul], n, 1)
           ELSE Put(Piece(spec, Consumed, NoArg, Untyped), cells' - 1, 0)

\* What is stored behind the array is undefined behaviour.
Overrun(star) == /\ InDirective(Values \cup Unstored)
                 /\ cells' = CellsOf(Item, star) /\ cells' > SpecSize
                 /\ result' = Undefined
                 /\ UNCHANGED <<fmt, asked, next, size, cap, failed, top, out>>

\* The object's description, copied whatever the directive says besides; one
\* with a character cut in two has no bytes in UTF-8, and strlen gets NULL.
EmitDescription(star) ==
    /\ InDirective({"@"}) /\ Stores(star)
    /\ next' = next + StarsRead(Item) + 1
    /\ \/ \E n \in Lengths : Put(Piece(Item, Consumed, next', "pointer"), n, 0) /\ Advance
       \/ result' = Undefined /\ UNCHANGED <<fmt, asked, size, cap, failed, top, out>>

\* %n ends the call without a result.
Refuse(star) == /\ InDirective({"n"}) /\ Stores(star)
                /\ failed' = TRUE /\ fmt' = <<>>
                /\ next' = next + StarsRead(Item)
                /\ UNCHANGED <<asked, size, cap, top, out, result>>

\* The format ends within a directive, which is copied as it stands.
CutOff(star) == /\ InDirective({"end"}) /\ Stores(star)
                /\ Put(Piece(Item, Consumed, NoArg, Untyped), Raw(Item), 0)
                /\ next' = next + StarsRead(Item)
                /\ Advance

\* EFStringCreateWithBuffer takes the bytes before the first NUL.
BeforeNul(pieces) == LET nuls == {i \in DOMAIN pieces : pieces[i].nul} IN
    IF nuls = {} THEN pieces ELSE SubSeq(pieces, 1, Min(nuls) - 1)

Return == /\ fmt = <<>> /\ result = Waiting
          /\ result' \in (IF failed THEN {Null} ELSE {Null, BeforeNul(out)})
          /\ UNCHANGED <<fmt, asked, next, size, cap, failed, top, cells, out>>

\* The caller has what it wanted.
Forget == /\ result # Waiting
          /\ fmt' = Idle /\ asked' = Idle /\ result' = Waiting
          /\ next' = 0 /\ size' = 0 /\ cap' = 0 /\ failed' = FALSE
          /\ top' = 0 /\ cells' = 0 /\ out' = <<>>

FormatStep == \/ CopyText \/ FlagsSpin \/ Return
              \/ \E star \in StarChars : \/ EmitValue(star) \/ EmitDescription(star) \/ Refuse(star) \/ CutOff(star)
                                        \/ Overrun(star)

-----------------------------------------------------------------------------
(* What is written to the buffer stays inside it, the terminator that        *)
(* snprintf writes behind every value included, however the lengths of text  *)
(* and values meet the boundary at which the buffer grows.  A directive      *)
(* stays inside its array, whatever its width and its precision, unless its  *)
(* flags and digits are so many that the number for a star behind them,      *)
(* which no limit stops, can reach the end.                                  *)
WritesInside ==
    /\ top <= cap
    /\ cells > SpecSize => StarsRead(Item) > 0 /\ Raw(Item) > SpecSize - 2 * 11 - 5

Arguments(item) == IF ~IsDirective(item) THEN 0
    ELSE Starred(item.width) + Starred(item.precision) + (IF item.conv \in {"unknown", "end", "n"} THEN 0 ELSE 1)

(* The arguments of the items of f before item i.                            *)
Before(f, i) == Cardinality({a \in (1..i - 1) \X (1..3) : a[2] <= Arguments(f[a[1]])})

(* The type that C's printf takes for a conversion.                          *)
Promised(length, conv) ==
    CASE conv \in {"s", "p", "@"} -> "pointer"
      [] conv = "f" -> IF length = "L" THEN "long double" ELSE "double"
      [] conv \in {"d", "u"} /\ length \in {"l", "ll", "j", "z", "t"} -> length
      [] OTHER -> "int"

(* The piece that printf promises for item i of format f.                    *)
Expected(f, i) ==
    LET item == f[i]
        stars == IF IsDirective(item) THEN Starred(item.width) + Starred(item.precision) ELSE 0
    IN  Piece(item, [k \in 1..stars |-> Before(f, i) + k],
              IF Arguments(item) > stars THEN Before(f, i) + Arguments(item) ELSE NoArg,
              IF Arguments(item) = stars THEN Untyped ELSE Promised(item.length, item.conv))

(* A string that is returned has for every item of the format, in their      *)
(* order, the text or the value that printf promises for it: with the        *)
(* argument and the stars' arguments that are its own, read as the type that *)
(* was passed, and with all flags and digits of the directive unless they    *)
(* are too many; and it ends early only at a character NUL.  A format with   *)
(* %n returns no string.                                                     *)
FormatExact == result \notin {Waiting, Null, Undefined} =>
    /\ \A i \in DOMAIN asked : IsDirective(asked[i]) => asked[i].conv # "n"
    /\ result = out \/ \E i \in DOMAIN out : i = Len(result) + 1 /\ out[i].nul
    /\ \A i \in DOMAIN result :
         LET same == [result[i] EXCEPT !.item = asked[i]] IN
         /\ same = Expected(asked, i)
         /\ IsDirective(asked[i]) /\ Raw(asked[i]) <= SpecLimit - 2 * 11 => same = result[i]
=============================================================================
