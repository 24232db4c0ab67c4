------------------------------ MODULE EFNumber ------------------------------
(***************************************************************************)
(* Numbers (EFNumber.c) and their parsing from strings (EFString.c from    *)
(* line 1203).  A string is read as a hexadecimal, a binary, a decimal     *)
(* numeral or a quoted character, whichever takes it first; a numeral too  *)
(* large for 64 bits leaves the functions by longjmp and becomes a number  *)
(* of type Overflow.                                                       *)
(***************************************************************************)
EXTENDS Integers, FiniteSetsExt, Sequences

CONSTANTS Char,        \* characters of lines
          ASCII,       \* those of them that are ASCII
          DigitOf,     \* DigitOf[c]: the value of c as a digit, -1 if it is none
          Code,        \* Code[c]: the value of c as a character
          EscapeCode,  \* EscapeCode[c]: that of a backslash and c, -1 if it is none
          Half,        \* Half[n]: 2^(n - 1), or a number that stands for it
          MaxLine      \* bound on the length of a line

Sizes == {8, 16, 32, 64}
Types == [signed : BOOLEAN, size : Sizes]

UMax(n) == 2 * Half[n] - 1
SMax(n) == Half[n] - 1
ValuesOf(type) == IF type.signed THEN -SMax(type.size) - 1..SMax(type.size) ELSE 0..UMax(type.size)

ASSUME NumberAssumption ==
    /\ ASCII \subseteq Char
    /\ \A n \in Sizes : Half[n] \in Nat \ {0} /\ Half[n] <= Half[64]
    /\ \A c \in Char : /\ DigitOf[c] \in -1..15 /\ Code[c] \in 0..SMax(64)
                       /\ EscapeCode[c] \in -1..SMax(64)

\* Every value below ten that a number can have is that of a digit; of zero
\* there is one.  What else stands in a numeral is not taken for a decimal digit.
ASSUME DigitAssumption ==
    /\ \A d \in 0..9 : d <= UMax(64) => \E c \in Char : DigitOf[c] = d
    /\ \A c \in Char : /\ DigitOf[c] = 0 <=> c = "0"
                       /\ DigitOf[c] # -1 => c \in ASCII
    /\ \A c \in Char \cap {"x", "X", "b", "B"} : c \in ASCII /\ DigitOf[c] \notin 0..9
    /\ \A c \in {"'", "-"} : c \in ASCII /\ DigitOf[c] = -1

VARIABLES line,    \* the string a caller has put together
          number,  \* the EFNumber made last, None if there is none
          given    \* the type and value it was made from, None for a parsed one

numberVars == <<line, number, given>>

None == [made |-> FALSE]
Overflow == [overflow |-> TRUE]
HasValue(n) == "s128" \in DOMAIN n

InitNumber == line = <<>> /\ number = None /\ given = None

(***************************************************************************)
(* EFNumber                                                                *)
(***************************************************************************)

\* The stored 128 bits hold every value of every type.
Number(type, v) == [type |-> type, s128 |-> v]

\* A cast of s128 to a type.
Cast(type, v) == LET low == v % (2 * Half[type.size]) IN
    IF type.signed /\ low > SMax(type.size) THEN low - 2 * Half[type.size] ELSE low

EFNumberGetValue(n) == Cast(n.type, n.s128)

(***************************************************************************)
(* Numerals.  A result is NotTaken, Overflow or the value.                 *)
(***************************************************************************)

NotTaken == [taken |-> FALSE]
Taken(v) == [value |-> v]

\* strtoull of digits of the base; none at all are 0.
Strtoull(digits, base) ==
    LET value[n \in 0..Len(digits)] == IF n = 0 THEN 0 ELSE value[n - 1] * base + DigitOf[digits[n]]
    IN value[Len(digits)]

\* An overflow goes unnoticed.
ParseWrapping(digits, base) == Taken(Strtoull(digits, base) % (UMax(64) + 1))

ParseBase(digits, base) ==
    IF Strtoull(digits, base) > UMax(64) THEN Overflow ELSE Taken(Strtoull(digits, base))

AllDigits(s, base) == \A i \in DOMAIN s : DigitOf[s[i]] \in 0..base - 1

Prefixed(s, letters) == Len(s) >= 2 /\ s[1] = "0" /\ s[2] \in letters
Rest(s) == SubSeq(s, 3, Len(s))

Hexadecimal(s) == IF Prefixed(s, {"x", "X"}) /\ AllDigits(Rest(s), 16) THEN ParseBase(Rest(s), 16) ELSE NotTaken
Binary(s) == IF Prefixed(s, {"b", "B"}) /\ AllDigits(Rest(s), 2) THEN ParseBase(Rest(s), 2) ELSE NotTaken
Decimal(s) == IF AllDigits(s, 10) THEN ParseBase(s, 10) ELSE NotTaken

\* Behind an escape anything may stand before the closing quote.
Character(s) ==
    IF Len(s) < 3 \/ s[1] # "'" \/ s[Len(s)] # "'" THEN NotTaken
    ELSE IF s[2] = "\\" THEN IF EscapeCode[s[3]] # -1 THEN Taken(EscapeCode[s[3]]) ELSE NotTaken
    ELSE IF Len(s) = 3 THEN Taken(Code[s[2]]) ELSE NotTaken

\* The first that takes the line; an overflow ends the search.
Extract(s) ==
    LET tries == <<Hexadecimal(s), Binary(s), Decimal(s), Character(s)>>
        takers == {i \in DOMAIN tries : tries[i] # NotTaken}
    IN IF takers = {} THEN NotTaken ELSE tries[Min(takers)]

\* EFStringGetCStringPtr gives a pointer to ASCII only.
HasPointer(s) == \A i \in DOMAIN s : s[i] \in ASCII

EFStringIsNumber(s) == HasPointer(s) /\ Extract(s) # NotTaken

SInt64 == [signed |-> TRUE, size |-> 64]
UInt64 == [signed |-> FALSE, size |-> 64]

TypeFor(v) == IF v <= SMax(64) THEN SInt64 ELSE UInt64

EFStringCreateNumber(s) ==
    IF s = <<>> THEN None
    ELSE IF ~HasPointer(s) \/ Extract(s) = Overflow THEN Overflow
    ELSE IF Extract(s) = NotTaken THEN None
    ELSE Number(TypeFor(Extract(s).value), Extract(s).value)

-----------------------------------------------------------------------------
\* A caller puts a line together, has it parsed, and drops the number.
Extend(c) == /\ number = None /\ given = None /\ Len(line) < MaxLine
             /\ line' = Append(line, c)
             /\ UNCHANGED <<number, given>>

ParseLine == /\ number = None
             /\ number' = EFStringCreateNumber(line)
             /\ UNCHANGED <<line, given>>

EFNumberCreate(type, v) ==
    /\ number = None /\ line = <<>>
    /\ number' = Number(type, v)
    /\ given' = [type |-> type, value |-> v]
    /\ UNCHANGED line

\* The number is dropped, or its description that has been parsed.
Release == /\ number # None \/ given # None
           /\ number' = None /\ given' = None
           /\ line' = <<>>

NumberStep == \/ \E c \in Char : Extend(c)
              \/ ParseLine
              \/ \E type \in Types : \E v \in ValuesOf(type) : EFNumberCreate(type, v)
              \/ Release

-----------------------------------------------------------------------------
(* The numeral of v without leading zeros, by division.                      *)
Numeral(v, base) ==
    LET print[u \in 0..v] == IF u = 0 THEN <<>> ELSE Append(print[u \div base], u % base)
    IN print[v]

WithoutZeros(s) == LET solid == {i \in DOMAIN s : s[i] # "0"} IN
    IF solid = {} THEN <<>> ELSE SubSeq(s, Min(solid), Len(s))

DigitsOf(s) == [i \in DOMAIN s |-> DigitOf[s[i]]]

Denotes(s, base, v) == DigitsOf(WithoutZeros(s)) = Numeral(v, base)

(* EFStringCreateNumber makes of a numeral the number that is written that   *)
(* way, and Overflow exactly if it is greater than all of 64 bits; what is   *)
(* hexadecimal is not taken for binary or decimal.  A quoted character is    *)
(* its code.  EFStringIsNumber says yes to exactly what gives a number, what *)
(* overflows included; the two differ on the empty string, a number to the   *)
(* first only, and on what is not ASCII, of which the second makes Overflow. *)
ParsedExactly ==
    LET result == EFStringCreateNumber(line)
        agrees(s, base) ==
            \/ \E v \in 0..UMax(64) : Denotes(s, base, v) /\ result = Number(TypeFor(v), v)
            \/ (\A v \in 0..UMax(64) : ~Denotes(s, base, v)) /\ result = Overflow
    IN /\ Prefixed(line, {"x", "X"}) /\ AllDigits(Rest(line), 16) => agrees(Rest(line), 16)
       /\ Prefixed(line, {"b", "B"}) /\ AllDigits(Rest(line), 2) => agrees(Rest(line), 2)
       /\ line # <<>> /\ AllDigits(line, 10) => agrees(line, 10)
       /\ \A c \in ASCII \ {"\\"} : line = <<"'", c, "'">> => result = Number(SInt64, Code[c])
       /\ line # <<>> /\ HasPointer(line) => (EFStringIsNumber(line) <=> result # None)
=============================================================================
