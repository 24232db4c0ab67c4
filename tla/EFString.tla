------------------------------ MODULE EFString ------------------------------
(***************************************************************************)
(* Strings of EFString.c that own their bytes: created and copied by       *)
(* __EFStringCreate, edited in place by append, range deletion and         *)
(* trimming.  A buffer is a sequence of cells, of which the code uses the  *)
(* first length for the string and the next one for the terminator NUL;    *)
(* the edits move cells.  Cells behind the terminator are never read and   *)
(* are forgotten.  Calls on one string are not concurrent.                 *)
(*                                                                         *)
(* A byte is a member of Byte; "L" stands for a byte that begins a two-    *)
(* byte character of UTF-8 and "C" for one that ends it.                   *)
(***************************************************************************)
EXTENDS EFSplit, FiniteSets, SequencesExt

CONSTANTS Str,         \* EFString objects
          Byte,        \* bytes other than NUL
          Space,       \* those that are white space
          Texts,       \* C strings that callers pass
          Separators,  \* separators that callers pass, not empty
          MaxLength    \* bound on the length of a string

ASSUME StringAssumption == /\ Space \subseteq Byte \ {"L", "C"}
                           /\ "0" \notin Byte /\ "?" \notin Byte
                           /\ Texts \subseteq Seq(Byte) /\ MaxLength \in Nat
                           /\ Separators \subseteq Seq(Byte) \ {<<>>}

VARIABLES buffer,     \* buffer[s]: the cells allocated, <<>> when s does not exist
          length,     \* the length field
          encoding,   \* the encoding field
          isMutable,  \* the isMutable field
          cut         \* a range deletion has cut a character of s in two

vars == <<buffer, length, encoding, isMutable, cut>>

NUL == "0"
Junk == "?"
Encodings == {"ASCII", "UTF7", "UTF8"}

Init == /\ buffer = [s \in Str |-> <<>>]
        /\ length = [s \in Str |-> 0]
        /\ encoding = [s \in Str |-> "ASCII"]
        /\ isMutable = [s \in Str |-> FALSE]
        /\ cut = [s \in Str |-> FALSE]

Exists(s) == buffer[s] # <<>>
Content(s) == SubSeq(buffer[s], 1, length[s])

\* __EFStringValidateEncoding
ASCIIValid(t) == \A i \in DOMAIN t : t[i] \notin {"L", "C"}

\* A plus sign that no minus sign follows begins a run of base 64.  The table
\* of digits is all zero, so every byte is a digit of value 0 and the run lasts
\* to the end of the string; six bits a digit, and fewer than six left over
\* from units of sixteen.
UTF7Valid(t) ==
    LET runs == {i \in DOMAIN t : t[i] = "+" /\ ~(i < Len(t) /\ t[i + 1] = "-")} IN
    /\ ASCIIValid(t)
    /\ runs # {} => (6 * (Len(t) - Min(runs))) % 16 < 6

UTF8Valid(t) == \A i \in DOMAIN t :
    /\ t[i] = "L" => i < Len(t) /\ t[i + 1] = "C"
    /\ t[i] = "C" => i > 1 /\ t[i - 1] = "L"

\* A separator is a string too, which no deletion has cut.
ASSUME SeparatorAssumption == \A sep \in Separators : UTF8Valid(sep)

Valid(t, enc) == CASE enc = "ASCII" -> ASCIIValid(t)
                   [] enc = "UTF7" -> UTF7Valid(t)
                   [] enc = "UTF8" -> UTF8Valid(t)

\* memmove of n cells, and the cells behind the terminator forgotten.
Move(b, dst, src, n) == [i \in DOMAIN b |-> IF i \in dst + 1..dst + n THEN b[i - dst + src] ELSE b[i]]
Settle(b, len) == [i \in DOMAIN b |-> IF i > len + 1 THEN Junk ELSE b[i]]

(***************************************************************************)
(* Creation and destruction.  A failed allocation is a call without effect.*)
(***************************************************************************)

\* __EFStringCreate with the bytes t.
NewString(s, t, enc, mutable) ==
    /\ ~Exists(s)
    /\ Valid(t, enc)
    /\ buffer' = [buffer EXCEPT ![s] = t \o <<NUL>>]
    /\ length' = [length EXCEPT ![s] = Len(t)]
    /\ encoding' = [encoding EXCEPT ![s] = enc]
    /\ isMutable' = [isMutable EXCEPT ![s] = mutable]
    /\ UNCHANGED cut

EFStringCreateWithCString(s, t, enc) == NewString(s, t, enc, FALSE)

\* EFStringCreateCopy and EFStringCreateMutableCopy, with a range or whole.
EFStringCreateCopyWithRange(s, n, location, len, mutable) ==
    /\ Exists(s)
    /\ location <= length[s] /\ location + len <= length[s]
    /\ NewString(n, SubSeq(Content(s), location + 1, location + len), encoding[s], mutable)

Destroy(s) ==
    /\ Exists(s)
    /\ buffer' = [buffer EXCEPT ![s] = <<>>]
    /\ length' = [length EXCEPT ![s] = 0]
    /\ encoding' = [encoding EXCEPT ![s] = "ASCII"]
    /\ isMutable' = [isMutable EXCEPT ![s] = FALSE]
    /\ cut' = [cut EXCEPT ![s] = FALSE]

(***************************************************************************)
(* Edits                                                                   *)
(***************************************************************************)

Editable(s) == Exists(s) /\ isMutable[s]

SetBuffer(s, b, len) ==
    /\ buffer' = [buffer EXCEPT ![s] = Settle(b, len)]
    /\ length' = [length EXCEPT ![s] = len]
    /\ UNCHANGED <<encoding, isMutable>>

\* The appended bytes are not checked.
AppendUnchecked(s, t) ==
    /\ Editable(s)
    /\ length[s] + Len(t) <= MaxLength
    /\ SetBuffer(s, Content(s) \o t \o <<NUL>>, length[s] + Len(t))
    /\ UNCHANGED cut

\* Reallocation to the new length and one, copy, terminator.
Append_(s, t) ==
    /\ Editable(s)
    /\ Valid(t, encoding[s])
    /\ length[s] + Len(t) <= MaxLength
    /\ SetBuffer(s, Content(s) \o t \o <<NUL>>, length[s] + Len(t))
    /\ UNCHANGED cut

EFStringAppendString(s, a) == Exists(a) /\ Append_(s, Content(a))

\* The formatted text is a string of its own.
EFStringAppendFormat(s, t) == Append_(s, t)

CutsCharacter(s, location, len) ==
    /\ len > 0
    /\ \/ location < length[s] /\ buffer[s][location + 1] = "C"
       \/ location + len < length[s] /\ buffer[s][location + len + 1] = "C"

EFStringDeleteRange(s, location, len) ==
    /\ Editable(s)
    /\ location >= 0 /\ len >= 0 /\ length[s] >= location + len
    /\ SetBuffer(s, Move(buffer[s], location, location + len, length[s] - (location + len) + 1),
                 length[s] - len)
    /\ cut' = [cut EXCEPT ![s] = @ \/ CutsCharacter(s, location, len)]

\* Indices from 0, as in the code.
IsSpace(s, i) == buffer[s][i + 1] \in Space
Solid(s) == {i \in 0..length[s] - 1 : ~IsSpace(s, i)}

\* The end is taken for the index behind the last byte kept.
TrimShort(s) ==
    /\ Editable(s) /\ Solid(s) # {}
    /\ LET start == Min(Solid(s))
           n == Max(Solid(s)) - start IN
       SetBuffer(s, [Move(buffer[s], 0, start, n) EXCEPT ![n + 1] = NUL], n)
    /\ UNCHANGED cut

TrimToNothing(s) ==
    /\ Editable(s) /\ Solid(s) = {}
    /\ SetBuffer(s, [buffer[s] EXCEPT ![1] = NUL], 0)
    /\ UNCHANGED cut

TrimEnds(s) ==
    /\ Editable(s) /\ Solid(s) # {}
    /\ LET start == Min(Solid(s))
           n == Max(Solid(s)) - start + 1 IN
       SetBuffer(s, [Move(buffer[s], 0, start, n) EXCEPT ![n + 1] = NUL], n)
    /\ UNCHANGED cut

EFStringTrimWhitespace(s) == TrimToNothing(s) \/ TrimEnds(s)

-----------------------------------------------------------------------------
Next == \E s \in Str :
    \/ \E t \in Texts : \/ \E enc \in Encodings : EFStringCreateWithCString(s, t, enc)
                        \/ EFStringAppendFormat(s, t)
    \/ \E n \in Str, location, len \in 0..MaxLength, mutable \in BOOLEAN :
           EFStringCreateCopyWithRange(s, n, location, len, mutable)
    \/ \E a \in Str : EFStringAppendString(s, a)
    \/ \E location, len \in -1..MaxLength : EFStringDeleteRange(s, location, len)
    \/ EFStringTrimWhitespace(s)
    \/ Destroy(s)

Spec == Init /\ [][Next]_vars

-----------------------------------------------------------------------------
(* A string holds bytes of its encoding with a NUL right behind them,        *)
(* whatever it is made of and appended to, unless EFStringDeleteRange, which *)
(* counts bytes, has cut a character.  UTF-7 is excepted: what a byte means  *)
(* there depends on those before it.                                         *)
ValidUnlessCut == \A s \in Str : Exists(s) =>
    /\ buffer[s][length[s] + 1] = NUL
    /\ ~cut[s] /\ encoding[s] # "UTF7" => Valid(Content(s), encoding[s])

(* The separators of a string, leftmost first and not overlapping: a match   *)
(* counts unless one that counts begins inside the bytes before it.          *)
Marks(t, sep) == CHOOSE M \in SUBSET Matches(t, sep, 1) :
    \A i \in Matches(t, sep, 1) : i \in M <=> ~ \E j \in M : j < i /\ i < j + Len(sep)

(* The stretches between them that are not empty: their first and last byte. *)
Open(t, sep) == DOMAIN t \ UNION {i..i + Len(sep) - 1 : i \in Marks(t, sep)}

Stretches(t, sep) == {x \in Open(t, sep) \X Open(t, sep) :
    /\ x[1] <= x[2] /\ x[1]..x[2] \subseteq Open(t, sep)
    /\ x[1] - 1 \notin Open(t, sep) /\ x[2] + 1 \notin Open(t, sep)}

(* These parts of t are its stretches, from left to right.                   *)
InOrder(parts, stretches, t) == \E r \in [DOMAIN parts -> stretches] :
    /\ \A x \in stretches : \E i \in DOMAIN parts : r[i] = x
    /\ \A i, j \in DOMAIN parts : i < j => r[i][2] < r[j][1]
    /\ \A i \in DOMAIN parts : parts[i] = SubSeq(t, r[i][1], r[i][2])

(* EFStringComponentsSplitBySeparator returns the stretches between the      *)
(* separators, in order, also when separators touch, overlap or stand at an  *)
(* end; and no component of a valid ASCII or UTF-8 string is refused.        *)
SplitCorrect == \A s \in Str, sep \in Separators :
    LET t == Content(s)
        parts == Components(t, sep) IN
    Exists(s) /\ Splits(t, sep) =>
        /\ InOrder(parts, Stretches(t, sep), t)
        /\ encoding[s] # "UTF7" /\ Valid(t, encoding[s]) =>
              \A i \in DOMAIN parts : Valid(parts[i], encoding[s])

(* Creation, copies and edits have the effect of the abstract edits of       *)
(* EFText: moving cells inside a buffer loses and duplicates nothing.        *)
Abstract == INSTANCE EFText WITH text <- [s \in Str |-> Content(s)],
                                 exists <- [s \in Str |-> Exists(s)],
                                 editable <- isMutable
ImplementsText == Abstract!Spec
=============================================================================
