------------------------ MODULE EFConversionsProofs -------------------------
(***************************************************************************)
(* Proofs about EFConversions.                                             *)
(*                                                                         *)
(* The interpreter of formats writes inside its buffer and its array, and  *)
(* gives every item of a format the piece that printf promises: FormatInv  *)
(* says that the pieces put so far are those of the items read so far, and *)
(* that the arguments consumed so far are theirs.                          *)
(*                                                                         *)
(* A line that is a numeral is parsed as the number it denotes.  strtoull  *)
(* and the numeral of a number are recursive, so that they are shown to    *)
(* exist first, and then, digit by digit, to be inverse to each other.     *)
(* With FormatInv, which says what a description is made from, it follows  *)
(* that a number comes back from its description: NumberInv.               *)
(***************************************************************************)
EXTENDS EFConversions, TLAPS, SequenceTheorems, FiniteSetTheorems

(***************************************************************************)
(* Numbers                                                                 *)
(***************************************************************************)

\* The greater and the smaller of two.
LEMMA TwoNumbers ==
  ASSUME NEW a \in Int, NEW b \in Int
  PROVE  /\ Max({a, b}) = IF a >= b THEN a ELSE b
         /\ Min({a, b}) = IF a <= b THEN a ELSE b
BY DEF Max, Min

\* A set of naturals that is not empty has a least element.
LEMMA LeastExists ==
  ASSUME NEW S \in SUBSET Nat, S # {}
  PROVE  Min(S) \in S /\ \A y \in S : Min(S) <= y
<1> DEFINE R == StrictSubsetOrdering(Nat)
           T == {0..x : x \in S}
<1>1. IsWellFoundedOn(R, FiniteSubsetsOf(Nat))
  BY FS_StrictSubsetOrderingWellFounded
<1>2. T \subseteq FiniteSubsetsOf(Nat) /\ T # {}
  <2>1. ASSUME NEW x \in S PROVE 0..x \in FiniteSubsetsOf(Nat)
    <3>1. IsFiniteSet(0..x)
      BY FS_Interval
    <3> QED  BY <3>1 DEF FiniteSubsetsOf
  <2> QED  BY <2>1
<1>3. \E X \in T : \A Y \in T : <<Y, X>> \notin R
  <2> HIDE DEF R, T
  <2> QED  BY <1>1, <1>2, WFMin
<1>4. PICK x \in S : \A y \in S : <<0..y, 0..x>> \notin R
  BY <1>3
<1>5. ASSUME NEW y \in S PROVE x <= y
  <2> SUFFICES ASSUME y < x PROVE FALSE
    OBVIOUS
  <2>1. 0..y \subseteq 0..x /\ x \in 0..x /\ x \notin 0..y /\ 0..y \subseteq Nat /\ 0..x \subseteq Nat
    OBVIOUS
  <2> QED  BY <2>1, <1>4 DEF StrictSubsetOrdering
<1> QED  BY <1>5 DEF Min

(***************************************************************************)
(* Items and arguments                                                     *)
(***************************************************************************)

\* The items that are directives.
DirectiveSet == [flags : Nat, width : Fields, precision : Fields,
                 length : {"", "hh", "h", "l", "ll", "j", "z", "t", "L"},
                 conv : {"d", "u", "f", "c", "s", "p", "@", "n", "unknown", "end"}]

StarsOf(item) == IF IsDirective(item) THEN StarsRead(item) ELSE 0

\* What an item is made of, and how many arguments it takes.
LEMMA ItemShape ==
  ASSUME NEW item \in Items
  PROVE  /\ ~IsDirective(item) => item.text \in Nat
         /\ IsDirective(item) =>
               /\ item \in DirectiveSet
               /\ StarsRead(item) \in 0..2
               /\ LengthChars(item.length) \in 0..2
               /\ Raw(item) \in Nat
         /\ StarsOf(item) \in 0..2
         /\ Arguments(item) \in 0..3
         /\ Arguments(item) \in {StarsOf(item), StarsOf(item) + 1}
<1>1. CASE item \in [text : Nat] \cup {Percent}
  <2>1. "conv" \notin DOMAIN item /\ item.text \in Nat
    <3>1. CASE item \in [text : Nat]
      BY <3>1
    <3>2. CASE item = [text |-> 1, doubled |-> TRUE]
      BY <3>2
    <3> QED  BY <1>1, <3>1, <3>2 DEF Percent
  <2>2. ~IsDirective(item)
    BY <2>1 DEF IsDirective
  <2>3. Arguments(item) = 0 /\ StarsOf(item) = 0
    BY <2>2 DEF Arguments, StarsOf
  <2>4. 0 \in 0..2 /\ 0 \in 0..3
    OBVIOUS
  <2> QED  BY <2>1, <2>2, <2>3, <2>4
<1>2. CASE item \in DirectiveSet
  <2>1. IsDirective(item)
    BY <1>2 DEF IsDirective, DirectiveSet
  <2>2. item.flags \in Nat /\ item.width \in Fields /\ item.precision \in Fields
    BY <1>2 DEF DirectiveSet
  <2>3. LengthChars(item.length) \in 0..2
    <3>1. LengthChars(item.length) \in {0, 1, 2}
      BY ZenonT(20) DEF LengthChars
    <3> QED  BY <3>1
  <2>4. /\ Starred(item.width) \in 0..1 /\ Starred(item.precision) \in 0..1
        /\ Digits(item.width) \in Nat /\ Digits(item.precision) \in Nat
    BY <2>2 DEF Starred, Digits, Fields, Absent, Star
  <2>5. StarsRead(item) \in 0..2 /\ Raw(item) \in Nat
    BY <2>2, <2>3, <2>4 DEF StarsRead, Raw
  <2>6. StarsOf(item) = StarsRead(item)
    BY <2>1 DEF StarsOf
  <2>7. Arguments(item) = StarsRead(item) + IF item.conv \in {"unknown", "end", "n"} THEN 0 ELSE 1
    BY <2>1 DEF Arguments, StarsRead
  <2>8. Arguments(item) \in 0..3 /\ Arguments(item) \in {StarsRead(item), StarsRead(item) + 1}
    BY <2>5, <2>7
  <2> QED  BY <1>2, <2>1, <2>3, <2>5, <2>6, <2>8
<1> QED  BY <1>1, <1>2 DEF Items, DirectiveSet

LEMMA OneMore ==
  ASSUME NEW S, NEW n \in Nat, IsFiniteSet(S), Cardinality(S) = n, NEW x, x \notin S
  PROVE  IsFiniteSet(S \cup {x}) /\ Cardinality(S \cup {x}) = n + 1
BY FS_AddElement

\* Arguments are counted item by item.
LEMMA BeforeNext ==
  ASSUME NEW f \in Seq(Items), NEW i \in 1..Len(f)
  PROVE  Before(f, i) \in Nat /\ Before(f, i + 1) = Before(f, i) + Arguments(f[i])
<1> DEFINE A(n) == {a \in (1..n - 1) \X (1..3) : a[2] <= Arguments(f[a[1]])}
           k == Arguments(f[i])
<1>1. i \in Nat /\ i > 0 /\ f[i] \in Items
  BY ElementOfSeq, LenProperties
<1>2. k \in 0..3
  BY <1>1, ItemShape
<1>3. IsFiniteSet(A(i)) /\ Cardinality(A(i)) \in Nat
  <2>1. IsFiniteSet(1..i - 1) /\ IsFiniteSet(1..3)
    <3>1. i - 1 \in Int /\ 1 \in Int /\ 3 \in Int
      BY <1>1
    <3>2. IsFiniteSet(1..i - 1)
      BY <3>1, FS_Interval
    <3>3. IsFiniteSet(1..3)
      BY <3>1, FS_Interval
    <3> QED  BY <3>2, <3>3
  <2>2. IsFiniteSet((1..i - 1) \X (1..3))
    BY <2>1, FS_Product
  <2>3. IsFiniteSet(A(i))
    BY <2>2, FS_Subset
  <2> QED  BY <2>3, FS_CardinalityType
<1>4. A(i + 1) = A(i) \cup {<<i, j>> : j \in 1..k}
  <2>1. \A n \in 1..(i + 1) - 1 : n \in 1..i - 1 \/ n = i
    BY <1>1
  <2>2. \A n \in 1..i - 1 : n \in 1..(i + 1) - 1
    BY <1>1
  <2>3. i \in 1..(i + 1) - 1 /\ i \notin 1..i - 1
    BY <1>1
  <2>4. ASSUME NEW a \in A(i + 1) PROVE a \in A(i) \cup {<<i, j>> : j \in 1..k}
    <3>1. PICK n \in 1..(i + 1) - 1, j \in 1..3 : a = <<n, j>> /\ j <= Arguments(f[n])
      OBVIOUS
    <3>2. CASE n \in 1..i - 1
      BY <3>1, <3>2
    <3>3. CASE n = i
      <4>1. j \in 1..k
        BY <1>2, <3>1, <3>3
      <4> QED  BY <3>1, <3>3, <4>1
    <3> QED  BY <2>1, <3>2, <3>3
  <2>5. ASSUME NEW a \in A(i) PROVE a \in A(i + 1)
    BY <2>2
  <2>6. ASSUME NEW j \in 1..k PROVE <<i, j>> \in A(i + 1)
    <3>1. j \in 1..3 /\ j <= k
      BY <1>2
    <3> QED  BY <2>3, <3>1
  <2> HIDE DEF A
  <2> QED  BY <2>4, <2>5, <2>6
<1>5. \A j : <<i, j>> \notin A(i)
  BY <1>1
<1> HIDE DEF A
<1>6. CASE k = 0
  <2>1. 1..0 = {}
    OBVIOUS
  <2>2. A(i + 1) = A(i)
    BY <1>4, <1>6, <2>1
  <2>3. Cardinality(A(i)) + 0 = Cardinality(A(i))
    BY <1>3
  <2>4. Before(f, i + 1) = Cardinality(A(i + 1)) /\ Before(f, i) = Cardinality(A(i))
    BY DEF A, Before
  <2> QED  BY <1>3, <1>6, <2>2, <2>3, <2>4
<1>7. PICK c \in Nat : c = Cardinality(A(i))
  BY <1>3
<1>8. /\ IsFiniteSet(A(i) \cup {<<i, 1>>}) /\ Cardinality(A(i) \cup {<<i, 1>>}) = c + 1
  BY <1>3, <1>5, <1>7, OneMore
<1>9. /\ IsFiniteSet((A(i) \cup {<<i, 1>>}) \cup {<<i, 2>>})
      /\ Cardinality((A(i) \cup {<<i, 1>>}) \cup {<<i, 2>>}) = c + 2
  <2>1. <<i, 2>> \notin A(i) \cup {<<i, 1>>}
    BY <1>5
  <2>2. c + 1 \in Nat /\ (c + 1) + 1 = c + 2
    OBVIOUS
  <2> QED  BY <1>8, <2>1, <2>2, OneMore
<1>10. Cardinality(((A(i) \cup {<<i, 1>>}) \cup {<<i, 2>>}) \cup {<<i, 3>>}) = c + 3
  <2>1. <<i, 3>> \notin (A(i) \cup {<<i, 1>>}) \cup {<<i, 2>>}
    BY <1>5
  <2>2. c + 2 \in Nat /\ (c + 2) + 1 = c + 3
    OBVIOUS
  <2> QED  BY <1>9, <2>1, <2>2, OneMore
<1>11. CASE k = 1
  <2>1. 1..1 = {1}
    OBVIOUS
  <2>2. A(i + 1) = A(i) \cup {<<i, 1>>}
    BY <1>4, <1>11, <2>1
  <2> QED  BY <1>7, <1>8, <1>11, <2>2 DEF A, Before
<1>12. CASE k = 2
  <2>1. 1..2 = {1, 2}
    OBVIOUS
  <2>2. A(i + 1) = (A(i) \cup {<<i, 1>>}) \cup {<<i, 2>>}
    BY <1>4, <1>12, <2>1
  <2> QED  BY <1>7, <1>9, <1>12, <2>2 DEF A, Before
<1>13. CASE k = 3
  <2>1. 1..3 = {1, 2, 3}
    OBVIOUS
  <2>2. A(i + 1) = ((A(i) \cup {<<i, 1>>}) \cup {<<i, 2>>}) \cup {<<i, 3>>}
    BY <1>4, <1>13, <2>1
  <2> QED  BY <1>7, <1>10, <1>13, <2>2 DEF A, Before
<1> QED  BY <1>2, <1>6, <1>11, <1>12, <1>13

LEMMA BeforeFirst == ASSUME NEW f PROVE Before(f, 1) = 0
<1>1. {a \in (1..1 - 1) \X (1..3) : a[2] <= Arguments(f[a[1]])} = {}
  OBVIOUS
<1> QED  BY <1>1, FS_EmptySet DEF Before

(***************************************************************************)
(* The array for a directive                                               *)
(***************************************************************************)

\* Of n digits none is stored beyond the limit, and all are if they fit.
LEMMA StoredDigits ==
  ASSUME NEW si \in Nat, NEW n \in Nat
  PROVE  /\ Stored(si, n) \in Nat /\ Stored(si, n) <= n
         /\ si <= SpecLimit => si + Stored(si, n) <= SpecLimit
         /\ si + n <= SpecLimit => Stored(si, n) = n
<1>1. SpecLimit \in Nat
  BY FormatAssumption
<1>2. Max({0, SpecLimit - si}) = IF 0 >= SpecLimit - si THEN 0 ELSE SpecLimit - si
  BY <1>1, TwoNumbers
<1>3. PICK room \in Nat : room = Max({0, SpecLimit - si})
  BY <1>1, <1>2
<1>4. Stored(si, n) = IF n <= room THEN n ELSE room
  <2>1. n \in Int /\ room \in Int
    OBVIOUS
  <2>2. Min({n, room}) = IF n <= room THEN n ELSE room
    BY <2>1, TwoNumbers
  <2> QED  BY <1>3, <2>2 DEF Stored
<1> QED  BY <1>1, <1>2, <1>3, <1>4

\* A field is absent, a star or digits.
LEMMA FieldShape ==
  ASSUME NEW field \in Fields
  PROVE  /\ Digits(field) \in Nat /\ Starred(field) \in 0..1
         /\ field = Star => Digits(field) = 0 /\ Starred(field) = 1
         /\ field # Star => Starred(field) = 0
         /\ field >= 0 => field \in Nat /\ Digits(field) = field
         /\ field < 0 => field \in {Absent, Star}
BY DEF Fields, Digits, Starred, Absent, Star

\* The cells that a directive takes up to its width.
LEMMA WidthCells ==
  ASSUME NEW item \in DirectiveSet, item.flags < SpecLimit, NEW star \in 0..11
  PROVE  /\ UpToWidth(item, star) \in Nat /\ UpToWidth(item, star) >= 1
         /\ UpToWidth(item, star) <= 1 + item.flags + Digits(item.width) + Starred(item.width) + 10
         /\ item.width # Star => UpToWidth(item, star) <= SpecLimit
<1>1. SpecLimit \in Nat /\ item.flags \in Nat /\ item.width \in Fields
  BY FormatAssumption DEF DirectiveSet
<1>2. 1 + item.flags \in Nat /\ 1 + item.flags <= SpecLimit
  BY <1>1
<1>3. CASE item.width = Star
  <2>1. UpToWidth(item, star) = 1 + item.flags + star
    BY <1>3 DEF UpToWidth
  <2> QED  BY <1>1, <1>3, <2>1, FieldShape
<1>4. CASE item.width # Star
  <2>1. UpToWidth(item, star) = 1 + item.flags + Stored(1 + item.flags, Digits(item.width))
    BY <1>4 DEF UpToWidth
  <2>2. Digits(item.width) \in Nat /\ Starred(item.width) = 0
    <3>1. item.width \in Fields
      BY <1>1
    <3> QED  BY <1>4, <3>1, FieldShape
  <2>3. PICK n \in Nat, si \in Nat : n = Digits(item.width) /\ si = 1 + item.flags
    BY <1>2, <2>2
  <2>4. Stored(si, n) \in Nat /\ Stored(si, n) <= n /\ si + Stored(si, n) <= SpecLimit
    BY <1>2, <2>3, StoredDigits
  <2> QED  BY <1>1, <1>4, <2>1, <2>2, <2>3, <2>4
<1> QED  BY <1>3, <1>4

\* The cells that it takes up to its precision.
LEMMA PrecisionCells ==
  ASSUME NEW item \in DirectiveSet, item.flags < SpecLimit, NEW star \in 0..11
  PROVE  /\ UpToPrecision(item, star) \in Nat
         /\ UpToPrecision(item, star) <= UpToWidth(item, star) + 10
              + (IF item.precision = Absent THEN 0 ELSE 1 + Digits(item.precision) + Starred(item.precision))
         /\ item.width # Star /\ item.precision # Star => UpToPrecision(item, star) <= SpecLimit
<1>1. SpecLimit \in Nat /\ item.precision \in Fields
  BY FormatAssumption DEF DirectiveSet
<1>2. PICK u \in Nat : u = UpToWidth(item, star)
  BY WidthCells
<1>3. item.width # Star => u <= SpecLimit
  BY <1>2, WidthCells
<1>4. PICK d \in Nat : d = IF item.precision # Absent /\ u < SpecLimit THEN u + 1 ELSE u
  OBVIOUS
<1>5. UpToPrecision(item, star) = IF item.precision = Star THEN d + star ELSE d + Stored(d, Digits(item.precision))
  BY <1>2, <1>4 DEF UpToPrecision
<1>6. CASE item.precision = Star
  <2>1. item.precision # Absent
    BY <1>6 DEF Absent, Star
  <2>2. Digits(item.precision) = 0 /\ Starred(item.precision) = 1
    BY <1>1, <1>6, FieldShape
  <2> QED  BY <1>1, <1>2, <1>4, <1>5, <1>6, <2>1, <2>2
<1>7. CASE item.precision # Star
  <2>1. PICK n \in Nat : n = Digits(item.precision)
    BY <1>1, FieldShape
  <2>2. Starred(item.precision) = 0
    BY <1>1, <1>7, FieldShape
  <2>3. PICK s \in Nat : s = Stored(d, n) /\ s <= n /\ (d <= SpecLimit => d + s <= SpecLimit)
    BY StoredDigits
  <2>4. UpToPrecision(item, star) = d + s
    BY <1>5, <1>7, <2>1, <2>3
  <2>5. item.precision = Absent => n = 0
    BY <2>1 DEF Absent, Digits
  <2>6. u <= SpecLimit => d <= SpecLimit
    BY <1>1, <1>4
  <2>7. d + s <= u + 10 + (IF item.precision = Absent THEN 0 ELSE 1 + n + 0)
    BY <1>4, <2>3, <2>5
  <2>8. item.width # Star => d + s <= SpecLimit
    BY <1>3, <2>3, <2>6
  <2> QED  BY <1>2, <2>1, <2>2, <2>4, <2>7, <2>8
<1> QED  BY <1>6, <1>7

\* A directive overruns its array only where a star's number is behind many
\* flags and digits.
LEMMA DirectiveCells ==
  ASSUME NEW item \in DirectiveSet, item.flags < SpecLimit, NEW star \in 0..11
  PROVE  /\ CellsOf(item, star) \in Nat
         /\ item.conv \notin Unstored => CellsOf(item, star) - 1 \in Nat
         /\ CellsOf(item, star) > SpecSize => StarsRead(item) > 0 /\ Raw(item) > SpecSize - 2 * 11 - 5
<1>1. SpecLimit \in Nat /\ SpecSize \in Nat /\ SpecLimit + 4 <= SpecSize
  BY FormatAssumption
<1>2. item.flags \in Nat /\ item.width \in Fields /\ item.precision \in Fields /\ item \in Items /\ IsDirective(item)
  BY DEF DirectiveSet, Items, IsDirective
<1>3. PICK c \in 0..2 : c = LengthChars(item.length)
  BY <1>2, ItemShape
<1>4. PICK u \in Nat : u = UpToWidth(item, star)
  BY WidthCells
<1>5. PICK v \in Nat : v = UpToPrecision(item, star)
  BY PrecisionCells
<1>6. PICK l \in Nat : l = UpToLength(item, star) /\ l = v + c
  BY <1>3, <1>5 DEF UpToLength
<1>7. /\ CellsOf(item, star) \in {l + 2, l, SpecSize}
      /\ item.conv \notin Unstored => CellsOf(item, star) = l + 2
  BY <1>1, <1>6 DEF CellsOf
<1>8. /\ CellsOf(item, star) \in Nat
      /\ item.conv \notin Unstored => CellsOf(item, star) - 1 \in Nat
      /\ CellsOf(item, star) > SpecSize => v + c + 2 > SpecSize
  BY <1>1, <1>6, <1>7
<1>9. PICK a \in Nat, b \in 0..1 : a = Digits(item.width) /\ b = Starred(item.width)
  BY <1>2, FieldShape
<1>10. PICK m \in Nat, t \in 0..1 : m = Digits(item.precision) /\ t = Starred(item.precision)
  BY <1>2, FieldShape
<1>11. PICK e \in Nat : e = IF item.precision = Absent THEN 0 ELSE 1 + m + t
  OBVIOUS
<1>12. Raw(item) = 1 + item.flags + a + b + e + c
  BY <1>3, <1>9, <1>10, <1>11 DEF Raw
<1>13. v <= u + 10 + e /\ u <= 1 + item.flags + a + b + 10
  BY <1>4, <1>5, <1>9, <1>10, <1>11, WidthCells, PrecisionCells
<1>14. StarsRead(item) = b + t
  BY <1>9, <1>10 DEF StarsRead
<1>15. b + t = 0 => v <= SpecLimit
  <2>1. b + t = 0 => b = 0 /\ t = 0
    OBVIOUS
  <2>2. b = 0 => item.width # Star
    BY <1>9 DEF Starred
  <2>3. t = 0 => item.precision # Star
    BY <1>10 DEF Starred
  <2> QED  BY <2>1, <2>2, <2>3, <1>5, PrecisionCells
<1>16. v + c + 2 > SpecSize => b + t > 0
  BY <1>1, <1>15
<1>17. v + c + 2 > SpecSize => 1 + item.flags + a + b + e + c > SpecSize - 2 * 11 - 5
  BY <1>1, <1>2, <1>13
<1> QED  BY <1>8, <1>12, <1>14, <1>16, <1>17

\* What snprintf gets is the directive, all of it where there is room.
LEMMA RebuiltDirective ==
  ASSUME NEW item \in DirectiveSet, item.flags < SpecLimit, NEW star \in 0..11
  PROVE  /\ Rebuilt(item, star) \in Items /\ Rebuilt(item, star).conv = item.conv
         /\ Raw(item) <= SpecLimit - 2 * 11 => Rebuilt(item, star) = item
<1>1. SpecLimit \in Nat
  BY FormatAssumption
<1>2. item.flags \in Nat /\ item.width \in Fields /\ item.precision \in Fields /\ item \in Items /\ IsDirective(item)
  BY DEF DirectiveSet, Items, IsDirective
<1>3. PICK c \in 0..2 : c = LengthChars(item.length)
  BY <1>2, ItemShape
<1>4. PICK u \in Nat : u = UpToWidth(item, star)
  BY WidthCells
<1>5. PICK a \in Nat, b \in 0..1 : a = Digits(item.width) /\ b = Starred(item.width)
  BY <1>2, FieldShape
<1>6. PICK m \in Nat, t \in 0..1 : m = Digits(item.precision) /\ t = Starred(item.precision)
  BY <1>2, FieldShape
<1>7. PICK e \in Nat : e = IF item.precision = Absent THEN 0 ELSE 1 + m + t
  OBVIOUS
<1>8. Raw(item) = 1 + item.flags + a + b + e + c
  BY <1>3, <1>5, <1>6, <1>7 DEF Raw
<1>9. u <= 1 + item.flags + a + b + 10
  BY <1>4, <1>5, WidthCells
<1>10. PICK w \in Fields : /\ w = IF item.width < 0 THEN item.width ELSE Stored(1 + item.flags, item.width)
                           /\ Raw(item) <= SpecLimit - 2 * 11 => w = item.width
  <2>1. CASE item.width < 0
    BY <1>2, <2>1
  <2>2. CASE ~(item.width < 0)
    <3>1. item.width \in Nat /\ a = item.width
      BY <1>2, <1>5, <2>2, FieldShape DEF Fields, Absent, Star
    <3>2. 1 + item.flags \in Nat /\ (Raw(item) <= SpecLimit - 2 * 11 => 1 + item.flags + a <= SpecLimit)
      BY <1>1, <1>2, <1>8
    <3>3. /\ Stored(1 + item.flags, item.width) \in Nat
          /\ Raw(item) <= SpecLimit - 2 * 11 => Stored(1 + item.flags, item.width) = item.width
      BY <3>1, <3>2, StoredDigits
    <3>4. Stored(1 + item.flags, item.width) \in Fields
      BY <3>3 DEF Fields
    <3> QED  BY <2>2, <3>3, <3>4
  <2> QED  BY <2>1, <2>2
<1>11. PICK p \in Fields : /\ p = IF item.precision < 0 THEN item.precision ELSE Stored(UpToWidth(item, star) + 1, item.precision)
                           /\ Raw(item) <= SpecLimit - 2 * 11 => p = item.precision
  <2>1. CASE item.precision < 0
    BY <1>2, <2>1
  <2>2. CASE ~(item.precision < 0)
    <3>1. item.precision \in Nat /\ m = item.precision /\ item.precision # Absent
      BY <1>2, <1>6, <2>2, FieldShape DEF Fields, Absent, Star
    <3>2. u + 1 \in Nat /\ (Raw(item) <= SpecLimit - 2 * 11 => u + 1 + m <= SpecLimit)
      BY <1>1, <1>2, <1>7, <1>8, <1>9, <3>1
    <3>3. /\ Stored(u + 1, item.precision) \in Nat
          /\ Raw(item) <= SpecLimit - 2 * 11 => Stored(u + 1, item.precision) = item.precision
      BY <3>1, <3>2, StoredDigits
    <3>4. Stored(u + 1, item.precision) \in Fields
      BY <3>3 DEF Fields
    <3> QED  BY <1>4, <2>2, <3>3, <3>4
  <2> QED  BY <2>1, <2>2
<1>12. Rebuilt(item, star) = [item EXCEPT !.width = w, !.precision = p]
  BY <1>10, <1>11 DEF Rebuilt
<1>13. /\ [item EXCEPT !.width = w, !.precision = p] \in DirectiveSet
       /\ [item EXCEPT !.width = w, !.precision = p].conv = item.conv
  BY DEF DirectiveSet
<1>14. w = item.width /\ p = item.precision => [item EXCEPT !.width = w, !.precision = p] = item
  BY DEF DirectiveSet
<1> QED  BY <1>10, <1>11, <1>12, <1>13, <1>14 DEF DirectiveSet, Items

(***************************************************************************)
(* The invariant                                                           *)
(***************************************************************************)

ArgTypes == {Untyped, "int", "l", "ll", "j", "z", "t", "double", "long double", "pointer"}
Pieces == [item : Items, stars : Seq(Nat), arg : Nat, type : ArgTypes, nul : BOOLEAN]

\* A piece is what printf promises for item i of f, except that digits may
\* be dropped where there are many, and that a character may be NUL.
IsExpected(f, i, piece) ==
    /\ IsDirective(f[i]) => f[i].conv # "n"
    /\ piece \in Pieces
    /\ LET expected == Expected(f, i)
       IN  piece.stars = expected.stars /\ piece.arg = expected.arg /\ piece.type = expected.type
    /\ IsDirective(f[i]) => piece.item.conv = f[i].conv
    /\ IsDirective(f[i]) /\ Raw(f[i]) <= SpecLimit - 2 * 11 => piece.item = f[i]
    /\ piece.nul => IsDirective(f[i]) /\ f[i].conv = "c"

FormatType == /\ next \in Nat /\ size \in Nat /\ cap \in Nat /\ top \in Nat /\ cells \in Nat
              /\ failed \in BOOLEAN /\ out \in Seq(Pieces)

NoCall == /\ fmt = Idle /\ asked = Idle /\ result = Waiting
          /\ next = 0 /\ failed = FALSE /\ out = <<>>

\* The items left to read are the end of the format.
Remaining == /\ fmt \in Seq(Items) /\ asked \in Seq(Items) /\ Len(fmt) <= Len(asked)
             /\ \A j \in 1..Len(fmt) : fmt[j] = asked[Len(asked) - Len(fmt) + j]

\* Every item that was read has its piece, and its arguments were consumed.
PiecesMade == /\ Len(out) = Len(asked) - Len(fmt)
              /\ next = Before(asked, Len(out) + 1)
              /\ \A i \in 1..Len(out) : IsExpected(asked, i, out[i])

FormatInv ==
    /\ FormatType
    /\ NoCall \/ Remaining
    /\ top <= cap
    /\ cells > SpecSize =>
          /\ result = Undefined /\ fmt # <<>> /\ IsDirective(Item)
          /\ StarsRead(Item) > 0 /\ Raw(Item) > SpecSize - 2 * 11 - 5
    /\ asked # Idle /\ ~failed /\ result # Undefined => PiecesMade
    /\ result \notin {Waiting, Null, Undefined} => ~failed /\ fmt = <<>> /\ result = BeforeNul(out)

(***************************************************************************)
(* Pieces                                                                  *)
(***************************************************************************)

\* What printf takes an argument as, and what __EFEmitValue reads it as.
LEMMA ReadAsPromised ==
  ASSUME NEW length, NEW conv \in {"d", "u", "f", "c", "s", "p"}
  PROVE  ReadAs(length, conv) = Promised(length, conv)
<1>1. CASE conv \in {"d", "u"} /\ length \in {"l", "ll", "j", "z", "t"}
  BY <1>1 DEF ReadAs, Promised
<1>2. CASE conv \in {"d", "u"} /\ length \notin {"l", "ll", "j", "z", "t"}
  BY <1>2 DEF ReadAs, Promised
<1>3. CASE conv = "f"
  BY <1>3 DEF ReadAs, Promised
<1>4. CASE conv = "c"
  BY <1>4 DEF ReadAs, Promised
<1>5. CASE conv \in {"s", "p"}
  BY <1>5 DEF ReadAs, Promised
<1> QED  BY <1>1, <1>2, <1>3, <1>4, <1>5

LEMMA PromisedType ==
  ASSUME NEW length \in {"", "hh", "h", "l", "ll", "j", "z", "t", "L"},
         NEW conv \in {"d", "u", "f", "c", "s", "p", "@", "n", "unknown", "end"}
  PROVE  Promised(length, conv) \in ArgTypes
<1>1. CASE conv \in {"s", "p", "@"}
  BY <1>1 DEF Promised, ArgTypes
<1>2. CASE conv = "f"
  BY <1>2 DEF Promised, ArgTypes
<1>3. CASE conv \in {"d", "u"} /\ length \in {"l", "ll", "j", "z", "t"}
  BY <1>3 DEF Promised, ArgTypes
<1>4. CASE conv \notin {"s", "p", "@", "f"} /\ ~(conv \in {"d", "u"} /\ length \in {"l", "ll", "j", "z", "t"})
  BY <1>4 DEF Promised, ArgTypes
<1> QED  BY <1>1, <1>2, <1>3, <1>4

\* The arguments for stars come first.
LEMMA StarArguments ==
  ASSUME NEW b \in Nat, NEW n \in 0..2
  PROVE  [k \in 1..n |-> b + k] \in Seq(Nat)
<1>1. n \in Nat /\ \A k \in 1..n : b + k \in Nat
  OBVIOUS
<1> QED  BY <1>1, IsASeq

\* What makes a piece the one that is expected for an item.
LEMMA ExpectedPiece ==
  ASSUME NEW f \in Seq(Items), NEW i \in 1..Len(f), NEW b \in Nat, b = Before(f, i),
         NEW spec \in Items, NEW nul \in BOOLEAN, NEW stars, NEW arg, NEW type,
         IsDirective(f[i]) => f[i].conv # "n" /\ spec.conv = f[i].conv,
         nul => IsDirective(f[i]) /\ f[i].conv = "c",
         IsDirective(f[i]) /\ Raw(f[i]) <= SpecLimit - 2 * 11 => spec = f[i],
         stars = [k \in 1..StarsOf(f[i]) |-> b + k],
         arg = IF Arguments(f[i]) > StarsOf(f[i]) THEN b + Arguments(f[i]) ELSE NoArg,
         type = IF Arguments(f[i]) = StarsOf(f[i]) THEN Untyped ELSE Promised(f[i].length, f[i].conv)
  PROVE  IsExpected(f, i, [item |-> spec, stars |-> stars, arg |-> arg, type |-> type, nul |-> nul])
<1> DEFINE piece == [item |-> spec, stars |-> stars, arg |-> arg, type |-> type, nul |-> nul]
<1>1. f[i] \in Items
  BY ElementOfSeq, LenProperties
<1>2. /\ StarsOf(f[i]) \in 0..2 /\ Arguments(f[i]) \in 0..3
      /\ ~IsDirective(f[i]) => StarsOf(f[i]) = 0 /\ Arguments(f[i]) = 0
  BY <1>1, ItemShape DEF StarsOf, Arguments
<1>3. stars \in Seq(Nat)
  BY <1>2, StarArguments
<1>4. arg \in Nat
  BY <1>2 DEF NoArg
<1>5. type \in ArgTypes
  <2>1. CASE Arguments(f[i]) = StarsOf(f[i])
    BY <2>1 DEF ArgTypes
  <2>2. CASE Arguments(f[i]) # StarsOf(f[i])
    <3>1. f[i] \in DirectiveSet
      BY <1>1, <1>2, <2>2, ItemShape
    <3> QED  BY <2>2, <3>1, PromisedType DEF DirectiveSet
  <2> QED  BY <2>1, <2>2
<1>6. piece \in Pieces
  BY <1>3, <1>4, <1>5 DEF Pieces
<1>7. StarsOf(f[i]) = IF IsDirective(f[i]) THEN Starred(f[i].width) + Starred(f[i].precision) ELSE 0
  BY DEF StarsOf, StarsRead
<1>8. Expected(f, i) = [item |-> f[i], stars |-> stars, arg |-> arg, type |-> type, nul |-> FALSE]
  BY <1>7 DEF Expected, Piece
<1>9. /\ piece.item = spec /\ piece.nul = nul /\ piece.stars = Expected(f, i).stars
      /\ piece.arg = Expected(f, i).arg /\ piece.type = Expected(f, i).type
  BY <1>8
<1> HIDE DEF piece
<1>10. IsExpected(f, i, piece)
  BY <1>6, <1>9 DEF IsExpected
<1> QED  BY <1>10 DEF piece

(***************************************************************************)
(* The buffer                                                              *)
(***************************************************************************)

\* What is put into the buffer stays inside it, with its terminator.
LEMMA PutStep ==
  ASSUME FormatType, top <= cap, NEW piece \in Pieces, NEW n \in Nat, NEW terminator \in 0..1,
         Put(piece, n, terminator)
  PROVE  /\ size' \in Nat /\ cap' \in Nat /\ top' \in Nat /\ failed' \in BOOLEAN /\ out' \in Seq(Pieces)
         /\ top' <= cap'
         /\ ~failed' => ~failed /\ out' = Append(out, piece)
<1>1. CASE /\ ~failed
           /\ Grows(n) => Capacities(size + n + 1) # {}
           /\ size' = size + n
           /\ cap' = EnsuredCap(n)
           /\ top' = Max({top, size + n + terminator})
           /\ out' = Append(out, piece)
           /\ UNCHANGED failed
  <2>1. size \in Nat /\ cap \in Nat /\ top \in Nat /\ out \in Seq(Pieces) /\ failed \in BOOLEAN
    BY DEF FormatType
  <2>2. out' \in Seq(Pieces)
    BY <1>1, <2>1, AppendProperties
  <2>3. cap' \in Nat /\ size + n + 1 <= cap' /\ cap <= cap'
    <3>1. CASE Grows(n)
      <4>1. PICK need \in Nat : need = size + n + 1
        BY <2>1
      <4>2. Capacities(need) \subseteq Nat /\ \A c \in Capacities(need) : need <= c
        <5>1. ASSUME NEW k \in 0..MaxDoublings PROVE (IF cap = 0 THEN FirstCap ELSE cap) * 2^k \in Int
          <6>1. PICK first \in Int : first = IF cap = 0 THEN FirstCap ELSE cap
            BY <2>1, FormatAssumption
          <6>2. PICK p \in Int : p = 2^k
            BY FormatAssumption
          <6>3. first * p \in Int
            OBVIOUS
          <6> QED  BY <6>1, <6>2, <6>3
        <5>2. \A c \in Capacities(need) : c \in Int /\ c >= need
          BY <5>1 DEF Capacities
        <5> QED  BY <5>2
      <4>3. Min(Capacities(need)) \in Capacities(need)
        BY <1>1, <3>1, <4>1, <4>2, LeastExists
      <4>4. cap' = Min(Capacities(need))
        BY <1>1, <3>1, <4>1 DEF EnsuredCap, Doubled
      <4>5. cap' \in Nat /\ need <= cap'
        BY <4>2, <4>3, <4>4
      <4> QED  BY <2>1, <3>1, <4>1, <4>5 DEF Grows
    <3>2. CASE ~Grows(n)
      <4>1. cap' = cap
        BY <1>1, <3>2 DEF EnsuredCap
      <4> QED  BY <2>1, <3>2, <4>1 DEF Grows
    <3> QED  BY <3>1, <3>2
  <2>4. top' = IF top >= size + n + terminator THEN top ELSE size + n + terminator
    <3>1. top \in Int /\ size + n + terminator \in Int
      BY <2>1
    <3> QED  BY <1>1, <3>1, TwoNumbers
  <2> QED  BY <1>1, <2>1, <2>2, <2>3, <2>4
<1>2. CASE failed' = TRUE /\ UNCHANGED <<size, cap, top, out>>
  BY <1>2 DEF FormatType
<1> QED  BY <1>1, <1>2 DEF Put

(***************************************************************************)
(* Reading an item                                                         *)
(***************************************************************************)

LEMMA IdleIsNoFormat == Idle \notin Seq(Items)
<1> SUFFICES ASSUME Idle \in Seq(Items) PROVE FALSE
  OBVIOUS
<1>1. Len(Idle) = 1 /\ Idle[1] = [idle |-> TRUE]
  BY DEF Idle
<1>2. Idle[1] \in Items
  <2>1. 1 \in 1..Len(Idle)
    BY <1>1
  <2> QED  BY <2>1, ElementOfSeq
<1>3. PICK item \in Items : item = [idle |-> TRUE]
  BY <1>1, <1>2
<1>4. CASE item \in [text : Nat]
  BY <1>3, <1>4
<1>5. CASE item = Percent
  <2>1. DOMAIN [idle |-> TRUE] = {"idle"} /\ DOMAIN [text |-> 1, doubled |-> TRUE] = {"text", "doubled"}
    OBVIOUS
  <2> QED  BY <1>3, <1>5, <2>1 DEF Percent
<1>6. CASE item \in DirectiveSet
  BY <1>3, <1>6 DEF DirectiveSet
<1> QED  BY <1>4, <1>5, <1>6 DEF Items, DirectiveSet

LEMMA NotYet == Waiting # Undefined /\ Waiting # Null
<1>1. DOMAIN [waiting |-> TRUE] = {"waiting"} /\ DOMAIN [undefined |-> TRUE] = {"undefined"} /\ DOMAIN [null |-> TRUE] = {"null"}
  OBVIOUS
<1>2. [waiting |-> TRUE] # [undefined |-> TRUE] /\ [waiting |-> TRUE] # [null |-> TRUE]
  BY <1>1
<1> QED  BY <1>2 DEF Waiting, Undefined, Null

\* The item that is read is the first whose piece is not in the buffer.
LEMMA ItemRead ==
  ASSUME FormatInv, Reading
  PROVE  /\ Remaining /\ asked # Idle /\ Len(fmt) > 0 /\ Item \in Items
         /\ ~failed => /\ PiecesMade
                       /\ Len(out) + 1 \in 1..Len(asked) /\ Item = asked[Len(out) + 1]
<1>1. Remaining
  BY DEF FormatInv, NoCall, Reading
<1>2. asked # Idle
  BY <1>1, IdleIsNoFormat DEF Remaining
<1>3. fmt \in Seq(Items) /\ asked \in Seq(Items) /\ fmt # <<>>
  BY <1>1 DEF Remaining, Reading
<1>4. Len(fmt) \in Nat /\ Len(asked) \in Nat /\ Len(fmt) > 0 /\ Item = fmt[1]
  BY <1>3, EmptySeq, LenProperties, HeadTailProperties DEF Item
<1>5. 1 \in 1..Len(fmt)
  BY <1>4
<1>6. Item \in Items
  BY <1>3, <1>4, <1>5, ElementOfSeq
<1>7. Item = asked[Len(asked) - Len(fmt) + 1]
  BY <1>1, <1>4, <1>5 DEF Remaining
<1>8. ~failed => PiecesMade
  BY <1>2, NotYet DEF FormatInv, Reading
<1>9. ASSUME ~failed PROVE Len(out) + 1 \in 1..Len(asked) /\ Item = asked[Len(out) + 1]
  <2>1. Len(out) = Len(asked) - Len(fmt) /\ Len(fmt) <= Len(asked)
    BY <1>1, <1>8, <1>9 DEF PiecesMade, Remaining
  <2> QED  BY <1>4, <1>7, <2>1
<1> QED  BY <1>1, <1>2, <1>4, <1>6, <1>8, <1>9

\* A step that reads an item, consumes its arguments and puts its piece into
\* the buffer keeps the invariant.
LEMMA PieceStep ==
  ASSUME FormatInv, Reading, Advance,
         NEW piece \in Pieces, NEW n \in Nat, NEW terminator \in 0..1, Put(piece, n, terminator),
         next' = next + Arguments(Item), cells' \in Nat, cells' <= SpecSize,
         ~failed => IsExpected(asked, Len(out) + 1, piece)
  PROVE  FormatInv'
<1>1. /\ Remaining /\ asked # Idle /\ Len(fmt) > 0 /\ Item \in Items
      /\ ~failed => /\ PiecesMade
                    /\ Len(out) + 1 \in 1..Len(asked) /\ Item = asked[Len(out) + 1]
  BY ItemRead
<1>2. /\ size' \in Nat /\ cap' \in Nat /\ top' \in Nat /\ failed' \in BOOLEAN /\ out' \in Seq(Pieces)
      /\ top' <= cap'
      /\ ~failed' => ~failed /\ out' = Append(out, piece)
  BY PutStep DEF FormatInv
<1>3. Arguments(Item) \in 0..3 /\ next \in Nat
  BY <1>1, ItemShape DEF FormatInv, FormatType
<1>4. FormatType'
  BY <1>2, <1>3 DEF FormatType
<1>5. fmt \in Seq(Items) /\ fmt # <<>> /\ fmt' = Tail(fmt) /\ asked' = asked /\ asked \in Seq(Items)
  BY <1>1 DEF Remaining, Reading, Advance
<1>6. /\ fmt' \in Seq(Items) /\ Len(fmt') = Len(fmt) - 1
      /\ \A j \in 1..Len(fmt') : fmt'[j] = fmt[j + 1]
  BY <1>5, HeadTailProperties
<1>7. Len(fmt) \in Nat /\ Len(asked) \in Nat
  BY <1>5, LenProperties
<1>8. Remaining'
  <2>1. ASSUME NEW j \in 1..Len(fmt') PROVE fmt'[j] = asked[Len(asked) - Len(fmt') + j]
    <3>1. j + 1 \in 1..Len(fmt) /\ Len(asked) - Len(fmt') + j = Len(asked) - Len(fmt) + (j + 1)
      BY <1>6, <1>7
    <3> QED  BY <1>1, <1>6, <3>1 DEF Remaining
  <2>2. Len(fmt') <= Len(asked)
    BY <1>1, <1>6, <1>7 DEF Remaining
  <2> QED  BY <1>5, <1>6, <2>1, <2>2 DEF Remaining
<1>9. result' = Waiting
  BY DEF Reading, Advance
<1>10. ASSUME ~failed' PROVE PiecesMade'
  <2>1. out \in Seq(Pieces) /\ ~failed /\ PiecesMade /\ out' = Append(out, piece)
    BY <1>1, <1>2, <1>10 DEF FormatInv, FormatType
  <2>2. /\ Len(out') = Len(out) + 1
        /\ \A i \in 1..Len(out) : out'[i] = out[i]
        /\ out'[Len(out) + 1] = piece
    BY <2>1, AppendProperties
  <2>3. Len(out) \in Nat /\ Len(out) = Len(asked) - Len(fmt)
    BY <2>1, LenProperties DEF PiecesMade
  <2>4. PICK m \in Nat : m = Len(out)
    BY <2>3
  <2>5. m + 1 \in 1..Len(asked) /\ Item = asked[m + 1] /\ next = Before(asked, m + 1)
    BY <1>1, <2>1, <2>4 DEF PiecesMade
  <2>6. next' = Before(asked, m + 1 + 1)
    BY <1>5, <2>5, BeforeNext
  <2>7. ASSUME NEW i \in 1..Len(out') PROVE IsExpected(asked, i, out'[i])
    <3>1. CASE i \in 1..Len(out)
      BY <2>1, <2>2, <3>1 DEF PiecesMade
    <3>2. CASE i = Len(out) + 1
      BY <2>1, <2>2, <3>2
    <3>3. i \in 1..Len(out) \/ i = Len(out) + 1
      BY <2>2, <2>3
    <3> QED  BY <3>1, <3>2, <3>3
  <2>8. Len(out') = Len(asked) - Len(fmt')
    BY <1>6, <1>7, <2>2, <2>3
  <2>9. Len(out') + 1 = m + 1 + 1
    BY <2>2, <2>4
  <2> QED  BY <1>5, <2>6, <2>7, <2>8, <2>9 DEF PiecesMade
<1>11. ~(cells' > SpecSize)
  BY FormatAssumption
<1> QED  BY <1>2, <1>4, <1>8, <1>9, <1>10, <1>11 DEF FormatInv

(***************************************************************************)
(* The steps of a call                                                     *)
(***************************************************************************)

LEMMA StartsFresh == InitFormat => FormatInv
<1> SUFFICES ASSUME InitFormat PROVE FormatInv
  OBVIOUS
<1>1. FormatType
  <2>1. <<>> \in Seq(Pieces)
    BY EmptySeq
  <2> QED  BY <2>1 DEF InitFormat, FormatType
<1>2. NoCall /\ top <= cap /\ ~(cells > SpecSize)
  BY FormatAssumption DEF InitFormat, NoCall
<1> QED  BY <1>1, <1>2 DEF FormatInv, InitFormat

LEMMA UnchangedCall == FormatInv /\ UNCHANGED formatVars => FormatInv'
BY DEF FormatInv, FormatType, NoCall, Remaining, PiecesMade, Item, BeforeNul, formatVars, callVars

LEMMA BeginStep ==
  ASSUME FormatInv, NEW f \in Seq(Items), Begin(f)
  PROVE  FormatInv'
<1>1. NoCall /\ fmt' = f /\ asked' = f /\ UNCHANGED callVars
  BY IdleIsNoFormat DEF FormatInv, Remaining, Begin
<1>2. FormatType'
  BY <1>1 DEF FormatInv, FormatType, callVars
<1>3. Len(f) \in Nat
  BY LenProperties
<1>4. Remaining'
  <2>1. \A j \in 1..Len(f) : Len(f) - Len(f) + j = j
    BY <1>3
  <2> QED  BY <1>1, <1>3, <2>1 DEF Remaining
<1>5. Len(out') = 0
  BY <1>1 DEF NoCall, callVars
<1>6. PiecesMade'
  <2>1. next' = Before(f, 1)
    BY <1>1, BeforeFirst DEF NoCall, callVars
  <2>2. Len(f) - Len(f) = 0 /\ 0 + 1 = 1 /\ \A i : i \notin 1..0
    BY <1>3
  <2> QED  BY <1>1, <1>5, <2>1, <2>2 DEF PiecesMade
<1>7. result' = Waiting /\ ~(cells' > SpecSize) /\ top' <= cap'
  BY <1>1, NotYet DEF FormatInv, NoCall, callVars
<1> QED  BY <1>2, <1>4, <1>6, <1>7 DEF FormatInv

LEMMA TextStep ==
  ASSUME FormatInv, CopyText
  PROVE  FormatInv'
<1>1. Reading /\ ~IsDirective(Item) /\ Advance /\ next' = next /\ cells' = cells
  BY DEF CopyText
<1>2. /\ asked # Idle /\ Item \in Items /\ Remaining
      /\ ~failed => PiecesMade /\ Len(out) + 1 \in 1..Len(asked) /\ Item = asked[Len(out) + 1]
  BY <1>1, ItemRead
<1>3. Item.text \in Nat /\ Arguments(Item) = 0 /\ StarsOf(Item) = 0
  BY <1>1, <1>2, ItemShape DEF Arguments, StarsOf
<1>4. PICK piece : piece = Piece(Item, <<>>, NoArg, Untyped)
  OBVIOUS
<1>5. piece = [item |-> Item, stars |-> <<>>, arg |-> NoArg, type |-> Untyped, nul |-> FALSE]
  BY <1>4 DEF Piece
<1>6. piece \in Pieces
  <2>1. <<>> \in Seq(Nat) /\ NoArg \in Nat /\ Untyped \in ArgTypes
    BY EmptySeq DEF NoArg, ArgTypes
  <2> QED  BY <1>2, <1>5, <2>1 DEF Pieces
<1>7. ASSUME ~failed PROVE IsExpected(asked, Len(out) + 1, piece)
  <2>1. PICK i \in 1..Len(asked) : i = Len(out) + 1 /\ Item = asked[i] /\ next = Before(asked, i)
    BY <1>2, <1>7 DEF PiecesMade
  <2>2. <<>> = [k \in 1..StarsOf(asked[i]) |-> next + k]
    <3>1. 1..0 = {}
      OBVIOUS
    <3> QED  BY <1>3, <2>1, <3>1
  <2>3. NoArg = IF Arguments(asked[i]) > StarsOf(asked[i]) THEN next + Arguments(asked[i]) ELSE NoArg
    BY <1>3, <2>1
  <2>4. next \in Nat /\ asked \in Seq(Items)
    BY <1>2 DEF FormatInv, FormatType, Remaining
  <2>5. Untyped = IF Arguments(asked[i]) = StarsOf(asked[i]) THEN Untyped ELSE Promised(asked[i].length, asked[i].conv)
    BY <1>3, <2>1
  <2>6. ~IsDirective(asked[i])
    BY <1>1, <2>1
  <2>7. IsExpected(asked, i, [item |-> Item, stars |-> <<>>, arg |-> NoArg, type |-> Untyped, nul |-> FALSE])
    BY <1>2, <2>1, <2>2, <2>3, <2>4, <2>5, <2>6, ExpectedPiece
  <2> QED  BY <1>5, <2>1, <2>7
<1>8. Put(piece, Item.text, 0)
  BY <1>4 DEF CopyText
<1>9. next' = next + Arguments(Item) /\ cells' \in Nat /\ cells' <= SpecSize
  BY <1>1, <1>3, NotYet, FormatAssumption DEF FormatInv, FormatType, Reading
<1>10. 0 \in 0..1
  OBVIOUS
<1> QED  BY <1>1, <1>3, <1>6, <1>7, <1>8, <1>9, <1>10, PieceStep

\* A directive that is read.
LEMMA DirectiveRead ==
  ASSUME FormatInv, NEW convs, InDirective(convs)
  PROVE  /\ Reading /\ IsDirective(Item) /\ Item \in Items /\ Item \in DirectiveSet
         /\ Item.flags < SpecLimit /\ Item.conv \in convs
         /\ StarsRead(Item) \in 0..2 /\ StarsOf(Item) = StarsRead(Item)
         /\ Arguments(Item) = StarsRead(Item) + (IF Item.conv \in {"unknown", "end", "n"} THEN 0 ELSE 1)
         /\ next \in Nat /\ cells \in Nat /\ cells <= SpecSize /\ Remaining
<1>1. Reading /\ IsDirective(Item) /\ Item.conv \in convs /\ Item.flags < SpecLimit
  BY DEF InDirective, FlagsFit
<1>2. Item \in Items /\ Remaining
  BY <1>1, ItemRead
<1>3. Item \in DirectiveSet /\ StarsRead(Item) \in 0..2
  BY <1>1, <1>2, ItemShape
<1>4. /\ StarsOf(Item) = StarsRead(Item)
      /\ Arguments(Item) = StarsRead(Item) + (IF Item.conv \in {"unknown", "end", "n"} THEN 0 ELSE 1)
  BY <1>1 DEF StarsOf, Arguments, StarsRead
<1>5. next \in Nat /\ cells \in Nat /\ cells <= SpecSize
  BY <1>1, NotYet, FormatAssumption DEF FormatInv, FormatType, Reading
<1> QED  BY <1>1, <1>2, <1>3, <1>4, <1>5

\* One that is stored is stored inside the array.
LEMMA DirectiveStored ==
  ASSUME FormatInv, NEW convs, InDirective(convs), NEW star \in StarChars, Stores(star)
  PROVE  cells' \in Nat /\ cells' <= SpecSize
<1>1. Item \in DirectiveSet /\ Item.flags < SpecLimit
  BY DirectiveRead
<1>2. star \in 0..11
  BY FormatAssumption
<1> QED  BY <1>1, <1>2, DirectiveCells DEF Stores

\* The piece for a directive is what printf promises.
LEMMA DirectivePiece ==
  ASSUME FormatInv, NEW convs, InDirective(convs), Item.conv # "n",
         NEW spec \in Items, spec.conv = Item.conv, Raw(Item) <= SpecLimit - 2 * 11 => spec = Item,
         NEW nul \in BOOLEAN, nul => Item.conv = "c",
         NEW arg, arg = IF Item.conv \in {"unknown", "end"} THEN NoArg ELSE next + Arguments(Item),
         NEW type, type = IF Item.conv \in {"unknown", "end"} THEN Untyped ELSE Promised(Item.length, Item.conv),
         NEW piece, piece = [item |-> spec, stars |-> Consumed, arg |-> arg, type |-> type, nul |-> nul]
  PROVE  /\ piece \in Pieces
         /\ ~failed => IsExpected(asked, Len(out) + 1, piece)
<1>1. /\ Reading /\ IsDirective(Item) /\ Item \in Items /\ Item \in DirectiveSet
      /\ StarsRead(Item) \in 0..2 /\ StarsOf(Item) = StarsRead(Item)
      /\ Arguments(Item) = StarsRead(Item) + (IF Item.conv \in {"unknown", "end", "n"} THEN 0 ELSE 1)
      /\ next \in Nat /\ Remaining
  BY DirectiveRead
<1>2. /\ Item.conv \in {"unknown", "end"} => Arguments(Item) = StarsRead(Item)
      /\ Item.conv \notin {"unknown", "end"} => Arguments(Item) = StarsRead(Item) + 1
  BY <1>1
<1>3. Consumed = [k \in 1..StarsOf(Item) |-> next + k]
  BY <1>1 DEF Consumed
<1>4. piece \in Pieces
  <2>1. Consumed \in Seq(Nat)
    BY <1>1, <1>3, StarArguments
  <2>2. arg \in Nat
    BY <1>1, <1>2 DEF NoArg
  <2>3. type \in ArgTypes
    <3>1. Promised(Item.length, Item.conv) \in ArgTypes
      BY <1>1, PromisedType DEF DirectiveSet
    <3> QED  BY <3>1 DEF ArgTypes
  <2> QED  BY <2>1, <2>2, <2>3 DEF Pieces
<1>5. ASSUME ~failed PROVE IsExpected(asked, Len(out) + 1, piece)
  <2>1. PiecesMade /\ Len(out) + 1 \in 1..Len(asked) /\ Item = asked[Len(out) + 1]
    BY <1>1, <1>5, ItemRead
  <2>2. PICK i \in 1..Len(asked) : i = Len(out) + 1 /\ Item = asked[i] /\ next = Before(asked, i)
    BY <2>1 DEF PiecesMade
  <2>3. asked \in Seq(Items)
    BY <1>1 DEF Remaining
  <2>4. arg = IF Arguments(asked[i]) > StarsOf(asked[i]) THEN next + Arguments(asked[i]) ELSE NoArg
    BY <1>1, <1>2, <2>2
  <2>5. type = IF Arguments(asked[i]) = StarsOf(asked[i]) THEN Untyped ELSE Promised(asked[i].length, asked[i].conv)
    BY <1>1, <1>2, <2>2
  <2>6. Consumed = [k \in 1..StarsOf(asked[i]) |-> next + k]
    BY <1>3, <2>2
  <2>7. /\ IsDirective(asked[i]) => asked[i].conv # "n" /\ spec.conv = asked[i].conv
        /\ IsDirective(asked[i]) /\ Raw(asked[i]) <= SpecLimit - 2 * 11 => spec = asked[i]
        /\ nul => IsDirective(asked[i]) /\ asked[i].conv = "c"
    BY <1>1, <2>2
  <2>8. IsExpected(asked, i, [item |-> spec, stars |-> Consumed, arg |-> arg, type |-> type, nul |-> nul])
    BY <1>1, <2>2, <2>3, <2>4, <2>5, <2>6, <2>7, ExpectedPiece
  <2> QED  BY <2>2, <2>8
<1> QED  BY <1>4, <1>5

LEMMA ValueStep ==
  ASSUME FormatInv, NEW star \in StarChars, EmitValue(star)
  PROVE  FormatInv'
<1>1. InDirective(Values) /\ Advance
  BY DEF EmitValue
<1>2. /\ Reading /\ IsDirective(Item) /\ Item \in DirectiveSet /\ Item.flags < SpecLimit /\ Item.conv \in Values
      /\ StarsRead(Item) \in 0..2
      /\ Arguments(Item) = StarsRead(Item) + (IF Item.conv \in {"unknown", "end", "n"} THEN 0 ELSE 1)
      /\ next \in Nat
  BY <1>1, DirectiveRead
<1>3. star \in 0..11
  BY FormatAssumption
<1>4. PICK spec \in Items : spec = Rebuilt(Item, star) /\ spec.conv = Item.conv /\ (Raw(Item) <= SpecLimit - 2 * 11 => spec = Item)
  BY <1>2, <1>3, RebuiltDirective
<1>5. cells' = CellsOf(Item, star) /\ cells' \in Nat /\ cells' - 1 \in Nat /\ cells' <= SpecSize
  BY <1>2, <1>3, DirectiveCells DEF EmitValue, Stores, Values, Unstored
<1>6. CASE Item.conv = "unknown"
  <2>1. next' = next + StarsRead(Item) + 0 /\ Put(Piece(spec, Consumed, NoArg, Untyped), cells' - 1, 0)
    BY <1>4, <1>6 DEF EmitValue
  <2>2. next' = next + Arguments(Item)
    BY <1>2, <1>6, <2>1
  <2>3. PICK piece : /\ piece = Piece(spec, Consumed, NoArg, Untyped)
                     /\ piece = [item |-> spec, stars |-> Consumed, arg |-> NoArg, type |-> Untyped, nul |-> FALSE]
    BY DEF Piece
  <2>4. Item.conv \in {"unknown", "end"} /\ Item.conv # "n" /\ FALSE \in BOOLEAN
    BY <1>6
  <2>5. /\ NoArg = IF Item.conv \in {"unknown", "end"} THEN NoArg ELSE next + Arguments(Item)
        /\ Untyped = IF Item.conv \in {"unknown", "end"} THEN Untyped ELSE Promised(Item.length, Item.conv)
    BY <2>4
  <2>6. piece \in Pieces /\ (~failed => IsExpected(asked, Len(out) + 1, piece))
    BY <1>1, <1>4, <2>3, <2>4, <2>5, DirectivePiece
  <2>7. Put(piece, cells' - 1, 0) /\ 0 \in 0..1
    BY <2>1, <2>3
  <2> QED  BY <1>1, <1>2, <1>5, <2>2, <2>6, <2>7, PieceStep
<1>7. CASE Item.conv # "unknown"
  <2>1. Item.conv \in {"d", "u", "f", "c", "s", "p"} /\ Item.conv \notin {"unknown", "end", "n"}
    BY <1>2, <1>7 DEF Values
  <2>2. next' = next + StarsRead(Item) + 1
    BY <1>7 DEF EmitValue
  <2>3. next' = next + Arguments(Item)
    BY <1>2, <2>1, <2>2
  <2>4. PICK n \in Lengths, nul \in BOOLEAN : (nul => Item.conv = "c") /\
          Put([Piece(spec, Consumed, next', ReadAs(Item.length, Item.conv)) EXCEPT !.nul = nul], n, 1)
    BY <1>4, <1>7 DEF EmitValue
  <2>5. PICK type : type = ReadAs(Item.length, Item.conv) /\ type = Promised(Item.length, Item.conv)
    BY <2>1, ReadAsPromised
  <2>6. PICK arg : arg = next' /\ arg = next + Arguments(Item)
    BY <2>3
  <2>7. PICK piece : /\ piece = [Piece(spec, Consumed, arg, type) EXCEPT !.nul = nul]
                     /\ piece = [item |-> spec, stars |-> Consumed, arg |-> arg, type |-> type, nul |-> nul]
    <3> DEFINE set == [item : {spec}, stars : {Consumed}, arg : {arg}, type : {type}, nul : BOOLEAN]
    <3>1. PICK base \in set : base = Piece(spec, Consumed, arg, type)
      BY DEF Piece
    <3>2. PICK changed \in set : changed = [base EXCEPT !.nul = nul]
      <4>1. [base EXCEPT !.nul = nul] \in set
        OBVIOUS
      <4> QED  BY <4>1
    <3>3. changed = [item |-> spec, stars |-> Consumed, arg |-> arg, type |-> type, nul |-> nul]
      BY <3>2
    <3> QED  BY <3>1, <3>2, <3>3
  <2>8. /\ arg = IF Item.conv \in {"unknown", "end"} THEN NoArg ELSE next + Arguments(Item)
        /\ type = IF Item.conv \in {"unknown", "end"} THEN Untyped ELSE Promised(Item.length, Item.conv)
        /\ Item.conv # "n"
    BY <2>1, <2>5, <2>6
  <2>9. piece \in Pieces /\ (~failed => IsExpected(asked, Len(out) + 1, piece))
    BY <1>1, <1>4, <2>4, <2>7, <2>8, DirectivePiece
  <2>10. Put(piece, n, 1) /\ 1 \in 0..1 /\ n \in Nat
    BY <2>4, <2>5, <2>6, <2>7, FormatAssumption
  <2> QED  BY <1>1, <1>2, <1>5, <2>3, <2>9, <2>10, PieceStep
<1> QED  BY <1>6, <1>7

LEMMA OverrunStep ==
  ASSUME FormatInv, NEW star \in StarChars, Overrun(star)
  PROVE  FormatInv'
<1>1. InDirective(Values \cup Unstored)
  BY DEF Overrun
<1>2. Reading /\ IsDirective(Item) /\ Item \in DirectiveSet /\ Item.flags < SpecLimit /\ Remaining
  BY <1>1, DirectiveRead
<1>3. star \in 0..11
  BY FormatAssumption
<1>4. cells' \in Nat /\ StarsRead(Item) > 0 /\ Raw(Item) > SpecSize - 2 * 11 - 5
  BY <1>2, <1>3, DirectiveCells DEF Overrun
<1>5. /\ result' = Undefined
      /\ fmt' = fmt /\ asked' = asked /\ next' = next /\ size' = size /\ cap' = cap
      /\ failed' = failed /\ top' = top /\ out' = out
  BY DEF Overrun
<1>6. FormatType'
  BY <1>4, <1>5 DEF FormatInv, FormatType
<1>7. Remaining'
  BY <1>2, <1>5 DEF Remaining
<1>8. fmt' # <<>> /\ (IsDirective(Item) /\ StarsRead(Item) > 0 /\ Raw(Item) > SpecSize - 2 * 11 - 5)'
  BY <1>2, <1>4, <1>5 DEF Item, Reading
<1>9. (top <= cap)'
  BY <1>5 DEF FormatInv
<1> QED  BY <1>5, <1>6, <1>7, <1>8, <1>9 DEF FormatInv

LEMMA DescriptionStep ==
  ASSUME FormatInv, NEW star \in StarChars, EmitDescription(star)
  PROVE  FormatInv'
<1>1. InDirective({"@"})
  BY DEF EmitDescription
<1>2. /\ Reading /\ IsDirective(Item) /\ Item \in Items /\ Item.conv = "@" /\ Remaining
      /\ StarsRead(Item) \in 0..2
      /\ Arguments(Item) = StarsRead(Item) + (IF Item.conv \in {"unknown", "end", "n"} THEN 0 ELSE 1)
      /\ next \in Nat
  BY <1>1, DirectiveRead
<1>3. next' = next + StarsRead(Item) + 1 /\ cells' \in Nat /\ cells' <= SpecSize
  BY <1>1, DirectiveStored DEF EmitDescription
<1>4. next' = next + Arguments(Item) /\ next' \in Nat
  BY <1>2, <1>3
<1>5. ASSUME NEW n \in Lengths, Put(Piece(Item, Consumed, next', "pointer"), n, 0), Advance
      PROVE FormatInv'
  <2>1. PICK arg : arg = next' /\ arg = next + Arguments(Item)
    BY <1>4
  <2>2. PICK piece : /\ piece = Piece(Item, Consumed, arg, "pointer")
                     /\ piece = [item |-> Item, stars |-> Consumed, arg |-> arg, type |-> "pointer", nul |-> FALSE]
    BY DEF Piece
  <2>3. Promised(Item.length, Item.conv) = "pointer"
    BY <1>2 DEF Promised
  <2>4. /\ arg = IF Item.conv \in {"unknown", "end"} THEN NoArg ELSE next + Arguments(Item)
        /\ "pointer" = IF Item.conv \in {"unknown", "end"} THEN Untyped ELSE Promised(Item.length, Item.conv)
        /\ Item.conv # "n" /\ FALSE \in BOOLEAN
    BY <1>2, <2>1, <2>3
  <2>5. piece \in Pieces /\ (~failed => IsExpected(asked, Len(out) + 1, piece))
    BY <1>1, <1>2, <2>2, <2>4, DirectivePiece
  <2>6. Put(piece, n, 0) /\ 0 \in 0..1 /\ n \in Nat
    BY <1>5, <2>1, <2>2, FormatAssumption
  <2> QED  BY <1>2, <1>3, <1>4, <1>5, <2>5, <2>6, PieceStep
<1>6. ASSUME result' = Undefined, UNCHANGED <<fmt, asked, size, cap, failed, top, out>>
      PROVE FormatInv'
  <2>1. FormatType'
    BY <1>3, <1>4, <1>6 DEF FormatInv, FormatType
  <2>2. Remaining'
    BY <1>2, <1>6 DEF Remaining
  <2>3. (top <= cap)' /\ ~(cells' > SpecSize)
    BY <1>2, <1>3, <1>6, FormatAssumption DEF FormatInv
  <2> QED  BY <1>6, <2>1, <2>2, <2>3 DEF FormatInv
<1> QED  BY <1>5, <1>6 DEF EmitDescription

LEMMA RefuseStep ==
  ASSUME FormatInv, NEW star \in StarChars, Refuse(star)
  PROVE  FormatInv'
<1>1. InDirective({"n"})
  BY DEF Refuse
<1>2. Reading /\ StarsRead(Item) \in 0..2 /\ next \in Nat /\ Remaining
  BY <1>1, DirectiveRead
<1>3. /\ failed' = TRUE /\ fmt' = <<>> /\ next' = next + StarsRead(Item)
      /\ asked' = asked /\ size' = size /\ cap' = cap /\ top' = top
      /\ out' = out /\ result' = result /\ cells' \in Nat /\ cells' <= SpecSize
  BY <1>1, DirectiveStored DEF Refuse
<1>4. FormatType'
  <2>1. next' \in Nat
    BY <1>2, <1>3
  <2> QED  BY <1>3, <2>1 DEF FormatInv, FormatType
<1>5. Remaining'
  <2>1. <<>> \in Seq(Items) /\ Len(<<>>) = 0 /\ \A j : j \notin 1..0
    BY EmptySeq
  <2>2. asked \in Seq(Items) /\ Len(asked) \in Nat
    BY <1>2, LenProperties DEF Remaining
  <2> QED  BY <1>3, <2>1, <2>2 DEF Remaining
<1>6. result' = Waiting /\ (top <= cap)' /\ ~(cells' > SpecSize)
  BY <1>2, <1>3, FormatAssumption DEF FormatInv, Reading
<1> QED  BY <1>3, <1>4, <1>5, <1>6 DEF FormatInv

LEMMA CutOffStep ==
  ASSUME FormatInv, NEW star \in StarChars, CutOff(star)
  PROVE  FormatInv'
<1>1. InDirective({"end"}) /\ Advance /\ Stores(star)
  BY DEF CutOff
<1>2. /\ Reading /\ IsDirective(Item) /\ Item \in Items /\ Item.conv = "end"
      /\ StarsRead(Item) \in 0..2
      /\ Arguments(Item) = StarsRead(Item) + (IF Item.conv \in {"unknown", "end", "n"} THEN 0 ELSE 1)
      /\ next \in Nat
  BY <1>1, DirectiveRead
<1>3. next' = next + StarsRead(Item) /\ Put(Piece(Item, Consumed, NoArg, Untyped), Raw(Item), 0)
  BY DEF CutOff
<1>4. next' = next + Arguments(Item)
  BY <1>2, <1>3
<1>5. PICK piece : /\ piece = Piece(Item, Consumed, NoArg, Untyped)
                   /\ piece = [item |-> Item, stars |-> Consumed, arg |-> NoArg, type |-> Untyped, nul |-> FALSE]
  BY DEF Piece
<1>6. /\ NoArg = IF Item.conv \in {"unknown", "end"} THEN NoArg ELSE next + Arguments(Item)
      /\ Untyped = IF Item.conv \in {"unknown", "end"} THEN Untyped ELSE Promised(Item.length, Item.conv)
      /\ Item.conv # "n" /\ FALSE \in BOOLEAN
  BY <1>2
<1>7. piece \in Pieces /\ (~failed => IsExpected(asked, Len(out) + 1, piece))
  BY <1>1, <1>2, <1>5, <1>6, DirectivePiece
<1>8. Put(piece, Raw(Item), 0) /\ 0 \in 0..1 /\ Raw(Item) \in Nat
  <2>1. Raw(Item) \in Nat
    BY <1>2, ItemShape
  <2> QED  BY <1>3, <1>5, <2>1
<1>9. cells' \in Nat /\ cells' <= SpecSize
  BY <1>1, DirectiveStored
<1> QED  BY <1>1, <1>2, <1>4, <1>7, <1>8, <1>9, PieceStep

LEMMA ReturnStep ==
  ASSUME FormatInv, Return
  PROVE  FormatInv'
<1>1. /\ fmt = <<>> /\ result = Waiting
      /\ result' \in (IF failed THEN {Null} ELSE {Null, BeforeNul(out)})
      /\ fmt' = fmt /\ asked' = asked /\ next' = next /\ size' = size /\ cap' = cap
      /\ failed' = failed /\ top' = top /\ cells' = cells /\ out' = out
  BY DEF Return
<1>2. FormatType' /\ (top <= cap)'
  BY <1>1 DEF FormatInv, FormatType
<1>3. Remaining
  <2>1. fmt # Idle
    BY <1>1 DEF Idle
  <2> QED  BY <2>1 DEF FormatInv, NoCall
<1>4. Remaining'
  BY <1>1, <1>3 DEF Remaining
<1>5. ~(cells' > SpecSize)
  BY <1>1, NotYet DEF FormatInv
<1>6. (asked # Idle /\ ~failed /\ result # Undefined => PiecesMade)'
  BY <1>1, NotYet DEF FormatInv, PiecesMade
<1>7. (result \notin {Waiting, Null, Undefined} => ~failed /\ fmt = <<>> /\ result = BeforeNul(out))'
  BY <1>1 DEF BeforeNul
<1> QED  BY <1>2, <1>4, <1>5, <1>6, <1>7 DEF FormatInv

LEMMA ForgetStep == Forget => FormatInv'
<1> SUFFICES ASSUME Forget PROVE FormatInv'
  OBVIOUS
<1>1. FormatType'
  <2>1. <<>> \in Seq(Pieces)
    BY EmptySeq
  <2> QED  BY <2>1 DEF Forget, FormatType
<1>2. NoCall' /\ (top <= cap)' /\ ~(cells' > SpecSize)
  BY FormatAssumption DEF Forget, NoCall
<1> QED  BY <1>1, <1>2 DEF FormatInv, Forget

(***************************************************************************)
(* Theorems                                                                *)
(***************************************************************************)

\* The description of a number is made from a format of one directive.
LEMMA DescriptionIsFormat == ASSUME NEW n PROVE DescriptionFormat(n) \in Seq(Items)
<1>1. PICK conv \in {"d", "u"} : DescriptionFormat(n) = <<Directive(0, Absent, Absent, "ll", conv)>>
  BY DEF DescriptionFormat
<1>2. Directive(0, Absent, Absent, "ll", conv) \in Items
  <2>1. 0 \in Nat /\ Absent \in Fields
    BY DEF Fields
  <2>2. Directive(0, Absent, Absent, "ll", conv) \in DirectiveSet
    BY <2>1 DEF Directive, DirectiveSet
  <2> QED  BY <2>2 DEF Items, DirectiveSet
<1> QED  BY <1>1, <1>2

\* The invariant holds throughout.
LEMMA FormatInvariance == Spec => []FormatInv
<1>1. Init => FormatInv
  BY StartsFresh DEF Init
<1>2. FormatInv /\ [Next]_vars => FormatInv'
  <2> SUFFICES ASSUME FormatInv, [Next]_vars PROVE FormatInv'
    OBVIOUS
  <2>1. CASE NumberStep /\ fmt = Idle /\ UNCHANGED formatVars
    BY <2>1, UnchangedCall
  <2>2. ASSUME NEW f \in Formats, Begin(f) PROVE FormatInv'
    <3>1. f \in Seq(Items)
      BY FormatAssumption
    <3> QED  BY <2>2, <3>1, BeginStep
  <2>3. CASE Describe
    <3>1. Begin(DescriptionFormat(number)) /\ DescriptionFormat(number) \in Seq(Items)
      BY <2>3, DescriptionIsFormat DEF Describe
    <3> QED  BY <3>1, BeginStep
  <2>4. CASE FormatStep
    <3>1. CASE CopyText
      BY <3>1, TextStep
    <3>2. CASE FlagsSpin
      BY <3>2, UnchangedCall DEF FlagsSpin
    <3>3. ASSUME NEW star \in StarChars, EmitDescription(star) PROVE FormatInv'
      BY <3>3, DescriptionStep
    <3>4. ASSUME NEW star \in StarChars, Refuse(star) PROVE FormatInv'
      BY <3>4, RefuseStep
    <3>5. ASSUME NEW star \in StarChars, CutOff(star) PROVE FormatInv'
      BY <3>5, CutOffStep
    <3>6. CASE Return
      BY <3>6, ReturnStep
    <3>7. ASSUME NEW star \in StarChars, EmitValue(star) PROVE FormatInv'
      BY <3>7, ValueStep
    <3>8. ASSUME NEW star \in StarChars, Overrun(star) PROVE FormatInv'
      BY <3>8, OverrunStep
    <3> QED  BY <2>4, <3>1, <3>2, <3>3, <3>4, <3>5, <3>6, <3>7, <3>8 DEF FormatStep
  <2>5. CASE Forget
    BY <2>5, ForgetStep
  <2>6. CASE UNCHANGED vars
    BY <2>6, UnchangedCall DEF vars
  <2> QED  BY <2>1, <2>2, <2>3, <2>4, <2>5, <2>6 DEF Next, TakeDescription
<1> QED  BY <1>1, <1>2, PTL DEF Spec

\* For every format, length of text and value, capacity and limit: what the
\* interpreter of formats writes stays inside the buffer and inside the array
\* for a directive, but where a star's number comes behind many flags and
\* digits.
THEOREM WritesStayInside == Spec => []WritesInside
<1>1. FormatInv => WritesInside
  BY DEF FormatInv, WritesInside
<1> QED  BY <1>1, FormatInvariance, PTL

\* What stands before the first NUL.
LEMMA BeforeNulPieces ==
  ASSUME NEW pieces \in Seq(Pieces)
  PROVE  /\ BeforeNul(pieces) \in Seq(Pieces) /\ Len(BeforeNul(pieces)) <= Len(pieces)
         /\ \A i \in 1..Len(BeforeNul(pieces)) : BeforeNul(pieces)[i] = pieces[i] /\ ~pieces[i].nul
         /\ \/ BeforeNul(pieces) = pieces
            \/ \E i \in 1..Len(pieces) : i = Len(BeforeNul(pieces)) + 1 /\ pieces[i].nul
<1> DEFINE nuls == {i \in DOMAIN pieces : pieces[i].nul}
<1>1. DOMAIN pieces = 1..Len(pieces) /\ Len(pieces) \in Nat
  BY LenProperties
<1>2. BeforeNul(pieces) = IF nuls = {} THEN pieces ELSE SubSeq(pieces, 1, Min(nuls) - 1)
  BY DEF BeforeNul
<1>3. CASE nuls = {}
  BY <1>1, <1>2, <1>3
<1>4. CASE nuls # {}
  <2>1. nuls \subseteq 1..Len(pieces) /\ nuls \subseteq Nat
    BY <1>1
  <2>2. Min(nuls) \in nuls /\ \A y \in nuls : Min(nuls) <= y
    <3> HIDE DEF nuls
    <3> QED  BY <1>4, <2>1, LeastExists
  <2>3. PICK m \in 1..Len(pieces) : m = Min(nuls) /\ pieces[m].nul /\ \A y \in nuls : m <= y
    BY <2>1, <2>2
  <2>4. 1 \in 1..Len(pieces) + 1 /\ m - 1 \in 0..Len(pieces) /\ m \in Nat
    BY <1>1
  <2>5. /\ SubSeq(pieces, 1, m - 1) \in Seq(Pieces) /\ Len(SubSeq(pieces, 1, m - 1)) = m - 1
        /\ \A i \in 1..m - 1 : SubSeq(pieces, 1, m - 1)[i] = pieces[i]
    <3>1. 1 <= Len(pieces) + 1 /\ m - 1 <= Len(pieces)
      BY <1>1, <2>4
    <3>2. m - 1 >= 0 /\ \A i \in 1..m - 1 : 1 + i - 1 = i
      BY <2>4
    <3> QED  BY <1>1, <2>4, <3>1, <3>2, SubSeqProperties
  <2>6. \A i \in 1..m - 1 : ~pieces[i].nul
    <3>1. SUFFICES ASSUME NEW i \in 1..m - 1, pieces[i].nul PROVE FALSE
      OBVIOUS
    <3>2. i \in nuls /\ i < m /\ i \in Nat
      BY <1>1, <2>4, <3>1
    <3>3. m <= i
      <4> HIDE DEF nuls
      <4> QED  BY <2>3, <3>2
    <3> QED  BY <2>4, <3>2, <3>3
  <2>7. BeforeNul(pieces) = SubSeq(pieces, 1, m - 1)
    BY <1>2, <1>4, <2>3
  <2>8. m = (m - 1) + 1 /\ m - 1 <= Len(pieces)
    BY <2>4
  <2> HIDE DEF nuls
  <2> QED  BY <2>3, <2>5, <2>6, <2>7, <2>8
<1> QED  BY <1>3, <1>4

\* For every format: the string that a call returns has for every item of
\* the format the piece that printf promises, in order, and is cut only at a
\* character NUL.
THEOREM FormatsAreExact == Spec => []FormatExact
<1>1. FormatInv => FormatExact
  <2> SUFFICES ASSUME FormatInv, result \notin {Waiting, Null, Undefined} PROVE FormatExact
    BY DEF FormatExact
  <2>1. ~failed /\ fmt = <<>> /\ result = BeforeNul(out) /\ out \in Seq(Pieces)
    BY DEF FormatInv, FormatType
  <2>2. Remaining /\ asked # Idle
    <3>1. Remaining
      BY DEF FormatInv, NoCall
    <3> QED  BY <3>1, IdleIsNoFormat DEF Remaining
  <2>3. PiecesMade
    BY <2>1, <2>2 DEF FormatInv
  <2>4. /\ Len(out) = Len(asked) /\ Len(asked) \in Nat
        /\ DOMAIN asked = 1..Len(asked) /\ DOMAIN out = 1..Len(out)
    <3>1. Len(asked) \in Nat /\ DOMAIN asked = 1..Len(asked) /\ DOMAIN out = 1..Len(out)
      BY <2>1, <2>2, LenProperties DEF Remaining
    <3>2. Len(fmt) = 0
      BY <2>1
    <3> QED  BY <2>3, <3>1, <3>2 DEF PiecesMade
  <2>5. ASSUME NEW i \in DOMAIN asked, IsDirective(asked[i]) PROVE asked[i].conv # "n"
    BY <2>3, <2>4, <2>5 DEF PiecesMade, IsExpected
  <2>6. /\ result \in Seq(Pieces) /\ Len(result) <= Len(out)
        /\ \A i \in 1..Len(result) : result[i] = out[i] /\ ~out[i].nul
        /\ \/ result = out
           \/ \E i \in 1..Len(out) : i = Len(result) + 1 /\ out[i].nul
    BY <2>1, BeforeNulPieces
  <2>7. Len(result) \in Nat /\ DOMAIN result = 1..Len(result)
    BY <2>6, LenProperties
  <2>8. ASSUME NEW i \in DOMAIN result
        PROVE  /\ [result[i] EXCEPT !.item = asked[i]] = Expected(asked, i)
               /\ IsDirective(asked[i]) /\ Raw(asked[i]) <= SpecLimit - 2 * 11 =>
                    [result[i] EXCEPT !.item = asked[i]] = result[i]
    <3>1. i \in 1..Len(out) /\ i \in 1..Len(result)
      BY <2>4, <2>6, <2>7
    <3>2. PICK piece \in Pieces : piece = result[i] /\ ~piece.nul /\ IsExpected(asked, i, piece)
      BY <2>3, <2>6, <3>1 DEF PiecesMade, IsExpected
    <3>3. PICK item \in Items : item = asked[i]
      BY <2>2, <2>4, <3>1, ElementOfSeq DEF Remaining
    <3>4. PICK r \in Pieces : r = [piece EXCEPT !.item = item]
      <4>1. [piece EXCEPT !.item = item] \in Pieces
        BY DEF Pieces
      <4> QED  BY <4>1
    <3>5. r.item = item /\ r.stars = piece.stars /\ r.arg = piece.arg /\ r.type = piece.type /\ r.nul = FALSE
      BY <3>2, <3>4 DEF Pieces
    <3>6. PICK stars, arg, type : Expected(asked, i) = [item |-> item, stars |-> stars, arg |-> arg, type |-> type, nul |-> FALSE]
      BY <3>3 DEF Expected, Piece
    <3>7. stars = piece.stars /\ arg = piece.arg /\ type = piece.type
      BY <3>2, <3>6 DEF IsExpected
    <3>8. r = [item |-> item, stars |-> piece.stars, arg |-> piece.arg, type |-> piece.type, nul |-> FALSE]
      BY <3>5 DEF Pieces
    <3>9. r = Expected(asked, i)
      BY <3>6, <3>7, <3>8
    <3>10. IsDirective(item) /\ Raw(item) <= SpecLimit - 2 * 11 => r = piece
      <4>1. IsDirective(item) /\ Raw(item) <= SpecLimit - 2 * 11 => piece.item = item
        BY <3>2, <3>3 DEF IsExpected
      <4>2. piece.item = item => [piece EXCEPT !.item = item] = piece
        BY DEF Pieces
      <4> QED  BY <3>4, <4>1, <4>2
    <3> QED  BY <3>2, <3>3, <3>4, <3>9, <3>10
  <2>9. result = out \/ \E i \in DOMAIN out : i = Len(result) + 1 /\ out[i].nul
    BY <2>4, <2>6
  <2> QED  BY <2>5, <2>8, <2>9 DEF FormatExact
<1> QED  BY <1>1, FormatInvariance, PTL

(***************************************************************************)
(* Numerals                                                                *)
(***************************************************************************)

Bases == {2, 10, 16}

\* The number with one more digit.
More(base, v, d) == v * base + d

LEMMA OneDigitMore ==
  ASSUME NEW base \in Bases, NEW v \in Nat, NEW d \in 0..base - 1
  PROVE  /\ More(base, v, d) \in Nat /\ More(base, v, d) \div base = v /\ More(base, v, d) % base = d
         /\ v # 0 \/ d # 0 => v < More(base, v, d)
         /\ More(base, 0, 0) = 0
<1>1. CASE base = 2
  BY <1>1 DEF More
<1>2. CASE base = 10
  BY <1>2 DEF More
<1>3. CASE base = 16
  BY <1>3 DEF More
<1> QED  BY <1>1, <1>2, <1>3 DEF Bases

LEMMA OneDigitLess ==
  ASSUME NEW base \in Bases, NEW u \in Nat, u # 0
  PROVE  \E q \in Nat, d \in 0..base - 1 :
            q = u \div base /\ d = u % base /\ q < u /\ d <= u /\ u = More(base, q, d)
<1>1. PICK q \in Int : q = u \div base
  BY DEF Bases
<1>2. PICK d \in Int : d = u % base
  BY DEF Bases
<1>3. q \in Nat /\ d \in 0..base - 1 /\ q < u /\ d <= u /\ u = More(base, q, d)
  <2>1. CASE base = 2
    BY <1>1, <1>2, <2>1 DEF More
  <2>2. CASE base = 10
    BY <1>1, <1>2, <2>2 DEF More
  <2>3. CASE base = 16
    BY <1>1, <1>2, <2>3 DEF More
  <2> QED  BY <2>1, <2>2, <2>3 DEF Bases
<1> QED  BY <1>1, <1>2, <1>3

\* Numbers up to n have a property if 0 has it and it goes on from each to
\* the next: otherwise there were a least one without it.
LEMMA NoLeast ==
  ASSUME NEW n \in Nat, NEW Bad \in SUBSET (0..n), 0 \notin Bad,
         \A m \in 1..n : m \in Bad => m - 1 \in Bad
  PROVE  Bad = {}
<1> SUFFICES ASSUME Bad # {} PROVE FALSE
  OBVIOUS
<1>1. Bad \in SUBSET Nat
  OBVIOUS
<1>2. PICK m \in Bad : \A i \in Bad : m <= i
  BY <1>1, LeastExists
<1>3. m \in 1..n /\ ~(m <= m - 1)
  OBVIOUS
<1>4. m - 1 \in Bad
  BY <1>3
<1> QED  BY <1>2, <1>3, <1>4

\* Numbers have a property if 0 has it and every other one has it whenever
\* what is left of it without its last digit has it.
LEMMA NoLeastNumeral ==
  ASSUME NEW base \in Bases, NEW Bad \in SUBSET Nat, 0 \notin Bad,
         \A q \in Nat, d \in 0..base - 1 : More(base, q, d) \in Bad => q \in Bad \/ More(base, q, d) = 0
  PROVE  Bad = {}
<1> SUFFICES ASSUME Bad # {} PROVE FALSE
  OBVIOUS
<1>1. PICK m \in Bad : \A i \in Bad : m <= i
  BY LeastExists
<1>2. m \in Nat /\ m # 0
  OBVIOUS
<1>3. PICK q \in Nat, d \in 0..base - 1 : q < m /\ m = More(base, q, d)
  BY <1>2, OneDigitLess
<1>4. q \in Bad
  BY <1>2, <1>3
<1> QED  BY <1>1, <1>2, <1>3, <1>4

\* g[u] is the numeral of u, for every u up to v.
IsPrint(g, v, base) == g = [u \in 0..v |-> IF u = 0 THEN <<>> ELSE Append(g[u \div base], u % base)]

LEMMA PrintExists ==
  ASSUME NEW base \in Bases, NEW v \in Nat
  PROVE  \E g : IsPrint(g, v, base)
<1> DEFINE Bad == {m \in 0..v : ~ \E g : IsPrint(g, m, base)}
<1>1. 0 \notin Bad
  <2>1. PICK g : g = [u \in 0..0 |-> <<>>]
    OBVIOUS
  <2>2. \A u \in 0..0 : u = 0
    OBVIOUS
  <2>3. IsPrint(g, 0, base)
    BY <2>1, <2>2 DEF IsPrint
  <2> QED  BY <2>3
<1>2. ASSUME NEW m \in 1..v, NEW g, IsPrint(g, m - 1, base) PROVE \E h : IsPrint(h, m, base)
  <2>1. PICK h : h = [u \in 0..m |-> IF u = m THEN Append(g[m \div base], m % base) ELSE g[u]]
    OBVIOUS
  <2>2. \A u \in 0..m - 1 : h[u] = g[u] /\ g[u] = IF u = 0 THEN <<>> ELSE Append(g[u \div base], u % base)
    <3>1. \A u \in 0..m - 1 : u \in 0..m /\ u # m
      OBVIOUS
    <3> QED  BY <1>2, <2>1, <3>1 DEF IsPrint
  <2>3. ASSUME NEW u \in 0..m, u # 0 PROVE u \div base \in 0..m - 1
    BY <2>3, OneDigitLess
  <2>4. ASSUME NEW u \in 0..m PROVE h[u] = IF u = 0 THEN <<>> ELSE Append(h[u \div base], u % base)
    <3>1. CASE u = m
      <4>1. u # 0
        BY <3>1
      <4>2. h[u \div base] = g[u \div base]
        BY <2>2, <2>3, <4>1
      <4> QED  BY <2>1, <3>1, <4>1, <4>2
    <3>2. CASE u # m
      <4>1. u \in 0..m - 1
        BY <3>2
      <4>2. u # 0 => h[u \div base] = g[u \div base]
        BY <2>2, <2>3
      <4> QED  BY <2>2, <4>1, <4>2
    <3> QED  BY <3>1, <3>2
  <2>5. h = [u \in 0..m |-> IF u = 0 THEN <<>> ELSE Append(h[u \div base], u % base)]
    BY <2>1, <2>4
  <2> QED  BY <2>5 DEF IsPrint
<1>3. \A m \in 1..v : m \in Bad => m - 1 \in Bad
  BY <1>2
<1>4. Bad \in SUBSET (0..v)
  OBVIOUS
<1>5. Bad = {}
  <2> HIDE DEF Bad
  <2> QED  BY <1>1, <1>3, <1>4, NoLeast
<1> QED  BY <1>5

LEMMA PrintOf ==
  ASSUME NEW base \in Bases, NEW v \in Nat
  PROVE  \E g : /\ Numeral(v, base) = g[v] /\ g[0] = <<>>
                /\ \A u \in 0..v : u # 0 => g[u] = Append(g[u \div base], u % base)
<1>1. Numeral(v, base) = (CHOOSE g : IsPrint(g, v, base))[v]
  BY DEF Numeral, IsPrint
<1>2. PICK g : g = CHOOSE h : IsPrint(h, v, base)
  OBVIOUS
<1>3. IsPrint(g, v, base)
  BY <1>2, PrintExists
<1>4. \A u \in 0..v : g[u] = IF u = 0 THEN <<>> ELSE Append(g[u \div base], u % base)
  BY <1>3 DEF IsPrint
<1>5. g[0] = <<>>
  BY <1>4
<1> QED  BY <1>1, <1>2, <1>4, <1>5

\* The numeral of a number is that of what is left without its last digit, and
\* then this digit.
LEMMA NumeralStep ==
  ASSUME NEW base \in Bases
  PROVE  /\ Numeral(0, base) = <<>>
         /\ \A q \in Nat, d \in 0..base - 1 : q # 0 \/ d # 0 =>
               Numeral(More(base, q, d), base) = Append(Numeral(q, base), d)
<1>1. Numeral(0, base) = <<>>
  BY PrintOf
<1>2. ASSUME NEW q \in Nat, NEW d \in 0..base - 1, q # 0 \/ d # 0
      PROVE Numeral(More(base, q, d), base) = Append(Numeral(q, base), d)
  <2>1. PICK v \in Nat : v = More(base, q, d) /\ v \div base = q /\ v % base = d /\ q < v
    BY <1>2, OneDigitMore
  <2>2. PICK g : /\ Numeral(v, base) = g[v] /\ g[0] = <<>>
                 /\ \A u \in 0..v : u # 0 => g[u] = Append(g[u \div base], u % base)
    BY PrintOf
  <2>3. PICK h : /\ Numeral(q, base) = h[q] /\ h[0] = <<>>
                 /\ \A u \in 0..q : u # 0 => h[u] = Append(h[u \div base], u % base)
    BY PrintOf
  <2> DEFINE Bad == {u \in 0..q : g[u] # h[u]}
  <2>4. 0 \notin Bad
    BY <2>2, <2>3
  <2>5. ASSUME NEW p \in Nat, NEW e \in 0..base - 1, More(base, p, e) \in Bad, More(base, p, e) # 0
        PROVE p \in Bad
    <3>1. PICK u \in 0..q : u = More(base, p, e) /\ g[u] # h[u] /\ u # 0
      BY <2>5
    <3>2. u \in 0..v
      BY <2>1
    <3>3. p # 0 \/ e # 0
      BY <3>1, OneDigitMore
    <3>4. u \div base = p /\ u % base = e /\ p < u
      BY <3>1, <3>3, OneDigitMore
    <3>5. g[u] = Append(g[p], e) /\ h[u] = Append(h[p], e)
      BY <2>2, <2>3, <3>1, <3>2, <3>4
    <3>6. p \in 0..q /\ g[p] # h[p]
      BY <3>1, <3>4, <3>5
    <3> QED  BY <3>6
  <2>6. Bad \in SUBSET Nat
    OBVIOUS
  <2>7. Bad = {}
    <3> HIDE DEF Bad
    <3> QED  BY <2>4, <2>5, <2>6, NoLeastNumeral
  <2>8. g[q] = h[q]
    BY <2>7
  <2>9. v \in 0..v /\ v # 0
    BY <2>1
  <2> QED  BY <2>1, <2>2, <2>3, <2>8, <2>9
<1> QED  BY <1>1, <1>2

\* Numerals have no leading zero, and no digit above their number.
LEMMA NumeralShape ==
  ASSUME NEW base \in Bases, NEW v \in Nat
  PROVE  /\ Numeral(v, base) \in Seq(0..base - 1)
         /\ v # 0 => Numeral(v, base) # <<>> /\ Numeral(v, base)[1] # 0
         /\ \A i \in 1..Len(Numeral(v, base)) : Numeral(v, base)[i] <= v
<1> DEFINE Good(u) == /\ Numeral(u, base) \in Seq(0..base - 1)
                      /\ u # 0 => Numeral(u, base) # <<>> /\ Numeral(u, base)[1] # 0
                      /\ \A i \in 1..Len(Numeral(u, base)) : Numeral(u, base)[i] <= u
           Bad == {u \in Nat : ~Good(u)}
<1>1. Good(0)
  <2>1. Numeral(0, base) = <<>> /\ <<>> \in Seq(0..base - 1) /\ Len(<<>>) = 0
    BY NumeralStep, EmptySeq
  <2>2. 1..0 = {}
    OBVIOUS
  <2>3. \A i \in 1..Len(Numeral(0, base)) : FALSE
    BY <2>1, <2>2, Zenon
  <2> QED  BY <2>1, <2>3
<1>2. ASSUME NEW q \in Nat, NEW d \in 0..base - 1, q # 0 \/ d # 0, Good(q)
      PROVE Good(More(base, q, d))
  <2>1. PICK u \in Nat : u = More(base, q, d) /\ q < u /\ d <= u
    <3>1. d <= More(base, q, d)
      BY OneDigitMore DEF More, Bases
    <3> QED  BY <1>2, <3>1, OneDigitMore
  <2>2. PICK s \in Seq(0..base - 1) : s = Numeral(q, base)
    BY <1>2
  <2>3. PICK t : t = Numeral(u, base)
    OBVIOUS
  <2>4. t = Append(s, d)
    BY <1>2, <2>1, <2>2, <2>3, NumeralStep
  <2>5. Len(s) \in Nat /\ Len(t) = Len(s) + 1 /\ t[Len(s) + 1] = d /\ t \in Seq(0..base - 1)
        /\ \A i \in 1..Len(s) : t[i] = s[i]
    BY <2>4, AppendProperties, LenProperties
  <2>6. t # <<>>
    BY <2>5
  <2>7. t[1] # 0
    <3>1. CASE q = 0
      <4>1. s = <<>> /\ d # 0
        BY <1>2, <2>2, <3>1, NumeralStep
      <4> QED  BY <2>4, <4>1
    <3>2. CASE q # 0
      <4>1. s # <<>> /\ s[1] # 0
        BY <1>2, <2>2, <3>2
      <4>2. 1 \in 1..Len(s)
        BY <2>5, <4>1, EmptySeq
      <4> QED  BY <2>5, <4>1, <4>2
    <3> QED  BY <3>1, <3>2
  <2>8. ASSUME NEW i \in 1..Len(t) PROVE t[i] <= u
    <3>1. CASE i = Len(s) + 1
      BY <2>1, <2>5, <3>1
    <3>2. CASE i # Len(s) + 1
      <4>1. i \in 1..Len(s)
        BY <2>5, <3>2
      <4>2. s[i] <= q /\ t[i] = s[i]
        BY <1>2, <2>2, <2>5, <4>1
      <4>3. s[i] \in 0..base - 1 /\ base - 1 \in Nat
        BY <4>1, ElementOfSeq DEF Bases
      <4>4. s[i] \in Nat
        BY <4>3
      <4> QED  BY <2>1, <4>2, <4>4
    <3> QED  BY <3>1, <3>2
  <2>9. /\ t \in Seq(0..base - 1) /\ (u # 0 => t # <<>> /\ t[1] # 0)
        /\ \A i \in 1..Len(t) : t[i] <= u
    BY <2>5, <2>6, <2>7, <2>8
  <2>10. Good(u)
    <3> HIDE DEF Bases
    <3> QED  BY <2>3, <2>9
  <2> QED  BY <2>1, <2>10
<1>3. Bad = {}
  <2>1. 0 \notin Bad
    BY <1>1
  <2>2. ASSUME NEW q \in Nat, NEW d \in 0..base - 1, More(base, q, d) \in Bad, More(base, q, d) # 0
        PROVE q \in Bad
    <3>1. q # 0 \/ d # 0
      BY <2>2, OneDigitMore
    <3> HIDE DEF Good
    <3> QED  BY <1>2, <2>2, <3>1
  <2>3. Bad \in SUBSET Nat
    OBVIOUS
  <2> HIDE DEF Bad
  <2> QED  BY <2>1, <2>2, <2>3, NoLeastNumeral
<1> HIDE DEF Good
<1>4. Good(v)
  BY <1>3
<1> QED  BY <1>4 DEF Good

\* Different numbers have different numerals.
LEMMA NumeralInjective ==
  ASSUME NEW base \in Bases, NEW v \in Nat, NEW w \in Nat, Numeral(v, base) = Numeral(w, base)
  PROVE  v = w
<1> DEFINE Bad == {u \in Nat : \E x \in Nat : Numeral(u, base) = Numeral(x, base) /\ u # x}
<1>1. 0 \notin Bad
  <2>1. ASSUME NEW x \in Nat, x # 0 PROVE Numeral(x, base) # Numeral(0, base)
    BY <2>1, NumeralShape, NumeralStep
  <2> QED  BY <2>1
<1>2. ASSUME NEW q \in Nat, NEW d \in 0..base - 1, More(base, q, d) \in Bad, More(base, q, d) # 0
      PROVE q \in Bad
  <2>1. PICK x \in Nat : Numeral(More(base, q, d), base) = Numeral(x, base) /\ More(base, q, d) # x
    BY <1>2
  <2>2. q # 0 \/ d # 0
    BY <1>2, OneDigitMore
  <2>3. Numeral(x, base) = Append(Numeral(q, base), d)
    BY <2>1, <2>2, NumeralStep
  <2>4. Numeral(q, base) \in Seq(0..base - 1)
    BY NumeralShape
  <2>5. x # 0
    <3>1. Append(Numeral(q, base), d) # <<>>
      BY <2>4, AppendProperties
    <3> QED  BY <2>3, <3>1, NumeralStep
  <2>6. PICK p \in Nat, e \in 0..base - 1 : x = More(base, p, e)
    BY <2>5, OneDigitLess
  <2>7. p # 0 \/ e # 0
    BY <2>5, <2>6, OneDigitMore
  <2>8. Numeral(x, base) = Append(Numeral(p, base), e) /\ Numeral(p, base) \in Seq(0..base - 1)
    BY <2>6, <2>7, NumeralStep, NumeralShape
  <2>9. Numeral(q, base) = Numeral(p, base) /\ d = e
    <3>1. ASSUME NEW a \in Seq(0..base - 1), NEW b \in Seq(0..base - 1), Append(a, d) = Append(b, e)
          PROVE a = b /\ d = e
      BY <3>1, AppendInjective
    <3> QED  BY <2>3, <2>4, <2>8, <3>1
  <2>10. p # q
    BY <2>1, <2>6, <2>9
  <2> QED  BY <2>9, <2>10
<1>3. Bad \in SUBSET Nat
  OBVIOUS
<1>4. Bad = {}
  <2> HIDE DEF Bad
  <2> QED  BY <1>1, <1>2, <1>3, NoLeastNumeral
<1> QED  BY <1>4

(***************************************************************************)
(* What strtoull reads                                                     *)
(***************************************************************************)

\* f[n] is the value of the first n digits.
IsValue(f, s, m, base) == f = [n \in 0..m |-> IF n = 0 THEN 0 ELSE f[n - 1] * base + DigitOf[s[n]]]

LEMMA ValueExists ==
  ASSUME NEW s, NEW m \in Nat, NEW base
  PROVE  \E f : IsValue(f, s, m, base)
<1> DEFINE Bad == {k \in 0..m : ~ \E f : IsValue(f, s, k, base)}
<1>1. 0 \notin Bad
  <2>1. PICK f : f = [n \in 0..0 |-> 0]
    OBVIOUS
  <2>2. \A n \in 0..0 : n = 0
    OBVIOUS
  <2>3. IsValue(f, s, 0, base)
    BY <2>1, <2>2 DEF IsValue
  <2> QED  BY <2>3
<1>2. ASSUME NEW k \in 1..m, NEW f, IsValue(f, s, k - 1, base) PROVE \E g : IsValue(g, s, k, base)
  <2>1. PICK g : g = [n \in 0..k |-> IF n = k THEN f[k - 1] * base + DigitOf[s[k]] ELSE f[n]]
    OBVIOUS
  <2>2. \A n \in 0..k - 1 : g[n] = f[n] /\ f[n] = IF n = 0 THEN 0 ELSE f[n - 1] * base + DigitOf[s[n]]
    <3>1. \A n \in 0..k - 1 : n \in 0..k /\ n # k
      OBVIOUS
    <3> QED  BY <1>2, <2>1, <3>1 DEF IsValue
  <2>3. \A n \in 0..k : n # 0 => g[n - 1] = f[n - 1]
    <3>1. \A n \in 0..k : n # 0 => n - 1 \in 0..k - 1
      OBVIOUS
    <3> QED  BY <2>2, <3>1
  <2>4. ASSUME NEW n \in 0..k PROVE g[n] = IF n = 0 THEN 0 ELSE g[n - 1] * base + DigitOf[s[n]]
    <3>1. CASE n = k
      <4>1. n # 0
        BY <3>1
      <4> QED  BY <2>1, <2>3, <3>1, <4>1
    <3>2. CASE n # k
      <4>1. n \in 0..k - 1
        BY <3>2
      <4> QED  BY <2>2, <2>3, <4>1
    <3> QED  BY <3>1, <3>2
  <2>5. g = [n \in 0..k |-> IF n = 0 THEN 0 ELSE g[n - 1] * base + DigitOf[s[n]]]
    BY <2>1, <2>4
  <2> QED  BY <2>5 DEF IsValue
<1>3. \A k \in 1..m : k \in Bad => k - 1 \in Bad
  BY <1>2
<1>4. Bad \in SUBSET (0..m)
  OBVIOUS
<1>5. Bad = {}
  <2> HIDE DEF Bad
  <2> QED  BY <1>1, <1>3, <1>4, NoLeast
<1> QED  BY <1>5

LEMMA ValueOf ==
  ASSUME NEW s, Len(s) \in Nat, NEW base
  PROVE  \E f : /\ Strtoull(s, base) = f[Len(s)] /\ f[0] = 0
                /\ \A n \in 1..Len(s) : f[n] = More(base, f[n - 1], DigitOf[s[n]])
<1>1. Strtoull(s, base) = (CHOOSE f : IsValue(f, s, Len(s), base))[Len(s)]
  BY DEF Strtoull, IsValue
<1>2. PICK f : f = CHOOSE g : IsValue(g, s, Len(s), base)
  OBVIOUS
<1>3. IsValue(f, s, Len(s), base)
  BY <1>2, ValueExists
<1>4. \A n \in 0..Len(s) : f[n] = IF n = 0 THEN 0 ELSE f[n - 1] * base + DigitOf[s[n]]
  BY <1>3 DEF IsValue
<1>5. f[0] = 0 /\ \A n \in 1..Len(s) : f[n] = More(base, f[n - 1], DigitOf[s[n]])
  BY <1>4 DEF More
<1> QED  BY <1>1, <1>2, <1>5

\* The digits from position m to position n.
DigitsFromTo(s, m, n) == [i \in 1..n - m + 1 |-> DigitOf[s[m + i - 1]]]

LEMMA NoDigits == ASSUME NEW s, NEW m \in Nat PROVE DigitsFromTo(s, m, m - 1) = <<>>
BY DEF DigitsFromTo

LEMMA NextDigit ==
  ASSUME NEW s, NEW m \in Nat, NEW n \in Nat, NEW before \in Int,
         before = n - 1, m <= n, \A i \in m..n : DigitOf[s[i]] \in Int
  PROVE  DigitsFromTo(s, m, n) = Append(DigitsFromTo(s, m, before), DigitOf[s[n]])
<1> DEFINE a == DigitsFromTo(s, m, before)
           b == DigitsFromTo(s, m, n)
<1>1. PICK k \in Nat : k = n - m
  OBVIOUS
<1>2. a = [i \in 1..k |-> DigitOf[s[m + i - 1]]] /\ b = [i \in 1..k + 1 |-> DigitOf[s[m + i - 1]]]
  BY <1>1 DEF DigitsFromTo
<1>3. \A i \in 1..k + 1 : m + i - 1 \in m..n
  BY <1>1
<1>4. DigitOf[s[n]] \in Int
  OBVIOUS
<1> HIDE DEF a, b
<1>5. a \in Seq(Int) /\ b \in Seq(Int) /\ Len(a) = k /\ Len(b) = k + 1
  <2>1. (\A i \in 1..k : DigitOf[s[m + i - 1]] \in Int) /\ \A i \in 1..k + 1 : DigitOf[s[m + i - 1]] \in Int
    BY <1>3
  <2> QED  BY <1>1, <1>2, <2>1
<1>6. /\ Append(a, DigitOf[s[n]]) \in Seq(Int) /\ Len(Append(a, DigitOf[s[n]])) = k + 1
      /\ \A i \in 1..k : Append(a, DigitOf[s[n]])[i] = a[i]
      /\ Append(a, DigitOf[s[n]])[k + 1] = DigitOf[s[n]]
  BY <1>4, <1>5, AppendProperties
<1>7. ASSUME NEW i \in 1..k + 1 PROVE b[i] = Append(a, DigitOf[s[n]])[i]
  <2>1. CASE i = k + 1
    <3>1. m + i - 1 = n
      BY <1>1, <2>1
    <3> QED  BY <1>2, <1>6, <2>1, <3>1
  <2>2. CASE i # k + 1
    <3>1. i \in 1..k
      BY <2>2
    <3> QED  BY <1>2, <1>6, <3>1
  <2> QED  BY <2>1, <2>2
<1>8. b = Append(a, DigitOf[s[n]])
  BY <1>5, <1>6, <1>7, SeqEqual
<1> QED  BY <1>8 DEF a, b

\* The value that strtoull reads is the one that its digits denote, whatever
\* zeros lead them.
LEMMA ValueWritten ==
  ASSUME NEW base \in Bases, NEW s \in Seq(Char), AllDigits(s, base)
  PROVE  Strtoull(s, base) \in Nat /\ Denotes(s, base, Strtoull(s, base))
<1> DEFINE solid == {i \in DOMAIN s : s[i] # "0"}
<1>1. PICK L \in Nat : L = Len(s) /\ DOMAIN s = 1..L
  BY LenProperties
<1>2. PICK f : /\ Strtoull(s, base) = f[L] /\ f[0] = 0
               /\ \A n \in 1..L : f[n] = More(base, f[n - 1], DigitOf[s[n]])
  BY <1>1, ValueOf
<1>3. \A n \in 1..L : DigitOf[s[n]] \in 0..base - 1 /\ (DigitOf[s[n]] = 0 <=> s[n] = "0")
  <2>1. \A n \in 1..L : s[n] \in Char
    BY <1>1, ElementOfSeq
  <2> QED  BY <1>1, <2>1, DigitAssumption DEF AllDigits
<1>4. CASE solid = {}
  <2> DEFINE Bad == {n \in 0..L : f[n] # 0}
  <2>1. 0 \notin Bad
    BY <1>2
  <2>2. ASSUME NEW n \in 1..L, f[n - 1] = 0 PROVE f[n] = 0
    <3>1. DigitOf[s[n]] = 0
      BY <1>1, <1>3, <1>4
    <3>2. More(base, 0, 0) = 0
      BY DEF More, Bases
    <3> QED  BY <1>2, <2>2, <3>1, <3>2
  <2>3. \A n \in 1..L : n \in Bad => n - 1 \in Bad
    <3>1. \A n \in 1..L : n - 1 \in 0..L
      OBVIOUS
    <3> QED  BY <2>2, <3>1
  <2>4. Bad \in SUBSET (0..L)
    OBVIOUS
  <2>5. Bad = {}
    <3> HIDE DEF Bad
    <3> QED  BY <2>1, <2>3, <2>4, NoLeast
  <2>6. f[L] = 0
    BY <2>5
  <2>7. DigitsOf(WithoutZeros(s)) = <<>>
    BY <1>4 DEF DigitsOf, WithoutZeros
  <2> QED  BY <1>2, <2>6, <2>7, NumeralStep DEF Denotes
<1>5. CASE solid # {}
  <2>1. solid \subseteq Nat
    BY <1>1
  <2>2. Min(solid) \in solid /\ \A i \in solid : Min(solid) <= i
    <3> HIDE DEF solid
    <3> QED  BY <1>5, <2>1, LeastExists
  <2>3. PICK m \in 1..L : m = Min(solid) /\ s[m] # "0" /\ \A i \in solid : m <= i
    BY <1>1, <2>2
  <2>4. \A i \in 1..L : i < m => s[i] = "0"
    <3>1. SUFFICES ASSUME NEW i \in 1..L, i < m, s[i] # "0" PROVE FALSE
      OBVIOUS
    <3>2. i \in solid
      BY <1>1, <3>1
    <3>3. m <= i
      BY <2>3, <3>2
    <3> QED  BY <3>1, <3>3
  <2> HIDE DEF solid
  <2> DEFINE Good(n) == /\ f[n] \in Nat
                        /\ n < m => f[n] = 0
                        /\ n >= m => f[n] # 0
                        /\ n >= m - 1 => Numeral(f[n], base) = DigitsFromTo(s, m, n)
             Bad == {n \in 0..L : ~Good(n)}
  <2>5. Good(0)
    <3>1. m - 1 = 0 => DigitsFromTo(s, m, 0) = <<>>
      BY NoDigits
    <3> QED  BY <1>2, <3>1, NumeralStep
  <2>6. ASSUME NEW n \in 1..L, Good(n - 1) PROVE Good(n)
    <3>1. PICK v \in Nat : v = f[n - 1]
      BY <2>6
    <3>2. PICK d \in 0..base - 1 : d = DigitOf[s[n]] /\ (d = 0 <=> s[n] = "0")
      BY <1>3
    <3>3. f[n] = More(base, v, d)
      BY <1>2, <3>1, <3>2
    <3>4. CASE n < m
      <4>1. v = 0 /\ d = 0
        BY <2>4, <2>6, <3>1, <3>2, <3>4
      <4>2. f[n] = 0
        BY <3>3, <4>1, OneDigitMore
      <4>3. n >= m - 1 => DigitsFromTo(s, m, n) = <<>>
        <5>1. n >= m - 1 => n = m - 1
          BY <3>4
        <5>2. DigitsFromTo(s, m, m - 1) = <<>>
          BY NoDigits
        <5> QED  BY <5>1, <5>2
      <4> QED  BY <3>4, <4>2, <4>3, NumeralStep
    <3>5. CASE n >= m
      <4>1. v # 0 \/ d # 0
        BY <2>3, <2>6, <3>1, <3>2, <3>5
      <4>2. f[n] \in Nat /\ f[n] # 0
        BY <3>3, <4>1, OneDigitMore
      <4>3. Numeral(f[n], base) = Append(Numeral(v, base), d)
        BY <3>3, <4>1, NumeralStep
      <4>4. Numeral(v, base) = DigitsFromTo(s, m, n - 1)
        BY <2>6, <3>1, <3>5
      <4>5. DigitsFromTo(s, m, n) = Append(DigitsFromTo(s, m, n - 1), d)
        <5>1. \A i \in m..n : DigitOf[s[i]] \in Int
          BY <1>3 DEF Bases
        <5>2. PICK before \in Int : before = n - 1
          OBVIOUS
        <5>3. DigitsFromTo(s, m, n) = Append(DigitsFromTo(s, m, before), DigitOf[s[n]])
          <6>1. m \in Nat /\ n \in Nat /\ m <= n
            BY <3>5
          <6> HIDE DEF Good, Bad
          <6> QED  BY <5>1, <5>2, <6>1, NextDigit
        <5> QED  BY <3>2, <5>2, <5>3
      <4> QED  BY <3>5, <4>2, <4>3, <4>4, <4>5
    <3> QED  BY <3>4, <3>5
  <2>7. Bad = {}
    <3>1. 0 \notin Bad
      BY <2>5
    <3>2. \A n \in 1..L : n \in Bad => n - 1 \in Bad
      <4>1. \A n \in 1..L : n - 1 \in 0..L
        OBVIOUS
      <4> HIDE DEF Good
      <4> QED  BY <2>6, <4>1
    <3>3. Bad \in SUBSET (0..L)
      OBVIOUS
    <3> HIDE DEF Bad
    <3> QED  BY <3>1, <3>2, <3>3, NoLeast
  <2>8. Good(L)
    <3> HIDE DEF Good
    <3> QED  BY <2>7
  <2>9. DigitsOf(WithoutZeros(s)) = DigitsFromTo(s, m, L)
    <3>1. WithoutZeros(s) = SubSeq(s, m, L)
      BY <1>1, <1>5, <2>3 DEF WithoutZeros, solid
    <3>2. /\ SubSeq(s, m, L) \in Seq(Char) /\ Len(SubSeq(s, m, L)) = L - m + 1
          /\ \A i \in 1..L - m + 1 : SubSeq(s, m, L)[i] = s[m + i - 1]
      <4>1. m \in 1..Len(s) + 1 /\ L \in m - 1..Len(s)
        BY <1>1
      <4> QED  BY <1>1, <4>1, SubSeqProperties
    <3>3. DOMAIN SubSeq(s, m, L) = 1..L - m + 1
      BY <3>2, LenProperties
    <3> QED  BY <3>1, <3>2, <3>3 DEF DigitsOf, DigitsFromTo
  <2> QED  BY <1>2, <2>8, <2>9 DEF Denotes
<1> QED  BY <1>4, <1>5

\* And it is the only one.
LEMMA ValueUnique ==
  ASSUME NEW base \in Bases, NEW s \in Seq(Char), AllDigits(s, base), NEW v \in Nat, Denotes(s, base, v)
  PROVE  v = Strtoull(s, base)
BY ValueWritten, NumeralInjective DEF Denotes

(***************************************************************************)
(* Parsing                                                                 *)
(***************************************************************************)

LEMMA ResultsDiffer ==
  ASSUME NEW v
  PROVE  Taken(v) # NotTaken /\ Taken(v) # Overflow /\ Overflow # NotTaken /\ Taken(v).value = v
<1>1. "value" # "taken" /\ "value" # "overflow" /\ "overflow" # "taken"
  OBVIOUS
<1>2. "value" \in DOMAIN Taken(v) /\ "value" \notin DOMAIN NotTaken /\ "value" \notin DOMAIN Overflow
  BY <1>1 DEF Taken, NotTaken, Overflow
<1>3. "overflow" \in DOMAIN Overflow /\ "overflow" \notin DOMAIN NotTaken
  BY <1>1 DEF NotTaken, Overflow
<1> QED  BY <1>2, <1>3 DEF Taken

LEMMA NumbersDiffer ==
  ASSUME NEW type, NEW v
  PROVE  /\ HasValue(Number(type, v)) /\ ~HasValue(None) /\ ~HasValue(Overflow)
         /\ Number(type, v) # None /\ Overflow # None /\ Number(type, v).s128 = v /\ Number(type, v).type = type
<1>1. HasValue(Number(type, v)) /\ ~HasValue(None) /\ ~HasValue(Overflow)
  BY DEF HasValue, Number, None, Overflow
<1>2. "overflow" \in DOMAIN Overflow /\ "overflow" \notin DOMAIN None
  BY DEF Overflow, None
<1> QED  BY <1>1, <1>2 DEF Number

\* The first that takes the line decides.
LEMMA FirstTaker ==
  ASSUME NEW s
  PROVE  /\ Hexadecimal(s) # NotTaken => Extract(s) = Hexadecimal(s)
         /\ Hexadecimal(s) = NotTaken /\ Binary(s) # NotTaken => Extract(s) = Binary(s)
         /\ Hexadecimal(s) = NotTaken /\ Binary(s) = NotTaken /\ Decimal(s) # NotTaken => Extract(s) = Decimal(s)
         /\ Hexadecimal(s) = NotTaken /\ Binary(s) = NotTaken /\ Decimal(s) = NotTaken => Extract(s) = Character(s)
<1>1. PICK t : t = <<Hexadecimal(s), Binary(s), Decimal(s), Character(s)>>
  OBVIOUS
<1>2. /\ DOMAIN t = 1..4 /\ t[1] = Hexadecimal(s) /\ t[2] = Binary(s)
      /\ t[3] = Decimal(s) /\ t[4] = Character(s)
  BY <1>1
<1>3. PICK takers \in SUBSET (1..4) : takers = {i \in DOMAIN t : t[i] # NotTaken}
  BY <1>2
<1>4. Extract(s) = IF takers = {} THEN NotTaken ELSE t[Min(takers)]
  BY <1>1, <1>3 DEF Extract
<1>5. \A i \in 1..4 : i \in takers <=> t[i] # NotTaken
  BY <1>2, <1>3
<1>6. CASE takers = {}
  BY <1>2, <1>4, <1>5, <1>6
<1>7. CASE takers # {}
  <2>1. takers \in SUBSET Nat
    OBVIOUS
  <2>2. Min(takers) \in takers /\ \A i \in takers : Min(takers) <= i
    BY <1>7, <2>1, LeastExists
  <2>3. PICK m \in 1..4 : m = Min(takers) /\ t[m] # NotTaken /\ \A i \in 1..4 : t[i] # NotTaken => m <= i
    BY <1>5, <2>2
  <2>4. Extract(s) = t[m]
    BY <1>4, <1>7, <2>3
  <2>5. /\ t[1] # NotTaken => m = 1
        /\ t[1] = NotTaken /\ t[2] # NotTaken => m = 2
        /\ t[1] = NotTaken /\ t[2] = NotTaken /\ t[3] # NotTaken => m = 3
        /\ t[1] = NotTaken /\ t[2] = NotTaken /\ t[3] = NotTaken => m = 4
    BY <2>3
  <2> QED  BY <1>2, <2>4, <2>5
<1> QED  BY <1>6, <1>7

\* A line that is taken for a numeral gives its value, or Overflow.
LEMMA NumeralTaken ==
  ASSUME NEW base \in Bases, NEW s \in Seq(Char), s # <<>>, HasPointer(s),
         NEW digits \in Seq(Char), AllDigits(digits, base), Extract(s) = ParseBase(digits, base)
  PROVE  EFStringCreateNumber(s) =
            IF Strtoull(digits, base) > UMax(64) THEN Overflow
            ELSE Number(TypeFor(Strtoull(digits, base)), Strtoull(digits, base))
<1>1. PICK v \in Nat : v = Strtoull(digits, base)
  BY ValueWritten
<1>2. Extract(s) = IF v > UMax(64) THEN Overflow ELSE Taken(v)
  BY <1>1 DEF ParseBase
<1>3. Taken(v) # NotTaken /\ Taken(v) # Overflow /\ Overflow # NotTaken /\ Taken(v).value = v
  BY ResultsDiffer
<1>4. CASE v > UMax(64)
  BY <1>1, <1>2, <1>4 DEF EFStringCreateNumber
<1>5. CASE ~(v > UMax(64))
  BY <1>1, <1>2, <1>3, <1>5 DEF EFStringCreateNumber
<1> QED  BY <1>4, <1>5

\* What stands behind a prefix.
LEMMA RestOfLine ==
  ASSUME NEW s \in Seq(Char), Len(s) >= 2
  PROVE  Rest(s) \in Seq(Char) /\ \A i \in 3..Len(s) : \E k \in DOMAIN Rest(s) : Rest(s)[k] = s[i]
<1>1. PICK L \in Nat : L = Len(s) /\ DOMAIN s = 1..L /\ L >= 2
  BY LenProperties
<1>2. \A i \in 3..L : s[i] \in Char
  <2>1. \A i \in 3..L : i \in 1..L
    OBVIOUS
  <2> QED  BY <1>1, <2>1, ElementOfSeq
<1>3. PICK r : r = SubSeq(s, 3, L) /\ r = Rest(s)
  BY <1>1 DEF Rest
<1>4. /\ r \in Seq(Char) /\ Len(r) = IF 3 <= L THEN L - 3 + 1 ELSE 0
      /\ \A k \in 1..L - 3 + 1 : r[k] = s[3 + k - 1]
  BY <1>2, <1>3, SubSeqProperties
<1>5. ASSUME NEW i \in 3..L PROVE \E k \in DOMAIN r : r[k] = s[i]
  <2>1. PICK k \in 1..L - 3 + 1 : 3 + k - 1 = i
    <3>1. i - 2 \in 1..L - 3 + 1 /\ 3 + (i - 2) - 1 = i
      OBVIOUS
    <3> QED  BY <3>1
  <2>2. k \in DOMAIN r
    <3>1. DOMAIN r = 1..Len(r)
      BY <1>4, LenProperties
    <3> QED  BY <1>4, <3>1
  <2> QED  BY <1>4, <2>1, <2>2
<1> QED  BY <1>1, <1>3, <1>4, <1>5

\* A prefix and digits are ASCII.
LEMMA PrefixedPointer ==
  ASSUME NEW base \in Bases, NEW s \in Seq(Char), NEW letters \in SUBSET {"x", "X", "b", "B"},
         Prefixed(s, letters), AllDigits(Rest(s), base)
  PROVE  HasPointer(s) /\ Rest(s) \in Seq(Char) /\ s # <<>> /\ ~AllDigits(s, 10)
<1>1. PICK L \in Nat : L = Len(s) /\ DOMAIN s = 1..L /\ L >= 2
  BY LenProperties DEF Prefixed
<1>2. \A i \in 1..L : s[i] \in Char
  BY <1>1, ElementOfSeq
<1>3. s[1] = "0" /\ s[2] \in letters
  BY DEF Prefixed
<1>4. Rest(s) \in Seq(Char) /\ \A i \in 3..L : \E k \in DOMAIN Rest(s) : Rest(s)[k] = s[i]
  BY <1>1, RestOfLine
<1>5. s[1] \in ASCII /\ s[2] \in ASCII /\ DigitOf[s[2]] \notin 0..9
  <2>1. s[1] \in Char /\ s[2] \in Char
    BY <1>1, <1>2
  <2>2. DigitOf[s[1]] = 0 /\ s[2] \in Char \cap {"x", "X", "b", "B"}
    BY <1>3, <2>1, DigitAssumption
  <2> QED  BY <2>1, <2>2, DigitAssumption
<1>6. ASSUME NEW i \in 1..L PROVE s[i] \in ASCII
  <2>1. CASE i \in {1, 2}
    BY <1>5, <2>1
  <2>2. CASE i \notin {1, 2}
    <3>1. i \in 3..L
      BY <2>2
    <3>2. DigitOf[s[i]] \in 0..base - 1
      BY <1>4, <3>1 DEF AllDigits
    <3>3. DigitOf[s[i]] # -1
      BY <3>2 DEF Bases
    <3> QED  BY <1>2, <3>3, DigitAssumption
  <2> QED  BY <2>1, <2>2
<1>7. ~AllDigits(s, 10)
  <2>1. 2 \in DOMAIN s /\ 10 - 1 = 9
    BY <1>1
  <2> QED  BY <1>5, <2>1 DEF AllDigits
<1>8. s # <<>>
  BY <1>1
<1> QED  BY <1>1, <1>4, <1>6, <1>7, <1>8 DEF HasPointer

\* The three sorts of numerals, each taken for what it is.
LEMMA HexadecimalTaken ==
  ASSUME NEW s \in Seq(Char), Prefixed(s, {"x", "X"}), AllDigits(Rest(s), 16)
  PROVE  Extract(s) = ParseBase(Rest(s), 16) /\ HasPointer(s) /\ Rest(s) \in Seq(Char) /\ s # <<>>
<1>1. HasPointer(s) /\ Rest(s) \in Seq(Char) /\ s # <<>>
  <2>1. {"x", "X"} \in SUBSET {"x", "X", "b", "B"} /\ 16 \in Bases
    BY DEF Bases
  <2> QED  BY <2>1, PrefixedPointer
<1>2. Hexadecimal(s) = ParseBase(Rest(s), 16)
  BY DEF Hexadecimal
<1>3. ParseBase(Rest(s), 16) # NotTaken
  BY ResultsDiffer DEF ParseBase
<1> QED  BY <1>1, <1>2, <1>3, FirstTaker

LEMMA BinaryTaken ==
  ASSUME NEW s \in Seq(Char), Prefixed(s, {"b", "B"}), AllDigits(Rest(s), 2)
  PROVE  Extract(s) = ParseBase(Rest(s), 2) /\ HasPointer(s) /\ Rest(s) \in Seq(Char) /\ s # <<>>
<1>1. HasPointer(s) /\ Rest(s) \in Seq(Char) /\ s # <<>>
  <2>1. {"b", "B"} \in SUBSET {"x", "X", "b", "B"} /\ 2 \in Bases
    BY DEF Bases
  <2> QED  BY <2>1, PrefixedPointer
<1>2. Hexadecimal(s) = NotTaken /\ Binary(s) = ParseBase(Rest(s), 2)
  BY DEF Hexadecimal, Binary, Prefixed
<1>3. ParseBase(Rest(s), 2) # NotTaken
  BY ResultsDiffer DEF ParseBase
<1> QED  BY <1>1, <1>2, <1>3, FirstTaker

LEMMA DecimalTaken ==
  ASSUME NEW s \in Seq(Char), s # <<>>, AllDigits(s, 10)
  PROVE  Extract(s) = ParseBase(s, 10) /\ HasPointer(s)
<1>1. DOMAIN s = 1..Len(s) /\ Len(s) \in Nat /\ \A i \in 1..Len(s) : s[i] \in Char
  BY LenProperties, ElementOfSeq
<1>2. \A i \in DOMAIN s : DigitOf[s[i]] \in 0..9
  BY DEF AllDigits
<1>3. HasPointer(s)
  <2>1. \A i \in DOMAIN s : DigitOf[s[i]] # -1
    BY <1>2
  <2> QED  BY <1>1, <2>1, DigitAssumption DEF HasPointer
<1>4. ASSUME NEW letters \in SUBSET {"x", "X", "b", "B"}, Prefixed(s, letters) PROVE FALSE
  <2>1. 2 \in DOMAIN s /\ s[2] \in Char \cap {"x", "X", "b", "B"}
    <3>1. 2 \in 1..Len(s) /\ s[2] \in letters
      BY <1>1, <1>4 DEF Prefixed
    <3> QED  BY <1>1, <3>1
  <2> QED  BY <1>2, <2>1, DigitAssumption
<1>5. Hexadecimal(s) = NotTaken /\ Binary(s) = NotTaken
  BY <1>4 DEF Hexadecimal, Binary
<1>6. Decimal(s) = ParseBase(s, 10) /\ ParseBase(s, 10) # NotTaken
  BY ResultsDiffer DEF Decimal, ParseBase
<1> QED  BY <1>3, <1>5, <1>6, FirstTaker

\* A numeral that the line is taken for gives the number that is written that
\* way, and Overflow exactly if there is none.
LEMMA NumeralAgrees ==
  ASSUME NEW base \in Bases, NEW s \in Seq(Char), s # <<>>, HasPointer(s),
         NEW digits \in Seq(Char), AllDigits(digits, base), Extract(s) = ParseBase(digits, base)
  PROVE  \/ \E v \in 0..UMax(64) : Denotes(digits, base, v) /\ EFStringCreateNumber(s) = Number(TypeFor(v), v)
         \/ (\A v \in 0..UMax(64) : ~Denotes(digits, base, v)) /\ EFStringCreateNumber(s) = Overflow
<1>1. PICK v \in Nat : v = Strtoull(digits, base) /\ Denotes(digits, base, v)
  BY ValueWritten
<1>2. UMax(64) \in Nat
  BY NumberAssumption DEF UMax, Sizes
<1>3. EFStringCreateNumber(s) = IF v > UMax(64) THEN Overflow ELSE Number(TypeFor(v), v)
  BY <1>1, NumeralTaken
<1>4. CASE v > UMax(64)
  <2>1. ASSUME NEW w \in 0..UMax(64), Denotes(digits, base, w) PROVE FALSE
    <3>1. w \in Nat /\ w # v
      BY <1>2, <1>4
    <3> QED  BY <1>1, <2>1, <3>1, ValueUnique
  <2> QED  BY <1>3, <1>4, <2>1
<1>5. CASE ~(v > UMax(64))
  <2>1. v \in 0..UMax(64)
    BY <1>2, <1>5
  <2> QED  BY <1>1, <1>3, <1>5, <2>1
<1> QED  BY <1>4, <1>5

\* A quoted character is its code.
LEMMA CharacterTaken ==
  ASSUME NEW c \in ASCII, c # "\\", NEW s \in Seq(Char), s = <<"'", c, "'">>
  PROVE  EFStringCreateNumber(s) = Number(SInt64, Code[c])
<1>1. Len(s) = 3 /\ s[1] = "'" /\ s[2] = c /\ s[3] = "'" /\ DOMAIN s = 1..3 /\ s # <<>>
  OBVIOUS
<1>2. c \in Char /\ Code[c] \in 0..SMax(64)
  BY NumberAssumption
<1>3. "'" \in ASCII /\ DigitOf["'"] = -1
  BY DigitAssumption
<1>4. HasPointer(s)
  <2>1. \A i \in 1..3 : i = 1 \/ i = 2 \/ i = 3
    OBVIOUS
  <2> QED  BY <1>1, <1>3, <2>1 DEF HasPointer
<1>5. Hexadecimal(s) = NotTaken /\ Binary(s) = NotTaken
  BY <1>1 DEF Hexadecimal, Binary, Prefixed
<1>6. Decimal(s) = NotTaken
  <2>1. 1 \in DOMAIN s /\ DigitOf[s[1]] \notin 0..10 - 1
    BY <1>1, <1>3
  <2> QED  BY <2>1 DEF Decimal, AllDigits
<1>7. Character(s) = Taken(Code[c])
  BY <1>1 DEF Character
<1>8. Extract(s) = Taken(Code[c])
  BY <1>5, <1>6, <1>7, FirstTaker
<1>9. TypeFor(Code[c]) = SInt64
  BY <1>2 DEF TypeFor
<1>10. PICK v : v = Code[c] /\ Taken(v) # NotTaken /\ Taken(v) # Overflow /\ Taken(v).value = v
  BY ResultsDiffer
<1> QED  BY <1>1, <1>4, <1>8, <1>9, <1>10 DEF EFStringCreateNumber

LEMMA ParsedLine ==
  ASSUME line \in Seq(Char)
  PROVE  ParsedExactly
<1>1. ASSUME Prefixed(line, {"x", "X"}), AllDigits(Rest(line), 16)
      PROVE  \/ \E v \in 0..UMax(64) : Denotes(Rest(line), 16, v) /\ EFStringCreateNumber(line) = Number(TypeFor(v), v)
             \/ (\A v \in 0..UMax(64) : ~Denotes(Rest(line), 16, v)) /\ EFStringCreateNumber(line) = Overflow
  <2>1. Extract(line) = ParseBase(Rest(line), 16) /\ HasPointer(line) /\ Rest(line) \in Seq(Char) /\ line # <<>>
    BY <1>1, HexadecimalTaken
  <2>2. 16 \in Bases
    BY DEF Bases
  <2> QED  BY <1>1, <2>1, <2>2, NumeralAgrees
<1>2. ASSUME Prefixed(line, {"b", "B"}), AllDigits(Rest(line), 2)
      PROVE  \/ \E v \in 0..UMax(64) : Denotes(Rest(line), 2, v) /\ EFStringCreateNumber(line) = Number(TypeFor(v), v)
             \/ (\A v \in 0..UMax(64) : ~Denotes(Rest(line), 2, v)) /\ EFStringCreateNumber(line) = Overflow
  <2>1. Extract(line) = ParseBase(Rest(line), 2) /\ HasPointer(line) /\ Rest(line) \in Seq(Char) /\ line # <<>>
    BY <1>2, BinaryTaken
  <2>2. 2 \in Bases
    BY DEF Bases
  <2> QED  BY <1>2, <2>1, <2>2, NumeralAgrees
<1>3. ASSUME line # <<>>, AllDigits(line, 10)
      PROVE  \/ \E v \in 0..UMax(64) : Denotes(line, 10, v) /\ EFStringCreateNumber(line) = Number(TypeFor(v), v)
             \/ (\A v \in 0..UMax(64) : ~Denotes(line, 10, v)) /\ EFStringCreateNumber(line) = Overflow
  <2>1. Extract(line) = ParseBase(line, 10) /\ HasPointer(line)
    BY <1>3, DecimalTaken
  <2>2. 10 \in Bases
    BY DEF Bases
  <2> QED  BY <1>3, <2>1, <2>2, NumeralAgrees
<1>4. \A c \in ASCII \ {"\\"} : line = <<"'", c, "'">> => EFStringCreateNumber(line) = Number(SInt64, Code[c])
  BY CharacterTaken
<1>5. ASSUME line # <<>>, HasPointer(line)
      PROVE  EFStringIsNumber(line) <=> EFStringCreateNumber(line) # None
  <2>1. \A v, type : Number(type, v) # None
    BY NumbersDiffer
  <2>2. Overflow # None /\ Overflow # NotTaken
    BY NumbersDiffer, ResultsDiffer
  <2> QED  BY <1>5, <2>1, <2>2 DEF EFStringIsNumber, EFStringCreateNumber
<1> QED  BY <1>1, <1>2, <1>3, <1>4, <1>5 DEF ParsedExactly

(***************************************************************************)
(* Printing                                                                *)
(***************************************************************************)

\* Values of all types are between those of the signed and the unsigned 64 bits.
LEMMA ValueRange ==
  ASSUME NEW type \in Types, NEW v \in ValuesOf(type)
  PROVE  /\ v \in Int /\ -Half[64] <= v /\ v <= UMax(64)
         /\ v <= SMax(64) => v \in ValuesOf(SInt64)
         /\ v > SMax(64) => v \in ValuesOf(UInt64) /\ v > 0
<1>1. PICK h \in Nat \ {0}, H \in Nat \ {0} : h = Half[type.size] /\ H = Half[64] /\ h <= H
  BY NumberAssumption DEF Types, Sizes
<1>2. v \in Int /\ -h <= v /\ v <= 2 * h - 1
  BY <1>1 DEF ValuesOf, UMax, SMax
<1>3. ValuesOf(SInt64) = -(H - 1) - 1..H - 1 /\ ValuesOf(UInt64) = 0..2 * H - 1
  BY <1>1 DEF ValuesOf, SInt64, UInt64, UMax, SMax
<1>4. UMax(64) = 2 * H - 1 /\ SMax(64) = H - 1
  BY <1>1 DEF UMax, SMax
<1>5. -H <= v /\ v <= 2 * H - 1 /\ (v > H - 1 => v > 0)
  BY <1>1, <1>2
<1>6. (v <= H - 1 => v \in -(H - 1) - 1..H - 1) /\ (v > H - 1 => v \in 0..2 * H - 1)
  BY <1>2, <1>5
<1> QED  BY <1>1, <1>2, <1>3, <1>4, <1>5, <1>6

\* A cast of a value of the type changes nothing.
LEMMA CastFits ==
  ASSUME NEW type \in Types, NEW v \in ValuesOf(type)
  PROVE  Cast(type, v) = v
<1>1. PICK h \in Nat \ {0} : h = Half[type.size]
  BY NumberAssumption DEF Types, Sizes
<1>2. PICK m \in Nat \ {0} : m = 2 * h
  BY <1>1
<1>3. PICK low \in Int : low = v % m /\ (v >= 0 /\ v < m => low = v) /\ (v < 0 /\ -m <= v => low = v + m)
  <2>1. v \in Int
    BY ValueRange
  <2>2. v % m \in Int
    BY <2>1
  <2>3. v >= 0 /\ v < m => v % m = v
    BY <2>1
  <2>4. v < 0 /\ -m <= v => v % m = v + m
    BY <2>1
  <2> QED  BY <2>2, <2>3, <2>4
<1>4. Cast(type, v) = IF type.signed /\ low > h - 1 THEN low - m ELSE low
  BY <1>1, <1>2, <1>3 DEF Cast, SMax
<1>5. type.signed \in BOOLEAN
  BY DEF Types
<1>6. CASE type.signed
  <2>1. v \in Int /\ -h <= v /\ v <= h - 1
    BY <1>1, <1>6 DEF ValuesOf, SMax
  <2> QED  BY <1>2, <1>3, <1>4, <1>6, <2>1
<1>7. CASE ~type.signed
  <2>1. v \in Int /\ 0 <= v /\ v <= m - 1
    BY <1>1, <1>2, <1>7 DEF ValuesOf, UMax
  <2> QED  BY <1>2, <1>3, <1>4, <1>7, <2>1
<1> QED  BY <1>5, <1>6, <1>7

\* The digit of a value.
Digit(d) == CHOOSE c \in Char : DigitOf[c] = d

LEMMA DigitExists ==
  ASSUME NEW d \in 0..9, d <= UMax(64)
  PROVE  Digit(d) \in Char /\ DigitOf[Digit(d)] = d /\ (Digit(d) = "0" <=> d = 0)
<1>1. \E c \in Char : DigitOf[c] = d
  BY DigitAssumption
<1>2. Digit(d) \in Char /\ DigitOf[Digit(d)] = d
  BY <1>1 DEF Digit
<1> QED  BY <1>2, DigitAssumption

\* The digits that are printed for a number.
Magnitude(v) == IF v < 0 THEN -v ELSE v
DigitsPrinted(m) == IF m = 0 THEN <<0>> ELSE Numeral(m, 10)
PrintedDigits(m) == [i \in DOMAIN DigitsPrinted(m) |-> Digit(DigitsPrinted(m)[i])]

LEMMA PrintedIs == ASSUME NEW v
  PROVE  Printed(v) = (IF v < 0 THEN <<"-">> ELSE <<>>) \o PrintedDigits(Magnitude(v))
BY DEF Printed, PrintedDigits, DigitsPrinted, Magnitude, Digit

LEMMA PrintedDigitsDenote ==
  ASSUME NEW m \in Nat, m <= UMax(64)
  PROVE  /\ PrintedDigits(m) \in Seq(Char) /\ PrintedDigits(m) # <<>>
         /\ AllDigits(PrintedDigits(m), 10) /\ Denotes(PrintedDigits(m), 10, m)
<1>1. PICK t \in Seq(0..9) : t = DigitsPrinted(m) /\ t # <<>> /\ (m # 0 => t = Numeral(m, 10) /\ t[1] # 0)
                             /\ (m = 0 => t = <<0>>) /\ \A i \in 1..Len(t) : t[i] <= m
  <2>1. CASE m = 0
    <3>1. <<0>> \in Seq(0..9) /\ <<0>> # <<>> /\ Len(<<0>>) = 1 /\ <<0>>[1] = 0
      OBVIOUS
    <3>2. \A i \in 1..1 : i = 1
      OBVIOUS
    <3>3. \A i \in 1..Len(<<0>>) : <<0>>[i] <= m
      BY <2>1, <3>1, <3>2
    <3> QED  BY <2>1, <3>1, <3>3 DEF DigitsPrinted
  <2>2. CASE m # 0
    <3>1. 10 \in Bases /\ 0..10 - 1 = 0..9
      BY DEF Bases
    <3>2. /\ Numeral(m, 10) \in Seq(0..9) /\ Numeral(m, 10) # <<>> /\ Numeral(m, 10)[1] # 0
          /\ \A i \in 1..Len(Numeral(m, 10)) : Numeral(m, 10)[i] <= m
      BY <2>2, <3>1, NumeralShape
    <3> QED  BY <2>2, <3>2 DEF DigitsPrinted
  <2> QED  BY <2>1, <2>2
<1>2. PICK n \in Nat : n = Len(t) /\ DOMAIN t = 1..n /\ n > 0
  BY <1>1, EmptySeq, LenProperties
<1>3. UMax(64) \in Nat
  BY NumberAssumption DEF UMax, Sizes
<1>4. \A i \in 1..n : t[i] \in 0..9 /\ t[i] <= UMax(64)
  <2>1. \A i \in 1..n : t[i] \in 0..9
    BY <1>2, ElementOfSeq
  <2> QED  BY <1>1, <1>2, <1>3, <2>1
<1>5. \A i \in 1..n : Digit(t[i]) \in Char /\ DigitOf[Digit(t[i])] = t[i] /\ (Digit(t[i]) = "0" <=> t[i] = 0)
  BY <1>4, DigitExists
<1>6. PICK s : s = [i \in 1..n |-> Digit(t[i])] /\ s = PrintedDigits(m)
  BY <1>1, <1>2 DEF PrintedDigits
<1>7. s \in Seq(Char) /\ Len(s) = n /\ DOMAIN s = 1..n /\ s # <<>>
  <2>1. s \in Seq(Char) /\ Len(s) = n
    BY <1>2, <1>5, <1>6
  <2> QED  BY <1>2, <2>1, LenProperties
<1>8. AllDigits(s, 10)
  BY <1>4, <1>5, <1>6, <1>7 DEF AllDigits
<1>9. Denotes(s, 10, m)
  <2> DEFINE solid == {i \in DOMAIN s : s[i] # "0"}
  <2>1. CASE m = 0
    <3>1. solid = {}
      <4>1. n = 1 /\ t[1] = 0
        BY <1>1, <1>2, <2>1
      <4>2. \A i \in 1..n : s[i] = "0"
        BY <1>5, <1>6, <4>1
      <4> QED  BY <1>7, <4>2
    <3>2. DigitsOf(WithoutZeros(s)) = <<>>
      BY <3>1 DEF DigitsOf, WithoutZeros
    <3>3. 10 \in Bases
      BY DEF Bases
    <3> QED  BY <2>1, <3>2, <3>3, NumeralStep DEF Denotes
  <2>2. CASE m # 0
    <3>1. 1 \in solid
      BY <1>1, <1>2, <1>5, <1>6, <1>7, <2>2
    <3>2. solid \in SUBSET Nat /\ \A i \in solid : i >= 1
      BY <1>7
    <3>3. Min(solid) = 1
      <4>1. Min(solid) \in solid /\ \A i \in solid : Min(solid) <= i
        <5> HIDE DEF solid
        <5> QED  BY <3>1, <3>2, LeastExists
      <4>2. Min(solid) <= 1 /\ Min(solid) >= 1 /\ Min(solid) \in Nat
        <5> HIDE DEF solid
        <5> QED  BY <3>1, <3>2, <4>1
      <4> QED  BY <4>2
    <3>4. WithoutZeros(s) = SubSeq(s, 1, n)
      <4>1. solid # {}
        BY <3>1
      <4> QED  BY <1>7, <3>3, <4>1 DEF WithoutZeros
    <3>5. SubSeq(s, 1, n) = s
      BY <1>7, SubSeqFull
    <3>6. DigitsOf(s) = t
      <4>1. DigitsOf(s) = [i \in 1..n |-> t[i]]
        BY <1>5, <1>6, <1>7 DEF DigitsOf
      <4>2. t = [i \in 1..n |-> t[i]]
        BY <1>2, LenProperties
      <4> QED  BY <4>1, <4>2
    <3> QED  BY <1>1, <2>2, <3>4, <3>5, <3>6 DEF Denotes
  <2> QED  BY <2>1, <2>2
<1> QED  BY <1>6, <1>7, <1>8, <1>9

\* What is printed for a value is a line, and parses as the value again unless
\* it is negative.
LEMMA PrintedParses ==
  ASSUME NEW type \in Types, NEW v \in ValuesOf(type)
  PROVE  /\ Printed(v) \in Seq(Char) /\ Printed(v) # <<>>
         /\ EFStringCreateNumber(Printed(v)) = IF v < 0 THEN None ELSE Number(TypeFor(v), v)
<1>1. v \in Int /\ -Half[64] <= v /\ v <= UMax(64)
  BY ValueRange
<1>2. PICK m \in Nat : m = Magnitude(v) /\ m <= UMax(64) /\ (v >= 0 => m = v)
  <2>1. Half[64] \in Nat \ {0} /\ UMax(64) = 2 * Half[64] - 1
    BY NumberAssumption DEF UMax, Sizes
  <2>2. Half[64] <= UMax(64)
    BY <2>1
  <2> QED  BY <1>1, <2>1, <2>2 DEF Magnitude
<1>3. PICK s \in Seq(Char) : /\ s = PrintedDigits(m) /\ s # <<>>
                             /\ AllDigits(s, 10) /\ Denotes(s, 10, m)
  BY <1>2, PrintedDigitsDenote
<1>4. Printed(v) = (IF v < 0 THEN <<"-">> ELSE <<>>) \o s
  BY <1>2, <1>3, PrintedIs
<1>5. CASE v < 0
  <2>1. "-" \in Char /\ "-" \in ASCII /\ DigitOf["-"] = -1
    BY DigitAssumption, NumberAssumption
  <2>2. PICK t : t = <<"-">> \o s /\ t = Printed(v)
    BY <1>4, <1>5
  <2>3. <<"-">> \in Seq(Char) /\ Len(<<"-">>) = 1 /\ <<"-">>[1] = "-"
    BY <2>1
  <2>4. /\ t \in Seq(Char) /\ Len(t) = 1 + Len(s) /\ t[1] = "-"
        /\ \A i \in 1..Len(t) : t[i] = IF i <= 1 THEN "-" ELSE s[i - 1]
    <3>1. /\ t \in Seq(Char) /\ Len(t) = 1 + Len(s)
          /\ \A i \in 1..1 + Len(s) : t[i] = IF i <= 1 THEN <<"-">>[i] ELSE s[i - 1]
      BY <2>2, <2>3, ConcatProperties
    <3>2. \A i \in 1..Len(t) : i <= 1 => i = 1
      OBVIOUS
    <3>3. 1 \in 1..Len(t)
      BY <3>1, LenProperties
    <3> QED  BY <2>3, <3>1, <3>2, <3>3
  <2>5. Len(s) \in Nat /\ DOMAIN s = 1..Len(s) /\ DOMAIN t = 1..Len(t) /\ t # <<>>
    BY <2>4, LenProperties
  <2>6. HasPointer(t)
    <3>1. ASSUME NEW i \in 1..Len(t) PROVE t[i] \in ASCII
      <4>1. CASE i <= 1
        BY <2>1, <2>4, <4>1
      <4>2. CASE ~(i <= 1)
        <5>1. PICK k \in 1..Len(s) : k = i - 1
          BY <2>4, <2>5, <4>2
        <5>2. s[k] \in Char /\ DigitOf[s[k]] \in 0..10 - 1
          BY <1>3, <2>5, ElementOfSeq DEF AllDigits
        <5>3. s[k] \in ASCII
          <6>1. DigitOf[s[k]] # -1
            BY <5>2
          <6> QED  BY <5>2, <6>1, DigitAssumption
        <5> QED  BY <2>4, <4>2, <5>1, <5>3
      <4> QED  BY <4>1, <4>2
    <3> QED  BY <2>5, <3>1 DEF HasPointer
  <2>7. Hexadecimal(t) = NotTaken /\ Binary(t) = NotTaken
    BY <2>4 DEF Hexadecimal, Binary, Prefixed
  <2>8. Decimal(t) = NotTaken
    <3>1. 1 \in DOMAIN t /\ DigitOf[t[1]] \notin 0..10 - 1
      BY <2>1, <2>4, <2>5
    <3> QED  BY <3>1 DEF Decimal, AllDigits
  <2>9. Character(t) = NotTaken
    BY <2>4 DEF Character
  <2>10. Extract(t) = NotTaken
    BY <2>7, <2>8, <2>9, FirstTaker
  <2>11. Overflow # NotTaken
    BY ResultsDiffer
  <2>12. EFStringCreateNumber(t) = None
    BY <2>5, <2>6, <2>10, <2>11 DEF EFStringCreateNumber
  <2> QED  BY <1>5, <2>2, <2>4, <2>5, <2>12
<1>6. CASE ~(v < 0)
  <2>1. Printed(v) = s /\ m = v
    <3>1. <<>> \o s = s
      BY ConcatEmptySeq
    <3> QED  BY <1>1, <1>2, <1>4, <1>6, <3>1
  <2>2. 10 \in Bases
    BY DEF Bases
  <2>3. Strtoull(s, 10) = m
    BY <1>3, <2>2, ValueUnique
  <2>4. Extract(s) = ParseBase(s, 10) /\ HasPointer(s)
    BY <1>3, DecimalTaken
  <2>5. ~(m > UMax(64))
    BY <1>2, NumberAssumption DEF UMax, Sizes
  <2>6. EFStringCreateNumber(s) = Number(TypeFor(m), m)
    BY <1>3, <2>2, <2>3, <2>4, <2>5, NumeralTaken
  <2> QED  BY <1>3, <1>6, <2>1, <2>6
<1> QED  BY <1>5, <1>6

(***************************************************************************)
(* Numbers and their descriptions                                          *)
(***************************************************************************)

\* A value that was given is what its number holds, and then what the line
\* says, parsed again or not.
KeptAs(type, v) ==
    /\ given = [type |-> type, value |-> v]
    /\ \/ line = <<>> /\ number = Number(type, v)
       \/ line = Printed(v) /\ number \in {None, EFStringCreateNumber(line)}

Kept == \E type \in Types : \E v \in ValuesOf(type) : KeptAs(type, v)

NumberInv ==
    /\ line \in Seq(Char)
    /\ given = None \/ Kept
    /\ asked # Idle =>
          number = None \/ (HasValue(number) /\ given # None /\ asked = DescriptionFormat(number))

\* While there is a number to describe, it has the value that was given.
LEMMA ValueKept ==
  ASSUME Kept, HasValue(number)
  PROVE  \E type \in Types : \E v \in ValuesOf(type) :
            given = [type |-> type, value |-> v] /\ number.s128 = v
<1>1. PICK type, v : type \in Types /\ v \in ValuesOf(type) /\ KeptAs(type, v)
  BY DEF Kept
<1>2. number = Number(type, v) \/ number = Number(TypeFor(v), v)
  BY <1>1, PrintedParses, NumbersDiffer DEF KeptAs
<1> QED  BY <1>1, <1>2, NumbersDiffer DEF KeptAs

\* A description is that of its number.
LEMMA DescriptionMade ==
  ASSUME FormatInv, NEW n, NEW type \in Types, NEW v \in ValuesOf(type), n.s128 = v,
         asked = DescriptionFormat(n), asked # Idle, result \notin {Waiting, Null, Undefined}
  PROVE  Description(n) = Printed(v)
<1>1. ~failed /\ fmt = <<>> /\ result = BeforeNul(out) /\ out \in Seq(Pieces) /\ PiecesMade
  BY DEF FormatInv, FormatType
<1>2. PICK conv : conv = (IF v > SMax(64) THEN "u" ELSE "d") /\ asked = <<Directive(0, Absent, Absent, "ll", conv)>>
  BY DEF DescriptionFormat
<1>3. PICK item : item = asked[1] /\ item = [flags |-> 0, width |-> Absent, precision |-> Absent, length |-> "ll", conv |-> conv]
  BY <1>2 DEF Directive
<1>4. IsDirective(item) /\ item.conv = conv /\ conv # "c"
  BY <1>2, <1>3 DEF IsDirective
<1>5. Len(asked) = 1 /\ Len(fmt) = 0
  BY <1>1, <1>2
<1>6. Len(out) = 1 /\ DOMAIN out = 1..1
  BY <1>1, <1>5, LenProperties DEF PiecesMade
<1>7. IsExpected(asked, 1, out[1])
  <2>1. 1 \in 1..Len(out)
    BY <1>6
  <2> QED  BY <1>1, <2>1 DEF PiecesMade
<1>8. out[1].item.conv = conv /\ ~out[1].nul
  BY <1>3, <1>4, <1>7 DEF IsExpected
<1>9. result = out
  <2>1. {i \in DOMAIN out : out[i].nul} = {}
    <3>1. \A i \in 1..1 : i = 1
      OBVIOUS
    <3> QED  BY <1>6, <1>8, <3>1
  <2> QED  BY <1>1, <2>1 DEF BeforeNul
<1>10. PICK target : target = (IF result[1].item.conv = "u" THEN UInt64 ELSE SInt64)
                     /\ Description(n) = Printed(Cast(target, v))
  BY DEF Description
<1>11. target = IF v > SMax(64) THEN UInt64 ELSE SInt64
  BY <1>2, <1>8, <1>9, <1>10
<1>12. SMax(64) \in Int /\ v \in Int
  BY NumberAssumption, ValueRange DEF SMax, Sizes
<1>13. target \in Types /\ v \in ValuesOf(target)
  <2>1. SInt64 \in Types /\ UInt64 \in Types
    BY DEF SInt64, UInt64, Types, Sizes
  <2>2. (v <= SMax(64) => v \in ValuesOf(SInt64)) /\ (v > SMax(64) => v \in ValuesOf(UInt64))
    BY ValueRange
  <2> QED  BY <1>11, <1>12, <2>1, <2>2
<1> QED  BY <1>10, <1>13, CastFits

\* Only calls that begin and end change what was asked for.
LEMMA AskedStays == FormatStep => asked' = asked
BY DEF FormatStep, CopyText, FlagsSpin, EmitDescription, Refuse, CutOff, Return, EmitValue, Overrun, Advance, formatVars

LEMMA NumberInvariance == Spec => []NumberInv
<1>1. Init => NumberInv
  BY EmptySeq DEF Init, InitNumber, InitFormat, NumberInv
<1>2. FormatInv /\ NumberInv /\ [Next]_vars => NumberInv'
  <2> SUFFICES ASSUME FormatInv, NumberInv, [Next]_vars PROVE NumberInv'
    OBVIOUS
  <2>1. CASE NumberStep /\ fmt = Idle /\ UNCHANGED formatVars
    <3>1. asked' = Idle
      BY <2>1, IdleIsNoFormat DEF FormatInv, NoCall, Remaining, formatVars
    <3>2. ASSUME NEW c \in Char, Extend(c) PROVE NumberInv'
      <4>1. line' \in Seq(Char)
        BY <3>2, AppendProperties DEF Extend, NumberInv
      <4> QED  BY <3>1, <3>2, <4>1 DEF Extend, NumberInv
    <3>3. CASE ParseLine
      <4>1. line' = line /\ given' = given /\ number = None /\ number' = EFStringCreateNumber(line)
        BY <3>3 DEF ParseLine
      <4>2. ASSUME Kept PROVE Kept'
        <5>1. PICK type, v : type \in Types /\ v \in ValuesOf(type) /\ KeptAs(type, v)
          BY <4>2 DEF Kept
        <5>2. line = Printed(v)
          BY <4>1, <5>1, NumbersDiffer DEF KeptAs
        <5> QED  BY <4>1, <5>1, <5>2 DEF Kept, KeptAs
      <4> QED  BY <3>1, <4>1, <4>2 DEF NumberInv
    <3>4. ASSUME NEW type \in Types, NEW v \in ValuesOf(type), EFNumberCreate(type, v) PROVE NumberInv'
      BY <3>1, <3>4 DEF EFNumberCreate, NumberInv, Kept, KeptAs
    <3>5. CASE Release
      BY <3>1, <3>5, EmptySeq DEF Release, NumberInv
    <3> QED  BY <2>1, <3>2, <3>3, <3>4, <3>5 DEF NumberStep
  <2>2. ASSUME Quiet, UNCHANGED numberVars PROVE NumberInv'
    <3>1. number' = None
      BY <2>2 DEF Quiet, numberVars
    <3>2. Kept => Kept'
      BY <2>2 DEF numberVars, Kept, KeptAs
    <3> QED  BY <2>2, <3>1, <3>2 DEF NumberInv, numberVars
  <2>3. CASE Describe /\ UNCHANGED numberVars
    <3>1. asked' = DescriptionFormat(number) /\ HasValue(number) /\ given # None
      BY <2>3 DEF Describe, Begin
    <3> QED  BY <2>3, <3>1 DEF numberVars, NumberInv, Kept, KeptAs, DescriptionFormat
  <2>4. CASE FormatStep /\ UNCHANGED numberVars
    BY <2>4, AskedStays DEF numberVars, NumberInv, Kept, KeptAs, DescriptionFormat
  <2>5. CASE TakeDescription
    <3>1. /\ HasValue(number) /\ result \notin {Waiting, Null, Undefined} /\ line' = Description(number)
          /\ number' = None /\ asked' = Idle /\ given' = given
      BY <2>5 DEF TakeDescription, Forget
    <3>2. asked # Idle
      BY <3>1, IdleIsNoFormat DEF FormatInv, NoCall, Remaining
    <3>3. given # None /\ asked = DescriptionFormat(number)
      BY <3>1, <3>2, NumbersDiffer DEF NumberInv
    <3>4. PICK type, v : /\ type \in Types /\ v \in ValuesOf(type)
                         /\ given = [type |-> type, value |-> v] /\ number.s128 = v
      BY <3>1, <3>3, ValueKept DEF NumberInv
    <3>5. line' = Printed(v)
      BY <3>1, <3>2, <3>3, <3>4, DescriptionMade
    <3>6. line' \in Seq(Char)
      BY <3>4, <3>5, PrintedParses
    <3> QED  BY <3>1, <3>4, <3>5, <3>6 DEF NumberInv, Kept, KeptAs
  <2>6. CASE Forget /\ UNCHANGED numberVars
    BY <2>6 DEF Forget, numberVars, NumberInv, Kept, KeptAs
  <2>7. CASE UNCHANGED vars
    BY <2>7 DEF vars, numberVars, formatVars, NumberInv, Kept, KeptAs, DescriptionFormat
  <2> QED  BY <2>1, <2>2, <2>3, <2>4, <2>5, <2>6, <2>7 DEF Next
<1> QED  BY <1>1, <1>2, FormatInvariance, PTL DEF Spec

\* For any characters and widths, and lines of any length: a numeral gives the
\* number that is written that way or Overflow, a quoted character its code,
\* and EFStringIsNumber says yes to what gives a number.
THEOREM NumbersParseExactly == Spec => []ParsedExactly
<1>1. NumberInv => ParsedExactly
  BY ParsedLine DEF NumberInv
<1> QED  BY <1>1, NumberInvariance, PTL

\* A number gives back the value that it was made from, whatever its type, and
\* its description parses as this value again unless it is negative.
THEOREM NumbersComeBack == Spec => []RoundTrip
<1>1. NumberInv => RoundTrip
  <2> SUFFICES ASSUME NumberInv, given # None PROVE RoundTrip
    BY DEF RoundTrip
  <2>1. PICK type, v : type \in Types /\ v \in ValuesOf(type) /\ KeptAs(type, v)
    BY DEF NumberInv, Kept
  <2>2. given.value = v
    BY <2>1 DEF KeptAs
  <2>3. Printed(v) # <<>> /\ EFStringCreateNumber(Printed(v)) = IF v < 0 THEN None ELSE Number(TypeFor(v), v)
    BY <2>1, PrintedParses
  <2>4. line = <<>> => EFNumberGetValue(number) = v
    BY <2>1, <2>3, CastFits, NumbersDiffer DEF EFNumberGetValue, KeptAs
  <2>5. line # <<>> => EFStringCreateNumber(line) = IF v < 0 THEN None ELSE Number(TypeFor(v), v)
    BY <2>1, <2>3 DEF KeptAs
  <2>6. TypeFor(v) = IF v > SMax(64) THEN UInt64 ELSE SInt64
    <3>1. SMax(64) \in Int /\ v \in Int
      BY <2>1, NumberAssumption, ValueRange DEF SMax, Sizes
    <3> QED  BY <3>1 DEF TypeFor
  <2> QED  BY <2>2, <2>4, <2>5, <2>6 DEF RoundTrip
<1> QED  BY <1>1, NumberInvariance, PTL
=============================================================================
