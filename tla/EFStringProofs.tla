--------------------------- MODULE EFStringProofs ---------------------------
(***************************************************************************)
(* Proofs about EFString, EFSplit and EFURL.                               *)
(*                                                                         *)
(* The cells of a string are what the edits of EFText make of it, with a   *)
(* terminator right behind them, and they are valid in the encoding of the *)
(* string as long as no range deletion has cut a character, for any bytes, *)
(* texts and lengths.                                                      *)
(*                                                                         *)
(* A string is split into what stands between its separators.  The scan is *)
(* recursive, so that it is shown to exist first: were it not, there would *)
(* be a last position where it fails.                                      *)
(*                                                                         *)
(* Every string that EFURLGetPath has handed out is kept by its URL and is *)
(* its path; the path of a URL splits into the names it was joined from.   *)
(***************************************************************************)
EXTENDS EFString, EFURL, TLAPS, SequenceTheorems, FiniteSetTheorems

Cell == Byte \cup {NUL, Junk}

TypeOK == /\ buffer \in [Str -> Seq(Cell)]
          /\ length \in [Str -> Nat]
          /\ encoding \in [Str -> Encodings]
          /\ isMutable \in [Str -> BOOLEAN]
          /\ cut \in [Str -> BOOLEAN]

\* A string that exists has its bytes and the terminator inside its buffer; one
\* that does not has nothing.
StringInv(s) ==
    /\ Exists(s) => /\ length[s] + 1 <= Len(buffer[s])
                    /\ buffer[s][length[s] + 1] = NUL
                    /\ \A i \in 1..length[s] : buffer[s][i] \in Byte
    /\ ~Exists(s) => length[s] = 0 /\ ~isMutable[s] /\ ~cut[s]

Shape == TypeOK /\ \A s \in Str : StringInv(s)

\* Its bytes are characters of its encoding unless one has been cut.
CharInv(s) == Exists(s) /\ ~cut[s] /\ encoding[s] # "UTF7" => Valid(Content(s), encoding[s])

IInv == Shape /\ \A s \in Str : CharInv(s)

(***************************************************************************)
(* Buffers                                                                 *)
(***************************************************************************)

\* A slice of a sequence of bytes.
LEMMA Slice ==
  ASSUME NEW S, NEW t \in Seq(S), NEW a \in Nat, NEW n \in Nat, a + n <= Len(t)
  PROVE  /\ SubSeq(t, a + 1, a + n) \in Seq(S) /\ Len(SubSeq(t, a + 1, a + n)) = n
         /\ \A i \in 1..n : SubSeq(t, a + 1, a + n)[i] = t[a + i]
<1>1. Len(t) \in Nat /\ \A i \in a + 1..a + n : t[i] \in S
  BY LenProperties, ElementOfSeq
<1>2. /\ SubSeq(t, a + 1, a + n) \in Seq(S)
      /\ Len(SubSeq(t, a + 1, a + n)) = IF a + 1 <= a + n THEN (a + n) - (a + 1) + 1 ELSE 0
      /\ \A i \in 1..(a + n) - (a + 1) + 1 : SubSeq(t, a + 1, a + n)[i] = t[(a + 1) + i - 1]
  BY <1>1, SubSeqProperties
<1>3. (a + n) - (a + 1) + 1 = n /\ \A i \in 1..n : (a + 1) + i - 1 = a + i
  OBVIOUS
<1> QED  BY <1>2, <1>3

\* The first n cells of a buffer.
LEMMA FirstCells ==
  ASSUME NEW b, NEW n \in Nat, \A i \in 1..n : b[i] \in Byte
  PROVE  /\ SubSeq(b, 1, n) \in Seq(Byte) /\ Len(SubSeq(b, 1, n)) = n
         /\ \A i \in 1..n : SubSeq(b, 1, n)[i] = b[i]
         /\ n = 0 => SubSeq(b, 1, n) = <<>>
<1>1. /\ SubSeq(b, 1, n) \in Seq(Byte)
      /\ Len(SubSeq(b, 1, n)) = IF 1 <= n THEN n - 1 + 1 ELSE 0
      /\ \A i \in 1..n - 1 + 1 : SubSeq(b, 1, n)[i] = b[1 + i - 1]
  BY SubSeqProperties
<1>2. n = 0 => SubSeq(b, 1, n) = <<>>
  BY SubSeqEmpty
<1>3. n - 1 + 1 = n /\ \A i \in 1..n : 1 + i - 1 = i
  OBVIOUS
<1> QED  BY <1>1, <1>2, <1>3

\* The content of a string is its first cells.
LEMMA ContentBytes ==
  ASSUME Shape, NEW s \in Str
  PROVE  /\ Content(s) \in Seq(Byte) /\ Len(Content(s)) = length[s]
         /\ \A i \in 1..length[s] : Content(s)[i] = buffer[s][i]
         /\ ~Exists(s) => Content(s) = <<>>
<1>1. length[s] \in Nat /\ (~Exists(s) => length[s] = 0)
      /\ \A i \in 1..length[s] : buffer[s][i] \in Byte
  BY DEF Shape, TypeOK, StringInv
<1> QED  BY <1>1, FirstCells DEF Content

\* The same in the next state.
LEMMA ContentBytesNext ==
  ASSUME Shape', NEW s \in Str
  PROVE  /\ Content(s)' \in Seq(Byte) /\ Len(Content(s)') = length'[s]
         /\ \A i \in 1..length'[s] : Content(s)'[i] = buffer'[s][i]
         /\ ~Exists(s)' => Content(s)' = <<>>
<1>1. length'[s] \in Nat /\ (~Exists(s)' => length'[s] = 0)
      /\ \A i \in 1..length'[s] : buffer'[s][i] \in Byte
  BY DEF Shape, TypeOK, StringInv
<1> QED  BY <1>1, FirstCells DEF Content

\* A buffer with the bytes c and the terminator in front is, settled, one of a
\* string with these bytes.
LEMMA Settled ==
  ASSUME NEW b \in Seq(Cell), NEW c \in Seq(Byte), Len(c) + 1 <= Len(b),
         b[Len(c) + 1] = NUL, \A i \in 1..Len(c) : b[i] = c[i]
  PROVE  LET r == Settle(b, Len(c)) IN
         /\ r \in Seq(Cell) /\ Len(r) = Len(b) /\ r # <<>> /\ r[Len(c) + 1] = NUL
         /\ \A i \in 1..Len(c) : r[i] = c[i]
<1> DEFINE r == Settle(b, Len(c))
<1>1. Len(b) \in Nat /\ Len(c) \in Nat /\ DOMAIN b = 1..Len(b) /\ \A i \in 1..Len(b) : b[i] \in Cell
  BY LenProperties, ElementOfSeq
<1>2. r = [i \in 1..Len(b) |-> IF i > Len(c) + 1 THEN Junk ELSE b[i]]
  BY <1>1 DEF Settle
<1>3. \A i \in 1..Len(b) : r[i] \in Cell
  BY <1>1, <1>2 DEF Cell
<1>4. r \in [1..Len(b) -> Cell]
  BY <1>2, <1>3
<1>5. r \in Seq(Cell)
  BY <1>1, <1>4, SeqDef
<1>6. DOMAIN r = 1..Len(b) /\ DOMAIN r = 1..Len(r) /\ Len(r) \in Nat
  BY <1>2, <1>5, LenProperties
<1>7. Len(r) = Len(b)
  BY <1>1, <1>6
<1>8. r[Len(c) + 1] = NUL /\ \A i \in 1..Len(c) : r[i] = c[i]
  BY <1>1, <1>2
<1>9. r # <<>>
  BY <1>1, <1>7, EmptySeq
<1> QED  BY <1>5, <1>7, <1>8, <1>9

(***************************************************************************)
(* What the actions do to the content of the strings                       *)
(***************************************************************************)

Others(s) == \A r \in Str \ {s} : /\ Content(r)' = Content(r) /\ Exists(r)' = Exists(r)
                                  /\ encoding'[r] = encoding[r] /\ isMutable'[r] = isMutable[r]
                                  /\ cut'[r] = cut[r]

\* s has been edited and now holds c.
Edited(s, c) == /\ Editable(s) /\ Content(s)' = c /\ Exists(s)' /\ Others(s)
                /\ encoding'[s] = encoding[s] /\ isMutable'[s] = isMutable[s]

\* s has been created with c.
Made(s, c, enc) == /\ ~Exists(s) /\ Content(s)' = c /\ Exists(s)' /\ Others(s)
                   /\ encoding'[s] = enc /\ isMutable'[s] \in BOOLEAN /\ UNCHANGED cut

Dropped(s) == Exists(s) /\ Content(s)' = <<>> /\ ~Exists(s)' /\ Others(s) /\ isMutable'[s] = FALSE

\* Strings that a step does not touch keep what they have.
LEMMA Untouched ==
  ASSUME Shape, NEW s \in Str, NEW b, NEW n, buffer' = [buffer EXCEPT ![s] = b],
         length' = [length EXCEPT ![s] = n], NEW r \in Str \ {s}
  PROVE  Content(r)' = Content(r) /\ Exists(r)' = Exists(r) /\ buffer'[r] = buffer[r]
         /\ length'[r] = length[r]
BY DEF Shape, TypeOK, Content, Exists

\* A buffer with the bytes c and the terminator in front makes c the content.
LEMMA SetBufferEdits ==
  ASSUME Shape, NEW s \in Str, Editable(s), NEW b \in Seq(Cell), NEW c \in Seq(Byte),
         SetBuffer(s, b, Len(c)), Len(c) + 1 <= Len(b), b[Len(c) + 1] = NUL,
         \A i \in 1..Len(c) : b[i] = c[i],
         cut' \in [Str -> BOOLEAN], \A r \in Str \ {s} : cut'[r] = cut[r]
  PROVE  Shape' /\ Edited(s, c)
<1> DEFINE n == Settle(b, Len(c))
<1>1. /\ n \in Seq(Cell) /\ Len(n) = Len(b) /\ n # <<>> /\ n[Len(c) + 1] = NUL
      /\ \A i \in 1..Len(c) : n[i] = c[i]
  BY Settled
<1>2. Len(c) \in Nat /\ Len(b) \in Nat /\ \A i \in 1..Len(c) : c[i] \in Byte
  BY LenProperties, ElementOfSeq
<1>3. buffer' = [buffer EXCEPT ![s] = n] /\ length' = [length EXCEPT ![s] = Len(c)]
      /\ UNCHANGED <<encoding, isMutable>>
  BY DEF SetBuffer
<1> HIDE DEF n
<1>4. buffer'[s] = n /\ length'[s] = Len(c)
  BY <1>3 DEF Shape, TypeOK
<1>5. TypeOK'
  BY <1>1, <1>2, <1>3 DEF Shape, TypeOK
<1>6. Exists(s)'
  BY <1>1, <1>4 DEF Exists
<1>7. StringInv(s)'
  BY <1>1, <1>2, <1>4, <1>6 DEF StringInv
<1>8. Others(s)
  BY <1>3, Untouched DEF Others
<1>9. \A r \in Str \ {s} : StringInv(r)'
  <2> SUFFICES ASSUME NEW r \in Str \ {s} PROVE StringInv(r)'
    OBVIOUS
  <2>1. buffer'[r] = buffer[r] /\ length'[r] = length[r] /\ Exists(r)' = Exists(r)
        /\ isMutable'[r] = isMutable[r] /\ cut'[r] = cut[r]
    BY <1>3, Untouched
  <2>2. StringInv(r)
    BY DEF Shape
  <2> QED  BY <2>1, <2>2 DEF StringInv
<1>10. Shape'
  BY <1>5, <1>7, <1>9 DEF Shape
<1>11. Content(s)' = c
  <2>1. /\ Content(s)' \in Seq(Byte) /\ Len(Content(s)') = length'[s]
        /\ \A i \in 1..length'[s] : Content(s)'[i] = buffer'[s][i]
    BY <1>10, ContentBytesNext
  <2>2. Len(Content(s)') = Len(c) /\ \A i \in 1..Len(Content(s)') : Content(s)'[i] = c[i]
    BY <1>1, <1>4, <2>1
  <2> QED  BY <2>1, <2>2, SeqEqual
<1>12. Edited(s, c)
  BY <1>3, <1>6, <1>8, <1>11 DEF Edited
<1> QED  BY <1>10, <1>12

\* Two sequences of cells one after the other.
LEMMA Concat ==
  ASSUME NEW S, NEW c \in Seq(S), NEW t \in Seq(S)
  PROVE  /\ c \o t \in Seq(S) /\ Len(c \o t) = Len(c) + Len(t)
         /\ \A i \in 1..Len(c) : (c \o t)[i] = c[i]
         /\ \A i \in 1..Len(t) : (c \o t)[Len(c) + i] = t[i]
<1>1. /\ c \o t \in Seq(S) /\ Len(c \o t) = Len(c) + Len(t)
      /\ \A i \in 1..Len(c) + Len(t) : (c \o t)[i] = IF i <= Len(c) THEN c[i] ELSE t[i - Len(c)]
  BY ConcatProperties
<1>2. Len(c) \in Nat /\ Len(t) \in Nat
  BY LenProperties
<1>3. \A i \in 1..Len(c) : (c \o t)[i] = c[i]
  BY <1>1, <1>2
<1>4. ASSUME NEW i \in 1..Len(t) PROVE (c \o t)[Len(c) + i] = t[i]
  <2>1. Len(c) + i \in 1..Len(c) + Len(t) /\ ~(Len(c) + i <= Len(c)) /\ (Len(c) + i) - Len(c) = i
    BY <1>2
  <2> QED  BY <1>1, <2>1
<1> QED  BY <1>1, <1>3, <1>4

\* Bytes with a terminator behind them, as a buffer.
LEMMA Terminated ==
  ASSUME NEW c \in Seq(Byte)
  PROVE  /\ c \o <<NUL>> \in Seq(Cell) /\ Len(c \o <<NUL>>) = Len(c) + 1
         /\ (c \o <<NUL>>)[Len(c) + 1] = NUL
         /\ \A i \in 1..Len(c) : (c \o <<NUL>>)[i] = c[i]
<1>1. c \in Seq(Cell)
  BY SeqMonotonic DEF Cell
<1>2. <<NUL>> \in Seq(Cell) /\ Len(<<NUL>>) = 1 /\ <<NUL>>[1] = NUL
  BY DEF Cell
<1>3. PICK z \in Seq(Cell) : z = <<NUL>> /\ Len(z) = 1 /\ z[1] = NUL
  BY <1>2
<1>4. /\ c \o z \in Seq(Cell) /\ Len(c \o z) = Len(c) + Len(z)
      /\ \A i \in 1..Len(c) : (c \o z)[i] = c[i]
      /\ \A i \in 1..Len(z) : (c \o z)[Len(c) + i] = z[i]
  BY <1>1, Concat
<1>5. 1 \in 1..Len(z)
  BY <1>3
<1>6. (c \o z)[Len(c) + 1] = NUL
  BY <1>3, <1>4, <1>5
<1> QED  BY <1>3, <1>4, <1>6

\* Appending makes the content what it was, then the text.
LEMMA AppendEdits ==
  ASSUME Shape, NEW s \in Str, NEW t \in Seq(Byte), Append_(s, t)
  PROVE  Shape' /\ Edited(s, Content(s) \o t)
<1>1. Content(s) \in Seq(Byte) /\ Len(Content(s)) = length[s]
  BY ContentBytes
<1>2. PICK d \in Seq(Byte) : d = Content(s) /\ Len(d) = length[s]
  BY <1>1
<1>3. PICK c \in Seq(Byte) : c = d \o t /\ Len(c) = length[s] + Len(t)
  <2>1. d \o t \in Seq(Byte) /\ Len(d \o t) = Len(d) + Len(t)
    BY Concat
  <2> QED  BY <1>2, <2>1
<1>4. PICK b \in Seq(Cell) : /\ b = c \o <<NUL>> /\ Len(b) = Len(c) + 1 /\ b[Len(c) + 1] = NUL
                             /\ \A i \in 1..Len(c) : b[i] = c[i]
  BY Terminated
<1>5. Content(s) \o t \o <<NUL>> = b
  BY <1>2, <1>3, <1>4
<1>6. Editable(s) /\ SetBuffer(s, b, Len(c)) /\ UNCHANGED cut
  BY <1>3, <1>5 DEF Append_
<1>7. cut' \in [Str -> BOOLEAN] /\ \A r \in Str \ {s} : cut'[r] = cut[r]
  BY <1>6 DEF Shape, TypeOK
<1>8. Len(c) + 1 <= Len(b)
  BY <1>4, LenProperties
<1>9. Shape' /\ Edited(s, c)
  BY <1>4, <1>6, <1>7, <1>8, SetBufferEdits
<1> QED  BY <1>2, <1>3, <1>9

\* Deleting a range joins what is before it and what is behind it.
LEMMA DeleteEdits ==
  ASSUME Shape, NEW s \in Str, NEW from \in Int, NEW n \in Int, EFStringDeleteRange(s, from, n)
  PROVE  /\ Shape' /\ from \in Nat /\ n \in Nat /\ from + n <= length[s]
         /\ Edited(s, SubSeq(Content(s), 1, from) \o SubSeq(Content(s), from + n + 1, length[s]))
<1>1. /\ Editable(s) /\ from \in Nat /\ n \in Nat /\ from + n <= length[s] /\ length[s] \in Nat
      /\ length[s] + 1 <= Len(buffer[s]) /\ buffer[s] \in Seq(Cell) /\ Len(buffer[s]) \in Nat
      /\ buffer[s][length[s] + 1] = NUL
  BY LenProperties DEF EFStringDeleteRange, Editable, Shape, TypeOK, StringInv
<1>2. PICK d \in Seq(Byte) : /\ d = Content(s) /\ Len(d) = length[s]
                             /\ \A i \in 1..length[s] : d[i] = buffer[s][i]
  BY ContentBytes
<1>3. PICK x \in Seq(Byte) : /\ x = SubSeq(d, 1, from) /\ Len(x) = from
                             /\ \A i \in 1..from : x[i] = d[i]
  <2>1. \A i \in 1..from : d[i] \in Byte
    BY <1>1, <1>2, ElementOfSeq
  <2> QED  BY <1>1, <2>1, FirstCells
<1>rest. PICK m \in Nat : m = length[s] - (from + n) /\ from + n + m = length[s]
  <2>1. length[s] - (from + n) \in Nat /\ from + n + (length[s] - (from + n)) = length[s]
    BY <1>1
  <2> QED  BY <2>1
<1>sizes. PICK l \in Nat : l = length[s] /\ from + n + m = l /\ from \in Nat /\ n \in Nat /\ m \in Nat
  BY <1>1, <1>rest
<1>4. PICK y \in Seq(Byte) : /\ y = SubSeq(d, from + n + 1, length[s]) /\ Len(y) = m
                             /\ \A i \in 1..m : y[i] = d[from + n + i]
  <2>1. from + n + m <= Len(d) /\ from + n \in Nat
    BY <1>1, <1>2, <1>rest
  <2>2. /\ SubSeq(d, from + n + 1, from + n + m) \in Seq(Byte)
        /\ Len(SubSeq(d, from + n + 1, from + n + m)) = m
        /\ \A i \in 1..m : SubSeq(d, from + n + 1, from + n + m)[i] = d[from + n + i]
    BY <2>1, Slice
  <2> QED  BY <1>rest, <2>2
<1>5. PICK c \in Seq(Byte) : /\ c = x \o y /\ Len(c) = from + m
                             /\ \A i \in 1..from : c[i] = x[i]
                             /\ \A i \in 1..m : c[from + i] = y[i]
  <2>1. /\ x \o y \in Seq(Byte) /\ Len(x \o y) = Len(x) + Len(y)
        /\ \A i \in 1..Len(x) : (x \o y)[i] = x[i]
        /\ \A i \in 1..Len(y) : (x \o y)[Len(x) + i] = y[i]
    BY Concat
  <2>2. Len(x) = from /\ Len(y) = m
    BY <1>3, <1>4
  <2>3. PICK c \in Seq(Byte) : c = x \o y
    BY <2>1
  <2> QED  BY <2>1, <2>2, <2>3
<1> DEFINE b == Move(buffer[s], from, from + n, m + 1)
<1>6. /\ b \in Seq(Cell) /\ Len(b) = Len(buffer[s])
      /\ \A i \in 1..Len(b) : b[i] = IF i \in from + 1..from + (m + 1)
                                     THEN buffer[s][i - from + (from + n)] ELSE buffer[s][i]
  <2>1. DOMAIN buffer[s] = 1..Len(buffer[s]) /\ \A i \in 1..Len(buffer[s]) : buffer[s][i] \in Cell
    BY <1>1, LenProperties, ElementOfSeq
  <2>2. b = [i \in 1..Len(buffer[s]) |-> IF i \in from + 1..from + (m + 1)
                                         THEN buffer[s][i - from + (from + n)] ELSE buffer[s][i]]
    BY <2>1 DEF Move
  <2>3. \A i \in from + 1..from + (m + 1) : i - from + (from + n) \in 1..Len(buffer[s])
    <3> SUFFICES ASSUME NEW i \in from + 1..from + (m + 1)
                 PROVE  i - from + (from + n) \in 1..Len(buffer[s])
      OBVIOUS
    <3> HIDE DEF b
    <3>1. i \in Int /\ from + 1 <= i /\ i <= from + m + 1
      BY <1>sizes
    <3>2. i - from + (from + n) = i + n /\ i + n <= length[s] + 1 /\ i + n >= 1
      BY <1>sizes, <3>1
    <3> QED  BY <1>1, <3>1, <3>2
  <2>4. b \in [1..Len(buffer[s]) -> Cell]
    BY <2>1, <2>2, <2>3
  <2>5. b \in Seq(Cell)
    BY <1>1, <2>4, SeqDef
  <2>6. Len(b) = Len(buffer[s])
    <3>1. DOMAIN b = 1..Len(b) /\ Len(b) \in Nat
      BY <2>5, LenProperties
    <3> QED  BY <1>1, <2>2, <3>1
  <2> QED  BY <2>2, <2>5, <2>6
<1> HIDE DEF b
<1>7. Len(c) = from + m /\ from + m = length[s] - n /\ Len(c) + 1 <= Len(b) /\ Len(b) \in Nat
  <2>1. from + m = length[s] - n
    BY <1>1, <1>rest
  <2> QED  BY <1>1, <1>5, <1>6, <2>1
<1>8. b[Len(c) + 1] = NUL
  <2>1. PICK k \in Nat : k = from + m + 1 /\ k = Len(c) + 1
    BY <1>1, <1>rest, <1>7
  <2>2. k \in from + 1..from + (m + 1)
    BY <1>sizes, <2>1
  <2>3. k \in 1..Len(b)
    BY <1>1, <1>7, <2>1
  <2>4. k - from + (from + n) = length[s] + 1
    BY <1>sizes, <2>1
  <2>5. b[k] = buffer[s][k - from + (from + n)]
    BY <1>6, <2>2, <2>3
  <2> QED  BY <1>1, <2>1, <2>4, <2>5
<1>9. \A i \in 1..Len(c) : b[i] = c[i]
  <2> SUFFICES ASSUME NEW i \in 1..Len(c) PROVE b[i] = c[i]
    OBVIOUS
  <2>1. CASE i <= from
    <3>1. i \in 1..from /\ i \in 1..length[s] /\ i \in 1..Len(b) /\ i \notin from + 1..from + (m + 1)
      BY <1>1, <1>6, <1>7, <2>1
    <3>2. c[i] = buffer[s][i]
      BY <1>2, <1>3, <1>5, <3>1
    <3> QED  BY <1>6, <3>1, <3>2
  <2>2. CASE ~(i <= from)
    <3>0. PICK j \in Int : j = i - from /\ i = from + j
      <4>1. i \in Int /\ from \in Int
        BY <1>1, <1>7
      <4>2. i - from \in Int /\ i = from + (i - from)
        BY <4>1
      <4> QED  BY <4>2
    <3>1. /\ i - from \in 1..m /\ from + (i - from) = i /\ from + n + (i - from) \in 1..length[s]
          /\ i \in from + 1..from + (m + 1) /\ i \in 1..Len(b)
          /\ i - from + (from + n) = from + n + (i - from)
      <4>1. i \in Int /\ 1 <= i /\ i <= from + m /\ i > from
        BY <1>1, <1>rest, <1>7, <2>2
      <4>2. j \in 1..m /\ i \in from + 1..from + (m + 1) /\ i \in 1..Len(b)
        BY <1>sizes, <1>7, <3>0, <4>1
      <4>3. from + n + j \in 1..length[s]
        BY <1>1, <1>rest, <4>2
      <4>4. j + (from + n) = from + n + j
        BY <1>1
      <4> QED  BY <3>0, <4>2, <4>3, <4>4
    <3>2. c[from + (i - from)] = d[from + n + (i - from)]
      BY <1>4, <1>5, <3>1
    <3>3. c[i] = buffer[s][from + n + (i - from)]
      BY <1>2, <3>1, <3>2
    <3> QED  BY <1>6, <3>1, <3>3
  <2> QED  BY <2>1, <2>2
<1>10. /\ SetBuffer(s, b, Len(c))
       /\ cut' \in [Str -> BOOLEAN] /\ \A r \in Str \ {s} : cut'[r] = cut[r]
  <2>1. SetBuffer(s, b, Len(c))
    BY <1>rest, <1>7 DEF EFStringDeleteRange, b
  <2>2. cut' = [cut EXCEPT ![s] = cut[s] \/ CutsCharacter(s, from, n)]
    BY DEF EFStringDeleteRange
  <2>3. (cut[s] \/ CutsCharacter(s, from, n)) \in BOOLEAN
    BY ZenonT(20) DEF CutsCharacter
  <2> QED  BY <2>1, <2>2, <2>3 DEF Shape, TypeOK
<1>11. Shape' /\ Edited(s, c)
  BY <1>1, <1>6, <1>7, <1>8, <1>9, <1>10, SetBufferEdits
<1> QED  BY <1>1, <1>2, <1>3, <1>4, <1>5, <1>11

\* A set of numbers that is not empty has a least one: intervals of numbers
\* are finite sets, and inclusion of finite sets is well-founded.
LEMMA LeastExists ==
  ASSUME NEW S \in SUBSET Nat, S # {}
  PROVE  \E m \in S : \A i \in S : m <= i
<1> DEFINE R == StrictSubsetOrdering(Nat)
           T == {0..x : x \in S}
<1>1. IsWellFoundedOn(R, FiniteSubsetsOf(Nat))
  BY FS_StrictSubsetOrderingWellFounded
<1>2. T \subseteq FiniteSubsetsOf(Nat) /\ T # {}
  <2>1. ASSUME NEW x \in S PROVE 0..x \in FiniteSubsetsOf(Nat)
    <3>1. IsFiniteSet(0..x)
      BY FS_Interval
    <3> QED  BY <3>1 DEF FiniteSubsetsOf
  <2> QED  BY <2>1
<1>3. \E X \in T : \A Y \in T : <<Y, X>> \notin R
  <2> HIDE DEF R, T
  <2> QED  BY <1>1, <1>2, WFMin
<1>4. PICK x \in S : \A y \in S : <<0..y, 0..x>> \notin R
  BY <1>3
<1>5. ASSUME NEW y \in S PROVE x <= y
  <2> SUFFICES ASSUME y < x PROVE FALSE
    OBVIOUS
  <2>1. 0..y \subseteq 0..x /\ x \in 0..x /\ x \notin 0..y /\ 0..y \subseteq Nat /\ 0..x \subseteq Nat
    OBVIOUS
  <2> QED  BY <1>4, <2>1 DEF StrictSubsetOrdering
<1> QED  BY <1>5

\* It is Min.
LEMMA MinIsLeast ==
  ASSUME NEW S \in SUBSET Nat, S # {}
  PROVE  Min(S) \in S /\ \A i \in S : Min(S) <= i
<1>1. \E m \in S : \A i \in S : m <= i
  BY LeastExists
<1> QED  BY <1>1 DEF Min

\* The greatest of a set of numbers below a bound: the one nearest to it.
LEMMA MaxIsGreatest ==
  ASSUME NEW S \in SUBSET Nat, S # {}, NEW n \in Nat, \A i \in S : i <= n
  PROVE  Max(S) \in S /\ \A i \in S : i <= Max(S)
<1> DEFINE Distances == {d \in Nat : n - d \in S}
<1>1. PICK k \in S : TRUE
  OBVIOUS
<1>2. n - k \in Distances
  <2>1. n - k \in Nat /\ n - (n - k) = k
    BY <1>1
  <2> QED  BY <2>1
<1>3. PICK d \in Distances : \A e \in Distances : d <= e
  <2>1. Distances # {} /\ Distances \in SUBSET Nat
    BY <1>2
  <2> HIDE DEF Distances
  <2> QED  BY <2>1, LeastExists
<1>4. n - d \in S /\ n - d \in Nat
  BY <1>3
<1>5. ASSUME NEW i \in S PROVE n - d >= i
  <2>1. n - i \in Nat /\ n - (n - i) = i
    OBVIOUS
  <2>2. n - i \in Distances
    BY <2>1
  <2>3. d <= n - i
    BY <1>3, <2>2
  <2> QED  BY <2>1, <2>3
<1>6. \E m \in S : \A i \in S : m >= i
  BY <1>4, <1>5
<1>7. Max(S) \in S /\ \A i \in S : Max(S) >= i
  BY <1>6 DEF Max
<1> QED  BY <1>7

\* Trimming keeps the stretch from the first byte that is not white space to
\* the last, or nothing when there is none.
LEMMA TrimEdits ==
  ASSUME Shape, NEW s \in Str, EFStringTrimWhitespace(s)
  PROVE  /\ Shape' /\ UNCHANGED cut
         /\ \E from, n \in Nat :
               /\ from + n <= length[s]
               /\ Edited(s, SubSeq(Content(s), from + 1, from + n))
               /\ \A i \in 1..length[s] : i \notin from + 1..from + n => Content(s)[i] \in Space
               /\ n > 0 => Content(s)[from + 1] \notin Space /\ Content(s)[from + n] \notin Space
<1>1. /\ Editable(s) /\ length[s] \in Nat /\ Len(buffer[s]) \in Nat
      /\ length[s] + 1 <= Len(buffer[s]) /\ buffer[s] \in Seq(Cell) /\ UNCHANGED cut
  BY LenProperties DEF EFStringTrimWhitespace, TrimEnds, TrimToNothing, Editable, Shape, TypeOK,
                       StringInv
<1>2. PICK d \in Seq(Byte) : /\ d = Content(s) /\ Len(d) = length[s]
                             /\ \A i \in 1..length[s] : d[i] = buffer[s][i]
  BY ContentBytes
<1>3. DOMAIN buffer[s] = 1..Len(buffer[s]) /\ \A i \in 1..Len(buffer[s]) : buffer[s][i] \in Cell
  BY <1>1, LenProperties, ElementOfSeq
<1>4. Solid(s) = {i \in 0..length[s] - 1 : d[i + 1] \notin Space}
  <2>1. \A i \in 0..length[s] - 1 : d[i + 1] = buffer[s][i + 1]
    BY <1>1, <1>2
  <2> QED  BY <2>1 DEF Solid, IsSpace
<1>5. cut' \in [Str -> BOOLEAN] /\ \A r \in Str \ {s} : cut'[r] = cut[r]
  BY <1>1 DEF Shape, TypeOK
<1>6. CASE TrimToNothing(s)
  <2>1. Solid(s) = {} /\ SetBuffer(s, [buffer[s] EXCEPT ![1] = NUL], 0)
    BY <1>6 DEF TrimToNothing
  <2>2. PICK b \in Seq(Cell) : /\ b = [buffer[s] EXCEPT ![1] = NUL]
                               /\ Len(b) = Len(buffer[s]) /\ b[1] = NUL
    <3>1. 1 \in 1..Len(buffer[s]) /\ NUL \in Cell
      BY <1>1 DEF Cell
    <3>2. [buffer[s] EXCEPT ![1] = NUL] \in Seq(Cell)
          /\ Len([buffer[s] EXCEPT ![1] = NUL]) = Len(buffer[s])
          /\ [buffer[s] EXCEPT ![1] = NUL][1] = NUL
      BY <1>1, <3>1, ExceptSeq
    <3> QED  BY <3>2
  <2>3. PICK c \in Seq(Byte) : c = <<>> /\ Len(c) = 0
    BY EmptySeq
  <2>4. Shape' /\ Edited(s, c)
    <3>1. SetBuffer(s, b, Len(c)) /\ Len(c) + 1 <= Len(b) /\ b[Len(c) + 1] = NUL
          /\ \A i \in 1..Len(c) : b[i] = c[i]
      BY <1>1, <2>1, <2>2, <2>3
    <3> QED  BY <1>1, <1>5, <3>1, SetBufferEdits
  <2>5. SubSeq(d, 0 + 1, 0 + 0) = <<>>
    BY SubSeqEmpty
  <2>6. \A i \in 1..length[s] : d[i] \in Space
    <3> SUFFICES ASSUME NEW i \in 1..length[s] PROVE d[i] \in Space
      OBVIOUS
    <3>1. i - 1 \in 0..length[s] - 1 /\ (i - 1) + 1 = i
      BY <1>1
    <3> QED  BY <1>4, <2>1, <3>1
  <2>7. 0 \in Nat /\ 0 + 0 <= length[s] /\ ~(0 > 0)
    BY <1>1
  <2> QED  BY <1>1, <1>2, <2>3, <2>4, <2>5, <2>6, <2>7
<1>7. CASE TrimEnds(s)
  <2>1. Solid(s) # {} /\ Solid(s) \subseteq Nat /\ \A i \in Solid(s) : i <= length[s] - 1
    BY <1>1, <1>4, <1>7 DEF TrimEnds
  <2>2. PICK start \in Solid(s) : start = Min(Solid(s)) /\ \A i \in Solid(s) : start <= i
    BY <2>1, MinIsLeast
  <2>3. PICK end \in Solid(s) : end = Max(Solid(s)) /\ \A i \in Solid(s) : i <= end
    <3>1. length[s] \in Nat /\ \A i \in Solid(s) : i <= length[s]
      BY <1>1, <2>1
    <3> QED  BY <2>1, <3>1, MaxIsGreatest
  <2>4. PICK n \in Nat : n = end - start + 1 /\ n > 0 /\ start + n = end + 1
    <3>1. start \in Nat /\ end \in Nat /\ start <= end
      BY <2>1, <2>2, <2>3
    <3>2. end - start + 1 \in Nat /\ end - start + 1 > 0 /\ start + (end - start + 1) = end + 1
      BY <3>1
    <3> QED  BY <3>2
  <2>5. start \in Nat /\ end \in Nat /\ start + n <= length[s]
    BY <1>1, <2>1, <2>4
  <2>6. PICK c \in Seq(Byte) : /\ c = SubSeq(d, start + 1, start + n) /\ Len(c) = n
                               /\ \A i \in 1..n : c[i] = d[start + i]
    <3>1. start + n <= Len(d)
      BY <1>2, <2>5
    <3>2. /\ SubSeq(d, start + 1, start + n) \in Seq(Byte)
          /\ Len(SubSeq(d, start + 1, start + n)) = n
          /\ \A i \in 1..n : SubSeq(d, start + 1, start + n)[i] = d[start + i]
      BY <2>5, <3>1, Slice
    <3> QED  BY <3>2
  <2> DEFINE moved == Move(buffer[s], 0, start, n)
             b == [moved EXCEPT ![n + 1] = NUL]
  <2>7. /\ moved \in Seq(Cell) /\ Len(moved) = Len(buffer[s])
        /\ \A i \in 1..n : moved[i] = buffer[s][start + i]
    <3>1. moved = [i \in 1..Len(buffer[s]) |-> IF i \in 0 + 1..0 + n THEN buffer[s][i - 0 + start]
                                                                   ELSE buffer[s][i]]
      BY <1>3 DEF Move
    <3>2. \A i \in 0 + 1..0 + n : i - 0 + start \in 1..Len(buffer[s]) /\ i - 0 + start = start + i
      BY <1>1, <2>5
    <3>3. moved \in [1..Len(buffer[s]) -> Cell]
      BY <1>3, <3>1, <3>2
    <3>4. moved \in Seq(Cell)
      BY <1>1, <3>3, SeqDef
    <3>5. Len(moved) = Len(buffer[s])
      <4>1. DOMAIN moved = 1..Len(moved) /\ Len(moved) \in Nat
        BY <3>4, LenProperties
      <4> QED  BY <1>1, <3>1, <4>1
    <3>6. \A i \in 1..n : i \in 0 + 1..0 + n /\ i \in 1..Len(buffer[s])
      BY <1>1, <2>5
    <3>7. \A i \in 1..n : moved[i] = buffer[s][start + i]
      BY <3>1, <3>2, <3>6
    <3> QED  BY <3>4, <3>5, <3>7
  <2> HIDE DEF moved
  <2>8. /\ b \in Seq(Cell) /\ Len(b) = Len(buffer[s]) /\ b[n + 1] = NUL
        /\ \A i \in 1..n : b[i] = moved[i]
    <3>1. n + 1 \in 1..Len(moved) /\ NUL \in Cell
      BY <1>1, <2>5, <2>7 DEF Cell
    <3>2. b \in Seq(Cell) /\ Len(b) = Len(moved)
          /\ \A i \in 1..Len(moved) : b[i] = IF i = n + 1 THEN NUL ELSE moved[i]
      BY <2>7, <3>1, ExceptSeq
    <3>3. \A i \in 1..n : i \in 1..Len(moved) /\ i # n + 1
      BY <3>1
    <3> QED  BY <2>7, <3>1, <3>2, <3>3
  <2> HIDE DEF b
  <2>9. Shape' /\ Edited(s, c)
    <3>1. SetBuffer(s, b, Len(c))
      BY <1>7, <2>2, <2>3, <2>4, <2>6 DEF TrimEnds, b, moved
    <3>2. Len(c) + 1 <= Len(b) /\ b[Len(c) + 1] = NUL
      <4>1. n + 1 <= Len(buffer[s])
        BY <1>1, <2>5
      <4> QED  BY <2>6, <2>8, <4>1
    <3>3. \A i \in 1..Len(c) : b[i] = c[i]
      <4>1. ASSUME NEW i \in 1..n PROVE start + i \in 1..length[s]
        <5>1. start + i <= start + n /\ start + i >= 1
          BY <2>5
        <5> QED  BY <1>1, <2>5, <5>1
      <4> SUFFICES ASSUME NEW i \in 1..n PROVE b[i] = c[i]
        BY <2>6
      <4>2. c[i] = d[start + i] /\ b[i] = buffer[s][start + i]
        BY <2>6, <2>7, <2>8
      <4> QED  BY <1>2, <4>1, <4>2
    <3> QED  BY <1>1, <1>5, <2>8, <3>1, <3>2, <3>3, SetBufferEdits
  <2>10. \A i \in 1..length[s] : i \notin start + 1..start + n => d[i] \in Space
    <3> SUFFICES ASSUME NEW i \in 1..length[s], i \notin start + 1..start + n PROVE d[i] \in Space
      OBVIOUS
    <3>0. i \in Nat /\ 1 <= i /\ i <= length[s] /\ length[s] \in Nat
      BY <1>1
    <3>1. i - 1 \in 0..length[s] - 1 /\ (i - 1) + 1 = i /\ ~(start <= i - 1 /\ i - 1 <= end)
      <4>1. i - 1 \in 0..length[s] - 1 /\ (i - 1) + 1 = i
        BY <3>0
      <4>2. ASSUME start <= i - 1, i - 1 <= end PROVE i \in start + 1..start + n
        <5>1. start + 1 <= i /\ i <= end + 1
          BY <2>5, <3>0, <4>2
        <5> QED  BY <2>4, <2>5, <3>0, <5>1
      <4> QED  BY <4>1, <4>2
    <3>2. i - 1 \notin Solid(s)
      BY <2>2, <2>3, <3>1
    <3> QED  BY <1>4, <3>1, <3>2
  <2>11. d[start + 1] \notin Space /\ d[start + n] \notin Space
    BY <1>4, <2>4
  <2> QED  BY <1>1, <1>2, <2>5, <2>6, <2>9, <2>10, <2>11
<1> QED  BY <1>6, <1>7 DEF EFStringTrimWhitespace

\* A new string holds the bytes it was given.
LEMMA NewStringMakes ==
  ASSUME Shape, NEW s \in Str, NEW t \in Seq(Byte), NEW enc \in Encodings, NEW m \in BOOLEAN,
         NewString(s, t, enc, m)
  PROVE  Shape' /\ Made(s, t, enc) /\ Valid(t, enc)
<1>1. PICK b \in Seq(Cell) : /\ b = t \o <<NUL>> /\ Len(b) = Len(t) + 1 /\ b[Len(t) + 1] = NUL
                             /\ \A i \in 1..Len(t) : b[i] = t[i]
  BY Terminated
<1>2. /\ ~Exists(s) /\ buffer' = [buffer EXCEPT ![s] = b] /\ length' = [length EXCEPT ![s] = Len(t)]
      /\ encoding' = [encoding EXCEPT ![s] = enc] /\ isMutable' = [isMutable EXCEPT ![s] = m]
      /\ UNCHANGED cut /\ Valid(t, enc)
  BY <1>1 DEF NewString
<1>3. Len(t) \in Nat /\ \A i \in 1..Len(t) : t[i] \in Byte
  BY LenProperties, ElementOfSeq
<1>4. TypeOK'
  BY <1>2, <1>3 DEF Shape, TypeOK
<1>5. buffer'[s] = b /\ length'[s] = Len(t) /\ encoding'[s] = enc /\ isMutable'[s] = m
  BY <1>2 DEF Shape, TypeOK
<1>6. Exists(s)'
  <2>1. Len(b) # 0
    BY <1>1, <1>3
  <2>2. b # <<>>
    BY <2>1, EmptySeq
  <2> QED  BY <1>5, <2>2 DEF Exists
<1>7. StringInv(s)'
  BY <1>1, <1>3, <1>5, <1>6 DEF StringInv
<1>8. Others(s)
  <2>1. \A r \in Str \ {s} : encoding'[r] = encoding[r] /\ isMutable'[r] = isMutable[r]
                             /\ cut'[r] = cut[r]
    BY <1>2 DEF Shape, TypeOK
  <2> QED  BY <1>2, <2>1, Untouched DEF Others
<1>9. \A r \in Str \ {s} : StringInv(r)'
  <2> SUFFICES ASSUME NEW r \in Str \ {s} PROVE StringInv(r)'
    OBVIOUS
  <2>1. buffer'[r] = buffer[r] /\ length'[r] = length[r] /\ Exists(r)' = Exists(r)
    BY <1>2, Untouched
  <2>2. isMutable'[r] = isMutable[r] /\ cut'[r] = cut[r]
    BY <1>8 DEF Others
  <2>3. StringInv(r)
    BY DEF Shape
  <2> QED  BY <2>1, <2>2, <2>3 DEF StringInv
<1>10. Shape'
  BY <1>4, <1>7, <1>9 DEF Shape
<1>11. Content(s)' = t
  <2>1. /\ Content(s)' \in Seq(Byte) /\ Len(Content(s)') = length'[s]
        /\ \A i \in 1..length'[s] : Content(s)'[i] = buffer'[s][i]
    BY <1>10, ContentBytesNext
  <2>2. Len(Content(s)') = Len(t) /\ \A i \in 1..Len(Content(s)') : Content(s)'[i] = t[i]
    BY <1>1, <1>5, <2>1
  <2> QED  BY <2>1, <2>2, SeqEqual
<1>12. Made(s, t, enc)
  BY <1>2, <1>5, <1>6, <1>8, <1>11 DEF Made
<1> QED  BY <1>2, <1>10, <1>12

\* A copy is made of a range of the original.
LEMMA CopyMakes ==
  ASSUME Shape, NEW s \in Str, NEW n \in Str, NEW from \in Nat, NEW k \in Nat, NEW m \in BOOLEAN,
         EFStringCreateCopyWithRange(s, n, from, k, m)
  PROVE  LET t == SubSeq(Content(s), from + 1, from + k) IN
         /\ Exists(s) /\ from + k <= Len(Content(s))
         /\ Shape' /\ Made(n, t, encoding[s]) /\ Valid(t, encoding[s])
<1>1. Exists(s) /\ from + k <= length[s] /\ encoding[s] \in Encodings
  BY DEF EFStringCreateCopyWithRange, Shape, TypeOK
<1>2. PICK d \in Seq(Byte) : d = Content(s) /\ Len(d) = length[s]
  BY ContentBytes
<1>3. from + k <= Len(d)
  BY <1>1, <1>2
<1>4. PICK t \in Seq(Byte) : t = SubSeq(d, from + 1, from + k)
  <2>1. SubSeq(d, from + 1, from + k) \in Seq(Byte)
    BY <1>3, Slice
  <2> QED  BY <2>1
<1>5. NewString(n, t, encoding[s], m)
  BY <1>2, <1>4 DEF EFStringCreateCopyWithRange
<1>6. Shape' /\ Made(n, t, encoding[s]) /\ Valid(t, encoding[s])
  BY <1>1, <1>5, NewStringMakes
<1> QED  BY <1>1, <1>2, <1>3, <1>4, <1>6

\* A destroyed string leaves nothing.
LEMMA DestroyDrops ==
  ASSUME Shape, NEW s \in Str, Destroy(s)
  PROVE  Shape' /\ Dropped(s)
<1>1. /\ Exists(s) /\ buffer' = [buffer EXCEPT ![s] = <<>>] /\ length' = [length EXCEPT ![s] = 0]
      /\ encoding' = [encoding EXCEPT ![s] = "ASCII"]
      /\ isMutable' = [isMutable EXCEPT ![s] = FALSE] /\ cut' = [cut EXCEPT ![s] = FALSE]
  BY DEF Destroy
<1>2. <<>> \in Seq(Cell)
  BY EmptySeq
<1>3. TypeOK'
  BY <1>1, <1>2 DEF Shape, TypeOK, Encodings
<1>4. buffer'[s] = <<>> /\ length'[s] = 0 /\ isMutable'[s] = FALSE /\ cut'[s] = FALSE
  BY <1>1 DEF Shape, TypeOK
<1>5. ~Exists(s)'
  BY <1>4 DEF Exists
<1>6. StringInv(s)'
  BY <1>4, <1>5 DEF StringInv
<1>7. Others(s)
  <2>1. \A r \in Str \ {s} : encoding'[r] = encoding[r] /\ isMutable'[r] = isMutable[r]
                             /\ cut'[r] = cut[r]
    BY <1>1 DEF Shape, TypeOK
  <2> QED  BY <1>1, <2>1, Untouched DEF Others
<1>8. \A r \in Str \ {s} : StringInv(r)'
  <2> SUFFICES ASSUME NEW r \in Str \ {s} PROVE StringInv(r)'
    OBVIOUS
  <2>1. buffer'[r] = buffer[r] /\ length'[r] = length[r] /\ Exists(r)' = Exists(r)
    BY <1>1, Untouched
  <2>2. isMutable'[r] = isMutable[r] /\ cut'[r] = cut[r]
    BY <1>7 DEF Others
  <2>3. StringInv(r)
    BY DEF Shape
  <2> QED  BY <2>1, <2>2, <2>3 DEF StringInv
<1>9. Shape'
  BY <1>3, <1>6, <1>8 DEF Shape
<1>10. Content(s)' = <<>>
  BY <1>5, <1>9, ContentBytesNext
<1> QED  BY <1>1, <1>4, <1>5, <1>7, <1>9, <1>10 DEF Dropped

(***************************************************************************)
(* Characters                                                              *)
(***************************************************************************)

Checked == {"ASCII", "UTF8"}

\* The two bytes of a character of UTF-8 are neighbours.
LEMMA Neighbours ==
  ASSUME NEW t \in Seq(Byte), UTF8Valid(t), NEW i \in 1..Len(t)
  PROVE  /\ t[i] = "L" => i + 1 \in 1..Len(t) /\ t[i + 1] = "C"
         /\ t[i] = "C" => i - 1 \in 1..Len(t) /\ t[i - 1] = "L"
<1>1. Len(t) \in Nat /\ i \in DOMAIN t
  BY LenProperties
<1>2. /\ t[i] = "L" => i < Len(t) /\ t[i + 1] = "C"
      /\ t[i] = "C" => i > 1 /\ t[i - 1] = "L"
  BY <1>1 DEF UTF8Valid
<1>3. /\ i < Len(t) => i + 1 \in 1..Len(t)
      /\ i > 1 => i - 1 \in 1..Len(t)
  BY <1>1
<1> QED  BY <1>2, <1>3

\* So they are in every valid text: ASCII has none.
LEMMA ValidNeighbours ==
  ASSUME NEW t \in Seq(Byte), NEW enc \in Checked, Valid(t, enc), NEW i \in 1..Len(t)
  PROVE  /\ t[i] = "L" => i + 1 \in 1..Len(t) /\ t[i + 1] = "C"
         /\ t[i] = "C" => i - 1 \in 1..Len(t) /\ t[i - 1] = "L"
<1>1. CASE enc = "ASCII"
  <2>1. i \in DOMAIN t
    BY LenProperties
  <2> QED  BY <1>1, <2>1 DEF Valid, ASCIIValid
<1>2. CASE enc = "UTF8"
  <2>1. UTF8Valid(t)
    BY <1>2 DEF Valid
  <2> QED  BY <2>1, Neighbours
<1> QED  BY <1>1, <1>2 DEF Checked

\* Valid pieces make a valid whole.
LEMMA ConcatValid ==
  ASSUME NEW c \in Seq(Byte), NEW t \in Seq(Byte), NEW enc \in Checked,
         Valid(c, enc), Valid(t, enc)
  PROVE  Valid(c \o t, enc)
<1> DEFINE w == c \o t
<1>1. /\ w \in Seq(Byte) /\ Len(w) = Len(c) + Len(t) /\ Len(c) \in Nat /\ Len(t) \in Nat
      /\ \A i \in 1..Len(c) : w[i] = c[i]
      /\ \A i \in 1..Len(t) : w[Len(c) + i] = t[i]
  BY Concat, LenProperties
<1>2. DOMAIN w = 1..Len(w) /\ DOMAIN c = 1..Len(c) /\ DOMAIN t = 1..Len(t)
  BY <1>1, LenProperties
<1> HIDE DEF w
<1>3. ASSUME NEW i \in 1..Len(w), i > Len(c)
      PROVE  \E j \in 1..Len(t) : i = Len(c) + j
  <2>1. i - Len(c) \in 1..Len(t) /\ i = Len(c) + (i - Len(c))
    BY <1>1, <1>3
  <2> QED  BY <2>1
<1>4. CASE enc = "ASCII"
  <2>1. ASCIIValid(c) /\ ASCIIValid(t)
    BY <1>4 DEF Valid
  <2>2. ASSUME NEW i \in 1..Len(w) PROVE w[i] \notin {"L", "C"}
    <3>1. CASE i <= Len(c)
      <4>1. i \in 1..Len(c)
        BY <1>1, <3>1
      <4> QED  BY <1>1, <1>2, <2>1, <4>1 DEF ASCIIValid
    <3>2. CASE ~(i <= Len(c))
      <4>1. PICK j \in 1..Len(t) : i = Len(c) + j
        BY <1>1, <1>3, <3>2
      <4> QED  BY <1>1, <1>2, <2>1, <4>1 DEF ASCIIValid
    <3> QED  BY <3>1, <3>2
  <2> QED  BY <1>2, <1>4, <2>2 DEF Valid, ASCIIValid, w
<1>5. CASE enc = "UTF8"
  <2>1. UTF8Valid(c) /\ UTF8Valid(t)
    BY <1>5 DEF Valid
  <2>2. ASSUME NEW i \in 1..Len(w)
        PROVE  /\ w[i] = "L" => i < Len(w) /\ w[i + 1] = "C"
               /\ w[i] = "C" => i > 1 /\ w[i - 1] = "L"
    <3>1. CASE i <= Len(c)
      <4>1. i \in 1..Len(c) /\ w[i] = c[i]
        BY <1>1, <3>1
      <4>2. c[i] = "L" => i + 1 \in 1..Len(c) /\ c[i + 1] = "C"
        BY <2>1, <4>1, Neighbours
      <4>3. c[i] = "C" => i - 1 \in 1..Len(c) /\ c[i - 1] = "L"
        BY <2>1, <4>1, Neighbours
      <4> QED  BY <1>1, <4>1, <4>2, <4>3
    <3>2. CASE ~(i <= Len(c))
      <4>1. PICK j \in 1..Len(t) : i = Len(c) + j
        BY <1>1, <1>3, <3>2
      <4>2. w[i] = t[j]
        BY <1>1, <4>1
      <4>3. ASSUME t[j] = "L" PROVE i < Len(w) /\ w[i + 1] = "C"
        <5>1. j + 1 \in 1..Len(t) /\ t[j + 1] = "C"
          BY <2>1, <4>3, Neighbours
        <5>2. i + 1 = Len(c) + (j + 1) /\ i < Len(w)
          BY <1>1, <4>1, <5>1
        <5> QED  BY <1>1, <5>1, <5>2
      <4>4. ASSUME t[j] = "C" PROVE i > 1 /\ w[i - 1] = "L"
        <5>1. j - 1 \in 1..Len(t) /\ t[j - 1] = "L"
          BY <2>1, <4>4, Neighbours
        <5>2. i - 1 = Len(c) + (j - 1) /\ i > 1
          BY <1>1, <4>1, <5>1
        <5> QED  BY <1>1, <5>1, <5>2
      <4> QED  BY <4>2, <4>3, <4>4
    <3> QED  BY <3>1, <3>2
  <2> QED  BY <1>2, <1>5, <2>2 DEF Valid, UTF8Valid, w
<1> QED  BY <1>4, <1>5 DEF Checked

\* So is a slice that neither begins nor ends inside a character.
LEMMA SliceValid ==
  ASSUME NEW t \in Seq(Byte), NEW enc \in Checked, Valid(t, enc),
         NEW a \in Nat, NEW n \in Nat, a + n <= Len(t),
         n > 0 => t[a + 1] # "C" /\ t[a + n] # "L"
  PROVE  Valid(SubSeq(t, a + 1, a + n), enc)
<1> DEFINE w == SubSeq(t, a + 1, a + n)
<1>1. /\ w \in Seq(Byte) /\ Len(w) = n /\ \A i \in 1..n : w[i] = t[a + i]
  BY Slice
<1>2. DOMAIN w = 1..n /\ DOMAIN t = 1..Len(t) /\ Len(t) \in Nat
  BY <1>1, LenProperties
<1> HIDE DEF w
<1>3. \A i \in 1..n : a + i \in 1..Len(t)
  <2> SUFFICES ASSUME NEW i \in 1..n PROVE a + i \in 1..Len(t)
    OBVIOUS
  <2>1. a + i <= a + n /\ a + i >= 1
    OBVIOUS
  <2> QED  BY <1>2, <2>1
<1>4. CASE enc = "ASCII"
  <2>1. ASCIIValid(t)
    BY <1>4 DEF Valid
  <2>2. \A i \in 1..n : w[i] \notin {"L", "C"}
    BY <1>1, <1>2, <1>3, <2>1 DEF ASCIIValid
  <2> QED  BY <1>2, <1>4, <2>2 DEF Valid, ASCIIValid, w
<1>5. CASE enc = "UTF8"
  <2>1. UTF8Valid(t)
    BY <1>5 DEF Valid
  <2>2. ASSUME NEW i \in 1..n
        PROVE  /\ w[i] = "L" => i < n /\ w[i + 1] = "C"
               /\ w[i] = "C" => i > 1 /\ w[i - 1] = "L"
    <3>1. w[i] = t[a + i] /\ a + i \in 1..Len(t)
      BY <1>1, <1>3
    <3>2. ASSUME t[a + i] = "L" PROVE i < n /\ w[i + 1] = "C"
      <4>1. t[(a + i) + 1] = "C"
        BY <1>2, <2>1, <3>1, <3>2 DEF UTF8Valid
      <4>2. i < n
        <5> SUFFICES ASSUME i = n PROVE FALSE
          OBVIOUS
        <5> QED  BY <3>2
      <4>3. i + 1 \in 1..n /\ (a + i) + 1 = a + (i + 1)
        BY <4>2
      <4> QED  BY <1>1, <4>1, <4>2, <4>3
    <3>3. ASSUME t[a + i] = "C" PROVE i > 1 /\ w[i - 1] = "L"
      <4>1. t[(a + i) - 1] = "L"
        BY <1>2, <2>1, <3>1, <3>3 DEF UTF8Valid
      <4>2. i > 1
        <5> SUFFICES ASSUME i = 1 PROVE FALSE
          OBVIOUS
        <5> QED  BY <3>3
      <4>3. i - 1 \in 1..n /\ (a + i) - 1 = a + (i - 1)
        BY <4>2
      <4> QED  BY <1>1, <4>1, <4>2, <4>3
    <3> QED  BY <3>1, <3>2, <3>3
  <2>3. \A i \in DOMAIN w : /\ w[i] = "L" => i < Len(w) /\ w[i + 1] = "C"
                            /\ w[i] = "C" => i > 1 /\ w[i - 1] = "L"
    BY <1>1, <1>2, <2>2
  <2> QED  BY <1>5, <2>3 DEF Valid, UTF8Valid, w
<1> QED  BY <1>4, <1>5 DEF Checked

(***************************************************************************)
(* The invariant                                                           *)
(***************************************************************************)

\* Nothing exists at the start.
LEMMA InitIInv == Init => IInv
<1> SUFFICES ASSUME Init PROVE IInv
  OBVIOUS
<1>1. <<>> \in Seq(Cell)
  BY EmptySeq
<1>2. TypeOK /\ \A s \in Str : ~Exists(s) /\ length[s] = 0 /\ ~isMutable[s] /\ ~cut[s]
  BY <1>1 DEF Init, TypeOK, Encodings, Exists
<1> QED  BY <1>2 DEF IInv, Shape, StringInv, CharInv

\* The characters of the other strings are as before; those of an edited string
\* must be valid unless they are cut.
LEMMA EditedKeeps ==
  ASSUME IInv, Shape', NEW s \in Str, NEW c, Edited(s, c),
         ~cut'[s] /\ encoding[s] # "UTF7" => Valid(c, encoding[s])
  PROVE  IInv'
<1>1. CharInv(s)'
  BY DEF CharInv, Edited
<1>2. \A r \in Str \ {s} : CharInv(r)'
  BY DEF IInv, CharInv, Edited, Others
<1> QED  BY <1>1, <1>2 DEF IInv

\* A creation checks what it stores.
LEMMA MadeKeeps ==
  ASSUME IInv, Shape', NEW s \in Str, NEW c, NEW enc, Made(s, c, enc), Valid(c, enc)
  PROVE  IInv'
<1>1. CharInv(s)'
  BY DEF CharInv, Made
<1>2. \A r \in Str \ {s} : CharInv(r)'
  BY DEF IInv, CharInv, Made, Others
<1> QED  BY <1>1, <1>2 DEF IInv

\* Appending checks the text that is appended.
LEMMA AppendKeeps ==
  ASSUME IInv, NEW s \in Str, NEW t \in Seq(Byte), Append_(s, t)
  PROVE  IInv'
<1>1. Shape' /\ Edited(s, Content(s) \o t)
  BY AppendEdits DEF IInv
<1>2. /\ Exists(s) /\ Valid(t, encoding[s]) /\ cut'[s] = cut[s] /\ encoding[s] \in Encodings
      /\ Content(s) \in Seq(Byte)
  BY ContentBytes DEF Append_, Editable, IInv, Shape, TypeOK
<1>3. ASSUME ~cut'[s], encoding[s] # "UTF7" PROVE Valid(Content(s) \o t, encoding[s])
  <2>1. Valid(Content(s), encoding[s])
    BY <1>2, <1>3 DEF IInv, CharInv
  <2>2. encoding[s] \in Checked
    BY <1>2, <1>3 DEF Encodings, Checked
  <2> QED  BY <1>2, <2>1, <2>2, ConcatValid
<1> QED  BY <1>1, <1>3, EditedKeeps

\* Deleting a range that begins and ends between characters leaves characters.
LEMMA DeleteKeeps ==
  ASSUME IInv, NEW s \in Str, NEW from \in Int, NEW n \in Int, EFStringDeleteRange(s, from, n)
  PROVE  IInv'
<1>1. /\ Shape' /\ from \in Nat /\ n \in Nat /\ from + n <= length[s]
      /\ Edited(s, SubSeq(Content(s), 1, from) \o SubSeq(Content(s), from + n + 1, length[s]))
  BY DeleteEdits DEF IInv
<1>2. PICK t \in Seq(Byte) : /\ t = Content(s) /\ Len(t) = length[s]
                             /\ \A i \in 1..length[s] : t[i] = buffer[s][i]
  BY ContentBytes DEF IInv
<1>3. /\ Exists(s) /\ encoding[s] \in Encodings /\ length[s] \in Nat
      /\ ~cut'[s] => ~cut[s] /\ ~CutsCharacter(s, from, n)
  <2>1. Exists(s) /\ encoding[s] \in Encodings /\ length[s] \in Nat /\ cut \in [Str -> BOOLEAN]
    BY DEF EFStringDeleteRange, Editable, IInv, Shape, TypeOK
  <2>2. cut' = [cut EXCEPT ![s] = cut[s] \/ CutsCharacter(s, from, n)]
    BY DEF EFStringDeleteRange
  <2>3. cut'[s] = (cut[s] \/ CutsCharacter(s, from, n))
    BY <2>1, <2>2
  <2> QED  BY <2>1, <2>3
<1>4. ASSUME ~cut'[s], encoding[s] # "UTF7"
      PROVE  Valid(SubSeq(t, 1, from) \o SubSeq(t, from + n + 1, length[s]), encoding[s])
  <2>1. PICK enc \in Checked : enc = encoding[s] /\ Valid(t, enc)
    BY <1>2, <1>3, <1>4 DEF IInv, CharInv, Encodings, Checked
  <2>2. CASE n = 0
    <3>1. /\ 1 \in 1..Len(t) + 1 /\ from \in 1 - 1..Len(t) /\ Len(t) \in from..Len(t)
          /\ from + n + 1 = from + 1
      BY <1>1, <1>2, <1>3, <2>2
    <3>2. SubSeq(t, 1, from) \o SubSeq(t, from + 1, Len(t)) = t
      BY <3>1, ConcatAdjacentSubSeq, SubSeqFull
    <3> QED  BY <1>2, <2>1, <3>1, <3>2
  <2>3. CASE n # 0
    <3>1. /\ from < length[s] => t[from + 1] # "C"
          /\ from + n < length[s] => t[from + n + 1] # "C"
      <4>1. n > 0 /\ (from < length[s] => from + 1 \in 1..length[s])
            /\ (from + n < length[s] => from + n + 1 \in 1..length[s])
        BY <1>1, <1>3, <2>3
      <4> QED  BY <1>2, <1>3, <1>4, <4>1 DEF CutsCharacter
    <3>2. Valid(SubSeq(t, 0 + 1, 0 + from), enc)
      <4>1. ASSUME from > 0 PROVE t[0 + 1] # "C" /\ t[0 + from] # "L"
        <5>1. 1 \in 1..Len(t) /\ from \in 1..Len(t) /\ ~(1 - 1 \in 1..Len(t))
          BY <1>1, <1>2, <1>3, <4>1
        <5>2. t[1] # "C"
          BY <2>1, <5>1, ValidNeighbours
        <5>3. ASSUME t[from] = "L" PROVE FALSE
          <6>1. from + 1 \in 1..Len(t) /\ t[from + 1] = "C"
            BY <2>1, <5>1, <5>3, ValidNeighbours
          <6>2. from < length[s]
            BY <1>1, <1>2, <6>1
          <6> QED  BY <3>1, <6>1, <6>2
        <5> QED  BY <5>2, <5>3
      <4>2. 0 \in Nat /\ 0 + from <= Len(t)
        BY <1>1, <1>2, <1>3
      <4> QED  BY <1>1, <2>1, <4>1, <4>2, SliceValid
    <3>3. PICK a \in Nat, m \in Nat : a = from + n /\ m = length[s] - a /\ a + m = length[s]
      <4>1. from + n \in Nat /\ length[s] - (from + n) \in Nat
            /\ (from + n) + (length[s] - (from + n)) = length[s]
        BY <1>1, <1>3
      <4> QED  BY <4>1
    <3>4. Valid(SubSeq(t, a + 1, a + m), enc)
      <4>1. ASSUME m > 0 PROVE t[a + 1] # "C" /\ t[a + m] # "L"
        <5>1. a < length[s] /\ a + m \in 1..Len(t) /\ ~((a + m) + 1 \in 1..Len(t))
          BY <1>2, <1>3, <3>3, <4>1
        <5>2. t[a + 1] # "C"
          BY <3>1, <3>3, <5>1
        <5>3. t[a + m] # "L"
          BY <2>1, <5>1, ValidNeighbours
        <5> QED  BY <5>2, <5>3
      <4>2. a + m <= Len(t)
        BY <1>2, <1>3, <3>3
      <4> QED  BY <2>1, <4>1, <4>2, SliceValid
    <3>5. PICK x \in Seq(Byte), y \in Seq(Byte) :
              x = SubSeq(t, 1, from) /\ y = SubSeq(t, from + n + 1, length[s])
      <4>1. SubSeq(t, 0 + 1, 0 + from) \in Seq(Byte)
        <5>1. 0 \in Nat /\ 0 + from <= Len(t)
          BY <1>1, <1>2, <1>3
        <5> QED  BY <1>1, <5>1, Slice
      <4>2. SubSeq(t, a + 1, a + m) \in Seq(Byte)
        <5>1. a + m <= Len(t)
          BY <1>2, <1>3, <3>3
        <5> QED  BY <5>1, Slice
      <4>3. 0 + 1 = 1 /\ 0 + from = from
        BY <1>1
      <4> QED  BY <3>3, <4>1, <4>2, <4>3
    <3>6. Valid(x, enc) /\ Valid(y, enc)
      <4>1. 0 + 1 = 1 /\ 0 + from = from
        BY <1>1
      <4> QED  BY <3>2, <3>3, <3>4, <3>5, <4>1
    <3>7. Valid(x \o y, enc)
      BY <3>6, ConcatValid
    <3> QED  BY <2>1, <3>5, <3>7
  <2> QED  BY <2>2, <2>3
<1> QED  BY <1>1, <1>2, <1>4, EditedKeeps

\* Trimming never cuts a character: white space is no part of one.
LEMMA TrimKeeps ==
  ASSUME IInv, NEW s \in Str, EFStringTrimWhitespace(s)
  PROVE  IInv'
<1>1. PICK from \in Nat, n \in Nat :
          /\ Shape' /\ UNCHANGED cut /\ from + n <= length[s]
          /\ Edited(s, SubSeq(Content(s), from + 1, from + n))
          /\ \A i \in 1..length[s] : i \notin from + 1..from + n => Content(s)[i] \in Space
  BY TrimEdits DEF IInv
<1>2. PICK t \in Seq(Byte) : t = Content(s) /\ Len(t) = length[s]
  BY ContentBytes DEF IInv
<1>3. Exists(s) /\ encoding[s] \in Encodings /\ length[s] \in Nat
  BY <1>1 DEF Edited, Editable, IInv, Shape, TypeOK
<1>4. "L" \notin Space /\ "C" \notin Space
  BY StringAssumption
<1>5. ASSUME ~cut'[s], encoding[s] # "UTF7"
      PROVE  Valid(SubSeq(t, from + 1, from + n), encoding[s])
  <2>1. PICK enc \in Checked : enc = encoding[s] /\ Valid(t, enc)
    BY <1>1, <1>2, <1>3, <1>5 DEF IInv, CharInv, Encodings, Checked
  <2>2. ASSUME n > 0 PROVE t[from + 1] # "C" /\ t[from + n] # "L"
    <3>1. from + 1 \in 1..Len(t) /\ from + n \in 1..Len(t)
      BY <1>1, <1>2, <1>3, <2>2
    <3>2. ASSUME t[from + 1] = "C" PROVE FALSE
      <4>1. (from + 1) - 1 \in 1..Len(t) /\ t[(from + 1) - 1] = "L"
        BY <2>1, <3>1, <3>2, ValidNeighbours
      <4>2. (from + 1) - 1 = from /\ from \notin from + 1..from + n
        OBVIOUS
      <4> QED  BY <1>1, <1>2, <1>4, <4>1, <4>2
    <3>3. ASSUME t[from + n] = "L" PROVE FALSE
      <4>1. (from + n) + 1 \in 1..Len(t) /\ t[(from + n) + 1] = "C"
        BY <2>1, <3>1, <3>3, ValidNeighbours
      <4>2. (from + n) + 1 \notin from + 1..from + n
        OBVIOUS
      <4> QED  BY <1>1, <1>2, <1>4, <4>1, <4>2
    <3> QED  BY <3>2, <3>3
  <2>3. from + n <= Len(t)
    BY <1>1, <1>2
  <2> QED  BY <2>1, <2>2, <2>3, SliceValid
<1> QED  BY <1>1, <1>2, <1>5, EditedKeeps

\* Destruction leaves the other strings alone.
LEMMA DestroyKeeps ==
  ASSUME IInv, NEW s \in Str, Destroy(s)
  PROVE  IInv'
<1>1. Shape' /\ Dropped(s)
  BY DestroyDrops DEF IInv
<1>2. CharInv(s)'
  BY <1>1 DEF CharInv, Dropped
<1>3. \A r \in Str \ {s} : CharInv(r)'
  BY <1>1 DEF IInv, CharInv, Dropped, Others
<1> QED  BY <1>1, <1>2, <1>3 DEF IInv

\* The texts of the callers are byte sequences, the ranges they ask for numbers.
LEMMA Arguments == /\ \A t \in Texts : t \in Seq(Byte)
                   /\ \A i \in 0..MaxLength : i \in Nat
                   /\ \A i \in -1..MaxLength : i \in Int
BY StringAssumption

\* Every step preserves the invariant.
LEMMA NextIInv == IInv /\ [Next]_vars => IInv'
<1> SUFFICES ASSUME IInv, [Next]_vars PROVE IInv'
  OBVIOUS
<1>1. ASSUME NEW s \in Str, NEW t \in Texts, NEW enc \in Encodings,
             EFStringCreateWithCString(s, t, enc)
      PROVE  IInv'
  <2>1. Shape' /\ Made(s, t, enc) /\ Valid(t, enc)
    BY <1>1, Arguments, NewStringMakes DEF IInv, EFStringCreateWithCString
  <2> QED  BY <2>1, MadeKeeps
<1>2. ASSUME NEW s \in Str, NEW t \in Texts, EFStringAppendFormat(s, t) PROVE IInv'
  BY <1>2, Arguments, AppendKeeps DEF EFStringAppendFormat
<1>3. ASSUME NEW s \in Str, NEW n \in Str, NEW from \in 0..MaxLength, NEW k \in 0..MaxLength,
             NEW m \in BOOLEAN, EFStringCreateCopyWithRange(s, n, from, k, m)
      PROVE  IInv'
  <2>1. from \in Nat /\ k \in Nat
    BY Arguments
  <2>2. /\ Shape' /\ Made(n, SubSeq(Content(s), from + 1, from + k), encoding[s])
        /\ Valid(SubSeq(Content(s), from + 1, from + k), encoding[s])
    BY <1>3, <2>1, CopyMakes DEF IInv
  <2> QED  BY <2>2, MadeKeeps
<1>4. ASSUME NEW s \in Str, NEW a \in Str, EFStringAppendString(s, a) PROVE IInv'
  <2>1. Content(a) \in Seq(Byte)
    BY ContentBytes DEF IInv
  <2> QED  BY <1>4, <2>1, AppendKeeps DEF EFStringAppendString
<1>5. ASSUME NEW s \in Str, NEW from \in -1..MaxLength, NEW n \in -1..MaxLength,
             EFStringDeleteRange(s, from, n)
      PROVE  IInv'
  BY <1>5, Arguments, DeleteKeeps
<1>6. ASSUME NEW s \in Str, EFStringTrimWhitespace(s) PROVE IInv'
  BY <1>6, TrimKeeps
<1>7. ASSUME NEW s \in Str, Destroy(s) PROVE IInv'
  BY <1>7, DestroyKeeps
<1>8. CASE UNCHANGED vars
  <2>1. Shape'
    BY <1>8 DEF vars, IInv, Shape, TypeOK, StringInv, Exists
  <2>2. \A s \in Str : CharInv(s)'
    BY <1>8 DEF vars, IInv, CharInv, Content, Exists
  <2> QED  BY <2>1, <2>2 DEF IInv
<1> QED  BY <1>1, <1>2, <1>3, <1>4, <1>5, <1>6, <1>7, <1>8 DEF Next

\* Buffers are well-formed and characters whole in every reachable state.
THEOREM Invariance == Spec => []IInv
BY InitIInv, NextIInv, PTL DEF Spec

\* Every string is terminated right behind its bytes, and these are valid in
\* its encoding (UTF-7 aside) unless a range deletion has cut a character.
THEOREM TextValidity == Spec => []ValidUnlessCut
<1>1. IInv => ValidUnlessCut
  BY DEF IInv, Shape, StringInv, CharInv, ValidUnlessCut
<1> QED  BY <1>1, Invariance, PTL

(***************************************************************************)
(* The refinement of EFText                                                *)
(***************************************************************************)

text == [s \in Str |-> Content(s)]
existing == [s \in Str |-> Exists(s)]

\* An edit of the cells is an edit of the text.
LEMMA EditRefines ==
  ASSUME Shape, Shape', NEW s \in Str, NEW c, Edited(s, c)
  PROVE  Abstract!Edit(s, c)
<1>1. text' = [text EXCEPT ![s] = c]
  BY DEF Edited, Others, text
<1>2. existing' = existing
  BY DEF Edited, Others, Editable, existing
<1>3. isMutable' = isMutable
  <2>1. isMutable \in [Str -> BOOLEAN] /\ isMutable' \in [Str -> BOOLEAN]
    BY DEF Shape, TypeOK
  <2>2. \A r \in Str : isMutable'[r] = isMutable[r]
    BY DEF Edited, Others
  <2> QED  BY <2>1, <2>2
<1>4. existing[s] /\ isMutable[s]
  BY DEF Edited, Editable, existing
<1> QED  BY <1>1, <1>2, <1>3, <1>4 DEF Abstract!Edit, Abstract!Set, text, existing

\* So is a creation.
LEMMA MakeRefines ==
  ASSUME Shape, Shape', NEW s \in Str, NEW c, NEW enc, Made(s, c, enc)
  PROVE  Abstract!Make(s, c)
<1>1. text' = [text EXCEPT ![s] = c]
  BY DEF Made, Others, text
<1>2. existing' = [existing EXCEPT ![s] = TRUE]
  BY DEF Made, Others, existing
<1>3. isMutable' = [isMutable EXCEPT ![s] = isMutable'[s]]
  <2>1. isMutable \in [Str -> BOOLEAN] /\ isMutable' \in [Str -> BOOLEAN]
    BY DEF Shape, TypeOK
  <2>2. \A r \in Str \ {s} : isMutable'[r] = isMutable[r]
    BY DEF Made, Others
  <2> QED  BY <2>1, <2>2
<1>4. ~existing[s] /\ isMutable'[s] \in BOOLEAN
  BY DEF Made, existing
<1> QED  BY <1>1, <1>2, <1>3, <1>4 DEF Abstract!Make, Abstract!Set, text, existing

\* And a destruction.
LEMMA DropRefines ==
  ASSUME Shape, Shape', NEW s \in Str, Dropped(s)
  PROVE  Abstract!Drop(s)
<1>1. text' = [text EXCEPT ![s] = <<>>]
  BY DEF Dropped, Others, text
<1>2. existing' = [existing EXCEPT ![s] = FALSE]
  <2>1. Exists(s)' = FALSE /\ \A r \in Str \ {s} : Exists(r)' = Exists(r)
    BY DEF Dropped, Others, Exists
  <2> QED  BY <2>1 DEF existing
<1>3. isMutable' = [isMutable EXCEPT ![s] = FALSE]
  <2>1. isMutable \in [Str -> BOOLEAN] /\ isMutable' \in [Str -> BOOLEAN]
    BY DEF Shape, TypeOK
  <2>2. isMutable'[s] = FALSE /\ \A r \in Str \ {s} : isMutable'[r] = isMutable[r]
    BY DEF Dropped, Others
  <2> QED  BY <2>1, <2>2
<1>4. existing[s]
  BY DEF Dropped, existing
<1> QED  BY <1>1, <1>2, <1>3, <1>4 DEF Abstract!Drop, Abstract!Set, text, existing

\* No string at the start.
LEMMA InitRefines == Init => Abstract!Init
<1> SUFFICES ASSUME Init PROVE Abstract!Init
  OBVIOUS
<1>1. Shape
  BY InitIInv DEF IInv
<1>2. \A s \in Str : Exists(s) = FALSE
  BY DEF Init, Exists
<1>3. \A s \in Str : Content(s) = <<>>
  BY <1>1, <1>2, ContentBytes
<1> QED  BY <1>2, <1>3 DEF Init, Abstract!Init

\* Every step is a step of EFText, or changes nothing there.
LEMMA NextRefines ==
  ASSUME IInv, IInv', [Next]_vars
  PROVE  [Abstract!Next]_Abstract!vars
<1> USE DEF IInv
<1>1. ASSUME NEW s \in Str, NEW t \in Texts, NEW enc \in Encodings,
             EFStringCreateWithCString(s, t, enc)
      PROVE  Abstract!Next
  <2>1. Made(s, t, enc)
    BY <1>1, Arguments, NewStringMakes DEF EFStringCreateWithCString
  <2>2. Abstract!Make(s, t)
    BY <2>1, MakeRefines
  <2> QED  BY <2>2 DEF Abstract!Next
<1>2. ASSUME NEW s \in Str, NEW t \in Texts, EFStringAppendFormat(s, t) PROVE Abstract!Next
  <2>1. Edited(s, Content(s) \o t)
    BY <1>2, Arguments, AppendEdits DEF EFStringAppendFormat
  <2>2. Abstract!Edit(s, Content(s) \o t)
    BY <2>1, EditRefines
  <2> QED  BY <2>2 DEF Abstract!Next
<1>3. ASSUME NEW s \in Str, NEW n \in Str, NEW from \in 0..MaxLength, NEW k \in 0..MaxLength,
             NEW m \in BOOLEAN, EFStringCreateCopyWithRange(s, n, from, k, m)
      PROVE  Abstract!Next
  <2>1. from \in Nat /\ k \in Nat
    BY Arguments
  <2>2. /\ Made(n, SubSeq(Content(s), from + 1, from + k), encoding[s])
        /\ Exists(s) /\ from + k <= Len(Content(s))
    BY <1>3, <2>1, CopyMakes
  <2>3. Abstract!Make(n, SubSeq(Content(s), from + 1, from + k))
    BY <2>2, MakeRefines
  <2>4. from \in 0..Len(text[s]) /\ k \in 0..Len(text[s]) - from
    <3>1. Len(Content(s)) \in Nat
      BY ContentBytes, LenProperties
    <3> QED  BY <2>1, <2>2, <3>1 DEF text
  <2>5. existing[s] /\ Abstract!Make(n, SubSeq(text[s], from + 1, from + k))
    BY <2>2, <2>3 DEF text, existing
  <2> QED  BY <2>4, <2>5 DEF Abstract!Next, text, existing
<1>4. ASSUME NEW s \in Str, NEW a \in Str, EFStringAppendString(s, a) PROVE Abstract!Next
  <2>1. Content(a) \in Seq(Byte) /\ Exists(a) /\ Append_(s, Content(a))
    BY <1>4, ContentBytes DEF EFStringAppendString
  <2>2. Edited(s, Content(s) \o Content(a))
    BY <2>1, AppendEdits
  <2>3. Abstract!Edit(s, Content(s) \o Content(a))
    BY <2>2, EditRefines
  <2> QED  BY <2>1, <2>3 DEF Abstract!Next
<1>5. ASSUME NEW s \in Str, NEW from \in -1..MaxLength, NEW n \in -1..MaxLength,
             EFStringDeleteRange(s, from, n)
      PROVE  Abstract!Next
  <2>1. /\ from \in Nat /\ n \in Nat /\ from + n <= length[s]
        /\ Edited(s, SubSeq(Content(s), 1, from) \o SubSeq(Content(s), from + n + 1, length[s]))
    BY <1>5, Arguments, DeleteEdits
  <2>2. Len(Content(s)) = length[s] /\ Len(Content(s)) \in Nat
    BY ContentBytes, LenProperties
  <2>3. Abstract!Edit(s, SubSeq(Content(s), 1, from)
                         \o SubSeq(Content(s), from + n + 1, Len(Content(s))))
    BY <2>1, <2>2, EditRefines
  <2>4. Abstract!Delete(s, from, n)
    BY <2>3 DEF Abstract!Delete
  <2>5. from \in 0..Len(text[s]) /\ n \in 0..Len(text[s]) - from
    BY <2>1, <2>2 DEF text
  <2> QED  BY <2>4, <2>5 DEF Abstract!Next, text
<1>6. ASSUME NEW s \in Str, EFStringTrimWhitespace(s) PROVE Abstract!Next
  <2>1. PICK from \in Nat, n \in Nat :
            /\ from + n <= length[s]
            /\ Edited(s, SubSeq(Content(s), from + 1, from + n))
            /\ \A i \in 1..length[s] : i \notin from + 1..from + n => Content(s)[i] \in Space
            /\ n > 0 => Content(s)[from + 1] \notin Space /\ Content(s)[from + n] \notin Space
    BY <1>6, TrimEdits
  <2>2. PICK t \in Seq(Byte) : t = Content(s) /\ Len(t) = length[s] /\ DOMAIN t = 1..length[s]
    BY ContentBytes, LenProperties
  <2>3. PICK a \in Nat, b \in Nat : a = from + 1 /\ b = from + n + 1 /\ b - 1 = from + n
    OBVIOUS
  <2>4. a \in 1..Len(t) + 1 /\ b \in 1..Len(t) + 1
    BY <2>1, <2>2, <2>3, LenProperties
  <2>5. \A i \in DOMAIN t \ (a..b - 1) : t[i] \in Space
    BY <2>1, <2>2, <2>3
  <2>6. a < b => t[a] \notin Space /\ t[b - 1] \notin Space
    BY <2>1, <2>2, <2>3
  <2>7. Abstract!Edit(s, SubSeq(t, a, b - 1))
    BY <2>1, <2>2, <2>3, EditRefines
  <2>8. text[s] = t
    BY <2>2 DEF text
  <2>9. Abstract!Trim(s)
    BY <2>4, <2>5, <2>6, <2>7, <2>8 DEF Abstract!Trim, text
  <2> QED  BY <2>9 DEF Abstract!Next
<1>7. ASSUME NEW s \in Str, Destroy(s) PROVE Abstract!Next
  <2>1. Dropped(s)
    BY <1>7, DestroyDrops
  <2>2. Abstract!Drop(s)
    BY <2>1, DropRefines
  <2> QED  BY <2>2 DEF Abstract!Next
<1>8. CASE UNCHANGED vars
  BY <1>8 DEF vars, Abstract!vars, Content, Exists
<1> QED  BY <1>1, <1>2, <1>3, <1>4, <1>5, <1>6, <1>7, <1>8 DEF Next

\* Strings behave as EFText says: creation, copies, appends, deletions and
\* trims have exactly the effect on the bytes that their names promise, however
\* cells are moved inside the buffers.
THEOREM Refinement == Spec => ImplementsText
<1>1. Init => Abstract!Init
  BY InitRefines
<1>2. IInv /\ IInv' /\ [Next]_vars => [Abstract!Next]_Abstract!vars
  BY NextRefines
<1> QED  BY <1>1, <1>2, Invariance, PTL DEF Spec, ImplementsText, Abstract!Spec
(***************************************************************************)
(* The scan that splits                                                    *)
(***************************************************************************)

\* The list for position last, given the lists g for the positions behind it.
Parts(t, sep, g, last) ==
    IF Matches(t, sep, last) = {} THEN Piece(t, last, Len(t))
    ELSE Piece(t, last, Min(Matches(t, sep, last)) - 1) \o g[Min(Matches(t, sep, last)) + Len(sep)]

IsScan(t, sep, g) == g = [last \in 1..Len(t) + 1 |-> Parts(t, sep, g, last)]

\* The first separator from some position on, if there is one.
LEMMA FirstMatch ==
  ASSUME NEW S, NEW t \in Seq(S), NEW sep \in Seq(S), sep # <<>>,
         NEW k \in 1..Len(t) + 1, Matches(t, sep, k) # {}
  PROVE  \E i \in k..Len(t) :
            /\ i = Min(Matches(t, sep, k)) /\ MatchAt(t, sep, i) /\ i \in 1..Len(t)
            /\ i + Len(sep) \in k + 1..Len(t) + 1
            /\ \A j \in k..i - 1 : ~MatchAt(t, sep, j)
<1>1. Len(t) \in Nat /\ Len(sep) \in Nat /\ Len(sep) > 0 /\ k \in Nat /\ k > 0
  BY EmptySeq, LenProperties
<1>2. Matches(t, sep, k) \subseteq Nat
  BY <1>1 DEF Matches
<1>3. PICK i : i = Min(Matches(t, sep, k)) /\ i \in Matches(t, sep, k) /\ \A j \in Matches(t, sep, k) : i <= j
  BY <1>2, MinIsLeast
<1>4. i \in k..Len(t) /\ MatchAt(t, sep, i)
  BY <1>3 DEF Matches
<1>5. i + Len(sep) - 1 <= Len(t)
  BY <1>4 DEF MatchAt
<1>6. i + Len(sep) \in k + 1..Len(t) + 1 /\ i \in 1..Len(t)
  BY <1>1, <1>4, <1>5
<1>7. ASSUME NEW j \in k..i - 1, MatchAt(t, sep, j) PROVE FALSE
  <2>1. j \in k..Len(t) /\ ~(i <= j)
    BY <1>1, <1>4
  <2>2. j \in Matches(t, sep, k)
    BY <1>7, <2>1 DEF Matches
  <2> QED  BY <1>3, <2>1, <2>2
<1> QED  BY <1>3, <1>4, <1>6, <1>7

\* Numbers up to n have a property if 0 has it and it goes on from each to
\* the next: otherwise there were a least one without it.
LEMMA NoLeast ==
  ASSUME NEW n \in Nat, NEW Bad \in SUBSET (0..n), 0 \notin Bad,
         \A m \in 1..n : m \in Bad => m - 1 \in Bad
  PROVE  Bad = {}
<1> SUFFICES ASSUME Bad # {} PROVE FALSE
  OBVIOUS
<1>1. Bad \in SUBSET Nat
  OBVIOUS
<1>2. PICK m \in Bad : \A i \in Bad : m <= i
  BY <1>1, LeastExists
<1>3. m \in 1..n /\ ~(m <= m - 1)
  OBVIOUS
<1>4. m - 1 \in Bad
  BY <1>3
<1> QED  BY <1>2, <1>3, <1>4

\* The scan comes to an end: it is a function of the position.
LEMMA ScanExists ==
  ASSUME NEW S, NEW t \in Seq(S), NEW sep \in Seq(S), sep # <<>>
  PROVE  \E g : IsScan(t, sep, g)
<1>1. PICK L \in Nat : L = Len(t)
  BY LenProperties
<1> DEFINE From(g, k) == g = [j \in k..L + 1 |-> Parts(t, sep, g, j)]
           Bad == {m \in 0..L : ~ \E g : From(g, L + 1 - m)}
<1>2. 0 \notin Bad
  <2>1. Matches(t, sep, L + 1) = {}
    BY <1>1 DEF Matches
  <2>2. PICK g : g = [j \in L + 1..L + 1 |-> Piece(t, j, Len(t))]
    OBVIOUS
  <2>3. \A j \in L + 1..L + 1 : j = L + 1
    OBVIOUS
  <2>4. \A j \in L + 1..L + 1 : Parts(t, sep, g, j) = Piece(t, j, Len(t))
    BY <2>1, <2>3 DEF Parts
  <2>5. From(g, L + 1)
    BY <2>2, <2>4
  <2>6. L + 1 - 0 = L + 1
    OBVIOUS
  <2> HIDE DEF From
  <2> QED  BY <2>5, <2>6
<1>3. ASSUME NEW k \in 1..L, NEW g, From(g, k + 1) PROVE \E h : From(h, k)
  <2>1. PICK h : h = [j \in k..L + 1 |-> IF j = k THEN Parts(t, sep, g, k) ELSE g[j]]
    OBVIOUS
  <2>2. \A j \in k + 1..L + 1 : h[j] = g[j] /\ g[j] = Parts(t, sep, g, j)
    <3>1. \A j \in k + 1..L + 1 : j \in k..L + 1 /\ j # k
      OBVIOUS
    <3> QED  BY <1>3, <2>1, <3>1
  <2>3. ASSUME NEW j \in k..L + 1 PROVE Parts(t, sep, h, j) = Parts(t, sep, g, j)
    <3>1. CASE Matches(t, sep, j) = {}
      BY <3>1 DEF Parts
    <3>2. CASE Matches(t, sep, j) # {}
      <4>1. j \in 1..Len(t) + 1
        BY <1>1
      <4>2. PICK i \in j..Len(t) : i = Min(Matches(t, sep, j)) /\ i + Len(sep) \in j + 1..Len(t) + 1
        BY <3>2, <4>1, FirstMatch
      <4>3. i + Len(sep) \in k + 1..L + 1
        BY <1>1, <4>2
      <4> QED  BY <2>2, <3>2, <4>2, <4>3 DEF Parts
    <3> QED  BY <3>1, <3>2
  <2>4. ASSUME NEW j \in k..L + 1 PROVE h[j] = Parts(t, sep, h, j)
    <3>1. CASE j = k
      BY <2>1, <2>3, <3>1
    <3>2. CASE j # k
      <4>1. j \in k + 1..L + 1
        BY <3>2
      <4> QED  BY <2>2, <2>3, <4>1
    <3> QED  BY <3>1, <3>2
  <2>5. h = [j \in k..L + 1 |-> Parts(t, sep, h, j)]
    BY <2>1, <2>4
  <2> QED  BY <2>5
<1>4. ASSUME NEW m \in 1..L, m - 1 \notin Bad PROVE m \notin Bad
  <2>1. m - 1 \in 0..L /\ L + 1 - m \in 1..L /\ L + 1 - (m - 1) = (L + 1 - m) + 1
    OBVIOUS
  <2> HIDE DEF From
  <2>2. \E g : From(g, (L + 1 - m) + 1)
    BY <1>4, <2>1
  <2> QED  BY <1>3, <2>1, <2>2
<1>5. Bad = {}
  <2> HIDE DEF Bad
  <2>1. \A m \in 1..L : m \in Bad => m - 1 \in Bad
    BY <1>4
  <2>2. Bad \in SUBSET (0..L)
    BY DEF Bad
  <2> QED  BY <1>2, <2>1, <2>2, NoLeast
<1>6. L \in 0..L /\ L + 1 - L = 1
  OBVIOUS
<1>7. \E g : From(g, 1)
  <2> HIDE DEF From
  <2> QED  BY <1>5, <1>6
<1> QED  BY <1>1, <1>7 DEF IsScan

\* What EFStringComponentsSplitBySeparator returns is the list at the start.
LEMMA ScanOfComponents ==
  ASSUME NEW S, NEW t \in Seq(S), NEW sep \in Seq(S), sep # <<>>
  PROVE  \E g : IsScan(t, sep, g) /\ Components(t, sep) = g[1]
<1>1. Components(t, sep) = (CHOOSE g : IsScan(t, sep, g))[1]
  BY DEF Components, IsScan, Parts
<1>2. IsScan(t, sep, CHOOSE g : IsScan(t, sep, g))
  BY ScanExists
<1> QED  BY <1>1, <1>2

LEMMA ScanStep ==
  ASSUME NEW t, NEW sep, NEW g, IsScan(t, sep, g), NEW k \in 1..Len(t) + 1
  PROVE  g[k] = Parts(t, sep, g, k)
BY DEF IsScan

(***************************************************************************)
(* The separators that count                                               *)
(***************************************************************************)

\* There is a set of them: whether a match counts depends on those before it.
LEMMA MarksExist ==
  ASSUME NEW S, NEW t \in Seq(S), NEW sep \in Seq(S)
  PROVE  /\ Marks(t, sep) \subseteq Matches(t, sep, 1)
         /\ \A i \in Matches(t, sep, 1) :
               i \in Marks(t, sep) <=> ~ \E j \in Marks(t, sep) : j < i /\ i < j + Len(sep)
<1>1. PICK L \in Nat : L = Len(t)
  BY LenProperties
<1>2. PICK n \in Nat : n = Len(sep)
  BY LenProperties
<1>3. PICK H \in SUBSET (1..L) : H = Matches(t, sep, 1)
  BY <1>1 DEF Matches
<1> DEFINE Counts(M, i) == i \in M <=> ~ \E j \in M : j < i /\ i < j + n
           UpTo(M, m) == M \in SUBSET H /\ (\A i \in M : i <= m) /\ \A i \in H : i <= m => Counts(M, i)
           Bad == {m \in 0..L : ~ \E M : UpTo(M, m)}
<1>4. 0 \notin Bad
  <2>1. UpTo({}, 0)
    OBVIOUS
  <2> HIDE DEF UpTo
  <2> QED  BY <2>1
<1>5. ASSUME NEW m \in 1..L, NEW M, UpTo(M, m - 1) PROVE \E N : UpTo(N, m)
  <2>1. CASE m \in H /\ ~ \E j \in M : j < m /\ m < j + n
    <3>1. PICK N \in SUBSET H : N = M \cup {m}
      BY <1>5, <2>1
    <3>2. \A i \in N : i <= m
      BY <1>5, <3>1
    <3>3. ASSUME NEW i \in H, i <= m PROVE Counts(N, i)
      <4>1. i \in 1..L
        OBVIOUS
      <4>2. \A j \in N : j < i => j \in M
        BY <3>1, <3>3, <4>1
      <4>3. CASE i = m
        BY <2>1, <3>1, <4>2, <4>3
      <4>4. CASE i # m
        <5>1. i <= m - 1
          BY <3>3, <4>1, <4>4
        <5>2. Counts(M, i)
          BY <1>5, <5>1
        <5> QED  BY <3>1, <4>2, <4>4, <5>2
      <4> QED  BY <4>3, <4>4
    <3>4. UpTo(N, m)
      BY <3>2, <3>3
    <3> HIDE DEF UpTo
    <3> QED  BY <3>4
  <2>2. CASE ~(m \in H /\ ~ \E j \in M : j < m /\ m < j + n)
    <3>1. m \notin M
      <4>1. ~(m <= m - 1)
        OBVIOUS
      <4> QED  BY <1>5, <4>1
    <3>2. \A i \in M : i <= m
      <4>1. \A i \in 1..L : i <= m - 1 => i <= m
        OBVIOUS
      <4> QED  BY <1>5, <4>1
    <3>3. ASSUME NEW i \in H, i <= m PROVE Counts(M, i)
      <4>1. CASE i = m
        BY <2>2, <3>1, <4>1
      <4>2. CASE i # m
        <5>1. i <= m - 1
          BY <3>3, <4>2
        <5> QED  BY <1>5, <5>1
      <4> QED  BY <4>1, <4>2
    <3>4. UpTo(M, m)
      BY <1>5, <3>2, <3>3
    <3> HIDE DEF UpTo
    <3> QED  BY <3>4
  <2> QED  BY <2>1, <2>2
<1>6. Bad = {}
  <2>1. ASSUME NEW m \in 1..L, m - 1 \notin Bad PROVE m \notin Bad
    <3> HIDE DEF UpTo
    <3>1. m - 1 \in 0..L
      OBVIOUS
    <3>2. \E M : UpTo(M, m - 1)
      BY <2>1, <3>1
    <3> QED  BY <1>5, <3>2
  <2>2. Bad \in SUBSET (0..L)
    OBVIOUS
  <2> HIDE DEF Bad
  <2>3. \A m \in 1..L : m \in Bad => m - 1 \in Bad
    BY <2>1
  <2> QED  BY <1>4, <2>2, <2>3, NoLeast
<1>7. \E M : UpTo(M, L)
  <2> HIDE DEF UpTo
  <2>1. L \in 0..L
    OBVIOUS
  <2> QED  BY <1>6, <2>1
<1>8. \E M \in SUBSET H : \A i \in H : Counts(M, i)
  BY <1>7
<1> QED  BY <1>2, <1>3, <1>8 DEF Marks

\* Those that count do not overlap, and the first match behind the end of one,
\* or of the whole string, counts.
Clean(t, sep, k) == k = 1 \/ \E j \in Marks(t, sep) : k = j + Len(sep)

LEMMA CleanMarks ==
  ASSUME NEW S, NEW t \in Seq(S), NEW sep \in Seq(S), sep # <<>>, NEW k \in 1..Len(t) + 1, Clean(t, sep, k)
  PROVE  /\ \A j \in Marks(t, sep) : j \in 1..Len(t) /\ MatchAt(t, sep, j) /\ (j + Len(sep) <= k \/ k <= j)
         /\ k - 1 \notin Open(t, sep)
<1>1. Len(t) \in Nat /\ Len(sep) \in Nat /\ Len(sep) > 0 /\ DOMAIN t = 1..Len(t)
  BY EmptySeq, LenProperties
<1>2. /\ Marks(t, sep) \subseteq Matches(t, sep, 1)
      /\ \A i \in Matches(t, sep, 1) :
            i \in Marks(t, sep) <=> ~ \E j \in Marks(t, sep) : j < i /\ i < j + Len(sep)
  BY MarksExist
<1>3. \A j \in Marks(t, sep) : j \in 1..Len(t) /\ MatchAt(t, sep, j)
  BY <1>2 DEF Matches
<1>4. ASSUME NEW j \in Marks(t, sep) PROVE j + Len(sep) <= k \/ k <= j
  <2>1. CASE k = 1
    BY <1>3, <2>1
  <2>2. ASSUME NEW m \in Marks(t, sep), k = m + Len(sep) PROVE j + Len(sep) <= k \/ k <= j
    <3>1. ~(m < j /\ j < m + Len(sep)) /\ j \in 1..Len(t) /\ m \in 1..Len(t)
      BY <1>2, <1>3
    <3> QED  BY <1>1, <2>2, <3>1
  <2> QED  BY <2>1, <2>2 DEF Clean
<1>5. k - 1 \notin Open(t, sep)
  <2>1. CASE k = 1
    <3>1. 0 \notin 1..Len(t)
      OBVIOUS
    <3> QED  BY <1>1, <2>1, <3>1 DEF Open
  <2>2. ASSUME NEW m \in Marks(t, sep), k = m + Len(sep) PROVE k - 1 \notin Open(t, sep)
    <3>1. k - 1 \in m..m + Len(sep) - 1
      BY <1>1, <1>3, <2>2
    <3> QED  BY <3>1 DEF Open
  <2> QED  BY <2>1, <2>2 DEF Clean
<1> QED  BY <1>3, <1>4, <1>5

\* From a clean position up to the next separator, or the end, all is open.
LEMMA OpenGap ==
  ASSUME NEW S, NEW t \in Seq(S), NEW sep \in Seq(S), sep # <<>>, NEW k \in 1..Len(t) + 1, Clean(t, sep, k),
         NEW e \in Nat, e <= Len(t), \A j \in k..e : ~MatchAt(t, sep, j)
  PROVE  \A p \in k..e : p \in Open(t, sep)
<1> SUFFICES ASSUME NEW p \in k..e PROVE p \in Open(t, sep)
  OBVIOUS
<1>1. Len(t) \in Nat /\ Len(sep) \in Nat /\ DOMAIN t = 1..Len(t)
  BY LenProperties
<1>2. p \in DOMAIN t
  BY <1>1
<1>3. ASSUME NEW j \in Marks(t, sep), p \in j..j + Len(sep) - 1 PROVE FALSE
  <2>1. j \in 1..Len(t) /\ MatchAt(t, sep, j) /\ (j + Len(sep) <= k \/ k <= j)
    BY CleanMarks
  <2>2. j \in k..e
    BY <1>1, <1>3, <2>1
  <2> QED  BY <2>1, <2>2
<1> QED  BY <1>2, <1>3 DEF Open

\* So the stretches that begin there are one, or none if there is no room.
LEMMA GapStretch ==
  ASSUME NEW S, NEW t \in Seq(S), NEW sep \in Seq(S), NEW k \in 1..Len(t) + 1, NEW e \in Nat, e <= Len(t),
         \A p \in k..e : p \in Open(t, sep), k - 1 \notin Open(t, sep), e + 1 \notin Open(t, sep)
  PROVE  {x \in Stretches(t, sep) : x[1] \in k..e} = IF k <= e THEN {<<k, e>>} ELSE {}
<1>1. Len(t) \in Nat /\ DOMAIN t = 1..Len(t)
  BY LenProperties
<1>2. Open(t, sep) \subseteq 1..Len(t)
  BY <1>1 DEF Open
<1>3. ASSUME k <= e PROVE <<k, e>> \in Stretches(t, sep) /\ k \in k..e
  <2>1. k \in k..e /\ e \in k..e
    BY <1>1, <1>3
  <2>2. k \in Open(t, sep) /\ e \in Open(t, sep) /\ k..e \subseteq Open(t, sep)
    BY <2>1
  <2> QED  BY <1>3, <2>1, <2>2 DEF Stretches
<1>4. ASSUME NEW x \in Stretches(t, sep), x[1] \in k..e PROVE x = <<k, e>> /\ k <= e
  <2>1. PICK a \in 1..Len(t), b \in 1..Len(t) :
          /\ x = <<a, b>> /\ a <= b /\ a..b \subseteq Open(t, sep)
          /\ a - 1 \notin Open(t, sep) /\ b + 1 \notin Open(t, sep)
    BY <1>2, <1>4 DEF Stretches
  <2>2. a \in k..e
    BY <1>4, <2>1
  <2>3. a = k
    <3>1. a # k => a - 1 \in k..e
      BY <2>2
    <3> QED  BY <2>1, <3>1
  <2>4. b <= e
    <3>1. ~(b <= e) => e + 1 \in a..b
      BY <2>1, <2>2
    <3> QED  BY <2>1, <3>1
  <2>5. b = e
    <3>1. b # e => b + 1 \in k..e
      BY <2>1, <2>2, <2>4
    <3> QED  BY <2>1, <3>1
  <2> QED  BY <2>1, <2>2, <2>3, <2>5
<1>5. PICK X : X = {x \in Stretches(t, sep) : x[1] \in k..e}
  OBVIOUS
<1>6. \A x \in X : x = <<k, e>> /\ k <= e
  BY <1>4, <1>5
<1>7. k <= e => <<k, e>> \in X
  <2>1. <<k, e>>[1] = k
    OBVIOUS
  <2> QED  BY <1>3, <1>5, <2>1
<1>8. X = IF k <= e THEN {<<k, e>>} ELSE {}
  BY <1>6, <1>7
<1> QED  BY <1>5, <1>8

\* The stretches from a position on.
From(t, sep, k) == {x \in Stretches(t, sep) : k <= x[1]}

LEMMA StretchNumbers ==
  ASSUME NEW S, NEW t \in Seq(S), NEW sep
  PROVE  \A x \in Stretches(t, sep) : /\ x[1] \in 1..Len(t) /\ x[2] \in 1..Len(t) /\ x[1] <= x[2] /\ x = <<x[1], x[2]>>
                                      /\ x[1] \in Open(t, sep)
<1>1. Open(t, sep) \subseteq 1..Len(t)
  BY LenProperties DEF Open
<1> QED  BY <1>1 DEF Stretches

\* Behind the last separator.
LEMMA LastStretch ==
  ASSUME NEW S, NEW t \in Seq(S), NEW sep \in Seq(S), sep # <<>>, NEW k \in 1..Len(t) + 1, Clean(t, sep, k),
         Matches(t, sep, k) = {}
  PROVE  From(t, sep, k) = IF k <= Len(t) THEN {<<k, Len(t)>>} ELSE {}
<1>1. PICK L \in Nat : L = Len(t) /\ DOMAIN t = 1..L
  BY LenProperties
<1>2. \A j \in k..L : ~MatchAt(t, sep, j)
  BY <1>1 DEF Matches
<1>3. \A p \in k..L : p \in Open(t, sep)
  BY <1>1, <1>2, OpenGap
<1>4. k - 1 \notin Open(t, sep)
  BY CleanMarks
<1>5. L + 1 \notin Open(t, sep)
  <2>1. L + 1 \notin 1..L
    OBVIOUS
  <2> QED  BY <1>1, <2>1 DEF Open
<1>6. {x \in Stretches(t, sep) : x[1] \in k..L} = IF k <= L THEN {<<k, L>>} ELSE {}
  BY <1>1, <1>3, <1>4, <1>5, GapStretch
<1>7. \A x \in Stretches(t, sep) : k <= x[1] <=> x[1] \in k..L
  <2>1. \A x \in Stretches(t, sep) : x[1] \in 1..L
    BY <1>1, StretchNumbers
  <2> QED  BY <1>1, <2>1
<1> QED  BY <1>1, <1>6, <1>7 DEF From

\* Up to the next separator.
LEMMA NextStretch ==
  ASSUME NEW S, NEW t \in Seq(S), NEW sep \in Seq(S), sep # <<>>, NEW k \in 1..Len(t) + 1, Clean(t, sep, k),
         NEW i \in k..Len(t), MatchAt(t, sep, i), i + Len(sep) \in k + 1..Len(t) + 1,
         \A j \in k..i - 1 : ~MatchAt(t, sep, j)
  PROVE  /\ Clean(t, sep, i + Len(sep))
         /\ From(t, sep, k) = From(t, sep, i + Len(sep)) \cup (IF k <= i - 1 THEN {<<k, i - 1>>} ELSE {})
<1>1. Len(t) \in Nat /\ Len(sep) \in Nat /\ Len(sep) > 0 /\ DOMAIN t = 1..Len(t) /\ i \in 1..Len(t) /\ k \in Nat
  BY EmptySeq, LenProperties
<1>2. \A j \in Marks(t, sep) : j \in 1..Len(t) /\ MatchAt(t, sep, j) /\ (j + Len(sep) <= k \/ k <= j)
  BY CleanMarks
<1>3. i \in Marks(t, sep)
  <2>1. i \in Matches(t, sep, 1)
    BY <1>1 DEF Matches
  <2>2. ASSUME NEW j \in Marks(t, sep), j < i, i < j + Len(sep) PROVE FALSE
    <3>1. j \in k..i - 1
      BY <1>1, <1>2, <2>2
    <3> QED  BY <1>2, <3>1
  <2> QED  BY <2>1, <2>2, MarksExist
<1>4. Clean(t, sep, i + Len(sep))
  BY <1>3 DEF Clean
<1>5. \A p \in k..i - 1 : p \in Open(t, sep)
  <2>1. i - 1 \in Nat /\ i - 1 <= Len(t)
    BY <1>1
  <2> QED  BY <2>1, OpenGap
<1>6. \A p \in i..i + Len(sep) - 1 : p \notin Open(t, sep)
  BY <1>3 DEF Open
<1>7. k - 1 \notin Open(t, sep)
  BY CleanMarks
<1>8. {x \in Stretches(t, sep) : x[1] \in k..i - 1} = IF k <= i - 1 THEN {<<k, i - 1>>} ELSE {}
  <2>1. PICK e \in Nat : e = i - 1 /\ e <= Len(t) /\ e + 1 = i
    BY <1>1
  <2>2. i \in i..i + Len(sep) - 1
    BY <1>1
  <2>3. \A p \in k..e : p \in Open(t, sep)
    BY <1>5, <2>1
  <2>4. e + 1 \notin Open(t, sep)
    BY <1>6, <2>1, <2>2
  <2>5. e \in Nat /\ e <= Len(t)
    BY <2>1
  <2>6. {x \in Stretches(t, sep) : x[1] \in k..e} = IF k <= e THEN {<<k, e>>} ELSE {}
    <3> QED  BY <1>7, <2>3, <2>4, <2>5, GapStretch, ZenonT(30)
  <2> QED  BY <2>1, <2>6
<1>9. \A x \in Stretches(t, sep) : k <= x[1] <=> x[1] \in k..i - 1 \/ i + Len(sep) <= x[1]
  <2> SUFFICES ASSUME NEW x \in Stretches(t, sep) PROVE k <= x[1] <=> x[1] \in k..i - 1 \/ i + Len(sep) <= x[1]
    OBVIOUS
  <2>1. x[1] \in 1..Len(t) /\ x[1] \in Open(t, sep)
    BY StretchNumbers
  <2>2. x[1] \notin i..i + Len(sep) - 1
    BY <1>6, <2>1
  <2> QED  BY <1>1, <2>1, <2>2
<1>10. From(t, sep, k) = From(t, sep, i + Len(sep)) \cup {x \in Stretches(t, sep) : x[1] \in k..i - 1}
  BY <1>9 DEF From
<1> QED  BY <1>4, <1>8, <1>10

(***************************************************************************)
(* Splitting                                                               *)
(***************************************************************************)

LEMMA InOrderNone == ASSUME NEW t PROVE InOrder(<<>>, {}, t)
<1>1. DOMAIN <<>> = {}
  OBVIOUS
<1>2. PICK r : r \in [DOMAIN <<>> -> {}]
  <2>1. [i \in {} |-> 0] \in [DOMAIN <<>> -> {}]
    BY <1>1
  <2> QED  BY <2>1
<1> QED  BY <1>1, <1>2 DEF InOrder

\* A stretch before all others.
LEMMA InOrderFirst ==
  ASSUME NEW S, NEW t, NEW parts \in Seq(S), NEW X, \A x \in X : x[1] \in Nat,
         InOrder(parts, X, t), NEW a \in Nat, NEW b \in Nat, \A x \in X : b < x[1], SubSeq(t, a, b) \in S
  PROVE  /\ <<SubSeq(t, a, b)>> \o parts \in Seq(S)
         /\ InOrder(<<SubSeq(t, a, b)>> \o parts, X \cup {<<a, b>>}, t)
<1>1. PICK n \in Nat : n = Len(parts) /\ DOMAIN parts = 1..n
  BY LenProperties
<1>2. PICK r \in [DOMAIN parts -> X] :
        /\ \A x \in X : \E i \in DOMAIN parts : r[i] = x
        /\ \A i, j \in DOMAIN parts : i < j => r[i][2] < r[j][1]
        /\ \A i \in DOMAIN parts : parts[i] = SubSeq(t, r[i][1], r[i][2])
  BY DEF InOrder
<1>3. PICK first \in Seq(S) : first = <<SubSeq(t, a, b)>> /\ Len(first) = 1 /\ first[1] = SubSeq(t, a, b)
  <2>1. PICK p \in S : p = SubSeq(t, a, b)
    OBVIOUS
  <2>2. <<p>> \in Seq(S) /\ Len(<<p>>) = 1 /\ <<p>>[1] = p
    OBVIOUS
  <2> QED  BY <2>1, <2>2
<1>4. PICK all : all = first \o parts
  OBVIOUS
<1>5. /\ all \in Seq(S) /\ Len(all) = 1 + n
      /\ \A i \in 1..1 : all[i] = first[i]
      /\ \A i \in 1..n : all[1 + i] = parts[i]
  BY <1>1, <1>3, <1>4, Concat
<1>6. DOMAIN all = 1..n + 1
  BY <1>5, LenProperties
<1>7. PICK s \in [1..n + 1 -> X \cup {<<a, b>>}] : s = [i \in 1..n + 1 |-> IF i = 1 THEN <<a, b>> ELSE r[i - 1]]
  <2>1. ASSUME NEW i \in 1..n + 1, i # 1 PROVE r[i - 1] \in X
    <3>1. i - 1 \in 1..n
      BY <2>1
    <3> QED  BY <1>1, <3>1
  <2> QED  BY <2>1
<1>8. s[1] = <<a, b>> /\ \A i \in 1..n : s[i + 1] = r[i] /\ i + 1 \in 1..n + 1
  <2>1. 1 \in 1..n + 1 /\ \A i \in 1..n : i + 1 \in 1..n + 1 /\ i + 1 # 1 /\ (i + 1) - 1 = i
    OBVIOUS
  <2> QED  BY <1>7, <2>1
<1>9. \A i \in 1..n + 1 : i = 1 \/ (i - 1 \in 1..n /\ s[i] = r[i - 1])
  <2>1. \A i \in 1..n + 1 : i = 1 \/ i - 1 \in 1..n
    OBVIOUS
  <2> QED  BY <1>7, <2>1
<1>10. ASSUME NEW x \in X \cup {<<a, b>>} PROVE \E i \in 1..n + 1 : s[i] = x
  <2>1. CASE x = <<a, b>>
    <3>1. 1 \in 1..n + 1
      OBVIOUS
    <3> QED  BY <1>8, <2>1, <3>1
  <2>2. CASE x \in X
    <3>1. PICK i \in 1..n : r[i] = x
      BY <1>1, <1>2, <2>2
    <3> QED  BY <1>8, <3>1
  <2> QED  BY <2>1, <2>2
<1>11. ASSUME NEW i \in 1..n + 1, NEW j \in 1..n + 1, i < j PROVE s[i][2] < s[j][1]
  <2>1. j - 1 \in 1..n /\ s[j] = r[j - 1]
    BY <1>9, <1>11
  <2>2. CASE i = 1
    <3>1. s[j] \in X
      BY <1>1, <2>1
    <3>2. s[i][2] = b
      BY <1>8, <2>2
    <3> QED  BY <3>1, <3>2
  <2>3. CASE i # 1
    <3>1. i - 1 \in 1..n /\ s[i] = r[i - 1] /\ i - 1 < j - 1
      BY <1>9, <1>11, <2>3
    <3> QED  BY <1>1, <1>2, <2>1, <3>1
  <2> QED  BY <2>2, <2>3
<1>12. ASSUME NEW i \in 1..n + 1 PROVE all[i] = SubSeq(t, s[i][1], s[i][2])
  <2>1. CASE i = 1
    BY <1>3, <1>5, <1>8, <2>1
  <2>2. CASE i # 1
    <3>1. i - 1 \in 1..n /\ s[i] = r[i - 1] /\ 1 + (i - 1) = i
      BY <1>9, <2>2
    <3>2. all[i] = parts[i - 1]
      BY <1>5, <3>1
    <3> QED  BY <1>1, <1>2, <3>1, <3>2
  <2> QED  BY <2>1, <2>2
<1>13. InOrder(all, X \cup {<<a, b>>}, t)
  <2>1. s \in [DOMAIN all -> X \cup {<<a, b>>}]
    BY <1>6, <1>7
  <2>2. \A x \in X \cup {<<a, b>>} : \E i \in DOMAIN all : s[i] = x
    BY <1>6, <1>10
  <2>3. \A i, j \in DOMAIN all : i < j => s[i][2] < s[j][1]
    BY <1>6, <1>11
  <2>4. \A i \in DOMAIN all : all[i] = SubSeq(t, s[i][1], s[i][2])
    BY <1>6, <1>12
  <2> QED  BY <2>1, <2>2, <2>3, <2>4, ZenonT(30) DEF InOrder
<1> QED  BY <1>3, <1>4, <1>5, <1>13

LEMMA SliceOf ==
  ASSUME NEW S, NEW t \in Seq(S), NEW a \in 1..Len(t), NEW b \in 1..Len(t), a <= b
  PROVE  SubSeq(t, a, b) \in Seq(S)
<1>1. Len(t) \in Nat
  BY LenProperties
<1>2. PICK k \in Nat, n \in Nat : k = a - 1 /\ n = b - a + 1 /\ k + n <= Len(t) /\ k + 1 = a /\ k + n = b
  BY <1>1
<1> QED  BY <1>2, Slice

\* The list for a clean position is that of the stretches from there on.
LEMMA ScanLists ==
  ASSUME NEW S, NEW t \in Seq(S), NEW sep \in Seq(S), sep # <<>>, NEW g, IsScan(t, sep, g),
         NEW k \in 1..Len(t) + 1, Clean(t, sep, k)
  PROVE  g[k] \in Seq(Seq(S)) /\ InOrder(g[k], From(t, sep, k), t)
<1>1. PICK L \in Nat : L = Len(t)
  BY LenProperties
<1> DEFINE Listed(j) == g[j] \in Seq(Seq(S)) /\ InOrder(g[j], From(t, sep, j), t)
           Bad == {m \in 0..L : Clean(t, sep, L + 1 - m) /\ ~Listed(L + 1 - m)}
<1>2. ASSUME NEW m \in Bad PROVE \E d \in Bad : d < m
  <2>1. PICK j \in 1..Len(t) + 1 : j = L + 1 - m /\ Clean(t, sep, j) /\ ~Listed(j)
    BY <1>1
  <2>2. g[j] = Parts(t, sep, g, j)
    BY ScanStep
  <2>3. CASE Matches(t, sep, j) = {}
    <3>1. g[j] = Piece(t, j, L)
      BY <1>1, <2>2, <2>3 DEF Parts
    <3>2. From(t, sep, j) = IF j <= L THEN {<<j, L>>} ELSE {}
      BY <1>1, <2>1, <2>3, LastStretch
    <3>3. CASE j <= L
      <4>1. SubSeq(t, j, L) \in Seq(S)
        <5>1. j \in 1..Len(t) /\ L \in 1..Len(t)
          BY <1>1, <3>3
        <5> QED  BY <3>3, <5>1, SliceOf
      <4>2. <<>> \in Seq(Seq(S)) /\ InOrder(<<>>, {}, t)
        BY InOrderNone, EmptySeq
      <4>3. j \in Nat /\ {} \cup {<<j, L>>} = {<<j, L>>}
        OBVIOUS
      <4>4. /\ <<SubSeq(t, j, L)>> \o <<>> \in Seq(Seq(S))
            /\ InOrder(<<SubSeq(t, j, L)>> \o <<>>, {} \cup {<<j, L>>}, t)
        BY <4>1, <4>2, <4>3, InOrderFirst
      <4>5. <<SubSeq(t, j, L)>> \o <<>> = <<SubSeq(t, j, L)>>
        BY <4>1, ConcatEmptySeq
      <4>6. g[j] = <<SubSeq(t, j, L)>>
        BY <3>1, <3>3 DEF Piece
      <4> QED  BY <2>1, <3>2, <3>3, <4>3, <4>4, <4>5, <4>6
    <3>4. CASE ~(j <= L)
      <4>1. g[j] = <<>>
        BY <3>1, <3>4 DEF Piece
      <4>2. g[j] \in Seq(Seq(S)) /\ InOrder(g[j], {}, t)
        BY <4>1, InOrderNone, EmptySeq
      <4> QED  BY <2>1, <3>2, <3>4, <4>2
    <3> QED  BY <3>3, <3>4
  <2>4. CASE Matches(t, sep, j) # {}
    <3>1. PICK i \in j..Len(t) :
            /\ i = Min(Matches(t, sep, j)) /\ MatchAt(t, sep, i) /\ i \in 1..Len(t)
            /\ i + Len(sep) \in j + 1..Len(t) + 1
            /\ \A p \in j..i - 1 : ~MatchAt(t, sep, p)
      BY <2>4, FirstMatch
    <3>2. PICK q \in 1..Len(t) + 1 : q = i + Len(sep) /\ j < q /\ i < q
      BY <3>1, EmptySeq, LenProperties
    <3>3. /\ Clean(t, sep, q)
          /\ From(t, sep, j) = From(t, sep, q) \cup (IF j <= i - 1 THEN {<<j, i - 1>>} ELSE {})
      <4>1. i + Len(sep) \in j + 1..Len(t) + 1 /\ MatchAt(t, sep, i) /\ \A p \in j..i - 1 : ~MatchAt(t, sep, p)
        BY <3>1
      <4>2. /\ Clean(t, sep, i + Len(sep))
            /\ From(t, sep, j) = From(t, sep, i + Len(sep)) \cup (IF j <= i - 1 THEN {<<j, i - 1>>} ELSE {})
        <5> HIDE DEF Bad
        <5>1. Clean(t, sep, j)
          BY <2>1
        <5> QED  BY <4>1, <5>1, NextStretch
      <4> QED  BY <3>2, <4>2
    <3>4. g[j] = Piece(t, j, i - 1) \o g[q]
      BY <2>2, <2>4, <3>1, <3>2 DEF Parts
    <3>5. ASSUME Listed(q) PROVE FALSE
      <4>1. g[q] \in Seq(Seq(S)) /\ InOrder(g[q], From(t, sep, q), t)
        BY <3>5
      <4>2. CASE j <= i - 1
        <5>1. PICK e \in Nat : e = i - 1 /\ j <= e /\ e \in 1..Len(t) /\ j \in 1..Len(t) /\ e < q
          <6>1. i - 1 \in Nat /\ j <= i - 1 /\ i - 1 \in 1..Len(t) /\ j \in 1..Len(t) /\ i - 1 < q
            <7> HIDE DEF Bad, Listed
            <7> QED  BY <1>1, <3>1, <3>2, <4>2
          <6> QED  BY <6>1
        <5>2. SubSeq(t, j, e) \in Seq(S)
          BY <5>1, SliceOf
        <5>3. \A x \in From(t, sep, q) : x[1] \in Nat /\ e < x[1]
          <6>1. \A x \in From(t, sep, q) : x[1] \in 1..Len(t) /\ q <= x[1]
            BY StretchNumbers DEF From
          <6> QED  BY <5>1, <6>1
        <5>4. /\ <<SubSeq(t, j, e)>> \o g[q] \in Seq(Seq(S))
              /\ InOrder(<<SubSeq(t, j, e)>> \o g[q], From(t, sep, q) \cup {<<j, e>>}, t)
          <6>1. j \in Nat
            OBVIOUS
          <6> QED  BY <4>1, <5>2, <5>3, <6>1, InOrderFirst
        <5>5. g[j] = <<SubSeq(t, j, e)>> \o g[q]
          <6>1. ~(e < j)
            BY <5>1
          <6>2. Piece(t, j, e) = <<SubSeq(t, j, e)>>
            BY <6>1 DEF Piece
          <6> QED  BY <3>4, <5>1, <6>2
        <5> QED  BY <2>1, <3>3, <4>2, <5>1, <5>4, <5>5
      <4>3. CASE ~(j <= i - 1)
        <5>1. Piece(t, j, i - 1) = <<>>
          BY <3>1, <4>3 DEF Piece
        <5>2. g[j] = g[q]
          BY <3>4, <4>1, <5>1, ConcatEmptySeq
        <5> QED  BY <2>1, <3>3, <4>1, <4>3, <5>2
      <4> QED  BY <4>2, <4>3
    <3>6. PICK d \in 0..L : d = L + 1 - q /\ L + 1 - d = q /\ d < m
      <4>1. m \in 0..L
        OBVIOUS
      <4>2. L + 1 - q \in 0..L /\ L + 1 - (L + 1 - q) = q /\ L + 1 - q < m
        <5> HIDE DEF Bad
        <5> QED  BY <1>1, <2>1, <3>2, <4>1
      <4> QED  BY <4>2
    <3>7. d \in Bad
      BY <3>3, <3>5, <3>6
    <3> QED  BY <3>6, <3>7
  <2> QED  BY <2>3, <2>4
<1>3. Bad = {}
  <2> SUFFICES ASSUME Bad # {} PROVE FALSE
    OBVIOUS
  <2>1. Bad \in SUBSET Nat
    OBVIOUS
  <2>2. PICK m \in Bad : \A d \in Bad : m <= d
    <3> HIDE DEF Bad
    <3> QED  BY <2>1, LeastExists
  <2>3. PICK d \in Bad : d < m
    <3> HIDE DEF Bad
    <3> QED  BY <1>2
  <2>4. m \in Nat /\ d \in Nat /\ m <= d
    <3> HIDE DEF Bad
    <3> QED  BY <2>1, <2>2
  <2> QED  BY <2>3, <2>4
<1>4. PICK m \in 0..L : m = L + 1 - k /\ L + 1 - m = k
  <2>1. L + 1 - k \in 0..L /\ L + 1 - (L + 1 - k) = k
    <3> HIDE DEF Bad
    <3> QED  BY <1>1
  <2> QED  BY <2>1
<1> QED  BY <1>3, <1>4

\* The whole string.
LEMMA SplitInOrder ==
  ASSUME NEW S, NEW t \in Seq(S), NEW sep \in Seq(S), sep # <<>>
  PROVE  Components(t, sep) \in Seq(Seq(S)) /\ InOrder(Components(t, sep), Stretches(t, sep), t)
<1>1. PICK g : IsScan(t, sep, g) /\ Components(t, sep) = g[1]
  BY ScanOfComponents
<1>2. 1 \in 1..Len(t) + 1 /\ Clean(t, sep, 1)
  BY LenProperties DEF Clean
<1>3. \A x \in Stretches(t, sep) : 1 <= x[1]
  <2>1. \A x \in Stretches(t, sep) : x[1] \in 1..Len(t)
    BY StretchNumbers
  <2> QED  BY <2>1
<1>4. From(t, sep, 1) = Stretches(t, sep)
  BY <1>3 DEF From
<1> QED  BY <1>1, <1>2, <1>4, ScanLists

\* A byte of a separator that stands in a string.
LEMMA SeparatorBytes ==
  ASSUME NEW S, NEW t \in Seq(S), NEW sep \in Seq(S), sep # <<>>, NEW m \in 1..Len(t), MatchAt(t, sep, m)
  PROVE  /\ Len(sep) \in Nat /\ Len(sep) > 0 /\ m + Len(sep) - 1 <= Len(t)
         /\ t[m] = sep[1] /\ t[m + Len(sep) - 1] = sep[Len(sep)]
<1>1. Len(t) \in Nat /\ Len(sep) \in Nat /\ Len(sep) > 0
  BY EmptySeq, LenProperties
<1>2. m + Len(sep) - 1 <= Len(t) /\ SubSeq(t, m, m + Len(sep) - 1) = sep
  BY DEF MatchAt
<1>3. PICK a \in Nat, n \in Nat : a + 1 = m /\ n = Len(sep) /\ a + n = m + Len(sep) - 1 /\ a + n <= Len(t) /\ n > 0
  <2>1. m - 1 \in Nat /\ (m - 1) + 1 = m /\ (m - 1) + Len(sep) = m + Len(sep) - 1
    BY <1>1
  <2> QED  BY <1>1, <1>2, <2>1
<1>4. \A i \in 1..n : sep[i] = t[a + i]
  <2>1. \A i \in 1..n : SubSeq(t, a + 1, a + n)[i] = t[a + i]
    BY <1>3, Slice
  <2>2. SubSeq(t, a + 1, a + n) = sep
    BY <1>2, <1>3
  <2> QED  BY <2>1, <2>2
<1>5. 1 \in 1..n /\ n \in 1..n
  BY <1>3
<1> QED  BY <1>1, <1>2, <1>3, <1>4, <1>5

\* A separator ends in no first half of a character and begins with no second
\* half, so a stretch between separators keeps both halves or neither.
LEMMA StretchValid ==
  ASSUME NEW t \in Seq(Byte), NEW enc \in Checked, Valid(t, enc), NEW sep \in Separators,
         NEW x \in Stretches(t, sep)
  PROVE  Valid(SubSeq(t, x[1], x[2]), enc)
<1>1. Len(t) \in Nat /\ DOMAIN t = 1..Len(t)
  BY LenProperties
<1>2. sep \in Seq(Byte) /\ sep # <<>> /\ UTF8Valid(sep) /\ Len(sep) \in Nat /\ DOMAIN sep = 1..Len(sep)
  BY StringAssumption, SeparatorAssumption, LenProperties
<1>3. sep[1] # "C" /\ sep[Len(sep)] # "L"
  <2>1. Len(sep) > 0 /\ 1 \in 1..Len(sep) /\ Len(sep) \in 1..Len(sep)
    BY <1>2, EmptySeq
  <2>2. 1 - 1 \notin 1..Len(sep) /\ Len(sep) + 1 \notin 1..Len(sep)
    BY <1>2
  <2> QED  BY <1>2, <2>1, <2>2, Neighbours
<1>4. PICK a \in 1..Len(t), b \in 1..Len(t) :
        /\ x[1] = a /\ x[2] = b /\ a <= b /\ a \in Open(t, sep) /\ b \in Open(t, sep)
        /\ a - 1 \notin Open(t, sep) /\ b + 1 \notin Open(t, sep)
  <2>1. Open(t, sep) \subseteq 1..Len(t)
    BY <1>1 DEF Open
  <2> QED  BY <2>1 DEF Stretches
<1>5. \A m \in Marks(t, sep) :
        /\ m \in 1..Len(t)
        /\ Len(sep) \in Nat /\ Len(sep) > 0 /\ m + Len(sep) - 1 <= Len(t)
        /\ t[m] = sep[1] /\ t[m + Len(sep) - 1] = sep[Len(sep)]
  <2>1. \A m \in Marks(t, sep) : m \in 1..Len(t) /\ MatchAt(t, sep, m)
    BY <1>2, MarksExist DEF Matches
  <2> QED  BY <1>2, <2>1, SeparatorBytes
<1>6. \A p \in 1..Len(t) : p \notin Open(t, sep) <=> \E m \in Marks(t, sep) : p \in m..m + Len(sep) - 1
  BY <1>1 DEF Open
<1>7. ASSUME t[a] = "C" PROVE FALSE
  <2>1. a - 1 \in 1..Len(t) /\ t[a - 1] = "L"
    BY <1>4, <1>7, ValidNeighbours
  <2>2. PICK m \in Marks(t, sep) : a - 1 \in m..m + Len(sep) - 1
    BY <1>4, <1>6, <2>1
  <2>3. a \notin m..m + Len(sep) - 1
    BY <1>4, <1>6
  <2>4. a - 1 = m + Len(sep) - 1
    BY <1>5, <2>2, <2>3
  <2> QED  BY <1>3, <1>5, <2>1, <2>4
<1>8. ASSUME t[b] = "L" PROVE FALSE
  <2>1. b + 1 \in 1..Len(t) /\ t[b + 1] = "C"
    BY <1>4, <1>8, ValidNeighbours
  <2>2. PICK m \in Marks(t, sep) : b + 1 \in m..m + Len(sep) - 1
    BY <1>4, <1>6, <2>1
  <2>3. b \notin m..m + Len(sep) - 1
    BY <1>4, <1>6
  <2>4. b + 1 = m
    BY <1>5, <2>2, <2>3
  <2> QED  BY <1>3, <1>5, <2>1, <2>4
<1>9. PICK k \in Nat, n \in Nat : k + 1 = a /\ k + n = b /\ k + n <= Len(t)
  <2>1. a - 1 \in Nat /\ b - a + 1 \in Nat /\ (a - 1) + 1 = a /\ (a - 1) + (b - a + 1) = b
    BY <1>4
  <2> QED  BY <1>1, <2>1
<1> QED  BY <1>4, <1>7, <1>8, <1>9, SliceValid

\* EFStringComponentsSplitBySeparator returns, for any string and separator,
\* what stands between the separators, in order; and each part of a valid ASCII
\* or UTF-8 string can be made a string again.
THEOREM SplitsExactly == Spec => []SplitCorrect
<1>1. ASSUME IInv PROVE SplitCorrect
  <2> SUFFICES ASSUME NEW s \in Str, NEW sep \in Separators
               PROVE  LET t == Content(s)
                          parts == Components(t, sep) IN
                      Exists(s) /\ Splits(t, sep) =>
                          /\ InOrder(parts, Stretches(t, sep), t)
                          /\ encoding[s] # "UTF7" /\ Valid(t, encoding[s]) =>
                                \A i \in DOMAIN parts : Valid(parts[i], encoding[s])
    BY DEF SplitCorrect
  <2>1. PICK t \in Seq(Byte) : t = Content(s)
    BY <1>1, ContentBytes DEF IInv
  <2>2. sep \in Seq(Byte) /\ sep # <<>>
    BY StringAssumption
  <2>3. PICK parts : parts = Components(t, sep) /\ InOrder(parts, Stretches(t, sep), t)
    BY <2>2, SplitInOrder
  <2>4. ASSUME encoding[s] # "UTF7", Valid(t, encoding[s]), NEW i \in DOMAIN parts
        PROVE  Valid(parts[i], encoding[s])
    <3>1. PICK enc \in Checked : enc = encoding[s]
      BY <1>1, <2>4 DEF IInv, Shape, TypeOK, Encodings, Checked
    <3>2. PICK x \in Stretches(t, sep) : parts[i] = SubSeq(t, x[1], x[2])
      BY <2>3 DEF InOrder
    <3>3. Valid(t, enc)
      BY <2>4, <3>1
    <3>4. Valid(SubSeq(t, x[1], x[2]), enc)
      BY <3>3, StretchValid
    <3> QED  BY <3>1, <3>2, <3>4
  <2> QED  BY <2>1, <2>3, <2>4
<1> QED  BY <1>1, Invariance, PTL

(***************************************************************************)
(* Splitting at slashes                                                    *)
(***************************************************************************)

AtSlashes(t) == Components(t, <<Slash>>)

\* A list for every position, each made of those behind it.
LEMMA SlashAt ==
  ASSUME NEW S, NEW t \in Seq(S), NEW i \in 1..Len(t)
  PROVE  MatchAt(t, <<Slash>>, i) <=> t[i] = Slash
<1>1. Len(t) \in Nat /\ Len(<<Slash>>) = 1 /\ i + Len(<<Slash>>) - 1 = i
  BY LenProperties
<1>2. PICK a \in Nat : a + 1 = i /\ a + 1 <= Len(t)
  <2>1. i - 1 \in Nat /\ (i - 1) + 1 = i
    OBVIOUS
  <2> QED  BY <1>1, <2>1
<1>3. /\ SubSeq(t, i, i) \in Seq(S) /\ Len(SubSeq(t, i, i)) = 1 /\ SubSeq(t, i, i)[1] = t[i]
  <2>1. 1 \in Nat /\ 1 \in 1..1
    OBVIOUS
  <2> QED  BY <1>2, <2>1, Slice
<1>4. SubSeq(t, i, i) = <<Slash>> <=> t[i] = Slash
  <2>1. ASSUME t[i] = Slash PROVE SubSeq(t, i, i) = <<Slash>>
    <3>1. Slash \in S
      BY <1>1, <2>1, ElementOfSeq
    <3>2. <<Slash>> \in Seq(S) /\ <<Slash>>[1] = Slash
      BY <3>1
    <3>3. \A j \in 1..1 : j = 1
      OBVIOUS
    <3>4. \A j \in 1..Len(<<Slash>>) : SubSeq(t, i, i)[j] = <<Slash>>[j]
      BY <1>1, <1>3, <2>1, <3>2, <3>3
    <3> QED  BY <1>1, <1>3, <3>2, <3>4, SeqEqual
  <2>2. <<Slash>>[1] = Slash
    OBVIOUS
  <2> QED  BY <1>3, <2>1, <2>2
<1> QED  BY <1>1, <1>4 DEF MatchAt

FirstSlash(t, k, i) == i \in k..Len(t) /\ t[i] = Slash /\ \A j \in k..i - 1 : t[j] # Slash
NoSlash(t, k) == \A j \in k..Len(t) : t[j] # Slash

\* Before(t, k, i) is what stands from k to before i, After(g, i) the list for
\* what is behind i.
Before(t, k, i) == Piece(t, k, i - 1)
After(g, i) == g[i + 1]

LEMMA SlashFrom ==
  ASSUME NEW S, NEW t \in Seq(S), NEW k \in 1..Len(t) + 1, ~NoSlash(t, k)
  PROVE  \E i \in 1..Len(t) : FirstSlash(t, k, i)
<1>1. PICK L \in Nat : L = Len(t)
  BY LenProperties
<1>2. PICK H \in SUBSET Nat : H = {j \in k..L : t[j] = Slash} /\ H # {}
  <2>1. {j \in k..L : t[j] = Slash} \in SUBSET Nat
    OBVIOUS
  <2>2. {j \in k..L : t[j] = Slash} # {}
    BY <1>1 DEF NoSlash
  <2> QED  BY <2>1, <2>2
<1>3. PICK i \in H : \A j \in H : i <= j
  BY <1>2, LeastExists
<1>4. \A j \in k..i - 1 : j \in k..L /\ ~(i <= j)
  BY <1>2
<1>5. i \in k..Len(t) /\ i \in 1..Len(t) /\ t[i] = Slash
  BY <1>1, <1>2
<1>6. \A j \in k..i - 1 : t[j] # Slash
  BY <1>2, <1>3, <1>4
<1> QED  BY <1>5, <1>6 DEF FirstSlash

\* What the scan does at a position: behind the last slash,
LEMMA ScanAtEnd ==
  ASSUME NEW S, NEW t \in Seq(S), NEW g, IsScan(t, <<Slash>>, g), NEW k \in 1..Len(t) + 1, NoSlash(t, k)
  PROVE  g[k] = Piece(t, k, Len(t))
<1>1. \A j \in k..Len(t) : j \in 1..Len(t)
  BY LenProperties
<1>2. \A j \in k..Len(t) : ~MatchAt(t, <<Slash>>, j)
  BY <1>1, SlashAt DEF NoSlash
<1>3. Matches(t, <<Slash>>, k) = {}
  BY <1>2 DEF Matches
<1> QED  BY <1>3, ScanStep DEF Parts

\* and before one.
LEMMA ScanAtSlash ==
  ASSUME NEW S, NEW t \in Seq(S), NEW g, IsScan(t, <<Slash>>, g), NEW k \in 1..Len(t) + 1,
         NEW i, FirstSlash(t, k, i)
  PROVE  g[k] = Before(t, k, i) \o After(g, i)
<1>1. PICK L \in Nat : L = Len(t)
  BY LenProperties
<1>2. \A j \in k..L : MatchAt(t, <<Slash>>, j) <=> t[j] = Slash
  <2>1. \A j \in k..L : j \in 1..Len(t)
    BY <1>1
  <2> QED  BY <2>1, SlashAt
<1>3. i \in k..L /\ t[i] = Slash /\ \A j \in k..i - 1 : t[j] # Slash
  BY <1>1 DEF FirstSlash
<1>4. PICK H \in SUBSET Nat : H = Matches(t, <<Slash>>, k) /\ H # {} /\ H \subseteq k..L /\ i \in H
  <2>1. i \in Matches(t, <<Slash>>, k) /\ Matches(t, <<Slash>>, k) \subseteq k..L
    BY <1>1, <1>2, <1>3 DEF Matches
  <2>2. k..L \subseteq Nat
    OBVIOUS
  <2> QED  BY <2>1, <2>2
<1>5. PICK m : m = Min(H) /\ m \in H /\ \A j \in H : m <= j
  BY <1>4, MinIsLeast
<1>6. m \in k..L /\ t[m] = Slash /\ m <= i
  BY <1>1, <1>2, <1>4, <1>5 DEF Matches
<1>7. m = i
  <2>1. m # i => m \in k..i - 1
    BY <1>3, <1>6
  <2> QED  BY <1>3, <1>6, <2>1
<1>8. i = Min(Matches(t, <<Slash>>, k)) /\ Matches(t, <<Slash>>, k) # {}
  BY <1>4, <1>5, <1>7
<1>9. Len(<<Slash>>) = 1
  OBVIOUS
<1>10. g[k] = Parts(t, <<Slash>>, g, k)
  BY ScanStep
<1> QED  BY <1>8, <1>9, <1>10 DEF Parts, Before, After

\* Induction from the end of a string to its start.
LEMMA Downwards ==
  ASSUME NEW n \in Nat, NEW Good,
         \A k \in 1..n + 1 : (\A j \in k + 1..n + 1 : j \in Good) => k \in Good
  PROVE  \A k \in 1..n + 1 : k \in Good
<1> DEFINE Bad == {m \in 0..n : n + 1 - m \notin Good}
<1> SUFFICES ASSUME Bad # {} PROVE FALSE
  <2>1. ASSUME NEW k \in 1..n + 1, k \notin Good PROVE Bad # {}
    <3>1. n + 1 - k \in 0..n /\ n + 1 - (n + 1 - k) = k
      OBVIOUS
    <3> QED  BY <2>1, <3>1
  <2> QED  BY <2>1
<1>1. Bad \in SUBSET Nat /\ \A m \in Bad : m \in 0..n /\ n + 1 - m \notin Good
  OBVIOUS
<1>2. \A j \in 1..n + 1 : j \notin Good => n + 1 - j \in Bad
  <2>1. \A j \in 1..n + 1 : n + 1 - j \in 0..n /\ n + 1 - (n + 1 - j) = j
    OBVIOUS
  <2> QED  BY <2>1
<1> HIDE DEF Bad
<1>3. PICK m \in Bad : \A i \in Bad : m <= i
  BY <1>1, LeastExists
<1>4. PICK k \in 1..n + 1 : k = n + 1 - m /\ k \notin Good
  <2>1. m \in 0..n
    BY <1>1
  <2>2. n + 1 - m \in 1..n + 1
    BY <2>1
  <2> QED  BY <1>1, <2>2
<1>5. ASSUME NEW j \in k + 1..n + 1, j \notin Good PROVE FALSE
  <2>1. m \in 0..n /\ j \in 1..n + 1 /\ ~(m <= n + 1 - j)
    BY <1>1, <1>4
  <2> QED  BY <1>2, <1>3, <1>5, <2>1
<1> QED  BY <1>4, <1>5

LEMMA PieceType ==
  ASSUME NEW S, NEW t \in Seq(S), NEW k \in 1..Len(t) + 1, NEW e \in 0..Len(t)
  PROVE  Piece(t, k, e) \in Seq(Seq(S))
<1>1. Len(t) \in Nat
  BY LenProperties
<1>2. CASE e < k
  BY <1>2, EmptySeq DEF Piece
<1>3. CASE ~(e < k)
  <2>1. k \in 1..Len(t) /\ e \in 1..Len(t) /\ k <= e
    BY <1>1, <1>3
  <2>2. SubSeq(t, k, e) \in Seq(S)
    BY <2>1, SliceOf
  <2> QED  BY <1>3, <2>2 DEF Piece
<1> QED  BY <1>2, <1>3

LEMMA BeforeType ==
  ASSUME NEW S, NEW t \in Seq(S), NEW k \in 1..Len(t) + 1, NEW i, FirstSlash(t, k, i)
  PROVE  /\ Before(t, k, i) \in Seq(Seq(S))
         /\ i \in Nat /\ k <= i /\ i <= Len(t)
<1>1. Len(t) \in Nat /\ i \in k..Len(t)
  BY LenProperties DEF FirstSlash
<1>2. PICK e \in 0..Len(t) : e = i - 1
  BY <1>1
<1> QED  BY <1>1, <1>2, PieceType DEF Before

\* The lists are lists of strings.
LEMMA ScanType ==
  ASSUME NEW S, NEW t \in Seq(S), NEW g, IsScan(t, <<Slash>>, g)
  PROVE  \A k \in 1..Len(t) + 1 : g[k] \in Seq(Seq(S))
<1>1. PICK L \in Nat : L = Len(t)
  BY LenProperties
<1>2. PICK Good : Good = {k \in 1..L + 1 : g[k] \in Seq(Seq(S))}
  OBVIOUS
<1>3. ASSUME NEW k \in 1..Len(t) + 1, \A j \in k + 1..L + 1 : j \in Good PROVE g[k] \in Seq(Seq(S))
  <2>1. CASE NoSlash(t, k)
    <3>1. g[k] = Piece(t, k, Len(t))
      BY <2>1, ScanAtEnd
    <3>2. Len(t) \in 0..Len(t)
      BY <1>1
    <3> QED  BY <3>1, <3>2, PieceType
  <2>2. ASSUME NEW i, FirstSlash(t, k, i) PROVE g[k] \in Seq(Seq(S))
    <3>1. g[k] = Before(t, k, i) \o After(g, i)
      BY <2>2, ScanAtSlash
    <3>2. Before(t, k, i) \in Seq(Seq(S)) /\ i \in Nat /\ k <= i /\ i <= Len(t)
      BY <2>2, BeforeType
    <3>3. i + 1 \in k + 1..L + 1
      BY <1>1, <3>2
    <3>4. After(g, i) \in Seq(Seq(S))
      BY <1>2, <1>3, <3>3 DEF After
    <3> QED  BY <3>1, <3>2, <3>4, ConcatProperties
  <2> QED  BY <2>1, <2>2, SlashFrom
<1>4. \A k \in 1..L + 1 : k \in Good
  <2>1. \A k \in 1..L + 1 : (\A j \in k + 1..L + 1 : j \in Good) => k \in Good
    BY <1>1, <1>2, <1>3
  <2> QED  BY <2>1, Downwards
<1> QED  BY <1>1, <1>2, <1>4

\* s stands in t behind the first p bytes.
At(t, p, s) == p \in Nat /\ p + Len(s) <= Len(t) /\ \A i \in 1..Len(s) : t[p + i] = s[i]

\* The same bytes elsewhere.
LEMMA SamePiece ==
  ASSUME NEW S, NEW t \in Seq(S), NEW s \in Seq(S), NEW p, At(t, p, s),
         NEW k \in 1..Len(s) + 1, NEW e \in 0..Len(s), NEW x, x = p + k, NEW y, y = p + e
  PROVE  Piece(t, x, y) = Piece(s, k, e)
<1>1. Len(s) \in Nat /\ Len(t) \in Nat /\ p \in Nat /\ p + Len(s) <= Len(t)
      /\ \A i \in 1..Len(s) : t[p + i] = s[i]
  BY LenProperties DEF At
<1>2. CASE e < k
  BY <1>1, <1>2 DEF Piece
<1>3. CASE ~(e < k)
  <2>1. PICK a \in Nat, n \in Nat : a + 1 = k /\ a + n = e /\ a + n <= Len(s)
    <3>1. k - 1 \in Nat /\ e - k + 1 \in Nat /\ (k - 1) + 1 = k /\ (k - 1) + (e - k + 1) = e /\ e <= Len(s)
      BY <1>1, <1>3
    <3> QED  BY <3>1
  <2>2. /\ SubSeq(s, k, e) \in Seq(S) /\ Len(SubSeq(s, k, e)) = n
        /\ \A i \in 1..n : SubSeq(s, k, e)[i] = s[a + i]
    <3>1. /\ SubSeq(s, a + 1, a + n) \in Seq(S) /\ Len(SubSeq(s, a + 1, a + n)) = n
          /\ \A i \in 1..n : SubSeq(s, a + 1, a + n)[i] = s[a + i]
      BY <2>1, Slice
    <3> QED  BY <2>1, <3>1
  <2>3. PICK b \in Nat : b = p + a /\ b + 1 = x /\ b + n = y /\ b + n <= Len(t)
    BY <1>1, <2>1
  <2>4. /\ SubSeq(t, x, y) \in Seq(S) /\ Len(SubSeq(t, x, y)) = n
        /\ \A i \in 1..n : SubSeq(t, x, y)[i] = t[b + i]
    <3>1. /\ SubSeq(t, b + 1, b + n) \in Seq(S) /\ Len(SubSeq(t, b + 1, b + n)) = n
          /\ \A i \in 1..n : SubSeq(t, b + 1, b + n)[i] = t[b + i]
      BY <2>3, Slice
    <3> QED  BY <2>3, <3>1
  <2>5. \A i \in 1..n : t[b + i] = s[a + i]
    <3> SUFFICES ASSUME NEW i \in 1..n PROVE t[b + i] = s[a + i]
      OBVIOUS
    <3>1. a + i \in 1..Len(s) /\ b + i = p + (a + i)
      BY <1>1, <2>1, <2>3
    <3> QED  BY <1>1, <3>1
  <2>6. SubSeq(t, x, y) = SubSeq(s, k, e)
    <3>1. PICK u \in Seq(S) : u = SubSeq(t, x, y) /\ Len(u) = n /\ \A i \in 1..n : u[i] = t[b + i]
      BY <2>4
    <3>2. PICK v \in Seq(S) : v = SubSeq(s, k, e) /\ Len(v) = n /\ \A i \in 1..n : v[i] = s[a + i]
      BY <2>2
    <3>3. \A i \in 1..Len(u) : u[i] = v[i]
      <4>1. \A i \in 1..n : u[i] = t[b + i] /\ v[i] = s[a + i]
        BY <3>1, <3>2
      <4>2. \A i \in 1..n : u[i] = v[i]
        BY <2>5, <4>1
      <4> QED  BY <3>1, <4>2
    <3>4. u = v
      BY <3>1, <3>2, <3>3, SeqEqual
    <3> QED  BY <3>1, <3>2, <3>4
  <2>7. ~(y < x)
    BY <1>1, <1>3
  <2> QED  BY <1>3, <2>6, <2>7 DEF Piece
<1> QED  BY <1>2, <1>3

\* The next slash is that of s,
LEMMA SlashInside ==
  ASSUME NEW S, NEW t \in Seq(S), NEW s \in Seq(S), NEW p, At(t, p, s),
         NEW k \in 1..Len(s) + 1, NEW i, FirstSlash(s, k, i)
  PROVE  FirstSlash(t, p + k, p + i) /\ Before(t, p + k, p + i) = Before(s, k, i)
<1>1. Len(s) \in Nat /\ Len(t) \in Nat /\ p \in Nat /\ p + Len(s) <= Len(t)
      /\ \A j \in 1..Len(s) : t[p + j] = s[j]
  BY LenProperties DEF At
<1>2. i \in k..Len(s) /\ s[i] = Slash /\ \A j \in k..i - 1 : s[j] # Slash
  BY DEF FirstSlash
<1>3. p + i \in p + k..Len(t) /\ i \in 1..Len(s) /\ (p + i) - 1 = p + (i - 1)
  BY <1>1, <1>2
<1>4. t[p + i] = Slash
  BY <1>1, <1>2, <1>3
<1>5. ASSUME NEW j \in p + k..(p + i) - 1 PROVE t[j] # Slash
  <2>1. PICK m \in k..i - 1 : m = j - p /\ p + m = j /\ m \in 1..Len(s)
    <3>1. j - p \in k..i - 1 /\ p + (j - p) = j /\ j - p \in 1..Len(s)
      BY <1>1, <1>2
    <3> QED  BY <3>1
  <2> QED  BY <1>1, <1>2, <2>1
<1>6. Piece(t, p + k, p + (i - 1)) = Piece(s, k, i - 1)
  <2>1. PICK e \in 0..Len(s) : e = i - 1
    BY <1>1, <1>2
  <2>2. PICK x, y : x = p + k /\ y = p + e
    OBVIOUS
  <2>3. Piece(t, x, y) = Piece(s, k, e)
    BY <2>2, SamePiece
  <2> QED  BY <2>1, <2>2, <2>3
<1>7. Before(t, p + k, p + i) = Before(s, k, i)
  BY <1>3, <1>6 DEF Before
<1> QED  BY <1>3, <1>4, <1>5, <1>7 DEF FirstSlash

\* one behind s if s ends with one there,
LEMMA SlashBehind ==
  ASSUME NEW S, NEW t \in Seq(S), NEW s \in Seq(S), At(t, 0, s), NEW i, i = Len(s) + 1, i <= Len(t), t[i] = Slash,
         NEW k \in 1..Len(s) + 1, NoSlash(s, k)
  PROVE  FirstSlash(t, k, i) /\ Before(t, k, i) = Piece(s, k, Len(s))
<1>1. Len(s) \in Nat /\ Len(t) \in Nat /\ 0 + Len(s) <= Len(t)
      /\ \A j \in 1..Len(s) : t[0 + j] = s[j]
  BY LenProperties DEF At
<1>2. \A j \in 1..Len(s) : t[j] = s[j]
  BY <1>1
<1>3. ASSUME NEW j \in k..i - 1 PROVE t[j] # Slash
  <2>1. j \in 1..Len(s) /\ j \in k..Len(s)
    BY <1>1
  <2> QED  BY <1>2, <2>1 DEF NoSlash
<1>4. i \in k..Len(t) /\ i - 1 = Len(s)
  BY <1>1
<1>5. Piece(t, k, Len(s)) = Piece(s, k, Len(s))
  <2>1. Len(s) \in 0..Len(s) /\ Len(s) = 0 + Len(s) /\ k = 0 + k
    BY <1>1
  <2> QED  BY <2>1, SamePiece
<1> QED  BY <1>3, <1>4, <1>5 DEF FirstSlash, Before

\* and there is none if s has none and is the end of t.
LEMMA NoSlashInside ==
  ASSUME NEW S, NEW t \in Seq(S), NEW s \in Seq(S), NEW p, At(t, p, s), Len(t) = p + Len(s),
         NEW k \in 1..Len(s) + 1, NoSlash(s, k)
  PROVE  NoSlash(t, p + k) /\ Piece(t, p + k, Len(t)) = Piece(s, k, Len(s))
<1>1. Len(s) \in Nat /\ Len(t) \in Nat /\ p \in Nat /\ p + Len(s) <= Len(t)
      /\ \A j \in 1..Len(s) : t[p + j] = s[j]
  BY LenProperties DEF At
<1>2. ASSUME NEW j \in p + k..Len(t) PROVE t[j] # Slash
  <2>1. PICK m \in k..Len(s) : m = j - p /\ p + m = j /\ m \in 1..Len(s)
    <3>1. j - p \in k..Len(s) /\ p + (j - p) = j /\ j - p \in 1..Len(s)
      BY <1>1
    <3> QED  BY <3>1
  <2> QED  BY <1>1, <2>1 DEF NoSlash
<1>3. Len(s) \in 0..Len(s)
  BY <1>1
<1>4. Piece(t, p + k, p + Len(s)) = Piece(s, k, Len(s))
  <2>1. PICK x, y : x = p + k /\ y = p + Len(s)
    OBVIOUS
  <2>2. Piece(t, x, y) = Piece(s, k, Len(s))
    BY <1>3, <2>1, SamePiece
  <2> QED  BY <2>1, <2>2
<1> QED  BY <1>2, <1>4 DEF NoSlash

LEMMA ScanOfNames ==
  ASSUME NEW S, NEW t \in Seq(S), Slash \in S
  PROVE  \E g : /\ IsScan(t, <<Slash>>, g) /\ AtSlashes(t) = g[1]
                /\ \A k \in 1..Len(t) + 1 : g[k] \in Seq(Seq(S))
<1>1. <<Slash>> \in Seq(S) /\ <<Slash>> # <<>>
  OBVIOUS
<1>2. PICK g : IsScan(t, <<Slash>>, g) /\ Components(t, <<Slash>>) = g[1]
  BY <1>1, ScanOfComponents
<1>3. \A k \in 1..Len(t) + 1 : g[k] \in Seq(Seq(S))
  BY <1>2, ScanType
<1> QED  BY <1>2, <1>3 DEF AtSlashes

\* The lists for the end of a string are those of the end.
LEMMA ScanOfEnd ==
  ASSUME NEW S, NEW t \in Seq(S), NEW b \in Seq(S), NEW p, At(t, p, b), Len(t) = p + Len(b),
         NEW f, IsScan(t, <<Slash>>, f), NEW h, IsScan(b, <<Slash>>, h)
  PROVE  \A k \in 1..Len(b) + 1 : f[p + k] = h[k]
<1>1. PICK l \in Nat : l = Len(b)
  BY LenProperties
<1>2. p \in Nat /\ Len(t) \in Nat
  BY LenProperties DEF At
<1>3. PICK Good : Good = {k \in 1..l + 1 : f[p + k] = h[k]}
  OBVIOUS
<1>4. ASSUME NEW k \in 1..Len(b) + 1, \A j \in k + 1..l + 1 : j \in Good PROVE f[p + k] = h[k]
  <2>1. PICK q \in 1..Len(t) + 1 : q = p + k
    BY <1>1, <1>2
  <2>2. CASE NoSlash(b, k)
    <3>1. h[k] = Piece(b, k, Len(b))
      BY <2>2, ScanAtEnd
    <3>2. NoSlash(t, q) /\ Piece(t, q, Len(t)) = Piece(b, k, Len(b))
      BY <2>1, <2>2, NoSlashInside
    <3>3. f[q] = Piece(t, q, Len(t))
      BY <3>2, ScanAtEnd
    <3> QED  BY <2>1, <3>1, <3>2, <3>3
  <2>3. ASSUME NEW i, FirstSlash(b, k, i) PROVE f[p + k] = h[k]
    <3>1. h[k] = Before(b, k, i) \o After(h, i)
      BY <2>3, ScanAtSlash
    <3>2. PICK m : m = p + i /\ FirstSlash(t, q, m) /\ Before(t, q, m) = Before(b, k, i)
      BY <2>1, <2>3, SlashInside
    <3>3. f[q] = Before(t, q, m) \o After(f, m)
      BY <3>2, ScanAtSlash
    <3>4. i \in Nat /\ k <= i /\ i <= Len(b)
      BY <2>3, BeforeType
    <3>5. i + 1 \in k + 1..l + 1 /\ m + 1 = p + (i + 1)
      BY <1>1, <1>2, <3>2, <3>4
    <3>6. After(f, m) = After(h, i)
      BY <1>3, <1>4, <3>5 DEF After
    <3> QED  BY <2>1, <3>1, <3>2, <3>3, <3>6
  <2> QED  BY <2>2, <2>3, SlashFrom
<1>5. \A k \in 1..l + 1 : (\A j \in k + 1..l + 1 : j \in Good) => k \in Good
  BY <1>1, <1>3, <1>4
<1>6. \A k \in 1..l + 1 : k \in Good
  BY <1>5, Downwards
<1> QED  BY <1>1, <1>3, <1>6

Regrouped(x, y, z) == x \o (y \o z) = (x \o y) \o z

LEMMA Regroup ==
  ASSUME NEW T, NEW x \in Seq(T), NEW y \in Seq(T), NEW z \in Seq(T)
  PROVE  Regrouped(x, y, z)
BY ConcatAssociative DEF Regrouped

\* g goes on with rest behind a, and is f then.
GoesOn(f, g, a, rest) == \A k \in 1..Len(a) + 1 : f[k] = g[k] \o rest

\* Those for the start, which ends with a slash, go on with what is behind it.
LEMMA ScanOfStart ==
  ASSUME NEW S, NEW t \in Seq(S), NEW a \in Seq(S), At(t, 0, a), NEW e, e = Len(a) + 1, e <= Len(t), t[e] = Slash,
         NEW f, IsScan(t, <<Slash>>, f), NEW g, IsScan(a, <<Slash>>, g),
         NEW rest \in Seq(Seq(S)), After(f, e) = rest
  PROVE  GoesOn(f, g, a, rest)
<1>1. PICK n \in Nat : n = Len(a)
  BY LenProperties
<1>2. Len(t) \in Nat
  BY LenProperties
<1>3. PICK Good : Good = {k \in 1..n + 1 : f[k] = g[k] \o rest}
  OBVIOUS
<1>4. ASSUME NEW k \in 1..Len(a) + 1, \A j \in k + 1..n + 1 : j \in Good PROVE f[k] = g[k] \o rest
  <2>1. k \in 1..Len(t) + 1
    BY <1>1, <1>2
  <2>2. CASE NoSlash(a, k)
    <3>1. g[k] = Piece(a, k, Len(a))
      BY <2>2, ScanAtEnd
    <3>2. FirstSlash(t, k, e) /\ Before(t, k, e) = Piece(a, k, Len(a))
      BY <2>2, SlashBehind
    <3>3. f[k] = Before(t, k, e) \o After(f, e)
      BY <2>1, <3>2, ScanAtSlash
    <3> QED  BY <3>1, <3>2, <3>3
  <2>3. ASSUME NEW i, FirstSlash(a, k, i) PROVE f[k] = g[k] \o rest
    <3>1. g[k] = Before(a, k, i) \o After(g, i)
      BY <2>3, ScanAtSlash
    <3>2. PICK z : z = 0 /\ At(t, z, a)
      OBVIOUS
    <3>3. Before(a, k, i) \in Seq(Seq(S)) /\ i \in Nat /\ k <= i /\ i <= Len(a)
      BY <2>3, BeforeType
    <3>4. FirstSlash(t, z + k, z + i) /\ Before(t, z + k, z + i) = Before(a, k, i)
      BY <2>3, <3>2, SlashInside
    <3>5. z + k = k /\ z + i = i
      BY <3>2, <3>3
    <3>6. FirstSlash(t, k, i) /\ Before(t, k, i) = Before(a, k, i)
      BY <3>4, <3>5
    <3>7. f[k] = Before(t, k, i) \o After(f, i)
      BY <2>1, <3>6, ScanAtSlash
    <3>8. i + 1 \in k + 1..n + 1 /\ i + 1 \in 1..Len(a) + 1
      BY <1>1, <3>3
    <3>9. After(f, i) = After(g, i) \o rest
      BY <1>3, <1>4, <3>8 DEF After
    <3>10. After(g, i) \in Seq(Seq(S))
      BY <3>8, ScanType DEF After
    <3>11. Before(a, k, i) \o (After(g, i) \o rest) = (Before(a, k, i) \o After(g, i)) \o rest
      <4>1. Regrouped(Before(a, k, i), After(g, i), rest)
        BY <3>3, <3>10, Regroup
      <4> QED  BY <4>1 DEF Regrouped
    <3> QED  BY <3>1, <3>6, <3>7, <3>9, <3>11
  <2> QED  BY <2>2, <2>3, SlashFrom
<1>5. \A k \in 1..n + 1 : (\A j \in k + 1..n + 1 : j \in Good) => k \in Good
  BY <1>1, <1>3, <1>4
<1>6. \A k \in 1..n + 1 : k \in Good
  BY <1>5, Downwards
<1> QED  BY <1>1, <1>3, <1>6 DEF GoesOn

\* Two strings with a slash between them have the names of both.
LEMMA NamesOfBoth ==
  ASSUME NEW S, Slash \in S, NEW a \in Seq(S), NEW b \in Seq(S)
  PROVE  /\ a \o <<Slash>> \o b \in Seq(S)
         /\ AtSlashes(a \o <<Slash>> \o b) = AtSlashes(a) \o AtSlashes(b)
         /\ AtSlashes(a) \in Seq(Seq(S)) /\ AtSlashes(b) \in Seq(Seq(S))
<1>1. PICK n \in Nat, l \in Nat : n = Len(a) /\ l = Len(b)
  BY LenProperties
<1>2. PICK z \in Seq(S) : z = <<Slash>> /\ Len(z) = 1 /\ z[1] = Slash
  <2>1. <<Slash>> \in Seq(S) /\ Len(<<Slash>>) = 1 /\ <<Slash>>[1] = Slash
    OBVIOUS
  <2> QED  BY <2>1
<1>3. PICK w \in Seq(S) : /\ w = a \o z /\ Len(w) = n + 1 /\ w[n + 1] = Slash
                          /\ \A i \in 1..n : w[i] = a[i]
  <2>1. /\ a \o z \in Seq(S) /\ Len(a \o z) = Len(a) + Len(z)
        /\ \A i \in 1..Len(a) : (a \o z)[i] = a[i]
        /\ \A i \in 1..Len(z) : (a \o z)[Len(a) + i] = z[i]
    BY Concat
  <2>2. 1 \in 1..Len(z)
    BY <1>2
  <2> QED  BY <1>1, <1>2, <2>1, <2>2
<1>4. PICK t \in Seq(S) : /\ t = w \o b /\ Len(t) = n + 1 + l
                          /\ \A i \in 1..n + 1 : t[i] = w[i]
                          /\ \A i \in 1..l : t[n + 1 + i] = b[i]
  <2>1. /\ w \o b \in Seq(S) /\ Len(w \o b) = Len(w) + Len(b)
        /\ \A i \in 1..Len(w) : (w \o b)[i] = w[i]
        /\ \A i \in 1..Len(b) : (w \o b)[Len(w) + i] = b[i]
    BY Concat
  <2>2. Len(w) = n + 1 /\ Len(b) = l
    BY <1>1, <1>3
  <2>3. PICK t \in Seq(S) : t = w \o b
    BY <2>1
  <2> QED  BY <2>1, <2>2, <2>3
<1>5. (\A i \in 1..n : t[i] = a[i]) /\ t[n + 1] = Slash
  <2>1. \A i \in 1..n : i \in 1..n + 1
    OBVIOUS
  <2>2. n + 1 \in 1..n + 1
    OBVIOUS
  <2> QED  BY <1>3, <1>4, <2>1, <2>2
<1>6. PICK f : /\ IsScan(t, <<Slash>>, f) /\ AtSlashes(t) = f[1]
               /\ \A k \in 1..Len(t) + 1 : f[k] \in Seq(Seq(S))
  BY ScanOfNames
<1>7. PICK g : /\ IsScan(a, <<Slash>>, g) /\ AtSlashes(a) = g[1]
               /\ \A k \in 1..Len(a) + 1 : g[k] \in Seq(Seq(S))
  BY ScanOfNames
<1>8. PICK h : /\ IsScan(b, <<Slash>>, h) /\ AtSlashes(b) = h[1]
               /\ \A k \in 1..Len(b) + 1 : h[k] \in Seq(Seq(S))
  BY ScanOfNames
<1>9. PICK p : p = n + 1 /\ At(t, p, b) /\ Len(t) = p + Len(b) /\ p + 1 = n + 2
  <2>1. n + 1 \in Nat /\ n + 1 + Len(b) <= Len(t) /\ Len(t) = n + 1 + Len(b) /\ n + 1 + 1 = n + 2
    BY <1>1, <1>4
  <2>2. \A i \in 1..Len(b) : t[n + 1 + i] = b[i]
    BY <1>1, <1>4
  <2> QED  BY <2>1, <2>2 DEF At
<1>10. \A k \in 1..Len(b) + 1 : f[p + k] = h[k]
  <2>1. IsScan(t, <<Slash>>, f) /\ IsScan(b, <<Slash>>, h) /\ At(t, p, b) /\ Len(t) = p + Len(b)
    BY <1>6, <1>8, <1>9
  <2> QED  BY <2>1, ScanOfEnd
<1>11. PICK rest \in Seq(Seq(S)) : rest = h[1] /\ rest = After(f, n + 1)
  <2>1. 1 \in 1..Len(b) + 1
    BY <1>1
  <2>2. f[p + 1] = h[1] /\ h[1] \in Seq(Seq(S))
    BY <1>8, <1>10, <2>1
  <2> QED  BY <1>9, <2>2 DEF After
<1>12. PICK e : At(t, 0, a) /\ e = Len(a) + 1 /\ e <= Len(t) /\ t[e] = Slash /\ After(f, e) = rest
  <2>1. 0 \in Nat /\ 0 + Len(a) <= Len(t) /\ \A i \in 1..Len(a) : t[0 + i] = a[i]
    <3>1. \A i \in 1..n : 0 + i = i
      OBVIOUS
    <3>2. \A i \in 1..n : t[0 + i] = a[i]
      BY <1>5, <3>1
    <3>3. 0 + n <= n + 1 + l
      OBVIOUS
    <3> QED  BY <1>1, <1>4, <3>2, <3>3
  <2> QED  BY <1>1, <1>4, <1>5, <1>11, <2>1 DEF At
<1>13. GoesOn(f, g, a, rest)
  <2>1. IsScan(t, <<Slash>>, f) /\ IsScan(a, <<Slash>>, g)
    BY <1>6, <1>7
  <2>2. rest \in Seq(Seq(S))
    OBVIOUS
  <2> QED  BY <1>12, <2>1, <2>2, ScanOfStart
<1>14. f[1] = g[1] \o rest /\ g[1] \in Seq(Seq(S))
  <2>1. 1 \in 1..Len(a) + 1
    BY <1>1
  <2> QED  BY <1>7, <1>13, <2>1 DEF GoesOn
<1>15. a \o <<Slash>> \o b = t
  BY <1>2, <1>3, <1>4
<1> QED  BY <1>6, <1>7, <1>8, <1>11, <1>14, <1>15

\* The empty string has none.
LEMMA NamesOfNothing ==
  ASSUME NEW S, Slash \in S
  PROVE  AtSlashes(<<>>) = <<>> /\ <<>> \in Seq(S)
<1>1. PICK t \in Seq(S) : t = <<>> /\ Len(t) = 0
  BY EmptySeq
<1>2. PICK g : IsScan(t, <<Slash>>, g) /\ AtSlashes(t) = g[1]
  BY ScanOfNames
<1>3. 1 \in 1..Len(t) + 1 /\ NoSlash(t, 1)
  BY <1>1 DEF NoSlash
<1>4. g[1] = Piece(t, 1, Len(t))
  BY <1>2, <1>3, ScanAtEnd
<1> QED  BY <1>1, <1>2, <1>4 DEF Piece

(***************************************************************************)
(* Joining                                                                 *)
(***************************************************************************)

\* Induction from 1 to n.
LEMMA Upwards ==
  ASSUME NEW n \in Nat, NEW Good, n > 0 => 1 \in Good, \A k \in 1..n : k \in Good /\ k # n => k + 1 \in Good
  PROVE  \A k \in 1..n : k \in Good
<1>1. PICK Bad \in SUBSET (0..n) : Bad = {k \in 1..n : k \notin Good}
  <2>1. {k \in 1..n : k \notin Good} \in SUBSET (0..n)
    OBVIOUS
  <2> QED  BY <2>1
<1>2. 0 \notin Bad
  BY <1>1
<1>3. ASSUME NEW m \in 1..n, m \in Bad PROVE m - 1 \in Bad
  <2>1. m # 1
    BY <1>1, <1>3
  <2>2. m - 1 \in 1..n /\ m - 1 # n /\ (m - 1) + 1 = m
    BY <2>1
  <2>3. m \notin Good
    BY <1>1, <1>3
  <2> QED  BY <1>1, <2>2, <2>3
<1>4. Bad = {}
  BY <1>2, <1>3, NoLeast
<1> QED  BY <1>1, <1>4

\* f[i] is the first i of some sequences put together.
IsChain(f, seqs) == f = [i \in 1..Len(seqs) |-> IF i = 1 THEN seqs[i] ELSE f[i - 1] \o seqs[i]]

LEMMA ChainExists ==
  ASSUME NEW seqs, Len(seqs) \in Nat
  PROVE  \E f : IsChain(f, seqs)
<1>1. PICK n \in Nat : n = Len(seqs)
  OBVIOUS
<1> DEFINE UpTo(f, m) == f = [i \in 1..m |-> IF i = 1 THEN seqs[i] ELSE f[i - 1] \o seqs[i]]
           Bad == {m \in 0..n : ~ \E f : UpTo(f, m)}
<1>2. 0 \notin Bad
  <2>1. PICK f : f = [i \in {} |-> 0]
    OBVIOUS
  <2>2. 1..0 = {}
    OBVIOUS
  <2>3. UpTo(f, 0)
    BY <2>1, <2>2
  <2> HIDE DEF UpTo
  <2> QED  BY <2>3
<1>3. ASSUME NEW m \in 1..n, NEW f, UpTo(f, m - 1) PROVE \E g : UpTo(g, m)
  <2>1. PICK g : g = [i \in 1..m |-> IF i = m THEN (IF i = 1 THEN seqs[i] ELSE f[i - 1] \o seqs[i]) ELSE f[i]]
    OBVIOUS
  <2>2. \A i \in 1..m - 1 : g[i] = f[i] /\ f[i] = IF i = 1 THEN seqs[i] ELSE f[i - 1] \o seqs[i]
    <3>1. \A i \in 1..m - 1 : i \in 1..m /\ i # m
      OBVIOUS
    <3> QED  BY <1>3, <2>1, <3>1
  <2>3. \A i \in 1..m : i # 1 => g[i - 1] = f[i - 1]
    <3>1. \A i \in 1..m : i # 1 => i - 1 \in 1..m - 1
      OBVIOUS
    <3> QED  BY <2>2, <3>1
  <2>4. ASSUME NEW i \in 1..m PROVE g[i] = IF i = 1 THEN seqs[i] ELSE g[i - 1] \o seqs[i]
    <3>1. CASE i = m
      BY <2>1, <2>3, <3>1
    <3>2. CASE i # m
      <4>1. i \in 1..m - 1
        BY <3>2
      <4> QED  BY <2>2, <2>3, <4>1
    <3> QED  BY <3>1, <3>2
  <2>5. g = [i \in 1..m |-> IF i = 1 THEN seqs[i] ELSE g[i - 1] \o seqs[i]]
    BY <2>1, <2>4
  <2> QED  BY <2>5
<1>4. Bad = {}
  <2>1. ASSUME NEW m \in 1..n, m - 1 \notin Bad PROVE m \notin Bad
    <3>1. m - 1 \in 0..n
      OBVIOUS
    <3> HIDE DEF UpTo
    <3>2. \E f : UpTo(f, m - 1)
      BY <2>1, <3>1
    <3> QED  BY <1>3, <3>2
  <2>2. Bad \in SUBSET (0..n)
    OBVIOUS
  <2> HIDE DEF Bad
  <2>3. \A m \in 1..n : m \in Bad => m - 1 \in Bad
    BY <2>1
  <2> QED  BY <1>2, <2>2, <2>3, NoLeast
<1>5. \E f : UpTo(f, n)
  <2>1. n \in 0..n
    OBVIOUS
  <2> HIDE DEF UpTo
  <2> QED  BY <1>4, <2>1
<1> QED  BY <1>1, <1>5 DEF IsChain

LEMMA Flattened ==
  ASSUME NEW seqs, Len(seqs) \in Nat, Len(seqs) # 0
  PROVE  \E f : /\ FlattenSeq(seqs) = f[Len(seqs)] /\ f[1] = seqs[1]
                /\ \A k \in 1..Len(seqs) : k # Len(seqs) => f[k + 1] = f[k] \o seqs[k + 1]
<1>1. FlattenSeq(seqs) = (CHOOSE f : IsChain(f, seqs))[Len(seqs)]
  BY DEF FlattenSeq, IsChain
<1>2. PICK f : f = CHOOSE g : IsChain(g, seqs)
  OBVIOUS
<1>3. IsChain(f, seqs)
  BY <1>2, ChainExists
<1>4. 1 \in 1..Len(seqs)
  OBVIOUS
<1>5. f[1] = seqs[1]
  BY <1>3, <1>4 DEF IsChain
<1>6. ASSUME NEW k \in 1..Len(seqs), k # Len(seqs) PROVE f[k + 1] = f[k] \o seqs[k + 1]
  <2>1. k + 1 \in 1..Len(seqs) /\ k + 1 # 1 /\ (k + 1) - 1 = k
    BY <1>6
  <2> QED  BY <1>3, <2>1 DEF IsChain
<1> QED  BY <1>1, <1>2, <1>5, <1>6

LEMMA FlattenNothing == FlattenSeq(<<>>) = <<>>
BY DEF FlattenSeq

\* Two strings with a slash between them.
Both(a, b) == a \o <<Slash>> \o b

LEMMA BothNames ==
  ASSUME NEW S, Slash \in S, NEW a \in Seq(S), NEW b \in Seq(S)
  PROVE  Both(a, b) \in Seq(S) /\ AtSlashes(Both(a, b)) = AtSlashes(a) \o AtSlashes(b)
BY NamesOfBoth DEF Both

LEMMA BothParts ==
  ASSUME NEW S, Slash \in S, NEW a \in Seq(S), NEW b \in Seq(S)
  PROVE  Both(a, b) = a \o (<<Slash>> \o b) /\ <<Slash>> \o b \in Seq(S)
<1>1. PICK z \in Seq(S) : z = <<Slash>>
  <2>1. <<Slash>> \in Seq(S)
    OBVIOUS
  <2> QED  BY <2>1
<1>2. Regrouped(a, z, b)
  BY Regroup
<1>3. z \o b \in Seq(S)
  BY ConcatProperties
<1>4. Both(a, b) = a \o (<<Slash>> \o b)
  BY <1>1, <1>2 DEF Regrouped, Both
<1> QED  BY <1>1, <1>3, <1>4

Longer(a, b, c) == Both(a, b) \o c = Both(a, b \o c)

LEMMA BothLonger ==
  ASSUME NEW S, Slash \in S, NEW a \in Seq(S), NEW b \in Seq(S), NEW c \in Seq(S)
  PROVE  Longer(a, b, c)
<1>1. PICK z \in Seq(S) : z = <<Slash>>
  <2>1. <<Slash>> \in Seq(S)
    OBVIOUS
  <2> QED  BY <2>1
<1>2. PICK w \in Seq(S) : w = a \o z
  BY ConcatProperties
<1>3. Regrouped(w, b, c)
  BY Regroup
<1> QED  BY <1>1, <1>2, <1>3 DEF Regrouped, Both, Longer

\* The names with slashes before all but the first.
Slashed(names) == [i \in DOMAIN names |-> IF i > 1 THEN <<Slash>> \o names[i] ELSE names[i]]

LEMMA FunctionIsList ==
  ASSUME NEW T, NEW n \in Nat, NEW f \in [1..n -> T]
  PROVE  f \in Seq(T)
BY SeqDef

LEMMA SlashedType ==
  ASSUME NEW S, Slash \in S, NEW names \in Seq(Seq(S))
  PROVE  /\ Len(names) \in Nat /\ DOMAIN names = 1..Len(names) /\ Len(Slashed(names)) = Len(names)
         /\ \A i \in 1..Len(names) : /\ names[i] \in Seq(S)
                                     /\ Slashed(names)[i] = IF i > 1 THEN <<Slash>> \o names[i] ELSE names[i]
                                     /\ Slashed(names)[i] \in Seq(S)
<1>1. Len(names) \in Nat /\ DOMAIN names = 1..Len(names) /\ \A i \in 1..Len(names) : names[i] \in Seq(S)
  BY LenProperties, ElementOfSeq
<1>2. \A i \in 1..Len(names) : <<Slash>> \o names[i] \in Seq(S)
  BY <1>1, BothParts
<1>3. Slashed(names) = [i \in 1..Len(names) |-> IF i > 1 THEN <<Slash>> \o names[i] ELSE names[i]]
  BY <1>1 DEF Slashed
<1>4. Slashed(names) \in [1..Len(names) -> Seq(S)]
  BY <1>1, <1>2, <1>3
<1>5. Slashed(names) \in Seq(Seq(S))
  BY <1>1, <1>4, FunctionIsList
<1>6. Len(Slashed(names)) = Len(names)
  <2>1. DOMAIN Slashed(names) = 1..Len(names) /\ DOMAIN Slashed(names) = 1..Len(Slashed(names)) /\ Len(Slashed(names)) \in Nat
    BY <1>3, <1>5, LenProperties
  <2> QED  BY <1>1, <2>1
<1> QED  BY <1>1, <1>2, <1>3, <1>6

\* A path that is joined and split again: the names of the whole are those of
\* the parts.
LEMMA JoinNames ==
  ASSUME NEW S, Slash \in S, NEW names \in Seq(Seq(S))
  PROVE  /\ Join(names) \in Seq(S)
         /\ AtSlashes(Join(names)) = FlattenSeq([i \in DOMAIN names |-> AtSlashes(names[i])])
<1>1. PICK n \in Nat : n = Len(names) /\ DOMAIN names = 1..n
  BY LenProperties
<1>2. PICK joined : joined = Slashed(names)
  OBVIOUS
<1>3. /\ Len(joined) = n
      /\ \A i \in 1..n : /\ names[i] \in Seq(S) /\ joined[i] \in Seq(S)
                         /\ joined[i] = IF i > 1 THEN <<Slash>> \o names[i] ELSE names[i]
  BY <1>1, <1>2, SlashedType
<1>4. Join(names) = FlattenSeq(joined)
  BY <1>2 DEF Join, Slashed
<1>5. PICK parts : parts = [i \in 1..n |-> AtSlashes(names[i])]
  OBVIOUS
<1>6. CASE n = 0
  <2>1. names = <<>> /\ 1..n = {}
    BY <1>1, <1>6, EmptySeq
  <2>2. joined = <<>>
    BY <1>1, <1>2, <2>1 DEF Slashed
  <2>3. parts = <<>>
    BY <1>5, <2>1
  <2> QED  BY <1>1, <1>4, <1>5, <2>2, <2>3, FlattenNothing, NamesOfNothing
<1>7. CASE n # 0
  <2>1. PICK f : /\ Join(names) = f[n] /\ f[1] = joined[1]
                 /\ \A k \in 1..n : k # n => f[k + 1] = f[k] \o joined[k + 1]
    <3>1. Len(joined) \in Nat /\ Len(joined) # 0
      BY <1>3, <1>7
    <3>2. PICK f : /\ FlattenSeq(joined) = f[Len(joined)] /\ f[1] = joined[1]
                   /\ \A k \in 1..Len(joined) : k # Len(joined) => f[k + 1] = f[k] \o joined[k + 1]
      BY <3>1, Flattened
    <3> QED  BY <1>3, <1>4, <3>2
  <2>2. Len(parts) = n
    <3>1. \A i \in 1..n : AtSlashes(names[i]) \in Seq(Seq(S))
      BY <1>3, BothNames, NamesOfBoth
    <3>2. parts \in [1..n -> Seq(Seq(S))] /\ DOMAIN parts = 1..n
      BY <1>5, <3>1
    <3>3. parts \in Seq(Seq(Seq(S)))
      BY <3>2, FunctionIsList
    <3>4. DOMAIN parts = 1..Len(parts) /\ Len(parts) \in Nat
      BY <3>3, LenProperties
    <3> QED  BY <3>2, <3>4
  <2>3. PICK h : /\ FlattenSeq(parts) = h[n] /\ h[1] = parts[1]
                 /\ \A k \in 1..n : k # n => h[k + 1] = h[k] \o parts[k + 1]
    BY <1>7, <2>2, Flattened
  <2>4. PICK Good : Good = {k \in 1..n : f[k] \in Seq(S) /\ AtSlashes(f[k]) = h[k]}
    OBVIOUS
  <2>5. 1 \in Good
    <3>1. 1 \in 1..n /\ ~(1 > 1)
      BY <1>7
    <3>2. f[1] = names[1] /\ names[1] \in Seq(S) /\ h[1] = AtSlashes(names[1])
      BY <1>3, <1>5, <2>1, <2>3, <3>1
    <3> QED  BY <2>4, <3>1, <3>2
  <2>6. ASSUME NEW k \in 1..n, k \in Good, k # n PROVE k + 1 \in Good
    <3>1. k + 1 \in 1..n /\ k + 1 > 1
      BY <2>6
    <3>2. PICK x \in Seq(S), y \in Seq(S) : x = f[k] /\ y = names[k + 1] /\ AtSlashes(x) = h[k]
      BY <1>3, <2>4, <2>6, <3>1
    <3>3. f[k + 1] = Both(x, y)
      <4>1. f[k + 1] = x \o (<<Slash>> \o y)
        <5>1. f[k + 1] = f[k] \o joined[k + 1] /\ joined[k + 1] = <<Slash>> \o names[k + 1]
          BY <1>3, <2>1, <2>6, <3>1
        <5> QED  BY <3>2, <5>1
      <4>2. Both(x, y) = x \o (<<Slash>> \o y)
        BY BothParts
      <4> QED  BY <4>1, <4>2
    <3>4. Both(x, y) \in Seq(S) /\ AtSlashes(Both(x, y)) = AtSlashes(x) \o AtSlashes(y)
      BY BothNames
    <3>5. h[k + 1] = AtSlashes(x) \o AtSlashes(y)
      BY <1>5, <2>3, <2>6, <3>1, <3>2
    <3> QED  BY <2>4, <3>1, <3>3, <3>4, <3>5
  <2>7. n \in Good
    <3>1. n \in 1..n /\ \A k \in 1..n : k \in Good
      BY <1>7, <2>5, <2>6, Upwards
    <3> QED  BY <3>1
  <2> QED  BY <1>1, <1>5, <2>1, <2>3, <2>4, <2>7
<1> QED  BY <1>6, <1>7

\* A name before the others.
LEMMA JoinTail ==
  ASSUME NEW S, Slash \in S, NEW names \in Seq(Seq(S)), Len(names) > 1
  PROVE  Join(names) = Both(names[1], Join(Tail(names)))
<1>1. PICK n \in Nat : n = Len(names) /\ n > 1
  BY LenProperties
<1>2. PICK tail \in Seq(Seq(S)) : /\ tail = Tail(names) /\ Len(tail) = n - 1
                                  /\ \A i \in 1..n - 1 : tail[i] = names[i + 1]
  <2>1. names # <<>>
    BY <1>1, EmptySeq
  <2>2. /\ Tail(names) \in Seq(Seq(S)) /\ Len(Tail(names)) = Len(names) - 1
        /\ \A i \in 1..Len(Tail(names)) : Tail(names)[i] = names[i + 1]
    BY <2>1, HeadTailProperties
  <2> QED  BY <1>1, <2>2
<1>3. PICK joined : joined = Slashed(names)
  OBVIOUS
<1>4. /\ Len(joined) = n
      /\ \A i \in 1..n : /\ names[i] \in Seq(S) /\ joined[i] \in Seq(S)
                         /\ joined[i] = IF i > 1 THEN <<Slash>> \o names[i] ELSE names[i]
  BY <1>1, <1>3, SlashedType
<1>5. PICK rest : rest = Slashed(tail)
  OBVIOUS
<1>6. /\ Len(rest) = n - 1
      /\ \A i \in 1..n - 1 : /\ tail[i] \in Seq(S) /\ rest[i] \in Seq(S)
                             /\ rest[i] = IF i > 1 THEN <<Slash>> \o tail[i] ELSE tail[i]
  <2>1. /\ Len(rest) = Len(tail)
        /\ \A i \in 1..Len(tail) : /\ tail[i] \in Seq(S) /\ rest[i] \in Seq(S)
                                   /\ rest[i] = IF i > 1 THEN <<Slash>> \o tail[i] ELSE tail[i]
    BY <1>5, SlashedType
  <2> QED  BY <1>2, <2>1
<1>7. Join(names) = FlattenSeq(joined) /\ Join(tail) = FlattenSeq(rest)
  BY <1>3, <1>5 DEF Join, Slashed
<1>8. PICK f : /\ Join(names) = f[n] /\ f[1] = joined[1]
               /\ \A k \in 1..n : k # n => f[k + 1] = f[k] \o joined[k + 1]
  <2>1. Len(joined) \in Nat /\ Len(joined) # 0
    BY <1>1, <1>4
  <2>2. PICK f : /\ FlattenSeq(joined) = f[Len(joined)] /\ f[1] = joined[1]
                 /\ \A k \in 1..Len(joined) : k # Len(joined) => f[k + 1] = f[k] \o joined[k + 1]
    BY <2>1, Flattened
  <2> QED  BY <1>4, <1>7, <2>2
<1>9. PICK m \in Nat : m = n - 1 /\ m # 0 /\ m + 1 = n
  <2>1. n - 1 \in Nat /\ n - 1 # 0 /\ (n - 1) + 1 = n
    BY <1>1
  <2> QED  BY <2>1
<1>10. PICK h : /\ Join(tail) = h[m] /\ h[1] = rest[1]
                /\ \A k \in 1..m : k # m => h[k + 1] = h[k] \o rest[k + 1]
  <2>1. Len(rest) \in Nat /\ Len(rest) # 0
    BY <1>6, <1>9
  <2>2. PICK h : /\ FlattenSeq(rest) = h[Len(rest)] /\ h[1] = rest[1]
                 /\ \A k \in 1..Len(rest) : k # Len(rest) => h[k + 1] = h[k] \o rest[k + 1]
    BY <2>1, Flattened
  <2> QED  BY <1>6, <1>7, <1>9, <2>2
<1>11. PICK first \in Seq(S) : first = names[1] /\ f[1] = first
  <2>1. 1 \in 1..n /\ ~(1 > 1)
    BY <1>1
  <2> QED  BY <1>4, <1>8, <2>1
<1>12. PICK Good : Good = {k \in 1..m : h[k] \in Seq(S) /\ f[k + 1] = Both(first, h[k])}
  OBVIOUS
<1>13. 1 \in Good
  <2>1. 1 \in 1..m /\ 1 \in 1..n - 1 /\ 1 \in 1..n /\ 1 # n /\ 1 + 1 = 2 /\ 2 \in 1..n /\ 2 > 1 /\ ~(1 > 1)
    BY <1>1, <1>9
  <2>2. PICK y \in Seq(S) : y = names[2]
    BY <1>4, <2>1
  <2>3. h[1] = y
    BY <1>2, <1>6, <1>10, <2>1, <2>2
  <2>4. f[2] = first \o (<<Slash>> \o y)
    <3>1. f[2] = f[1] \o joined[2] /\ joined[2] = <<Slash>> \o names[2]
      BY <1>4, <1>8, <2>1
    <3> QED  BY <1>11, <2>2, <3>1
  <2>5. Both(first, y) = first \o (<<Slash>> \o y)
    BY BothParts
  <2> QED  BY <1>12, <2>1, <2>2, <2>3, <2>4, <2>5
<1>14. ASSUME NEW k \in 1..m, k \in Good, k # m PROVE k + 1 \in Good
  <2>1. /\ k + 1 \in 1..m /\ k + 1 \in 1..n - 1 /\ k + 1 \in 1..n /\ k + 1 # n /\ k + 1 > 1
        /\ (k + 1) + 1 \in 1..n /\ (k + 1) + 1 > 1
    BY <1>9, <1>14
  <2>2. PICK x \in Seq(S) : x = h[k] /\ f[k + 1] = Both(first, x)
    BY <1>12, <1>14
  <2>3. PICK z \in Seq(S) : z = rest[k + 1] /\ z = joined[(k + 1) + 1]
    <3>1. rest[k + 1] \in Seq(S) /\ rest[k + 1] = <<Slash>> \o tail[k + 1]
      BY <1>6, <2>1
    <3>2. joined[(k + 1) + 1] = <<Slash>> \o names[(k + 1) + 1]
      BY <1>4, <2>1
    <3>3. tail[k + 1] = names[(k + 1) + 1]
      BY <1>2, <2>1
    <3> QED  BY <3>1, <3>2, <3>3
  <2>4. h[k + 1] = x \o z
    BY <1>10, <1>14, <2>2, <2>3
  <2>5. f[(k + 1) + 1] = Both(first, x) \o z
    BY <1>8, <2>1, <2>2, <2>3
  <2>6. Both(first, x) \o z = Both(first, x \o z)
    <3>1. Longer(first, x, z)
      BY BothLonger
    <3> QED  BY <3>1 DEF Longer
  <2>7. x \o z \in Seq(S)
    BY ConcatProperties
  <2> QED  BY <1>12, <2>1, <2>4, <2>5, <2>6, <2>7
<1>15. m \in Good
  <2>1. \A k \in 1..m : k \in Good /\ k # m => k + 1 \in Good
    BY <1>14
  <2>2. \A k \in 1..m : k \in Good
    BY <1>13, <2>1, Upwards
  <2>3. m \in 1..m
    BY <1>9
  <2> QED  BY <2>2, <2>3
<1> QED  BY <1>2, <1>8, <1>9, <1>10, <1>11, <1>12, <1>15

\* A single slash has no names, so it is no special case.
LEMMA ParseNames ==
  ASSUME NEW S, Slash \in S, NEW t \in Seq(S)
  PROVE  Parse(t) = AtSlashes(t) /\ Parse(t) \in Seq(Seq(S))
<1>1. AtSlashes(t) \in Seq(Seq(S))
  BY NamesOfBoth
<1>2. PICK e \in Seq(S) : e = <<>> /\ AtSlashes(e) = <<>>
  BY NamesOfNothing
<1>3. Both(e, e) = <<Slash>>
  <2>1. PICK z \in Seq(S) : z = <<Slash>>
    <3>1. <<Slash>> \in Seq(S)
      OBVIOUS
    <3> QED  BY <3>1
  <2>2. e \o z \o e = z
    BY <1>2, ConcatEmptySeq
  <2> QED  BY <2>1, <2>2 DEF Both
<1>4. AtSlashes(<<Slash>>) = AtSlashes(e) \o AtSlashes(e)
  BY <1>3, BothNames
<1>5. AtSlashes(<<Slash>>) = <<>>
  BY <1>2, <1>4
<1> QED  BY <1>1, <1>5 DEF Parse, AtSlashes

(***************************************************************************)
(* URLs                                                                    *)
(***************************************************************************)

\* What names are made of.
Char == STRING \cup {Slash}
Lists == Seq(Seq(Char))

URLType == /\ type \in [Url -> Kinds \cup {None}]
           /\ pathComponents \in [Url -> Lists]
           /\ pathString \in [Url -> PathStr \cup {None}]
           /\ DOMAIN contents = PathStr
           /\ call \in [Thread -> [pc : {"idle", "copy", "store", "return"},
                                   url : Url \cup {None}, str : PathStr \cup {None}]]
           /\ got \in [Thread -> [url : Url \cup {None}, str : PathStr \cup {None}]]
           /\ lost \in [Url -> SUBSET PathStr]

\* The strings that live as long as u does.
Owned(u) == lost[u] \cup ({pathString[u]} \ {None})

\* They hold the path of u, and no other URL has them.
OwnedInv(u) == /\ \A p \in Owned(u) : URLExists(u) /\ contents[p] = EFURLCopyPath(u)
               /\ \A v \in Url \ {u} : Owned(u) \cap Owned(v) = {}

\* A call that is under way is on a URL that exists.  The string it has made
\* holds the path of the URL and is known to nobody else.
GetPathInv(t) ==
    /\ call[t] # Idle => call[t].pc # "idle" /\ call[t].url \in Url /\ URLExists(call[t].url)
    /\ call[t].str # None =>
          /\ call[t].pc = "store"
          /\ contents[call[t].str] = EFURLCopyPath(call[t].url)
          /\ \A u \in Url : call[t].str \notin Owned(u)
          /\ \A s \in Thread \ {t} : call[s].str # call[t].str

\* A borrowed string is one of the URL's, maybe one it has lost.
GotInv(t) == got[t].str # None => got[t].url \in Url /\ got[t].str \in Owned(got[t].url)

URLInv == /\ URLType
          /\ \A u \in Url : OwnedInv(u)
          /\ \A t \in Thread : GetPathInv(t) /\ GotInv(t)

LEMMA NoNames == <<>> \in Lists
BY EmptySeq DEF Lists

LEMMA KindsNotNone == None \notin Kinds /\ None \notin Url /\ None \notin PathStr
BY URLAssumption

\* A path that has been made is not a string that does not exist.
LEMMA MadePath ==
  ASSUME URLType, NEW u \in Url, URLExists(u)
  PROVE  EFURLCopyPath(u) # Unmade
<1>1. EFURLCopyPath(u).prefix = type[u] /\ Unmade.prefix = None
  BY DEF EFURLCopyPath, Unmade
<1> QED  BY <1>1 DEF URLExists

\* The path of a URL that is left alone.
LEMMA SamePath ==
  ASSUME NEW u, type'[u] = type[u], pathComponents'[u] = pathComponents[u]
  PROVE  EFURLCopyPath(u)' = EFURLCopyPath(u) /\ URLExists(u)' = URLExists(u)
BY DEF EFURLCopyPath, URLExists

LEMMA InitURLInv == InitURL => URLInv
<1> SUFFICES ASSUME InitURL PROVE URLInv
  OBVIOUS
<1> USE DEF InitURL
<1>1. URLType
  BY NoNames DEF URLType, Idle, Nothing
<1>2. \A u \in Url : Owned(u) = {}
  BY DEF Owned
<1>3. \A u \in Url : OwnedInv(u)
  BY <1>2 DEF OwnedInv
<1>4. \A t \in Thread : GetPathInv(t) /\ GotInv(t)
  BY DEF GetPathInv, GotInv, Idle, Nothing
<1> QED  BY <1>1, <1>3, <1>4 DEF URLInv

\* Every creation is the creation of one URL that did not exist.
Creation == \E u \in Url, k \in Kinds, names \in Lists : NewURL(u, k, names)

LEMMA NamesType ==
  /\ \A k \in Kinds : \A bytes \in Strings[k] : bytes \in Seq(Char) /\ Parse(bytes) \in Lists
  /\ \A path \in Resolved : path \in Seq(Char) /\ Parse(path) \in Lists
  /\ \A name \in Names : name \in Seq(Char)
<1>1. \A t \in Seq(STRING) : t \in Seq(Char)
  BY SeqMonotonic DEF Char
<1>2. Slash \in Char
  BY DEF Char
<1>3. \A t \in Seq(Char) : Parse(t) \in Lists
  BY <1>2, ParseNames DEF Lists
<1> HIDE DEF Char
<1> QED  BY <1>1, <1>3, URLAssumption

LEMMA CreationIsNew ==
  ASSUME URLType, NEW u \in Url, NEW n \in Url, NEW name \in Seq(Char),
         \/ EFURLCreateWithString(u)
         \/ EFURLCreateByDeletingLastPathComponent(u, n)
         \/ EFURLCreateByAppendingPathComponent(u, n, name)
         \/ EFURLCreateByReplacingLastPathComponent(u, n, name)
  PROVE  Creation
<1>1. CASE EFURLCreateWithString(u)
  <2>1. "POSIX" \in Kinds
    BY DEF Kinds
  <2>2. ASSUME NEW k \in Kinds, NEW bytes \in Strings[k], CreateHTTP(u, k, bytes) PROVE Creation
    BY <2>2, NamesType DEF CreateHTTP, Creation
  <2>3. ASSUME NEW bytes, Parse(bytes) \in Lists, CreateResolved(u, bytes) \/ CreateUnresolved(u, bytes)
        PROVE  Creation
    BY <2>1, <2>3 DEF CreateResolved, CreateUnresolved, Creation
  <2>4. ASSUME NEW bytes \in Strings["POSIX"], NEW cwd \in Resolved, CreateRelative(u, bytes, cwd) PROVE Creation
    <3>1. bytes \in Seq(Char) /\ cwd \in Seq(Char) /\ Slash \in Char
      BY <2>1, NamesType DEF Char
    <3>2. PICK x \in Seq(Seq(Char)), y \in Seq(Seq(Char)) :
              x = Components(cwd, <<Slash>>) /\ y = Components(bytes, <<Slash>>)
      BY <3>1, NamesOfBoth DEF AtSlashes
    <3>3. x \o y \in Lists
      BY ConcatProperties DEF Lists
    <3> QED  BY <2>1, <2>4, <3>2, <3>3 DEF CreateRelative, Creation
  <2> QED  BY <1>1, <2>1, <2>2, <2>3, <2>4, NamesType DEF EFURLCreateWithString
<1>2. URLExists(u) => type[u] \in Kinds
  BY DEF URLType, URLExists
<1>3. PICK names \in Seq(Seq(Char)) : names = pathComponents[u]
  BY DEF URLType, Lists
<1>4. Append(names, name) \in Lists /\ WithoutLast(names) \in Lists
  <2>1. Append(names, name) \in Lists
    BY AppendProperties DEF Lists
  <2>2. CASE names = <<>>
    BY <2>1, <2>2 DEF WithoutLast, Lists
  <2>3. CASE names # <<>>
    <3>1. PICK n1 \in Nat : n1 = Len(names) - 1 /\ n1 <= Len(names)
      <4>1. Len(names) \in Nat /\ Len(names) # 0
        BY <2>3, EmptySeq, LenProperties
      <4>2. Len(names) - 1 \in Nat /\ Len(names) - 1 <= Len(names)
        BY <4>1
      <4> QED  BY <4>2
    <3>2. \A i \in 1..n1 : names[i] \in Seq(Char)
      <4>1. \A i \in 1..n1 : i \in 1..Len(names)
        BY <3>1, LenProperties
      <4> QED  BY <4>1, ElementOfSeq
    <3>3. SubSeq(names, 1, n1) \in Seq(Seq(Char))
      BY <3>2, SubSeqProperties
    <3> QED  BY <2>1, <2>3, <3>1, <3>3 DEF WithoutLast, Front, Lists
  <2> QED  BY <2>2, <2>3
<1>5. CASE EFURLCreateByDeletingLastPathComponent(u, n)
  BY <1>2, <1>3, <1>4, <1>5 DEF EFURLCreateByDeletingLastPathComponent, Creation
<1>6. CASE EFURLCreateByAppendingPathComponent(u, n, name)
  BY <1>2, <1>3, <1>4, <1>6 DEF EFURLCreateByAppendingPathComponent, Creation
<1>7. CASE EFURLCreateByReplacingLastPathComponent(u, n, name)
  <2>1. PICK front \in Seq(Seq(Char)) : front = WithoutLast(names)
    BY <1>4 DEF Lists
  <2>2. Append(front, name) \in Lists
    BY AppendProperties DEF Lists
  <2> QED  BY <1>2, <1>3, <1>7, <2>1, <2>2 DEF EFURLCreateByReplacingLastPathComponent, Creation
<1> QED  BY <1>1, <1>5, <1>6, <1>7

\* A new URL has no strings, and nobody is in a call on it.
LEMMA CreationInv == URLInv /\ Creation => URLInv'
<1> SUFFICES ASSUME URLInv, NEW u \in Url, NEW k \in Kinds, NEW names \in Lists,
                    NewURL(u, k, names)
             PROVE  URLInv'
  BY DEF Creation
<1>1. /\ ~URLExists(u) /\ type' = [type EXCEPT ![u] = k]
      /\ pathComponents' = [pathComponents EXCEPT ![u] = names]
      /\ UNCHANGED <<pathString, contents, call, got, lost>>
  BY DEF NewURL
<1>2. URLType /\ URLType'
  BY <1>1 DEF URLInv, URLType
<1>3. \A v \in Url \ {u} : type'[v] = type[v] /\ pathComponents'[v] = pathComponents[v]
  BY <1>1, <1>2 DEF URLType
<1>4. \A v \in Url \ {u} : EFURLCopyPath(v)' = EFURLCopyPath(v) /\ URLExists(v)' = URLExists(v)
  BY <1>3, SamePath
<1>5. \A v : Owned(v)' = Owned(v)
  BY <1>1 DEF Owned
<1>6. Owned(u) = {}
  BY <1>1 DEF URLInv, OwnedInv
<1>7. ASSUME NEW v \in Url PROVE OwnedInv(v)'
  <2>1. OwnedInv(v)
    BY DEF URLInv
  <2> QED  BY <1>1, <1>4, <1>5, <1>6, <2>1 DEF OwnedInv
<1>8. ASSUME NEW t \in Thread PROVE GetPathInv(t)'
  <2>1. GetPathInv(t) /\ call' = call
    BY <1>1 DEF URLInv
  <2>2. call[t] # Idle => call[t].url \in Url \ {u}
    BY <1>1, <2>1 DEF GetPathInv
  <2>3. call[t].str # None => call[t] # Idle
    BY DEF Idle
  <2> QED  BY <1>1, <1>4, <1>5, <2>1, <2>2, <2>3 DEF GetPathInv
<1>9. ASSUME NEW t \in Thread PROVE GotInv(t)'
  <2>1. GotInv(t) /\ got' = got
    BY <1>1 DEF URLInv
  <2> QED  BY <1>5, <2>1 DEF GotInv
<1> QED  BY <1>2, <1>7, <1>8, <1>9 DEF URLInv

\* The strings of a URL go with it, and those borrowed are no longer used.
LEMMA DeinitInv ==
  ASSUME URLInv, NEW u \in Url, EFURLDeinit(u)
  PROVE  URLInv'
<1>1. URLType /\ URLExists(u) /\ \A t \in Thread : call[t].url # u
  BY DEF EFURLDeinit, Unused, URLInv
<1>2. /\ type' = [type EXCEPT ![u] = None]
      /\ pathComponents' = [pathComponents EXCEPT ![u] = <<>>]
      /\ pathString' = [pathString EXCEPT ![u] = None]
      /\ got' = [t \in Thread |-> IF got[t].url = u THEN Nothing ELSE got[t]]
      /\ lost' = [lost EXCEPT ![u] = {}] /\ call' = call
  BY DEF EFURLDeinit, Gone
<1>3. contents' = [p \in PathStr |-> IF p \in lost[u] \cup {pathString[u]} THEN Unmade ELSE contents[p]]
  BY DEF EFURLDeinit
<1>4. URLType'
  <2>1. \A t \in Thread : got'[t] \in [url : Url \cup {None}, str : PathStr \cup {None}]
    BY <1>1, <1>2 DEF URLType, Nothing
  <2>2. got' \in [Thread -> [url : Url \cup {None}, str : PathStr \cup {None}]]
    BY <1>2, <2>1
  <2> QED  BY <1>1, <1>2, <1>3, <2>2, NoNames DEF URLType
<1>5. \A v \in Url \ {u} : /\ type'[v] = type[v] /\ pathComponents'[v] = pathComponents[v]
                           /\ pathString'[v] = pathString[v] /\ lost'[v] = lost[v]
  BY <1>1, <1>2 DEF URLType
<1>6. \A v \in Url \ {u} : EFURLCopyPath(v)' = EFURLCopyPath(v) /\ URLExists(v)' = URLExists(v)
  BY <1>5, SamePath
<1>7. /\ \A v \in Url \ {u} : Owned(v)' = Owned(v)
      /\ Owned(u)' = {}
  BY <1>1, <1>2, <1>5 DEF Owned, URLType
<1>8. \A p \in PathStr \ Owned(u) : contents'[p] = contents[p]
  BY <1>3, KindsNotNone DEF Owned
<1>9. \A v \in Url : Owned(v) \subseteq PathStr
  BY <1>1 DEF Owned, URLType
<1>10. ASSUME NEW v \in Url PROVE OwnedInv(v)'
  <2>1. CASE v = u
    BY <1>7, <2>1 DEF OwnedInv
  <2>2. CASE v # u
    <3>1. OwnedInv(v) /\ OwnedInv(u)
      BY DEF URLInv
    <3>2. \A p \in Owned(v) : p \in PathStr \ Owned(u)
      BY <1>9, <2>2, <3>1 DEF OwnedInv
    <3> QED  BY <1>6, <1>7, <1>8, <2>2, <3>1, <3>2 DEF OwnedInv
  <2> QED  BY <2>1, <2>2
<1>11. ASSUME NEW t \in Thread PROVE GetPathInv(t)'
  <2>1. GetPathInv(t) /\ call[t].url # u /\ call[t].str \in PathStr \cup {None}
    BY <1>1 DEF URLInv, URLType
  <2>2. call[t].str # None => call[t] # Idle
    BY DEF Idle
  <2>3. call[t].str # None => contents'[call[t].str] = contents[call[t].str]
    BY <1>8, <2>1 DEF GetPathInv
  <2> QED  BY <1>2, <1>6, <1>7, <2>1, <2>2, <2>3 DEF GetPathInv
<1>12. ASSUME NEW t \in Thread PROVE GotInv(t)'
  <2>1. GotInv(t)
    BY DEF URLInv
  <2>2. CASE got[t].url = u
    BY <1>2, <2>2 DEF GotInv, Nothing
  <2>3. CASE got[t].url # u
    BY <1>2, <1>7, <2>1, <2>3 DEF GotInv
  <2> QED  BY <2>2, <2>3
<1> QED  BY <1>4, <1>10, <1>11, <1>12 DEF URLInv

\* Go moves one call.
LEMMA GoStores ==
  ASSUME URLType, NEW t \in Thread, NEW pc, NEW u, NEW p, Go(t, pc, u, p)
  PROVE  /\ call'[t] = [pc |-> pc, url |-> u, str |-> p]
         /\ \A s \in Thread \ {t} : call'[s] = call[s]
BY DEF Go, URLType

\* Steps that leave the URLs and their strings alone move one call.
LEMMA MoveInv ==
  ASSUME URLInv, NEW t \in Thread, NEW c,
         c \in [pc : {"idle", "copy", "store", "return"}, url : Url \cup {None}, str : {None}],
         c = Idle \/ (c.pc # "idle" /\ c.url \in Url /\ URLExists(c.url)),
         call' = [call EXCEPT ![t] = c],
         UNCHANGED <<type, pathComponents, pathString, contents, lost>>,
         \/ got' = got
         \/ /\ call[t].url \in Url
            /\ got' = [got EXCEPT ![t] = [url |-> call[t].url, str |-> pathString[call[t].url]]]
  PROVE  URLInv'
<1>1. URLType
  BY DEF URLInv
<1>2. URLType'
  <2>1. call[t].url \in Url => pathString[call[t].url] \in PathStr \cup {None}
    BY <1>1 DEF URLType
  <2>2. got' \in [Thread -> [url : Url \cup {None}, str : PathStr \cup {None}]]
    BY <1>1, <2>1 DEF URLType
  <2>3. call' \in [Thread -> [pc : {"idle", "copy", "store", "return"},
                                   url : Url \cup {None}, str : PathStr \cup {None}]]
    BY <1>1 DEF URLType
  <2> QED  BY <1>1, <2>2, <2>3 DEF URLType
<1>3. \A u : /\ EFURLCopyPath(u)' = EFURLCopyPath(u) /\ URLExists(u)' = URLExists(u)
             /\ Owned(u)' = Owned(u)
  BY SamePath DEF Owned
<1>4. \A u \in Url : OwnedInv(u)'
  BY <1>3 DEF OwnedInv, URLInv
<1>5. call'[t] = c /\ c.str = None /\ \A s \in Thread \ {t} : call'[s] = call[s]
  BY <1>1 DEF URLType
<1>6. ASSUME NEW s \in Thread PROVE GetPathInv(s)'
  <2>1. CASE s = t
    BY <1>3, <1>5, <2>1 DEF GetPathInv
  <2>2. CASE s # t
    <3>1. GetPathInv(s) /\ call'[s] = call[s]
      BY <1>5, <2>2 DEF URLInv
    <3>2. call[s].str # None => \A r \in Thread \ {s} : call'[r].str # call[s].str
      BY <1>5, <3>1 DEF GetPathInv
    <3> QED  BY <1>3, <3>1, <3>2 DEF GetPathInv
  <2> QED  BY <2>1, <2>2
<1>7. ASSUME NEW s \in Thread PROVE GotInv(s)'
  <2>1. GotInv(s)
    BY DEF URLInv
  <2>2. CASE got'[s] = got[s]
    BY <1>3, <2>1, <2>2 DEF GotInv
  <2>3. CASE got'[s] # got[s]
    <3>1. call[t].url \in Url /\ got'[s] = [url |-> call[t].url, str |-> pathString[call[t].url]]
      BY <1>1, <2>3 DEF URLType
    <3> QED  BY <1>3, <3>1 DEF GotInv, Owned
  <2> QED  BY <2>2, <2>3
<1> QED  BY <1>2, <1>4, <1>6, <1>7 DEF URLInv

\* A string that is made was nobody's: it did not exist.
LEMMA CopyInv ==
  ASSUME URLInv, NEW t \in Thread, NEW p \in PathStr, GetPathCopy(t, p)
  PROVE  URLInv'
<1> DEFINE u == call[t].url
<1>1. /\ call[t].pc = "copy" /\ contents[p] = Unmade
      /\ contents' = [contents EXCEPT ![p] = EFURLCopyPath(u)]
      /\ Go(t, "store", u, p)
      /\ UNCHANGED <<type, pathComponents, pathString, got, lost>>
  BY DEF GetPathCopy
<1>2. URLType /\ GetPathInv(t) /\ u \in Url /\ URLExists(u)
  BY <1>1 DEF URLInv, GetPathInv, Idle
<1>3. URLType'
  BY <1>1, <1>2 DEF URLType, Go
<1>4. /\ call'[t] = [pc |-> "store", url |-> u, str |-> p]
      /\ \A s \in Thread \ {t} : call'[s] = call[s]
  BY <1>1, <1>2, GoStores
<1>5. \A v : /\ EFURLCopyPath(v)' = EFURLCopyPath(v) /\ URLExists(v)' = URLExists(v)
             /\ Owned(v)' = Owned(v)
  BY <1>1, SamePath DEF Owned
<1>6. contents'[p] = EFURLCopyPath(u) /\ \A q \in PathStr \ {p} : contents'[q] = contents[q]
  BY <1>1, <1>2 DEF URLType
<1>7. \A v \in Url : URLExists(v) => EFURLCopyPath(v) # Unmade
  BY <1>2, MadePath
<1>8. \A v \in Url : p \notin Owned(v) /\ Owned(v) \subseteq PathStr
  BY <1>1, <1>2, <1>7 DEF URLInv, OwnedInv, Owned, URLType
<1>9. \A s \in Thread : call[s].str # p
  BY <1>1, <1>2, <1>7, KindsNotNone DEF URLInv, GetPathInv, Idle
<1>10. ASSUME NEW v \in Url PROVE OwnedInv(v)'
  <2>1. OwnedInv(v)
    BY DEF URLInv
  <2> QED  BY <1>5, <1>6, <1>8, <2>1 DEF OwnedInv
<1>11. ASSUME NEW s \in Thread PROVE GetPathInv(s)'
  <2>1. CASE s = t
    <3>1. \A r \in Thread \ {s} : call'[r].str # p
      BY <1>4, <1>9, <2>1
    <3> QED  BY <1>2, <1>4, <1>5, <1>6, <1>8, <2>1, <3>1 DEF GetPathInv
  <2>2. CASE s # t
    <3>1. GetPathInv(s) /\ call'[s] = call[s] /\ call[s].str \in PathStr \cup {None}
      BY <1>2, <1>4, <2>2 DEF URLInv, URLType
    <3>2. call[s].str # None =>
             /\ \A r \in Thread \ {s} : call'[r].str # call[s].str
             /\ contents'[call[s].str] = contents[call[s].str]
      BY <1>4, <1>6, <1>9, <3>1 DEF GetPathInv
    <3> QED  BY <1>5, <3>1, <3>2 DEF GetPathInv
  <2> QED  BY <2>1, <2>2
<1>12. ASSUME NEW s \in Thread PROVE GotInv(s)'
  BY <1>1, <1>5 DEF URLInv, GotInv
<1> QED  BY <1>3, <1>10, <1>11, <1>12 DEF URLInv

\* A store takes the string of the call over and loses the one before.
LEMMA StoreInv ==
  ASSUME URLInv, NEW t \in Thread, GetPathStore(t)
  PROVE  URLInv'
<1>0. PICK u, str : u = call[t].url /\ str = call[t].str
  OBVIOUS
<1>1. /\ call[t].pc = "store"
      /\ lost' = [lost EXCEPT ![u] = lost[u] \cup ({pathString[u]} \ {None})]
      /\ pathString' = [pathString EXCEPT ![u] = str]
      /\ Go(t, "return", u, None)
      /\ UNCHANGED <<type, pathComponents, contents, got>>
  BY <1>0 DEF GetPathStore
<1>2. URLType /\ GetPathInv(t) /\ u \in Url /\ URLExists(u) /\ str \in PathStr \cup {None}
  BY <1>0, <1>1 DEF URLInv, GetPathInv, Idle, URLType
<1>3. URLType'
  BY <1>1, <1>2 DEF URLType, Go
<1>4. /\ call'[t] = [pc |-> "return", url |-> u, str |-> None]
      /\ \A s \in Thread \ {t} : call'[s] = call[s]
  BY <1>1, <1>2, GoStores
<1>5. \A v : EFURLCopyPath(v)' = EFURLCopyPath(v) /\ URLExists(v)' = URLExists(v)
  BY <1>1, SamePath
<1>6. /\ Owned(u)' = Owned(u) \cup ({str} \ {None})
      /\ \A v \in Url \ {u} : Owned(v)' = Owned(v)
  BY <1>1, <1>2 DEF Owned, URLType
<1>7. str # None => /\ contents[str] = EFURLCopyPath(u)
                    /\ \A v \in Url : str \notin Owned(v)
                    /\ \A s \in Thread \ {t} : call[s].str # str
  BY <1>0, <1>2 DEF GetPathInv
<1>8. ASSUME NEW v \in Url PROVE OwnedInv(v)'
  <2>1. OwnedInv(v) /\ OwnedInv(u)
    BY <1>2 DEF URLInv
  <2>2. \A p \in Owned(v)' : URLExists(v)' /\ contents'[p] = EFURLCopyPath(v)'
    BY <1>1, <1>2, <1>5, <1>6, <1>7, <2>1 DEF OwnedInv
  <2>3. \A w \in Url \ {v} : Owned(v)' \cap Owned(w)' = {}
    BY <1>2, <1>6, <1>7, <2>1 DEF OwnedInv
  <2> QED  BY <2>2, <2>3 DEF OwnedInv
<1>9. ASSUME NEW s \in Thread PROVE GetPathInv(s)'
  <2>1. CASE s = t
    BY <1>2, <1>4, <1>5, <2>1 DEF GetPathInv
  <2>2. CASE s # t
    <3>1. GetPathInv(s) /\ call'[s] = call[s]
      BY <1>4, <2>2 DEF URLInv
    <3>2. call[s].str # None => /\ call[s].str # str
                                /\ \A r \in Thread \ {s} : call'[r].str # call[s].str
      BY <1>0, <1>4, <2>2, <3>1 DEF GetPathInv
    <3>3. call[s].str # None => \A v \in Url : call[s].str \notin Owned(v)'
      BY <1>6, <3>1, <3>2 DEF GetPathInv
    <3> QED  BY <1>1, <1>5, <3>1, <3>2, <3>3 DEF GetPathInv
  <2> QED  BY <2>1, <2>2
<1>10. ASSUME NEW s \in Thread PROVE GotInv(s)'
  <2>1. GotInv(s) /\ got' = got
    BY <1>1 DEF URLInv
  <2>2. \A v \in Url : Owned(v) \subseteq Owned(v)'
    BY <1>6
  <2> QED  BY <2>1, <2>2 DEF GotInv
<1> QED  BY <1>3, <1>8, <1>9, <1>10 DEF URLInv

LEMMA NextURLInv == URLInv /\ [URLNext]_urlVars => URLInv'
<1> SUFFICES ASSUME URLInv, [URLNext]_urlVars PROVE URLInv'
  OBVIOUS
<1>1. URLType /\ \A t \in Thread : GetPathInv(t)
  BY DEF URLInv
<1>2. CASE Creation
  BY <1>2, CreationInv
<1>3. ASSUME NEW u \in Url, EFURLDeinit(u) PROVE URLInv'
  BY <1>3, DeinitInv
<1>4. ASSUME NEW t \in Thread, NEW u \in Url, GetPath(t, u) PROVE URLInv'
  <2> DEFINE c == [pc |-> IF pathString[u] = None THEN "copy" ELSE "return", url |-> u, str |-> None]
  <2>1. /\ URLExists(u) /\ call' = [call EXCEPT ![t] = c]
        /\ UNCHANGED <<type, pathComponents, pathString, contents, got, lost>>
    BY <1>4 DEF GetPath, Go
  <2>2. c \in [pc : {"idle", "copy", "store", "return"}, url : Url \cup {None}, str : {None}]
    OBVIOUS
  <2>3. c.pc # "idle" /\ c.url = u
    OBVIOUS
  <2> HIDE DEF c
  <2> QED  BY <2>1, <2>2, <2>3, MoveInv
<1>5. ASSUME NEW t \in Thread, NEW p \in PathStr, GetPathCopy(t, p) PROVE URLInv'
  BY <1>5, CopyInv
<1>6. ASSUME NEW t \in Thread, GetPathCopyFails(t) PROVE URLInv'
  <2> DEFINE u == call[t].url
             c == [pc |-> "store", url |-> u, str |-> None]
  <2>1. /\ call' = [call EXCEPT ![t] = c] /\ call[t].pc = "copy"
        /\ UNCHANGED <<type, pathComponents, pathString, contents, got, lost>>
    BY <1>6 DEF GetPathCopyFails, Go
  <2>2. u \in Url /\ URLExists(u)
    BY <1>1, <2>1 DEF GetPathInv, Idle
  <2>3. /\ c \in [pc : {"idle", "copy", "store", "return"}, url : Url \cup {None}, str : {None}]
        /\ c.pc # "idle" /\ c.url = u
    BY <2>2
  <2> HIDE DEF c
  <2> QED  BY <2>1, <2>2, <2>3, MoveInv
<1>7. ASSUME NEW t \in Thread, GetPathStore(t) PROVE URLInv'
  BY <1>7, StoreInv
<1>8. ASSUME NEW t \in Thread, GetPathReturn(t) PROVE URLInv'
  <2> DEFINE c == [pc |-> "idle", url |-> None, str |-> None]
  <2>1. /\ call' = [call EXCEPT ![t] = c] /\ call[t].pc = "return"
        /\ got' = [got EXCEPT ![t] = [url |-> call[t].url, str |-> pathString[call[t].url]]]
        /\ UNCHANGED <<type, pathComponents, pathString, contents, lost>>
    BY <1>8 DEF GetPathReturn, Go
  <2>2. call[t].url \in Url
    BY <1>1, <2>1 DEF GetPathInv, Idle
  <2>3. /\ c \in [pc : {"idle", "copy", "store", "return"}, url : Url \cup {None}, str : {None}]
        /\ c = Idle
    BY DEF Idle
  <2> HIDE DEF c
  <2> QED  BY <2>1, <2>2, <2>3, MoveInv
<1>9. CASE UNCHANGED urlVars
  <2>1. /\ type' = type /\ pathComponents' = pathComponents /\ pathString' = pathString
        /\ contents' = contents /\ call' = call /\ got' = got /\ lost' = lost
    BY <1>9 DEF urlVars
  <2>2. \A u : /\ EFURLCopyPath(u)' = EFURLCopyPath(u) /\ URLExists(u)' = URLExists(u)
               /\ Owned(u)' = Owned(u)
    BY <2>1, SamePath DEF Owned
  <2>3. URLType'
    BY <1>1, <2>1 DEF URLType
  <2>4. \A u \in Url : OwnedInv(u)'
    BY <2>1, <2>2 DEF OwnedInv, URLInv
  <2>5. \A t \in Thread : GetPathInv(t)' /\ GotInv(t)'
    BY <2>1, <2>2 DEF GetPathInv, GotInv, URLInv
  <2> QED  BY <2>3, <2>4, <2>5 DEF URLInv
<1> QED
  <2>1. \A u, n \in Url : EFURLCreateWithString(u) \/ EFURLCreateByDeletingLastPathComponent(u, n) => URLInv'
    <3>1. <<>> \in Seq(Char)
      BY EmptySeq
    <3> QED  BY <1>1, <1>2, <3>1, CreationIsNew
  <2>2. ASSUME NEW u \in Url, NEW n \in Url, NEW name \in Names,
               \/ EFURLCreateByAppendingPathComponent(u, n, name)
               \/ EFURLCreateByReplacingLastPathComponent(u, n, name)
        PROVE  URLInv'
    <3>1. name \in Seq(Char)
      BY NamesType
    <3> QED  BY <1>1, <1>2, <2>2, <3>1, CreationIsNew
  <2> QED
    BY <1>3, <1>4, <1>5, <1>6, <1>7, <1>8, <1>9, <2>1, <2>2 DEF URLNext

\* What EFURLGetPath has returned stays the path of its URL as long as the URL
\* exists, for any number of URLs and of threads that make the string at the
\* same time: a string that is stored over is lost and not released, so that
\* every string ever handed out is one of Owned(u).
THEOREM BorrowedPaths == URLSpec => []BorrowedPathValid
<1>1. URLInv => BorrowedPathValid
  BY DEF URLInv, GotInv, OwnedInv, BorrowedPathValid
<1> QED  BY <1>1, InitURLInv, NextURLInv, PTL DEF URLSpec

\* The path of a URL, split again, gives the names it was joined from, for any
\* names: joined strings split into what the parts split into.
THEOREM PathsSplitAgain == URLSpec => []PathSplitsAgain
<1>1. ASSUME URLType PROVE PathSplitsAgain
  <2> SUFFICES ASSUME NEW u \in Url, URLExists(u)
               PROVE  LET bytes == EFURLCopyPath(u).bytes
                          names == pathComponents[u] IN
                      /\ type[u] = "POSIX" => Parses(bytes)
                      /\ Parses(bytes) =>
                            Parse(bytes) = FlattenSeq([i \in DOMAIN names |-> Components(names[i], <<Slash>>)])
                      /\ type[u] # "POSIX" /\ Len(names) > 1 =>
                            bytes = names[1] \o <<Slash>> \o EFURLCopyPathWithoutHostname(u)
    BY DEF PathSplitsAgain
  <2>1. PICK S : S = Char /\ Slash \in S
    <3>1. Slash \in Char
      BY DEF Char
    <3> QED  BY <3>1
  <2>2. PICK names \in Seq(Seq(S)) : names = pathComponents[u]
    BY <1>1, <2>1 DEF URLType, Lists
  <2>3. PICK j \in Seq(S) : j = Join(names) /\ AtSlashes(j) = FlattenSeq([i \in DOMAIN names |-> AtSlashes(names[i])])
    BY <2>1, JoinNames
  <2>4. PICK e \in Seq(S) : e = <<>> /\ AtSlashes(e) = <<>>
    BY <2>1, NamesOfNothing
  <2>5. PICK z \in Seq(S) : z = <<Slash>> /\ Len(z) = 1
    <3>1. <<Slash>> \in Seq(S) /\ Len(<<Slash>>) = 1
      BY <2>1
    <3> QED  BY <3>1
  <2>6. EFURLCopyPath(u).bytes = IF type[u] = "POSIX" THEN z \o j ELSE j
    <3>1. EFURLCopyPath(u).bytes = (IF type[u] = "POSIX" THEN <<Slash>> ELSE <<>>) \o Join(pathComponents[u])
      BY DEF EFURLCopyPath
    <3>2. <<>> \o j = j
      BY ConcatEmptySeq
    <3> QED  BY <2>2, <2>3, <2>5, <3>1, <3>2
  <2>7. z \o j = Both(e, j)
    <3>1. e \o z = z
      BY <2>4, ConcatEmptySeq
    <3> QED  BY <2>5, <3>1 DEF Both
  <2>8. AtSlashes(Both(e, j)) = AtSlashes(j) /\ Both(e, j) \in Seq(S)
    <3>1. AtSlashes(Both(e, j)) = AtSlashes(e) \o AtSlashes(j) /\ Both(e, j) \in Seq(S)
      BY <2>1, BothNames
    <3>2. PICK x \in Seq(Seq(S)) : x = AtSlashes(j)
      BY <2>1, NamesOfBoth
    <3>3. <<>> \o x = x
      BY ConcatEmptySeq
    <3> QED  BY <2>4, <3>1, <3>2, <3>3
  <2>9. PICK bytes \in Seq(S) : bytes = EFURLCopyPath(u).bytes /\ AtSlashes(bytes) = AtSlashes(j)
    BY <2>6, <2>7, <2>8
  <2>10. Parse(bytes) = AtSlashes(j)
    BY <2>1, <2>9, ParseNames
  <2>11. Parse(bytes) = FlattenSeq([i \in DOMAIN names |-> Components(names[i], <<Slash>>)])
    BY <2>3, <2>10 DEF AtSlashes
  <2>12. ASSUME type[u] = "POSIX" PROVE Parses(bytes)
    <3>1. bytes = z \o j /\ Len(z \o j) = Len(z) + Len(j)
      BY <2>6, <2>9, <2>12, ConcatProperties
    <3>2. CASE j = <<>>
      <4>1. z \o <<>> = z
        BY ConcatEmptySeq
      <4> QED  BY <2>5, <3>1, <3>2, <4>1 DEF Parses
    <3>3. CASE j # <<>>
      <4>1. Len(j) \in Nat /\ Len(j) # 0
        BY <3>3, EmptySeq, LenProperties
      <4>2. Len(<<Slash>>) < Len(bytes)
        BY <2>5, <3>1, <4>1
      <4> QED  BY <4>2 DEF Parses, Splits
    <3> QED  BY <3>2, <3>3
  <2>13. ASSUME type[u] # "POSIX", Len(names) > 1
         PROVE  bytes = names[1] \o <<Slash>> \o EFURLCopyPathWithoutHostname(u)
    <3>1. bytes = Join(names)
      BY <2>3, <2>6, <2>9, <2>13
    <3>2. Join(names) = Both(names[1], Join(Tail(names)))
      BY <2>1, <2>13, JoinTail
    <3>3. names # <<>>
      BY <2>13, EmptySeq
    <3>4. EFURLCopyPathWithoutHostname(u) = Join(Tail(names))
      BY <2>2, <3>3 DEF EFURLCopyPathWithoutHostname
    <3> QED  BY <3>1, <3>2, <3>4 DEF Both
  <2> QED  BY <2>2, <2>9, <2>11, <2>12, <2>13
<1>2. URLInv => URLType
  BY DEF URLInv
<1> QED  BY <1>1, <1>2, InitURLInv, NextURLInv, PTL DEF URLSpec
=============================================================================
