--------------------------- MODULE EFArrayProofs ----------------------------
(***************************************************************************)
(* Proofs about EFArray for any growth step, any capacities asked for and  *)
(* any values: how far a bulk append can run past the buffer, and that     *)
(* without it nothing does.  CallInv relates the reservation loop of       *)
(* EFArrayAppendValuesOfArray to the capacity it has obtained so far.      *)
(***************************************************************************)
EXTENDS EFArray, TLAPS, SequenceTheorems, FunctionTheorems, FiniteSetTheorems

CallInv ==
    call # Idle =>
        /\ call.kind # "append" =>
               /\ call.before = <<>> /\ call.remaining = 0
               /\ capacity[call.dst] >= 0 /\ Count(call.dst) <= capacity[call.dst]
        /\ call.kind = "append" =>
               /\ call.remaining <= Len(call.values)
               /\ call.count + call.remaining = Len(call.before) + Len(call.values)
               /\ call.remaining > 0 => call.index = 0
               /\ capacity[call.dst] >= call.count - Growth \/ capacity[call.dst] < 0
               /\ call.remaining < Len(call.values) => capacity[call.dst] >= 0

IInv == TypeOK /\ CallInv /\ PrefixStored /\ SlackBounded

(***************************************************************************)
(* Sequences                                                               *)
(***************************************************************************)

\* Two concatenations.
LEMMA ConcatTwice ==
  ASSUME NEW b \in Seq(Val), NEW c \in Seq(Val), NEW d \in Seq(Val)
  PROVE  /\ b \o c \in Seq(Val) /\ Len(b \o c) = Len(b) + Len(c)
         /\ (b \o c) \o d \in Seq(Val)
         /\ Len((b \o c) \o d) = Len(b) + Len(c) + Len(d)
         /\ (b \o c) \o d = b \o (c \o d)
<1>1. b \o c \in Seq(Val) /\ Len(b \o c) = Len(b) + Len(c)
  BY ConcatProperties
<1>2. PICK e \in Seq(Val) : e = b \o c
  BY <1>1
<1>3. e \o d \in Seq(Val) /\ Len(e \o d) = Len(e) + Len(d)
  BY ConcatProperties
<1>4. (b \o c) \o d = b \o (c \o d)
  BY ConcatAssociative, SMTT(60)
<1> QED  BY <1>1, <1>2, <1>3, <1>4

\* Inserting adds one value, and the result is a sequence of values.
LEMMA InsertAtProperties ==
  ASSUME NEW s \in Seq(Val), NEW i \in 0..Len(s), NEW v \in Val
  PROVE  InsertAt(s, i, v) \in Seq(Val) /\ Len(InsertAt(s, i, v)) = Len(s) + 1
<1>1. Len(s) \in Nat /\ \A j \in 1..Len(s) : s[j] \in Val
  BY LenProperties, ElementOfSeq
<1>2. SubSeq(s, 1, i) \in Seq(Val) /\ Len(SubSeq(s, 1, i)) = i
  BY <1>1, SubSeqProperties
<1>3. SubSeq(s, i + 1, Len(s)) \in Seq(Val) /\ Len(SubSeq(s, i + 1, Len(s))) = Len(s) - i
  BY <1>1, SubSeqProperties
<1>4. <<v>> \in Seq(Val) /\ Len(<<v>>) = 1
  OBVIOUS
<1>5. PICK b \in Seq(Val), c \in Seq(Val), d \in Seq(Val) :
          b = SubSeq(s, 1, i) /\ c = <<v>> /\ d = SubSeq(s, i + 1, Len(s))
  BY <1>2, <1>3, <1>4
<1>6. (b \o c) \o d \in Seq(Val) /\ Len((b \o c) \o d) = Len(b) + Len(c) + Len(d)
  BY ConcatTwice
<1>7. InsertAt(s, i, v) = (b \o c) \o d
  BY <1>5 DEF InsertAt
<1>8. Len(b) = i /\ Len(c) = 1 /\ Len(d) = Len(s) - i
  BY <1>2, <1>3, <1>4, <1>5
<1>9. i + 1 + (Len(s) - i) = Len(s) + 1
  BY <1>1
<1> QED  BY <1>6, <1>7, <1>8, <1>9

\* Removing a range leaves a sequence that is shorter by its length.
LEMMA RemoveAtProperties ==
  ASSUME NEW s \in Seq(Val), NEW i \in 0..Len(s), NEW n \in 0..Len(s) - i
  PROVE  RemoveAt(s, i, n) \in Seq(Val) /\ Len(RemoveAt(s, i, n)) = Len(s) - n
<1>1. Len(s) \in Nat /\ \A j \in 1..Len(s) : s[j] \in Val
  BY LenProperties, ElementOfSeq
<1>2. SubSeq(s, 1, i) \in Seq(Val) /\ Len(SubSeq(s, 1, i)) = i
  BY <1>1, SubSeqProperties
<1>3. /\ SubSeq(s, i + n + 1, Len(s)) \in Seq(Val)
      /\ Len(SubSeq(s, i + n + 1, Len(s))) = Len(s) - i - n
  BY <1>1, SubSeqProperties
<1>4. PICK b \in Seq(Val), d \in Seq(Val) :
          b = SubSeq(s, 1, i) /\ d = SubSeq(s, i + n + 1, Len(s))
  BY <1>2, <1>3
<1>5. b \o d \in Seq(Val) /\ Len(b \o d) = Len(b) + Len(d)
  BY ConcatProperties
<1>6. RemoveAt(s, i, n) = b \o d
  BY <1>4 DEF RemoveAt
<1>7. Len(b) = i /\ Len(d) = Len(s) - i - n
  BY <1>2, <1>3, <1>4
<1>8. i + (Len(s) - i - n) = Len(s) - n
  BY <1>1
<1> QED  BY <1>5, <1>6, <1>7, <1>8

\* One more value of s after its first i.
LEMMA PrefixAppend ==
  ASSUME NEW b \in Seq(Val), NEW s \in Seq(Val), NEW i \in 0..Len(s) - 1
  PROVE  /\ s[i + 1] \in Val
         /\ Append(b \o SubSeq(s, 1, i), s[i + 1]) = b \o SubSeq(s, 1, i + 1)
         /\ Len(b \o SubSeq(s, 1, i)) = Len(b) + i
         /\ b \o SubSeq(s, 1, i) \in Seq(Val)
<1>1. Len(s) \in Nat /\ \A j \in 1..Len(s) : s[j] \in Val
  BY LenProperties, ElementOfSeq
<1>2. s[i + 1] \in Val
  BY <1>1
<1>3. SubSeq(s, 1, i) \in Seq(Val) /\ Len(SubSeq(s, 1, i)) = i
  BY <1>1, SubSeqProperties
<1>4. SubSeq(s, 1, i + 1) = SubSeq(s, 1, i) \o <<s[i + 1]>>
  <2>1. SubSeq(s, 1, i + 1) = SubSeq(s, 1, (i + 1) - 1) \o <<s[i + 1]>>
    BY <1>1, SubSeqRecursiveSecond
  <2>2. (i + 1) - 1 = i
    OBVIOUS
  <2> QED  BY <2>1, <2>2
<1>5. <<s[i + 1]>> \in Seq(Val)
  BY <1>2
<1>6. PICK c \in Seq(Val), d \in Seq(Val), v \in Val :
          c = SubSeq(s, 1, i) /\ d = <<v>> /\ v = s[i + 1]
  BY <1>2, <1>3, <1>5
<1>7. /\ b \o c \in Seq(Val) /\ Len(b \o c) = Len(b) + Len(c)
      /\ (b \o c) \o d = b \o (c \o d)
  <2>1. b \o c \in Seq(Val) /\ Len(b \o c) = Len(b) + Len(c)
    BY ConcatProperties
  <2>2. (b \o c) \o d = b \o (c \o d)
    BY ConcatAssociative, SMTT(60)
  <2> QED  BY <2>1, <2>2
<1>8. Append(b \o c, v) = (b \o c) \o <<v>>
  BY <1>7, AppendIsConcat
<1>9. SubSeq(s, 1, i + 1) = c \o d
  BY <1>4, <1>6
<1>10. Append(b \o c, v) = b \o SubSeq(s, 1, i + 1)
  BY <1>6, <1>7, <1>8, <1>9
<1> QED  BY <1>2, <1>3, <1>6, <1>7, <1>10

\* Releasing the values of a sequence keeps every balance an integer.
LEMMA ReleaseAllType ==
  ASSUME NEW a, NEW s \in Seq(Val), retained \in [Val -> Int], ReleaseAll(a, s)
  PROVE  retained' \in [Val -> Int]
<1>1. \A v \in Val : Copies(v, s) \in Nat
  <2> SUFFICES ASSUME NEW v \in Val PROVE Copies(v, s) \in Nat
    OBVIOUS
  <2>1. DOMAIN s = 1..Len(s) /\ Len(s) \in Nat
    BY LenProperties
  <2>2. IsFiniteSet(1..Len(s))
    BY <2>1, FS_Interval
  <2>3. IsFiniteSet({i \in DOMAIN s : s[i] = v})
    BY <2>1, <2>2, FS_Subset
  <2> QED  BY <2>3, FS_CardinalityType DEF Copies
<1> QED  BY <1>1 DEF ReleaseAll

\* The values given to EFArrayCreate are a sequence of values.
LEMMA ListsAreSequences == \A s \in Lists(MaxCount) : s \in Seq(Val)
<1> SUFFICES ASSUME NEW s \in Lists(MaxCount) PROVE s \in Seq(Val)
  OBVIOUS
<1>1. PICK m \in 0..MaxCount : s \in [1..m -> Val]
  BY DEF Lists
<1>2. m \in Nat
  BY <1>1, ArrayAssumption
<1> QED  BY <1>1, <1>2, SeqDef

(***************************************************************************)
(* The inductive invariant                                                 *)
(***************************************************************************)

\* Nothing exists at the start.
LEMMA InitIInv == Init => IInv
<1> SUFFICES ASSUME Init PROVE IInv
  OBVIOUS
<1>1. <<>> \in Seq(Val)
  BY EmptySeq
<1> QED
  BY <1>1 DEF Init, IInv, TypeOK, CallInv, PrefixStored, SlackBounded, Idle, Callbacks

\* Inserting or appending one value, for which the buffer has room or grows.
LEMMA InsertPreserves ==
  ASSUME IInv, NEW a \in Array, NEW i \in 0..MaxCount, NEW v \in Val,
         EFArrayInsertValueAtIndex(a, i, v)
  PROVE  IInv'
<1> USE ArrayAssumption DEF IInv
<1>1. items[a] \in Seq(Val) /\ Count(a) \in Nat /\ i \in 0..Len(items[a]) /\ exists[a]
  BY LenProperties DEF TypeOK, EFArrayInsertValueAtIndex, Count
<1>2. InsertAt(items[a], i, v) \in Seq(Val)
      /\ Len(InsertAt(items[a], i, v)) = Len(items[a]) + 1
  BY <1>1, InsertAtProperties
<1>3. items' = [items EXCEPT ![a] = InsertAt(items[a], i, v)] /\ call = Idle
      /\ UNCHANGED <<exists, isMutable, callbacks, call>>
  BY DEF EFArrayInsertValueAtIndex
<1>4. retained' \in [Val -> Int]
  BY DEF EFArrayInsertValueAtIndex, Retain, TypeOK
<1>5. capacity' \in [Array -> Int]
      /\ \A b \in Array \ {a} : capacity'[b] = capacity[b]
  BY DEF EFArrayInsertValueAtIndex, Resize, TypeOK
<1>6. capacity'[a] >= Count(a) + 1 - Growth /\ capacity'[a] >= 0
  <2>1. Resize(a, Count(a)) /\ capacity[a] \in Int /\ capacity'[a] \in Int
    BY <1>5 DEF EFArrayInsertValueAtIndex, TypeOK
  <2>2. capacity[a] < 0 => Count(a) = 0
    BY <1>1 DEF SlackBounded, Count
  <2>3. capacity[a] >= 0 => Count(a) <= capacity[a] + Growth
    BY <1>1, <2>1 DEF SlackBounded
  <2>4. \/ capacity[a] >= Count(a) + 1 /\ capacity'[a] = capacity[a]
        \/ capacity[a] + Growth >= 0 /\ capacity'[a] = capacity[a] + Growth
    BY <2>1 DEF Resize, TypeOK
  <2> QED  BY <1>1, <2>1, <2>2, <2>3, <2>4
<1>7. TypeOK'
  BY <1>2, <1>3, <1>4, <1>5 DEF TypeOK
<1>8. SlackBounded'
  <2> SUFFICES ASSUME NEW b \in Array, exists'[b]
               PROVE  IF capacity'[b] < 0 THEN items'[b] = <<>>
                                          ELSE Count(b)' <= capacity'[b] + Growth
    BY DEF SlackBounded
  <2>1. CASE b = a
    <3>1. items'[a] = InsertAt(items[a], i, v)
      BY <1>3 DEF TypeOK
    <3>2. Count(b)' = Count(a) + 1
      BY <1>2, <2>1, <3>1 DEF Count
    <3> QED  BY <1>1, <1>5, <1>6, <2>1, <3>2
  <2>2. CASE b # a
    <3>1. items'[b] = items[b] /\ exists[b]
      BY <1>3, <2>2 DEF TypeOK
    <3> QED  BY <1>5, <2>2, <3>1 DEF SlackBounded, Count
  <2> QED  BY <2>1, <2>2
<1> QED  BY <1>3, <1>7, <1>8 DEF CallInv, PrefixStored

\* A refused insertion at most grows the buffer.
LEMMA RefusedPreserves ==
  ASSUME IInv, NEW a \in Array, InsertRefused(a)
  PROVE  IInv'
<1> USE ArrayAssumption DEF IInv
<1>1. UNCHANGED <<exists, isMutable, callbacks, items, retained, call>> /\ call = Idle /\ exists[a]
  BY DEF InsertRefused
<1>2. items[a] \in Seq(Val) /\ Count(a) \in Nat
  BY LenProperties DEF TypeOK, Count
<1>3. capacity' \in [Array -> Int]
      /\ \A b \in Array \ {a} : capacity'[b] = capacity[b]
  BY DEF InsertRefused, Resize, TypeOK
<1>4. capacity'[a] >= Count(a) - Growth /\ capacity'[a] >= 0
  <2>1. Resize(a, Count(a)) /\ capacity[a] \in Int /\ capacity'[a] \in Int
    BY <1>3 DEF InsertRefused, TypeOK
  <2>2. capacity[a] < 0 => Count(a) = 0
    BY <1>1 DEF SlackBounded, Count
  <2>3. capacity[a] >= 0 => Count(a) <= capacity[a] + Growth
    BY <1>1, <2>1 DEF SlackBounded
  <2>4. \/ capacity[a] >= Count(a) + 1 /\ capacity'[a] = capacity[a]
        \/ capacity[a] + Growth >= 0 /\ capacity'[a] = capacity[a] + Growth
    BY <2>1 DEF Resize, TypeOK
  <2> QED  BY <1>2, <2>1, <2>2, <2>3, <2>4
<1>5. TypeOK'
  BY <1>1, <1>3 DEF TypeOK
<1>6. SlackBounded'
  <2> SUFFICES ASSUME NEW b \in Array, exists'[b]
               PROVE  IF capacity'[b] < 0 THEN items'[b] = <<>>
                                          ELSE Count(b)' <= capacity'[b] + Growth
    BY DEF SlackBounded
  <2>1. items'[b] = items[b] /\ exists[b] /\ Count(b)' = Count(b)
    BY <1>1 DEF Count
  <2>2. CASE b = a
    BY <1>2, <1>3, <1>4, <2>1, <2>2
  <2>3. CASE b # a
    BY <1>3, <2>1, <2>3 DEF SlackBounded
  <2> QED  BY <2>2, <2>3
<1> QED  BY <1>1, <1>5, <1>6 DEF CallInv, PrefixStored

\* A removal takes away a range inside the array, however long the range asked for.
LEMMA RemovesARange ==
  ASSUME TypeOK, NEW a \in Array, NEW i \in 0..MaxCount, NEW n \in 0..MaxCount,
         EFArrayRemoveValuesInRange(a, i, n)
  PROVE  \E m \in 0..Count(a) - i :
             /\ ReleaseAll(a, SubSeq(items[a], i + 1, i + m))
             /\ items' = [items EXCEPT ![a] = RemoveAt(items[a], i, m)]
<1>1. Count(a) \in Nat /\ i \in 0..Count(a) - 1 /\ n \in Nat
  BY ArrayAssumption, LenProperties DEF TypeOK, Count, EFArrayRemoveValuesInRange
<1>2. CASE n <= Count(a) - i
  <2>1. /\ ReleaseAll(a, SubSeq(items[a], i + 1, i + n))
        /\ items' = [items EXCEPT ![a] = RemoveAt(items[a], i, n)]
    BY <1>2 DEF EFArrayRemoveValuesInRange
  <2>2. n \in 0..Count(a) - i
    BY <1>1, <1>2
  <2> QED  BY <2>1, <2>2
<1>3. CASE ~(n <= Count(a) - i)
  <2>1. /\ ReleaseAll(a, SubSeq(items[a], i + 1, i + (Count(a) - i)))
        /\ items' = [items EXCEPT ![a] = RemoveAt(items[a], i, Count(a) - i)]
    BY <1>3 DEF EFArrayRemoveValuesInRange
  <2>2. Count(a) - i \in 0..Count(a) - i
    BY <1>1
  <2> QED  BY <2>1, <2>2
<1> QED  BY <1>2, <1>3

\* Removing a range makes an array shorter and leaves its buffer alone.
LEMMA RemovePreserves ==
  ASSUME IInv, NEW a \in Array, NEW i \in 0..MaxCount, NEW n \in 0..MaxCount,
         EFArrayRemoveValuesInRange(a, i, n)
  PROVE  IInv'
<1> USE ArrayAssumption DEF IInv
<1>1. items[a] \in Seq(Val) /\ Count(a) \in Nat /\ Count(a) = Len(items[a])
  BY LenProperties DEF TypeOK, Count
<1>2. exists[a] /\ call = Idle /\ UNCHANGED <<exists, isMutable, callbacks, capacity, call>>
      /\ i \in 0..Count(a) - 1
  BY DEF EFArrayRemoveValuesInRange
<1>3. PICK m \in 0..Count(a) - i :
          /\ ReleaseAll(a, SubSeq(items[a], i + 1, i + m))
          /\ items' = [items EXCEPT ![a] = RemoveAt(items[a], i, m)]
  BY RemovesARange
<1>4. RemoveAt(items[a], i, m) \in Seq(Val) /\ Len(RemoveAt(items[a], i, m)) = Count(a) - m
  <2>1. i \in 0..Len(items[a]) /\ m \in 0..Len(items[a]) - i
    BY <1>1, <1>2, <1>3
  <2> QED  BY <1>1, <2>1, RemoveAtProperties
<1>5. retained' \in [Val -> Int]
  <2>1. \A j \in 1..Len(items[a]) : items[a][j] \in Val
    BY <1>1, ElementOfSeq
  <2>2. SubSeq(items[a], i + 1, i + m) \in Seq(Val)
    BY <1>1, <1>2, <1>3, <2>1, SubSeqProperties
  <2> QED  BY <1>3, <2>2, ReleaseAllType DEF TypeOK
<1>6. TypeOK'
  BY <1>2, <1>3, <1>4, <1>5 DEF TypeOK
<1>7. SlackBounded'
  <2> SUFFICES ASSUME NEW b \in Array, exists'[b]
               PROVE  IF capacity'[b] < 0 THEN items'[b] = <<>>
                                          ELSE Count(b)' <= capacity'[b] + Growth
    BY DEF SlackBounded
  <2>1. capacity'[b] = capacity[b] /\ exists[b] /\ capacity[b] \in Int
    BY <1>2 DEF TypeOK
  <2>2. CASE b = a
    <3>1. items'[a] = RemoveAt(items[a], i, m)
      BY <1>3 DEF TypeOK
    <3>2. Count(a)' = Count(a) - m
      BY <1>4, <3>1 DEF Count
    <3>3. capacity[a] >= 0
      BY <1>1, <1>2, <2>1, <2>2 DEF SlackBounded
    <3>4. Count(a) <= capacity[a] + Growth
      BY <1>2, <2>1, <2>2, <3>3 DEF SlackBounded
    <3> QED  BY <1>1, <1>3, <2>1, <2>2, <3>2, <3>3, <3>4
  <2>3. CASE b # a
    <3>1. items'[b] = items[b]
      BY <1>3, <2>3 DEF TypeOK
    <3> QED  BY <2>1, <3>1 DEF SlackBounded, Count
  <2> QED  BY <2>2, <2>3
<1> QED  BY <1>2, <1>6, <1>7 DEF CallInv, PrefixStored

\* A new array is empty; it has the capacity asked for, whatever its sign.
LEMMA CreateMutablePreserves ==
  ASSUME IInv, NEW a \in Array, NEW k \in Callbacks, NEW c \in Capacities, EFArrayCreateMutable(a, k, c)
  PROVE  IInv'
<1> USE ArrayAssumption DEF IInv
<1>1. call = Idle /\ UNCHANGED <<retained, call>> /\ c \in Int
      /\ exists' = [exists EXCEPT ![a] = TRUE]
      /\ isMutable' = [isMutable EXCEPT ![a] = TRUE]
      /\ callbacks' \in [Array -> Callbacks]
      /\ capacity' = [capacity EXCEPT ![a] = c]
      /\ items' = [items EXCEPT ![a] = <<>>]
  BY DEF EFArrayCreateMutable, TypeOK, Callbacks
<1>2. <<>> \in Seq(Val) /\ Len(<<>>) = 0
  BY EmptySeq
<1>3. TypeOK'
  BY <1>1, <1>2 DEF TypeOK
<1>4. SlackBounded'
  BY <1>1, <1>2 DEF SlackBounded, Count, TypeOK
<1> QED  BY <1>1, <1>3, <1>4 DEF CallInv, PrefixStored

\* Destroying an array gives its values back.
LEMMA DestroyPreserves ==
  ASSUME IInv, NEW a \in Array, Destroy(a)
  PROVE  IInv'
<1> USE ArrayAssumption DEF IInv
<1>1. call = Idle /\ UNCHANGED call
      /\ exists' = [exists EXCEPT ![a] = FALSE]
      /\ isMutable' = [isMutable EXCEPT ![a] = FALSE]
      /\ callbacks' \in [Array -> Callbacks]
      /\ capacity' = [capacity EXCEPT ![a] = 0]
      /\ items' = [items EXCEPT ![a] = <<>>]
      /\ ReleaseAll(a, items[a]) /\ items[a] \in Seq(Val)
  BY DEF Destroy, TypeOK, Callbacks
<1>2. <<>> \in Seq(Val) /\ retained' \in [Val -> Int]
  BY <1>1, EmptySeq, ReleaseAllType DEF TypeOK
<1>3. TypeOK'
  BY <1>1, <1>2 DEF TypeOK
<1>4. SlackBounded'
  BY <1>1, <1>2 DEF SlackBounded, Count, TypeOK
<1> QED  BY <1>1, <1>3, <1>4 DEF CallInv, PrefixStored

\* A creating function starts with a buffer of the size it needs.
LEMMA BeginCreatePreserves ==
  ASSUME IInv, NEW a \in Array, NEW d \in {"create", "copy"}, NEW k \in Callbacks, NEW s \in Seq(Val),
         NEW m \in BOOLEAN, BeginCreate(a, d, k, s, m)
  PROVE  IInv'
<1> USE ArrayAssumption DEF IInv
<1>1. call = Idle /\ UNCHANGED retained /\ Len(s) \in Nat
      /\ exists' = [exists EXCEPT ![a] = TRUE]
      /\ isMutable' = [isMutable EXCEPT ![a] = TRUE]
      /\ callbacks' \in [Array -> Callbacks]
      /\ capacity' = [capacity EXCEPT ![a] = Len(s)]
      /\ items' = [items EXCEPT ![a] = <<>>]
      /\ call' = [kind |-> d, dst |-> a, values |-> s, before |-> <<>>,
                  index |-> 0, remaining |-> 0, count |-> 0, mutable |-> m]
  BY LenProperties DEF BeginCreate, TypeOK
<1>2. <<>> \in Seq(Val) /\ Len(<<>>) = 0
  BY EmptySeq
<1>3. TypeOK'
  <2>1. call' \in Call
    BY <1>1, <1>2 DEF Call
  <2>2. exists'[call'.dst] /\ isMutable'[call'.dst] /\ call'.index <= Len(call'.values)
    BY <1>1 DEF TypeOK
  <2> QED  BY <1>1, <1>2, <2>1, <2>2 DEF TypeOK
<1>4. SlackBounded'
  BY <1>1, <1>2 DEF SlackBounded, Count, TypeOK
<1>5. CallInv'
  BY <1>1, <1>2 DEF CallInv, Count, TypeOK
<1>6. PrefixStored'
  <2>1. SubSeq(s, 1, 0) = <<>> /\ <<>> \o <<>> = <<>>
    BY <1>2, SubSeqEmpty, ConcatEmptySeq
  <2> QED  BY <1>1, <2>1 DEF PrefixStored, TypeOK
<1> QED  BY <1>3, <1>4, <1>5, <1>6

\* EFArrayAppendValuesOfArray starts with nothing reserved and nothing stored.
LEMMA AppendBeginPreserves ==
  ASSUME IInv, NEW a \in Array, NEW b \in Array, EFArrayAppendValuesOfArray(a, b)
  PROVE  IInv'
<1> USE ArrayAssumption DEF IInv
<1>1. call = Idle /\ UNCHANGED <<exists, isMutable, callbacks, capacity, items, retained>>
      /\ exists[a] /\ isMutable[a]
      /\ call' = [kind |-> "append", dst |-> a, values |-> items[b], before |-> items[a],
                  index |-> 0, remaining |-> Count(b), count |-> Count(a), mutable |-> TRUE]
  BY DEF EFArrayAppendValuesOfArray
<1>2. items[a] \in Seq(Val) /\ items[b] \in Seq(Val) /\ Count(a) \in Nat /\ Count(b) \in Nat
  BY LenProperties DEF TypeOK, Count
<1>3. TypeOK'
  <2>1. call' \in Call
    BY <1>1, <1>2 DEF Call
  <2>2. exists'[call'.dst] /\ isMutable'[call'.dst] /\ call'.index <= Len(call'.values)
    BY <1>1, <1>2 DEF Count
  <2> QED  BY <1>1, <2>1, <2>2 DEF TypeOK
<1>4. SlackBounded'
  BY <1>1 DEF SlackBounded, Count
<1>5. CallInv'
  <2>1. capacity[a] >= Count(a) - Growth \/ capacity[a] < 0
    BY <1>1, <1>2 DEF SlackBounded, TypeOK
  <2> QED  BY <1>1, <1>2, <2>1 DEF CallInv, Count
<1>6. PrefixStored'
  <2>1. SubSeq(items[b], 1, 0) = <<>> /\ items[a] \o <<>> = items[a]
    BY <1>2, SubSeqEmpty, ConcatEmptySeq
  <2> QED  BY <1>1, <2>1 DEF PrefixStored
<1> QED  BY <1>3, <1>4, <1>5, <1>6

\* A round of the reservation loop: what is still to be reserved and the
\* pretended count move in step, and the buffer keeps up with the count.
LEMMA ReservePreserves ==
  ASSUME IInv, Reserve
  PROVE  IInv'
<1>1. call \in Call /\ call.kind = "append" /\ call.remaining > 0 /\ call # Idle
  BY DEF Reserve, Reserving, Appending, IInv, TypeOK, Idle
<1>2. /\ call.dst \in Array /\ call.values \in Seq(Val) /\ call.before \in Seq(Val)
      /\ call.index \in Nat /\ call.remaining \in Int /\ call.count \in Nat
      /\ call.mutable \in BOOLEAN
  BY <1>1 DEF Call
<1>t. /\ Len(call.before) \in Nat /\ Len(call.values) \in Nat /\ capacity[call.dst] \in Int
      /\ Growth \in Nat /\ Growth > 0
  BY <1>2, LenProperties, ArrayAssumption DEF IInv, TypeOK
<1>3. PICK a \in Array, n \in Nat, r \in Int, lb \in Nat, lv \in Nat, k \in Int, g \in Nat :
          /\ a = call.dst /\ n = call.count /\ r = call.remaining
          /\ lb = Len(call.before) /\ lv = Len(call.values)
          /\ k = capacity[call.dst] /\ g = Growth /\ g > 0
  BY <1>2, <1>t
<1>4. /\ UNCHANGED <<exists, isMutable, callbacks, items, retained>>
      /\ call' = [call EXCEPT !.remaining = r - g, !.count = n + g]
      /\ \/ k >= n + 1 /\ UNCHANGED capacity
         \/ k < n + 1 /\ k + g >= 0 /\ capacity' = [capacity EXCEPT ![a] = k + g]
  BY <1>3 DEF Reserve, Resize
<1>5. /\ call'.kind = "append" /\ call'.dst = a /\ call'.values = call.values
      /\ call'.before = call.before /\ call'.index = call.index
      /\ call'.remaining = r - g /\ call'.count = n + g /\ call'.mutable = call.mutable
      /\ call' \in Call
  <2>1. n + g \in Nat /\ r - g \in Int
    BY <1>3
  <2> QED  BY <1>1, <1>3, <1>4, <2>1 DEF Call
<1>6. call' # Idle
  BY <1>5 DEF Idle
<1>7. call.index = 0
  BY <1>1 DEF IInv, CallInv
<1>n. /\ r > 0 /\ r <= lv /\ n + r = lb + lv /\ g > 0
      /\ k >= n - g \/ k < 0
      /\ r < lv => k >= 0
  BY <1>1, <1>3 DEF IInv, CallInv
<1>8. exists[a] /\ items[a] = call.before /\ Count(a) = lb
  <2>1. SubSeq(call.values, 1, 0) = <<>>
    BY SubSeqEmpty
  <2>2. items[a] = call.before
    BY <1>1, <1>2, <1>3, <1>7, <2>1, ConcatEmptySeq DEF IInv, PrefixStored
  <2> QED  BY <1>1, <1>3, <2>2 DEF Count, IInv, TypeOK
<1>9. k < 0 => lb = 0
  <2>1. k < 0 => items[a] = <<>>
    BY <1>3, <1>8 DEF IInv, SlackBounded
  <2> QED  BY <1>3, <1>8, <2>1 DEF Count
<1>10. PICK l \in Int : capacity' = [capacity EXCEPT ![a] = l] /\ (l = k \/ l = k + g)
                        /\ (l = k => k >= n + 1) /\ (l = k + g /\ l # k => k < n + 1 /\ k + g >= 0)
  <2>1. CASE k >= n + 1 /\ UNCHANGED capacity
    <3>1. capacity' = [capacity EXCEPT ![a] = k]
      BY <1>3, <2>1 DEF IInv, TypeOK
    <3> QED  BY <1>3, <2>1, <3>1
  <2>2. CASE k < n + 1 /\ k + g >= 0 /\ capacity' = [capacity EXCEPT ![a] = k + g]
    <3>1. k + g \in Int /\ k + g # k
      BY <1>3
    <3> QED  BY <2>2, <3>1
  <2> QED  BY <1>4, <2>1, <2>2
<1>m. /\ l = k \/ l = k + g
      /\ l = k => k >= n + 1
      /\ l = k + g /\ l # k => k < n + 1 /\ k + g >= 0
  BY <1>10
<1>11. l >= n /\ l >= 0 /\ n >= lb
  BY <1>n, <1>9, <1>m
<1>12. /\ capacity' \in [Array -> Int] /\ capacity'[a] = l
       /\ \A b \in Array \ {a} : capacity'[b] = capacity[b]
  BY <1>10 DEF IInv, TypeOK
<1>13. TypeOK'
  <2>1. exists'[call'.dst] /\ isMutable'[call'.dst] /\ call'.index <= Len(call'.values)
    BY <1>1, <1>3, <1>4, <1>5 DEF IInv, TypeOK
  <2> QED  BY <1>4, <1>5, <1>12, <2>1 DEF IInv, TypeOK
<1>14. CallInv'
  <2>1. l >= n + g - g
    BY <1>3, <1>11
  <2>2. r - g <= lv /\ n + g + (r - g) = lb + lv
    BY <1>n
  <2>3. Len(call'.before) = lb /\ Len(call'.values) = lv
    BY <1>3, <1>5
  <2>4. capacity'[call'.dst] = l
    BY <1>5, <1>12
  <2>5. /\ call'.remaining <= Len(call'.values)
        /\ call'.count + call'.remaining = Len(call'.before) + Len(call'.values)
    BY <1>5, <2>2, <2>3
  <2>6. capacity'[call'.dst] >= call'.count - Growth /\ capacity'[call'.dst] >= 0
    BY <1>3, <1>5, <1>11, <2>1, <2>4
  <2> QED  BY <1>5, <1>7, <2>5, <2>6 DEF CallInv
<1>15. PrefixStored'
  BY <1>1, <1>3, <1>4, <1>5 DEF IInv, PrefixStored
<1>16. SlackBounded'
  <2> SUFFICES ASSUME NEW b \in Array, exists'[b]
               PROVE  IF capacity'[b] < 0 THEN items'[b] = <<>>
                                          ELSE Count(b)' <= capacity'[b] + Growth
    BY DEF SlackBounded
  <2>1. items'[b] = items[b] /\ exists[b] /\ Count(b)' = Count(b)
    BY <1>4 DEF Count
  <2>2. CASE b = a
    BY <1>3, <1>8, <1>11, <1>12, <2>1, <2>2
  <2>3. CASE b # a
    BY <1>12, <2>1, <2>3 DEF IInv, SlackBounded
  <2> QED  BY <2>2, <2>3
<1> QED  BY <1>13, <1>14, <1>15, <1>16 DEF IInv

\* Storing the next value, inside the buffer or at most a growth step past it.
LEMMA StoreNextPreserves ==
  ASSUME IInv, StoreNext
  PROVE  IInv'
<1>1. call \in Call /\ call # Idle /\ call.index < Len(call.values)
  BY DEF StoreNext, Storing, Appending, IInv, TypeOK, Idle
<1>2. /\ call.dst \in Array /\ call.values \in Seq(Val) /\ call.before \in Seq(Val)
      /\ call.index \in Nat /\ call.remaining \in Int /\ call.count \in Nat
      /\ call.mutable \in BOOLEAN /\ call.kind \in {"create", "copy", "append"}
  BY <1>1 DEF Call
<1>t. /\ Len(call.before) \in Nat /\ Len(call.values) \in Nat /\ capacity[call.dst] \in Int
      /\ Growth \in Nat /\ Growth > 0
  BY <1>2, LenProperties, ArrayAssumption DEF IInv, TypeOK
<1>3. PICK a \in Array, n \in Nat, r \in Int, lb \in Nat, lv \in Nat, k \in Int, g \in Nat,
           i \in Nat :
          /\ a = call.dst /\ n = call.count /\ r = call.remaining
          /\ lb = Len(call.before) /\ lv = Len(call.values)
          /\ k = capacity[call.dst] /\ g = Growth /\ g > 0 /\ i = call.index
  BY <1>2, <1>t
<1>n. g > 0 /\ i < lv
  BY <1>1, <1>3
<1>4. i \in 0..Len(call.values) - 1
  BY <1>1, <1>3
<1>5. PICK v \in Val : v = call.values[i + 1]
  BY <1>2, <1>4, PrefixAppend
<1>6. /\ items[a] = call.before \o SubSeq(call.values, 1, i)
      /\ Append(items[a], v) = call.before \o SubSeq(call.values, 1, i + 1)
      /\ Len(items[a]) = lb + i
  <2>1. items[a] = call.before \o SubSeq(call.values, 1, i)
    BY <1>1, <1>3 DEF IInv, PrefixStored
  <2>2. /\ Append(call.before \o SubSeq(call.values, 1, i), call.values[i + 1])
               = call.before \o SubSeq(call.values, 1, i + 1)
        /\ Len(call.before \o SubSeq(call.values, 1, i)) = Len(call.before) + i
    BY <1>2, <1>4, PrefixAppend
  <2> QED  BY <1>3, <1>5, <2>1, <2>2
<1>7. /\ items[a] \in Seq(Val) /\ Append(items[a], v) \in Seq(Val)
      /\ Len(Append(items[a], v)) = lb + i + 1
  <2>1. items[a] \in Seq(Val)
    BY DEF IInv, TypeOK
  <2>2. Len(Append(items[a], v)) = Len(items[a]) + 1 /\ Append(items[a], v) \in Seq(Val)
    BY <2>1, AppendProperties
  <2> QED  BY <1>6, <2>1, <2>2
<1>8. /\ UNCHANGED <<exists, isMutable, callbacks>> /\ Retain(a, v)
      /\ items' = [items EXCEPT ![a] = Append(items[a], v)]
      /\ call' = [call EXCEPT !.index = i + 1]
      /\ call.kind = "append" => ~(r > 0) /\ UNCHANGED capacity
      /\ call.kind # "append" => Resize(a, Len(items[a]))
  BY <1>1, <1>3, <1>5 DEF StoreNext, Storing, Appending, Reserving, Appending, Count
<1>9. /\ call'.kind = call.kind /\ call'.dst = a /\ call'.values = call.values
      /\ call'.before = call.before /\ call'.index = i + 1
      /\ call'.remaining = r /\ call'.count = n /\ call'.mutable = call.mutable
      /\ call' \in Call
  <2>1. i + 1 \in Nat
    BY <1>3
  <2> QED  BY <1>1, <1>2, <1>3, <1>8, <2>1 DEF Call
<1>10. call' # Idle
  BY <1>2, <1>9 DEF Idle
<1>11. items'[a] = Append(items[a], v) /\ \A b \in Array \ {a} : items'[b] = items[b]
  BY <1>8 DEF IInv, TypeOK
<1>12. PICK l \in Int : /\ capacity' = [capacity EXCEPT ![a] = l]
                        /\ l >= 0 /\ lb + i + 1 <= l + g
                        /\ call.kind # "append" => lb + i + 1 <= l
                        /\ call.kind = "append" => l = k
  <2>1. CASE call.kind # "append"
    <3>1. k >= 0 /\ lb + i <= k
      BY <1>1, <1>3, <1>6, <2>1 DEF IInv, CallInv, Count
    <3>2. \/ k >= lb + i + 1 /\ capacity' = capacity
          \/ capacity' = [capacity EXCEPT ![a] = k + g]
      BY <1>3, <1>6, <1>8, <2>1 DEF Resize
    <3>3. \/ capacity' = [capacity EXCEPT ![a] = k] /\ k >= lb + i + 1
          \/ capacity' = [capacity EXCEPT ![a] = k + g] /\ lb + i + 1 <= k + g
      <4>1. capacity = [capacity EXCEPT ![a] = k]
        BY <1>3 DEF IInv, TypeOK
      <4>2. lb + i + 1 <= k + g
        BY <1>n, <3>1
      <4> QED  BY <3>2, <4>1, <4>2
    <3>4. k + g \in Int /\ k + g >= 0
      BY <1>3, <3>1
    <3>5. lb + i + 1 <= k => lb + i + 1 <= k + g
      BY <1>n
    <3>6. lb + i + 1 <= k + g => lb + i + 1 <= k + g + g
      BY <1>n
    <3> QED  BY <1>3, <2>1, <3>1, <3>3, <3>4, <3>5, <3>6
  <2>2. CASE call.kind = "append"
    <3>1. n + r = lb + lv /\ (k >= n - g \/ k < 0) /\ (r < lv => k >= 0)
      BY <1>1, <1>3, <2>2 DEF IInv, CallInv
    <3>2. ~(r > 0)
      BY <1>8, <2>2
    <3>3. k >= 0 /\ lb + i + 1 <= k + g
      BY <1>n, <3>1, <3>2
    <3>4. capacity' = [capacity EXCEPT ![a] = k]
      BY <1>3, <1>8, <2>2 DEF IInv, TypeOK
    <3> QED  BY <1>3, <2>2, <3>3, <3>4
  <2> QED  BY <1>2, <2>1, <2>2
<1>13. /\ capacity' \in [Array -> Int] /\ capacity'[a] = l
       /\ \A b \in Array \ {a} : capacity'[b] = capacity[b]
  BY <1>12 DEF IInv, TypeOK
<1>14. TypeOK'
  <2>1. retained' \in [Val -> Int]
    BY <1>8 DEF Retain, IInv, TypeOK
  <2>2. items' \in [Array -> Seq(Val)]
    BY <1>7, <1>8 DEF IInv, TypeOK
  <2>3. i + 1 <= Len(call.values)
    BY <1>1, <1>3
  <2>4. exists'[call'.dst] /\ isMutable'[call'.dst] /\ call'.index <= Len(call'.values)
    BY <1>1, <1>3, <1>8, <1>9, <2>3 DEF IInv, TypeOK
  <2> QED  BY <1>8, <1>9, <1>13, <2>1, <2>2, <2>4 DEF IInv, TypeOK
<1>15. CallInv'
  <2>1. call'.kind # "append" => /\ call'.before = <<>> /\ call'.remaining = 0
                                /\ capacity'[call'.dst] >= 0
                                /\ Len(items'[call'.dst]) <= capacity'[call'.dst]
    <3>1. call.kind # "append" => call.before = <<>> /\ call.remaining = 0
      BY <1>1 DEF IInv, CallInv
    <3> QED  BY <1>3, <1>7, <1>9, <1>11, <1>12, <1>13, <3>1
  <2>2. call'.kind = "append" =>
          /\ call'.remaining <= Len(call'.values)
          /\ call'.count + call'.remaining = Len(call'.before) + Len(call'.values)
          /\ ~(call'.remaining > 0)
          /\ capacity'[call'.dst] >= call'.count - Growth \/ capacity'[call'.dst] < 0
          /\ call'.remaining < Len(call'.values) => capacity'[call'.dst] >= 0
    <3>1. call.kind = "append" =>
          /\ r <= lv /\ n + r = lb + lv /\ (k >= n - g \/ k < 0) /\ (r < lv => k >= 0)
      BY <1>1, <1>3 DEF IInv, CallInv
    <3>2. call.kind = "append" => ~(r > 0) /\ l = k
      BY <1>8, <1>12
    <3> QED  BY <1>3, <1>9, <1>13, <3>1, <3>2
  <2> QED  BY <2>1, <2>2 DEF CallInv, Count
<1>16. PrefixStored'
  BY <1>6, <1>9, <1>11 DEF PrefixStored
<1>17. SlackBounded'
  <2> SUFFICES ASSUME NEW b \in Array, exists'[b]
               PROVE  IF capacity'[b] < 0 THEN items'[b] = <<>>
                                          ELSE Count(b)' <= capacity'[b] + Growth
    BY DEF SlackBounded
  <2>1. CASE b = a
    <3>1. Len(items'[b]) = lb + i + 1 /\ capacity'[b] = l
      BY <1>7, <1>11, <1>13, <2>1
    <3> QED  BY <1>3, <1>12, <3>1 DEF Count
  <2>2. CASE b # a
    <3>1. items'[b] = items[b] /\ exists[b]
      BY <1>8, <1>11, <2>2
    <3> QED  BY <1>13, <2>2, <3>1 DEF IInv, SlackBounded, Count
  <2> QED  BY <2>1, <2>2
<1> QED  BY <1>14, <1>15, <1>16, <1>17 DEF IInv

\* A call that gives up, or returns, leaves the arrays as they are or drops
\* the array it was creating.
LEMMA EndPreserves ==
  ASSUME IInv, ReserveFails \/ StoreRefused \/ Return
  PROVE  IInv'
<1>1. call \in Call /\ call # Idle /\ call.dst \in Array
  <2>1. call # Idle
    BY DEF ReserveFails, StoreRefused, Return, Storing, Reserving, Appending, Idle
  <2> QED  BY <2>1 DEF IInv, TypeOK, Call
<1>2. call' = Idle
  BY DEF ReserveFails, StoreRefused, Return
<1>3. CallInv' /\ PrefixStored'
  BY <1>2 DEF CallInv, PrefixStored
<1>4. CASE UNCHANGED <<exists, callbacks, capacity, items, retained>>
           /\ isMutable' \in [Array -> BOOLEAN]
  <2>1. TypeOK'
    BY <1>2, <1>4 DEF IInv, TypeOK
  <2>2. SlackBounded'
    BY <1>4 DEF IInv, SlackBounded, Count
  <2> QED  BY <1>3, <2>1, <2>2 DEF IInv
<1>5. CASE ReserveFails \/ Return
  <2>1. UNCHANGED <<exists, callbacks, capacity, items, retained>>
    BY <1>5 DEF ReserveFails, Return
  <2>2. call.mutable \in BOOLEAN
    BY <1>1 DEF Call
  <2>3. isMutable' \in [Array -> BOOLEAN]
    BY <1>1, <1>5, <2>2 DEF ReserveFails, Return, IInv, TypeOK
  <2> QED  BY <1>4, <2>1, <2>3
<1>6. CASE StoreRefused
  <2>1. CASE call.kind = "append"
    <3>1. UNCHANGED <<exists, isMutable, callbacks, capacity, items, retained>>
      BY <1>6, <2>1 DEF StoreRefused, Appending
    <3> QED  BY <1>4, <3>1 DEF IInv, TypeOK
  <2>2. CASE call.kind # "append"
    <3>1. PICK a \in Array : a = call.dst
      BY <1>1
    <3>2. /\ exists' = [exists EXCEPT ![a] = FALSE]
          /\ isMutable' = [isMutable EXCEPT ![a] = FALSE]
          /\ callbacks' \in [Array -> Callbacks]
          /\ capacity' = [capacity EXCEPT ![a] = 0]
          /\ items' = [items EXCEPT ![a] = <<>>]
          /\ ReleaseAll(a, items[a]) /\ items[a] \in Seq(Val)
      BY <1>6, <2>2, <3>1 DEF StoreRefused, Appending, IInv, TypeOK, Callbacks
    <3>3. <<>> \in Seq(Val) /\ retained' \in [Val -> Int]
      BY <3>2, EmptySeq, ReleaseAllType DEF IInv, TypeOK
    <3>4. TypeOK'
      BY <1>2, <3>2, <3>3 DEF IInv, TypeOK
    <3>5. SlackBounded'
      BY <3>2 DEF IInv, SlackBounded, Count, TypeOK
    <3> QED  BY <1>3, <3>4, <3>5 DEF IInv
  <2>3. call.kind \in {"create", "copy", "append"}
    BY <1>1 DEF Call
  <2> QED  BY <2>1, <2>2, <2>3
<1> QED  BY <1>5, <1>6

\* Every step of the specification preserves the invariant.
LEMMA NextIInv == IInv /\ [Next]_vars => IInv'
<1> SUFFICES ASSUME IInv, [Next]_vars PROVE IInv'
  OBVIOUS
<1>1. CASE UNCHANGED vars
  <2>1. TypeOK'
    BY <1>1 DEF vars, IInv, TypeOK
  <2>2. CallInv'
    BY <1>1 DEF vars, IInv, CallInv, Count
  <2>3. PrefixStored'
    BY <1>1 DEF vars, IInv, PrefixStored
  <2>4. SlackBounded'
    BY <1>1 DEF vars, IInv, SlackBounded, Count
  <2> QED  BY <2>1, <2>2, <2>3, <2>4 DEF IInv
<1>2. ASSUME NEW a \in Array, NEW k \in Callbacks, NEW c \in Capacities, EFArrayCreateMutable(a, k, c) PROVE IInv'
  BY <1>2, CreateMutablePreserves
<1>3. ASSUME NEW a \in Array, NEW i \in 0..MaxCount, NEW v \in Val,
             EFArrayInsertValueAtIndex(a, i, v)
      PROVE  IInv'
  BY <1>3, InsertPreserves
<1>4. ASSUME NEW a \in Array, InsertRefused(a) PROVE IInv'
  BY <1>4, RefusedPreserves
<1>5. ASSUME NEW a \in Array, NEW i \in 0..MaxCount, NEW n \in 0..MaxCount,
             EFArrayRemoveValuesInRange(a, i, n)
      PROVE  IInv'
  BY <1>5, RemovePreserves
<1>6. ASSUME NEW a \in Array, Destroy(a) PROVE IInv'
  BY <1>6, DestroyPreserves
<1>7. ASSUME NEW a \in Array, NEW k \in Callbacks, NEW s \in Lists(MaxCount), EFArrayCreate(a, k, s) PROVE IInv'
  BY <1>7, BeginCreatePreserves, ListsAreSequences DEF EFArrayCreate
<1>8. ASSUME NEW a \in Array, NEW b \in Array, NEW m \in BOOLEAN, EFArrayCreateCopy(a, b, m)
      PROVE  IInv'
  <2>1. items[b] \in Seq(Val) /\ callbacks[b] \in Callbacks
    BY DEF IInv, TypeOK
  <2> QED  BY <1>8, <2>1, BeginCreatePreserves DEF EFArrayCreateCopy
<1>9. ASSUME NEW a \in Array, NEW b \in Array, EFArrayAppendValuesOfArray(a, b) PROVE IInv'
  BY <1>9, AppendBeginPreserves
<1>10. CASE StoreStep
  BY <1>10, ReservePreserves, StoreNextPreserves, EndPreserves DEF StoreStep
<1> QED
  BY <1>1, <1>2, <1>3, <1>4, <1>5, <1>6, <1>7, <1>8, <1>9, <1>10 DEF Next, SingleCalls

\* The conjunction above holds in every reachable state.
THEOREM Invariance == Spec => []IInv
<1> QED  BY InitIInv, NextIInv, PTL DEF Spec

\* Every array keeps a well-formed state, and a call under way owns a mutable,
\* existing array.
THEOREM TypeCorrect == Spec => []TypeOK
<1>1. IInv => TypeOK
  BY DEF IInv
<1> QED  BY <1>1, Invariance, PTL

\* At every step of a creation, a copy or a bulk append the values stored are
\* a prefix of the values given, after the original contents.
THEOREM StoresInOrder == Spec => []PrefixStored
<1>1. IInv => PrefixStored
  BY DEF IInv
<1> QED  BY <1>1, Invariance, PTL

\* A bulk append never runs more than one growth step past its buffer, for any
\* growth step, any capacities and any lengths.
THEOREM SlackIsBounded == Spec => []SlackBounded
<1>1. IInv => SlackBounded
  BY DEF IInv
<1> QED  BY <1>1, Invariance, PTL

(***************************************************************************)
(* Without EFArrayAppendValuesOfArray                                      *)
(***************************************************************************)

\* Only creating functions are under way, and no buffer is overrun.
SingleInv == /\ IInv
             /\ call # Idle => call.kind # "append"
             /\ \A a \in Array : exists[a] => capacity[a] >= 0 /\ Count(a) <= capacity[a]

\* The stronger invariant is preserved when the capacities asked for are not
\* negative and no bulk append runs.
LEMMA SingleStep ==
  ASSUME Capacities \subseteq Nat, SingleInv, [SingleCalls \/ StoreStep]_vars
  PROVE  SingleInv'
<1>1. IInv'
  BY NextIInv DEF SingleInv, Next
<1>2. TypeOK /\ \A a \in Array : items[a] \in Seq(Val) /\ Count(a) \in Nat /\ capacity[a] \in Int
  BY LenProperties DEF SingleInv, IInv, TypeOK, Count
<1>3. Growth \in Nat /\ Growth > 0
  BY ArrayAssumption
<1> DEFINE Inside(a) == exists[a] => capacity[a] >= 0 /\ Count(a) <= capacity[a]
<1>4. \A a \in Array : Inside(a)
  BY DEF SingleInv
<1> HIDE DEF Inside
<1> SUFFICES /\ call' # Idle => call'.kind # "append"
             /\ \A a \in Array : Inside(a)'
  BY <1>1 DEF SingleInv, Inside
<1>5. CASE UNCHANGED vars
  BY <1>4, <1>5 DEF vars, SingleInv, Inside, Count
<1>6. ASSUME NEW a \in Array, NEW k \in Callbacks, NEW c \in Capacities, EFArrayCreateMutable(a, k, c)
      PROVE  UNCHANGED call /\ \A b \in Array : Inside(b)'
  <2>1. c >= 0
    OBVIOUS
  <2>2. items'[a] = <<>> /\ Len(<<>>) = 0 /\ capacity'[a] = c
    BY <1>2, <1>6, EmptySeq DEF EFArrayCreateMutable, TypeOK
  <2>3. Inside(a)'
    BY <2>1, <2>2 DEF Inside, Count
  <2>4. \A b \in Array \ {a} : Inside(b)'
    BY <1>2, <1>4, <1>6 DEF EFArrayCreateMutable, Inside, Count, TypeOK
  <2> QED  BY <1>6, <2>3, <2>4 DEF EFArrayCreateMutable
<1>7. ASSUME NEW a \in Array, NEW i \in 0..MaxCount, NEW v \in Val,
             EFArrayInsertValueAtIndex(a, i, v)
      PROVE  UNCHANGED call /\ \A b \in Array : Inside(b)'
  <2>1. exists[a] /\ i \in 0..Len(items[a])
    BY <1>2, <1>7 DEF EFArrayInsertValueAtIndex, Count
  <2>2. Len(InsertAt(items[a], i, v)) = Count(a) + 1
    BY <1>2, <2>1, InsertAtProperties DEF Count
  <2>3. Count(a)' = Count(a) + 1
    BY <1>2, <1>7, <2>2 DEF EFArrayInsertValueAtIndex, Count, TypeOK
  <2>4. capacity[a] >= 0 /\ Count(a) <= capacity[a]
    BY <1>4, <2>1 DEF Inside
  <2>5. \/ capacity[a] >= Count(a) + 1 /\ capacity'[a] = capacity[a]
        \/ capacity'[a] = capacity[a] + Growth
    BY <1>2, <1>7 DEF EFArrayInsertValueAtIndex, Resize, TypeOK
  <2>6. capacity'[a] >= 0 /\ Count(a) + 1 <= capacity'[a]
    BY <1>2, <1>3, <2>4, <2>5
  <2>7. Inside(a)'
    BY <2>3, <2>6 DEF Inside
  <2>8. \A b \in Array \ {a} : Inside(b)'
    BY <1>2, <1>4, <1>7 DEF EFArrayInsertValueAtIndex, Resize, Inside, Count, TypeOK
  <2> QED  BY <1>7, <2>7, <2>8 DEF EFArrayInsertValueAtIndex
<1>8. ASSUME NEW a \in Array, InsertRefused(a)
      PROVE  UNCHANGED call /\ \A b \in Array : Inside(b)'
  <2>1. capacity[a] >= 0 /\ Count(a) <= capacity[a] /\ Count(a)' = Count(a)
    BY <1>4, <1>8 DEF InsertRefused, Inside, Count
  <2>2. \/ capacity'[a] = capacity[a]
        \/ capacity'[a] = capacity[a] + Growth
    BY <1>2, <1>8 DEF InsertRefused, Resize, TypeOK
  <2>3. capacity'[a] >= 0 /\ Count(a) <= capacity'[a]
    BY <1>2, <1>3, <2>1, <2>2
  <2>4. Inside(a)'
    BY <2>1, <2>3 DEF Inside
  <2>5. \A b \in Array \ {a} : Inside(b)'
    BY <1>2, <1>4, <1>8 DEF InsertRefused, Resize, Inside, Count, TypeOK
  <2> QED  BY <1>8, <2>4, <2>5 DEF InsertRefused
<1>9. ASSUME NEW a \in Array, NEW i \in 0..MaxCount, NEW n \in 0..MaxCount,
             EFArrayRemoveValuesInRange(a, i, n)
      PROVE  UNCHANGED call /\ \A b \in Array : Inside(b)'
  <2>1. /\ exists[a] /\ i \in 0..Len(items[a]) /\ UNCHANGED <<exists, capacity, call>>
        /\ Count(a) = Len(items[a]) /\ i <= Count(a) - 1
    BY <1>2, <1>9 DEF EFArrayRemoveValuesInRange, Count
  <2>2. PICK m \in 0..Len(items[a]) - i :
            items' = [items EXCEPT ![a] = RemoveAt(items[a], i, m)]
    BY <1>2, <1>9, RemovesARange DEF Count
  <2>3. Len(RemoveAt(items[a], i, m)) = Len(items[a]) - m
    BY <1>2, <2>1, RemoveAtProperties
  <2>4. Count(a)' = Count(a) - m
    BY <1>2, <2>1, <2>2, <2>3 DEF Count, TypeOK
  <2>5. capacity[a] >= 0 /\ Count(a) <= capacity[a]
    BY <1>4, <2>1 DEF Inside
  <2>6. Count(a) - m <= capacity[a]
    BY <1>2, <2>1, <2>5
  <2>7. Inside(a)'
    BY <2>1, <2>4, <2>5, <2>6 DEF Inside
  <2>8. \A b \in Array \ {a} : Inside(b)'
    BY <1>2, <1>4, <2>1, <2>2 DEF Inside, Count, TypeOK
  <2> QED  BY <2>1, <2>7, <2>8
<1>10. ASSUME NEW a \in Array, Destroy(a)
       PROVE  UNCHANGED call /\ \A b \in Array : Inside(b)'
  <2>1. ~exists'[a]
    BY <1>2, <1>10 DEF Destroy, TypeOK
  <2>2. \A b \in Array \ {a} : Inside(b)'
    BY <1>2, <1>4, <1>10 DEF Destroy, Inside, Count, TypeOK
  <2> QED  BY <1>10, <2>1, <2>2 DEF Destroy, Inside
<1>11. ASSUME NEW a \in Array, NEW d \in {"create", "copy"}, NEW k, NEW s \in Seq(Val), NEW m,
              BeginCreate(a, d, k, s, m)
       PROVE  call'.kind # "append" /\ \A b \in Array : Inside(b)'
  <2>1. items'[a] = <<>> /\ Len(<<>>) = 0 /\ capacity'[a] = Len(s) /\ Len(s) \in Nat
    BY <1>2, <1>11, LenProperties, EmptySeq DEF BeginCreate, TypeOK
  <2>2. Inside(a)'
    BY <2>1 DEF Inside, Count
  <2>3. \A b \in Array \ {a} : Inside(b)'
    BY <1>2, <1>4, <1>11 DEF BeginCreate, Inside, Count, TypeOK
  <2> QED  BY <1>11, <2>2, <2>3 DEF BeginCreate
<1>12. CASE StoreStep /\ ~StoreNext
  <2>1. ~Reserve /\ ~ReserveFails
    BY DEF SingleInv, Reserve, ReserveFails, Reserving, Appending, Idle
  <2>2. StoreRefused \/ Return
    BY <1>12, <2>1 DEF StoreStep
  <2>3. call' = Idle
    BY <2>2 DEF StoreRefused, Return
  <2>4. call # Idle /\ call.dst \in Array
    <3>1. call # Idle
      BY <2>2 DEF StoreRefused, Return, Storing, Idle
    <3> QED  BY <1>2, <3>1 DEF TypeOK, Call
  <2>5. CASE UNCHANGED <<exists, capacity, items>>
    BY <1>4, <2>3, <2>5 DEF Inside, Count
  <2>6. CASE StoreRefused /\ call.kind # "append"
    <3>1. ~exists'[call.dst]
      BY <1>2, <2>4, <2>6 DEF StoreRefused, Appending, TypeOK
    <3>2. \A b \in Array \ {call.dst} : Inside(b)'
      BY <1>2, <1>4, <2>4, <2>6 DEF StoreRefused, Appending, Inside, Count, TypeOK
    <3> QED  BY <2>3, <3>1, <3>2 DEF Inside
  <2> QED  BY <2>2, <2>5, <2>6 DEF StoreRefused, Appending, Return
<1>13. CASE StoreNext
  <2>1. call # Idle /\ call \in Call /\ call.kind # "append"
    BY <1>2, <1>13 DEF StoreNext, Storing, Appending, TypeOK, Idle, SingleInv
  <2>2. call.dst \in Array /\ call'.kind # "append"
    BY <1>13, <2>1 DEF StoreNext, Call
  <2>3. call' # Idle /\ call'.dst = call.dst /\ UNCHANGED exists
    BY <1>13, <2>1, <2>2 DEF StoreNext, Call, Idle
  <2>4. PICK a \in Array : a = call.dst
    BY <2>2
  <2>5. capacity'[a] >= 0 /\ Len(items'[a]) <= capacity'[a]
    <3>1. CallInv'
      BY <1>1 DEF IInv
    <3> QED  BY <2>2, <2>3, <2>4, <3>1 DEF CallInv, Count
  <2>6. Inside(a)'
    BY <2>5 DEF Inside, Count
  <2>7. ASSUME NEW b \in Array \ {a} PROVE Inside(b)'
    <3>1. items'[b] = items[b] /\ capacity'[b] = capacity[b] /\ exists'[b] = exists[b]
      BY <1>2, <1>13, <2>1, <2>4 DEF StoreNext, Resize, TypeOK
    <3> QED  BY <1>4, <3>1 DEF Inside, Count
  <2> QED  BY <2>2, <2>6, <2>7
<1> QED
  <2>1. CASE UNCHANGED call /\ \A b \in Array : Inside(b)'
    BY <2>1 DEF SingleInv
  <2>2. ASSUME NEW a \in Array, NEW k \in Callbacks, NEW s \in Lists(MaxCount), EFArrayCreate(a, k, s)
        PROVE  call'.kind # "append" /\ \A b \in Array : Inside(b)'
    BY <1>11, <2>2, ListsAreSequences DEF EFArrayCreate
  <2>3. ASSUME NEW a \in Array, NEW b \in Array, NEW m \in BOOLEAN, EFArrayCreateCopy(a, b, m)
        PROVE  call'.kind # "append" /\ \A d \in Array : Inside(d)'
    BY <1>2, <1>11, <2>3 DEF EFArrayCreateCopy
  <2> QED  BY <1>5, <1>6, <1>7, <1>8, <1>9, <1>10, <1>12, <1>13, <2>1, <2>2, <2>3 DEF SingleCalls

\* A user who asks for no negative capacity and never appends one array to
\* another cannot make the library store a value outside a buffer.
THEOREM StoresInside ==
  ASSUME Capacities \subseteq Nat
  PROVE  SingleSpec => []WithinCapacity
<1>1. Init => SingleInv
  BY InitIInv DEF Init, SingleInv, Idle
<1>2. SingleInv /\ [SingleCalls \/ StoreStep]_vars => SingleInv'
  BY SingleStep
<1>3. SingleInv => WithinCapacity
  BY DEF SingleInv, WithinCapacity
<1> QED  BY <1>1, <1>2, <1>3, PTL DEF SingleSpec

(***************************************************************************)
(* How often a value occurs                                                *)
(***************************************************************************)

Positions(v, s) == {i \in 1..Len(s) : s[i] = v}

\* The copies of a value are its positions, of which there are finitely many.
LEMMA CopiesPositions ==
  ASSUME NEW s \in Seq(Val), NEW v \in Val
  PROVE  /\ IsFiniteSet(Positions(v, s)) /\ Positions(v, s) \subseteq 1..Len(s)
         /\ Copies(v, s) = Cardinality(Positions(v, s)) /\ Copies(v, s) \in Nat
<1>1. DOMAIN s = 1..Len(s) /\ Len(s) \in Nat
  BY LenProperties
<1>2. IsFiniteSet(1..Len(s)) /\ Positions(v, s) \subseteq 1..Len(s)
  BY <1>1, FS_Interval DEF Positions
<1>3. IsFiniteSet(Positions(v, s))
  BY <1>2, FS_Subset
<1>4. Copies(v, s) = Cardinality(Positions(v, s))
  BY <1>1 DEF Copies, Positions
<1> QED  BY <1>2, <1>3, <1>4, FS_CardinalityType

\* The copies in a concatenation are those of its two parts.
LEMMA CopiesConcat ==
  ASSUME NEW s \in Seq(Val), NEW t \in Seq(Val), NEW v \in Val
  PROVE  Copies(v, s \o t) = Copies(v, s) + Copies(v, t)
<1> DEFINE c == s \o t
           P == Positions(v, s)
           Q == Positions(v, t)
           Moved == {Len(s) + i : i \in Q}
           move == [i \in Q |-> Len(s) + i]
<1>1. /\ c \in Seq(Val) /\ Len(s) \in Nat /\ Len(t) \in Nat /\ Len(c) = Len(s) + Len(t)
      /\ \A i \in 1..Len(s) + Len(t) : c[i] = IF i <= Len(s) THEN s[i] ELSE t[i - Len(s)]
  BY ConcatProperties, LenProperties
<1>2. /\ IsFiniteSet(P) /\ P \subseteq 1..Len(s) /\ Copies(v, s) = Cardinality(P)
      /\ IsFiniteSet(Q) /\ Q \subseteq 1..Len(t) /\ Copies(v, t) = Cardinality(Q)
      /\ Copies(v, c) = Cardinality(Positions(v, c))
  BY <1>1, CopiesPositions
<1>3. ExistsBijection(Q, Moved)
  <2>1. move \in [Q -> Moved] /\ \A m \in Moved : \E i \in Q : move[i] = m
    OBVIOUS
  <2>2. \A i, j \in Q : move[i] = move[j] => i = j
    BY <1>1, <1>2
  <2>3. move \in Bijection(Q, Moved)
    BY <2>1, <2>2, Fun_IsBij
  <2> QED  BY <2>3 DEF ExistsBijection
<1>4. IsFiniteSet(Moved) /\ Cardinality(Moved) = Cardinality(Q)
  BY <1>2, <1>3, FS_Bijection
<1>5. Positions(v, c) = P \cup Moved
  <2>1. ASSUME NEW i \in Positions(v, c) PROVE i \in P \cup Moved
    <3>1. i \in 1..Len(s) + Len(t) /\ c[i] = v
      BY <1>1, <2>1 DEF Positions
    <3>2. CASE i <= Len(s)
      BY <1>1, <3>1, <3>2 DEF Positions
    <3>3. CASE ~(i <= Len(s))
      <4>1. i - Len(s) \in 1..Len(t) /\ t[i - Len(s)] = v
        BY <1>1, <3>1, <3>3
      <4>2. i - Len(s) \in Q /\ i = Len(s) + (i - Len(s))
        BY <1>1, <3>1, <4>1 DEF Positions
      <4> QED  BY <4>2
    <3> QED  BY <3>2, <3>3
  <2>2. ASSUME NEW i \in P PROVE i \in Positions(v, c)
    BY <1>1, <2>2 DEF Positions
  <2>3. ASSUME NEW j \in Q PROVE Len(s) + j \in Positions(v, c)
    <3>1. j \in 1..Len(t) /\ t[j] = v
      BY DEF Positions
    <3>2. Len(s) + j \in 1..Len(s) + Len(t) /\ ~(Len(s) + j <= Len(s))
          /\ (Len(s) + j) - Len(s) = j
      BY <1>1, <3>1
    <3>3. c[Len(s) + j] = v
      BY <1>1, <3>1, <3>2
    <3> QED  BY <1>1, <3>2, <3>3 DEF Positions
  <2> QED  BY <2>1, <2>2, <2>3
<1>6. P \cap Moved = {}
  BY <1>1, <1>2
<1>7. Cardinality(P \cup Moved) = Cardinality(P) + Cardinality(Moved) - Cardinality(P \cap Moved)
  BY <1>2, <1>4, FS_Union
<1>8. Cardinality(P \cap Moved) = 0
  BY <1>6, FS_EmptySet
<1>9. Cardinality(P) \in Nat /\ Cardinality(Q) \in Nat
  BY <1>2, FS_CardinalityType
<1> HIDE DEF c, P, Q, Moved
<1>10. Cardinality(Positions(v, c)) = Cardinality(P) + Cardinality(Q)
  BY <1>4, <1>5, <1>7, <1>8, <1>9
<1> QED  BY <1>2, <1>10 DEF c

\* A sequence of one value has one copy of it; the empty one has none.
LEMMA CopiesOne ==
  ASSUME NEW w \in Val, NEW v \in Val
  PROVE  Copies(v, <<w>>) = (IF v = w THEN 1 ELSE 0) /\ Copies(v, <<>>) = 0
<1>1. PICK s \in Seq(Val) : s = <<w>> /\ Len(s) = 1 /\ s[1] = w
  <2>1. <<w>> \in Seq(Val) /\ Len(<<w>>) = 1 /\ <<w>>[1] = w
    OBVIOUS
  <2> QED  BY <2>1
<1>2. Copies(v, s) = Cardinality(Positions(v, s))
  BY CopiesPositions
<1>3. ASSUME v = w PROVE Copies(v, s) = 1
  <2>1. Len(s) = 1 /\ s[1] = v
    BY <1>1, <1>3
  <2>2. \A i \in 1..1 : i = 1
    OBVIOUS
  <2>3. Positions(v, s) = {1}
    BY <2>1, <2>2 DEF Positions
  <2> QED  BY <1>2, <2>3, FS_Singleton
<1>4. ASSUME v # w PROVE Copies(v, s) = 0
  <2>1. Len(s) = 1 /\ s[1] # v
    BY <1>1, <1>4
  <2>2. \A i \in 1..1 : i = 1
    OBVIOUS
  <2>3. Positions(v, s) = {}
    BY <2>1, <2>2 DEF Positions
  <2> QED  BY <1>2, <2>3, FS_EmptySet
<1>5. Copies(v, <<>>) = 0
  <2>1. <<>> \in Seq(Val) /\ Len(<<>>) = 0
    BY EmptySeq
  <2>2. Positions(v, <<>>) = {}
    BY <2>1 DEF Positions
  <2> QED  BY <2>1, <2>2, CopiesPositions, FS_EmptySet
<1> QED  BY <1>1, <1>3, <1>4, <1>5

\* An insertion adds one copy of the value inserted and keeps all others.
LEMMA CopiesInsert ==
  ASSUME NEW s \in Seq(Val), NEW i \in 0..Len(s), NEW w \in Val, NEW v \in Val
  PROVE  Copies(v, InsertAt(s, i, w)) = Copies(v, s) + (IF v = w THEN 1 ELSE 0)
<1>1. Len(s) \in Nat /\ \A j \in 1..Len(s) : s[j] \in Val
  BY LenProperties, ElementOfSeq
<1>2. SubSeq(s, 1, i) \in Seq(Val) /\ SubSeq(s, i + 1, Len(s)) \in Seq(Val) /\ <<w>> \in Seq(Val)
  BY <1>1, SubSeqProperties
<1>3. PICK b \in Seq(Val), c \in Seq(Val), d \in Seq(Val) :
          b = SubSeq(s, 1, i) /\ c = <<w>> /\ d = SubSeq(s, i + 1, Len(s))
  BY <1>2
<1>4. b \o d = s
  <2>1. 1 \in 1..Len(s) + 1 /\ i \in 1 - 1..Len(s) /\ Len(s) \in i..Len(s)
    BY <1>1
  <2>2. SubSeq(s, 1, i) \o SubSeq(s, i + 1, Len(s)) = SubSeq(s, 1, Len(s))
    BY <2>1, ConcatAdjacentSubSeq
  <2> QED  BY <1>3, <2>2, SubSeqFull
<1>5. InsertAt(s, i, w) = (b \o c) \o d
  BY <1>3 DEF InsertAt
<1>6. PICK e \in Seq(Val) : e = b \o c
  BY ConcatTwice
<1>7. Copies(v, e \o d) = Copies(v, e) + Copies(v, d) /\ Copies(v, e) = Copies(v, b) + Copies(v, c)
  BY <1>6, CopiesConcat
<1>8. Copies(v, s) = Copies(v, b) + Copies(v, d)
  BY <1>4, CopiesConcat
<1>9. Copies(v, c) = IF v = w THEN 1 ELSE 0
  BY <1>3, CopiesOne
<1>10. Copies(v, b) \in Nat /\ Copies(v, d) \in Nat
  BY CopiesPositions
<1> QED  BY <1>5, <1>6, <1>7, <1>8, <1>9, <1>10

\* A removal takes away the copies in the range removed.
LEMMA CopiesRemove ==
  ASSUME NEW s \in Seq(Val), NEW i \in 0..Len(s), NEW n \in 0..Len(s) - i, NEW v \in Val
  PROVE  Copies(v, s) = Copies(v, RemoveAt(s, i, n)) + Copies(v, SubSeq(s, i + 1, i + n))
<1>1. Len(s) \in Nat /\ \A j \in 1..Len(s) : s[j] \in Val
  BY LenProperties, ElementOfSeq
<1>2. /\ SubSeq(s, 1, i) \in Seq(Val) /\ SubSeq(s, i + 1, i + n) \in Seq(Val)
      /\ SubSeq(s, i + n + 1, Len(s)) \in Seq(Val)
  BY <1>1, SubSeqProperties
<1>3. PICK b \in Seq(Val), c \in Seq(Val), d \in Seq(Val) :
          b = SubSeq(s, 1, i) /\ c = SubSeq(s, i + 1, i + n) /\ d = SubSeq(s, i + n + 1, Len(s))
  BY <1>2
<1>4. (b \o c) \o d = s
  <2>1. 1 \in 1..Len(s) + 1 /\ i \in 1 - 1..Len(s) /\ i + n \in i..Len(s)
        /\ i + n \in 1 - 1..Len(s) /\ Len(s) \in i + n..Len(s)
    BY <1>1
  <2>2. b \o c = SubSeq(s, 1, i + n)
    BY <1>3, <2>1, ConcatAdjacentSubSeq
  <2>3. SubSeq(s, 1, i + n) \o SubSeq(s, i + n + 1, Len(s)) = SubSeq(s, 1, Len(s))
    BY <2>1, ConcatAdjacentSubSeq
  <2> QED  BY <1>3, <2>2, <2>3, SubSeqFull
<1>5. RemoveAt(s, i, n) = b \o d
  BY <1>3 DEF RemoveAt
<1>6. PICK e \in Seq(Val) : e = b \o c
  BY ConcatTwice
<1>7. Copies(v, s) = Copies(v, e) + Copies(v, d) /\ Copies(v, e) = Copies(v, b) + Copies(v, c)
  BY <1>4, <1>6, CopiesConcat
<1>8. Copies(v, RemoveAt(s, i, n)) = Copies(v, b) + Copies(v, d)
  BY <1>5, CopiesConcat
<1>9. Copies(v, b) \in Nat /\ Copies(v, c) \in Nat /\ Copies(v, d) \in Nat
  BY CopiesPositions
<1> QED  BY <1>3, <1>7, <1>8, <1>9

(***************************************************************************)
(* The balance of retains                                                  *)
(***************************************************************************)

\* The places where v is stored when the arrays hold f.
Places(v, f) == {p \in Array \X (1..MaxCount) : p[2] <= Len(f[p[1]]) /\ f[p[1]][p[2]] = v}

\* The places of a value are those in one array and those in the others.
LEMMA PlacesSplit ==
  ASSUME NEW f \in [Array -> Seq(Val)], \A b \in Array : Len(f[b]) <= MaxCount,
         NEW a \in Array, NEW v \in Val
  PROVE  LET rest == {p \in Places(v, f) : p[1] # a} IN
         /\ IsFiniteSet(rest)
         /\ Cardinality(Places(v, f)) = Cardinality(rest) + Copies(v, f[a])
<1> DEFINE rest == {p \in Places(v, f) : p[1] # a}
           here == {p \in Places(v, f) : p[1] = a}
           P == Positions(v, f[a])
           place == [i \in P |-> <<a, i>>]
<1> USE ArrayAssumption
<1>1. IsFiniteSet(P) /\ P \subseteq 1..Len(f[a]) /\ Copies(v, f[a]) = Cardinality(P)
      /\ Len(f[a]) \in Nat
  BY CopiesPositions, LenProperties
<1>2. IsFiniteSet(1..MaxCount)
  BY FS_Interval
<1>3. IsFiniteSet(Array \X (1..MaxCount))
  BY <1>2, FS_Product
<1>4. IsFiniteSet(Places(v, f))
  <2>1. Places(v, f) \subseteq Array \X (1..MaxCount)
    BY DEF Places
  <2> QED  BY <1>3, <2>1, FS_Subset
<1>5. IsFiniteSet(rest)
  BY <1>4, FS_Subset
<1>6. ExistsBijection(P, here)
  <2>1. \A i \in P : <<a, i>> \in here
    <3> SUFFICES ASSUME NEW i \in P PROVE <<a, i>> \in here
      OBVIOUS
    <3>1. i \in 1..Len(f[a]) /\ f[a][i] = v
      BY DEF Positions
    <3>2. i \in 1..MaxCount /\ i <= Len(f[a])
      BY <1>1, <3>1
    <3> QED  BY <3>1, <3>2 DEF Places
  <2>2. \A p \in here : \E i \in P : <<a, i>> = p
    <3> SUFFICES ASSUME NEW p \in here PROVE \E i \in P : <<a, i>> = p
      OBVIOUS
    <3>1. p \in Array \X (1..MaxCount) /\ p[1] = a /\ p[2] <= Len(f[p[1]]) /\ f[p[1]][p[2]] = v
      BY DEF Places
    <3>2. p = <<a, p[2]>> /\ p[2] \in 1..MaxCount
      BY <3>1
    <3>3. p[2] \in P
      BY <1>1, <3>1, <3>2 DEF Positions
    <3> QED  BY <3>2, <3>3
  <2>3. place \in Bijection(P, here)
    <3>1. place \in [P -> here]
      BY <2>1
    <3>2. \A p \in here : \E i \in P : place[i] = p
      BY <2>2
    <3>3. \A i, j \in P : place[i] = place[j] => i = j
      OBVIOUS
    <3> QED  BY <3>1, <3>2, <3>3, Fun_IsBij
  <2> QED  BY <2>3 DEF ExistsBijection
<1>7. IsFiniteSet(here) /\ Cardinality(here) = Cardinality(P)
  BY <1>1, <1>6, FS_Bijection
<1>8. Places(v, f) = rest \cup here /\ rest \cap here = {}
  OBVIOUS
<1> HIDE DEF rest, here, P
<1>9. Cardinality(rest \cup here) = Cardinality(rest) + Cardinality(here) - Cardinality(rest \cap here)
  BY <1>5, <1>7, FS_Union
<1>10. Cardinality(rest) \in Nat /\ Cardinality(here) \in Nat /\ Cardinality(rest \cap here) = 0
  BY <1>5, <1>7, <1>8, FS_CardinalityType, FS_EmptySet
<1>11. Cardinality(Places(v, f)) = Cardinality(rest) + Copies(v, f[a])
  BY <1>1, <1>7, <1>8, <1>9, <1>10
<1> QED  BY <1>5, <1>11 DEF rest

\* The arrays keep to their bound, as does what a storing call will leave.
BoundInv == /\ \A a \in Array : Count(a) <= MaxCount
            /\ call # Idle => Len(call.before) + Len(call.values) <= MaxCount

\* What the arrays with the object callbacks hold; the others hold nothing that
\* they have retained.
Held == [a \in Array |-> IF Retains(a) THEN items[a] ELSE <<>>]

HeldBalance == \A v \in Val : retained[v] = Cardinality(Places(v, Held))

HeldType == /\ Held \in [Array -> Seq(Val)]
            /\ \A a \in Array : Len(Held[a]) <= MaxCount

\* The balance counts the places of what is held.
LEMMA BalanceOfHeld == RetainBalance <=> HeldBalance
<1> SUFFICES ASSUME NEW v \in Val
             PROVE  Places(v, Held) = {p \in Array \X (1..MaxCount) :
                        Retains(p[1]) /\ p[2] <= Count(p[1]) /\ items[p[1]][p[2]] = v}
  BY DEF RetainBalance, HeldBalance
<1> SUFFICES ASSUME NEW p \in Array \X (1..MaxCount)
             PROVE  (p[2] <= Len(Held[p[1]]) /\ Held[p[1]][p[2]] = v)
                       <=> Retains(p[1]) /\ p[2] <= Count(p[1]) /\ items[p[1]][p[2]] = v
  BY DEF Places
<1>1. p[1] \in Array /\ p[2] \in 1..MaxCount /\ MaxCount \in Nat
  BY ArrayAssumption
<1>2. CASE Retains(p[1])
  <2>1. Held[p[1]] = items[p[1]]
    BY <1>1, <1>2 DEF Held
  <2> QED  BY <1>2, <2>1 DEF Count
<1>3. CASE ~Retains(p[1])
  <2>1. Held[p[1]] = <<>> /\ Len(<<>>) = 0
    BY <1>1, <1>3, EmptySeq DEF Held
  <2>2. ~(p[2] <= Len(Held[p[1]]))
    BY <1>1, <2>1
  <2> QED  BY <1>3, <2>2
<1> QED  BY <1>2, <1>3

\* What is held are sequences within the bound.
LEMMA HeldIsTyped == IInv /\ BoundInv => HeldType
<1> SUFFICES ASSUME IInv, BoundInv PROVE HeldType
  OBVIOUS
<1>1. items \in [Array -> Seq(Val)] /\ \A a \in Array : Len(items[a]) <= MaxCount
  BY DEF IInv, TypeOK, BoundInv, Count
<1>2. <<>> \in Seq(Val) /\ Len(<<>>) = 0 /\ 0 <= MaxCount
  BY EmptySeq, ArrayAssumption
<1> QED  BY <1>1, <1>2 DEF Held, HeldType

\* When what one array holds changes, the balance is kept if the retains and
\* releases of the step are the change in its copies.
LEMMA BalanceStep ==
  ASSUME IInv, IInv', BoundInv, BoundInv', RetainBalance,
         NEW a \in Array, NEW t \in Seq(Val), Held' = [Held EXCEPT ![a] = t],
         \A v \in Val : retained'[v] = retained[v] + Copies(v, t) - Copies(v, Held[a])
  PROVE  RetainBalance'
<1>b. HeldBalance' => RetainBalance'
  BY BalanceOfHeld, PTL
<1>d. HeldType'
  BY HeldIsTyped, PTL
<1> SUFFICES ASSUME NEW v \in Val PROVE retained'[v] = Cardinality(Places(v, Held'))
  BY <1>b DEF HeldBalance, Places
<1> DEFINE f == Held
           g == Held'
<1>1. f \in [Array -> Seq(Val)] /\ \A b \in Array : Len(f[b]) <= MaxCount
  BY HeldIsTyped DEF HeldType
<1>1a. g \in [Array -> Seq(Val)] /\ \A b \in Array : Len(g[b]) <= MaxCount
  BY <1>d DEF HeldType
<1>2. retained[v] = Cardinality(Places(v, f))
  BY BalanceOfHeld DEF HeldBalance
<1> DEFINE rest(h) == {p \in Places(v, h) : p[1] # a}
<1>3. rest(g) = rest(f)
  <2>1. \A b \in Array : b # a => g[b] = f[b]
    BY <1>1
  <2> QED  BY <2>1 DEF Places
<1>6. g[a] = t /\ f[a] \in Seq(Val)
  BY <1>1
<1> HIDE DEF f, g
<1>4. /\ IsFiniteSet(rest(f))
      /\ Cardinality(Places(v, f)) = Cardinality(rest(f)) + Copies(v, f[a])
  BY <1>1, PlacesSplit
<1>5. Cardinality(Places(v, g)) = Cardinality(rest(g)) + Copies(v, g[a])
  BY <1>1a, PlacesSplit
<1>7. Copies(v, t) \in Nat /\ Copies(v, f[a]) \in Nat /\ Cardinality(rest(f)) \in Nat
  BY <1>4, <1>6, CopiesPositions, FS_CardinalityType
<1>8. retained'[v] = retained[v] + Copies(v, t) - Copies(v, f[a])
  BY DEF f
<1> HIDE DEF rest
<1>9. retained'[v] = Cardinality(Places(v, g))
  BY <1>2, <1>3, <1>4, <1>5, <1>6, <1>7, <1>8
<1> QED  BY <1>9 DEF g

\* Every step keeps to the bound.
LEMMA BoundStep ==
  ASSUME IInv, IInv', BoundInv, [Next]_vars
  PROVE  BoundInv'
<1> USE ArrayAssumption
<1>1. /\ items \in [Array -> Seq(Val)] /\ items' \in [Array -> Seq(Val)]
      /\ \A b \in Array : Count(b) \in Nat /\ Count(b) <= MaxCount
  BY LenProperties DEF IInv, TypeOK, BoundInv, Count
<1> DEFINE Bounded == \A b \in Array : Len(items'[b]) <= MaxCount
<1>2. CASE UNCHANGED <<items, call>>
  BY <1>2 DEF BoundInv, Count
<1>3. ASSUME NEW a \in Array, NEW t, Len(t) <= MaxCount, items' = [items EXCEPT ![a] = t]
      PROVE  Bounded
  BY <1>1, <1>3 DEF Count
<1>4. CASE Bounded /\ (call' = Idle \/ UNCHANGED call)
  BY <1>4 DEF BoundInv, Count
<1> HIDE DEF Bounded
<1>5. Len(<<>>) = 0 /\ MaxCount >= 0
  OBVIOUS
<1>6. ASSUME NEW a \in Array, NEW k \in Callbacks, NEW c \in Capacities, EFArrayCreateMutable(a, k, c) PROVE BoundInv'
  BY <1>3, <1>4, <1>5, <1>6 DEF EFArrayCreateMutable
<1>7. ASSUME NEW a \in Array, NEW i \in 0..MaxCount, NEW v \in Val,
             EFArrayInsertValueAtIndex(a, i, v)
      PROVE  BoundInv'
  <2>1. i \in 0..Len(items[a]) /\ Len(items[a]) + 1 <= MaxCount /\ UNCHANGED call
    BY <1>1, <1>7 DEF EFArrayInsertValueAtIndex, Count
  <2>2. Len(InsertAt(items[a], i, v)) = Len(items[a]) + 1
    BY <1>1, <2>1, InsertAtProperties
  <2>3. items' = [items EXCEPT ![a] = InsertAt(items[a], i, v)]
    BY <1>7 DEF EFArrayInsertValueAtIndex
  <2> QED  BY <1>3, <1>4, <2>1, <2>2, <2>3
<1>8. ASSUME NEW a \in Array, InsertRefused(a) PROVE BoundInv'
  BY <1>2, <1>8 DEF InsertRefused
<1>9. ASSUME NEW a \in Array, NEW i \in 0..MaxCount, NEW n \in 0..MaxCount,
             EFArrayRemoveValuesInRange(a, i, n)
      PROVE  BoundInv'
  <2>1. PICK m \in 0..Count(a) - i : items' = [items EXCEPT ![a] = RemoveAt(items[a], i, m)]
    BY <1>9, RemovesARange DEF IInv
  <2>2. i \in 0..Len(items[a]) /\ m \in 0..Len(items[a]) - i /\ UNCHANGED call
    BY <1>1, <1>9, <2>1 DEF EFArrayRemoveValuesInRange, Count
  <2>3. Len(RemoveAt(items[a], i, m)) = Len(items[a]) - m
    BY <1>1, <2>2, RemoveAtProperties
  <2>4. Len(RemoveAt(items[a], i, m)) <= MaxCount
    BY <1>1, <2>2, <2>3 DEF Count
  <2> QED  BY <1>3, <1>4, <2>1, <2>2, <2>4
<1>10. ASSUME NEW a \in Array, Destroy(a) PROVE BoundInv'
  BY <1>3, <1>4, <1>5, <1>10 DEF Destroy
<1>11. ASSUME NEW a \in Array, NEW d, NEW k, NEW s \in Seq(Val), Len(s) <= MaxCount, NEW m,
              BeginCreate(a, d, k, s, m)
       PROVE  BoundInv'
  <2>1. Bounded
    BY <1>3, <1>5, <1>11 DEF BeginCreate
  <2>2. call'.before = <<>> /\ call'.values = s
    BY <1>11 DEF BeginCreate
  <2>3. Len(call'.before) + Len(call'.values) <= MaxCount
    BY <1>5, <1>11, <2>2, LenProperties
  <2> QED  BY <2>1, <2>3 DEF BoundInv, Bounded, Count
<1>12. ASSUME NEW a \in Array, NEW k \in Callbacks, NEW s \in Lists(MaxCount), EFArrayCreate(a, k, s) PROVE BoundInv'
  <2>1. PICK m \in 0..MaxCount : s \in [1..m -> Val]
    BY DEF Lists
  <2>2. s \in Seq(Val) /\ DOMAIN s = 1..m
    BY <2>1, ListsAreSequences
  <2>3. 1..Len(s) = 1..m /\ Len(s) \in Nat
    BY <2>2, LenProperties
  <2>4. Len(s) <= MaxCount
    BY <2>3
  <2> QED  BY <1>11, <1>12, <2>2, <2>4 DEF EFArrayCreate
<1>13. ASSUME NEW a \in Array, NEW b \in Array, NEW m \in BOOLEAN, EFArrayCreateCopy(a, b, m)
       PROVE  BoundInv'
  BY <1>1, <1>11, <1>13 DEF EFArrayCreateCopy, Count
<1>14. ASSUME NEW a \in Array, NEW b \in Array, EFArrayAppendValuesOfArray(a, b) PROVE BoundInv'
  <2>1. UNCHANGED items /\ Count(a) + Count(b) <= MaxCount
    BY <1>14 DEF EFArrayAppendValuesOfArray
  <2>2. call'.before = items[a] /\ call'.values = items[b]
    BY <1>14 DEF EFArrayAppendValuesOfArray
  <2> QED  BY <2>1, <2>2 DEF BoundInv, Count
<1>15. CASE StoreStep
  <2>1. call # Idle /\ call \in Call /\ call.dst \in Array
    <3>1. call # Idle
      BY <1>15 DEF StoreStep, Reserve, ReserveFails, StoreNext, StoreRefused, Return,
                   Storing, Reserving, Appending, Idle
    <3> QED  BY <3>1 DEF IInv, TypeOK, Call
  <2>2. CASE Reserve \/ StoreNext
    <3>1. call'.before = call.before /\ call'.values = call.values /\ call'.dst = call.dst
      BY <2>1, <2>2 DEF Reserve, StoreNext, Call
    <3>2. call'.kind = call.kind /\ call.kind \in {"create", "copy", "append"}
      BY <2>1, <2>2 DEF Reserve, StoreNext, Call
    <3>3. call' # Idle
      BY <3>2 DEF Idle
    <3>4. Len(call.before) + Len(call.values) <= MaxCount
      BY <2>1 DEF BoundInv
    <3>5. PICK b \in Seq(Val), s \in Seq(Val) : b = call.before /\ s = call.values
      BY <2>1 DEF Call
    <3>6. PICK i \in 0..Len(s) : i = call'.index
      <4>1. call' \in Call /\ call'.index <= Len(call'.values)
        BY <3>3 DEF IInv, TypeOK
      <4>2. call'.index \in Nat
        BY <4>1 DEF Call
      <4> QED  BY <3>1, <3>5, <4>1, <4>2
    <3>7. items'[call.dst] = b \o SubSeq(s, 1, i)
      BY <3>1, <3>3, <3>5, <3>6 DEF IInv, PrefixStored
    <3>8. Len(b \o SubSeq(s, 1, i)) = Len(b) + i
      <4>1. Len(s) \in Nat /\ \A j \in 1..Len(s) : s[j] \in Val
        BY LenProperties, ElementOfSeq
      <4>2. SubSeq(s, 1, i) \in Seq(Val) /\ Len(SubSeq(s, 1, i)) = i
        BY <4>1, SubSeqProperties
      <4> QED  BY <4>2, ConcatProperties
    <3>9. Len(items'[call.dst]) <= MaxCount
      <4>1. Len(b) + Len(s) <= MaxCount /\ Len(b) \in Nat /\ Len(s) \in Nat
        BY <3>4, <3>5, LenProperties
      <4>2. Len(items'[call.dst]) = Len(b) + i
        BY <3>7, <3>8
      <4> QED  BY <3>6, <4>1, <4>2
    <3>10. \A c \in Array \ {call.dst} : items'[c] = items[c]
      BY <1>1, <2>1, <2>2 DEF Reserve, StoreNext
    <3>11. Bounded
      BY <1>1, <3>9, <3>10 DEF Bounded, Count
    <3> QED  BY <3>1, <3>4, <3>11 DEF BoundInv, Bounded, Count
  <2>3. CASE ReserveFails \/ Return
    <3>1. Bounded
      BY <1>1, <2>3 DEF ReserveFails, Return, Bounded, Count
    <3> QED  BY <1>4, <2>3, <3>1 DEF ReserveFails, Return
  <2>4. CASE StoreRefused
    <3>1. call' = Idle /\ (UNCHANGED items \/ items' = [items EXCEPT ![call.dst] = <<>>])
      BY <2>4 DEF StoreRefused
    <3>2. CASE UNCHANGED items
      <4>1. Bounded
        BY <1>1, <3>2 DEF Bounded, Count
      <4> QED  BY <1>4, <3>1, <4>1
    <3>3. CASE items' = [items EXCEPT ![call.dst] = <<>>]
      BY <1>3, <1>4, <1>5, <2>1, <3>1, <3>3
    <3> QED  BY <3>1, <3>2, <3>3
  <2> QED  BY <1>15, <2>2, <2>3, <2>4 DEF StoreStep
<1>16. CASE UNCHANGED vars
  BY <1>2, <1>16 DEF vars
<1> QED
  BY <1>6, <1>7, <1>8, <1>9, <1>10, <1>12, <1>13, <1>14, <1>15, <1>16 DEF Next, SingleCalls

\* A destroyed array, and one not yet created, holds nothing.
EmptyInv == \A a \in Array : ~exists[a] => items[a] = <<>>

\* Only existing arrays are stored into, and destruction empties.
LEMMA EmptyStep ==
  ASSUME IInv, EmptyInv, [Next]_vars
  PROVE  EmptyInv'
<1>1. /\ items \in [Array -> Seq(Val)] /\ exists \in [Array -> BOOLEAN]
      /\ call # Idle => call.dst \in Array /\ exists[call.dst]
  BY DEF IInv, TypeOK, Call
<1>2. CASE UNCHANGED <<exists, items>>
  BY <1>2 DEF EmptyInv
<1>3. ASSUME NEW a \in Array, exists' = [exists EXCEPT ![a] = TRUE],
             items' = [items EXCEPT ![a] = <<>>]
      PROVE  EmptyInv'
  BY <1>1, <1>3 DEF EmptyInv
<1>4. ASSUME NEW a \in Array, exists' = [exists EXCEPT ![a] = FALSE],
             items' = [items EXCEPT ![a] = <<>>]
      PROVE  EmptyInv'
  BY <1>1, <1>4 DEF EmptyInv
<1>5. ASSUME NEW a \in Array, exists[a], UNCHANGED exists,
             \E t : items' = [items EXCEPT ![a] = t]
      PROVE  EmptyInv'
  BY <1>1, <1>5 DEF EmptyInv
<1>6. ASSUME NEW a \in Array, NEW k \in Callbacks, NEW c \in Capacities, EFArrayCreateMutable(a, k, c) PROVE EmptyInv'
  BY <1>3, <1>6 DEF EFArrayCreateMutable
<1>7. ASSUME NEW a \in Array, NEW i \in 0..MaxCount, NEW v \in Val,
             EFArrayInsertValueAtIndex(a, i, v)
      PROVE  EmptyInv'
  BY <1>5, <1>7 DEF EFArrayInsertValueAtIndex
<1>8. ASSUME NEW a \in Array, InsertRefused(a) PROVE EmptyInv'
  BY <1>2, <1>8 DEF InsertRefused
<1>9. ASSUME NEW a \in Array, NEW i \in 0..MaxCount, NEW n \in 0..MaxCount,
             EFArrayRemoveValuesInRange(a, i, n)
      PROVE  EmptyInv'
  <2>1. exists[a] /\ UNCHANGED exists
    BY <1>9 DEF EFArrayRemoveValuesInRange
  <2>2. \E t : items' = [items EXCEPT ![a] = t]
    BY <1>9, RemovesARange DEF IInv
  <2> QED  BY <1>5, <2>1, <2>2
<1>10. ASSUME NEW a \in Array, Destroy(a) PROVE EmptyInv'
  BY <1>4, <1>10 DEF Destroy
<1>11. ASSUME NEW a \in Array, NEW d, NEW k, NEW s, NEW m, BeginCreate(a, d, k, s, m) PROVE EmptyInv'
  BY <1>3, <1>11 DEF BeginCreate
<1>12. ASSUME NEW a \in Array, NEW b \in Array, EFArrayAppendValuesOfArray(a, b) PROVE EmptyInv'
  BY <1>2, <1>12 DEF EFArrayAppendValuesOfArray
<1>13. CASE Reserve \/ ReserveFails \/ Return
  BY <1>2, <1>13 DEF Reserve, ReserveFails, Return
<1>14. CASE StoreNext
  <2>1. call # Idle
    BY <1>14 DEF StoreNext, Storing, Appending, Idle
  <2>2. UNCHANGED exists
    BY <1>14 DEF StoreNext
  <2>3. \E t : items' = [items EXCEPT ![call.dst] = t]
    BY <1>14 DEF StoreNext
  <2> QED  BY <1>1, <1>5, <2>1, <2>2, <2>3
<1>15. CASE StoreRefused
  <2>1. call # Idle
    BY <1>15 DEF StoreRefused, Storing, Idle
  <2> QED  BY <1>1, <1>2, <1>4, <1>15, <2>1 DEF StoreRefused
<1>16. CASE UNCHANGED vars
  BY <1>2, <1>16 DEF vars
<1> QED
  BY <1>6, <1>7, <1>8, <1>9, <1>10, <1>11, <1>12, <1>13, <1>14, <1>15, <1>16
     DEF Next, SingleCalls, StoreStep, EFArrayCreate, EFArrayCreateCopy

\* Every step retains what it stores and releases what it drops.
LEMMA BalanceNext ==
  ASSUME IInv, IInv', BoundInv, BoundInv', EmptyInv, RetainBalance, [Next]_vars
  PROVE  RetainBalance'
<1>1. /\ items \in [Array -> Seq(Val)] /\ items' \in [Array -> Seq(Val)]
      /\ retained \in [Val -> Int]
      /\ \A a \in Array, v \in Val : Copies(v, items[a]) \in Nat
  BY CopiesPositions DEF IInv, TypeOK
<1>h. /\ Held \in [Array -> Seq(Val)]
      /\ \A a \in Array : Held[a] = IF Retains(a) THEN items[a] ELSE <<>>
  BY HeldIsTyped DEF Held, HeldType
<1>2. CASE UNCHANGED <<items, callbacks, retained>>
  BY <1>2 DEF RetainBalance, Count, Retains
<1>3. <<>> \in Seq(Val) /\ \A v \in Val : Copies(v, <<>>) = 0
  BY EmptySeq, CopiesOne
<1>s. ASSUME Held' = Held, UNCHANGED retained PROVE RetainBalance'
  <2>1. HeldBalance' => RetainBalance'
    BY BalanceOfHeld, PTL
  <2>2. HeldBalance
    BY BalanceOfHeld
  <2> QED  BY <1>s, <2>1, <2>2 DEF HeldBalance, Places
<1>4. ASSUME NEW a \in Array, items[a] = <<>>, items' = [items EXCEPT ![a] = <<>>],
             NEW k, callbacks' = [callbacks EXCEPT ![a] = k], UNCHANGED retained
      PROVE  RetainBalance'
  <2>1. items' = items
    BY <1>1, <1>4
  <2>2. \A b \in Array : b # a => callbacks'[b] = callbacks[b]
    BY <1>4 DEF IInv, TypeOK
  <2>3. Held' = Held
    BY <1>4, <2>1, <2>2 DEF Held, Retains
  <2> QED  BY <1>s, <1>4, <2>3
<1>5. ASSUME NEW a \in Array, items' = [items EXCEPT ![a] = <<>>], ReleaseAll(a, items[a]),
             NEW k, callbacks' = [callbacks EXCEPT ![a] = k]
      PROVE  RetainBalance'
  <2>1. \A v \in Val : retained'[v] = retained[v] + Copies(v, <<>>) - Copies(v, Held[a])
    BY <1>1, <1>h, <1>3, <1>5 DEF ReleaseAll
  <2>2. \A b \in Array : /\ b # a => callbacks'[b] = callbacks[b] /\ items'[b] = items[b]
                         /\ b = a => items'[b] = <<>>
    BY <1>1, <1>5 DEF IInv, TypeOK
  <2>3. Held' = [Held EXCEPT ![a] = <<>>]
    BY <2>2 DEF Held, Retains
  <2> QED  BY <1>3, <2>1, <2>3, BalanceStep
<1>t. ASSUME NEW a \in Array, NEW t \in Seq(Val), items' = [items EXCEPT ![a] = t],
             UNCHANGED callbacks,
             Retains(a) => \A v \in Val :
                 retained'[v] = retained[v] + Copies(v, t) - Copies(v, items[a]),
             ~Retains(a) => UNCHANGED retained
      PROVE  RetainBalance'
  <2>1. \A b \in Array : /\ Retains(b)' <=> Retains(b)
                         /\ b # a => items'[b] = items[b]
                         /\ b = a => items'[b] = t
    BY <1>1, <1>t DEF Retains
  <2>2. CASE Retains(a)
    <3>1. Held' = [Held EXCEPT ![a] = t]
      BY <2>1, <2>2 DEF Held
    <3> QED  BY <1>h, <1>t, <2>2, <3>1, BalanceStep
  <2>3. CASE ~Retains(a)
    <3>1. Held' = Held
      BY <2>1, <2>3 DEF Held
    <3> QED  BY <1>s, <1>t, <2>3, <3>1
  <2> QED  BY <2>2, <2>3
<1>6. ASSUME NEW a \in Array, NEW w \in Val, NEW t \in Seq(Val), Retain(a, w),
             items' = [items EXCEPT ![a] = t], UNCHANGED callbacks,
             \A v \in Val : Copies(v, t) = Copies(v, items[a]) + (IF v = w THEN 1 ELSE 0)
      PROVE  RetainBalance'
  <2>1. CASE ~Retains(a)
    BY <1>6, <1>t, <2>1 DEF Retain
  <2>2. CASE Retains(a)
    <3> SUFFICES ASSUME NEW v \in Val
                 PROVE  retained'[v] = retained[v] + Copies(v, t) - Copies(v, items[a])
      BY <1>6, <1>t, <2>2
    <3>1. Copies(v, t) = Copies(v, items[a]) + (IF v = w THEN 1 ELSE 0)
      BY <1>6
    <3>2. retained[v] \in Int /\ Copies(v, items[a]) \in Nat /\ Copies(v, t) \in Nat
      BY <1>1, CopiesPositions
    <3>3. retained'[v] = retained[v] + (IF v = w THEN 1 ELSE 0)
      BY <1>1, <1>6, <2>2 DEF Retain
    <3> QED  BY <3>1, <3>2, <3>3
  <2> QED  BY <2>1, <2>2
<1>7. ASSUME NEW a \in Array, ~exists[a], items' = [items EXCEPT ![a] = <<>>],
             NEW k, callbacks' = [callbacks EXCEPT ![a] = k], UNCHANGED retained
      PROVE  RetainBalance'
  BY <1>4, <1>7 DEF EmptyInv
<1>8. ASSUME NEW a \in Array, NEW i \in 0..MaxCount, NEW w \in Val,
             EFArrayInsertValueAtIndex(a, i, w)
      PROVE  RetainBalance'
  <2>1. i \in 0..Len(items[a])
    BY <1>8 DEF EFArrayInsertValueAtIndex, Count
  <2>2. InsertAt(items[a], i, w) \in Seq(Val)
    BY <1>1, <2>1, InsertAtProperties
  <2>3. \A v \in Val : Copies(v, InsertAt(items[a], i, w))
                           = Copies(v, items[a]) + (IF v = w THEN 1 ELSE 0)
    BY <1>1, <2>1, CopiesInsert
  <2> QED  BY <1>6, <1>8, <2>2, <2>3 DEF EFArrayInsertValueAtIndex
<1>9. ASSUME NEW a \in Array, NEW i \in 0..MaxCount, NEW n \in 0..MaxCount,
             EFArrayRemoveValuesInRange(a, i, n)
      PROVE  RetainBalance'
  <2>1. PICK m \in 0..Count(a) - i :
            /\ ReleaseAll(a, SubSeq(items[a], i + 1, i + m))
            /\ items' = [items EXCEPT ![a] = RemoveAt(items[a], i, m)]
    BY <1>9, RemovesARange DEF IInv
  <2>2. i \in 0..Len(items[a]) /\ m \in 0..Len(items[a]) - i
    BY <1>1, <1>9, <2>1, LenProperties DEF EFArrayRemoveValuesInRange, Count
  <2>3. RemoveAt(items[a], i, m) \in Seq(Val)
    BY <1>1, <2>2, RemoveAtProperties
  <2>4. \A v \in Val : Copies(v, items[a]) = Copies(v, RemoveAt(items[a], i, m))
                                             + Copies(v, SubSeq(items[a], i + 1, i + m))
    BY <1>1, <2>2, CopiesRemove
  <2>5. PICK t \in Seq(Val) : t = RemoveAt(items[a], i, m)
    BY <2>3
  <2>6. PICK u \in Seq(Val) : u = SubSeq(items[a], i + 1, i + m)
    <3>1. Len(items[a]) \in Nat /\ \A j \in 1..Len(items[a]) : items[a][j] \in Val
      BY <1>1, LenProperties, ElementOfSeq
    <3>2. SubSeq(items[a], i + 1, i + m) \in Seq(Val)
      BY <2>2, <3>1, SubSeqProperties
    <3> QED  BY <3>2
  <2>7. Retains(a) =>
            \A v \in Val : retained'[v] = retained[v] + Copies(v, t) - Copies(v, items[a])
    <3>1. \A v \in Val : Copies(v, t) \in Nat /\ Copies(v, u) \in Nat
      BY CopiesPositions
    <3>2. \A v \in Val : Copies(v, items[a]) = Copies(v, t) + Copies(v, u)
      BY <2>4, <2>5, <2>6
    <3>3. Retains(a) => \A v \in Val : retained'[v] = retained[v] - Copies(v, u)
      BY <2>1, <2>6 DEF ReleaseAll
    <3> QED  BY <1>1, <3>1, <3>2, <3>3
  <2>8. ~Retains(a) => UNCHANGED retained
    BY <2>1 DEF ReleaseAll
  <2>9. items' = [items EXCEPT ![a] = t] /\ UNCHANGED callbacks
    BY <1>9, <2>1, <2>5 DEF EFArrayRemoveValuesInRange
  <2> QED  BY <1>t, <2>7, <2>8, <2>9
<1>10. ASSUME NEW a \in Array, Destroy(a) PROVE RetainBalance'
  BY <1>5, <1>10 DEF Destroy
<1>11. CASE StoreNext
  <2>1. call \in Call /\ call.dst \in Array /\ call.index \in 0..Len(call.values) - 1
    <3>1. call # Idle
      BY <1>11 DEF StoreNext, Storing, Appending, Idle
    <3>2. call \in Call
      BY <3>1 DEF IInv, TypeOK
    <3>3. call.index \in Nat /\ Len(call.values) \in Nat /\ call.index < Len(call.values)
      BY <1>11, <3>2, LenProperties DEF Call, StoreNext
    <3> QED  BY <3>2, <3>3 DEF Call
  <2>2. PICK s \in Seq(Val), a \in Array, i \in Nat :
            s = call.values /\ a = call.dst /\ i = call.index /\ i < Len(s)
    BY <2>1, LenProperties DEF Call
  <2>3. s[i + 1] \in Val
    <3>1. i + 1 \in 1..Len(s)
      BY <2>2, LenProperties
    <3> QED  BY <3>1, ElementOfSeq
  <2>4. PICK w \in Val : w = s[i + 1]
    BY <2>3
  <2>5. /\ Retain(a, w) /\ items' = [items EXCEPT ![a] = Append(items[a], w)]
        /\ UNCHANGED callbacks
    BY <1>11, <2>2, <2>4 DEF StoreNext
  <2>6. PICK b \in Seq(Val), c \in Seq(Val) : b = items[a] /\ c = <<w>>
    <3>1. items[a] \in Seq(Val)
      BY <1>1
    <3>2. <<w>> \in Seq(Val)
      OBVIOUS
    <3> QED  BY <3>1, <3>2
  <2>7. Append(items[a], w) = b \o c /\ b \o c \in Seq(Val)
    BY <2>6, AppendIsConcat, ConcatProperties
  <2>8. \A v \in Val : Copies(v, b \o c) = Copies(v, items[a]) + (IF v = w THEN 1 ELSE 0)
    <3> SUFFICES ASSUME NEW v \in Val
                 PROVE  Copies(v, b \o c) = Copies(v, items[a]) + (IF v = w THEN 1 ELSE 0)
      OBVIOUS
    <3>1. Copies(v, b \o c) = Copies(v, b) + Copies(v, c)
      BY CopiesConcat
    <3>2. Copies(v, c) = IF v = w THEN 1 ELSE 0
      BY <2>6, CopiesOne
    <3> QED  BY <2>6, <3>1, <3>2
  <2> QED  BY <1>6, <2>5, <2>7, <2>8
<1>12. CASE StoreRefused
  <2>1. call.dst \in Array
    <3>1. call # Idle
      BY <1>12 DEF StoreRefused, Storing, Idle
    <3> QED  BY <3>1 DEF IInv, TypeOK, Call
  <2> QED  BY <1>2, <1>5, <1>12, <2>1 DEF StoreRefused
<1>13. CASE Reserve \/ ReserveFails \/ Return
  BY <1>2, <1>13 DEF Reserve, ReserveFails, Return
<1>14. ASSUME NEW a \in Array, NEW k \in Callbacks, NEW c \in Capacities, EFArrayCreateMutable(a, k, c)
       PROVE  RetainBalance'
  BY <1>7, <1>14 DEF EFArrayCreateMutable
<1>15. ASSUME NEW a \in Array, InsertRefused(a) PROVE RetainBalance'
  BY <1>2, <1>15 DEF InsertRefused
<1>16. ASSUME NEW a \in Array, NEW d, NEW k, NEW s, NEW m, BeginCreate(a, d, k, s, m) PROVE RetainBalance'
  BY <1>7, <1>16 DEF BeginCreate
<1>17. ASSUME NEW a \in Array, NEW b \in Array, EFArrayAppendValuesOfArray(a, b)
       PROVE  RetainBalance'
  BY <1>2, <1>17 DEF EFArrayAppendValuesOfArray
<1>18. CASE UNCHANGED vars
  BY <1>2, <1>18 DEF vars
<1> QED
  BY <1>8, <1>9, <1>10, <1>11, <1>12, <1>13, <1>14, <1>15, <1>16, <1>17, <1>18
     DEF Next, SingleCalls, StoreStep, EFArrayCreate, EFArrayCreateCopy

\* A value is retained exactly as often as it is stored in all arrays with the
\* object callbacks together, also half-way through a creation, a copy or a bulk
\* append and after one that failed: nothing is released that such an array still
\* stores, nothing stays retained that none of them holds, and the arrays with the
\* default callbacks, those of a negative capacity among them, disturb no balance.
THEOREM RetainsBalance == Spec => []RetainBalance
<1> DEFINE All == IInv /\ BoundInv /\ EmptyInv /\ RetainBalance
<1>1. Init => All
  <2> SUFFICES ASSUME Init PROVE All
    OBVIOUS
  <2>1. IInv
    BY InitIInv
  <2>2. Len(<<>>) = 0 /\ MaxCount \in Nat
    BY ArrayAssumption
  <2>3. BoundInv /\ EmptyInv
    BY <2>2 DEF Init, BoundInv, EmptyInv, Count
  <2>4. RetainBalance
    <3> SUFFICES ASSUME NEW v \in Val PROVE retained[v] = Cardinality(Places(v, Held))
      BY BalanceOfHeld DEF HeldBalance
    <3>1. Places(v, Held) = {}
      <4>1. \A p \in Array \X (1..MaxCount) : ~(p[2] <= Len(Held[p[1]]))
        BY <2>2 DEF Init, Held
      <4> QED  BY <4>1 DEF Places
    <3> QED  BY <3>1, FS_EmptySet DEF Init
  <2> QED  BY <2>1, <2>3, <2>4
<1>2. All /\ [Next]_vars => All'
  BY NextIInv, BoundStep, EmptyStep, BalanceNext
<1>3. All => RetainBalance
  OBVIOUS
<1> QED  BY <1>1, <1>2, <1>3, PTL DEF Spec
=============================================================================
