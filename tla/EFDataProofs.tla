---------------------------- MODULE EFDataProofs ----------------------------
(***************************************************************************)
(* Proofs about EFData: every block has one who will free it, the pointer  *)
(* that a client took stays valid, and data objects are what EFBytes       *)
(* promises, for any number of objects and blocks of any length.           *)
(***************************************************************************)
EXTENDS EFData, SequenceTheorems, TLAPS

(***************************************************************************)
(* The inductive invariant.                                                *)
(***************************************************************************)

DataObject == [buffer: Block, length: Length, isMutable: BOOLEAN, isInlined: BOOLEAN, freed: BOOLEAN]
MappingObject == [addr: Block, unmap: BOOLEAN]
HolderObject == [memory: Block, callback: Block]
Pointer == [of: Data, at: Block]

\* The types of the variables.
TypeOK == /\ heap \in [Block -> {Dead} \cup Seq(Cell)]
          /\ data \in [Data -> {Gone} \cup DataObject]
          /\ mapping \in {Gone} \cup MappingObject
          /\ holder \in {Gone} \cup HolderObject
          /\ client \subseteq Block
          /\ pointer \in {None} \cup Pointer

\* Only a mutable object loses its block.
FieldsInv == \A d \in Data : data[d] # Gone => /\ ~(data[d].isMutable /\ data[d].isInlined)
                                               /\ data[d].freed => data[d].isMutable

\* Data object d has to free block b.
Has(d, b) == /\ data[d] # Gone /\ ~data[d].freed /\ data[d].buffer = b
             /\ data[d].isMutable \/ data[d].isInlined

\* So has somebody else.
Keeper == {"client", "mapping", "memory", "callback"}
Keeps(k, b) == \/ k = "client" /\ b \in client
               \/ k = "mapping" /\ mapping # Gone /\ mapping.unmap /\ mapping.addr = b
               \/ k = "memory" /\ holder # Gone /\ holder.memory = b
               \/ k = "callback" /\ holder # Gone /\ holder.callback = b

\* Live blocks have an owner, and only they have; no block has two.
OwnersInv == \A b \in Block :
    /\ heap[b] # Dead <=> (\E d \in Data : Has(d, b)) \/ (\E k \in Keeper : Keeps(k, b))
    /\ \A d, e \in Data : Has(d, b) /\ Has(e, b) => d = e
    /\ \A k, l \in Keeper : Keeps(k, b) /\ Keeps(l, b) => k = l
    /\ \A d \in Data, k \in Keeper : ~(Has(d, b) /\ Keeps(k, b))

\* A usable object has its cells in a live block, an owner has exactly those of
\* its block, and no view shows a block that a data object owns.
CellsInv == \A d \in Data : Usable(d) =>
    /\ heap[data[d].buffer] # Dead
    /\ data[d].length <= Len(heap[data[d].buffer])
    /\ ~Viewing(d) => data[d].length = Len(heap[data[d].buffer])
    /\ Viewing(d) => \A e \in Data : ~Has(e, data[d].buffer)

\* The pointer is into a mutable object.
PointerInv == pointer # None => Mutable(pointer.of) /\ pointer.at = data[pointer.of].buffer

IInv == TypeOK /\ FieldsInv /\ OwnersInv /\ CellsInv /\ PointerInv

(***************************************************************************)
(* What the values are.                                                    *)
(***************************************************************************)

\* No value that stands for nothing is a block's cells or an object's fields.
LEMMA Distinct ==
    /\ Dead \notin Seq(Cell) /\ Gone \notin DataObject /\ Gone \notin MappingObject
    /\ Gone \notin HolderObject /\ None \notin Pointer
<1>1. Dead \notin Seq(Cell)
  BY DataAssumption, ElementOfSeq, SMT DEF Dead, Cell
<1>2. \A x \in DataObject : x # Gone
  <2> SUFFICES ASSUME NEW x \in DataObject, x = <<>> PROVE FALSE
    BY DEF Gone
  <2> QED BY SMT DEF DataObject
<1>3. \A x \in MappingObject : x # Gone
  <2> SUFFICES ASSUME NEW x \in MappingObject, x = <<>> PROVE FALSE
    BY DEF Gone
  <2> QED BY SMT DEF MappingObject
<1>4. \A x \in HolderObject : x # Gone
  <2> SUFFICES ASSUME NEW x \in HolderObject, x = <<>> PROVE FALSE
    BY DEF Gone
  <2> QED BY SMT DEF HolderObject
<1>5. \A x \in Pointer : x # None
  <2> SUFFICES ASSUME NEW x \in Pointer, x = <<>> PROVE FALSE
    BY DEF None
  <2> QED BY SMT DEF Pointer
<1> QED BY <1>1, <1>2, <1>3, <1>4, <1>5

\* Zeros(n) is n cells.
LEMMA ZerosCells == ASSUME NEW n \in Nat PROVE Zeros(n) \in Seq(Cell) /\ Len(Zeros(n)) = n
  BY SMT DEF Zeros, Cell

\* The first cells of a block are cells.
LEMMA StartCells ==
    ASSUME NEW s \in Seq(Cell), NEW n \in 0..Len(s)
    PROVE  /\ SubSeq(s, 1, n) \in Seq(Cell) /\ Len(SubSeq(s, 1, n)) = n
           /\ \A i \in 1..n : SubSeq(s, 1, n)[i] = s[i]
<1>1. 1 \in 1..Len(s)+1 /\ n \in 0..Len(s)
  BY LenProperties, SMT
<1> QED BY <1>1, SubSeqProperties, SMT

\* A sequence given cell by cell.
LEMMA CellsOf ==
    ASSUME NEW n \in Nat, NEW t, t = [i \in 1..n |-> t[i]], \A i \in 1..n : t[i] \in Cell
    PROVE  t \in Seq(Cell) /\ Len(t) = n /\ DOMAIN t = 1..n
<1>1. t \in [1..n -> Cell]
  BY SMT
<1> QED BY <1>1, SMT

\* What EFDataSetLength and EFDataIncreaseLength leave in the block of d: its
\* cells as far as they go, and zeros.
Grown(d, n) == [i \in 1..n |-> IF i <= data[d].length THEN heap[data[d].buffer][i] ELSE "0"]

\* A usable object: its block and its length.
LEMMA UsableFacts ==
    ASSUME IInv, NEW d \in Data, Usable(d)
    PROVE  /\ data[d] \in DataObject /\ data[d] # Gone
           /\ data[d].buffer \in Block /\ data[d].length \in Length /\ data[d].length \in Nat
           /\ heap[data[d].buffer] \in Seq(Cell) /\ heap[data[d].buffer] # Dead
           /\ Len(heap[data[d].buffer]) \in Nat
           /\ data[d].length <= Len(heap[data[d].buffer])
           /\ data[d].isMutable \in BOOLEAN /\ data[d].isInlined \in BOOLEAN
           /\ ~Viewing(d) => Has(d, data[d].buffer) /\ data[d].length = Len(heap[data[d].buffer])
           /\ ~(data[d].isMutable /\ data[d].isInlined)
<1>1. data[d] \in DataObject /\ data[d] # Gone
  BY DEF IInv, TypeOK, Usable
<1>2. /\ data[d].buffer \in Block /\ data[d].length \in Length
      /\ data[d].isMutable \in BOOLEAN /\ data[d].isInlined \in BOOLEAN
  BY <1>1 DEF DataObject
<1>3. data[d].length \in Nat
  BY <1>2, DataAssumption, SMT DEF Length
<1>4. /\ heap[data[d].buffer] # Dead /\ data[d].length <= Len(heap[data[d].buffer])
      /\ ~Viewing(d) => data[d].length = Len(heap[data[d].buffer])
  BY DEF IInv, CellsInv
<1>5. heap[data[d].buffer] \in Seq(Cell)
  BY <1>2, <1>4 DEF IInv, TypeOK
<1>6. Len(heap[data[d].buffer]) \in Nat
  BY <1>5, LenProperties
<1>7. ~Viewing(d) => Has(d, data[d].buffer)
  BY <1>1 DEF Viewing, Has, Usable
<1>8. ~(data[d].isMutable /\ data[d].isInlined)
  BY <1>1 DEF IInv, FieldsInv
<1> QED BY <1>1, <1>2, <1>3, <1>4, <1>5, <1>6, <1>7, <1>8

\* The outcomes of resizing d to n cells.
LEMMA ResizedOutcomes ==
    ASSUME IInv, NEW d \in Data, Mutable(d), NEW n \in Length, NEW r \in Resized(d, n)
    PROVE  \/ data[d].length = n /\ r.heap = heap /\ r.buffer = data[d].buffer /\ r.freed = FALSE
           \/ /\ data[d].length # n /\ r.buffer = data[d].buffer /\ r.freed = FALSE
              /\ r.heap = [heap EXCEPT ![data[d].buffer] = Grown(d, n)]
           \/ /\ data[d].length # n /\ r.buffer \in Fresh /\ r.freed = FALSE
              /\ r.heap = [heap EXCEPT ![data[d].buffer] = Dead, ![r.buffer] = Grown(d, n)]
           \/ /\ data[d].length # n /\ n = 0 /\ FreesEmpty /\ r.buffer = data[d].buffer /\ r.freed = TRUE
              /\ r.heap = [heap EXCEPT ![data[d].buffer] = Dead]
<1> DEFINE b == data[d].buffer
           cells == [i \in 1..n |-> IF i \in DOMAIN heap[b] THEN heap[b][i] ELSE "?"]
           Clear(s) == IF s.freed THEN s ELSE [s EXCEPT !.heap[s.buffer] = Cleared(@, data[d].length)]
<1>1. CASE data[d].length = n
  BY <1>1 DEF Resized
<1>2. CASE data[d].length # n
  <2>1. PICK s \in Reallocated(d, n) : r = Clear(s)
    BY <1>2 DEF Resized
  <2>2. /\ data[d].buffer \in Block /\ data[d].length \in Nat /\ n \in Nat
        /\ heap[b] \in Seq(Cell) /\ data[d].length = Len(heap[b])
    <3>1. Usable(d) /\ ~Viewing(d)
      BY DEF Mutable, Viewing
    <3> QED BY <3>1, UsableFacts, DataAssumption DEF Length, Usable
  <2>3. Cleared(cells, data[d].length) = Grown(d, n)
    <3>1. DOMAIN heap[b] = 1..data[d].length
      BY <2>2, LenProperties
    <3> HIDE DEF b
    <3> QED BY <2>2, <3>1, SMT DEF Cleared, Grown, b
  <2>4. \/ s = [heap |-> [heap EXCEPT ![b] = cells], buffer |-> b, freed |-> FALSE]
        \/ \E f \in Fresh : s = [heap |-> [heap EXCEPT ![b] = Dead, ![f] = cells], buffer |-> f, freed |-> FALSE]
        \/ n = 0 /\ FreesEmpty /\ s = [heap |-> [heap EXCEPT ![b] = Dead], buffer |-> b, freed |-> TRUE]
    BY <2>1 DEF Reallocated
  <2>5. heap = [x \in Block |-> heap[x]]
    BY DEF IInv, TypeOK
  <2> HIDE DEF b, cells
  <2>6. CASE s = [heap |-> [heap EXCEPT ![b] = cells], buffer |-> b, freed |-> FALSE]
    <3>1. s.buffer = b /\ s.heap = [heap EXCEPT ![b] = cells] /\ s.freed = FALSE /\ b \in Block
      BY <2>6, <2>2 DEF b
    <3>2. r = [s EXCEPT !.heap = [s.heap EXCEPT ![b] = Cleared(s.heap[b], data[d].length)]]
      BY <2>1, <3>1
    <3>3. r.buffer = b /\ r.freed = FALSE /\ r.heap = [s.heap EXCEPT ![b] = Cleared(s.heap[b], data[d].length)]
      BY <3>2, <2>6
    <3>4. s.heap[b] = cells
      BY <3>1, <2>5
    <3>5. r.heap = [heap EXCEPT ![b] = Grown(d, n)]
      BY <3>3, <3>4, <3>1, <2>3, <2>5
    <3> QED BY <3>3, <3>5, <1>2 DEF b
  <2>7. CASE \E f \in Fresh : s = [heap |-> [heap EXCEPT ![b] = Dead, ![f] = cells], buffer |-> f, freed |-> FALSE]
    <3>0. PICK f \in Fresh : s = [heap |-> [heap EXCEPT ![b] = Dead, ![f] = cells], buffer |-> f, freed |-> FALSE]
      BY <2>7
    <3>1. /\ s.buffer = f /\ s.heap = [heap EXCEPT ![b] = Dead, ![f] = cells]
          /\ s.freed = FALSE /\ b \in Block /\ f \in Block
      BY <3>0, <2>2 DEF b, Fresh
    <3>2. r = [s EXCEPT !.heap = [s.heap EXCEPT ![f] = Cleared(s.heap[f], data[d].length)]]
      BY <2>1, <3>1
    <3>3. r.buffer = f /\ r.freed = FALSE /\ r.heap = [s.heap EXCEPT ![f] = Cleared(s.heap[f], data[d].length)]
      BY <3>2, <3>0
    <3>4. s.heap[f] = cells
      BY <3>1, <2>5
    <3>5. r.heap = [heap EXCEPT ![b] = Dead, ![f] = Grown(d, n)]
      BY <3>3, <3>4, <3>1, <2>3, <2>5
    <3> QED BY <3>3, <3>5, <1>2 DEF b
  <2>8. CASE n = 0 /\ FreesEmpty /\ s = [heap |-> [heap EXCEPT ![b] = Dead], buffer |-> b, freed |-> TRUE]
    BY <2>8, <2>1, <1>2 DEF b
  <2> QED BY <2>4, <2>6, <2>7, <2>8
<1> QED BY <1>1, <1>2

\* Grown cells are cells, as many as asked for.
LEMMA GrownCells ==
    ASSUME IInv, NEW d \in Data, Mutable(d), NEW n \in Nat
    PROVE  /\ Grown(d, n) \in Seq(Cell) /\ Len(Grown(d, n)) = n
           /\ \A i \in 1..n : Grown(d, n)[i] = IF i <= data[d].length THEN heap[data[d].buffer][i] ELSE "0"
<1>1. /\ data[d].buffer \in Block /\ data[d].length \in Nat
      /\ heap[data[d].buffer] \in Seq(Cell) /\ data[d].length = Len(heap[data[d].buffer])
  <2>1. Usable(d) /\ ~Viewing(d)
    BY DEF Mutable, Viewing
  <2> QED BY <2>1, UsableFacts
<1>2. \A i \in 1..data[d].length : heap[data[d].buffer][i] \in Cell
  BY <1>1, ElementOfSeq
<1>3. "0" \in Cell
  BY DEF Cell
<1>4. \A i \in 1..n : Grown(d, n)[i] = IF i <= data[d].length THEN heap[data[d].buffer][i] ELSE "0"
  BY DEF Grown
<1>5. \A i \in 1..n : Grown(d, n)[i] \in Cell
  BY <1>1, <1>2, <1>3, <1>4, SMT
<1>6. Grown(d, n) = [i \in 1..n |-> Grown(d, n)[i]]
  BY DEF Grown
<1> QED BY <1>4, <1>5, <1>6, CellsOf

(***************************************************************************)
(* What the calls do to owners and cells.  Each lemma is about one kind of *)
(* change; the actions are of these kinds.                                 *)
(***************************************************************************)

\* The object e stays as it is, its block keeps its length and no data object
\* becomes its owner; or e has exactly the cells of a block of its own; or e
\* shows cells of a block that no data object owns.
CellsKept(e) == /\ data'[e] = data[e] /\ heap'[data[e].buffer] # Dead
                /\ Len(heap'[data[e].buffer]) = Len(heap[data[e].buffer])
                /\ \A g \in Data : \A x : x = data[e].buffer /\ ~Has(g, x) => ~Has(g, x)'
CellsSet(e) == /\ ~Viewing(e)' /\ heap'[data'[e].buffer] # Dead
               /\ data'[e].length \in Nat /\ data'[e].length = Len(heap'[data'[e].buffer])
CellsShown(e) == /\ Viewing(e)' /\ heap'[data'[e].buffer] # Dead
                 /\ data'[e].length <= Len(heap'[data'[e].buffer])
                 /\ \A g \in Data : \A x : x = data'[e].buffer => ~Has(g, x)'

\* That is all it takes for the cells of the usable objects to be right again.
LEMMA CellsInvKept ==
    ASSUME IInv, \A e \in Data : Usable(e)' => CellsKept(e) \/ CellsSet(e) \/ CellsShown(e)
    PROVE  CellsInv'
<1> SUFFICES ASSUME NEW e \in Data, Usable(e)' PROVE
        /\ heap'[data'[e].buffer] # Dead
        /\ data'[e].length <= Len(heap'[data'[e].buffer])
        /\ ~Viewing(e)' => data'[e].length = Len(heap'[data'[e].buffer])
        /\ Viewing(e)' => \A g \in Data : ~Has(g, data[e].buffer)'
  BY DEF CellsInv
<1>1. CASE CellsSet(e)
  BY <1>1, SMT DEF CellsSet
<1>2. CASE CellsKept(e)
  <2>1. data'[e] = data[e] /\ Usable(e) /\ (Viewing(e)' <=> Viewing(e))
    BY <1>2 DEF CellsKept, Usable, Viewing
  <2>2. /\ data[e].length <= Len(heap[data[e].buffer])
        /\ ~Viewing(e) => data[e].length = Len(heap[data[e].buffer])
        /\ Viewing(e) => \A g \in Data : ~Has(g, data[e].buffer)
    BY <2>1 DEF IInv, CellsInv
  <2>3. Viewing(e)' => \A g \in Data : ~Has(g, data[e].buffer)'
    <3> SUFFICES ASSUME Viewing(e)', NEW g \in Data PROVE ~Has(g, data[e].buffer)'
      OBVIOUS
    <3>1. ~Has(g, data[e].buffer)
      BY <2>1, <2>2
    <3>2. \A x : x = data[e].buffer => ~Has(g, x)'
      BY <3>1, <1>2 DEF CellsKept
    <3> QED BY <3>2, <2>1 DEF Has
  <2> QED BY <1>2, <2>1, <2>2, <2>3 DEF CellsKept
<1>3. CASE CellsShown(e)
  <2>1. Viewing(e)' => \A g \in Data : ~Has(g, data[e].buffer)'
    <3> SUFFICES ASSUME NEW g \in Data PROVE ~Has(g, data[e].buffer)'
      OBVIOUS
    <3> QED BY <1>3 DEF CellsShown, Has
  <2> QED BY <1>3, <2>1 DEF CellsShown
<1> QED BY <1>1, <1>2, <1>3

\* A new object gets a block that was free.
LEMMA Gets ==
    ASSUME IInv, NEW d \in Data, NEW b \in Block, NEW t \in Seq(Cell), NEW X \in DataObject,
           data[d] = Gone, heap[b] = Dead,
           X.buffer = b, ~X.freed, X.length = Len(t), X.isMutable \/ X.isInlined, ~(X.isMutable /\ X.isInlined),
           heap' = [heap EXCEPT ![b] = t], data' = [data EXCEPT ![d] = X],
           UNCHANGED <<mapping, holder, client, pointer>>
    PROVE  IInv'
<1>1. X # Gone /\ t # Dead
  BY Distinct
<1>2. data'[d] = X /\ (\A e \in Data : e # d => data'[e] = data[e])
  BY DEF IInv, TypeOK
<1>3. heap'[b] = t /\ (\A x \in Block : x # b => heap'[x] = heap[x])
  BY DEF IInv, TypeOK
<1>4. \A k, x : Keeps(k, x)' <=> Keeps(k, x)
  BY DEF Keeps
<1>5. \A x : Has(d, x)' <=> x = b
  BY <1>1, <1>2 DEF Has
<1>6. \A e \in Data : \A x : e # d => (Has(e, x)' <=> Has(e, x))
  BY <1>2 DEF Has
<1>7. \A x : ~Has(d, x)
  BY DEF Has
<1>8. (\A e \in Data : ~Has(e, b)) /\ (\A k \in Keeper : ~Keeps(k, b))
  BY DEF IInv, OwnersInv
<1>9. TypeOK'
  <2>1. heap' \in [Block -> {Dead} \cup Seq(Cell)]
    BY DEF IInv, TypeOK
  <2>2. data' \in [Data -> {Gone} \cup DataObject]
    BY <1>1 DEF IInv, TypeOK
  <2> QED BY <2>1, <2>2 DEF IInv, TypeOK
<1>10. FieldsInv'
  BY <1>1, <1>2 DEF IInv, FieldsInv
<1>11. OwnersInv'
  <2> SUFFICES ASSUME NEW x \in Block PROVE
        /\ heap'[x] # Dead <=> (\E e \in Data : Has(e, x)') \/ (\E k \in Keeper : Keeps(k, x)')
        /\ \A e, g \in Data : Has(e, x)' /\ Has(g, x)' => e = g
        /\ \A k, l \in Keeper : Keeps(k, x)' /\ Keeps(l, x)' => k = l
        /\ \A e \in Data, k \in Keeper : ~(Has(e, x)' /\ Keeps(k, x)')
    BY DEF OwnersInv, Keeper
  <2>1. CASE x = b
    BY <2>1, <1>1, <1>3, <1>4, <1>5, <1>6, <1>8
  <2>2. CASE x # b
    BY <2>2, <1>3, <1>4, <1>5, <1>6, <1>7 DEF IInv, OwnersInv
  <2> QED BY <2>1, <2>2
<1>12. CellsInv'
  <2> SUFFICES ASSUME NEW e \in Data, Usable(e)'
               PROVE  CellsKept(e) \/ CellsSet(e) \/ CellsShown(e)
    BY CellsInvKept
  <2>1. CASE e = d
    <3>1. ~Viewing(e)'
      BY <2>1, <1>2 DEF Viewing
    <3> QED BY <2>1, <3>1, <1>1, <1>2, <1>3, LenProperties DEF CellsSet
  <2>2. CASE e # d
    <3>1. Usable(e) /\ data'[e] = data[e]
      BY <2>2, <1>2 DEF Usable
    <3>2. data[e].buffer \in Block /\ heap[data[e].buffer] # Dead
      BY <3>1, UsableFacts
    <3>3. data[e].buffer # b /\ heap'[data[e].buffer] = heap[data[e].buffer]
      BY <3>2, <1>3
    <3>4. \A g \in Data : \A x : x = data[e].buffer /\ ~Has(g, x) => ~Has(g, x)'
      BY <3>3, <1>5, <1>6
    <3> QED BY <3>1, <3>2, <3>3, <3>4 DEF CellsKept
  <2> QED BY <2>1, <2>2
<1>13. PointerInv'
  <2> SUFFICES ASSUME pointer # None PROVE Mutable(pointer.of)' /\ pointer.at = data'[pointer.of].buffer
    BY DEF PointerInv
  <2>1. pointer.of \in Data /\ Mutable(pointer.of) /\ pointer.at = data[pointer.of].buffer
    BY DEF IInv, TypeOK, Pointer, PointerInv
  <2>2. pointer.of # d
    BY <2>1 DEF Mutable, Usable
  <2> QED BY <2>1, <2>2, <1>2 DEF Mutable, Usable
<1> QED BY <1>9, <1>10, <1>11, <1>12, <1>13 DEF IInv

\* A new object shows a block that no data object owns.
LEMMA Shows ==
    ASSUME IInv, NEW d \in Data, NEW b \in Block, NEW X \in DataObject,
           data[d] = Gone, heap[b] # Dead, \A e \in Data : ~Has(e, b),
           X.buffer = b, ~X.freed, X.length <= Len(heap[b]), ~X.isMutable, ~X.isInlined,
           data' = [data EXCEPT ![d] = X],
           UNCHANGED <<heap, mapping, holder, client, pointer>>
    PROVE  IInv'
<1>1. X # Gone
  BY Distinct
<1>2. data'[d] = X /\ (\A e \in Data : e # d => data'[e] = data[e])
  BY DEF IInv, TypeOK
<1>3. \A k, x : Keeps(k, x)' <=> Keeps(k, x)
  BY DEF Keeps
<1>4. \A e \in Data : \A x : Has(e, x)' <=> Has(e, x)
  BY <1>2 DEF Has
<1>5. TypeOK'
  BY DEF IInv, TypeOK
<1>6. FieldsInv'
  <2>1. \A e \in Data : data'[e] # Gone => /\ ~(data'[e].isMutable /\ data'[e].isInlined)
                                           /\ data'[e].freed => data'[e].isMutable
    BY <1>1, <1>2 DEF IInv, FieldsInv
  <2> QED BY <2>1 DEF IInv, FieldsInv
<1>7. OwnersInv'
  BY <1>3, <1>4 DEF IInv, OwnersInv
<1>8. CellsInv'
  <2> SUFFICES ASSUME NEW e \in Data, Usable(e)'
               PROVE  CellsKept(e) \/ CellsSet(e) \/ CellsShown(e)
    BY CellsInvKept
  <2>1. CASE e = d
    BY <2>1, <1>1, <1>2, <1>4 DEF CellsShown, Viewing, Usable
  <2>2. CASE e # d
    <3>1. Usable(e) /\ data'[e] = data[e]
      BY <2>2, <1>2 DEF Usable
    <3>2. heap[data[e].buffer] # Dead
      BY <3>1, UsableFacts
    <3> QED BY <3>1, <3>2, <1>4 DEF CellsKept
  <2> QED BY <2>1, <2>2
<1>9. PointerInv'
  <2> SUFFICES ASSUME pointer # None PROVE Mutable(pointer.of)' /\ pointer.at = data'[pointer.of].buffer
    BY DEF PointerInv
  <2>1. pointer.of \in Data /\ Mutable(pointer.of) /\ pointer.at = data[pointer.of].buffer
    BY DEF IInv, TypeOK, Pointer, PointerInv
  <2>2. pointer.of # d
    BY <2>1 DEF Mutable, Usable
  <2> QED BY <2>1, <2>2, <1>2 DEF Mutable, Usable
<1> QED BY <1>5, <1>6, <1>7, <1>8, <1>9 DEF IInv

\* The last reference to d goes, and its block if d owns it.
LEMMA Drops == ASSUME IInv, NEW d \in Data, Release(d), ~undefined' PROVE IInv'
<1>0. Usable(d) /\ data[d] # Gone /\ ~data[d].freed
  BY DEF Release, Usable
<1> DEFINE b == data[d].buffer
<1>1. b \in Block
  BY <1>0, UsableFacts
<1>2. data'[d] = Gone /\ (\A e \in Data : e # d => data'[e] = data[e])
  BY DEF Release, IInv, TypeOK
<1>3. \A x \in Block : heap'[x] = IF Has(d, x) THEN Dead ELSE heap[x]
  BY <1>0 DEF Release, FreedWith, Has
<1>4. \A k, x : Keeps(k, x)' <=> Keeps(k, x)
  BY DEF Release, Keeps
<1>5. \A x : ~Has(d, x)'
  BY <1>2 DEF Has
<1>6. \A e \in Data : \A x : e # d => (Has(e, x)' <=> Has(e, x))
  BY <1>2 DEF Has
<1> HIDE DEF b
<1>7. TypeOK'
  <2>1. heap' \in [Block -> {Dead} \cup Seq(Cell)]
    BY DEF IInv, TypeOK, Release
  <2>2. data' \in [Data -> {Gone} \cup DataObject]
    BY DEF IInv, TypeOK, Release
  <2>3. pointer' \in {None} \cup Pointer
    BY DEF IInv, TypeOK, Release
  <2> QED BY <2>1, <2>2, <2>3 DEF IInv, TypeOK, Release
<1>8. FieldsInv'
  <2>1. \A e \in Data : data'[e] # Gone => e # d /\ data'[e] = data[e]
    BY <1>2
  <2> QED BY <2>1 DEF IInv, FieldsInv, Release
<1>9. OwnersInv'
  <2> SUFFICES ASSUME NEW x \in Block PROVE
        /\ heap'[x] # Dead <=> (\E e \in Data : Has(e, x)') \/ (\E k \in Keeper : Keeps(k, x)')
        /\ \A e, g \in Data : Has(e, x)' /\ Has(g, x)' => e = g
        /\ \A k, l \in Keeper : Keeps(k, x)' /\ Keeps(l, x)' => k = l
        /\ \A e \in Data, k \in Keeper : ~(Has(e, x)' /\ Keeps(k, x)')
    BY DEF OwnersInv, Keeper
  <2>1. CASE Has(d, x)
    BY <2>1, <1>3, <1>4, <1>5, <1>6 DEF IInv, OwnersInv
  <2>2. CASE ~Has(d, x)
    BY <2>2, <1>3, <1>4, <1>5, <1>6 DEF IInv, OwnersInv
  <2> QED BY <2>1, <2>2
<1>10. CellsInv'
  <2> SUFFICES ASSUME NEW e \in Data, Usable(e)'
               PROVE  CellsKept(e)
    BY CellsInvKept
  <2>1. e # d /\ data'[e] = data[e] /\ Usable(e)
    BY <1>2 DEF Usable
  <2>2. data[e].buffer \in Block /\ heap[data[e].buffer] # Dead
    BY <2>1, UsableFacts
  <2>3. ~Has(d, data[e].buffer)
    <3>1. CASE Viewing(e)
      BY <3>1, <2>1 DEF IInv, CellsInv
    <3>2. CASE ~Viewing(e)
      <4>1. Has(e, data[e].buffer)
        BY <3>2, <2>1, UsableFacts
      <4> QED BY <4>1, <2>1, <2>2 DEF IInv, OwnersInv
    <3> QED BY <3>1, <3>2
  <2> QED BY <2>1, <2>2, <2>3, <1>3, <1>5, <1>6 DEF CellsKept
<1>11. PointerInv'
  <2> SUFFICES ASSUME pointer' # None
               PROVE  Mutable(pointer.of)' /\ pointer'.at = data'[pointer'.of].buffer
    BY DEF PointerInv
  <2>1. pointer' = pointer /\ pointer.of # d /\ pointer # None
    BY DEF Release
  <2>2. pointer.of \in Data /\ Mutable(pointer.of) /\ pointer.at = data[pointer.of].buffer
    BY <2>1 DEF IInv, TypeOK, Pointer, PointerInv
  <2> QED BY <2>1, <2>2, <1>2 DEF Mutable, Usable
<1> QED BY <1>7, <1>8, <1>9, <1>10, <1>11 DEF IInv

\* Two usable objects that do not both show have different blocks.
LEMMA OwnBlocks ==
    ASSUME IInv, NEW d \in Data, NEW e \in Data, d # e, Usable(d), Usable(e), ~Viewing(d)
    PROVE  data[e].buffer # data[d].buffer
<1>1. Has(d, data[d].buffer) /\ data[d].buffer \in Block
  BY UsableFacts
<1>2. CASE Viewing(e)
  BY <1>1, <1>2 DEF IInv, CellsInv
<1>3. CASE ~Viewing(e)
  <2>1. Has(e, data[e].buffer)
    BY <1>3, UsableFacts
  <2> QED BY <1>1, <2>1 DEF IInv, OwnersInv
<1> QED BY <1>2, <1>3

\* The pointer stays valid when it stays, unless the buffer of its object moves.
LEMMA PointerKept ==
    ASSUME IInv, NEW d \in Data, pointer' \in {pointer, None},
           \A e \in Data : e # d => data'[e] = data[e],
           pointer' # None /\ pointer.of = d => Mutable(d)' /\ data'[d].buffer = data[d].buffer
    PROVE  PointerInv'
<1> SUFFICES ASSUME pointer' # None
             PROVE  Mutable(pointer.of)' /\ pointer'.at = data'[pointer'.of].buffer
  BY DEF PointerInv
<1>1. pointer' = pointer /\ pointer # None
  OBVIOUS
<1>2. pointer.of \in Data /\ Mutable(pointer.of) /\ pointer.at = data[pointer.of].buffer
  BY <1>1 DEF IInv, TypeOK, Pointer, PointerInv
<1>3. CASE pointer.of = d
  <2>1. Mutable(d)' /\ data'[d].buffer = data[d].buffer
    BY <1>3
  <2> QED BY <2>1, <1>1, <1>2, <1>3 DEF Mutable, Usable
<1>4. CASE pointer.of # d
  BY <1>1, <1>2, <1>4 DEF Mutable, Usable
<1> QED BY <1>3, <1>4

\* A mutable object has other cells, in its block or in one that was free.
LEMMA Moves ==
    ASSUME IInv, NEW d \in Data, Mutable(d), NEW f \in Block, NEW t \in Seq(Cell), NEW X \in DataObject,
           f = data[d].buffer \/ heap[f] = Dead,
           heap' \in [Block -> {Dead} \cup Seq(Cell)], heap'[f] = t,
           f # data[d].buffer => heap'[data[d].buffer] = Dead,
           \A x \in Block : x # f /\ x # data[d].buffer => heap'[x] = heap[x],
           X.buffer = f, ~X.freed, X.length = Len(t), X.isMutable, ~X.isInlined,
           data' = [data EXCEPT ![d] = X],
           pointer' \in {pointer, None}, pointer' # None /\ pointer.of = d => f = data[d].buffer,
           UNCHANGED <<mapping, holder, client>>
    PROVE  IInv'
<1> DEFINE b == data[d].buffer
<1>1. X # Gone /\ t # Dead
  BY Distinct
<1>2. data'[d] = X /\ (\A e \in Data : e # d => data'[e] = data[e])
  BY DEF IInv, TypeOK
<1>3. Usable(d) /\ b \in Block /\ Has(d, b) /\ ~Viewing(d) /\ heap[b] # Dead
  <2>1. Usable(d) /\ ~Viewing(d)
    BY DEF Mutable, Viewing
  <2> QED BY <2>1, UsableFacts
<1>4. f # b => heap[f] = Dead
  OBVIOUS
<1>5. \A k, x : Keeps(k, x)' <=> Keeps(k, x)
  BY DEF Keeps
<1>6. \A x : Has(d, x)' <=> x = f
  BY <1>1, <1>2 DEF Has
<1>7. \A e \in Data : \A x : e # d => (Has(e, x)' <=> Has(e, x))
  BY <1>2 DEF Has
<1>8. \A x : Has(d, x) => x = b
  BY DEF Has
<1>9. TypeOK'
  <2>1. data' \in [Data -> {Gone} \cup DataObject]
    BY DEF IInv, TypeOK
  <2> QED BY <2>1 DEF IInv, TypeOK
<1>10. FieldsInv'
  <2>1. \A e \in Data : data'[e] # Gone => /\ ~(data'[e].isMutable /\ data'[e].isInlined)
                                           /\ data'[e].freed => data'[e].isMutable
    BY <1>1, <1>2 DEF IInv, FieldsInv
  <2> QED BY <2>1 DEF IInv, FieldsInv
<1>11. OwnersInv'
  <2> SUFFICES ASSUME NEW x \in Block PROVE
        /\ heap'[x] # Dead <=> (\E e \in Data : Has(e, x)') \/ (\E k \in Keeper : Keeps(k, x)')
        /\ \A e, g \in Data : Has(e, x)' /\ Has(g, x)' => e = g
        /\ \A k, l \in Keeper : Keeps(k, x)' /\ Keeps(l, x)' => k = l
        /\ \A e \in Data, k \in Keeper : ~(Has(e, x)' /\ Keeps(k, x)')
    BY DEF OwnersInv, Keeper
  <2>0. /\ heap[x] # Dead <=> (\E e \in Data : Has(e, x)) \/ (\E k \in Keeper : Keeps(k, x))
        /\ \A e, g \in Data : Has(e, x) /\ Has(g, x) => e = g
        /\ \A k, l \in Keeper : Keeps(k, x) /\ Keeps(l, x) => k = l
        /\ \A e \in Data, k \in Keeper : ~(Has(e, x) /\ Keeps(k, x))
    BY DEF IInv, OwnersInv
  <2> HIDE DEF b
  <2>1. CASE x = f /\ f = b
    BY <2>0, <2>1, <1>1, <1>3, <1>5, <1>6, <1>7
  <2>2. CASE x = f /\ f # b
    BY <2>0, <2>2, <1>1, <1>4, <1>5, <1>6, <1>7
  <2>3. CASE x # f /\ x = b
    <3>1. heap'[x] = Dead
      BY <2>3 DEF b
    <3> QED BY <2>0, <2>3, <3>1, <1>3, <1>5, <1>6, <1>7
  <2>4. CASE x # f /\ x # b
    <3>1. heap'[x] = heap[x]
      BY <2>4 DEF b
    <3> QED BY <2>0, <2>4, <3>1, <1>5, <1>6, <1>7, <1>8
  <2> QED BY <2>1, <2>2, <2>3, <2>4
<1>12. CellsInv'
  <2> SUFFICES ASSUME NEW e \in Data, Usable(e)'
               PROVE  CellsKept(e) \/ CellsSet(e)
    BY CellsInvKept
  <2>1. CASE e = d
    <3>1. ~Viewing(e)'
      BY <2>1, <1>2 DEF Viewing
    <3> QED BY <2>1, <3>1, <1>1, <1>2, LenProperties DEF CellsSet
  <2>2. CASE e # d
    <3>1. Usable(e) /\ data'[e] = data[e]
      BY <2>2, <1>2 DEF Usable
    <3>2. data[e].buffer \in Block /\ heap[data[e].buffer] # Dead
      BY <3>1, UsableFacts
    <3>3. data[e].buffer # b
      BY <2>2, <3>1, <1>3, OwnBlocks
    <3>4. data[e].buffer # f /\ heap'[data[e].buffer] = heap[data[e].buffer]
      BY <3>2, <3>3, <1>4
    <3>5. \A g \in Data : \A x : x = data[e].buffer /\ ~Has(g, x) => ~Has(g, x)'
      BY <3>4, <1>6, <1>7
    <3> QED BY <3>1, <3>2, <3>4, <3>5 DEF CellsKept
  <2> QED BY <2>1, <2>2
<1>13. PointerInv'
  <2>1. pointer' # None /\ pointer.of = d => Mutable(d)' /\ data'[d].buffer = data[d].buffer
    BY <1>1, <1>2 DEF Mutable, Usable
  <2> QED BY <2>1, <1>2, PointerKept
<1> QED BY <1>9, <1>10, <1>11, <1>12, <1>13 DEF IInv

\* A mutable object loses its block.
LEMMA Loses ==
    ASSUME IInv, NEW d \in Data, Mutable(d), NEW X \in DataObject,
           heap' = [heap EXCEPT ![data[d].buffer] = Dead],
           X.freed, X.isMutable, ~X.isInlined,
           data' = [data EXCEPT ![d] = X],
           pointer' \in {pointer, None}, ~(pointer' # None /\ pointer.of = d),
           UNCHANGED <<mapping, holder, client>>
    PROVE  IInv'
<1> DEFINE b == data[d].buffer
<1>1. X # Gone
  BY Distinct
<1>2. data'[d] = X /\ (\A e \in Data : e # d => data'[e] = data[e])
  BY DEF IInv, TypeOK
<1>3. Usable(d) /\ b \in Block /\ Has(d, b) /\ ~Viewing(d)
  <2>1. Usable(d) /\ ~Viewing(d)
    BY DEF Mutable, Viewing
  <2> QED BY <2>1, UsableFacts
<1>4. heap'[b] = Dead /\ \A x \in Block : x # b => heap'[x] = heap[x]
  BY <1>3 DEF IInv, TypeOK
<1>5. \A k, x : Keeps(k, x)' <=> Keeps(k, x)
  BY DEF Keeps
<1>6. \A x : ~Has(d, x)'
  BY <1>1, <1>2 DEF Has
<1>7. \A e \in Data : \A x : e # d => (Has(e, x)' <=> Has(e, x))
  BY <1>2 DEF Has
<1>8. \A x : Has(d, x) => x = b
  BY DEF Has
<1>9. TypeOK'
  <2>1. data' \in [Data -> {Gone} \cup DataObject]
    BY DEF IInv, TypeOK
  <2>2. heap' \in [Block -> {Dead} \cup Seq(Cell)]
    BY DEF IInv, TypeOK
  <2> QED BY <2>1, <2>2 DEF IInv, TypeOK
<1>10. FieldsInv'
  <2>1. \A e \in Data : data'[e] # Gone => /\ ~(data'[e].isMutable /\ data'[e].isInlined)
                                           /\ data'[e].freed => data'[e].isMutable
    BY <1>1, <1>2 DEF IInv, FieldsInv
  <2> QED BY <2>1 DEF IInv, FieldsInv
<1>11. OwnersInv'
  <2> SUFFICES ASSUME NEW x \in Block PROVE
        /\ heap'[x] # Dead <=> (\E e \in Data : Has(e, x)') \/ (\E k \in Keeper : Keeps(k, x)')
        /\ \A e, g \in Data : Has(e, x)' /\ Has(g, x)' => e = g
        /\ \A k, l \in Keeper : Keeps(k, x)' /\ Keeps(l, x)' => k = l
        /\ \A e \in Data, k \in Keeper : ~(Has(e, x)' /\ Keeps(k, x)')
    BY DEF OwnersInv, Keeper
  <2>0. /\ heap[x] # Dead <=> (\E e \in Data : Has(e, x)) \/ (\E k \in Keeper : Keeps(k, x))
        /\ \A e, g \in Data : Has(e, x) /\ Has(g, x) => e = g
        /\ \A k, l \in Keeper : Keeps(k, x) /\ Keeps(l, x) => k = l
        /\ \A e \in Data, k \in Keeper : ~(Has(e, x) /\ Keeps(k, x))
    BY DEF IInv, OwnersInv
  <2> HIDE DEF b
  <2>2. CASE x = b
    BY <2>0, <2>2, <1>3, <1>4, <1>5, <1>6, <1>7
  <2>3. CASE x # b
    BY <2>0, <2>3, <1>4, <1>5, <1>6, <1>7, <1>8
  <2> QED BY <2>2, <2>3
<1>12. CellsInv'
  <2> SUFFICES ASSUME NEW e \in Data, Usable(e)'
               PROVE  CellsKept(e)
    BY CellsInvKept
  <2>2. e # d
    BY <1>1, <1>2 DEF Usable
  <2>3. Usable(e) /\ data'[e] = data[e]
    BY <2>2, <1>2 DEF Usable
  <2>4. data[e].buffer \in Block /\ heap[data[e].buffer] # Dead
    BY <2>3, UsableFacts
  <2>5. data[e].buffer # b
    BY <2>2, <2>3, <1>3, OwnBlocks
  <2>6. heap'[data[e].buffer] = heap[data[e].buffer]
    BY <2>4, <2>5, <1>4
  <2>7. \A g \in Data : \A x : x = data[e].buffer /\ ~Has(g, x) => ~Has(g, x)'
    BY <1>6, <1>7
  <2> QED BY <2>3, <2>4, <2>6, <2>7 DEF CellsKept
<1>13. PointerInv'
  BY <1>2, PointerKept
<1> QED BY <1>9, <1>10, <1>11, <1>12, <1>13 DEF IInv

\* The objects stay, and so do their blocks, up to what is in them.
LEMMA DataStays ==
    ASSUME IInv, UNCHANGED data, pointer' = pointer,
           \A e \in Data : Usable(e) => /\ heap'[data[e].buffer] # Dead
                                        /\ Len(heap'[data[e].buffer]) = Len(heap[data[e].buffer])
    PROVE  CellsInv' /\ PointerInv' /\ \A e \in Data : \A x : Has(e, x)' <=> Has(e, x)
<1>1. \A e \in Data : \A x : Has(e, x)' <=> Has(e, x)
  BY DEF Has
<1>2. CellsInv'
  <2> SUFFICES ASSUME NEW e \in Data, Usable(e)'
               PROVE  CellsKept(e)
    BY CellsInvKept
  <2>1. Usable(e)
    BY DEF Usable
  <2> QED BY <2>1, <1>1 DEF CellsKept
<1>3. PointerInv'
  BY DEF IInv, PointerInv, Mutable, Usable
<1> QED BY <1>1, <1>2, <1>3

\* Cells of a live block are written.
LEMMA Writes ==
    ASSUME IInv, NEW b \in Block, NEW t \in Seq(Cell), heap[b] # Dead, Len(t) = Len(heap[b]),
           heap' = [heap EXCEPT ![b] = t], UNCHANGED <<data, mapping, holder, client, pointer>>
    PROVE  IInv'
<1>1. t # Dead
  BY Distinct
<1>2. heap'[b] = t /\ \A x \in Block : x # b => heap'[x] = heap[x]
  BY DEF IInv, TypeOK
<1>3. \A e \in Data : Usable(e) => /\ heap'[data[e].buffer] # Dead
                                   /\ Len(heap'[data[e].buffer]) = Len(heap[data[e].buffer])
  <2> SUFFICES ASSUME NEW e \in Data, Usable(e)
               PROVE  /\ heap'[data[e].buffer] # Dead
                      /\ Len(heap'[data[e].buffer]) = Len(heap[data[e].buffer])
    OBVIOUS
  <2>1. data[e].buffer \in Block /\ heap[data[e].buffer] # Dead
    BY UsableFacts
  <2> QED BY <2>1, <1>1, <1>2
<1>4. CellsInv' /\ PointerInv' /\ \A e \in Data : \A x : Has(e, x)' <=> Has(e, x)
  BY <1>3, DataStays
<1>5. \A k, x : Keeps(k, x)' <=> Keeps(k, x)
  BY DEF Keeps
<1>6. \A x \in Block : heap'[x] # Dead <=> heap[x] # Dead
  BY <1>1, <1>2
<1>7. OwnersInv'
  BY <1>4, <1>5, <1>6 DEF IInv, OwnersInv
<1>8. TypeOK'
  <2>1. heap' \in [Block -> {Dead} \cup Seq(Cell)]
    BY DEF IInv, TypeOK
  <2> QED BY <2>1 DEF IInv, TypeOK
<1>9. FieldsInv'
  BY DEF IInv, FieldsInv
<1> QED BY <1>4, <1>7, <1>8, <1>9 DEF IInv

\* A block that nobody has becomes one that k keeps; the others stay as they
\* were kept.
LEMMA KeeperGets ==
    ASSUME IInv, NEW b \in Block, NEW k \in Keeper, heap[b] = Dead,
           NEW t \in Seq(Cell), heap' = [heap EXCEPT ![b] = t],
           UNCHANGED data, pointer' = pointer, TypeOK', FieldsInv',
           \A l \in Keeper : Keeps(l, b)' <=> l = k,
           \A x \in Block : x # b => \A l, m \in Keeper : Keeps(l, x)' /\ Keeps(m, x)' => l = m,
           \A x \in Block : x # b => ((\E l \in Keeper : Keeps(l, x)') <=> (\E l \in Keeper : Keeps(l, x)))
    PROVE  IInv'
<1>1. t # Dead /\ heap'[b] = t /\ \A x \in Block : x # b => heap'[x] = heap[x]
  BY Distinct DEF IInv, TypeOK
<1>2. \A e \in Data : Usable(e) => heap'[data[e].buffer] = heap[data[e].buffer] /\ heap[data[e].buffer] # Dead
  <2> SUFFICES ASSUME NEW e \in Data, Usable(e)
               PROVE  heap'[data[e].buffer] = heap[data[e].buffer] /\ heap[data[e].buffer] # Dead
    OBVIOUS
  <2>1. data[e].buffer \in Block /\ heap[data[e].buffer] # Dead
    BY UsableFacts
  <2> QED BY <2>1, <1>1
<1>3. CellsInv' /\ PointerInv' /\ \A e \in Data : \A x : Has(e, x)' <=> Has(e, x)
  BY <1>2, DataStays
<1>4. OwnersInv'
  <2> SUFFICES ASSUME NEW x \in Block PROVE
        /\ heap'[x] # Dead <=> (\E e \in Data : Has(e, x)') \/ (\E l \in Keeper : Keeps(l, x)')
        /\ \A e, g \in Data : Has(e, x)' /\ Has(g, x)' => e = g
        /\ \A l, m \in Keeper : Keeps(l, x)' /\ Keeps(m, x)' => l = m
        /\ \A e \in Data, l \in Keeper : ~(Has(e, x)' /\ Keeps(l, x)')
    BY DEF OwnersInv, Keeper
  <2>0. /\ heap[x] # Dead <=> (\E e \in Data : Has(e, x)) \/ (\E l \in Keeper : Keeps(l, x))
        /\ \A e, g \in Data : Has(e, x) /\ Has(g, x) => e = g
        /\ \A e \in Data, l \in Keeper : ~(Has(e, x) /\ Keeps(l, x))
    BY DEF IInv, OwnersInv
  <2>1. CASE x = b
    BY <2>0, <2>1, <1>1, <1>3
  <2>2. CASE x # b
    BY <2>0, <2>2, <1>1, <1>3
  <2> QED BY <2>1, <2>2
<1> QED BY <1>3, <1>4 DEF IInv

\* A block that a keeper has, and no view shows, is no object's.
LEMMA KeptApart ==
    ASSUME IInv, NEW B \in SUBSET Block, B \cap Shown = {}, \A x \in B : \E k \in Keeper : Keeps(k, x),
           NEW e \in Data, Usable(e)
    PROVE  data[e].buffer \notin B
<1>1. CASE Viewing(e)
  BY <1>1 DEF Shown
<1>2. CASE ~Viewing(e)
  <2>1. Has(e, data[e].buffer) /\ data[e].buffer \in Block
    BY <1>2, UsableFacts
  <2> QED BY <2>1 DEF IInv, OwnersInv
<1> QED BY <1>1, <1>2

\* Blocks that a keeper has, and no view shows, are freed, with all that keep
\* them; the others stay as they were kept.
LEMMA KeeperFrees ==
    ASSUME IInv, NEW B \in SUBSET Block, B \cap Shown = {},
           \A x \in B : \E k \in Keeper : Keeps(k, x),
           \A x \in Block : heap'[x] = IF x \in B THEN Dead ELSE heap[x],
           UNCHANGED data, pointer' = pointer, TypeOK', FieldsInv',
           \A x \in B, k \in Keeper : ~Keeps(k, x)',
           \A x \in Block \ B, k \in Keeper : Keeps(k, x)' <=> Keeps(k, x)
    PROVE  IInv'
<1>1. \A e \in Data : Usable(e) => heap'[data[e].buffer] = heap[data[e].buffer] /\ heap[data[e].buffer] # Dead
  <2> SUFFICES ASSUME NEW e \in Data, Usable(e)
               PROVE  heap'[data[e].buffer] = heap[data[e].buffer] /\ heap[data[e].buffer] # Dead
    OBVIOUS
  <2>1. data[e].buffer \in Block /\ heap[data[e].buffer] # Dead
    BY UsableFacts
  <2>2. data[e].buffer \notin B
    BY KeptApart
  <2> QED BY <2>1, <2>2
<1>2. CellsInv' /\ PointerInv' /\ \A e \in Data : \A x : Has(e, x)' <=> Has(e, x)
  BY <1>1, DataStays
<1>3. OwnersInv'
  <2> SUFFICES ASSUME NEW x \in Block PROVE
        /\ heap'[x] # Dead <=> (\E e \in Data : Has(e, x)') \/ (\E l \in Keeper : Keeps(l, x)')
        /\ \A e, g \in Data : Has(e, x)' /\ Has(g, x)' => e = g
        /\ \A l, m \in Keeper : Keeps(l, x)' /\ Keeps(m, x)' => l = m
        /\ \A e \in Data, l \in Keeper : ~(Has(e, x)' /\ Keeps(l, x)')
    BY DEF OwnersInv, Keeper
  <2>0. /\ heap[x] # Dead <=> (\E e \in Data : Has(e, x)) \/ (\E l \in Keeper : Keeps(l, x))
        /\ \A e, g \in Data : Has(e, x) /\ Has(g, x) => e = g
        /\ \A l, m \in Keeper : Keeps(l, x) /\ Keeps(m, x) => l = m
        /\ \A e \in Data, l \in Keeper : ~(Has(e, x) /\ Keeps(l, x))
    BY DEF IInv, OwnersInv
  <2>1. CASE x \in B
    BY <2>0, <2>1, <1>2
  <2>2. CASE x \notin B
    BY <2>0, <2>2, <1>2
  <2> QED BY <2>1, <2>2
<1> QED BY <1>2, <1>3 DEF IInv

(***************************************************************************)
(* The actions on memory that data objects do not own.                     *)
(***************************************************************************)

\* What the client, the mapping and the malloc block keep.
LEMMA KeeperFacts ==
    ASSUME IInv
    PROVE  /\ \A x : Keeps("client", x) <=> x \in client
           /\ \A x : Keeps("mapping", x) <=> mapping # Gone /\ mapping.unmap /\ mapping.addr = x
           /\ \A x : Keeps("memory", x) <=> holder # Gone /\ holder.memory = x
           /\ \A x : Keeps("callback", x) <=> holder # Gone /\ holder.callback = x
           /\ \A x \in Block, k, l \in Keeper : Keeps(k, x) /\ Keeps(l, x) => k = l
           /\ \A x \in Block : heap[x] = Dead => \A k \in Keeper : ~Keeps(k, x)
           /\ \A x \in Block : (\E k \in Keeper : Keeps(k, x)) => heap[x] # Dead
  BY DEF IInv, OwnersInv, Keeps

\* Cells for a new block of the client, the mapping or the malloc block.
LEMMA NewBlock ==
    ASSUME IInv, NEW b \in Fresh
    PROVE  /\ b \in Block /\ heap[b] = Dead /\ Zeros(MaxLength) \in Seq(Cell)
           /\ [heap EXCEPT ![b] = Zeros(MaxLength)] \in [Block -> {Dead} \cup Seq(Cell)]
<1>1. b \in Block /\ heap[b] = Dead
  BY DEF Fresh, Live
<1>2. Zeros(MaxLength) \in Seq(Cell)
  BY ZerosCells, DataAssumption
<1> QED BY <1>1, <1>2 DEF IInv, TypeOK

\* The client gets a block of its own.
LEMMA ClientAllocatesInv == ASSUME IInv, NEW b \in Block, ClientAllocates(b) PROVE IInv'
<1>1. b \in Fresh /\ b \in Block /\ heap[b] = Dead /\ Zeros(MaxLength) \in Seq(Cell)
  BY NewBlock DEF ClientAllocates
<1>2. TypeOK'
  BY <1>1, NewBlock DEF ClientAllocates, IInv, TypeOK
<1>3. FieldsInv'
  BY DEF ClientAllocates, IInv, FieldsInv
<1>4. \A x, k : Keeps(k, x)' <=> Keeps(k, x) \/ (k = "client" /\ x = b)
  BY DEF ClientAllocates, Keeps
<1>5. \A k \in Keeper : Keeps(k, b)' <=> k = "client"
  BY <1>1, <1>4, KeeperFacts
<1>6. \A x \in Block : x # b => \A l, m \in Keeper : Keeps(l, x)' /\ Keeps(m, x)' => l = m
  BY <1>4, KeeperFacts
<1>7. \A x \in Block : x # b => ((\E l \in Keeper : Keeps(l, x)') <=> (\E l \in Keeper : Keeps(l, x)))
  BY <1>4
<1>8. "client" \in Keeper
  BY DEF Keeper
<1>9. heap' = [heap EXCEPT ![b] = Zeros(MaxLength)] /\ UNCHANGED data /\ pointer' = pointer
  BY DEF ClientAllocates
<1> QED BY <1>1, <1>2, <1>3, <1>5, <1>6, <1>7, <1>8, <1>9, KeeperGets

\* The client frees a block of its own.
LEMMA ClientFreesInv == ASSUME IInv, NEW b \in Block, ClientFrees(b) PROVE IInv'
<1>1. b \in client /\ b \notin Shown
  BY DEF ClientFrees
<1>2. TypeOK'
  <2>1. heap' \in [Block -> {Dead} \cup Seq(Cell)]
    BY DEF ClientFrees, IInv, TypeOK
  <2> QED BY <2>1 DEF ClientFrees, IInv, TypeOK
<1>3. FieldsInv'
  BY DEF ClientFrees, IInv, FieldsInv
<1>4. \A x, k : Keeps(k, x)' <=> Keeps(k, x) /\ ~(k = "client" /\ x = b)
  BY DEF ClientFrees, Keeps
<1>5. Keeps("client", b) /\ "client" \in Keeper
  BY <1>1, KeeperFacts DEF Keeper
<1>6. \A k \in Keeper : ~Keeps(k, b)'
  BY <1>4, <1>5, KeeperFacts
<1>7. \A x \in Block : heap'[x] = IF x \in {b} THEN Dead ELSE heap[x]
  BY DEF ClientFrees, IInv, TypeOK
<1>8. UNCHANGED data /\ pointer' = pointer /\ {b} \in SUBSET Block /\ {b} \cap Shown = {}
  BY <1>1 DEF ClientFrees
<1>9. \A x \in {b} : \E k \in Keeper : Keeps(k, x)
  BY <1>5
<1>10. \A x \in {b}, k \in Keeper : ~Keeps(k, x)'
  BY <1>6
<1>11. \A x \in Block \ {b}, k \in Keeper : Keeps(k, x)' <=> Keeps(k, x)
  BY <1>4
<1> QED BY <1>2, <1>3, <1>7, <1>8, <1>9, <1>10, <1>11, KeeperFrees

\* A mapping gets its pages.
LEMMA MappingCreateInv == ASSUME IInv, NEW b \in Block, EFMappingCreate(b) PROVE IInv'
<1>1. b \in Fresh /\ b \in Block /\ heap[b] = Dead /\ Zeros(MaxLength) \in Seq(Cell)
  BY NewBlock DEF EFMappingCreate
<1>2. mapping' = [addr |-> b, unmap |-> TRUE] /\ mapping' \in MappingObject /\ mapping' # Gone
  <2>1. mapping' = [addr |-> b, unmap |-> TRUE]
    BY DEF EFMappingCreate
  <2>2. mapping' \in MappingObject
    BY <2>1 DEF MappingObject
  <2> QED BY <2>1, <2>2, Distinct
<1>3. TypeOK'
  BY <1>1, <1>2, NewBlock DEF EFMappingCreate, IInv, TypeOK
<1>4. FieldsInv'
  BY <1>2 DEF EFMappingCreate, IInv, FieldsInv
<1>5. \A x, k : Keeps(k, x)' <=> Keeps(k, x) \/ (k = "mapping" /\ x = b)
  <2>1. \A x : ~(mapping # Gone /\ mapping.unmap /\ mapping.addr = x)
    BY DEF EFMappingCreate, NoObject
  <2>2. \A x : mapping' # Gone /\ mapping'.unmap /\ mapping'.addr = x <=> x = b
    BY <1>2
  <2> QED BY <2>1, <2>2 DEF EFMappingCreate, Keeps
<1>6. \A k \in Keeper : Keeps(k, b)' <=> k = "mapping"
  BY <1>1, <1>5, KeeperFacts
<1>7. \A x \in Block : x # b => \A l, m \in Keeper : Keeps(l, x)' /\ Keeps(m, x)' => l = m
  BY <1>5, KeeperFacts
<1>8. \A x \in Block : x # b => ((\E l \in Keeper : Keeps(l, x)') <=> (\E l \in Keeper : Keeps(l, x)))
  BY <1>5
<1>9. "mapping" \in Keeper /\ heap' = [heap EXCEPT ![b] = Zeros(MaxLength)] /\ UNCHANGED data /\ pointer' = pointer
  BY DEF EFMappingCreate, Keeper
<1> QED BY <1>1, <1>3, <1>4, <1>6, <1>7, <1>8, <1>9, KeeperGets

\* The pages change hands: nothing is freed.
LEMMA DisableUnmapInv == ASSUME IInv, EFMappingDisableUnmap PROVE IInv'
<1>0. mapping # Gone /\ mapping.unmap /\ mapping \in MappingObject /\ mapping.addr \in Block
  BY DEF EFMappingDisableUnmap, IInv, TypeOK, MappingObject
<1>1. mapping' = [mapping EXCEPT !.unmap = FALSE] /\ mapping' \in MappingObject /\ ~mapping'.unmap
  BY <1>0 DEF EFMappingDisableUnmap, MappingObject
<1>2. TypeOK'
  BY <1>0, <1>1 DEF EFMappingDisableUnmap, IInv, TypeOK
<1>3. FieldsInv'
  BY <1>1 DEF EFMappingDisableUnmap, IInv, FieldsInv
<1>4. \A x, k : Keeps(k, x)' <=>
            \/ k = "client" /\ (x \in client \/ x = mapping.addr)
            \/ k \in {"memory", "callback"} /\ Keeps(k, x)
  BY <1>1 DEF EFMappingDisableUnmap, Keeps
<1>5. \A x : ((\E k \in Keeper : Keeps(k, x)') <=> (\E k \in Keeper : Keeps(k, x)))
  BY <1>0, <1>4, KeeperFacts DEF Keeper
<1>6. \A x \in Block, k, l \in Keeper : Keeps(k, x)' /\ Keeps(l, x)' => k = l
  <2> SUFFICES ASSUME NEW x \in Block, NEW k \in Keeper, NEW l \in Keeper, Keeps(k, x)', Keeps(l, x)'
               PROVE  k = l
    OBVIOUS
  <2>1. CASE x = mapping.addr
    <3>1. Keeps("mapping", x)
      BY <2>1, <1>0, KeeperFacts
    <3>2. "mapping" \in Keeper /\ "memory" \in Keeper /\ "callback" \in Keeper
      BY DEF Keeper
    <3>3. ~Keeps("memory", x) /\ ~Keeps("callback", x)
      BY <3>1, <3>2, KeeperFacts
    <3> QED BY <3>3, <1>4
  <2>2. CASE x # mapping.addr
    <3>1. Keeps(k, x) /\ Keeps(l, x)
      BY <2>2, <1>4, KeeperFacts
    <3> QED BY <3>1, KeeperFacts
  <2> QED BY <2>1, <2>2
<1>7. \A e \in Data : Usable(e) => /\ heap'[data[e].buffer] # Dead
                                   /\ Len(heap'[data[e].buffer]) = Len(heap[data[e].buffer])
  BY UsableFacts DEF EFMappingDisableUnmap
<1>8. UNCHANGED <<heap, data>> /\ pointer' = pointer
  BY DEF EFMappingDisableUnmap
<1>9. CellsInv' /\ PointerInv' /\ \A e \in Data : \A x : Has(e, x)' <=> Has(e, x)
  BY <1>7, <1>8, DataStays
<1>10. OwnersInv'
  <2> SUFFICES ASSUME NEW x \in Block PROVE
        /\ heap'[x] # Dead <=> (\E e \in Data : Has(e, x)') \/ (\E l \in Keeper : Keeps(l, x)')
        /\ \A e, g \in Data : Has(e, x)' /\ Has(g, x)' => e = g
        /\ \A l, m \in Keeper : Keeps(l, x)' /\ Keeps(m, x)' => l = m
        /\ \A e \in Data, l \in Keeper : ~(Has(e, x)' /\ Keeps(l, x)')
    BY DEF OwnersInv, Keeper
  <2>0. /\ heap[x] # Dead <=> (\E e \in Data : Has(e, x)) \/ (\E k \in Keeper : Keeps(k, x))
        /\ \A e, g \in Data : Has(e, x) /\ Has(g, x) => e = g
        /\ ~(\E e \in Data, k \in Keeper : Has(e, x) /\ Keeps(k, x))
    BY DEF IInv, OwnersInv
  <2> QED BY <2>0, <1>5, <1>6, <1>8, <1>9
<1> QED BY <1>2, <1>3, <1>9, <1>10 DEF IInv

\* A mapping goes, with its pages unless the client has taken them over.
LEMMA ReleaseMappingInv == ASSUME IInv, ReleaseMapping PROVE IInv'
<1> DEFINE B == IF mapping.unmap THEN {mapping.addr} ELSE {}
<1>1. B \in SUBSET Block /\ mapping # Gone
  BY DEF ReleaseMapping, IInv, TypeOK, MappingObject
<1>2. \A x \in Block : heap'[x] = IF x \in B THEN Dead ELSE heap[x]
  BY <1>1 DEF ReleaseMapping, IInv, TypeOK
<1>3. TypeOK'
  <2>1. heap' \in [Block -> {Dead} \cup Seq(Cell)]
    BY DEF ReleaseMapping, IInv, TypeOK
  <2> QED BY <2>1 DEF ReleaseMapping, IInv, TypeOK
<1>4. FieldsInv' /\ UNCHANGED data /\ pointer' = pointer /\ B \cap Shown = {}
  BY DEF ReleaseMapping, IInv, FieldsInv
<1>5. \A x, k : Keeps(k, x)' <=> Keeps(k, x) /\ k # "mapping"
  BY DEF ReleaseMapping, Keeps
<1>6. \A x : Keeps("mapping", x) <=> x \in B
  BY <1>1, KeeperFacts
<1>7. "mapping" \in Keeper
  BY DEF Keeper
<1> HIDE DEF B
<1>8. \A x \in B, k \in Keeper : ~Keeps(k, x)'
  BY <1>1, <1>5, <1>6, <1>7, KeeperFacts
<1>9. \A x \in Block \ B, k \in Keeper : Keeps(k, x)' <=> Keeps(k, x)
  BY <1>5, <1>6
<1> QED BY <1>1, <1>2, <1>3, <1>4, <1>6, <1>7, <1>8, <1>9, KeeperFrees

\* A malloc block gets its memory, and its callback a block of the client.
LEMMA MallocBlockCreateInv ==
    ASSUME IInv, NEW b \in Block, NEW c \in Block, EFMallocBlockCreateWithDeinitHandler(b, c) PROVE IInv'
<1>1. b \in Fresh /\ b \in Block /\ heap[b] = Dead /\ Zeros(MaxLength) \in Seq(Cell)
  BY NewBlock DEF EFMallocBlockCreateWithDeinitHandler
<1>2. holder' = [memory |-> b, callback |-> c] /\ holder' \in HolderObject /\ holder' # Gone
  <2>1. holder' = [memory |-> b, callback |-> c]
    BY DEF EFMallocBlockCreateWithDeinitHandler
  <2>2. holder' \in HolderObject
    BY <2>1 DEF HolderObject
  <2> QED BY <2>1, <2>2, Distinct
<1>3. TypeOK'
  BY <1>1, <1>2, NewBlock DEF EFMallocBlockCreateWithDeinitHandler, IInv, TypeOK
<1>4. FieldsInv'
  BY DEF EFMallocBlockCreateWithDeinitHandler, IInv, FieldsInv
<1>5. c \in client /\ c # b /\ Keeps("client", c)
  <2>1. c \in client /\ Keeps("client", c) /\ "client" \in Keeper
    BY KeeperFacts DEF EFMallocBlockCreateWithDeinitHandler, Keeper
  <2> QED BY <2>1, <1>1, KeeperFacts
<1>6. \A x, k : Keeps(k, x)' <=> \/ k = "client" /\ Keeps(k, x) /\ x # c
                                 \/ k = "mapping" /\ Keeps(k, x)
                                 \/ k = "memory" /\ x = b
                                 \/ k = "callback" /\ x = c
  <2>1. \A x : ~(holder # Gone /\ holder.memory = x) /\ ~(holder # Gone /\ holder.callback = x)
    BY DEF EFMallocBlockCreateWithDeinitHandler, NoObject
  <2>2. \A x : holder' # Gone /\ holder'.memory = x <=> x = b
    BY <1>2
  <2>3. \A x : holder' # Gone /\ holder'.callback = x <=> x = c
    BY <1>2
  <2>4. client' = client \ {c} /\ mapping' = mapping
    BY DEF EFMallocBlockCreateWithDeinitHandler
  <2> QED BY <2>2, <2>3, <2>4 DEF Keeps
<1>7. \A x : ~Keeps("memory", x) /\ ~Keeps("callback", x)
  BY KeeperFacts DEF EFMallocBlockCreateWithDeinitHandler, NoObject
<1>8. \A k \in Keeper : ~Keeps(k, b)
  BY <1>1, KeeperFacts
<1>9. \A k \in Keeper : Keeps(k, b)' <=> k = "memory"
  BY <1>5, <1>6, <1>8
<1>10. \A k \in Keeper : Keeps(k, c) => k = "client"
  BY <1>5, KeeperFacts DEF Keeper
<1>11. \A x \in Block : x # b => \A l, m \in Keeper : Keeps(l, x)' /\ Keeps(m, x)' => l = m
  BY <1>6, <1>10, KeeperFacts DEF Keeper
<1>12. \A x \in Block : x # b => ((\E l \in Keeper : Keeps(l, x)') <=> (\E l \in Keeper : Keeps(l, x)))
  <2> SUFFICES ASSUME NEW x \in Block, x # b
               PROVE  (\E l \in Keeper : Keeps(l, x)') <=> (\E l \in Keeper : Keeps(l, x))
    OBVIOUS
  <2>1. CASE x = c
    BY <2>1, <1>5, <1>6 DEF Keeper
  <2>2. CASE x # c
    BY <2>2, <1>6, <1>7 DEF Keeper
  <2> QED BY <2>1, <2>2
<1>13. "memory" \in Keeper /\ heap' = [heap EXCEPT ![b] = Zeros(MaxLength)] /\ UNCHANGED data /\ pointer' = pointer
  BY DEF EFMallocBlockCreateWithDeinitHandler, Keeper
<1> QED BY <1>1, <1>3, <1>4, <1>9, <1>11, <1>12, <1>13, KeeperGets

\* A malloc block goes, and its callback frees what it was given.
LEMMA ReleaseMallocBlockInv == ASSUME IInv, ReleaseMallocBlock PROVE IInv'
<1> DEFINE B == {holder.memory, holder.callback}
<1>1. holder # Gone /\ holder \in HolderObject
  BY DEF ReleaseMallocBlock, IInv, TypeOK
<1>2. B \in SUBSET Block
  BY <1>1 DEF HolderObject
<1>3. \A x \in Block : heap'[x] = IF x \in B THEN Dead ELSE heap[x]
  BY <1>2 DEF ReleaseMallocBlock, IInv, TypeOK
<1>4. TypeOK'
  <2>1. heap' \in [Block -> {Dead} \cup Seq(Cell)]
    BY DEF ReleaseMallocBlock, IInv, TypeOK
  <2> QED BY <2>1 DEF ReleaseMallocBlock, IInv, TypeOK
<1>5. FieldsInv' /\ UNCHANGED data /\ pointer' = pointer /\ B \cap Shown = {}
  BY DEF ReleaseMallocBlock, IInv, FieldsInv
<1>6. \A x, k : Keeps(k, x)' <=> Keeps(k, x) /\ k \notin {"memory", "callback"}
  BY DEF ReleaseMallocBlock, Keeps
<1>7. \A x : Keeps("memory", x) \/ Keeps("callback", x) <=> x \in B
  BY <1>1, KeeperFacts
<1>8. "memory" \in Keeper /\ "callback" \in Keeper
  BY DEF Keeper
<1> HIDE DEF B
<1>9. \A x \in B, k \in Keeper : ~Keeps(k, x)'
  BY <1>2, <1>6, <1>7, <1>8, KeeperFacts
<1>10. \A x \in Block \ B, k \in Keeper : Keeps(k, x)' <=> Keeps(k, x)
  BY <1>6, <1>7
<1>11. \A x \in B : \E k \in Keeper : Keeps(k, x)
  BY <1>7, <1>8
<1> QED BY <1>2, <1>3, <1>4, <1>5, <1>9, <1>10, <1>11, KeeperFrees

(***************************************************************************)
(* The actions on data objects.                                            *)
(***************************************************************************)

\* The first cells of a block, and those of an object, are cells.
LEMMA StartOfBlock ==
    ASSUME IInv, NEW b \in Live, NEW n \in Length, n <= Len(heap[b])
    PROVE  /\ SubSeq(heap[b], 1, n) \in Seq(Cell) /\ Len(SubSeq(heap[b], 1, n)) = n
           /\ \A i \in 1..n : SubSeq(heap[b], 1, n)[i] = heap[b][i] /\ heap[b][i] \in Cell
           /\ heap[b] \in Seq(Cell) /\ n \in Nat /\ Len(heap[b]) \in Nat
<1>1. heap[b] \in Seq(Cell) /\ n \in Nat
  BY DataAssumption DEF IInv, TypeOK, Live, Length
<1>2. Len(heap[b]) \in Nat /\ n \in 0..Len(heap[b])
  BY <1>1, LenProperties
<1>3. \A i \in 1..n : heap[b][i] \in Cell
  BY <1>1, <1>2, ElementOfSeq
<1> QED BY <1>1, <1>2, <1>3, StartCells

\* The contents of a usable object are the first cells of its block.
LEMMA ContentsCells ==
    ASSUME IInv, NEW d \in Data, Usable(d)
    PROVE  /\ Contents(d) \in Seq(Cell) /\ Len(Contents(d)) = data[d].length
           /\ \A i \in 1..data[d].length : /\ Contents(d)[i] = heap[data[d].buffer][i]
                                           /\ heap[data[d].buffer][i] \in Cell
           /\ data[d].buffer \in Live
<1>1. data[d].buffer \in Live /\ data[d].length \in Length /\ data[d].length <= Len(heap[data[d].buffer])
  BY UsableFacts DEF Live
<1> QED BY <1>1, StartOfBlock DEF Contents

\* The fields of an object that owns its block.
OwningFields(b, t, m) == [buffer |-> b, length |-> Len(t), isMutable |-> m, isInlined |-> ~m,
                          freed |-> FALSE]

\* They are the fields of a mutable or of an inlined object.
LEMMA OwningFieldsOK ==
    ASSUME NEW b \in Block, NEW t, Len(t) \in Length, NEW m \in BOOLEAN
    PROVE  /\ OwningFields(b, t, m) \in DataObject
           /\ OwningFields(b, t, m).buffer = b /\ OwningFields(b, t, m).length = Len(t)
           /\ (OwningFields(b, t, m).isMutable <=> m) /\ (OwningFields(b, t, m).isInlined <=> ~m) /\ ~OwningFields(b, t, m).freed
<1>1. CASE m = TRUE
  <2>1. OwningFields(b, t, m) = [buffer |-> b, length |-> Len(t), isMutable |-> TRUE, isInlined |-> FALSE, freed |-> FALSE]
    BY <1>1, Zenon DEF OwningFields
  <2>2. LET X == [buffer |-> b, length |-> Len(t), isMutable |-> TRUE, isInlined |-> FALSE, freed |-> FALSE]
        IN  X \in DataObject /\ X.buffer = b /\ X.length = Len(t) /\ X.isMutable = TRUE /\ X.isInlined = FALSE /\ X.freed = FALSE
    BY DEF DataObject
  <2> QED BY <1>1, <2>1, <2>2, Zenon
<1>2. CASE m = FALSE
  <2>1. OwningFields(b, t, m) = [buffer |-> b, length |-> Len(t), isMutable |-> FALSE, isInlined |-> TRUE, freed |-> FALSE]
    BY <1>2, Zenon DEF OwningFields
  <2>2. LET X == [buffer |-> b, length |-> Len(t), isMutable |-> FALSE, isInlined |-> TRUE, freed |-> FALSE]
        IN  X \in DataObject /\ X.buffer = b /\ X.length = Len(t) /\ X.isMutable = FALSE /\ X.isInlined = TRUE /\ X.freed = FALSE
    BY DEF DataObject
  <2> QED BY <1>2, <2>1, <2>2, Zenon
<1> QED BY <1>1, <1>2

\* Creation of an object that owns its bytes keeps the invariant.
LEMMA OwningInv ==
    ASSUME IInv, NEW d \in Data, NEW t \in Seq(Cell), Len(t) \in Length, NEW m \in BOOLEAN, Owning(d, t, m)
    PROVE  IInv'
<1>1. PICK b \in Fresh : /\ heap' = [heap EXCEPT ![b] = t]
                         /\ data' = [data EXCEPT ![d] = OwningFields(b, t, m)]
  BY Zenon DEF Owning, OwningFields
<1>2. b \in Block /\ heap[b] = Dead
  BY NewBlock
<1> DEFINE X == OwningFields(b, t, m)
<1>3. X \in DataObject /\ X.buffer = b /\ X.length = Len(t) /\ (X.isMutable <=> m) /\ (X.isInlined <=> ~m) /\ ~X.freed
  BY <1>2, OwningFieldsOK
<1>4. data[d] = Gone /\ UNCHANGED <<mapping, holder, client, pointer>>
  BY DEF Owning
<1>5. data' = [data EXCEPT ![d] = X]
  BY <1>1
<1> HIDE DEF X
<1> QED BY <1>1, <1>2, <1>3, <1>4, <1>5, Gets

\* Creation of a view keeps the invariant.
LEMMA ViewInv ==
    ASSUME IInv, NEW d \in Data, NEW b \in Block, NEW n \in Length, EFDataCreateWithBufferNoCopy(d, b, n)
    PROVE  IInv'
<1> DEFINE X == [buffer |-> b, length |-> n, isMutable |-> FALSE, isInlined |-> FALSE, freed |-> FALSE]
<1>1. X \in DataObject /\ X.buffer = b /\ X.length = n /\ ~X.isMutable /\ ~X.isInlined /\ ~X.freed
  BY DEF DataObject
<1>2. \A e \in Data : ~Has(e, b)
  BY DEF EFDataCreateWithBufferNoCopy, Has, Usable, Viewing
<1>3. heap[b] # Dead /\ n <= Len(heap[b]) /\ data[d] = Gone /\ UNCHANGED <<heap, mapping, holder, client, pointer>>
  BY DEF EFDataCreateWithBufferNoCopy, Live
<1>4. data' = [data EXCEPT ![d] = X]
  BY DEF EFDataCreateWithBufferNoCopy
<1> HIDE DEF X
<1> QED BY <1>1, <1>2, <1>3, <1>4, Shows

\* The fields X, with another buffer that is not freed and another length.
With(X, f, n) == [X EXCEPT !.buffer = f, !.freed = FALSE, !.length = n]

\* A mutable object d has the cells t, in its block or in one that was free.
Changed(d, f, t) ==
    /\ f \in Block /\ t \in Seq(Cell) /\ Len(t) \in Length
    /\ f = data[d].buffer \/ heap[f] = Dead
    /\ heap' \in [Block -> {Dead} \cup Seq(Cell)] /\ heap'[f] = t
    /\ f # data[d].buffer => heap'[data[d].buffer] = Dead
    /\ \A x \in Block : x # f /\ x # data[d].buffer => heap'[x] = heap[x]
    /\ data' = [data EXCEPT ![d] = With(data[d], f, Len(t))]
    /\ pointer' \in {pointer, None} /\ (pointer' # None /\ pointer.of = d => f = data[d].buffer)
    /\ UNCHANGED <<mapping, holder, client>>

\* It loses its block, which realloc has freed.
Lost(d) == /\ heap' = [heap EXCEPT ![data[d].buffer] = Dead]
           /\ data' = [data EXCEPT ![d] = [data[d] EXCEPT !.freed = TRUE]]
           /\ pointer' \in {pointer, None} /\ ~(pointer' # None /\ pointer.of = d)
           /\ UNCHANGED <<mapping, holder, client>>

\* With gives fields of an object, mutable or inlined as before.
LEMMA ChangedFields ==
    ASSUME NEW X \in DataObject, NEW f \in Block, NEW n \in Length
    PROVE  /\ With(X, f, n) \in DataObject /\ With(X, f, n).buffer = f /\ With(X, f, n).length = n
           /\ With(X, f, n).isMutable = X.isMutable /\ With(X, f, n).isInlined = X.isInlined
           /\ With(X, f, n).freed = FALSE
  BY DEF DataObject, With

\* So it is when the block is freed.
LEMMA LostFields ==
    ASSUME NEW X \in DataObject
    PROVE  /\ [X EXCEPT !.freed = TRUE] \in DataObject
           /\ [X EXCEPT !.freed = TRUE].freed = TRUE
           /\ [X EXCEPT !.freed = TRUE].isMutable = X.isMutable
           /\ [X EXCEPT !.freed = TRUE].isInlined = X.isInlined
  BY DEF DataObject

\* Other cells in its own block or a new one keep the invariant.
LEMMA ChangedInv == ASSUME IInv, NEW d \in Data, Mutable(d), NEW f, NEW t, Changed(d, f, t) PROVE IInv'
<1> DEFINE X == With(data[d], f, Len(t))
<1>1. data[d] \in DataObject /\ data[d].isMutable /\ ~data[d].isInlined
  BY UsableFacts DEF Mutable
<1>2. f \in Block /\ t \in Seq(Cell) /\ Len(t) \in Length
  BY DEF Changed
<1>3. X \in DataObject /\ X.buffer = f /\ X.length = Len(t) /\ X.isMutable /\ ~X.isInlined /\ ~X.freed
  <2>1. /\ X \in DataObject /\ X.buffer = f /\ X.length = Len(t)
        /\ X.isMutable = data[d].isMutable /\ X.isInlined = data[d].isInlined /\ X.freed = FALSE
    BY <1>1, <1>2, ChangedFields
  <2> QED BY <1>1, <2>1, Zenon
<1>4. data' = [data EXCEPT ![d] = X]
  BY DEF Changed
<1>5. /\ f = data[d].buffer \/ heap[f] = Dead
      /\ heap' \in [Block -> {Dead} \cup Seq(Cell)] /\ heap'[f] = t
      /\ f # data[d].buffer => heap'[data[d].buffer] = Dead
      /\ \A x \in Block : x # f /\ x # data[d].buffer => heap'[x] = heap[x]
      /\ pointer' \in {pointer, None} /\ (pointer' # None /\ pointer.of = d => f = data[d].buffer)
      /\ UNCHANGED <<mapping, holder, client>>
  BY DEF Changed
<1> HIDE DEF X
<1> QED BY <1>2, <1>3, <1>4, <1>5, Moves

\* The loss of the block keeps it too.
LEMMA LostInv == ASSUME IInv, NEW d \in Data, Mutable(d), Lost(d) PROVE IInv'
<1> DEFINE X == [data[d] EXCEPT !.freed = TRUE]
<1>1. data[d] \in DataObject /\ data[d].isMutable /\ ~data[d].isInlined
  BY UsableFacts DEF Mutable
<1>3. X \in DataObject /\ X.freed /\ X.isMutable /\ ~X.isInlined
  <2>1. X \in DataObject /\ X.freed = TRUE /\ X.isMutable = data[d].isMutable /\ X.isInlined = data[d].isInlined
    BY <1>1, LostFields
  <2> QED BY <1>1, <2>1, Zenon
<1>4. data' = [data EXCEPT ![d] = X]
  BY DEF Lost
<1> HIDE DEF X
<1> QED BY <1>3, <1>4, Loses DEF Lost

\* What Settle leaves in the fields of the object and in the pointer.
LEMMA SettledFields ==
    ASSUME IInv, NEW d \in Data, NEW n \in Length, NEW r, Settle(d, r, n), Usable(d)
    PROVE  /\ r.freed = FALSE => data' = [data EXCEPT ![d] = With(data[d], r.buffer, n)]
           /\ r.freed = TRUE /\ r.buffer = data[d].buffer => data' = [data EXCEPT ![d] = [data[d] EXCEPT !.freed = TRUE]]
           /\ pointer' \in {pointer, None}
           /\ pointer' # None /\ pointer.of = d => data[d].length = n
           /\ UNCHANGED <<mapping, holder, client>>
<1>1. data[d] \in DataObject
  BY UsableFacts
<1>2. ASSUME r.freed = FALSE PROVE data' = [data EXCEPT ![d] = With(data[d], r.buffer, n)]
  <2>1. data' = [data EXCEPT ![d] = [data[d] EXCEPT !.buffer = r.buffer, !.freed = FALSE, !.length = n]]
    BY <1>2 DEF Settle, IInv, TypeOK
  <2> QED BY <2>1 DEF With
<1>3. ASSUME r.freed = TRUE, r.buffer = data[d].buffer
      PROVE  data' = [data EXCEPT ![d] = [data[d] EXCEPT !.freed = TRUE]]
  <2>1. data' = [data EXCEPT ![d] = [data[d] EXCEPT !.buffer = data[d].buffer, !.freed = TRUE, !.length = data[d].length]]
    BY <1>3 DEF Settle, IInv, TypeOK
  <2>2. [data[d] EXCEPT !.buffer = data[d].buffer, !.freed = TRUE, !.length = data[d].length] =
        [data[d] EXCEPT !.freed = TRUE]
    BY <1>1 DEF DataObject
  <2> QED BY <2>1, <2>2
<1> QED BY <1>2, <1>3 DEF Settle

\* A heap in which the cells of d are those of t, in its block or another.
LEMMA ChangedHeap ==
    ASSUME IInv, NEW d \in Data, Mutable(d), NEW f \in Block, f = data[d].buffer \/ f \in Fresh,
           NEW t \in Seq(Cell), Len(t) \in Length, NEW r, r.buffer = f, r.freed = FALSE, Settle(d, r, Len(t)),
           \/ f = data[d].buffer /\ heap' = [heap EXCEPT ![f] = t]
           \/ f \in Fresh /\ data[d].length # Len(t) /\ heap' = [heap EXCEPT ![data[d].buffer] = Dead, ![f] = t]
    PROVE  Changed(d, f, t)
<1>1. Usable(d) /\ data[d].buffer \in Block /\ heap[data[d].buffer] # Dead /\ heap[data[d].buffer] \in Seq(Cell)
  BY UsableFacts DEF Mutable
<1>2. f = data[d].buffer \/ heap[f] = Dead
  BY NewBlock
<1>3. /\ heap' \in [Block -> {Dead} \cup Seq(Cell)] /\ heap'[f] = t
      /\ f # data[d].buffer => heap'[data[d].buffer] = Dead
      /\ \A x \in Block : x # f /\ x # data[d].buffer => heap'[x] = heap[x]
  <2>1. CASE f = data[d].buffer /\ heap' = [heap EXCEPT ![f] = t]
    BY <2>1 DEF IInv, TypeOK
  <2>2. CASE f \in Fresh /\ heap' = [heap EXCEPT ![data[d].buffer] = Dead, ![f] = t]
    <3>1. f # data[d].buffer
      BY <2>2, <1>1, NewBlock
    <3> QED BY <2>2, <3>1, <1>1 DEF IInv, TypeOK
  <2> QED BY <2>1, <2>2
<1>4. data' = [data EXCEPT ![d] = With(data[d], f, Len(t))]
  BY <1>1, SettledFields
<1>5. pointer' \in {pointer, None} /\ UNCHANGED <<mapping, holder, client>>
  BY <1>1, SettledFields
<1>6. pointer' # None /\ pointer.of = d => f = data[d].buffer
  BY <1>1, SettledFields
<1> QED BY <1>2, <1>3, <1>4, <1>5, <1>6 DEF Changed

\* EFDataSetLength: the cells as far as they go and zeros behind them, or, of
\* an object that is made empty, no block.
LEMMA SetLengthOutcomes ==
    ASSUME IInv, NEW d \in Data, NEW n \in Length, EFDataSetLength(d, n)
    PROVE  \/ \E f : Changed(d, f, Grown(d, n))
           \/ n = 0 /\ data[d].length # 0 /\ FreesEmpty /\ Lost(d)
<1>1. Mutable(d) /\ Usable(d) /\ data[d].buffer \in Block /\ heap[data[d].buffer] \in Seq(Cell)
      /\ data[d].length = Len(heap[data[d].buffer])
  BY UsableFacts DEF EFDataSetLength, Mutable, Viewing
<1>2. PICK r \in Resized(d, n) : heap' = r.heap /\ Settle(d, r, n)
  BY DEF EFDataSetLength
<1>3. Grown(d, n) \in Seq(Cell) /\ Len(Grown(d, n)) = n /\ n \in Nat
  BY <1>1, GrownCells, DataAssumption DEF Length
<1>4. CASE data[d].length = n /\ r.heap = heap /\ r.buffer = data[d].buffer /\ r.freed = FALSE
  <2>1. \A i \in 1..n : Grown(d, n)[i] = heap[data[d].buffer][i]
    BY <1>1, <1>3, <1>4, GrownCells, SMT
  <2>2. Grown(d, n) = heap[data[d].buffer]
    BY <1>1, <1>3, <1>4, <2>1, SeqEqual
  <2>3. heap' = [heap EXCEPT ![data[d].buffer] = Grown(d, n)]
    BY <1>1, <1>2, <1>4, <2>2 DEF IInv, TypeOK
  <2> QED BY <1>1, <1>2, <1>3, <1>4, <2>3, ChangedHeap
<1>5. CASE /\ data[d].length # n /\ r.buffer = data[d].buffer /\ r.freed = FALSE
           /\ r.heap = [heap EXCEPT ![data[d].buffer] = Grown(d, n)]
  <2>1. heap' = [heap EXCEPT ![data[d].buffer] = Grown(d, n)]
    BY <1>2, <1>5
  <2>2. Changed(d, data[d].buffer, Grown(d, n))
    BY <1>1, <1>2, <1>3, <1>5, <2>1, ChangedHeap
  <2> QED BY <2>2
<1>6. CASE /\ data[d].length # n /\ r.buffer \in Fresh /\ r.freed = FALSE
           /\ r.heap = [heap EXCEPT ![data[d].buffer] = Dead, ![r.buffer] = Grown(d, n)]
  <2>1. r.buffer \in Block
    BY <1>6, NewBlock
  <2>2. heap' = [heap EXCEPT ![data[d].buffer] = Dead, ![r.buffer] = Grown(d, n)]
    BY <1>2, <1>6
  <2>3. Changed(d, r.buffer, Grown(d, n))
    BY <1>1, <1>2, <1>3, <1>6, <2>1, <2>2, ChangedHeap
  <2> QED BY <2>3
<1>7. CASE /\ data[d].length # n /\ n = 0 /\ FreesEmpty /\ r.buffer = data[d].buffer /\ r.freed = TRUE
           /\ r.heap = [heap EXCEPT ![data[d].buffer] = Dead]
  BY <1>1, <1>2, <1>7, SettledFields DEF Lost
<1>8. \/ data[d].length = n /\ r.heap = heap /\ r.buffer = data[d].buffer /\ r.freed = FALSE
      \/ /\ data[d].length # n /\ r.buffer = data[d].buffer /\ r.freed = FALSE
         /\ r.heap = [heap EXCEPT ![data[d].buffer] = Grown(d, n)]
      \/ /\ data[d].length # n /\ r.buffer \in Fresh /\ r.freed = FALSE
         /\ r.heap = [heap EXCEPT ![data[d].buffer] = Dead, ![r.buffer] = Grown(d, n)]
      \/ /\ data[d].length # n /\ n = 0 /\ FreesEmpty /\ r.buffer = data[d].buffer /\ r.freed = TRUE
         /\ r.heap = [heap EXCEPT ![data[d].buffer] = Dead]
  BY <1>1, ResizedOutcomes
<1> QED BY <1>4, <1>5, <1>6, <1>7, <1>8

\* The cells of d, and behind them those of t: what was appended.
Appends(d, t, n, u) == /\ t \in Seq(Cell) /\ Len(t) = data[d].length + n
                       /\ \A i \in 1..data[d].length : t[i] = heap[data[d].buffer][i]
                       /\ \A i \in 1..n : t[data[d].length + i] = u[i]

\* Cells that are those of s, as far as they go, and of u behind them.
LEMMA AppendedCells ==
    ASSUME IInv, NEW d \in Data, Usable(d), NEW n \in Nat, NEW s, NEW u,
           \A i \in 1..data[d].length : s[i] = heap[data[d].buffer][i],
           \A i \in 1..n : u[i] \in Cell,
           NEW t, t = [i \in 1..data[d].length + n |-> IF i <= data[d].length THEN s[i] ELSE u[i - data[d].length]]
    PROVE  Appends(d, t, n, u)
<1>1. data[d].length \in Nat /\ \A i \in 1..data[d].length : heap[data[d].buffer][i] \in Cell
  BY UsableFacts, ContentsCells
<1> DEFINE k == data[d].length
<1> HIDE DEF k
<1>2. \A i \in 1..k + n : t[i] = IF i <= k THEN s[i] ELSE u[i - k]
  BY DEF k
<1>3. \A i \in 1..k : i \in 1..k + n /\ i <= k
  BY <1>1, SMT DEF k
<1>4. \A i \in 1..n : k + i \in 1..k + n /\ ~(k + i <= k) /\ (k + i) - k = i
  BY <1>1, SMT DEF k
<1>5. \A i \in 1..k + n : ~(i <= k) => i - k \in 1..n
  BY <1>1, SMT DEF k
<1>6. \A i \in 1..k + n : i <= k => i \in 1..k
  BY <1>1, SMT DEF k
<1>7. \A i \in 1..k + n : t[i] \in Cell
  <2> SUFFICES ASSUME NEW i \in 1..k + n PROVE t[i] \in Cell
    OBVIOUS
  <2>1. CASE i <= k
    <3>1. t[i] = s[i] /\ i \in 1..k
      BY <2>1, <1>2, <1>6
    <3> QED BY <3>1, <1>1 DEF k
  <2>2. CASE ~(i <= k)
    <3>1. t[i] = u[i - k] /\ i - k \in 1..n
      BY <2>2, <1>2, <1>5
    <3> QED BY <3>1
  <2> QED BY <2>1, <2>2
<1>8. t = [i \in 1..k + n |-> t[i]] /\ k + n \in Nat
  BY <1>1 DEF k
<1>9. t \in Seq(Cell) /\ Len(t) = k + n
  BY <1>7, <1>8, CellsOf
<1>10. \A i \in 1..k : t[i] = heap[data[d].buffer][i]
  BY <1>2, <1>3 DEF k
<1>11. \A i \in 1..n : t[k + i] = u[i]
  BY <1>2, <1>4
<1> QED BY <1>9, <1>10, <1>11 DEF Appends, k

Undefined(n) == [i \in 1..n |-> "?"]

\* EFDataAppendBuffer: the cells of the block, or, of a block that realloc has
\* freed because it was the object's own, any.
LEMMA AppendOutcomes ==
    ASSUME IInv, NEW d \in Data, NEW b \in Block, NEW n \in Length, EFDataAppendBuffer(d, b, n)
    PROVE  \E f, t : /\ Changed(d, f, t)
                     /\ \/ Appends(d, t, n, heap[b])
                        \/ n \in 1..data[d].length /\ Appends(d, t, n, Undefined(n))
<1> DEFINE k == data[d].length
           own == data[d].buffer
<1>1. /\ Mutable(d) /\ Usable(d) /\ own \in Block /\ heap[own] \in Seq(Cell) /\ heap[own] # Dead
      /\ k = Len(heap[own]) /\ k \in Nat
  BY UsableFacts DEF EFDataAppendBuffer, Mutable, Viewing
<1>2. /\ b \in Live /\ n <= Len(heap[b]) /\ n \in Nat /\ k + n \in Nat /\ k + n <= MaxLength
      /\ k + n \in Length /\ heap[b] # Dead
  BY <1>1, DataAssumption, SMT DEF EFDataAppendBuffer, Length, Live
<1>3. heap[b] \in Seq(Cell) /\ Len(heap[b]) \in Nat /\ \A i \in 1..n : heap[b][i] \in Cell
  BY <1>2, StartOfBlock
<1>4. PICK r \in Resized(d, k + n) :
        /\ heap' = [r.heap EXCEPT ![r.buffer] = [i \in 1..k + n |->
              IF i <= k THEN r.heap[r.buffer][i] ELSE IF r.heap[b] = Dead THEN "?" ELSE r.heap[b][i - k]]]
        /\ Settle(d, r, k + n)
  BY DEF EFDataAppendBuffer
<1>5. /\ r.freed = FALSE
      /\ \/ k = k + n /\ r.heap = heap /\ r.buffer = own
         \/ /\ k # k + n /\ r.buffer = own /\ r.heap = [heap EXCEPT ![own] = Grown(d, k + n)]
         \/ /\ k # k + n /\ r.buffer \in Fresh
            /\ r.heap = [heap EXCEPT ![own] = Dead, ![r.buffer] = Grown(d, k + n)]
  <2>1. ~(k # k + n /\ k + n = 0)
    BY <1>1, <1>2, SMT
  <2> QED BY <2>1, <1>1, <1>2, ResizedOutcomes
<1>6. /\ Grown(d, k + n) \in Seq(Cell) /\ Len(Grown(d, k + n)) = k + n
      /\ \A i \in 1..k : Grown(d, k + n)[i] = heap[own][i]
  <2>1. \A i \in 1..k : i \in 1..k + n /\ i <= k
    BY <1>1, <1>2, SMT
  <2> QED BY <2>1, <1>1, <1>2, GrownCells
<1>7. Grown(d, k + n) # Dead
  BY <1>6, Distinct
<1> DEFINE u == IF r.heap[b] = Dead THEN Undefined(n) ELSE r.heap[b]
           t == [i \in 1..k + n |->
              IF i <= k THEN r.heap[r.buffer][i] ELSE IF r.heap[b] = Dead THEN "?" ELSE r.heap[b][i - k]]
<1>8. t = [i \in 1..k + n |-> IF i <= k THEN r.heap[r.buffer][i] ELSE u[i - k]]
  <2>1. \A i \in 1..k + n : ~(i <= k) => i - k \in 1..n
    <3> HIDE DEF k, own, u, t
    <3>1. k \in Nat /\ n \in Nat
      BY <1>1, <1>2
    <3> QED BY <3>1, SMT
  <2>2. \A i \in 1..k + n : ~(i <= k) => Undefined(n)[i - k] = "?"
    BY <2>1 DEF Undefined
  <2> HIDE DEF k
  <2>3. \A i \in 1..k + n : ~(i <= k) =>
          (IF r.heap[b] = Dead THEN "?" ELSE r.heap[b][i - k]) = u[i - k]
    BY <2>2
  <2> QED BY <2>3
<1>9. heap' = [r.heap EXCEPT ![r.buffer] = t]
  BY <1>4
<1>10. \A i \in 1..k : r.heap[r.buffer][i] = heap[own][i]
  <2>1. CASE r.heap = heap /\ r.buffer = own
    BY <2>1
  <2>2. CASE r.buffer = own /\ r.heap = [heap EXCEPT ![own] = Grown(d, k + n)]
    <3>1. r.heap[r.buffer] = Grown(d, k + n)
      BY <2>2, <1>1 DEF IInv, TypeOK
    <3> QED BY <3>1, <1>6
  <2>3. CASE r.buffer \in Fresh /\ r.heap = [heap EXCEPT ![own] = Dead, ![r.buffer] = Grown(d, k + n)]
    <3>1. r.heap[r.buffer] = Grown(d, k + n)
      BY <2>3, <1>1, NewBlock DEF IInv, TypeOK
    <3> QED BY <3>1, <1>6
  <2> QED BY <1>5, <2>1, <2>2, <2>3
\* What is appended: the block is live and has its first cells, or it is d's own and gone.
<1>11. \/ r.heap[b] # Dead /\ \A i \in 1..n : r.heap[b][i] = heap[b][i]
       \/ r.heap[b] = Dead /\ n \in 1..k
  <2>1. CASE r.heap = heap
    BY <2>1, <1>2
  <2>2. CASE r.buffer = own /\ r.heap = [heap EXCEPT ![own] = Grown(d, k + n)]
    <3>1. CASE b = own
      <4>1. r.heap[b] = Grown(d, k + n)
        BY <2>2, <3>1, <1>1 DEF IInv, TypeOK
      <4>2. \A i \in 1..n : i \in 1..k
        BY <3>1, <1>1, <1>2, SMT
      <4> QED BY <4>1, <4>2, <3>1, <1>6, <1>7
    <3>2. CASE b # own
      <4>1. r.heap[b] = heap[b]
        BY <2>2, <3>2, <1>1 DEF IInv, TypeOK
      <4> QED BY <4>1, <1>2
    <3> QED BY <3>1, <3>2
  <2>3. CASE /\ k # k + n /\ r.buffer \in Fresh
             /\ r.heap = [heap EXCEPT ![own] = Dead, ![r.buffer] = Grown(d, k + n)]
    <3>0. r.buffer # b /\ r.buffer # own
      BY <2>3, <1>1, <1>2, NewBlock
    <3>1. CASE b = own
      <4>1. r.heap[b] = Dead
        BY <2>3, <3>0, <3>1, <1>1 DEF IInv, TypeOK
      <4>2. n \in 1..k
        BY <2>3, <3>1, <1>1, <1>2, SMT
      <4> QED BY <4>1, <4>2
    <3>2. CASE b # own
      <4>1. r.heap[b] = heap[b]
        BY <2>3, <3>0, <3>2, <1>1 DEF IInv, TypeOK
      <4> QED BY <4>1, <1>2
    <3> QED BY <3>1, <3>2
  <2> QED BY <1>5, <2>1, <2>2, <2>3
<1>12. /\ \A i \in 1..n : u[i] \in Cell
       /\ \/ \A i \in 1..n : u[i] = heap[b][i]
          \/ u = Undefined(n) /\ n \in 1..k
  <2>1. CASE r.heap[b] # Dead /\ \A i \in 1..n : r.heap[b][i] = heap[b][i]
    BY <2>1, <1>3
  <2>2. CASE r.heap[b] = Dead /\ n \in 1..k
    BY <2>2 DEF Undefined, Cell
  <2> QED BY <1>11, <2>1, <2>2
<1> HIDE DEF t, u
<1>13. Appends(d, t, n, u)
  <2> DEFINE s == r.heap[r.buffer]
  <2>1. \A i \in 1..data[d].length : s[i] = heap[data[d].buffer][i]
    BY <1>10
  <2>2. t = [i \in 1..data[d].length + n |-> IF i <= data[d].length THEN s[i] ELSE u[i - data[d].length]]
    BY <1>8
  <2> HIDE DEF s
  <2> QED BY <2>1, <2>2, <1>1, <1>2, <1>12, AppendedCells
<1>14. t \in Seq(Cell) /\ Len(t) = k + n
  BY <1>13 DEF Appends
<1>15. Changed(d, r.buffer, t)
  <2>0. Settle(d, r, Len(t)) /\ Len(t) \in Length /\ r.freed = FALSE
    BY <1>2, <1>4, <1>5, <1>14
  <2>1. CASE k = k + n /\ r.heap = heap /\ r.buffer = own
    <3>1. heap' = [heap EXCEPT ![r.buffer] = t]
      BY <2>1, <1>9
    <3> QED BY <2>0, <2>1, <3>1, <1>1, <1>14, ChangedHeap
  <2>2. CASE r.buffer = own /\ r.heap = [heap EXCEPT ![own] = Grown(d, k + n)]
    <3>1. heap' = [heap EXCEPT ![r.buffer] = t]
      BY <2>2, <1>9, <1>1 DEF IInv, TypeOK
    <3> QED BY <2>0, <2>2, <3>1, <1>1, <1>14, ChangedHeap
  <2>3. CASE /\ k # k + n /\ r.buffer \in Fresh
             /\ r.heap = [heap EXCEPT ![own] = Dead, ![r.buffer] = Grown(d, k + n)]
    <3>1. heap' = [heap EXCEPT ![own] = Dead, ![r.buffer] = t] /\ r.buffer \in Block
      BY <2>3, <1>9, <1>1, NewBlock DEF IInv, TypeOK
    <3>2. data[d].length # Len(t)
      BY <2>3, <1>14
    <3>3. r.buffer \in Fresh
      BY <2>3
    <3> QED BY <2>0, <3>1, <3>2, <3>3, <1>1, <1>14, ChangedHeap
  <2> QED BY <1>5, <2>1, <2>2, <2>3
<1>16. \/ Appends(d, t, n, heap[b])
       \/ n \in 1..k /\ Appends(d, t, n, Undefined(n))
  <2>1. CASE \A i \in 1..n : u[i] = heap[b][i]
    BY <2>1, <1>13 DEF Appends
  <2>2. CASE u = Undefined(n) /\ n \in 1..k
    BY <2>2, <1>13
  <2> QED BY <1>12, <2>1, <2>2
<1> QED BY <1>15, <1>16

\* A written block has other cells, as many as before.
LEMMA PokedCells ==
    ASSUME IInv, NEW b \in Live, NEW c \in Byte, Poke(b, c)
    PROVE  LET t == [heap[b] EXCEPT ![1] = c]
           IN  /\ t \in Seq(Cell) /\ Len(t) = Len(heap[b]) /\ heap' = [heap EXCEPT ![b] = t]
               /\ 1 \in 1..Len(heap[b]) /\ heap[b] \in Seq(Cell)
<1>1. b \in Block /\ heap[b] \in Seq(Cell) /\ heap[b] # <<>>
  BY DEF Live, IInv, TypeOK, Poke
<1>2. 1 \in 1..Len(heap[b])
  <2>1. Len(heap[b]) \in Nat \ {0}
    BY <1>1, EmptySeq
  <2> QED BY <2>1, SMT
<1>3. c \in Cell
  BY DEF Cell
<1>4. heap' = [heap EXCEPT ![b] = [heap[b] EXCEPT ![1] = c]]
  BY DEF Poke
<1> QED BY <1>1, <1>2, <1>3, <1>4, ExceptSeq

\* A write of a cell keeps the invariant.
LEMMA PokeInv == ASSUME IInv, NEW b \in Live, NEW c \in Byte, Poke(b, c) PROVE IInv'
<1> DEFINE t == [heap[b] EXCEPT ![1] = c]
<1>1. t \in Seq(Cell) /\ Len(t) = Len(heap[b]) /\ heap' = [heap EXCEPT ![b] = t]
  BY PokedCells
<1>2. b \in Block /\ heap[b] # Dead /\ UNCHANGED <<data, mapping, holder, client, pointer>>
  BY DEF Live, Poke
<1> HIDE DEF t
<1> QED BY <1>1, <1>2, Writes

\* Blocks of clients are live, and no data object owns one.
LEMMA WritableBlocks ==
    ASSUME IInv, NEW b \in Writable
    PROVE  b \in Live /\ \E k \in Keeper : Keeps(k, b)
<1>1. b \in Block
  BY DEF Writable, IInv, TypeOK, MappingObject, HolderObject
<1>2. Keeps("client", b) \/ Keeps("mapping", b) \/ Keeps("memory", b)
  BY DEF Writable, Keeps
<1>3. \E k \in Keeper : Keeps(k, b)
  BY <1>2 DEF Keeper
<1> QED BY <1>1, <1>3, KeeperFacts DEF Live

\* The cells that a range of data leaves in a block of the client.
Copied(d, location, n, b) ==
    [i \in DOMAIN heap[b] |-> IF i <= n THEN heap[data[d].buffer][location + i] ELSE heap[b][i]]

\* A copied range is inside its object, and the block of the client keeps its length.
LEMMA CopiedCells ==
    ASSUME IInv, NEW d \in Data, NEW b \in Block, NEW n \in Length, NEW location \in Length,
           EFDataCopyRangeToBuffer(d, location, n, b)
    PROVE  /\ b \in Live /\ heap[b] \in Seq(Cell) /\ Copied(d, location, n, b) \in Seq(Cell)
           /\ Len(Copied(d, location, n, b)) = Len(heap[b])
           /\ heap' = [heap EXCEPT ![b] = Copied(d, location, n, b)]
           /\ b \in Writable
<1>1. b \in Writable /\ b \in Live
  BY WritableBlocks DEF EFDataCopyRangeToBuffer, Writable
<1>2. heap[b] \in Seq(Cell) /\ Len(heap[b]) \in Nat /\ DOMAIN heap[b] = 1..Len(heap[b])
  <2>1. heap[b] \in Seq(Cell)
    BY <1>1 DEF Live, IInv, TypeOK
  <2> QED BY <2>1, LenProperties
<1>3. /\ data[d].length \in Nat /\ location \in Nat /\ n \in Nat /\ location + n <= data[d].length
      /\ \A i \in 1..data[d].length : heap[data[d].buffer][i] \in Cell
  BY UsableFacts, ContentsCells, DataAssumption, SMT DEF EFDataCopyRangeToBuffer, Length
<1>4. \A i \in 1..Len(heap[b]) : i <= n => location + i \in 1..data[d].length
  BY <1>2, <1>3, SMT
<1>5. \A i \in 1..Len(heap[b]) : heap[b][i] \in Cell
  BY <1>2, ElementOfSeq
<1>6. \A i \in 1..Len(heap[b]) : Copied(d, location, n, b)[i] \in Cell
  <2> SUFFICES ASSUME NEW i \in 1..Len(heap[b]) PROVE Copied(d, location, n, b)[i] \in Cell
    OBVIOUS
  <2>1. CASE i <= n
    <3>1. Copied(d, location, n, b)[i] = heap[data[d].buffer][location + i]
      BY <1>2, <2>1 DEF Copied
    <3> QED BY <3>1, <2>1, <1>3, <1>4
  <2>2. CASE ~(i <= n)
    <3>1. Copied(d, location, n, b)[i] = heap[b][i]
      BY <1>2, <2>2 DEF Copied
    <3> QED BY <3>1, <1>5
  <2> QED BY <2>1, <2>2
<1>7. Copied(d, location, n, b) = [i \in 1..Len(heap[b]) |-> Copied(d, location, n, b)[i]]
  BY <1>2 DEF Copied
<1>8. heap' = [heap EXCEPT ![b] = Copied(d, location, n, b)]
  BY DEF EFDataCopyRangeToBuffer, Copied
<1> QED BY <1>1, <1>2, <1>6, <1>7, <1>8, CellsOf

\* Copying a range out keeps the invariant.
LEMMA CopyRangeInv ==
    ASSUME IInv, NEW d \in Data, NEW b \in Block, NEW n \in Length, NEW location \in Length,
           EFDataCopyRangeToBuffer(d, location, n, b)
    PROVE  IInv'
<1>1. heap[b] # Dead /\ UNCHANGED <<data, mapping, holder, client, pointer>>
  BY CopiedCells DEF Live, EFDataCopyRangeToBuffer
<1> QED BY <1>1, CopiedCells, Writes

\* The pointer that a client takes is into a mutable object, at its buffer.
LEMMA GetMutablePtrInv == ASSUME IInv, NEW d \in Data, EFDataGetMutablePtr(d) PROVE IInv'
<1>1. Mutable(d) /\ data[d].buffer \in Block
  BY UsableFacts DEF EFDataGetMutablePtr, Mutable
<1>2. pointer' = [of |-> d, at |-> data[d].buffer] /\ pointer' \in Pointer
  BY <1>1 DEF EFDataGetMutablePtr, Pointer
<1>3. UNCHANGED <<heap, data, mapping, holder, client>>
  BY DEF EFDataGetMutablePtr
<1>4. TypeOK'
  BY <1>2, <1>3 DEF IInv, TypeOK
<1>5. FieldsInv' /\ CellsInv'
  BY <1>3 DEF IInv, FieldsInv, CellsInv, Usable, Viewing, Has
<1>6. OwnersInv'
  BY <1>3 DEF IInv, OwnersInv, Has, Keeps
<1>7. PointerInv'
  <2>1. Mutable(d)' /\ pointer'.of = d /\ pointer'.at = data'[d].buffer
    BY <1>1, <1>2, <1>3 DEF Mutable, Usable
  <2> QED BY <2>1 DEF PointerInv, Mutable, Usable
<1> QED BY <1>4, <1>5, <1>6, <1>7 DEF IInv

\* Resizing keeps the invariant, wherever realloc puts the block.
LEMMA SetLengthInv == ASSUME IInv, NEW d \in Data, NEW n \in Length, EFDataSetLength(d, n) PROVE IInv'
<1>1. Mutable(d)
  BY DEF EFDataSetLength
<1>2. (\E f : Changed(d, f, Grown(d, n))) \/ Lost(d)
  BY SetLengthOutcomes
<1> QED BY <1>1, <1>2, ChangedInv, LostInv

\* An increase by extra cells is a new length.
LEMMA Increase ==
    ASSUME IInv, NEW d \in Data, NEW n \in Length, EFDataIncreaseLength(d, n)
    PROVE  data[d].length + n \in Length /\ EFDataSetLength(d, data[d].length + n)
<1>1. Usable(d) /\ data[d].length + n <= MaxLength /\ EFDataSetLength(d, data[d].length + n)
  BY DEF EFDataIncreaseLength, Mutable
<1>2. data[d].length \in Nat
  BY <1>1, UsableFacts
<1> QED BY <1>1, <1>2, DataAssumption, SMT DEF Length

\* Appending keeps the invariant, also of an object's own block.
LEMMA AppendInv ==
    ASSUME IInv, NEW d \in Data, NEW b \in Block, NEW n \in Length, EFDataAppendBuffer(d, b, n) PROVE IInv'
<1>1. Mutable(d)
  BY DEF EFDataAppendBuffer
<1>2. \E f, t : Changed(d, f, t)
  BY AppendOutcomes
<1> QED BY <1>1, <1>2, ChangedInv

(***************************************************************************)
(* The invariant holds.                                                    *)
(***************************************************************************)

\* The invariant holds at the start.
LEMMA InitInv == Init => IInv
<1> SUFFICES ASSUME Init PROVE IInv
  OBVIOUS
<1>1. TypeOK
  BY DEF Init, TypeOK
<1>2. FieldsInv
  BY DEF Init, FieldsInv
<1>3. (\A d \in Data : \A b : ~Has(d, b)) /\ \A k, b : ~Keeps(k, b)
  BY DEF Init, Has, Keeps
<1>4. OwnersInv
  BY <1>3 DEF Init, OwnersInv
<1>5. CellsInv /\ PointerInv
  BY DEF Init, CellsInv, PointerInv, Usable
<1> QED BY <1>1, <1>2, <1>4, <1>5 DEF IInv

\* Every call keeps it.
LEMMA CallsInv == ASSUME IInv, Calls PROVE IInv'
<1>1. ASSUME NEW d \in Data, NEW b \in Block, NEW n \in Length,
             \/ EFDataCreateWithBuffer(d, b, n) \/ EFDataCreateWithBufferNoCopy(d, b, n)
             \/ EFDataAppendBuffer(d, b, n)
             \/ \E location \in Length : EFDataCopyRangeToBuffer(d, location, n, b)
      PROVE  IInv'
  <2>1. CASE EFDataCreateWithBuffer(d, b, n)
    <3>1. b \in Live /\ n <= Len(heap[b]) /\ Owning(d, SubSeq(heap[b], 1, n), FALSE)
      BY <2>1 DEF EFDataCreateWithBuffer
    <3> QED BY <3>1, StartOfBlock, OwningInv
  <2>2. CASE EFDataCreateWithBufferNoCopy(d, b, n)
    BY <2>2, ViewInv
  <2>3. CASE EFDataAppendBuffer(d, b, n)
    BY <2>3, AppendInv
  <2>4. CASE \E location \in Length : EFDataCopyRangeToBuffer(d, location, n, b)
    BY <2>4, CopyRangeInv
  <2> QED BY <1>1, <2>1, <2>2, <2>3, <2>4
<1>2. ASSUME NEW d \in Data, NEW n \in Length,
             EFDataCreateMutable(d, n) \/ EFDataSetLength(d, n) \/ EFDataIncreaseLength(d, n)
      PROVE  IInv'
  <2>1. CASE EFDataCreateMutable(d, n)
    <3>0. n \in Nat
      BY DataAssumption DEF Length
    <3>1. Owning(d, Zeros(n), TRUE)
      BY <2>1, Zenon DEF EFDataCreateMutable
    <3>2. Zeros(n) \in Seq(Cell) /\ Len(Zeros(n)) \in Length
      BY <3>0, ZerosCells
    <3> QED BY <3>1, <3>2, OwningInv
  <2>2. CASE EFDataSetLength(d, n)
    BY <2>2, SetLengthInv
  <2>3. CASE EFDataIncreaseLength(d, n)
    BY <2>3, Increase, SetLengthInv
  <2> QED BY <1>2, <2>1, <2>2, <2>3
<1>3. ASSUME NEW d \in Data, NEW e \in Data, EFDataCreateCopy(d, e) \/ EFDataCreateMutableCopy(d, e)
      PROVE  IInv'
  <2>1. Usable(e) /\ (Owning(d, Contents(e), FALSE) \/ Owning(d, Contents(e), TRUE))
    BY <1>3 DEF EFDataCreateCopy, EFDataCreateMutableCopy
  <2>2. Contents(e) \in Seq(Cell) /\ Len(Contents(e)) \in Length
    BY <2>1, ContentsCells, UsableFacts
  <2> QED BY <2>1, <2>2, OwningInv
<1>4. ASSUME NEW d \in Data, EFDataGetMutablePtr(d) PROVE IInv'
  BY <1>4, GetMutablePtrInv
<1>5. ASSUME NEW c \in Byte, WriteThroughPointer(c) \/ \E b \in Block : ClientWrites(b, c) PROVE IInv'
  BY <1>5, PokeInv, WritableBlocks DEF WriteThroughPointer, ClientWrites
<1>6. ASSUME NEW b \in Block, ClientAllocates(b) \/ ClientFrees(b) \/ EFMappingCreate(b) PROVE IInv'
  BY <1>6, ClientAllocatesInv, ClientFreesInv, MappingCreateInv
<1>7. ASSUME NEW b \in Block, NEW c \in Block, EFMallocBlockCreateWithDeinitHandler(b, c) PROVE IInv'
  BY <1>7, MallocBlockCreateInv
<1>8. CASE EFMappingDisableUnmap \/ ReleaseMapping \/ ReleaseMallocBlock
  BY <1>8, DisableUnmapInv, ReleaseMappingInv, ReleaseMallocBlockInv
<1> QED BY <1>1, <1>2, <1>3, <1>4, <1>5, <1>6, <1>7, <1>8 DEF Calls

\* The invariant holds as long as no freed memory has been used.
Sound == undefined \/ IInv

\* Every step keeps that: a release that frees no block again keeps the invariant.
LEMMA NextSound == Sound /\ [Next]_vars => Sound'
<1> SUFFICES ASSUME Sound, [Next]_vars, ~undefined' PROVE IInv'
  BY DEF Sound
<1>1. CASE UNCHANGED vars
  <2>1. IInv
    BY <1>1 DEF Sound, vars
  <2> QED BY <1>1, <2>1 DEF vars, IInv, TypeOK, FieldsInv, OwnersInv, CellsInv, PointerInv, Has, Keeps, Usable, Viewing, Mutable
<1>2. CASE Next
  <2>1. IInv
    BY <1>2 DEF Sound, Next
  <2>2. CASE Calls
    BY <2>1, <2>2, CallsInv
  <2>3. CASE \E d \in Data : Release(d) \/ UseFreed(d)
    BY <2>1, <2>3, Drops DEF UseFreed
  <2> QED BY <1>2, <2>2, <2>3 DEF Next
<1> QED BY <1>1, <1>2

\* The invariant holds in every behaviour, until freed memory is used: the blocks,
\* their owners, the objects over them and the pointer fit together as the parts
\* of IInv say.
THEOREM Invariance == Spec => []Sound
<1>1. Init => Sound
  BY InitInv DEF Sound
<1> QED BY <1>1, NextSound, PTL DEF Spec

\* Who has to free a block, as the property counts them.
LEMMA OwnersFromInv == Sound => OneOwner
<1> SUFFICES ASSUME IInv, NEW b \in Block
             PROVE  IF heap[b] = Dead THEN Owners(b) = {} ELSE \E o \in Owners(b) : Owners(b) = {o}
  BY DEF OneOwner, Sound
<1>1. \A o : o \in Owners(b) <=> \/ \E d \in Data : Has(d, b) /\ o = <<"data", d>>
                                 \/ Keeps("client", b) /\ o = <<"client">>
                                 \/ Keeps("mapping", b) /\ o = <<"mapping">>
                                 \/ Keeps("memory", b) /\ o = <<"memory">>
                                 \/ Keeps("callback", b) /\ o = <<"callback">>
  <2>1. \A o : o \in {<<"data", d>> : d \in {e \in Data : Has(e, b)}} <=>
                 \E d \in Data : Has(d, b) /\ o = <<"data", d>>
    OBVIOUS
  <2>2. {<<"data", d>> : d \in {e \in Data : Has(e, b)}} =
        {<<"data", d>> : d \in {e \in Data : /\ Usable(e) /\ data[e].buffer = b
                                             /\ (data[e].isMutable \/ data[e].isInlined)}}
    BY DEF Has, Usable
  <2>3. /\ Keeps("client", b) <=> b \in client
        /\ Keeps("mapping", b) <=> mapping # Gone /\ mapping.unmap /\ mapping.addr = b
        /\ Keeps("memory", b) <=> holder # Gone /\ holder.memory = b
        /\ Keeps("callback", b) <=> holder # Gone /\ holder.callback = b
    BY KeeperFacts
  <2> QED BY <2>1, <2>2, <2>3 DEF Owners
<1>2. CASE heap[b] = Dead
  <2>1. \A d \in Data : ~Has(d, b)
    BY <1>2 DEF IInv, OwnersInv
  <2>2. \A k \in Keeper : ~Keeps(k, b)
    BY <1>2 DEF IInv, OwnersInv
  <2>3. \A o : o \notin Owners(b)
    BY <1>1, <2>1, <2>2 DEF Keeper
  <2> QED BY <1>2, <2>3
<1>3. CASE heap[b] # Dead
  <2>1. (\E d \in Data : Has(d, b)) \/ (\E k \in Keeper : Keeps(k, b))
    BY <1>3 DEF IInv, OwnersInv
  <2>2. CASE \E d \in Data : Has(d, b)
    <3>1. PICK d \in Data : Has(d, b)
      BY <2>2
    <3>2. \A k \in Keeper : ~Keeps(k, b)
      BY <3>1 DEF IInv, OwnersInv
    <3>3. \A e \in Data : Has(e, b) => e = d
      BY <3>1 DEF IInv, OwnersInv
    <3>4. \A o : o \in Owners(b) <=> o = <<"data", d>>
      BY <1>1, <3>1, <3>2, <3>3 DEF Keeper
    <3> DEFINE w == <<"data", d>>
    <3>5. \A o : o \in Owners(b) <=> o = w
      BY <3>4
    <3> HIDE DEF w
    <3>6. Owners(b) = {w}
      BY <3>5
    <3> QED BY <1>3, <3>6
  <2>3. CASE \E k \in Keeper : Keeps(k, b)
    <3>1. PICK k \in Keeper : Keeps(k, b)
      BY <2>3
    <3>2. \A d \in Data : ~Has(d, b)
      BY <3>1 DEF IInv, OwnersInv
    <3>3. \A l \in Keeper : Keeps(l, b) => l = k
      BY <3>1 DEF IInv, OwnersInv
    <3>4. \A o : o \in Owners(b) <=> o = <<k>>
      BY <1>1, <3>1, <3>2, <3>3 DEF Keeper
    <3> DEFINE w == <<k>>
    <3>5. \A o : o \in Owners(b) <=> o = w
      BY <3>4
    <3> HIDE DEF w
    <3>6. Owners(b) = {w}
      BY <3>5
    <3> QED BY <1>3, <3>6
  <2> QED BY <2>1, <2>2, <2>3
<1> QED BY <1>2, <1>3

\* Every live block has exactly one who has to free it, and a dead one nobody,
\* through every order of copies, views, resizes, hand-overs and releases, until
\* an object is used or released that EFDataSetLength(d, 0) has failed on.
THEOREM Ownership == Spec => []OneOwner
<1> QED BY Invariance, OwnersFromInv, PTL

\* The pointer from EFDataGetMutablePtr stays that of its object's bytes, whatever
\* happens, until a call asks for another length of the object.
THEOREM PointerSafety == Spec => []PointerValid
<1>1. Sound => PointerValid
  BY DEF Sound, IInv, PointerInv, PointerValid, Mutable
<1> QED BY <1>1, Invariance, PTL

(***************************************************************************)
(* Where realloc keeps a block that is resized to nothing, nothing is      *)
(* freed twice or used after it was freed.                                 *)
(***************************************************************************)

\* No object keeps the pointer to a block that realloc has freed.
Kept == IInv /\ undefined = FALSE /\ \A d \in Data : data[d] # Gone => ~data[d].freed

\* The fields of every object are the old ones or say that its block is not freed.
LEMMA KeptFields ==
    ASSUME ~FreesEmpty, Kept, Calls
    PROVE  \A d \in Data : data'[d] # Gone => ~data'[d].freed
<1>0. IInv /\ \A d \in Data : Usable(d) <=> data[d] # Gone
  BY DEF Kept, Usable
<1>1. ASSUME NEW d \in Data, NEW X \in DataObject, ~X.freed, data' = [data EXCEPT ![d] = X]
      PROVE  \A e \in Data : data'[e] # Gone => ~data'[e].freed
  <2>1. data'[d] = X /\ (\A e \in Data : e # d => data'[e] = data[e])
    BY <1>0, <1>1 DEF IInv, TypeOK
  <2> QED BY <1>1, <2>1 DEF Kept
<1>2. ASSUME NEW d \in Data, NEW t \in Seq(Cell), Len(t) \in Length, NEW m \in BOOLEAN, Owning(d, t, m)
      PROVE  \A e \in Data : data'[e] # Gone => ~data'[e].freed
  <2>1. PICK b \in Fresh : data' = [data EXCEPT ![d] = OwningFields(b, t, m)]
    BY <1>2, Zenon DEF Owning, OwningFields
  <2>2. b \in Block
    BY <1>0, NewBlock
  <2>3. OwningFields(b, t, m) \in DataObject /\ ~OwningFields(b, t, m).freed
    BY <1>2, <2>2, OwningFieldsOK
  <2> QED BY <1>1, <2>1, <2>3
<1>3. ASSUME NEW d \in Data, Mutable(d), NEW f, NEW t, Changed(d, f, t)
      PROVE  \A e \in Data : data'[e] # Gone => ~data'[e].freed
  <2>1. data[d] \in DataObject /\ f \in Block /\ Len(t) \in Length /\ data' = [data EXCEPT ![d] = With(data[d], f, Len(t))]
    BY <1>0, <1>3, UsableFacts DEF Mutable, Changed
  <2>2. With(data[d], f, Len(t)) \in DataObject /\ With(data[d], f, Len(t)).freed = FALSE
    BY <2>1, ChangedFields
  <2> QED BY <1>1, <2>1, <2>2
<1>4. ASSUME UNCHANGED data PROVE \A e \in Data : data'[e] # Gone => ~data'[e].freed
  BY <1>4 DEF Kept
<1>5. ASSUME NEW d \in Data, NEW b \in Block, NEW n \in Length,
             EFDataCreateWithBuffer(d, b, n) \/ EFDataCreateWithBufferNoCopy(d, b, n) \/ EFDataAppendBuffer(d, b, n)
      PROVE  \A e \in Data : data'[e] # Gone => ~data'[e].freed
  <2>1. CASE EFDataCreateWithBuffer(d, b, n)
    <3>1. b \in Live /\ n <= Len(heap[b]) /\ Owning(d, SubSeq(heap[b], 1, n), FALSE)
      BY <2>1 DEF EFDataCreateWithBuffer
    <3> QED BY <3>1, <1>0, <1>2, StartOfBlock
  <2>2. CASE EFDataCreateWithBufferNoCopy(d, b, n)
    <3> DEFINE X == [buffer |-> b, length |-> n, isMutable |-> FALSE, isInlined |-> FALSE, freed |-> FALSE]
    <3>1. X \in DataObject /\ ~X.freed
      BY DEF DataObject
    <3>2. data' = [data EXCEPT ![d] = X]
      BY <2>2 DEF EFDataCreateWithBufferNoCopy
    <3> HIDE DEF X
    <3> QED BY <1>1, <3>1, <3>2
  <2>3. CASE EFDataAppendBuffer(d, b, n)
    <3>1. Mutable(d) /\ \E f, t : Changed(d, f, t)
      BY <2>3, <1>0, AppendOutcomes DEF EFDataAppendBuffer
    <3> QED BY <3>1, <1>3
  <2> QED BY <1>5, <2>1, <2>2, <2>3
<1>6. ASSUME NEW d \in Data, NEW n \in Length, EFDataSetLength(d, n)
      PROVE  \A e \in Data : data'[e] # Gone => ~data'[e].freed
  <2>1. Mutable(d) /\ \E f : Changed(d, f, Grown(d, n))
    BY <1>0, <1>6, SetLengthOutcomes DEF EFDataSetLength
  <2> QED BY <2>1, <1>3
<1>7. ASSUME NEW d \in Data, NEW n \in Length, EFDataCreateMutable(d, n)
      PROVE  \A e \in Data : data'[e] # Gone => ~data'[e].freed
  <2>1. Owning(d, Zeros(n), TRUE)
    BY <1>7, Zenon DEF EFDataCreateMutable
  <2>2. n \in Nat
    BY DataAssumption DEF Length
  <2>3. Zeros(n) \in Seq(Cell) /\ Len(Zeros(n)) \in Length
    BY <2>2, ZerosCells
  <2> QED BY <2>1, <2>3, <1>2
<1>8. ASSUME NEW d \in Data, NEW n \in Length, EFDataIncreaseLength(d, n)
      PROVE  \A e \in Data : data'[e] # Gone => ~data'[e].freed
  BY <1>0, <1>6, <1>8, Increase
<1>9. ASSUME NEW d \in Data, NEW e \in Data, EFDataCreateCopy(d, e) \/ EFDataCreateMutableCopy(d, e)
      PROVE  \A g \in Data : data'[g] # Gone => ~data'[g].freed
  <2>1. Usable(e) /\ (Owning(d, Contents(e), FALSE) \/ Owning(d, Contents(e), TRUE))
    BY <1>9 DEF EFDataCreateCopy, EFDataCreateMutableCopy
  <2>2. Contents(e) \in Seq(Cell) /\ Len(Contents(e)) \in Length
    BY <2>1, <1>0, ContentsCells, UsableFacts
  <2> QED BY <2>1, <2>2, <1>2
<1>10. CASE \/ \E d \in Data, b \in Block, n \in Length, location \in Length : EFDataCopyRangeToBuffer(d, location, n, b)
            \/ \E d \in Data : EFDataGetMutablePtr(d)
            \/ \E c \in Byte : WriteThroughPointer(c) \/ \E b \in Block : ClientWrites(b, c)
            \/ \E b \in Block : ClientAllocates(b) \/ ClientFrees(b) \/ EFMappingCreate(b)
            \/ \E b, c \in Block : EFMallocBlockCreateWithDeinitHandler(b, c)
            \/ EFMappingDisableUnmap \/ ReleaseMapping \/ ReleaseMallocBlock
  <2>1. UNCHANGED data
    BY <1>10 DEF EFDataCopyRangeToBuffer, EFDataGetMutablePtr, WriteThroughPointer, ClientWrites, Poke,
         ClientAllocates, ClientFrees, EFMappingCreate, EFMallocBlockCreateWithDeinitHandler,
         EFMappingDisableUnmap, ReleaseMapping, ReleaseMallocBlock
  <2> QED BY <2>1, <1>4
<1> QED BY <1>5, <1>6, <1>7, <1>8, <1>9, <1>10 DEF Calls

\* So releases free what is there, and nothing is used that is not.
LEMMA NextKept == ASSUME ~FreesEmpty PROVE Kept /\ [Next]_vars => Kept'
<1> SUFFICES ASSUME Kept, [Next]_vars PROVE Kept'
  OBVIOUS
<1>1. CASE UNCHANGED vars
  <2>1. Sound /\ ~undefined' /\ (Sound' => IInv')
    BY <1>1 DEF Kept, Sound, vars
  <2>2. IInv'
    BY <1>1, <2>1, NextSound
  <2> QED BY <1>1, <2>2 DEF Kept, vars
<1>2. CASE Calls /\ UNCHANGED undefined
  <2>1. IInv'
    BY <1>2, CallsInv DEF Kept
  <2> QED BY <1>2, <2>1, KeptFields DEF Kept
<1>3. CASE \E d \in Data : Release(d) \/ UseFreed(d)
  <2>1. PICK d \in Data : Release(d)
    BY <1>3 DEF UseFreed, Kept
  <2>2. IInv /\ data[d] # Gone /\ data[d] \in DataObject /\ ~data[d].freed
    BY <2>1 DEF Release, Kept, IInv, TypeOK
  <2>3. data[d].freed = FALSE
    BY <2>2 DEF DataObject
  <2>4. undefined' = FALSE
    BY <2>1, <2>3 DEF Release
  <2>5. IInv'
    BY <2>1, <2>2, <2>4, Drops
  <2>6. data'[d] = Gone /\ (\A e \in Data : e # d => data'[e] = data[e])
    BY <2>1, <2>2 DEF Release, IInv, TypeOK
  <2> QED BY <2>4, <2>5, <2>6 DEF Kept
<1> QED BY <1>1, <1>2, <1>3 DEF Next

\* With a C library whose realloc keeps a block that is resized to nothing, no
\* call and no release, in whatever order, frees a block that is freed already:
\* every live block has one who has to free it, without exception, and every
\* mutable object has a block to free, as EFData.c:39 says.
THEOREM NothingFreedTwice == ASSUME ~FreesEmpty PROVE Spec => [](~undefined /\ OneOwner /\ MutableDeallocatable)
<1>1. Init => Kept
  BY InitInv DEF Init, Kept
<1>2. Kept => ~undefined /\ OneOwner /\ MutableDeallocatable
  <2> SUFFICES ASSUME Kept, NEW d \in Data, data[d] # Gone, data[d].isMutable
               PROVE  ~data[d].isInlined /\ data[d].buffer \in Live
    BY OwnersFromInv DEF Kept, Sound, MutableDeallocatable
  <2>1. IInv /\ Usable(d)
    BY DEF Kept, Usable
  <2> QED BY <2>1, UsableFacts DEF Live
<1>3. Kept /\ [Next]_vars => Kept'
  BY NextKept
<1> QED BY <1>1, <1>2, <1>3, PTL DEF Spec

(***************************************************************************)
(* Data objects are what EFBytes says.  First the steps of EFBytes in      *)
(* terms of what an object's cells and its kind are here.                  *)
(***************************************************************************)

\* All objects but d are as they were.
OthersSame(d) == \A e \in Data : e # d => Value(e)' = Value(e) /\ Kind(e)' = Kind(e)

\* An object appears, with cells that a client can pass or, a mutable one, with zeros.
LEMMA MakeStep ==
    ASSUME NEW d \in Data, OthersSame(d), Value(d) = Bytes!Gone, Kind(d)' \in {"copy", "view", "mutable"},
           \/ Value(d)' \in Readable
           \/ Kind(d)' = "mutable" /\ Value(d)' \in {Bytes!Fill(n, "0") : n \in Length}
    PROVE  Bytes!Make(d)
<1> DEFINE value == [x \in Data |-> Value(x)]
           kind == [x \in Data |-> Kind(x)]
<1>1. /\ \A x \in Data : value[x] = Value(x) /\ value'[x] = Value(x)'
      /\ \A x \in Data : kind[x] = Kind(x) /\ kind'[x] = Kind(x)'
  OBVIOUS
<1>2. value[d] = Bytes!Gone
  BY <1>1
<1>3. \E k \in {"copy", "view", "mutable"} : kind' = [kind EXCEPT ![d] = k]
  <2>1. kind' = [kind EXCEPT ![d] = Kind(d)']
    BY DEF OthersSame
  <2> QED BY <2>1
<1>4. \A e \in Data \ {d} : value'[e] = value[e]
  BY <1>1 DEF OthersSame
<1>5. value'[d] \in Readable \cup IF kind'[d] = "mutable" THEN {Bytes!Fill(n, "0") : n \in 0..MaxLength} ELSE {}
  BY <1>1 DEF Length
<1> HIDE DEF value, kind
<1> QED BY <1>2, <1>3, <1>4, <1>5 DEF Bytes!Make, Bytes!Becomes, value, kind

\* An object goes.
LEMMA DropStep ==
    ASSUME NEW d \in Data, OthersSame(d), Kind(d) # "none", Value(d) # Bytes!Lost,
           Kind(d)' = "none", Value(d)' = Bytes!Gone
    PROVE  Bytes!Drop(d)
<1> DEFINE value == [x \in Data |-> Value(x)]
           kind == [x \in Data |-> Kind(x)]
<1>1. /\ \A x \in Data : value[x] = Value(x) /\ value'[x] = Value(x)'
      /\ \A x \in Data : kind[x] = Kind(x) /\ kind'[x] = Kind(x)'
  OBVIOUS
<1>2. kind[d] # "none" /\ value[d] # Bytes!Lost
  BY <1>1
<1>3. kind' = [kind EXCEPT ![d] = "none"]
  BY DEF OthersSame
<1>4. \A e \in Data \ {d} : value'[e] = value[e]
  BY <1>1 DEF OthersSame
<1>5. value'[d] \in {Bytes!Gone}
  BY <1>1
<1> HIDE DEF value, kind
<1> QED BY <1>2, <1>3, <1>4, <1>5 DEF Bytes!Drop, Bytes!Becomes, value, kind

\* A mutable object is edited.
LEMMA EditStep ==
    ASSUME NEW d \in Data, OthersSame(d), Kind(d) = "mutable", Value(d) # Bytes!Lost,
           Kind(d)' = Kind(d), Value(d)' \in Bytes!Edited(Value(d))
    PROVE  Bytes!Edit(d)
<1> DEFINE value == [x \in Data |-> Value(x)]
           kind == [x \in Data |-> Kind(x)]
<1>1. /\ \A x \in Data : value[x] = Value(x) /\ value'[x] = Value(x)'
      /\ \A x \in Data : kind[x] = Kind(x) /\ kind'[x] = Kind(x)'
  OBVIOUS
<1>2. kind[d] = "mutable" /\ value[d] # Bytes!Lost
  BY <1>1
<1>3. kind' = kind
  BY DEF OthersSame
<1>4. \A e \in Data \ {d} : value'[e] = value[e]
  BY <1>1 DEF OthersSame
<1>5. value'[d] \in Bytes!Edited(value[d])
  BY <1>1
<1> HIDE DEF value, kind
<1>6. Bytes!Becomes(d, Bytes!Edited(value[d]))
  BY <1>4, <1>5 DEF Bytes!Becomes, value
<1> QED BY <1>2, <1>3, <1>6 DEF Bytes!Edit, Bytes!Editable, value, kind

\* Cells of a mutable object are appended to it after they were freed.
LEMMA AppendOwnStep ==
    ASSUME NEW d \in Data, OthersSame(d), Kind(d) = "mutable", Value(d) # Bytes!Lost,
           Kind(d)' = Kind(d), NEW n \in DOMAIN Value(d), Value(d)' = Value(d) \o Bytes!Fill(n, "?")
    PROVE  Bytes!AppendOwn(d)
<1> DEFINE value == [x \in Data |-> Value(x)]
           kind == [x \in Data |-> Kind(x)]
<1>1. /\ \A x \in Data : value[x] = Value(x) /\ value'[x] = Value(x)'
      /\ \A x \in Data : kind[x] = Kind(x) /\ kind'[x] = Kind(x)'
  OBVIOUS
<1>2. kind[d] = "mutable" /\ value[d] # Bytes!Lost
  BY <1>1
<1>3. kind' = kind
  BY DEF OthersSame
<1>4. \A e \in Data \ {d} : value'[e] = value[e]
  BY <1>1 DEF OthersSame
<1>5. n \in DOMAIN value[d] /\ value'[d] = value[d] \o Bytes!Fill(n, "?")
  BY <1>1
<1> HIDE DEF value, kind
<1>6. Bytes!Becomes(d, {value[d] \o Bytes!Fill(m, "?") : m \in DOMAIN value[d]})
  BY <1>4, <1>5 DEF Bytes!Becomes, value
<1> QED BY <1>2, <1>3, <1>6 DEF Bytes!AppendOwn, Bytes!Editable, value, kind

\* A mutable object is made empty, and lost.
LEMMA EmptyStep ==
    ASSUME NEW d \in Data, OthersSame(d), Kind(d) = "mutable", Value(d) # Bytes!Lost, Value(d) # <<>>,
           Kind(d)' = Kind(d), Value(d)' = Bytes!Lost
    PROVE  Bytes!Empty(d)
<1> DEFINE value == [x \in Data |-> Value(x)]
           kind == [x \in Data |-> Kind(x)]
<1>1. /\ \A x \in Data : value[x] = Value(x) /\ value'[x] = Value(x)'
      /\ \A x \in Data : kind[x] = Kind(x) /\ kind'[x] = Kind(x)'
  OBVIOUS
<1>2. kind[d] = "mutable" /\ value[d] # Bytes!Lost /\ value[d] # <<>>
  BY <1>1
<1>3. kind' = kind
  BY DEF OthersSame
<1>4. \A e \in Data \ {d} : value'[e] = value[e]
  BY <1>1 DEF OthersSame
<1>5. value'[d] = Bytes!Lost
  BY <1>1
<1> HIDE DEF value, kind
<1>6. Bytes!Becomes(d, {Bytes!Lost})
  BY <1>4, <1>5 DEF Bytes!Becomes, value
<1> QED BY <1>2, <1>3, <1>6 DEF Bytes!Empty, Bytes!Editable, value, kind

\* A lost object is used, and all are.
LEMMA BreakStep ==
    ASSUME NEW d \in Data, Value(d) = Bytes!Lost,
           \A e \in Data : Value(e)' = Bytes!Lost /\ Kind(e)' = "none"
    PROVE  Bytes!Break
<1> DEFINE value == [x \in Data |-> Value(x)]
           kind == [x \in Data |-> Kind(x)]
<1>1. value[d] = Bytes!Lost
  OBVIOUS
<1>2. value' = [e \in Data |-> Bytes!Lost] /\ kind' = [e \in Data |-> "none"]
  OBVIOUS
<1> HIDE DEF value, kind
<1> QED BY <1>1, <1>2 DEF Bytes!Break, value, kind

\* Views have other cells, as many as before, and other objects the same.
LEMMA ShowStep ==
    ASSUME \A d \in Data : Kind(d)' = Kind(d),
           \A d \in Data : Kind(d) = "view" => Value(d)' \in [DOMAIN Value(d) -> Cell],
           \A d \in Data : Kind(d) # "view" => Value(d)' = Value(d)
    PROVE  Bytes!Show
<1> DEFINE value == [x \in Data |-> Value(x)]
           kind == [x \in Data |-> Kind(x)]
<1>1. /\ \A x \in Data : value[x] = Value(x) /\ value'[x] = Value(x)'
      /\ \A x \in Data : kind[x] = Kind(x) /\ kind'[x] = Kind(x)'
  OBVIOUS
<1>2. kind' = kind
  OBVIOUS
<1>3. \A x \in Data : IF kind[x] = "view" THEN value'[x] \in [DOMAIN value[x] -> Cell] ELSE value'[x] = value[x]
  BY <1>1
<1> HIDE DEF value, kind
<1> QED BY <1>2, <1>3 DEF Bytes!Show, value, kind

\* Nothing that EFBytes sees has changed.
LEMMA SameStep ==
    ASSUME \A d \in Data : Value(d)' = Value(d) /\ Kind(d)' = Kind(d)
    PROVE  UNCHANGED Bytes!vars
  BY DEF Bytes!vars

(***************************************************************************)
(* What the objects are to EFBytes.                                        *)
(***************************************************************************)

\* Freed memory has not been used before this step, nor by it.
Calm == ~undefined /\ ~undefined'

\* What EFBytes sees of an object that is not there, is usable, or has lost its block.
LEMMA ValueFacts ==
    ASSUME IInv, ~undefined, NEW d \in Data
    PROVE  /\ data[d] = Gone => Value(d) = Bytes!Gone /\ Kind(d) = "none"
           /\ Usable(d) => /\ Value(d) = Contents(d) /\ Value(d) \in Seq(Cell)
                           /\ Len(Value(d)) = data[d].length /\ Value(d) # Bytes!Lost
                           /\ Kind(d) # "none" /\ (Kind(d) = "view" <=> Viewing(d))
                           /\ (Kind(d) = "mutable" <=> Mutable(d))
           /\ data[d] # Gone /\ ~Usable(d) => Value(d) = Bytes!Lost /\ Kind(d) = "mutable"
<1>1. ASSUME data[d] = Gone PROVE Value(d) = Bytes!Gone /\ Kind(d) = "none"
  BY <1>1 DEF Value, Kind, NoValue, Bytes!Gone
<1>2. ASSUME Usable(d)
      PROVE  /\ Value(d) = Contents(d) /\ Value(d) \in Seq(Cell)
             /\ Len(Value(d)) = data[d].length /\ Value(d) # Bytes!Lost
             /\ Kind(d) # "none" /\ (Kind(d) = "view" <=> Viewing(d))
             /\ (Kind(d) = "mutable" <=> Mutable(d))
  <2>1. data[d] # Gone
    BY <1>2 DEF Usable
  <2>2. Value(d) = Contents(d)
    BY <1>2, <2>1 DEF Value, Kind
  <2>3. Value(d) \in Seq(Cell) /\ Len(Value(d)) = data[d].length
    BY <1>2, <2>2, ContentsCells
  <2>4. Bytes!Lost \notin Seq(Cell)
    BY DataAssumption, ElementOfSeq, SMT DEF Bytes!Lost, Cell
  <2>5. /\ Kind(d) # "none" /\ (Kind(d) = "view" <=> Viewing(d))
        /\ (Kind(d) = "mutable" <=> Mutable(d))
    BY <1>2, <2>1 DEF Kind, Viewing, Mutable
  <2> QED BY <2>2, <2>3, <2>4, <2>5
<1>3. ASSUME data[d] # Gone, ~Usable(d) PROVE Value(d) = Bytes!Lost /\ Kind(d) = "mutable"
  <2>1. data[d].isMutable
    BY <1>3 DEF Usable, IInv, FieldsInv
  <2> QED BY <1>3, <2>1 DEF Value, Kind, LostValue, Bytes!Lost
<1> QED BY <1>1, <1>2, <1>3

\* An object whose fields and whose block stay is the same.
LEMMA SameObject ==
    ASSUME Calm, NEW e \in Data, data'[e] = data[e],
           Usable(e) => heap'[data[e].buffer] = heap[data[e].buffer]
    PROVE  Value(e)' = Value(e) /\ Kind(e)' = Kind(e)
<1>1. Kind(e)' = Kind(e)
  BY DEF Calm, Kind
<1>2. Value(e)' = Value(e)
  BY DEF Calm, Value, Kind, Usable, Contents
<1> QED BY <1>1, <1>2

\* An object that has all the cells t of its block.
LEMMA WholeBlock ==
    ASSUME Calm, NEW d \in Data, NEW t \in Seq(Cell), NEW X, data'[d] = X, X # Gone, ~X.freed,
           heap'[X.buffer] = t, X.length = Len(t)
    PROVE  Value(d)' = t
<1>1. Usable(d)' /\ data'[d] # Gone
  BY DEF Usable
<1>2. Contents(d)' = SubSeq(t, 1, Len(t))
  BY DEF Contents
<1>3. SubSeq(t, 1, Len(t)) = t
  BY SubSeqFull
<1> QED BY <1>1, <1>2, <1>3 DEF Calm, Value, Kind

\* What clients can pass is the start of a live block.
LEMMA StartReadable ==
    ASSUME NEW b \in Live, NEW n \in Length, n <= Len(heap[b])
    PROVE  SubSeq(heap[b], 1, n) \in Readable
<1> DEFINE p == <<b, n>>
<1>1. p \in {q \in Live \X Length : q[2] <= Len(heap[q[1]])} /\ p[1] = b /\ p[2] = n
  OBVIOUS
<1> QED BY <1>1 DEF Readable

\* The contents of an object can be passed.
LEMMA ContentsReadable == ASSUME IInv, NEW d \in Data, Usable(d) PROVE Contents(d) \in Readable
<1>1. data[d].buffer \in Live /\ data[d].length \in Length /\ data[d].length <= Len(heap[data[d].buffer])
  BY UsableFacts DEF Live
<1> QED BY <1>1, StartReadable DEF Contents

(***************************************************************************)
(* Every action is a step of EFBytes, or nothing to it.                    *)
(***************************************************************************)

\* Creation of an object that owns its bytes.
LEMMA OwningStep ==
    ASSUME IInv, Calm, NEW d \in Data, NEW t \in Seq(Cell), Len(t) \in Length, NEW m \in BOOLEAN, Owning(d, t, m),
           t \in Readable \/ (m /\ t \in {Bytes!Fill(n, "0") : n \in Length})
    PROVE  Bytes!Make(d)
<1>1. PICK b \in Fresh : /\ heap' = [heap EXCEPT ![b] = t]
                         /\ data' = [data EXCEPT ![d] = OwningFields(b, t, m)]
  BY Zenon DEF Owning, OwningFields
<1>2. b \in Block /\ heap[b] = Dead /\ ~undefined /\ ~undefined'
  BY NewBlock DEF Calm
<1> DEFINE X == OwningFields(b, t, m)
<1>3. X \in DataObject /\ X.buffer = b /\ X.length = Len(t) /\ (X.isMutable <=> m) /\ (X.isInlined <=> ~m) /\ ~X.freed
  BY <1>2, OwningFieldsOK
<1> HIDE DEF X
<1>4. X # Gone
  BY <1>3, Distinct
<1>5. data'[d] = X /\ (\A e \in Data : e # d => data'[e] = data[e])
  BY <1>1 DEF IInv, TypeOK, X
<1>6. heap'[b] = t /\ (\A x \in Block : x # b => heap'[x] = heap[x])
  BY <1>1, <1>2 DEF IInv, TypeOK
<1>7. Value(d)' = t
  BY <1>2, <1>3, <1>4, <1>5, <1>6, WholeBlock
<1>8. Kind(d)' = IF m THEN "mutable" ELSE "copy"
  BY <1>2, <1>3, <1>4, <1>5 DEF Kind
<1>9. Value(d) = Bytes!Gone
  BY <1>2, ValueFacts DEF Owning
<1>10. OthersSame(d)
  <2> SUFFICES ASSUME NEW e \in Data, e # d PROVE Value(e)' = Value(e) /\ Kind(e)' = Kind(e)
    BY DEF OthersSame
  <2>1. Usable(e) => heap'[data[e].buffer] = heap[data[e].buffer]
    BY <1>2, <1>6, UsableFacts
  <2> QED BY <2>1, <1>5, SameObject
<1> QED BY <1>7, <1>8, <1>9, <1>10, MakeStep

\* Creation of a view makes an object that shows what the client passed.
LEMMA ViewStep ==
    ASSUME IInv, Calm, NEW d \in Data, NEW b \in Block, NEW n \in Length, EFDataCreateWithBufferNoCopy(d, b, n)
    PROVE  Bytes!Make(d)
<1> DEFINE X == [buffer |-> b, length |-> n, isMutable |-> FALSE, isInlined |-> FALSE, freed |-> FALSE]
<1>1. X \in DataObject /\ X.buffer = b /\ X.length = n /\ ~X.isMutable /\ ~X.isInlined /\ ~X.freed
  BY DEF DataObject
<1>2. data' = [data EXCEPT ![d] = X] /\ UNCHANGED heap /\ b \in Live /\ n <= Len(heap[b]) /\ data[d] = Gone
  BY DEF EFDataCreateWithBufferNoCopy
<1> HIDE DEF X
<1>3. data'[d] = X /\ (\A e \in Data : e # d => data'[e] = data[e]) /\ X # Gone /\ ~undefined /\ ~undefined'
  BY <1>1, <1>2, Distinct DEF IInv, TypeOK, Calm
<1>4. Value(d)' = SubSeq(heap[b], 1, n) /\ Kind(d)' = "view"
  BY <1>1, <1>2, <1>3 DEF Value, Kind, Usable, Contents
<1>5. Value(d)' \in Readable
  BY <1>2, <1>4, StartReadable
<1>6. OthersSame(d)
  BY <1>2, <1>3, SameObject DEF OthersSame
<1>7. Value(d) = Bytes!Gone
  BY <1>2, <1>3, ValueFacts
<1> QED BY <1>4, <1>5, <1>6, <1>7, MakeStep

\* The release of the last reference drops an object, and no other loses cells.
LEMMA ReleaseStep == ASSUME IInv, Calm, NEW d \in Data, Release(d) PROVE Bytes!Drop(d)
<1>1. /\ Usable(d) /\ data'[d] = Gone /\ (\A e \in Data : e # d => data'[e] = data[e])
      /\ ~undefined /\ ~undefined'
  BY DEF Release, Usable, Calm, IInv, TypeOK
<1>2. Value(d)' = Bytes!Gone /\ Kind(d)' = "none"
  BY <1>1 DEF Value, Kind, NoValue, Bytes!Gone
<1>3. OthersSame(d)
  <2> SUFFICES ASSUME NEW e \in Data, e # d PROVE Value(e)' = Value(e) /\ Kind(e)' = Kind(e)
    BY DEF OthersSame
  <2>1. ASSUME Usable(e) PROVE heap'[data[e].buffer] = heap[data[e].buffer]
    <3>1. data[e].buffer \in Block
      BY <2>1, UsableFacts
    <3>2. data[e].buffer \notin FreedWith(d)
      <4>1. CASE Viewing(d)
        BY <4>1 DEF Viewing, FreedWith
      <4>2. CASE ~Viewing(d)
        BY <4>2, <2>1, <1>1, OwnBlocks DEF FreedWith
      <4> QED BY <4>1, <4>2
    <3> QED BY <3>1, <3>2 DEF Release
  <2> QED BY <2>1, <1>1, SameObject
<1> QED BY <1>1, <1>2, <1>3, ValueFacts, DropStep

\* When d has other cells in its block or another, it has those, and no other
\* object has changed.
LEMMA ChangedValue ==
    ASSUME IInv, Calm, NEW d \in Data, Mutable(d), NEW f, NEW t, Changed(d, f, t)
    PROVE  Value(d)' = t /\ Kind(d)' = Kind(d) /\ OthersSame(d)
<1> DEFINE X == With(data[d], f, Len(t))
<1>1. data[d] \in DataObject /\ data[d].isMutable /\ Usable(d) /\ data[d].buffer \in Block /\ ~Viewing(d) /\ data[d] # Gone
  BY UsableFacts DEF Mutable, Viewing
<1>2. f \in Block /\ t \in Seq(Cell) /\ Len(t) \in Length /\ ~undefined /\ ~undefined'
  BY DEF Changed, Calm
<1>3. X \in DataObject /\ X.buffer = f /\ X.length = Len(t) /\ X.isMutable /\ ~X.freed
  <2>1. /\ X \in DataObject /\ X.buffer = f /\ X.length = Len(t)
        /\ X.isMutable = data[d].isMutable /\ X.isInlined = data[d].isInlined /\ X.freed = FALSE
    BY <1>1, <1>2, ChangedFields
  <2> QED BY <1>1, <2>1, Zenon
<1>4. data' = [data EXCEPT ![d] = X]
  BY DEF Changed
<1> HIDE DEF X
<1>5. data'[d] = X /\ (\A e \in Data : e # d => data'[e] = data[e]) /\ X # Gone
  BY <1>3, <1>4, Distinct DEF IInv, TypeOK
<1>6. heap'[f] = t /\ (f = data[d].buffer \/ heap[f] = Dead)
      /\ \A x \in Block : x # f /\ x # data[d].buffer => heap'[x] = heap[x]
  BY DEF Changed
<1>7. Value(d)' = t
  BY <1>2, <1>3, <1>5, <1>6, WholeBlock
<1>8. Kind(d)' = Kind(d)
  BY <1>1, <1>2, <1>3, <1>5 DEF Kind
<1>9. OthersSame(d)
  <2> SUFFICES ASSUME NEW e \in Data, e # d PROVE Value(e)' = Value(e) /\ Kind(e)' = Kind(e)
    BY DEF OthersSame
  <2>1. ASSUME Usable(e) PROVE heap'[data[e].buffer] = heap[data[e].buffer]
    <3>1. data[e].buffer \in Block /\ heap[data[e].buffer] # Dead
      BY <2>1, UsableFacts
    <3>2. data[e].buffer # data[d].buffer
      BY <1>1, <2>1, OwnBlocks
    <3> QED BY <3>1, <3>2, <1>6
  <2> QED BY <2>1, <1>5, SameObject
<1> QED BY <1>7, <1>8, <1>9

\* When d has lost its block, it is lost to EFBytes, and no other object has changed.
LEMMA LostValueOf ==
    ASSUME IInv, Calm, NEW d \in Data, Mutable(d), Lost(d)
    PROVE  Value(d)' = Bytes!Lost /\ Kind(d)' = Kind(d) /\ OthersSame(d)
<1> DEFINE X == [data[d] EXCEPT !.freed = TRUE]
<1>1. data[d] \in DataObject /\ data[d].isMutable /\ Usable(d) /\ data[d].buffer \in Block /\ ~Viewing(d) /\ data[d] # Gone
  BY UsableFacts DEF Mutable, Viewing
<1>3. X \in DataObject /\ X.freed /\ X.isMutable
  <2>1. X \in DataObject /\ X.freed = TRUE /\ X.isMutable = data[d].isMutable
    BY <1>1, LostFields
  <2> QED BY <1>1, <2>1, Zenon
<1>4. data' = [data EXCEPT ![d] = X]
  BY DEF Lost
<1> HIDE DEF X
<1>5. data'[d] = X /\ (\A e \in Data : e # d => data'[e] = data[e]) /\ X # Gone
  BY <1>3, <1>4, Distinct DEF IInv, TypeOK
<1>6. Value(d)' = Bytes!Lost
  BY <1>3, <1>5 DEF Calm, Value, Kind, Usable, LostValue, Bytes!Lost
<1>7. Kind(d)' = Kind(d)
  BY <1>1, <1>3, <1>5 DEF Calm, Kind
<1>8. OthersSame(d)
  <2> SUFFICES ASSUME NEW e \in Data, e # d PROVE Value(e)' = Value(e) /\ Kind(e)' = Kind(e)
    BY DEF OthersSame
  <2>1. ASSUME Usable(e) PROVE heap'[data[e].buffer] = heap[data[e].buffer]
    <3>1. data[e].buffer \in Block /\ data[e].buffer # data[d].buffer
      BY <1>1, <2>1, OwnBlocks, UsableFacts
    <3> QED BY <3>1, <1>1 DEF Lost, IInv, TypeOK
  <2> QED BY <2>1, <1>5, SameObject
<1> QED BY <1>6, <1>7, <1>8

\* Resizing leaves the first cells, or puts zeros behind them.
LEMMA GrownEdited ==
    ASSUME IInv, ~undefined, NEW d \in Data, Mutable(d), NEW n \in Length
    PROVE  Grown(d, n) \in Bytes!Edited(Value(d))
<1> DEFINE v == Value(d)
           k == data[d].length
<1>1. Usable(d) /\ v = Contents(d) /\ v \in Seq(Cell) /\ Len(v) = k /\ k \in Nat /\ n \in Nat /\ n <= MaxLength
      /\ k \in Length /\ MaxLength \in Nat
  BY ValueFacts, UsableFacts, DataAssumption DEF Mutable, Length
<1>2. \A i \in 1..k : v[i] = heap[data[d].buffer][i]
  BY <1>1, ContentsCells
<1>3. /\ Grown(d, n) \in Seq(Cell) /\ Len(Grown(d, n)) = n
      /\ \A i \in 1..n : Grown(d, n)[i] = IF i <= k THEN heap[data[d].buffer][i] ELSE "0"
  BY <1>1, GrownCells
<1> HIDE DEF v, k
<1>4. CASE n <= k
  <2>1. n \in 0..Len(v)
    BY <1>1, <1>4, SMT
  <2>2. SubSeq(v, 1, n) \in Seq(Cell) /\ Len(SubSeq(v, 1, n)) = n /\ \A i \in 1..n : SubSeq(v, 1, n)[i] = v[i]
    BY <1>1, <2>1, StartCells
  <2>3. \A i \in 1..n : i <= k /\ i \in 1..k
    BY <1>1, <1>4, SMT
  <2>4. \A i \in 1..n : Grown(d, n)[i] = SubSeq(v, 1, n)[i]
    BY <1>2, <1>3, <2>2, <2>3
  <2>5. Grown(d, n) = SubSeq(v, 1, n)
    BY <1>3, <2>2, <2>4, SeqEqual
  <2> QED BY <2>1, <2>5 DEF Bytes!Edited, v
<1>5. CASE ~(n <= k)
  <2> DEFINE z == Bytes!Fill(n - k, "0")
  <2>1. n - k \in Nat /\ n - k \in 0..MaxLength - Len(v) /\ k + (n - k) = n
    BY <1>1, <1>5, SMT
  <2>2. z \in Seq(Cell) /\ Len(z) = n - k /\ \A i \in 1..n - k : z[i] = "0"
    <3>1. z = Zeros(n - k) /\ \A i \in 1..n - k : z[i] = "0"
      BY DEF Bytes!Fill, Zeros
    <3> QED BY <3>1, <2>1, ZerosCells
  <2> HIDE DEF z
  <2>3. /\ v \o z \in Seq(Cell) /\ Len(v \o z) = n
        /\ \A i \in 1..n : (v \o z)[i] = IF i <= k THEN v[i] ELSE z[i - k]
    <3>1. Len(v) = k /\ Len(z) = n - k /\ k + (n - k) = n
      BY <1>1, <2>1, <2>2
    <3>2. /\ v \o z \in Seq(Cell) /\ Len(v \o z) = Len(v) + Len(z)
          /\ \A i \in 1..Len(v) + Len(z) : (v \o z)[i] = IF i <= Len(v) THEN v[i] ELSE z[i - Len(v)]
      BY <1>1, <2>2, ConcatProperties
    <3> QED BY <3>1, <3>2
  <2>4. \A i \in 1..n : IF i <= k THEN i \in 1..k ELSE i - k \in 1..n - k
    BY <1>1, SMT
  <2>5. \A i \in 1..n : Grown(d, n)[i] = (v \o z)[i]
    BY <1>2, <1>3, <2>2, <2>3, <2>4
  <2>6. Grown(d, n) = v \o z
    BY <1>3, <2>3, <2>5, SeqEqual
  <2> QED BY <2>1, <2>6 DEF Bytes!Edited, v, z
<1> QED BY <1>4, <1>5

\* What an edit can make of the cells v.
LEMMA EditedParts ==
    ASSUME NEW v
    PROVE  /\ \A t \in Readable : v \o t \in Bytes!Edited(v)
           /\ \A i \in DOMAIN v, c \in Cell : [v EXCEPT ![i] = c] \in Bytes!Edited(v)
<1>1. \A t \in Readable : v \o t \in Bytes!Edited(v)
  BY DEF Bytes!Edited
<1>2. \A i \in DOMAIN v, c \in Cell : [v EXCEPT ![i] = c] \in Bytes!Edited(v)
  <2> SUFFICES ASSUME NEW i \in DOMAIN v, NEW c \in Cell
               PROVE  [v EXCEPT ![i] = c] \in Bytes!Edited(v)
    OBVIOUS
  <2>1. [v EXCEPT ![i] = c] \in Bytes!Written(v)
    BY DEF Bytes!Written
  <2> QED BY <2>1 DEF Bytes!Edited
<1> QED BY <1>1, <1>2

\* EFDataSetLength is an edit, or makes an object empty and loses it.
LEMMA SetLengthStep ==
    ASSUME IInv, Calm, NEW d \in Data, NEW n \in Length, EFDataSetLength(d, n)
    PROVE  Bytes!Edit(d) \/ Bytes!Empty(d)
<1>1. Mutable(d) /\ Usable(d) /\ ~undefined
  BY DEF EFDataSetLength, Mutable, Calm
<1>2. Kind(d) = "mutable" /\ Value(d) # Bytes!Lost /\ Value(d) \in Seq(Cell) /\ Len(Value(d)) = data[d].length
  BY <1>1, ValueFacts
<1>3. CASE \E f : Changed(d, f, Grown(d, n))
  <2>1. PICK f : Changed(d, f, Grown(d, n))
    BY <1>3
  <2>2. Value(d)' = Grown(d, n) /\ Kind(d)' = Kind(d) /\ OthersSame(d)
    BY <1>1, <2>1, ChangedValue
  <2> QED BY <1>1, <1>2, <2>2, GrownEdited, EditStep
<1>4. CASE data[d].length # 0 /\ Lost(d)
  <2>1. Value(d) # <<>>
    BY <1>2, <1>4, EmptySeq
  <2> QED BY <1>1, <1>2, <1>4, <2>1, LostValueOf, EmptyStep
<1> QED BY <1>3, <1>4, SetLengthOutcomes

\* Cells u behind those of d.
LEMMA AppendsConcat ==
    ASSUME IInv, ~undefined, NEW d \in Data, Usable(d), NEW n \in Nat, NEW t, NEW u, Appends(d, t, n, u),
           NEW w \in Seq(Cell), Len(w) = n, \A i \in 1..n : w[i] = u[i]
    PROVE  t = Value(d) \o w
<1> DEFINE v == Value(d)
           k == data[d].length
<1>1. v = Contents(d) /\ v \in Seq(Cell) /\ Len(v) = k /\ k \in Nat
  BY ValueFacts, UsableFacts
<1>2. \A i \in 1..k : v[i] = heap[data[d].buffer][i]
  BY <1>1, ContentsCells
<1>3. /\ t \in Seq(Cell) /\ Len(t) = k + n /\ \A i \in 1..k : t[i] = heap[data[d].buffer][i]
      /\ \A i \in 1..n : t[k + i] = u[i]
  BY DEF Appends
<1> HIDE DEF v, k
<1>4. /\ v \o w \in Seq(Cell) /\ Len(v \o w) = k + n
      /\ \A i \in 1..k + n : (v \o w)[i] = IF i <= k THEN v[i] ELSE w[i - k]
  <2>1. /\ v \o w \in Seq(Cell) /\ Len(v \o w) = Len(v) + Len(w)
        /\ \A i \in 1..Len(v) + Len(w) : (v \o w)[i] = IF i <= Len(v) THEN v[i] ELSE w[i - Len(v)]
    BY <1>1, ConcatProperties
  <2> QED BY <1>1, <2>1
<1>5. \A i \in 1..k + n : IF i <= k THEN i \in 1..k ELSE i - k \in 1..n /\ k + (i - k) = i
  BY <1>1, SMT
<1>6. \A i \in 1..k + n : t[i] = (v \o w)[i]
  <2> SUFFICES ASSUME NEW i \in 1..k + n PROVE t[i] = (v \o w)[i]
    OBVIOUS
  <2>1. CASE i <= k
    BY <2>1, <1>2, <1>3, <1>4, <1>5
  <2>2. CASE ~(i <= k)
    <3> DEFINE j == i - k
    <3>1. j \in 1..n /\ k + j = i
      BY <2>2, <1>5
    <3>2. (v \o w)[i] = w[j]
      BY <2>2, <1>4
    <3> HIDE DEF j
    <3> QED BY <3>1, <3>2, <1>3
  <2> QED BY <2>1, <2>2
<1>7. t = v \o w
  BY <1>3, <1>4, <1>6, SeqEqual
<1> QED BY <1>7 DEF v

\* EFDataAppendBuffer is an edit, or appends cells of the object itself.
LEMMA AppendStep ==
    ASSUME IInv, Calm, NEW d \in Data, NEW b \in Block, NEW n \in Length, EFDataAppendBuffer(d, b, n)
    PROVE  Bytes!Edit(d) \/ Bytes!AppendOwn(d)
<1>1. Mutable(d) /\ Usable(d) /\ b \in Live /\ n <= Len(heap[b]) /\ n \in Nat /\ ~undefined
  BY DataAssumption DEF EFDataAppendBuffer, Mutable, Length, Calm
<1>2. Kind(d) = "mutable" /\ Value(d) # Bytes!Lost /\ Value(d) \in Seq(Cell) /\ Len(Value(d)) = data[d].length
  BY <1>1, ValueFacts
<1>3. PICK f, t : /\ Changed(d, f, t)
                  /\ \/ Appends(d, t, n, heap[b])
                     \/ n \in 1..data[d].length /\ Appends(d, t, n, Undefined(n))
  BY AppendOutcomes
<1>4. Value(d)' = t /\ Kind(d)' = Kind(d) /\ OthersSame(d)
  BY <1>1, <1>3, ChangedValue
<1> DEFINE v == Value(d)
<1>5. CASE Appends(d, t, n, heap[b])
  <2> DEFINE w == SubSeq(heap[b], 1, n)
  <2>1. w \in Readable /\ w \in Seq(Cell) /\ Len(w) = n /\ \A i \in 1..n : w[i] = heap[b][i]
    BY <1>1, StartReadable, StartOfBlock
  <2> HIDE DEF w
  <2>2. t = v \o w
    BY <1>1, <1>5, <2>1, AppendsConcat
  <2> HIDE DEF v
  <2>3. t \in Bytes!Edited(v)
    BY <2>1, <2>2 DEF Bytes!Edited
  <2> QED BY <1>2, <1>4, <2>3, EditStep DEF v
<1>6. CASE n \in 1..data[d].length /\ Appends(d, t, n, Undefined(n))
  <2> DEFINE w == Undefined(n)
  <2>1. w \in Seq(Cell) /\ Len(w) = n
    <3>1. w = [i \in 1..n |-> w[i]] /\ \A i \in 1..n : w[i] \in Cell
      BY DEF Undefined, Cell
    <3> QED BY <3>1, <1>1, CellsOf
  <2>2. w = Bytes!Fill(n, "?")
    BY DEF Undefined, Bytes!Fill
  <2> HIDE DEF w
  <2>3. t = v \o w
    BY <1>1, <1>6, <2>1, AppendsConcat DEF w
  <2>4. n \in DOMAIN v
    BY <1>2, <1>6, LenProperties
  <2> QED BY <1>2, <1>4, <2>2, <2>3, <2>4, AppendOwnStep
<1> QED BY <1>3, <1>5, <1>6

\* A write through the pointer is one of a cell of its object.
LEMMA PointerStep ==
    ASSUME IInv, Calm, NEW c \in Byte, NEW d \in Data, NEW b \in Block, pointer.of = d, pointer.at = b,
           WriteThroughPointer(c)
    PROVE  Bytes!Edit(d)
<1> DEFINE t == [heap[b] EXCEPT ![1] = c]
<1>1. pointer # None /\ b \in Live /\ Poke(b, c) /\ Mutable(d) /\ b = data[d].buffer
  BY DEF WriteThroughPointer, IInv, TypeOK, Pointer, PointerInv
<1>2. /\ t \in Seq(Cell) /\ Len(t) = Len(heap[b]) /\ heap' = [heap EXCEPT ![b] = t]
      /\ 1 \in 1..Len(heap[b]) /\ heap[b] \in Seq(Cell)
  BY <1>1, PokedCells
<1>3. Usable(d) /\ ~Viewing(d) /\ data[d] # Gone /\ ~data[d].freed /\ data[d].length = Len(heap[b]) /\ b \in Block
      /\ ~undefined
  BY <1>1, UsableFacts DEF Mutable, Viewing, Usable, Calm
<1>4. UNCHANGED data /\ heap'[b] = t /\ \A x \in Block : x # b => heap'[x] = heap[x]
  BY <1>1, <1>2, <1>3 DEF Poke, IInv, TypeOK
<1>5. Value(d) = heap[b]
  <2>1. Value(d) = SubSeq(heap[b], 1, Len(heap[b]))
    BY <1>1, <1>3, ValueFacts DEF Contents
  <2> QED BY <2>1, <1>2, SubSeqFull
<1>6. Value(d)' = t
  <2>1. data'[d] = data[d] /\ data[d].buffer = b /\ data[d].length = Len(t)
    BY <1>1, <1>2, <1>3, <1>4
  <2> HIDE DEF t
  <2> QED BY <2>1, <1>1, <1>2, <1>3, <1>4, WholeBlock
<1>7. OthersSame(d) /\ Kind(d)' = Kind(d)
  <2>1. ASSUME NEW e \in Data, e # d PROVE Value(e)' = Value(e) /\ Kind(e)' = Kind(e)
    <3>1. ASSUME Usable(e) PROVE heap'[data[e].buffer] = heap[data[e].buffer]
      <4>1. data[e].buffer # b /\ data[e].buffer \in Block
        BY <1>1, <1>3, <2>1, <3>1, OwnBlocks, UsableFacts
      <4> QED BY <4>1, <1>4
    <3> QED BY <3>1, <1>4, SameObject
  <2>2. Kind(d)' = Kind(d)
    BY <1>4 DEF Calm, Kind
  <2> QED BY <2>1, <2>2 DEF OthersSame
<1>8. Kind(d) = "mutable" /\ Value(d) # Bytes!Lost
  BY <1>1, <1>3, ValueFacts
<1>9. t \in Bytes!Edited(heap[b])
  <2> DEFINE v == heap[b]
  <2>1. 1 \in DOMAIN v /\ c \in Cell
    BY <1>2, LenProperties DEF Cell
  <2>2. t = [v EXCEPT ![1] = c]
    OBVIOUS
  <2> HIDE DEF v, t
  <2>3. t \in Bytes!Edited(v)
    BY <2>1, <2>2, EditedParts
  <2> QED BY <2>3 DEF v
<1> HIDE DEF t
<1> QED BY <1>1, <1>5, <1>6, <1>7, <1>8, <1>9, EditStep

\* A write to a block of a client is one that views show.
LEMMA WriteStep ==
    ASSUME IInv, Calm, NEW b \in Writable, NEW t \in Seq(Cell), Len(t) = Len(heap[b]),
           heap' = [heap EXCEPT ![b] = t], UNCHANGED data
    PROVE  Bytes!Show
<1>1. b \in Live /\ b \in Block /\ (\A d \in Data : ~Has(d, b)) /\ ~undefined
  BY WritableBlocks DEF Live, IInv, OwnersInv, Calm
<1>2. heap'[b] = t /\ \A x \in Block : x # b => heap'[x] = heap[x]
  BY <1>1 DEF IInv, TypeOK
<1>3. \A d \in Data : Kind(d)' = Kind(d)
  BY DEF Calm, Kind
<1>4. ASSUME NEW d \in Data, Kind(d) # "view" PROVE Value(d)' = Value(d)
  <2>1. ASSUME Usable(d) PROVE heap'[data[d].buffer] = heap[data[d].buffer]
    <3>1. Has(d, data[d].buffer) /\ data[d].buffer \in Block
      BY <1>1, <1>4, <2>1, ValueFacts, UsableFacts
    <3>2. data[d].buffer # b
      BY <3>1, <1>1
    <3> QED BY <3>1, <3>2, <1>2
  <2> QED BY <2>1, SameObject
<1>5. ASSUME NEW d \in Data, Kind(d) = "view" PROVE Value(d)' \in [DOMAIN Value(d) -> Cell]
  <2> DEFINE n == data[d].length
             s == heap'[data[d].buffer]
  <2>0. Usable(d)
    BY <1>1, <1>5, ValueFacts
  <2>1. Value(d) \in Seq(Cell) /\ Len(Value(d)) = n /\ n \in Nat /\ data[d] # Gone
    BY <1>1, <2>0, ValueFacts, UsableFacts
  <2>2. /\ data[d].buffer \in Block /\ heap[data[d].buffer] \in Seq(Cell) /\ n <= Len(heap[data[d].buffer])
        /\ Len(heap[data[d].buffer]) \in Nat
    BY <2>0, UsableFacts
  <2>3. s \in Seq(Cell) /\ Len(s) = Len(heap[data[d].buffer])
    BY <2>2, <1>2
  <2>4. Value(d)' = SubSeq(s, 1, n)
    BY <2>0, <2>1 DEF Calm, Value, Kind, Usable, Contents
  <2> HIDE DEF s, n
  <2>5. SubSeq(s, 1, n) \in Seq(Cell) /\ Len(SubSeq(s, 1, n)) = n
    <3>1. n \in 0..Len(s)
      BY <2>1, <2>2, <2>3, SMT
    <3> QED BY <3>1, <2>3, StartCells
  <2>6. DOMAIN Value(d) = 1..n
    BY <2>1, LenProperties
  <2>7. SubSeq(s, 1, n) \in [1..n -> Cell]
    BY <2>5, LenProperties
  <2> QED BY <2>4, <2>6, <2>7
<1> QED BY <1>3, <1>4, <1>5, ShowStep

\* Blocks that no data object sees come and go, and change hands.
LEMMA KeptStep ==
    ASSUME Calm, UNCHANGED data, \A e \in Data : Usable(e) => heap'[data[e].buffer] = heap[data[e].buffer]
    PROVE  UNCHANGED Bytes!vars
  BY SameObject, SameStep

\* A block that was free is given to somebody: no object changes.
LEMMA FreshStep ==
    ASSUME IInv, Calm, UNCHANGED data, NEW b \in Fresh, \A x \in Block : x # b => heap'[x] = heap[x]
    PROVE  UNCHANGED Bytes!vars
<1>1. ASSUME NEW e \in Data, Usable(e) PROVE heap'[data[e].buffer] = heap[data[e].buffer]
  <2>1. data[e].buffer \in Block /\ heap[data[e].buffer] # Dead /\ heap[b] = Dead
    BY <1>1, UsableFacts, NewBlock
  <2> QED BY <2>1
<1> QED BY <1>1, KeptStep

\* Blocks that no view shows are freed by those who keep them: no object changes.
LEMMA FreedStep ==
    ASSUME IInv, Calm, UNCHANGED data, NEW B \in SUBSET Block, B \cap Shown = {},
           \A x \in B : \E k \in Keeper : Keeps(k, x), \A x \in Block \ B : heap'[x] = heap[x]
    PROVE  UNCHANGED Bytes!vars
<1>1. ASSUME NEW e \in Data, Usable(e) PROVE heap'[data[e].buffer] = heap[data[e].buffer]
  <2>1. data[e].buffer \in Block /\ data[e].buffer \notin B
    BY <1>1, UsableFacts, KeptApart
  <2> QED BY <2>1
<1> QED BY <1>1, KeptStep

\* A client passes cells of a live block, or those of an object, or zeros.
LEMMA CreateSteps ==
    ASSUME IInv, Calm, NEW d \in Data
    PROVE  /\ \A b \in Block, n \in Length : EFDataCreateWithBuffer(d, b, n) => Bytes!Make(d)
           /\ \A n \in Length : EFDataCreateMutable(d, n) => Bytes!Make(d)
           /\ \A e \in Data : EFDataCreateCopy(d, e) \/ EFDataCreateMutableCopy(d, e) => Bytes!Make(d)
<1>1. ASSUME NEW b \in Block, NEW n \in Length, EFDataCreateWithBuffer(d, b, n) PROVE Bytes!Make(d)
  <2> DEFINE t == SubSeq(heap[b], 1, n)
  <2>1. b \in Live /\ n <= Len(heap[b]) /\ Owning(d, t, FALSE)
    BY <1>1 DEF EFDataCreateWithBuffer
  <2>2. t \in Readable /\ t \in Seq(Cell) /\ Len(t) \in Length
    BY <2>1, StartReadable, StartOfBlock
  <2> HIDE DEF t
  <2> QED BY <2>1, <2>2, OwningStep
<1>2. ASSUME NEW n \in Length, EFDataCreateMutable(d, n) PROVE Bytes!Make(d)
  <2> DEFINE t == Zeros(n)
  <2>1. n \in Nat
    BY DataAssumption DEF Length
  <2>2. Owning(d, t, TRUE)
    BY <1>2, Zenon DEF EFDataCreateMutable
  <2>3. t \in Seq(Cell) /\ Len(t) \in Length
    BY <2>1, ZerosCells
  <2>4. t \in {Bytes!Fill(m, "0") : m \in Length}
    BY DEF Zeros, Bytes!Fill
  <2> HIDE DEF t
  <2> QED BY <2>2, <2>3, <2>4, OwningStep
<1>3. ASSUME NEW e \in Data, EFDataCreateCopy(d, e) \/ EFDataCreateMutableCopy(d, e) PROVE Bytes!Make(d)
  <2> DEFINE t == Contents(e)
  <2>1. Usable(e) /\ (Owning(d, t, FALSE) \/ Owning(d, t, TRUE))
    BY <1>3 DEF EFDataCreateCopy, EFDataCreateMutableCopy
  <2>2. t \in Readable /\ t \in Seq(Cell) /\ Len(t) \in Length
    BY <2>1, ContentsReadable, ContentsCells, UsableFacts
  <2> HIDE DEF t
  <2> QED BY <2>1, <2>2, OwningStep
<1> QED BY <1>1, <1>2, <1>3

\* The client writes to a block of its own, itself or with the bytes of an object.
LEMMA ClientSteps ==
    ASSUME IInv, Calm, NEW b \in Block
    PROVE  /\ \A c \in Byte : ClientWrites(b, c) => Bytes!Show
           /\ \A d \in Data, n \in Length, location \in Length :
                 EFDataCopyRangeToBuffer(d, location, n, b) => Bytes!Show
<1>1. ASSUME NEW c \in Byte, ClientWrites(b, c) PROVE Bytes!Show
  <2>1. b \in Writable /\ Poke(b, c) /\ b \in Live /\ UNCHANGED data
    BY <1>1, WritableBlocks DEF ClientWrites, Poke
  <2> DEFINE t == [heap[b] EXCEPT ![1] = c]
  <2>2. t \in Seq(Cell) /\ Len(t) = Len(heap[b]) /\ heap' = [heap EXCEPT ![b] = t]
    BY <2>1, PokedCells
  <2> HIDE DEF t
  <2> QED BY <2>1, <2>2, WriteStep
<1>2. ASSUME NEW d \in Data, NEW n \in Length, NEW location \in Length,
             EFDataCopyRangeToBuffer(d, location, n, b)
      PROVE  Bytes!Show
  <2>1. UNCHANGED data
    BY <1>2 DEF EFDataCopyRangeToBuffer
  <2> QED BY <1>2, <2>1, CopiedCells, WriteStep
<1> QED BY <1>1, <1>2

\* To memory that no data object has.
LEMMA KeeperSteps ==
    ASSUME IInv, Calm
    PROVE  /\ \A b \in Block : ClientAllocates(b) \/ ClientFrees(b) \/ EFMappingCreate(b) => UNCHANGED Bytes!vars
           /\ \A b, c \in Block : EFMallocBlockCreateWithDeinitHandler(b, c) => UNCHANGED Bytes!vars
           /\ EFMappingDisableUnmap \/ ReleaseMapping \/ ReleaseMallocBlock => UNCHANGED Bytes!vars
<1>1. ASSUME NEW b \in Fresh, UNCHANGED data, heap' = [heap EXCEPT ![b] = Zeros(MaxLength)]
      PROVE  UNCHANGED Bytes!vars
  <2>1. \A x \in Block : x # b => heap'[x] = heap[x]
    BY <1>1 DEF IInv, TypeOK
  <2> QED BY <1>1, <2>1, FreshStep
<1>2. ASSUME NEW b \in Block, ClientFrees(b) PROVE UNCHANGED Bytes!vars
  <2>1. b \in client /\ b \notin Shown /\ Keeps("client", b) /\ "client" \in Keeper
    BY <1>2, KeeperFacts DEF ClientFrees, Keeper
  <2>2. UNCHANGED data /\ \A x \in Block \ {b} : heap'[x] = heap[x]
    BY <1>2 DEF ClientFrees, IInv, TypeOK
  <2>3. {b} \in SUBSET Block /\ {b} \cap Shown = {} /\ \A x \in {b} : \E k \in Keeper : Keeps(k, x)
    BY <2>1
  <2> QED BY <2>2, <2>3, FreedStep
<1>3. ASSUME ReleaseMapping PROVE UNCHANGED Bytes!vars
  <2> DEFINE B == IF mapping.unmap THEN {mapping.addr} ELSE {}
  <2>1. B \in SUBSET Block /\ B \cap Shown = {} /\ mapping # Gone
    BY <1>3 DEF ReleaseMapping, IInv, TypeOK, MappingObject
  <2>2. UNCHANGED data /\ \A x \in Block \ B : heap'[x] = heap[x]
    BY <1>3 DEF ReleaseMapping, IInv, TypeOK
  <2>3. \A x \in B : \E k \in Keeper : Keeps(k, x)
    <3>1. \A x \in B : Keeps("mapping", x)
      BY <2>1, KeeperFacts
    <3> QED BY <3>1 DEF Keeper
  <2> HIDE DEF B
  <2> QED BY <2>1, <2>2, <2>3, FreedStep
<1>4. ASSUME ReleaseMallocBlock PROVE UNCHANGED Bytes!vars
  <2> DEFINE B == {holder.memory, holder.callback}
  <2>1. B \in SUBSET Block /\ B \cap Shown = {} /\ holder # Gone
    <3>1. holder \in HolderObject /\ holder # Gone
      BY <1>4 DEF ReleaseMallocBlock, IInv, TypeOK
    <3> QED BY <1>4, <3>1 DEF ReleaseMallocBlock, HolderObject
  <2>2. UNCHANGED data /\ \A x \in Block \ B : heap'[x] = heap[x]
    BY <1>4 DEF ReleaseMallocBlock, IInv, TypeOK
  <2>3. \A x \in B : \E k \in Keeper : Keeps(k, x)
    <3>1. \A x \in B : Keeps("memory", x) \/ Keeps("callback", x)
      BY <2>1, KeeperFacts
    <3> QED BY <3>1 DEF Keeper
  <2> HIDE DEF B
  <2> QED BY <2>1, <2>2, <2>3, FreedStep
<1>5. ASSUME EFMappingDisableUnmap PROVE UNCHANGED Bytes!vars
  <2>1. UNCHANGED <<heap, data>>
    BY <1>5 DEF EFMappingDisableUnmap
  <2> QED BY <2>1, KeptStep
<1>6. \A b \in Block : ClientAllocates(b) \/ EFMappingCreate(b) => UNCHANGED Bytes!vars
  BY <1>1 DEF ClientAllocates, EFMappingCreate
<1>7. \A b, c \in Block : EFMallocBlockCreateWithDeinitHandler(b, c) => UNCHANGED Bytes!vars
  BY <1>1 DEF EFMallocBlockCreateWithDeinitHandler
<1> QED BY <1>2, <1>3, <1>4, <1>5, <1>6, <1>7

\* Every call is a step of EFBytes, or leaves all that it sees.
LEMMA CallRefines == ASSUME IInv, Calm, Calls PROVE Bytes!Next \/ UNCHANGED Bytes!vars
<1>1. ASSUME NEW d \in Data, Bytes!Make(d) \/ Bytes!Edit(d) \/ Bytes!AppendOwn(d) \/ Bytes!Empty(d) PROVE Bytes!Next
  BY <1>1, Zenon DEF Bytes!Next
<1>2. ASSUME Bytes!Show PROVE Bytes!Next
  BY <1>2, Zenon DEF Bytes!Next
<1>3. ASSUME NEW d \in Data, NEW b \in Block, NEW n \in Length,
             \/ EFDataCreateWithBuffer(d, b, n) \/ EFDataCreateWithBufferNoCopy(d, b, n)
             \/ EFDataAppendBuffer(d, b, n)
             \/ \E location \in Length : EFDataCopyRangeToBuffer(d, location, n, b)
      PROVE  Bytes!Next
  <2>1. EFDataCreateWithBuffer(d, b, n) => Bytes!Make(d)
    BY CreateSteps
  <2>2. EFDataCreateWithBufferNoCopy(d, b, n) => Bytes!Make(d)
    BY ViewStep
  <2>3. EFDataAppendBuffer(d, b, n) => Bytes!Edit(d) \/ Bytes!AppendOwn(d)
    BY AppendStep
  <2>4. (\E location \in Length : EFDataCopyRangeToBuffer(d, location, n, b)) => Bytes!Show
    BY ClientSteps
  <2> QED BY <1>1, <1>2, <1>3, <2>1, <2>2, <2>3, <2>4
<1>4. ASSUME NEW d \in Data, NEW n \in Length,
             EFDataCreateMutable(d, n) \/ EFDataSetLength(d, n) \/ EFDataIncreaseLength(d, n)
      PROVE  Bytes!Next
  <2>1. EFDataCreateMutable(d, n) => Bytes!Make(d)
    BY CreateSteps
  <2>2. EFDataSetLength(d, n) => Bytes!Edit(d) \/ Bytes!Empty(d)
    BY SetLengthStep
  <2>3. EFDataIncreaseLength(d, n) => Bytes!Edit(d) \/ Bytes!Empty(d)
    BY Increase, SetLengthStep
  <2> QED BY <1>1, <1>4, <2>1, <2>2, <2>3
<1>5. ASSUME NEW d \in Data, NEW e \in Data, EFDataCreateCopy(d, e) \/ EFDataCreateMutableCopy(d, e)
      PROVE  Bytes!Next
  <2>1. Bytes!Make(d)
    BY <1>5, CreateSteps
  <2> QED BY <1>1, <2>1
<1>6. ASSUME NEW d \in Data, EFDataGetMutablePtr(d) PROVE UNCHANGED Bytes!vars
  <2>1. UNCHANGED <<heap, data>>
    BY <1>6 DEF EFDataGetMutablePtr
  <2> QED BY <2>1, KeptStep
<1>8. ASSUME NEW c \in Byte, WriteThroughPointer(c) PROVE Bytes!Next
  <2>1. pointer.of \in Data /\ pointer.at \in Block
    BY <1>8 DEF WriteThroughPointer, IInv, TypeOK, Pointer
  <2>2. PICK d \in Data : d = pointer.of
    BY <2>1
  <2>3. PICK b \in Block : b = pointer.at
    BY <2>1
  <2>4. Bytes!Edit(d)
    BY <1>8, <2>2, <2>3, PointerStep
  <2> QED BY <1>1, <2>4
<1>9. ASSUME NEW c \in Byte, \E b \in Block : ClientWrites(b, c) PROVE Bytes!Next
  <2>1. Bytes!Show
    BY <1>9, ClientSteps
  <2> QED BY <1>2, <2>1
<1>10. CASE \/ \E b \in Block : ClientAllocates(b) \/ ClientFrees(b) \/ EFMappingCreate(b)
            \/ \E b, c \in Block : EFMallocBlockCreateWithDeinitHandler(b, c)
            \/ EFMappingDisableUnmap \/ ReleaseMapping \/ ReleaseMallocBlock
  BY <1>10, KeeperSteps
<1> QED BY <1>3, <1>4, <1>5, <1>6, <1>8, <1>9, <1>10 DEF Calls

\* So is every step: a release drops an object, unless the block of that object
\* is freed again; then, or when it is used, all is lost.
LEMMA StepRefines == Sound /\ [Next]_vars => [Bytes!Next]_(Bytes!vars)
<1> SUFFICES ASSUME Sound, [Next]_vars PROVE [Bytes!Next]_(Bytes!vars)
  OBVIOUS
<1>1. CASE UNCHANGED vars
  <2>1. \A d \in Data : Value(d)' = Value(d) /\ Kind(d)' = Kind(d)
    BY <1>1 DEF vars, Value, Kind, Usable, Contents
  <2> QED BY <2>1, SameStep
<1>2. CASE Next
  <2>1. IInv /\ ~undefined
    BY <1>2 DEF Sound, Next
  <2>2. CASE Calls /\ UNCHANGED undefined
    <3>1. Calm
      BY <2>1, <2>2 DEF Calm
    <3> QED BY <2>1, <2>2, <3>1, CallRefines
  <2>3. ASSUME NEW d \in Data, Release(d), ~undefined' PROVE Bytes!Next
    <3>1. Bytes!Drop(d)
      BY <2>1, <2>3, ReleaseStep DEF Calm
    <3> QED BY <3>1, Zenon DEF Bytes!Next
  <2>4. ASSUME NEW d \in Data, Release(d) \/ UseFreed(d), undefined' PROVE Bytes!Next
    <3>1. data[d] # Gone /\ ~Usable(d)
      BY <2>4 DEF Release, UseFreed, Usable
    <3>2. Value(d) = Bytes!Lost
      BY <2>1, <3>1, ValueFacts
    <3>3. \A e \in Data : Value(e)' = Bytes!Lost /\ Kind(e)' = "none"
      BY <2>4 DEF Value, Kind, LostValue, Bytes!Lost
    <3>4. Bytes!Break
      BY <3>2, <3>3, BreakStep
    <3> QED BY <3>4, Zenon DEF Bytes!Next
  <2>5. ASSUME NEW d \in Data, UseFreed(d) PROVE undefined'
    BY <2>5 DEF UseFreed
  <2> QED BY <1>2, <2>2, <2>3, <2>4, <2>5 DEF Next
<1> QED BY <1>1, <1>2

\* At the start no object is there.
LEMMA InitRefines == Init => Bytes!Init
<1> SUFFICES ASSUME Init PROVE Bytes!Init
  OBVIOUS
<1>1. \A d \in Data : Value(d) = Bytes!Gone /\ Kind(d) = "none"
  BY DEF Init, Value, Kind, NoValue, Bytes!Gone
<1> QED BY <1>1 DEF Bytes!Init

\* Data objects are the byte sequences EFBytes says, whatever memory does
\* beneath them: copies never change, mutable objects have exactly what was set,
\* appended and zeroed through every move of their buffer, and views follow the
\* memory they show and keep their length; EFBytes names what is kept less.
THEOREM Refinement == Spec => ImplementsBytes
<1> QED BY Invariance, InitRefines, StepRefines, PTL DEF Spec, Bytes!Spec, ImplementsBytes
=============================================================================
