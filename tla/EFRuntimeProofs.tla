-------------------------- MODULE EFRuntimeProofs ---------------------------
(***************************************************************************)
(* Proofs about the runtime: EFObject for any number of threads, objects   *)
(* and references, and EFClass, the registry, for any number of threads,   *)
(* classes, built-in identifiers and any chunk size.                       *)
(*                                                                         *)
(* The invariants of EFObject are not inductive by themselves.  IInv adds  *)
(* what ties the counter to the references at every moment (CountInv), the *)
(* shape of the chains of nested releases (FrameInv), and what keeps an    *)
(* unretained pointer valid (BorrowInv).                                   *)
(*                                                                         *)
(* Those of EFClass need two more facts: how far the identifiers may run   *)
(* ahead of the capacity at each point of a registration (RoomInv), and    *)
(* what the table holds between lookups (TableInv).                        *)
(***************************************************************************)
EXTENDS EFObject, EFClass, TLAPS, FiniteSetTheorems

\* The counter is the number of owning references, and a counted object is
\* live exactly while it has one.
CountInv == \A o \in Object :
                /\ o \in Static => mem[o] = "live"
                /\ o \notin Static => /\ refcount[o] = Cardinality(RefsTo(o))
                                      /\ mem[o] = "live" <=> RefsTo(o) # {}

\* A container that holds a reference has not been deallocated.
HolderInv == \A r \in Ref : holder[r] \in Object => mem[holder[r]] # "free"

\* A borrower holds the container, and the container holds the item.
BorrowInv == \A t \in Thread : borrowed[t] # NoBorrow =>
                 /\ holder[borrowed[t].via] = t
                 /\ holder[borrowed[t].item] = target[borrowed[t].via]

\* The dying objects form disjoint chains, each ending in the top of a thread.
FrameInv ==
    /\ \A t \in Thread : top[t] # Nobody => mem[top[t]] = "dying"
    /\ \A o \in Object : caller[o] # Nobody => mem[o] = "dying" /\ mem[caller[o]] = "dying"
    /\ \A t, u \in Thread : top[t] # Nobody /\ top[t] = top[u] => t = u
    /\ \A o, p \in Object : caller[o] # Nobody /\ caller[o] = caller[p] => o = p
    /\ \A t \in Thread, o \in Object : top[t] # Nobody => caller[o] # top[t]
    /\ \A o \in Object : mem[o] = "dying" => \/ \E t \in Thread : top[t] = o
                                             \/ \E p \in Object : caller[p] = o

IInv == TypeOK /\ CountInv /\ HolderInv /\ BorrowInv /\ FrameInv /\ ~aborted

(***************************************************************************)
(* Lemmas about one reference coming or going                              *)
(***************************************************************************)

\* The references to an object are finitely many.
LEMMA RefsFinite == ASSUME NEW o PROVE IsFiniteSet(RefsTo(o)) /\ Cardinality(RefsTo(o)) \in Nat
<1>1. IsFiniteSet(RefsTo(o))
  BY RefAssumption, FS_Subset DEF RefsTo
<1> QED  BY <1>1, FS_CardinalityType

\* A new reference together with EFRetain's increment keeps the counters exact.
LEMMA AddRef ==
  ASSUME TypeOK, CountInv, NEW o \in Object, NEW r \in Ref, NEW h,
         mem[o] = "live", NewRef(r, o, h), Increment(o), UNCHANGED mem
  PROVE  CountInv'
<1>1. RefsTo(o)' = RefsTo(o) \cup {r} /\ r \notin RefsTo(o)
  BY DisjointAssumption DEF NewRef, Unused, RefsTo, TypeOK
<1>2. \A p \in Object \ {o} : RefsTo(p)' = RefsTo(p)
  BY DisjointAssumption DEF NewRef, Unused, RefsTo, TypeOK
<1>3. o \notin Static => Cardinality(RefsTo(o)') = Cardinality(RefsTo(o)) + 1
  BY <1>1, RefsFinite, FS_AddElement
<1>4. \A p \in Object \ {o} : refcount'[p] = refcount[p]
  BY DEF Increment, TypeOK
<1>5. o \notin Static => refcount'[o] = refcount[o] + 1
  BY DEF Increment, TypeOK
<1> QED  BY <1>1, <1>2, <1>3, <1>4, <1>5 DEF CountInv

\* A reference to a live object is one of at least one, and the counter shows it.
LEMMA CountPositive ==
  ASSUME TypeOK, CountInv, NEW x \in Ref, target[x] # Nobody
  PROVE  /\ target[x] \in Object
         /\ mem[target[x]] = "live"
         /\ target[x] \notin Static => refcount[target[x]] >= 1
<1> DEFINE o == target[x]
<1>1. o \in Object /\ x \in RefsTo(o)
  BY DEF RefsTo, TypeOK
<1>2. mem[o] = "live"
  BY <1>1 DEF CountInv
<1>3. Cardinality(RefsTo(o)) >= 1
  <2>1. Cardinality(RefsTo(o)) # 0
    BY <1>1, RefsFinite, FS_EmptySet
  <2> QED  BY <2>1, RefsFinite
<1> QED  BY <1>1, <1>2, <1>3 DEF CountInv

\* EFRelease's decrement keeps the counters exact, and destroys the object
\* exactly when the last reference goes.
LEMMA DropRef ==
  ASSUME TypeOK, CountInv, NEW t \in Thread, NEW x \in Ref, target[x] # Nobody,
         Decrement(t, x)
  PROVE  CountInv'
<1>0. PICK o \in Object : o = target[x] /\ mem[o] = "live"
  BY CountPositive
<1>t. /\ target \in [Ref -> Object \cup {Nobody}]
      /\ target' = [target EXCEPT ![x] = Nobody]
  BY Zenon DEF TypeOK, Decrement
<1>1. RefsTo(o)' = RefsTo(o) \ {x} /\ x \in RefsTo(o)
  BY <1>0, <1>t, DisjointAssumption DEF RefsTo
<1>2. \A p \in Object \ {o} : RefsTo(p)' = RefsTo(p)
  BY <1>0, <1>t, DisjointAssumption DEF RefsTo
<1>3. Cardinality(RefsTo(o)') = Cardinality(RefsTo(o)) - 1
  BY <1>1, RefsFinite, FS_RemoveElement
<1>4. \A p \in Object \ {o} : refcount'[p] = refcount[p] /\ mem'[p] = mem[p]
  BY <1>0 DEF Decrement, TypeOK
<1>5. CASE o \in Static
  BY <1>0, <1>2, <1>4, <1>5 DEF Decrement, CountInv
<1>6. CASE o \notin Static
  <2>1. refcount'[o] = refcount[o] - 1
    BY <1>0, <1>6 DEF Decrement, TypeOK
  <2>2. refcount[o] = Cardinality(RefsTo(o))
    BY <1>0, <1>6 DEF CountInv
  <2>3. RefsTo(o)' = {} <=> refcount[o] = 1
    <3>1. IsFiniteSet(RefsTo(o)')
      BY <1>1, RefsFinite, FS_RemoveElement
    <3>2. Cardinality(RefsTo(o)') = 0 <=> RefsTo(o)' = {}
      BY <3>1, FS_EmptySet
    <3> QED  BY <3>2, <1>3, <2>2, RefsFinite
  <2>4. mem'[o] = "live" <=> refcount[o] # 1
    BY <1>0, <1>6 DEF Decrement, TypeOK
  <2> QED  BY <1>0, <1>2, <1>3, <1>4, <1>6, <2>1, <2>2, <2>3, <2>4 DEF CountInv
<1> QED  BY <1>5, <1>6

(***************************************************************************)
(* Steps that preserve the invariant, by what they do to references        *)
(***************************************************************************)

\* Adding a counted reference to a live object, held by a thread or by a
\* container that exists.
LEMMA AddPreserves ==
  ASSUME IInv, NEW o \in Object, NEW r \in Ref, NEW h \in Thread \cup Object,
         mem[o] = "live", h \in Object => mem[h] # "free",
         NewRef(r, o, h), Increment(o),
         UNCHANGED <<mem, isMutable, frames, aborted>>,
         NEW t \in Thread,
         borrowed' = borrowed \/ borrowed' = [borrowed EXCEPT ![t] = NoBorrow]
  PROVE  IInv'
<1> USE DEF IInv
<1>1. /\ target' = [target EXCEPT ![r] = o]
      /\ holder' = [holder EXCEPT ![r] = h]
      /\ target[r] = Nobody /\ holder[r] = Nobody
  BY DEF NewRef, Unused, TypeOK
<1>2. refcount' \in [Object -> Int]
  BY DEF Increment, TypeOK
<1>3. borrowed' \in [Thread -> [via : Ref, item : Ref] \cup {NoBorrow}]
  BY DEF TypeOK
<1>4. TypeOK'
  BY <1>1, <1>2, <1>3, DisjointAssumption DEF TypeOK, frames
<1>5. CountInv'
  BY AddRef
<1>6. HolderInv'
  BY <1>1 DEF HolderInv, TypeOK
<1>7. BorrowInv'
  <2> SUFFICES ASSUME NEW u \in Thread, borrowed'[u] # NoBorrow
               PROVE  /\ holder'[borrowed'[u].via] = u
                      /\ holder'[borrowed'[u].item] = target'[borrowed'[u].via]
    BY DEF BorrowInv
  <2>1. borrowed'[u] = borrowed[u] /\ borrowed[u] # NoBorrow
    BY DEF TypeOK
  <2>2. borrowed[u].via \in Ref /\ borrowed[u].item \in Ref
    BY <2>1 DEF TypeOK
  <2>3. /\ holder[borrowed[u].via] = u
        /\ holder[borrowed[u].item] = target[borrowed[u].via]
    BY <2>1 DEF BorrowInv
  <2>4. borrowed[u].via # r
    BY <2>3, <1>1, DisjointAssumption
  <2>5. borrowed[u].item # r
    BY <2>2, <2>3, <2>4, <1>1, DisjointAssumption DEF TypeOK
  <2> QED  BY <1>1, <2>1, <2>2, <2>3, <2>4, <2>5 DEF TypeOK
<1>8. FrameInv'
  BY DEF FrameInv, frames
<1> QED  BY <1>4, <1>5, <1>6, <1>7, <1>8

\* What a decrement does, with the underflow branch ruled out.
LEMMA DecrementCases ==
  ASSUME IInv, NEW t \in Thread, NEW x \in Ref, target[x] # Nobody, Decrement(t, x),
         NEW o \in Object, o = target[x]
  PROVE  /\ target' = [target EXCEPT ![x] = Nobody]
         /\ holder' = [holder EXCEPT ![x] = Nobody]
         /\ refcount' \in [Object -> Int]
         /\ aborted' \in BOOLEAN /\ ~aborted'
         /\ mem[o] = "live"
         /\ \/ UNCHANGED <<mem, top, caller>>
            \/ /\ mem' = [mem EXCEPT ![o] = "dying"]
               /\ top' = [top EXCEPT ![t] = o]
               /\ caller' = [caller EXCEPT ![o] = top[t]]
<1> USE DEF IInv
<1>1. target' = [target EXCEPT ![x] = Nobody] /\ holder' = [holder EXCEPT ![x] = Nobody]
  BY Zenon DEF Decrement
<1>2. mem[o] = "live" /\ (o \notin Static => refcount[o] >= 1)
  BY CountPositive
<1>3. CASE o \in Static
  BY <1>1, <1>2, <1>3 DEF Decrement, frames, TypeOK
<1>4. CASE o \notin Static /\ refcount[o] = 1
  BY <1>1, <1>2, <1>4 DEF Decrement, frames, TypeOK
<1>5. CASE o \notin Static /\ refcount[o] # 1
  <2>1. refcount[o] \in Int /\ ~(refcount[o] <= 0)
    BY <1>2, <1>5 DEF TypeOK
  <2> QED  BY <1>1, <1>2, <1>5, <2>1 DEF Decrement, frames, TypeOK
<1> QED  BY <1>3, <1>4, <1>5

\* Pushing a newly dying object on a thread's chain keeps the chains apart.
LEMMA PushPreserves ==
  ASSUME TypeOK, FrameInv, NEW t \in Thread, NEW o \in Object, mem[o] = "live",
         mem' = [mem EXCEPT ![o] = "dying"],
         top' = [top EXCEPT ![t] = o],
         caller' = [caller EXCEPT ![o] = top[t]]
  PROVE  FrameInv'
<1>0. o # Nobody /\ caller[o] = Nobody /\ top[t] # o
  BY DisjointAssumption DEF FrameInv, TypeOK
<1>1. \A u \in Thread : top'[u] # Nobody => mem'[top'[u]] = "dying"
  BY DEF FrameInv, TypeOK
<1>2. \A q \in Object : caller'[q] # Nobody => mem'[q] = "dying" /\ mem'[caller'[q]] = "dying"
  BY <1>0 DEF FrameInv, TypeOK
<1>3. \A u, v \in Thread : top'[u] # Nobody /\ top'[u] = top'[v] => u = v
  BY <1>0 DEF FrameInv, TypeOK
<1>4. \A p, q \in Object : caller'[p] # Nobody /\ caller'[p] = caller'[q] => p = q
  BY <1>0 DEF FrameInv, TypeOK
<1>5. \A u \in Thread, q \in Object : top'[u] # Nobody => caller'[q] # top'[u]
  <2>1. \A q \in Object : caller[q] # o
    BY <1>0 DEF FrameInv, TypeOK
  <2> QED  BY <1>0, <2>1 DEF FrameInv, TypeOK
<1>6. \A q \in Object : mem'[q] = "dying" => \/ \E u \in Thread : top'[u] = q
                                              \/ \E p \in Object : caller'[p] = q
  <2> SUFFICES ASSUME NEW q \in Object, mem'[q] = "dying", q # o
               PROVE  \/ \E u \in Thread : top'[u] = q
                      \/ \E p \in Object : caller'[p] = q
    BY DEF TypeOK
  <2>1. mem[q] = "dying"
    BY DEF TypeOK
  <2>2. CASE \E u \in Thread : top[u] = q
    <3>1. PICK u \in Thread : top[u] = q
      BY <2>2
    <3>2. CASE u = t
      BY <3>1, <3>2 DEF TypeOK
    <3>3. CASE u # t
      BY <3>1, <3>3 DEF TypeOK
    <3> QED  BY <3>2, <3>3
  <2>3. CASE \E p \in Object : caller[p] = q
    BY <2>3, <1>0, DisjointAssumption DEF TypeOK
  <2> QED  BY <2>1, <2>2, <2>3 DEF FrameInv
<1> QED  BY <1>1, <1>2, <1>3, <1>4, <1>5, <1>6 DEF FrameInv

\* Giving up a reference that no unretained pointer depends on.
LEMMA DropPreserves ==
  ASSUME IInv, NEW t \in Thread, NEW x \in Ref, target[x] # Nobody, Decrement(t, x),
         UNCHANGED <<isMutable, borrowed>>,
         \A u \in Thread : borrowed[u] # NoBorrow => borrowed[u].via # x /\ borrowed[u].item # x
  PROVE  IInv'
<1>0. PICK o \in Object : o = target[x]
  BY DEF IInv, TypeOK
<1>1. /\ target' = [target EXCEPT ![x] = Nobody]
      /\ holder' = [holder EXCEPT ![x] = Nobody]
      /\ refcount' \in [Object -> Int]
      /\ aborted' \in BOOLEAN /\ ~aborted'
      /\ mem[o] = "live"
      /\ \/ UNCHANGED <<mem, top, caller>>
         \/ /\ mem' = [mem EXCEPT ![o] = "dying"]
            /\ top' = [top EXCEPT ![t] = o]
            /\ caller' = [caller EXCEPT ![o] = top[t]]
  BY <1>0, DecrementCases
<1> USE DEF IInv
<1>2. TypeOK'
  <2>1. /\ mem' \in [Object -> {"free", "live", "dying"}]
        /\ top' \in [Thread -> Object \cup {Nobody}]
        /\ caller' \in [Object -> Object \cup {Nobody}]
    BY <1>1 DEF TypeOK
  <2>2. /\ target' \in [Ref -> Object \cup {Nobody}]
        /\ holder' \in [Ref -> Thread \cup Object \cup {Nobody}]
        /\ \A r \in Ref : target'[r] = Nobody <=> holder'[r] = Nobody
    BY <1>1 DEF TypeOK
  <2>3. aborted' \in BOOLEAN
    BY <1>1 DEF TypeOK
  <2> QED  BY <1>1, <2>1, <2>2, <2>3 DEF TypeOK
<1>3. CountInv'
  BY DropRef
<1>4. HolderInv'
  BY <1>1, DisjointAssumption DEF HolderInv, TypeOK
<1>5. BorrowInv'
  BY <1>1 DEF BorrowInv, TypeOK
<1>6. FrameInv'
  <2>1. CASE UNCHANGED <<mem, top, caller>>
    BY <2>1 DEF FrameInv
  <2>2. CASE /\ mem' = [mem EXCEPT ![o] = "dying"]
             /\ top' = [top EXCEPT ![t] = o]
             /\ caller' = [caller EXCEPT ![o] = top[t]]
    BY <1>1, <2>2, PushPreserves
  <2> QED  BY <1>1, <2>1, <2>2
<1> QED  BY <1>1, <1>2, <1>3, <1>4, <1>5, <1>6

(***************************************************************************)
(* The invariant of the specification                                      *)
(***************************************************************************)

\* The initial states satisfy the invariant.
LEMMA InitIInv == Init => IInv
<1> SUFFICES ASSUME Init PROVE IInv
  OBVIOUS
<1> USE DEF Init
<1>1. TypeOK
  <2>1. mem \in [Object -> {"free", "live", "dying"}]
    OBVIOUS
  <2>2. /\ refcount \in [Object -> Int] /\ isMutable \in [Object -> BOOLEAN]
    OBVIOUS
  <2>3. /\ borrowed \in [Thread -> [via : Ref, item : Ref] \cup {NoBorrow}]
        /\ top \in [Thread -> Object \cup {Nobody}]
        /\ caller \in [Object -> Object \cup {Nobody}]
    OBVIOUS
  <2>4. /\ target \in [Ref -> Object \cup {Nobody}]
        /\ holder \in [Ref -> Thread \cup Object \cup {Nobody}]
        /\ \A r \in Ref : target[r] = Nobody <=> holder[r] = Nobody
    OBVIOUS
  <2>5. aborted \in BOOLEAN
    BY Zenon
  <2> QED  BY <2>1, <2>2, <2>3, <2>4, <2>5 DEF TypeOK
<1>2. CountInv
  <2>1. \A o \in Object : RefsTo(o) = {}
    BY DisjointAssumption DEF RefsTo
  <2> QED  BY <2>1, FS_EmptySet DEF CountInv
<1>3. HolderInv /\ BorrowInv /\ FrameInv /\ ~aborted
  BY DisjointAssumption DEF HolderInv, BorrowInv, FrameInv
<1> QED  BY <1>1, <1>2, <1>3 DEF IInv

\* EFObjectCreate hands out a fresh object with one reference.
LEMMA CreatePreserves ==
  ASSUME IInv, NEW t \in Thread, NEW o \in Object, NEW r \in Ref, EFObjectCreate(t, o, r)
  PROVE  IInv'
<1> USE DEF IInv, EFObjectCreate
<1>1. /\ target' = [target EXCEPT ![r] = o]
      /\ holder' = [holder EXCEPT ![r] = t]
      /\ target[r] = Nobody /\ holder[r] = Nobody
  BY DEF NewRef, Unused, TypeOK
<1>2. TypeOK'
  BY <1>1, DisjointAssumption DEF TypeOK, frames
<1>3. CountInv'
  <2>1. o \notin Static /\ RefsTo(o) = {}
    BY DEF CountInv
  <2>2. RefsTo(o)' = {r}
    BY <1>1, <2>1 DEF RefsTo, TypeOK
  <2>3. \A p \in Object \ {o} : RefsTo(p)' = RefsTo(p)
    BY <1>1, DisjointAssumption DEF RefsTo, TypeOK
  <2>4. Cardinality({r}) = 1
    BY FS_Singleton
  <2>5. \A p \in Object \ {o} : refcount'[p] = refcount[p] /\ mem'[p] = mem[p]
    BY DEF TypeOK
  <2>6. refcount'[o] = 1 /\ mem'[o] = "live"
    BY DEF TypeOK
  <2> QED  BY <2>1, <2>2, <2>3, <2>4, <2>5, <2>6 DEF CountInv
<1>4. HolderInv'
  BY <1>1, DisjointAssumption DEF HolderInv, TypeOK
<1>5. BorrowInv'
  <2> SUFFICES ASSUME NEW u \in Thread, borrowed[u] # NoBorrow
               PROVE  /\ holder'[borrowed[u].via] = u
                      /\ holder'[borrowed[u].item] = target'[borrowed[u].via]
    BY DEF BorrowInv
  <2>1. /\ borrowed[u].via \in Ref /\ borrowed[u].item \in Ref
        /\ holder[borrowed[u].via] = u
        /\ holder[borrowed[u].item] = target[borrowed[u].via]
    BY DEF TypeOK, BorrowInv
  <2>2. borrowed[u].via # r
    BY <2>1, <1>1, DisjointAssumption
  <2>3. borrowed[u].item # r
    BY <2>1, <2>2, <1>1, DisjointAssumption DEF TypeOK
  <2> QED  BY <1>1, <2>1, <2>2, <2>3 DEF TypeOK
<1>6. FrameInv'
  <2>1. \A p \in Object : mem[p] = "dying" <=> mem'[p] = "dying"
    BY DEF TypeOK
  <2> QED  BY <2>1 DEF FrameInv, TypeOK, frames
<1> QED  BY <1>2, <1>3, <1>4, <1>5, <1>6

\* Returning from the destruction of o pops it off its chain.
LEMMA DeallocatePreserves ==
  ASSUME IInv, NEW t \in Thread, EFAllocatorDeallocate(t)
  PROVE  IInv'
<1> USE DEF IInv
<1>0. PICK o \in Object : o = top[t] /\ mem[o] = "dying" /\ o # Nobody
  BY DEF EFAllocatorDeallocate, Running, TypeOK, FrameInv
<1>1. /\ mem' = [mem EXCEPT ![o] = "free"]
      /\ isMutable' = [isMutable EXCEPT ![o] = FALSE]
      /\ top' = [top EXCEPT ![t] = caller[o]]
      /\ caller' = [caller EXCEPT ![o] = Nobody]
      /\ Fields(o) = {}
      /\ UNCHANGED <<refcount, target, holder, borrowed, aborted>>
  BY <1>0 DEF EFAllocatorDeallocate
<1>2. TypeOK'
  BY <1>1 DEF TypeOK
<1>3. CountInv'
  <2>1. \A p \in Object : RefsTo(p)' = RefsTo(p) /\ (mem'[p] = "live" <=> mem[p] = "live")
    BY <1>0, <1>1 DEF RefsTo, TypeOK
  <2> QED  BY <1>1, <2>1 DEF CountInv
<1>4. HolderInv'
  BY <1>0, <1>1 DEF HolderInv, Fields, TypeOK
<1>5. BorrowInv'
  BY <1>1 DEF BorrowInv
<1>6. FrameInv'
  <2>1. \A u \in Thread : top[u] # Nobody => caller[o] # top[u]
    BY <1>0 DEF FrameInv
  <2>2. \A u \in Thread : top'[u] # Nobody => mem'[top'[u]] = "dying"
    <3> SUFFICES ASSUME NEW u \in Thread, top'[u] # Nobody PROVE mem'[top'[u]] = "dying"
      OBVIOUS
    <3>1. CASE u = t
      <4>1. caller[o] # Nobody /\ top'[u] = caller[o] /\ caller[o] # o
        BY <3>1, <1>0, <1>1, <2>1 DEF TypeOK
      <4> QED  BY <4>1, <1>1 DEF FrameInv, TypeOK
    <3>2. CASE u # t
      <4>1. top'[u] = top[u] /\ top[u] # o
        BY <3>2, <1>0, <1>1 DEF FrameInv, TypeOK
      <4> QED  BY <4>1, <1>1 DEF FrameInv, TypeOK
    <3> QED  BY <3>1, <3>2
  <2>3. \A q \in Object : caller'[q] # Nobody => mem'[q] = "dying" /\ mem'[caller'[q]] = "dying"
    <3> SUFFICES ASSUME NEW q \in Object, caller'[q] # Nobody
                 PROVE  mem'[q] = "dying" /\ mem'[caller'[q]] = "dying"
      OBVIOUS
    <3>1. q # o /\ caller'[q] = caller[q]
      BY <1>1 DEF TypeOK
    <3>2. caller[q] # o
      BY <1>0 DEF FrameInv
    <3> QED  BY <1>1, <3>1, <3>2 DEF FrameInv, TypeOK
  <2>4. \A u, v \in Thread : top'[u] # Nobody /\ top'[u] = top'[v] => u = v
    BY <1>1, <2>1 DEF FrameInv, TypeOK
  <2>5. \A p, q \in Object : caller'[p] # Nobody /\ caller'[p] = caller'[q] => p = q
    BY <1>1 DEF FrameInv, TypeOK
  <2>6. \A u \in Thread, q \in Object : top'[u] # Nobody => caller'[q] # top'[u]
    BY <1>1 DEF FrameInv, TypeOK
  <2>7. \A q \in Object : mem'[q] = "dying" => \/ \E u \in Thread : top'[u] = q
                                                \/ \E p \in Object : caller'[p] = q
    <3> SUFFICES ASSUME NEW q \in Object, mem'[q] = "dying"
                 PROVE  \/ \E u \in Thread : top'[u] = q
                        \/ \E p \in Object : caller'[p] = q
      OBVIOUS
    <3>1. q # o /\ mem[q] = "dying"
      BY <1>1 DEF TypeOK
    <3>2. CASE \E u \in Thread : top[u] = q
      BY <3>1, <3>2, <1>0, <1>1 DEF TypeOK
    <3>3. CASE caller[o] = q
      BY <3>3, <1>1 DEF TypeOK
    <3>4. CASE \E p \in Object : p # o /\ caller[p] = q
      BY <3>4, <1>1 DEF TypeOK
    <3> QED  BY <3>1, <3>2, <3>3, <3>4 DEF FrameInv
  <2> QED  BY <2>2, <2>3, <2>4, <2>5, <2>6, <2>7 DEF FrameInv
<1> QED  BY <1>1, <1>2, <1>3, <1>4, <1>5, <1>6

\* Borrowing, freezing and handing over move no reference count.
LEMMA QuietPreserves ==
  ASSUME IInv, NEW t \in Thread,
         \/ \E r, x \in Ref : Borrow(t, r, x)
         \/ EndBorrow(t)
         \/ \E k \in Ref : Freeze(t, k)
         \/ \E r \in Ref, u \in Thread : Transfer(t, r, u)
  PROVE  IInv'
<1> USE DEF IInv
<1>1. ASSUME NEW r \in Ref, NEW x \in Ref, Borrow(t, r, x) PROVE IInv'
  <2> USE <1>1 DEF Borrow
  <2>1. TypeOK'
    BY DEF TypeOK, frames
  <2>2. CountInv'
    BY DEF CountInv, RefsTo
  <2>4. HolderInv' /\ FrameInv'
    BY DEF HolderInv, FrameInv, frames
  <2>3. BorrowInv'
    BY DEF BorrowInv, TypeOK
  <2> QED  BY <2>1, <2>2, <2>3, <2>4
<1>2. ASSUME EndBorrow(t) PROVE IInv'
  <2> USE <1>2 DEF EndBorrow
  <2>1. TypeOK'
    BY DEF TypeOK, frames
  <2>2. CountInv'
    BY DEF CountInv, RefsTo
  <2>4. HolderInv' /\ FrameInv'
    BY DEF HolderInv, FrameInv, frames
  <2>3. BorrowInv'
    BY DEF BorrowInv, TypeOK
  <2> QED  BY <2>1, <2>2, <2>3, <2>4
<1>3. ASSUME NEW k \in Ref, Freeze(t, k) PROVE IInv'
  <2> USE <1>3 DEF Freeze
  <2>1. TypeOK'
    BY DEF TypeOK, frames
  <2>2. CountInv' /\ HolderInv' /\ BorrowInv' /\ FrameInv'
    BY DEF CountInv, HolderInv, BorrowInv, FrameInv, RefsTo, frames
  <2> QED  BY <2>1, <2>2
<1>4. ASSUME NEW r \in Ref, NEW u \in Thread, Transfer(t, r, u) PROVE IInv'
  <2> USE <1>4 DEF Transfer
  <2>1. holder[r] = t /\ t \notin Object /\ u \notin Object /\ u # Nobody /\ t # Nobody
    BY DisjointAssumption
  <2>2. TypeOK'
    BY <2>1 DEF TypeOK, frames
  <2>3. CountInv' /\ FrameInv'
    BY DEF CountInv, FrameInv, RefsTo, frames
  <2>4. HolderInv'
    BY <2>1 DEF HolderInv, TypeOK
  <2>5. BorrowInv'
    <3> SUFFICES ASSUME NEW v \in Thread, borrowed[v] # NoBorrow
                 PROVE  /\ holder'[borrowed[v].via] = v
                        /\ holder'[borrowed[v].item] = target[borrowed[v].via]
      BY DEF BorrowInv
    <3>1. /\ borrowed[v].via \in Ref /\ borrowed[v].item \in Ref
          /\ holder[borrowed[v].via] = v
          /\ holder[borrowed[v].item] = target[borrowed[v].via]
      BY DEF TypeOK, BorrowInv
    <3>2. borrowed[v].via # r
      BY <3>1
    <3>3. borrowed[v].item # r
      BY <2>1, <3>1 DEF TypeOK
    <3> QED  BY <3>1, <3>2, <3>3 DEF TypeOK
  <2> QED  BY <2>2, <2>3, <2>4, <2>5
<1> QED  BY <1>1, <1>2, <1>3, <1>4

\* Every step of the specification preserves the invariant.
LEMMA NextIInv == IInv /\ [Next]_vars => IInv'
<1> SUFFICES ASSUME IInv, [Next]_vars PROVE IInv'
  OBVIOUS
<1>0. ASSUME UNCHANGED vars PROVE IInv'
  <2> USE <1>0 DEF vars, frames, IInv
  <2>1. TypeOK' /\ ~aborted'
    BY DEF TypeOK
  <2>2. CountInv'
    BY DEF CountInv, RefsTo
  <2>3. HolderInv' /\ BorrowInv' /\ FrameInv'
    BY DEF HolderInv, BorrowInv, FrameInv
  <2> QED  BY <2>1, <2>2, <2>3
<1>1. ASSUME NEW t \in Thread, NEW o \in Object, NEW r \in Ref, EFObjectCreate(t, o, r)
      PROVE  IInv'
  BY <1>1, CreatePreserves
<1>2. ASSUME NEW t \in Thread, NEW o \in Object, NEW r \in Ref, UseStatic(t, o, r)
      PROVE  IInv'
  <2>1. mem[o] = "live" /\ Increment(o)
    BY <1>2 DEF UseStatic, Increment, IInv, CountInv
  <2>2. t \notin Object
    BY DisjointAssumption
  <2> QED  BY <1>2, <2>1, <2>2, AddPreserves DEF UseStatic
<1>3. ASSUME NEW t \in Thread, NEW r \in Ref, NEW n \in Ref, EFRetain(t, r, n)
      PROVE  IInv'
  <2>1. target[r] # Nobody /\ t \notin Object
    BY <1>3, DisjointAssumption DEF EFRetain, IInv, TypeOK
  <2>2. target[r] \in Object /\ mem[target[r]] = "live"
    BY <2>1, CountPositive DEF IInv
  <2> QED  BY <1>3, <2>1, <2>2, AddPreserves DEF EFRetain
<1>4. ASSUME NEW t \in Thread, NEW n \in Ref, RetainBorrowed(t, n)
      PROVE  IInv'
  <2> DEFINE i == borrowed[t].item
  <2>1. i \in Ref /\ target[i] # Nobody /\ t \notin Object
    <3>1. borrowed[t].via \in Ref /\ i \in Ref
      BY <1>4 DEF RetainBorrowed, IInv, TypeOK
    <3>2. holder[borrowed[t].via] = t /\ holder[i] = target[borrowed[t].via]
      BY <1>4 DEF RetainBorrowed, IInv, BorrowInv
    <3>3. target[borrowed[t].via] # Nobody
      BY <3>1, <3>2, DisjointAssumption DEF IInv, TypeOK
    <3> QED  BY <3>1, <3>2, <3>3, DisjointAssumption DEF IInv, TypeOK
  <2>2. target[i] \in Object /\ mem[target[i]] = "live"
    BY <2>1, CountPositive DEF IInv
  <2>3. /\ NewRef(n, target[i], t) /\ Increment(target[i])
        /\ borrowed' = [borrowed EXCEPT ![t] = NoBorrow]
        /\ UNCHANGED <<mem, isMutable, frames, aborted>>
    BY <1>4 DEF RetainBorrowed
  <2> HIDE DEF i
  <2> QED  BY <2>1, <2>2, <2>3, AddPreserves
<1>5. ASSUME NEW t \in Thread, NEW k \in Ref, NEW r \in Ref, NEW n \in Ref, Store(t, k, r, n)
      PROVE  IInv'
  <2>1. target[r] # Nobody /\ target[k] # Nobody
    BY <1>5, DisjointAssumption DEF Store, IInv, TypeOK
  <2>2. /\ target[r] \in Object /\ mem[target[r]] = "live"
        /\ target[k] \in Object /\ mem[target[k]] = "live"
    BY <2>1, CountPositive DEF IInv
  <2>3. mem[target[k]] # "free"
    BY <2>2
  <2> QED  BY <1>5, <2>2, <2>3, AddPreserves DEF Store
<1>6. ASSUME NEW t \in Thread, NEW r \in Ref, EFRelease(t, r)
      PROVE  IInv'
  <2>1. target[r] # Nobody /\ holder[r] = t /\ t \notin Object
    BY <1>6, DisjointAssumption DEF EFRelease, IInv, TypeOK
  <2>2. ASSUME NEW u \in Thread, borrowed[u] # NoBorrow
        PROVE  borrowed[u].via # r /\ borrowed[u].item # r
    <3>1. u # t
      BY <1>6, <2>2 DEF EFRelease
    <3>2. /\ borrowed[u].via \in Ref /\ holder[borrowed[u].via] = u
          /\ holder[borrowed[u].item] = target[borrowed[u].via]
      BY <2>2 DEF IInv, TypeOK, BorrowInv
    <3>3. target[borrowed[u].via] \in Object
      BY <3>2, DisjointAssumption DEF IInv, TypeOK
    <3> QED  BY <2>1, <3>1, <3>2, <3>3
  <2> QED  BY <1>6, <2>1, <2>2, DropPreserves DEF EFRelease
<1>7. ASSUME NEW t \in Thread, NEW k \in Ref, NEW x \in Ref, Remove(t, k, x)
      PROVE  IInv'
  <2>1. target[k] \in Object /\ target[x] # Nobody
    BY <1>7, DisjointAssumption DEF Remove, IInv, TypeOK
  <2>2. ASSUME NEW u \in Thread, borrowed[u] # NoBorrow
        PROVE  borrowed[u].via # x /\ borrowed[u].item # x
    <3>1. u # t
      BY <1>7, <2>2 DEF Remove
    <3>2. /\ borrowed[u].via \in Ref /\ holder[borrowed[u].via] = u
          /\ holder[borrowed[u].item] = target[borrowed[u].via]
      BY <2>2 DEF IInv, TypeOK, BorrowInv
    <3>3. borrowed[u].via # x
      BY <1>7, <2>1, <3>2, DisjointAssumption DEF Remove
    <3>4. target[borrowed[u].via] # target[k]
      BY <1>7, <3>1, <3>2 DEF Remove, Exclusive, RefsTo
    <3> QED  BY <1>7, <3>2, <3>3, <3>4 DEF Remove
  <2> QED  BY <1>7, <2>1, <2>2, DropPreserves DEF Remove
<1>8. ASSUME NEW t \in Thread, NEW x \in Ref, DeinitField(t, x)
      PROVE  IInv'
  <2>1. /\ top[t] \in Object /\ mem[top[t]] = "dying" /\ holder[x] = top[t]
    BY <1>8 DEF DeinitField, Running, IInv, TypeOK, FrameInv
  <2>2. target[x] # Nobody
    BY <2>1, DisjointAssumption DEF IInv, TypeOK
  <2>3. ASSUME NEW u \in Thread, borrowed[u] # NoBorrow
        PROVE  borrowed[u].via # x /\ borrowed[u].item # x
    <3>1. /\ borrowed[u].via \in Ref /\ holder[borrowed[u].via] = u
          /\ holder[borrowed[u].item] = target[borrowed[u].via]
      BY <2>3 DEF IInv, TypeOK, BorrowInv
    <3>2. borrowed[u].via # x
      BY <2>1, <3>1, DisjointAssumption
    <3>3. target[borrowed[u].via] # Nobody
      BY <3>1, DisjointAssumption DEF IInv, TypeOK
    <3>4. mem[target[borrowed[u].via]] = "live"
      BY <3>1, <3>3, CountPositive DEF IInv
    <3> QED  BY <2>1, <3>1, <3>2, <3>4
  <2> QED  BY <1>8, <2>2, <2>3, DropPreserves DEF DeinitField
<1>9. ASSUME NEW t \in Thread, EFAllocatorDeallocate(t) PROVE IInv'
  BY <1>9, DeallocatePreserves
<1>10. CASE Next
  BY <1>1, <1>2, <1>3, <1>4, <1>5, <1>6, <1>7, <1>8, <1>9, <1>10, QuietPreserves, Zenon
     DEF Next, Client, Destroying
<1> QED  BY <1>0, <1>10

(***************************************************************************)
(* Theorems                                                                *)
(***************************************************************************)

\* The inductive invariant holds in every reachable state of every execution.
THEOREM Invariance == Spec => []IInv
<1> QED  BY InitIInv, NextIInv, PTL DEF Spec

\* Every variable keeps its type, and a reference without a target has no holder.
THEOREM TypeCorrect == Spec => []TypeOK
<1>1. IInv => TypeOK
  BY DEF IInv
<1> QED  BY <1>1, Invariance, PTL

\* The counter of every live object is the number of references that own it,
\* in every interleaving of EFRetain and EFRelease on any number of threads.
THEOREM CountsAreExact == Spec => []CountOK
<1>1. IInv => CountOK
  <2> SUFFICES ASSUME IInv, NEW o \in Object \ Static, mem[o] = "live"
               PROVE  refcount[o] = Cardinality(RefsTo(o)) /\ refcount[o] > 0
    BY DEF CountOK
  <2>1. refcount[o] = Cardinality(RefsTo(o)) /\ RefsTo(o) # {}
    BY DEF IInv, CountInv
  <2>2. Cardinality(RefsTo(o)) # 0
    BY <2>1, RefsFinite, FS_EmptySet
  <2> QED  BY <2>1, <2>2, RefsFinite
<1> QED  BY <1>1, Invariance, PTL

\* No owning reference ever points to an object under destruction or freed.
THEOREM NothingDangles == Spec => []NoDangling
<1>1. IInv => NoDangling
  BY CountPositive DEF IInv, NoDangling, HolderInv
<1> QED  BY <1>1, Invariance, PTL

\* A pointer borrowed from a container stays valid while the container is kept.
THEOREM BorrowedStaysAlive == Spec => []BorrowSafe
<1>1. IInv => BorrowSafe
  <2> SUFFICES ASSUME IInv, NEW t \in Thread, borrowed[t] # NoBorrow
               PROVE  /\ target[borrowed[t].item] # Nobody
                      /\ mem[target[borrowed[t].item]] = "live"
    BY DEF BorrowSafe
  <2>1. /\ borrowed[t].via \in Ref /\ borrowed[t].item \in Ref
        /\ holder[borrowed[t].via] = t
        /\ holder[borrowed[t].item] = target[borrowed[t].via]
    BY DEF IInv, TypeOK, BorrowInv
  <2>2. target[borrowed[t].via] # Nobody
    BY <2>1, DisjointAssumption DEF IInv, TypeOK
  <2>3. target[borrowed[t].item] # Nobody
    BY <2>1, <2>2 DEF IInv, TypeOK
  <2> QED  BY <2>1, <2>3, CountPositive DEF IInv
<1> QED  BY <1>1, Invariance, PTL

\* Each dying object is destroyed by exactly one activation of EFRelease.
THEOREM DestroyedOnce == Spec => []OneDestroyer
<1>1. IInv => OneDestroyer
  <2> SUFFICES ASSUME IInv, NEW o \in Object, mem[o] = "dying"
               PROVE  Cardinality({t \in Thread : top[t] = o} \cup {p \in Object : caller[p] = o}) = 1
    BY DEF OneDestroyer
  <2>0. o # Nobody
    BY DisjointAssumption
  <2>1. CASE \E t \in Thread : top[t] = o
    <3>1. PICK t \in Thread : top[t] = o
      BY <2>1
    <3>2. {u \in Thread : top[u] = o} \cup {p \in Object : caller[p] = o} = {t}
      BY <2>0, <3>1 DEF IInv, FrameInv
    <3> QED  BY <3>2, FS_Singleton
  <2>2. CASE \E p \in Object : caller[p] = o
    <3>1. PICK p \in Object : caller[p] = o
      BY <2>2
    <3>2. {u \in Thread : top[u] = o} \cup {q \in Object : caller[q] = o} = {p}
      BY <2>0, <3>1 DEF IInv, FrameInv
    <3> QED  BY <3>2, FS_Singleton
  <2> QED  BY <2>1, <2>2 DEF IInv, FrameInv
<1> QED  BY <1>1, Invariance, PTL

\* The abort in EFRelease is unreachable for threads that release what they own.
THEOREM NeverUnderflows == Spec => []NoUnderflow
<1>1. IInv => NoUnderflow
  BY DEF IInv, NoUnderflow
<1> QED  BY <1>1, Invariance, PTL

(***************************************************************************)
(* Refinement of the ownership contract                                    *)
(***************************************************************************)

\* A new counted reference is the contract's Share.
LEMMA AddIsShare ==
  ASSUME IInv, NEW o \in Object, NEW r \in Ref, NEW h,
         mem[o] = "live", NewRef(r, o, h), UNCHANGED mem
  PROVE  Lifetime!Share(o, r)
<1>1. /\ RefsTo(o)' = RefsTo(o) \cup {r}
      /\ \A p \in Object \ {o} : RefsTo(p)' = RefsTo(p)
  BY DisjointAssumption DEF NewRef, Unused, RefsTo, IInv, TypeOK
<1>2. \A p \in Object : r \notin RefsTo(p)
  BY DisjointAssumption DEF NewRef, Unused, RefsTo
<1>3. o \in Static \/ RefsTo(o) # {}
  BY DEF IInv, CountInv
<1> QED  BY <1>1, <1>2, <1>3 DEF Lifetime!Share, Lifetime!Unused

\* A decrement is the contract's Drop, whether or not it is the last.
LEMMA DecrementIsDrop ==
  ASSUME IInv, NEW t \in Thread, NEW x \in Ref, target[x] # Nobody, Decrement(t, x),
         NEW o \in Object, o = target[x]
  PROVE  Lifetime!Drop(o, x)
<1>1. /\ target' = [target EXCEPT ![x] = Nobody]
      /\ mem[o] = "live"
      /\ mem' = mem \/ mem' = [mem EXCEPT ![o] = "dying"]
  BY DecrementCases
<1>2. /\ x \in RefsTo(o)
      /\ RefsTo(o)' = RefsTo(o) \ {x}
      /\ \A p \in Object \ {o} : RefsTo(p)' = RefsTo(p)
  BY <1>1, DisjointAssumption DEF RefsTo, IInv, TypeOK
<1>3. \A p \in Object : mem'[p] # "free" <=> mem[p] # "free"
  BY <1>1 DEF IInv, TypeOK
<1> QED  BY <1>2, <1>3 DEF Lifetime!Drop

\* Only the deallocation at the end of a destruction reclaims.
LEMMA DeallocateIsReclaim ==
  ASSUME IInv, NEW t \in Thread, EFAllocatorDeallocate(t)
  PROVE  \E o \in Object : Lifetime!Reclaim(o)
<1>1. PICK o \in Object : /\ o = top[t] /\ mem[o] = "dying"
                          /\ mem' = [mem EXCEPT ![o] = "free"]
                          /\ target' = target
  BY DEF EFAllocatorDeallocate, Running, IInv, TypeOK, FrameInv
<1>2. o \notin Static /\ RefsTo(o) = {}
  BY <1>1 DEF IInv, CountInv
<1>3. \A p \in Object : RefsTo(p)' = RefsTo(p)
  BY <1>1 DEF RefsTo
<1>4. [p \in Object |-> mem'[p] # "free"]
        = [[p \in Object |-> mem[p] # "free"] EXCEPT ![o] = FALSE]
  BY <1>1 DEF IInv, TypeOK
<1> QED  BY <1>1, <1>2, <1>3, <1>4 DEF Lifetime!Reclaim

\* EFObject implements EFLifetime: each step is a Create, Share, Drop or Reclaim
\* of the contract, or changes nothing the contract speaks about.
THEOREM ImplementsContract == Spec => ImplementsLifetime
<1>1. Init => Lifetime!Init
  <2> SUFFICES ASSUME Init PROVE Lifetime!Init
    OBVIOUS
  <2>1. \A o \in Object : RefsTo(o) = {}
    BY DisjointAssumption DEF Init, RefsTo
  <2>2. \A o \in Object : mem[o] # "free" <=> o \in Static
    BY DEF Init
  <2> QED  BY <2>1, <2>2 DEF Lifetime!Init
<1>2. IInv /\ [Next]_vars => [Lifetime!Next]_(Lifetime!vars)
  <2> SUFFICES ASSUME IInv, [Next]_vars PROVE Lifetime!Next \/ UNCHANGED Lifetime!vars
    OBVIOUS
  <2> DEFINE Quiet == UNCHANGED <<mem, target>>
  <2>0. Quiet => UNCHANGED Lifetime!vars
    BY DEF Lifetime!vars, RefsTo
  <2>1. ASSUME NEW o \in Object, NEW r \in Ref, Lifetime!Share(o, r) \/ Lifetime!Drop(o, r)
                                               \/ Lifetime!Create(o, r)
        PROVE  Lifetime!Next
    BY <2>1 DEF Lifetime!Next
  <2>2. ASSUME NEW t \in Thread, NEW o \in Object, NEW r \in Ref, EFObjectCreate(t, o, r)
        PROVE  Lifetime!Next
    <3>0. RefsTo(o) = {}
      BY <2>2 DEF EFObjectCreate, IInv, CountInv
    <3>6. target' = [target EXCEPT ![r] = o] /\ target[r] = Nobody
      BY <2>2 DEF EFObjectCreate, NewRef, Unused
    <3>1. /\ RefsTo(o)' = {r}
          /\ \A p \in Object \ {o} : RefsTo(p)' = RefsTo(p)
      BY <3>0, <3>6, DisjointAssumption DEF RefsTo, IInv, TypeOK
    <3>2. \A p \in Object : r \notin RefsTo(p)
      BY <2>2, DisjointAssumption DEF EFObjectCreate, NewRef, Unused, RefsTo
    <3>3. [p \in Object |-> mem'[p] # "free"]
            = [[p \in Object |-> mem[p] # "free"] EXCEPT ![o] = TRUE]
      BY <2>2 DEF EFObjectCreate, IInv, TypeOK
    <3>4. mem[o] = "free"
      BY <2>2 DEF EFObjectCreate
    <3>5. Lifetime!Create(o, r)
      BY <3>0, <3>1, <3>2, <3>3, <3>4 DEF Lifetime!Create, Lifetime!Unused
    <3> QED  BY <3>5, <2>1
  <2>3. ASSUME NEW t \in Thread, NEW x \in Ref, holder[x] # Nobody, Decrement(t, x)
        PROVE  Lifetime!Next
    <3>1. target[x] \in Object /\ target[x] # Nobody
      BY <2>3 DEF IInv, TypeOK
    <3> QED  BY <3>1, <2>1, <2>3, DecrementIsDrop
  <2>4. ASSUME NEW t \in Thread, NEW o \in Object, NEW r \in Ref, UseStatic(t, o, r)
        PROVE  Lifetime!Next
    <3>1. mem[o] = "live"
      BY <2>4 DEF UseStatic, IInv, CountInv
    <3> QED  BY <3>1, <2>1, <2>4, AddIsShare DEF UseStatic
  <2>5. ASSUME NEW t \in Thread, NEW r \in Ref, NEW n \in Ref, EFRetain(t, r, n)
        PROVE  Lifetime!Next
    <3>1. target[r] \in Object /\ mem[target[r]] = "live"
      BY <2>5, DisjointAssumption, CountPositive DEF EFRetain, IInv, TypeOK
    <3> QED  BY <3>1, <2>1, <2>5, AddIsShare DEF EFRetain
  <2>6. ASSUME NEW t \in Thread, NEW n \in Ref, RetainBorrowed(t, n)
        PROVE  Lifetime!Next
    <3> DEFINE i == borrowed[t].item
    <3>1. /\ borrowed[t].via \in Ref /\ i \in Ref
          /\ holder[borrowed[t].via] = t /\ holder[i] = target[borrowed[t].via]
      BY <2>6 DEF RetainBorrowed, IInv, TypeOK, BorrowInv
    <3>2. target[i] # Nobody
      BY <3>1, DisjointAssumption DEF IInv, TypeOK
    <3>3. target[i] \in Object /\ mem[target[i]] = "live"
      BY <3>1, <3>2, CountPositive DEF IInv
    <3>4. NewRef(n, target[i], t) /\ UNCHANGED mem
      BY <2>6 DEF RetainBorrowed
    <3> HIDE DEF i
    <3> QED  BY <3>3, <3>4, <2>1, AddIsShare
  <2>7. ASSUME NEW t \in Thread, NEW k \in Ref, NEW r \in Ref, NEW n \in Ref, Store(t, k, r, n)
        PROVE  Lifetime!Next
    <3>1. target[r] \in Object /\ mem[target[r]] = "live"
      BY <2>7, DisjointAssumption, CountPositive DEF Store, IInv, TypeOK
    <3> QED  BY <3>1, <2>1, <2>7, AddIsShare DEF Store
  <2>8. ASSUME NEW t \in Thread, NEW r \in Ref, EFRelease(t, r) PROVE Lifetime!Next
    BY <2>3, <2>8, DisjointAssumption DEF EFRelease
  <2>9. ASSUME NEW t \in Thread, NEW k \in Ref, NEW x \in Ref, Remove(t, k, x)
        PROVE  Lifetime!Next
    <3>1. target[k] # Nobody
      BY <2>9, DisjointAssumption DEF Remove, IInv, TypeOK
    <3> QED  BY <3>1, <2>3, <2>9 DEF Remove
  <2>10. ASSUME NEW t \in Thread, NEW x \in Ref, DeinitField(t, x) PROVE Lifetime!Next
    BY <2>3, <2>10 DEF DeinitField, Running
  <2>11. ASSUME NEW t \in Thread, EFAllocatorDeallocate(t) PROVE Lifetime!Next
    BY <2>11, DeallocateIsReclaim DEF Lifetime!Next
  <2>12. ASSUME NEW t \in Thread,
                \/ \E r, x \in Ref : Borrow(t, r, x)
                \/ EndBorrow(t)
                \/ \E k \in Ref : Freeze(t, k)
                \/ \E r \in Ref, u \in Thread : Transfer(t, r, u)
         PROVE  Quiet
    BY <2>12 DEF Borrow, EndBorrow, Freeze, Transfer
  <2>13. UNCHANGED vars => Quiet
    BY DEF vars
  <2> HIDE DEF Quiet
  <2>14. CASE Next
    BY <2>0, <2>2, <2>4, <2>5, <2>6, <2>7, <2>8, <2>9, <2>10, <2>11, <2>12, <2>14, Zenon
       DEF Next, Client, Destroying
  <2> QED  BY <2>0, <2>13, <2>14
<1> QED  BY <1>1, <1>2, Invariance, PTL DEF Spec, ImplementsLifetime, Lifetime!Spec

(***************************************************************************)
(* The class registry                                                      *)
(***************************************************************************)

\* The capacity is a whole number of chunks, and the last identifier lies at
\* most at the capacity once the table has been extended for it.
RoomInv ==
    /\ \E k \in Nat : efClassCapacity = k * Chunk
    /\ allocated => Builtin < efClassCapacity
    /\ \A t \in Thread : pc[t] \in {"numbered", "extended"} =>
           typeID[t] = efClassNext /\ efClassNext > Builtin
    /\ \A t \in Thread : pc[t] = "numbered" => issued[efClassNext] = NoClass
    /\ \A t \in Thread : pc[t] = "extended" =>
           allocated /\ issued[efClassNext] = NoClass /\ class[t] # NoClass
    /\ \A t \in Thread : pc[t] \in {"copied", "locked", "numbered"} => class[t] # NoClass
    /\ allocated => /\ efClassNext <= efClassCapacity + 1
                    /\ (\A t \in Thread : pc[t] # "numbered") => efClassNext <= efClassCapacity
    /\ ~allocated => /\ efClassNext <= Builtin + 1
                     /\ (\A t \in Thread : pc[t] # "numbered") => efClassNext = Builtin
    /\ \A t \in Thread : pc[t] = "locked" => efClassNext < MaxID

\* Issued identifiers are behind the counter, and each but a multiple of the
\* chunk size has its class in the allocated part of the table.
TableInv ==
    /\ issued[0] = NoClass /\ \A id \in 1..Builtin : issued[id] = FoundationClass
    /\ \A id \in ID : issued[id] # NoClass => id <= efClassNext
    /\ allocated => \A id \in ID : issued[id] # NoClass /\ ~Boundary(id) =>
                        id < efClassCapacity /\ efClassTable[id] = issued[id]

RegistryInv == RegistryTypeOK /\ RoomInv /\ TableInv /\ LookupOK

\* A capacity that is an identifier is a boundary.
LEMMA CapacityIsBoundary ==
  ASSUME RoomInv, efClassCapacity \in ID
  PROVE  Boundary(efClassCapacity)
<1>1. PICK k \in Nat : efClassCapacity = k * Chunk
  BY DEF RoomInv
<1>2. Chunk \in Nat /\ Chunk >= 1
  BY RegistryAssumption
<1>3. k <= k * Chunk
  BY <1>2
<1>4. k \in 0..MaxID
  BY <1>1, <1>3, RegistryAssumption DEF ID
<1> QED  BY <1>1, <1>4 DEF Boundary

\* The initial states satisfy the invariant.
LEMMA InitRegistryInv == InitRegistry => RegistryInv
<1> SUFFICES ASSUME InitRegistry PROVE RegistryInv
  OBVIOUS
<1> USE DEF InitRegistry
<1>1. RegistryTypeOK
  <2>1. /\ efClassTable \in [ID -> Entry]
        /\ efClassNext \in Builtin..MaxID /\ efClassCapacity \in Nat
        /\ issued \in [ID -> Class \cup {FoundationClass, NoClass}]
    BY RegistryAssumption DEF Entry, ID
  <2>2. /\ efClassLock \in Thread \cup {Nobody}
        /\ pc \in [Thread -> {"idle", "copied", "locked", "numbered", "extended", "lookup"}]
        /\ class \in [Thread -> Class \cup {NoClass}]
        /\ typeID \in [Thread -> ID]
    BY RegistryAssumption DEF ID
  <2>3. found \in [Thread -> [id : ID, class : Entry, issued : Entry]]
    BY RegistryAssumption DEF NoLookup, ID, Entry
  <2>4. allocated \in BOOLEAN /\ stopped \in BOOLEAN
    BY Zenon
  <2>5. \A t \in Thread : InCritical(t) <=> efClassLock = t
    BY RegistryAssumption DEF InCritical
  <2> QED  BY <2>1, <2>2, <2>3, <2>4, <2>5 DEF RegistryTypeOK
<1>2. RoomInv
  <2>1. efClassCapacity = 0 * Chunk
    BY RegistryAssumption
  <2>2. \E k \in Nat : efClassCapacity = k * Chunk
    BY <2>1
  <2> QED  BY <2>2, RegistryAssumption DEF RoomInv
<1>3. TableInv
  BY RegistryAssumption DEF TableInv, ID
<1>4. LookupOK
  BY DEF LookupOK, NoLookup
<1> QED  BY <1>1, <1>2, <1>3, <1>4 DEF RegistryInv

\* A first allocation with no registration under way keeps the table in order.
LEMMA AllocatePreserves ==
  ASSUME RegistryInv, AllocateTable, UNCHANGED issued
  PROVE  /\ efClassTable' \in [ID -> Entry] /\ efClassCapacity' \in Nat
         /\ \E k \in Nat : efClassCapacity' = k * Chunk
         /\ allocated' = TRUE /\ Builtin < efClassCapacity'
         /\ efClassNext <= efClassCapacity'
         /\ \A id \in ID : issued[id] # NoClass =>
                  id < efClassCapacity' /\ efClassTable'[id] = FoundationClass
<1> USE DEF AllocateTable
<1>1. efClassTable' \in [ID -> Entry] /\ efClassCapacity' \in Nat
  BY RegistryAssumption DEF Entry
<1>2. efClassCapacity' = 1 * Chunk
  BY RegistryAssumption
<1>3. efClassNext <= Builtin + 1
  BY DEF RegistryInv, RoomInv
<1>4. \A id \in ID : issued[id] # NoClass => id \in 1..Builtin
  <2> SUFFICES ASSUME NEW id \in ID, issued[id] # NoClass PROVE id \in 1..Builtin
    OBVIOUS
  <2>1. id # 0 /\ id <= efClassNext
    BY DEF RegistryInv, TableInv
  <2>2. CASE \A t \in Thread : pc[t] # "numbered"
    BY <2>1, <2>2, RegistryAssumption DEF RegistryInv, RegistryTypeOK, RoomInv, ID
  <2>3. CASE \E t \in Thread : pc[t] = "numbered"
    <3>1. issued[efClassNext] = NoClass
      BY <2>3 DEF RegistryInv, RoomInv
    <3> QED  BY <3>1, <2>1, <1>3, RegistryAssumption DEF RegistryInv, RegistryTypeOK, ID
  <2> QED  BY <2>2, <2>3
<1>5. \A id \in ID : issued[id] # NoClass =>
          id < efClassCapacity' /\ efClassTable'[id] = FoundationClass
  BY <1>4, RegistryAssumption DEF ID
<1>6. efClassNext <= efClassCapacity'
  BY <1>3, RegistryAssumption DEF RegistryInv, RegistryTypeOK
<1> QED
  BY <1>1, <1>2, <1>5, <1>6, RegistryAssumption

\* The steps that leave the table, the counter and the issued identifiers alone.
LEMMA QuietCallPreserves ==
  ASSUME RegistryInv, NEW t \in Thread,
         \/ \E c \in Class : CopyClass(t, c)
         \/ CopyFails(t)
         \/ LockRegister(t)
         \/ \E id \in ID : LockLookup(t, id)
         \/ ReadClassFails(t)
         \/ ExtendFails(t)
  PROVE  RegistryInv'
<1> USE DEF RegistryInv, table
<1>a. /\ UNCHANGED <<allocated, efClassTable, efClassCapacity, efClassNext, issued>>
      /\ \A u \in Thread \ {t} : pc'[u] = pc[u] /\ class'[u] = class[u] /\ typeID'[u] = typeID[u]
                                                 /\ found'[u] = found[u]
  BY DEF CopyClass, CopyFails, LockRegister, LockLookup, ReadClassFails, ExtendFails, Goto, RegistryTypeOK
<1>b. TableInv'
  BY <1>a DEF TableInv
<1>1. ASSUME NEW c \in Class, CopyClass(t, c) PROVE RegistryInv'
  <2> USE <1>1 DEF CopyClass, Goto
  <2>1. RegistryTypeOK'
    BY RegistryAssumption DEF RegistryTypeOK, InCritical, NoLookup, ID, Entry
  <2>2. c # NoClass
    BY RegistryAssumption
  <2>3. RoomInv'
    BY <1>a, <2>2 DEF RoomInv, RegistryTypeOK
  <2>4. LookupOK'
    BY <1>a DEF LookupOK, RegistryTypeOK, NoLookup
  <2> QED  BY <2>1, <2>3, <2>4, <1>b
<1>2. ASSUME CopyFails(t) \/ ExtendFails(t) PROVE RegistryInv'
  <2> USE <1>2 DEF CopyFails, ExtendFails
  <2>1. RegistryTypeOK'
    BY DEF RegistryTypeOK, InCritical
  <2>2. RoomInv' /\ LookupOK'
    BY DEF RoomInv, LookupOK
  <2> QED  BY <2>1, <2>2, <1>b
<1>3. ASSUME LockRegister(t) PROVE RegistryInv'
  <2> USE <1>3 DEF LockRegister, Goto, Acquire
  <2>1. RegistryTypeOK'
    BY RegistryAssumption DEF RegistryTypeOK, InCritical
  <2>2. RoomInv'
    BY <1>a DEF RoomInv, RegistryTypeOK
  <2>3. LookupOK'
    BY DEF LookupOK
  <2> QED  BY <2>1, <2>2, <2>3, <1>b
<1>4. ASSUME NEW id \in ID, LockLookup(t, id) PROVE RegistryInv'
  <2> USE <1>4 DEF LockLookup, Goto, Acquire
  <2>1. RegistryTypeOK'
    BY RegistryAssumption DEF RegistryTypeOK, InCritical, NoLookup, ID, Entry
  <2>2. RoomInv'
    BY <1>a DEF RoomInv, RegistryTypeOK
  <2>3. LookupOK'
    BY <1>a DEF LookupOK, RegistryTypeOK, NoLookup
  <2> QED  BY <2>1, <2>2, <2>3, <1>b
<1>5. ASSUME ReadClassFails(t) PROVE RegistryInv'
  <2> USE <1>5 DEF ReadClassFails, Goto, Unlock
  <2>1. RegistryTypeOK'
    BY RegistryAssumption DEF RegistryTypeOK, InCritical, ID
  <2>2. RoomInv'
    BY <1>a DEF RoomInv, RegistryTypeOK
  <2>3. LookupOK'
    BY DEF LookupOK
  <2> QED  BY <2>1, <2>2, <2>3, <1>b
<1> QED  BY <1>1, <1>2, <1>3, <1>4, <1>5

\* The thread that holds the mutex is the only one inside a critical section.
LEMMA Alone ==
  ASSUME RegistryTypeOK, NEW t \in Thread, InCritical(t)
  PROVE  \A u \in Thread \ {t} : pc[u] \in {"idle", "copied"}
BY DEF RegistryTypeOK, InCritical

\* Incrementing efClassNext gives the lock holder an identifier of its own.
LEMMA TakeIDPreserves ==
  ASSUME RegistryInv, NEW t \in Thread, TakeID(t)
  PROVE  RegistryInv'
<1> USE DEF RegistryInv, TakeID, Goto, table
<1>0. \A u \in Thread \ {t} : pc[u] \in {"idle", "copied"} /\ pc'[u] = pc[u]
  BY Alone DEF InCritical, RegistryTypeOK
<1>1. efClassNext < MaxID /\ efClassNext + 1 \in ID
  BY RegistryAssumption DEF RoomInv, RegistryTypeOK, ID
<1>2. RegistryTypeOK'
  BY <1>1, RegistryAssumption DEF RegistryTypeOK, InCritical, ID
<1>3. issued[efClassNext + 1] = NoClass
  BY <1>1, RegistryAssumption DEF TableInv, RegistryTypeOK
<1>4. RoomInv'
  <2>1. \A u \in Thread : pc[u] # "numbered"
    BY <1>0
  <2>2. pc'[t] = "numbered" /\ typeID'[t] = efClassNext'
    BY DEF RegistryTypeOK
  <2>3. allocated => efClassNext' <= efClassCapacity + 1
    BY <2>1, RegistryAssumption DEF RoomInv, RegistryTypeOK
  <2>4. ~allocated => efClassNext' <= Builtin + 1
    BY <2>1, RegistryAssumption DEF RoomInv, RegistryTypeOK
  <2>5. efClassNext' > Builtin
    BY RegistryAssumption DEF RegistryTypeOK
  <2> QED  BY <1>0, <1>3, <2>1, <2>2, <2>3, <2>4, <2>5 DEF RoomInv, RegistryTypeOK
<1>5. TableInv'
  BY RegistryAssumption DEF TableInv, RegistryTypeOK, ID
<1>6. LookupOK'
  BY DEF LookupOK
<1> QED  BY <1>2, <1>4, <1>5, <1>6

\* Allocating or growing the table keeps every entry below the old capacity.
LEMMA ExtendPreserves ==
  ASSUME RegistryInv, NEW t \in Thread, Extend(t)
  PROVE  RegistryInv'
<1> USE DEF RegistryInv
<1>0. /\ pc[t] = "numbered" /\ pc' = [pc EXCEPT ![t] = "extended"]
      /\ UNCHANGED <<efClassLock, efClassNext, class, typeID, found, issued, stopped>>
  BY DEF Extend, Goto
<1>1. \A u \in Thread \ {t} : pc[u] \in {"idle", "copied"} /\ pc'[u] = pc[u]
  BY <1>0, Alone DEF InCritical, RegistryTypeOK
<1>2. /\ efClassTable' \in [ID -> Entry] /\ efClassCapacity' \in Nat
      /\ \E k \in Nat : efClassCapacity' = k * Chunk
      /\ allocated' = TRUE /\ Builtin < efClassCapacity'
      /\ efClassNext <= efClassCapacity'
      /\ \A id \in ID : issued[id] # NoClass /\ ~Boundary(id) =>
               id < efClassCapacity' /\ efClassTable'[id] = issued[id]
  <2>1. CASE AllocateTable
    <3>1. \A id \in ID : issued[id] # NoClass =>
               id < efClassCapacity' /\ efClassTable'[id] = FoundationClass
      BY <2>1, <1>0, AllocatePreserves
    <3>2. \A id \in ID : issued[id] # NoClass => issued[id] = FoundationClass
      <4> SUFFICES ASSUME NEW id \in ID, issued[id] # NoClass PROVE issued[id] = FoundationClass
        OBVIOUS
      <4>1. id <= efClassNext /\ id # 0 /\ issued[efClassNext] = NoClass
        BY <1>0 DEF TableInv, RoomInv
      <4>2. efClassNext <= Builtin + 1
        BY <2>1 DEF AllocateTable, RoomInv
      <4>3. id \in 1..Builtin
        BY <4>1, <4>2, RegistryAssumption DEF RegistryTypeOK, ID
      <4> QED  BY <4>3 DEF TableInv
    <3> QED  BY <3>1, <3>2, <2>1, <1>0, AllocatePreserves
  <2>2. CASE GrowTable
    <3> USE <2>2 DEF GrowTable
    <3>1. efClassTable' \in [ID -> Entry] /\ efClassCapacity' \in Nat
      BY RegistryAssumption DEF RegistryTypeOK, Entry
    <3>2. \E k \in Nat : efClassCapacity' = k * Chunk
      <4>1. PICK k \in Nat : efClassCapacity = k * Chunk
        BY DEF RoomInv
      <4>2. efClassCapacity' = (k + 1) * Chunk
        BY <4>1, RegistryAssumption
      <4> QED  BY <4>2
    <3>3. efClassNext <= efClassCapacity + 1 /\ Builtin < efClassCapacity
      BY DEF RoomInv
    <3>4. Chunk >= 1
      BY RegistryAssumption
    <3>5. efClassNext <= efClassCapacity' /\ Builtin < efClassCapacity'
      BY <3>3, <3>4, RegistryAssumption DEF RegistryTypeOK
    <3>6. \A id \in ID : issued[id] # NoClass /\ ~Boundary(id) =>
               id < efClassCapacity' /\ efClassTable'[id] = issued[id]
      BY <3>4, RegistryAssumption DEF TableInv, RegistryTypeOK, ID
    <3>7. allocated' = TRUE
      BY DEF RegistryTypeOK
    <3> QED  BY <3>1, <3>2, <3>5, <3>6, <3>7
  <2>3. CASE KeepTable
    <3>1. allocated' = TRUE
      BY <2>3 DEF KeepTable, table, RegistryTypeOK
    <3> QED  BY <2>3, <3>1, RegistryAssumption DEF KeepTable, table, RegistryTypeOK, RoomInv, TableInv
  <2> QED  BY <2>1, <2>2, <2>3 DEF Extend
<1>3. RegistryTypeOK'
  <2>1. allocated' \in BOOLEAN
    BY <1>2
  <2> QED  BY <1>0, <1>2, <2>1 DEF RegistryTypeOK, InCritical
<1>4. RoomInv'
  <2>1. pc'[t] = "extended" /\ \A u \in Thread : pc'[u] # "numbered"
    BY <1>0, <1>1 DEF RegistryTypeOK
  <2>2. /\ typeID'[t] = efClassNext' /\ efClassNext' > Builtin
        /\ issued'[efClassNext'] = NoClass /\ class'[t] # NoClass
    BY <1>0 DEF RoomInv
  <2>3. \A u \in Thread : pc'[u] = "copied" => class'[u] # NoClass
    BY <1>0, <1>1, <2>1 DEF RoomInv
  <2>4. efClassNext' <= efClassCapacity' + 1 /\ efClassNext' <= efClassCapacity'
    BY <1>0, <1>2, RegistryAssumption DEF RegistryTypeOK
  <2>5. \A u \in Thread : u # t => pc'[u] \in {"idle", "copied"}
    BY <1>1
  <2> QED  BY <1>2, <2>1, <2>2, <2>3, <2>4, <2>5 DEF RoomInv
<1>5. TableInv'
  BY <1>0, <1>2 DEF TableInv
<1>6. LookupOK'
  BY <1>0 DEF LookupOK
<1> QED  BY <1>3, <1>4, <1>5, <1>6

\* Writing the entry issues the identifier and gives the mutex back.
LEMMA StorePreserves ==
  ASSUME RegistryInv, NEW t \in Thread, StoreClass(t)
  PROVE  RegistryInv' /\ issued[typeID[t]] = NoClass
<1> USE DEF RegistryInv
<1>0. PICK stored \in {class[t]} \cup (IF typeID[t] < efClassCapacity THEN {} ELSE {Garbage}) :
          efClassTable' = [efClassTable EXCEPT ![typeID[t]] = stored]
  BY DEF StoreClass
<1>1. /\ pc[t] = "extended" /\ pc' = [pc EXCEPT ![t] = "idle"]
      /\ issued' = [issued EXCEPT ![typeID[t]] = class[t]]
      /\ class' = [class EXCEPT ![t] = NoClass]
      /\ typeID' = [typeID EXCEPT ![t] = 0]
      /\ efClassLock' = Nobody
      /\ UNCHANGED <<allocated, efClassCapacity, efClassNext, found, stopped>>
  BY DEF StoreClass, Goto, Unlock
<1>2. /\ typeID[t] = efClassNext /\ efClassNext > Builtin /\ allocated
      /\ issued[efClassNext] = NoClass /\ class[t] # NoClass /\ efClassNext \in ID
  BY <1>1 DEF RoomInv, RegistryTypeOK
<1>3. \A u \in Thread \ {t} : pc[u] \in {"idle", "copied"} /\ pc'[u] = pc[u]
  BY <1>1, Alone DEF InCritical, RegistryTypeOK
<1>4. RegistryTypeOK'
  <2>1. stored \in Entry
    BY <1>1, RegistryAssumption DEF RegistryTypeOK, Entry
  <2>2. class[t] \in Class
    BY <1>2 DEF RegistryTypeOK
  <2>3. efClassTable' \in [ID -> Entry]
    BY <1>0, <2>1 DEF RegistryTypeOK
  <2>4. issued' \in [ID -> Class \cup {FoundationClass, NoClass}]
    BY <1>1, <2>2 DEF RegistryTypeOK
  <2> QED  BY <1>1, <2>3, <2>4, RegistryAssumption DEF RegistryTypeOK, InCritical, ID
<1>5. RoomInv'
  <2>1. \A u \in Thread : pc'[u] \in {"idle", "copied"}
    BY <1>1, <1>3 DEF RegistryTypeOK
  <2>2. \A u \in Thread : pc'[u] = "copied" => class'[u] # NoClass
    BY <1>1, <1>3 DEF RoomInv, RegistryTypeOK
  <2>3. /\ Builtin < efClassCapacity' /\ allocated'
        /\ efClassNext' <= efClassCapacity' + 1 /\ efClassNext' <= efClassCapacity'
        /\ \E k \in Nat : efClassCapacity' = k * Chunk
    BY <1>1, <1>2, <1>3 DEF RoomInv
  <2> QED  BY <2>1, <2>2, <2>3 DEF RoomInv
<1>6. TableInv'
  <2>1. ~Boundary(efClassNext) => efClassNext < efClassCapacity
    <3>1. efClassNext <= efClassCapacity
      BY <1>1, <1>2, <1>3 DEF RoomInv
    <3>2. efClassNext = efClassCapacity => Boundary(efClassNext)
      BY <1>2, CapacityIsBoundary
    <3> QED  BY <3>1, <3>2, RegistryAssumption DEF RegistryTypeOK
  <2>2. ~Boundary(efClassNext) => stored = class[t]
    BY <2>1, <1>2
  <2>3. \A id \in ID : issued'[id] # NoClass => id <= efClassNext'
    BY <1>1, <1>2, RegistryAssumption DEF TableInv, RegistryTypeOK
  <2>4. issued'[0] = NoClass /\ \A id \in 1..Builtin : issued'[id] = FoundationClass
    BY <1>1, <1>2, RegistryAssumption DEF TableInv, RegistryTypeOK, ID
  <2>5. \A id \in ID : issued'[id] # NoClass /\ ~Boundary(id) =>
            id < efClassCapacity' /\ efClassTable'[id] = issued'[id]
    BY <1>0, <1>1, <1>2, <2>1, <2>2 DEF TableInv, RegistryTypeOK
  <2> QED  BY <2>3, <2>4, <2>5 DEF TableInv
<1>7. LookupOK'
  BY <1>1 DEF LookupOK
<1> QED  BY <1>2, <1>4, <1>5, <1>6, <1>7

\* A lookup reads the entry of a registered identifier, or NULL.
LEMMA ReadPreserves ==
  ASSUME RegistryInv, NEW t \in Thread, ReadClass(t)
  PROVE  RegistryInv'
<1> USE DEF RegistryInv
<1>0. /\ pc[t] = "lookup" /\ pc' = [pc EXCEPT ![t] = "idle"]
      /\ typeID' = [typeID EXCEPT ![t] = 0]
      /\ efClassLock' = Nobody
      /\ UNCHANGED <<efClassNext, class, issued, stopped>>
  BY DEF ReadClass, Goto, Unlock
<1>1. \A u \in Thread \ {t} : pc[u] \in {"idle", "copied"} /\ pc'[u] = pc[u]
  BY <1>0, Alone DEF InCritical, RegistryTypeOK
<1>2. /\ efClassTable' \in [ID -> Entry] /\ efClassCapacity' \in Nat
      /\ \E k \in Nat : efClassCapacity' = k * Chunk
      /\ allocated' = TRUE /\ Builtin < efClassCapacity'
      /\ efClassNext <= efClassCapacity'
      /\ \A id \in ID : issued[id] # NoClass /\ ~Boundary(id) =>
               id < efClassCapacity' /\ efClassTable'[id] = issued[id]
  <2>0. \A u \in Thread : pc[u] # "numbered"
    BY <1>0, <1>1
  <2>1. CASE AllocateTable
    <3>1. \A id \in ID : issued[id] # NoClass =>
               id < efClassCapacity' /\ efClassTable'[id] = FoundationClass
      BY <2>1, <1>0, AllocatePreserves
    <3>2. \A id \in ID : issued[id] # NoClass => issued[id] = FoundationClass
      <4>1. efClassNext = Builtin
        BY <2>0, <2>1 DEF AllocateTable, RoomInv
      <4>2. \A id \in ID : issued[id] # NoClass => id \in 1..Builtin
        BY <4>1, RegistryAssumption DEF TableInv, ID
      <4> QED  BY <4>2 DEF TableInv
    <3> QED  BY <3>1, <3>2, <2>1, <1>0, AllocatePreserves
  <2>2. CASE allocated /\ UNCHANGED table
    <3>1. allocated' = TRUE
      BY <2>2 DEF table, RegistryTypeOK
    <3> QED  BY <2>0, <2>2, <3>1 DEF table, RegistryTypeOK, RoomInv, TableInv
  <2> QED  BY <2>1, <2>2 DEF ReadClass
<1>3. DEFINE r == [id |-> typeID[t],
                   class |-> IF typeID[t] > efClassNext THEN NoClass ELSE efClassTable'[typeID[t]],
                   issued |-> issued[typeID[t]]]
<1>4. found' = [found EXCEPT ![t] = r]
  BY DEF ReadClass
<1>5. RegistryTypeOK'
  <2>1. r \in [id : ID, class : Entry, issued : Entry]
    BY <1>2 DEF RegistryTypeOK, Entry
  <2>2. found' \in [Thread -> [id : ID, class : Entry, issued : Entry]]
    BY <1>4, <2>1 DEF RegistryTypeOK
  <2>3. allocated' \in BOOLEAN
    BY <1>2
  <2>4. \A u \in Thread : InCritical(u)' <=> efClassLock' = u
    BY <1>0, <1>1, RegistryAssumption DEF RegistryTypeOK, InCritical
  <2>5. /\ efClassLock' \in Thread \cup {Nobody}
        /\ typeID' \in [Thread -> ID]
        /\ pc' \in [Thread -> {"idle", "copied", "locked", "numbered", "extended", "lookup"}]
    BY <1>0, RegistryAssumption DEF RegistryTypeOK, ID
  <2> HIDE DEF r
  <2> QED  BY <1>0, <1>2, <2>2, <2>3, <2>4, <2>5 DEF RegistryTypeOK
<1>6. RoomInv'
  <2>1. \A u \in Thread : pc'[u] \in {"idle", "copied"}
    BY <1>0, <1>1 DEF RegistryTypeOK
  <2>2. \A u \in Thread : pc'[u] = "copied" => class'[u] # NoClass
    BY <1>0, <1>1 DEF RoomInv, RegistryTypeOK
  <2>3. efClassNext' <= efClassCapacity' + 1 /\ efClassNext' <= efClassCapacity'
    BY <1>0, <1>2, RegistryAssumption DEF RegistryTypeOK
  <2> QED  BY <1>2, <2>1, <2>2, <2>3 DEF RoomInv
<1>7. TableInv'
  BY <1>0, <1>2 DEF TableInv
<1>8. LookupOK'
  <2>1. typeID[t] \in ID
    BY DEF RegistryTypeOK
  <2>2. r.issued # NoClass /\ ~Boundary(r.id) => r.class = r.issued
    <3> SUFFICES ASSUME issued[typeID[t]] # NoClass, ~Boundary(typeID[t])
                 PROVE  r.class = issued[typeID[t]]
      OBVIOUS
    <3>1. ~(typeID[t] > efClassNext)
      BY <2>1, RegistryAssumption DEF TableInv, RegistryTypeOK, ID
    <3> QED  BY <3>1, <2>1, <1>2
  <2> HIDE DEF r
  <2> QED  BY <1>4, <2>2 DEF LookupOK, RegistryTypeOK
<1> QED  BY <1>5, <1>6, <1>7, <1>8

\* Every step of the specification preserves the invariant.
LEMMA NextRegistryInv == RegistryInv /\ [RegistryNext]_registryVars => RegistryInv'
<1> SUFFICES ASSUME RegistryInv, [RegistryNext]_registryVars PROVE RegistryInv'
  OBVIOUS
<1>1. CASE RegistryNext
  BY <1>1, QuietCallPreserves, TakeIDPreserves, ExtendPreserves, StorePreserves, ReadPreserves, Zenon
     DEF RegistryNext, Register, Critical
<1>2. CASE UNCHANGED registryVars
  <2>1. RegistryTypeOK'
    BY <1>2 DEF registryVars, table, RegistryInv, RegistryTypeOK, InCritical
  <2>2. RoomInv'
    BY <1>2 DEF registryVars, table, RegistryInv, RoomInv
  <2>3. TableInv' /\ LookupOK'
    BY <1>2 DEF registryVars, table, RegistryInv, TableInv, LookupOK
  <2> QED  BY <2>1, <2>2, <2>3 DEF RegistryInv
<1> QED  BY <1>1, <1>2

\* The inductive invariant holds in every reachable state of every execution.
THEOREM RegistryInvariance == RegistrySpec => []RegistryInv
<1> QED  BY InitRegistryInv, NextRegistryInv, PTL DEF RegistrySpec

\* The variables keep their types, and a thread is inside a critical section
\* exactly while it holds the mutex.
THEOREM RegistryTypeCorrect == RegistrySpec => []RegistryTypeOK
<1>1. RegistryInv => RegistryTypeOK
  BY DEF RegistryInv
<1> QED  BY <1>1, RegistryInvariance, PTL

\* For every number of classes and every chunk size, a lookup finds the class
\* registered under its identifier, identifiers at a chunk boundary excepted.
THEOREM LookupsAreExact == RegistrySpec => []LookupOK
<1>1. RegistryInv => LookupOK
  BY DEF RegistryInv
<1> QED  BY <1>1, RegistryInvariance, PTL

\* No identifier is given out twice, and none is taken away.
THEOREM IdentifiersAreIssuedOnce == RegistrySpec => IssuedOnce
<1>1. RegistryInv /\ [RegistryNext]_registryVars => [\A id \in ID : issued[id] # NoClass => issued'[id] = issued[id]]_registryVars
  <2> SUFFICES ASSUME RegistryInv, RegistryNext PROVE \A id \in ID : issued[id] # NoClass => issued'[id] = issued[id]
    OBVIOUS
  <2>1. CASE UNCHANGED issued
    BY <2>1
  <2>2. ASSUME NEW t \in Thread, StoreClass(t)
        PROVE  \A id \in ID : issued[id] # NoClass => issued'[id] = issued[id]
    BY <2>2, StorePreserves DEF StoreClass, RegistryInv, RegistryTypeOK
  <2>3. (\E t \in Thread : StoreClass(t)) \/ UNCHANGED issued
    BY DEF RegistryNext, Register, Critical, CopyClass, CopyFails, LockRegister, LockLookup, TakeID,
           Extend, ExtendFails, ReadClass, ReadClassFails
  <2> QED  BY <2>1, <2>2, <2>3
<1> QED  BY <1>1, RegistryInvariance, PTL DEF RegistrySpec, IssuedOnce
=============================================================================
