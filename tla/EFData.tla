------------------------------- MODULE EFData -------------------------------
(***************************************************************************)
(* Data objects of EFData.c over the memory they own, share or show:       *)
(* mutable ones have a block of their own that resizing moves, copies have *)
(* their bytes inside their object, and views show a block of somebody     *)
(* else: of the client, of a mapping of EFMapping.c or of a malloc block   *)
(* of EFMallocBlock.c.  Memory is made of blocks, and the memory of an     *)
(* object that has its bytes inside counts as one.                         *)
(*                                                                         *)
(* The client keeps the contracts of the interface: it neither frees nor   *)
(* releases nor resizes what a view shows, and it drops a pointer into a   *)
(* mutable object when a call has changed the length of that object.       *)
(* Calls are not concurrent.  A failed allocation is a call without        *)
(* effect.                                                                 *)
(*                                                                         *)
(* One call leaves an object behind that breaks the memory: a C library    *)
(* may free a block that is resized to nothing and answer NULL, and        *)
(* EFDataSetLength(d, 0) then keeps the pointer to the freed block.  The   *)
(* next use of d, its release included, is undefined, and a behaviour of   *)
(* this specification ends with it.                                        *)
(***************************************************************************)
EXTENDS Integers, Sequences

CONSTANTS Data,       \* data objects
          Byte,       \* bytes other than zero that clients write
          Block,      \* the blocks that can be alive at once
          FreesEmpty, \* whether realloc frees a block resized to nothing and answers NULL
          MaxLength   \* bound on the length of a block

ASSUME DataAssumption == /\ MaxLength \in Nat /\ FreesEmpty \in BOOLEAN
                         /\ Byte \cap {"0", "?", "dead", "gone", "lost"} = {}

VARIABLES heap,      \* heap[b]: the cells of block b, or Dead
          data,      \* data[d]: the fields of d, or Gone, and whether realloc has freed its block
          mapping,   \* the fields of the mapping, or Gone
          holder,    \* the malloc block and what its callback frees, or Gone
          client,    \* blocks that the client has to free
          pointer,   \* the pointer that the client keeps: [of, at], or None
          undefined  \* whether an object was used or released again whose block realloc had freed

vars == <<heap, data, mapping, holder, client, pointer, undefined>>

Dead == <<"dead">>
Gone == <<>>
None == <<>>
Cell == Byte \cup {"0", "?"}

Zeros(n) == [i \in 1..n |-> "0"]

Init == /\ heap = [b \in Block |-> Dead]
        /\ data = [d \in Data |-> Gone]
        /\ mapping = Gone /\ holder = Gone
        /\ client = {} /\ pointer = None
        /\ undefined = FALSE

Live == {b \in Block : heap[b] # Dead}
Usable(d) == data[d] # Gone /\ ~data[d].freed
Mutable(d) == Usable(d) /\ data[d].isMutable
Viewing(d) == Usable(d) /\ ~data[d].isMutable /\ ~data[d].isInlined
Shown == {data[d].buffer : d \in {e \in Data : Viewing(e)}}

\* malloc, mmap and realloc give a block that is free.
Fresh == Block \ Live

Contents(d) == SubSeq(heap[data[d].buffer], 1, data[d].length)

(***************************************************************************)
(* Creation.                                                               *)
(***************************************************************************)

\* __EFDataCreate of an object that gets a block with the cells t, in its own
\* object or allocated for it.
Owning(d, t, mutable) ==
    /\ data[d] = Gone
    /\ \E b \in Fresh :
        /\ heap' = [heap EXCEPT ![b] = t]
        /\ data' = [data EXCEPT ![d] = [buffer |-> b, length |-> Len(t), isMutable |-> mutable,
                                        isInlined |-> ~mutable, freed |-> FALSE]]
    /\ UNCHANGED <<mapping, holder, client, pointer>>

EFDataCreateWithBuffer(d, b, n) == b \in Live /\ n <= Len(heap[b]) /\ Owning(d, SubSeq(heap[b], 1, n), FALSE)

EFDataCreateMutable(d, n) == Owning(d, Zeros(n), TRUE)

EFDataCreateCopy(d, e) == Usable(e) /\ Owning(d, Contents(e), FALSE)

EFDataCreateMutableCopy(d, e) == Usable(e) /\ Owning(d, Contents(e), TRUE)

\* The block may be one that the client, the mapping or the malloc block has.
EFDataCreateWithBufferNoCopy(d, b, n) ==
    /\ data[d] = Gone
    /\ b \in Live /\ n <= Len(heap[b])
    /\ \A e \in Data : Usable(e) /\ data[e].buffer = b => Viewing(e)
    /\ data' = [data EXCEPT ![d] = [buffer |-> b, length |-> n, isMutable |-> FALSE,
                                    isInlined |-> FALSE, freed |-> FALSE]]
    /\ UNCHANGED <<heap, mapping, holder, client, pointer>>

\* A bug: the deinit frees what the object shows.
FreedAlways(d) == {data[d].buffer}

\* EFRelease of the last reference: __EFDataDeinit frees the buffer of a mutable
\* object, and the bytes of an inlined one go with the object.  The buffer of an
\* object whose block realloc has freed is freed again, whoever has it by now.
FreedWith(d) == IF data[d].isMutable \/ data[d].isInlined THEN {data[d].buffer} ELSE {}

Release(d) ==
    /\ data[d] # Gone
    /\ undefined' = data[d].freed
    /\ heap' = [b \in Block |-> IF b \in FreedWith(d) THEN Dead ELSE heap[b]]
    /\ data' = [data EXCEPT ![d] = Gone]
    /\ pointer' = IF pointer # None /\ pointer.of = d THEN None ELSE pointer
    /\ UNCHANGED <<mapping, holder, client>>

\* A call that reads, copies, shows or resizes the block that realloc has freed.
UseFreed(d) == /\ data[d] # Gone /\ data[d].freed
               /\ undefined' = TRUE
               /\ UNCHANGED <<heap, data, mapping, holder, client, pointer>>

(***************************************************************************)
(* Resizing.  realloc gives the block back where it was or moves it; the   *)
(* C library that frees a block resized to nothing gives NULL for it, and  *)
(* the call fails while the object keeps the pointer.                      *)
(***************************************************************************)

\* The heaps and the buffers that EFAllocatorReallocate can leave for d; the
\* cells it adds are undefined.
Reallocated(d, n) ==
    LET b == data[d].buffer
        cells == [i \in 1..n |-> IF i \in DOMAIN heap[b] THEN heap[b][i] ELSE "?"]
    IN  {[heap |-> [heap EXCEPT ![b] = cells], buffer |-> b, freed |-> FALSE]}
        \cup {[heap |-> [heap EXCEPT ![b] = Dead, ![f] = cells], buffer |-> f, freed |-> FALSE] : f \in Fresh}
        \cup (IF n = 0 /\ FreesEmpty THEN {[heap |-> [heap EXCEPT ![b] = Dead], buffer |-> b, freed |-> TRUE]}
                                      ELSE {})

\* A bug: the cells that realloc adds are left as it gives them.
LeftAsIs(t, n) == t

\* The cells behind length n are set to zero.
Cleared(t, n) == [i \in DOMAIN t |-> IF i > n THEN "0" ELSE t[i]]

\* A bug: the block is reallocated also when the length stays.
ResizedAlways(d, n) ==
    {IF r.freed THEN r
     ELSE [r EXCEPT !.heap[r.buffer] = Cleared(@, data[d].length)] : r \in Reallocated(d, n)}

\* What EFDataSetLength can leave: no length to change leaves all as it was.
Resized(d, n) ==
    IF data[d].length = n THEN {[heap |-> heap, buffer |-> data[d].buffer, freed |-> FALSE]}
    ELSE {IF r.freed THEN r
          ELSE [r EXCEPT !.heap[r.buffer] = Cleared(@, data[d].length)] : r \in Reallocated(d, n)}

\* d has the buffer and the length that a call has left.  Nothing is assigned to
\* an object whose block realloc has freed: it keeps the pointer and the length.
\* The client drops its pointer when another length was asked for, also when
\* the call has failed.
Settle(d, r, n) ==
    /\ data' = [data EXCEPT ![d].buffer = r.buffer, ![d].freed = r.freed,
                            ![d].length = IF r.freed THEN @ ELSE n]
    /\ pointer' = IF pointer # None /\ pointer.of = d /\ data[d].length # n THEN None ELSE pointer
    /\ UNCHANGED <<mapping, holder, client>>

EFDataSetLength(d, n) ==
    /\ Mutable(d)
    /\ \E r \in Resized(d, n) : heap' = r.heap /\ Settle(d, r, n)

EFDataIncreaseLength(d, extra) == /\ Mutable(d) /\ data[d].length + extra <= MaxLength
                                  /\ EFDataSetLength(d, data[d].length + extra)

\* EFDataIncreaseLength, and n cells of block b copied behind the cells of d.  When b is the block of
\* d itself and realloc has moved it, they are read from freed memory.
EFDataAppendBuffer(d, b, n) ==
    /\ Mutable(d) /\ b \in Live /\ n <= Len(heap[b])
    /\ LET len == data[d].length IN
       /\ len + n <= MaxLength
       /\ \E r \in Resized(d, len + n) :
           /\ heap' = [r.heap EXCEPT ![r.buffer] = [i \in 1..len + n |->
                 IF i <= len THEN @[i] ELSE IF r.heap[b] = Dead THEN "?" ELSE r.heap[b][i - len]]]
           /\ Settle(d, r, len + n)

(***************************************************************************)
(* The memory that clients write.                                          *)
(***************************************************************************)

EFDataGetMutablePtr(d) == /\ Mutable(d)
                          /\ pointer' = [of |-> d, at |-> data[d].buffer]
                          /\ UNCHANGED <<heap, data, mapping, holder, client>>

\* Clients write the first cell; copies carry it to others.
Poke(b, c) == /\ heap[b] # <<>>
              /\ heap' = [heap EXCEPT ![b][1] = c]
              /\ UNCHANGED <<data, mapping, holder, client, pointer>>

WriteThroughPointer(c) == /\ pointer # None /\ pointer.at \in Live
                          /\ Poke(pointer.at, c)

\* Blocks that are the client's to write: its own, and those of its objects.
Writable == client \cup (IF mapping # Gone /\ mapping.unmap THEN {mapping.addr} ELSE {})
                   \cup (IF holder # Gone THEN {holder.memory} ELSE {})

ClientWrites(b, c) == b \in Writable /\ Poke(b, c)

\* The range is inside the data; the bytes go to the start of a block of the client.
EFDataCopyRangeToBuffer(d, location, n, b) ==
    /\ Usable(d) /\ data[d].length >= location /\ data[d].length >= location + n
    /\ b \in client \ {data[d].buffer} /\ n <= Len(heap[b])
    /\ heap' = [heap EXCEPT ![b] = [i \in DOMAIN @ |-> IF i <= n THEN heap[data[d].buffer][location + i] ELSE @[i]]]
    /\ UNCHANGED <<data, mapping, holder, client, pointer>>

\* Memory that data objects do not allocate is MaxLength cells long.
ClientAllocates(b) == /\ b \in Fresh
                      /\ heap' = [heap EXCEPT ![b] = Zeros(MaxLength)]
                      /\ client' = client \cup {b}
                      /\ UNCHANGED <<data, mapping, holder, pointer>>

ClientFrees(b) == /\ b \in client \ Shown
                  /\ heap' = [heap EXCEPT ![b] = Dead]
                  /\ client' = client \ {b}
                  /\ UNCHANGED <<data, mapping, holder, pointer>>

(***************************************************************************)
(* EFMapping.c and EFMallocBlock.c.                                        *)
(***************************************************************************)

\* A bound: one object of these two at a time.
NoObject == mapping = Gone /\ holder = Gone

EFMappingCreate(b) == /\ NoObject /\ b \in Fresh
                      /\ heap' = [heap EXCEPT ![b] = Zeros(MaxLength)]
                      /\ mapping' = [addr |-> b, unmap |-> TRUE]
                      /\ UNCHANGED <<data, holder, client, pointer>>

\* The client takes the pages over.
EFMappingDisableUnmap == /\ mapping # Gone /\ mapping.unmap
                         /\ mapping' = [mapping EXCEPT !.unmap = FALSE]
                         /\ client' = client \cup {mapping.addr}
                         /\ UNCHANGED <<heap, data, holder, pointer>>

\* __EFMappingDeinit
ReleaseMapping == /\ mapping # Gone /\ (mapping.unmap => mapping.addr \notin Shown)
                  /\ heap' = IF mapping.unmap THEN [heap EXCEPT ![mapping.addr] = Dead] ELSE heap
                  /\ mapping' = Gone
                  /\ UNCHANGED <<data, holder, client, pointer>>

\* The client gives a block of its own to the callback of the malloc block.
EFMallocBlockCreateWithDeinitHandler(b, c) ==
    /\ NoObject /\ b \in Fresh
    /\ c \in client
    /\ heap' = [heap EXCEPT ![b] = Zeros(MaxLength)]
    /\ holder' = [memory |-> b, callback |-> c]
    /\ client' = client \ {c}
    /\ UNCHANGED <<data, mapping, pointer>>

\* __EFMallocBlockDeinit, which calls the client back, and the memory.
ReleaseMallocBlock ==
    /\ holder # Gone /\ {holder.memory, holder.callback} \cap Shown = {}
    /\ heap' = [heap EXCEPT ![holder.memory] = Dead, ![holder.callback] = Dead]
    /\ holder' = Gone
    /\ UNCHANGED <<data, mapping, client, pointer>>

(***************************************************************************)
(* The specification.                                                      *)
(***************************************************************************)

Length == 0..MaxLength

Calls ==
    \/ \E d \in Data, b \in Block, n \in Length :
          \/ EFDataCreateWithBuffer(d, b, n) \/ EFDataCreateWithBufferNoCopy(d, b, n)
          \/ EFDataAppendBuffer(d, b, n)
          \/ \E location \in Length : EFDataCopyRangeToBuffer(d, location, n, b)
    \/ \E d \in Data, n \in Length : EFDataCreateMutable(d, n) \/ EFDataSetLength(d, n) \/ EFDataIncreaseLength(d, n)
    \/ \E d, e \in Data : EFDataCreateCopy(d, e) \/ EFDataCreateMutableCopy(d, e)
    \/ \E d \in Data : EFDataGetMutablePtr(d)
    \/ \E c \in Byte : WriteThroughPointer(c) \/ \E b \in Block : ClientWrites(b, c)
    \/ \E b \in Block : ClientAllocates(b) \/ ClientFrees(b) \/ EFMappingCreate(b)
    \/ \E b, c \in Block : EFMallocBlockCreateWithDeinitHandler(b, c)
    \/ EFMappingDisableUnmap \/ ReleaseMapping \/ ReleaseMallocBlock

Next ==
    /\ ~undefined
    /\ \/ Calls /\ UNCHANGED undefined
       \/ \E d \in Data : Release(d) \/ UseFreed(d)

Spec == Init /\ [][Next]_vars

(***************************************************************************)
(* Properties.                                                             *)
(***************************************************************************)

\* Who has to free block b: not an object whose block is freed already.
Owners(b) == {<<"data", d>> : d \in {e \in Data : /\ Usable(e) /\ data[e].buffer = b
                                                /\ (data[e].isMutable \/ data[e].isInlined)}}
             \cup (IF b \in client THEN {<<"client">>} ELSE {})
             \cup (IF mapping # Gone /\ mapping.unmap /\ mapping.addr = b THEN {<<"mapping">>} ELSE {})
             \cup (IF holder # Gone /\ holder.memory = b THEN {<<"memory">>} ELSE {})
             \cup (IF holder # Gone /\ holder.callback = b THEN {<<"callback">>} ELSE {})

\* Every live block has exactly one who has to free it, and a dead one nobody:
\* the client, the mapping until its client takes the pages over, the malloc
\* block (its own memory and what its callback was given), or the one data
\* object whose buffer it is.  So copies, views, resizes that move and releases
\* in any order free no block twice, leak none and free none that they only
\* show, as long as the client does not touch an object again that
\* EFDataSetLength(d, 0) has failed on: its release is undefined, see
\* MutableDeallocatable.
OneOwner ==
    ~undefined =>
    \A b \in Block : IF heap[b] = Dead THEN Owners(b) = {}
                     ELSE \E o \in Owners(b) : Owners(b) = {o}

\* A pointer that the client took from EFDataGetMutablePtr points to the bytes
\* of its object as long as no call has asked for another length: a call that
\* asks for the length there is does not move the buffer.  The pointer ends
\* with every other resize, a failing EFDataSetLength(d, 0) included.
PointerValid ==
    ~undefined /\ pointer # None => /\ Usable(pointer.of)
                                    /\ pointer.at = data[pointer.of].buffer

\* What EFData.c:39 says of the buffer: "it is neither inlined nor
\* undeallocatable if mutable".  EFDataSetLength(d, 0) leaves a mutable object
\* with a buffer that realloc has freed, which its deinit frees again.
MutableDeallocatable ==
    \A d \in Data : data[d] # Gone /\ data[d].isMutable => ~data[d].isInlined /\ data[d].buffer \in Live

\* What clients can pass: the cells at the start of a block.
Readable == {SubSeq(heap[p[1]], 1, p[2]) : p \in {q \in Live \X Length : q[2] <= Len(heap[q[1]])}}

\* The cells of d and how it has them, as EFBytes sees them; nothing is known of
\* any object once freed memory was used.
NoValue == <<"gone">>
LostValue == <<"lost">>
Value(d) == IF undefined THEN LostValue
            ELSE IF data[d] = Gone THEN NoValue ELSE IF Usable(d) THEN Contents(d) ELSE LostValue

Kind(d) == IF undefined \/ data[d] = Gone THEN "none"
           ELSE IF data[d].isMutable THEN "mutable" ELSE IF data[d].isInlined THEN "copy" ELSE "view"

Bytes == INSTANCE EFBytes WITH value <- [d \in Data |-> Value(d)],
                               kind <- [d \in Data |-> Kind(d)],
                               readable <- Readable

\* Data objects are what EFBytes says: copies keep their bytes whatever happens
\* to their source, mutable ones have exactly the bytes that were set, appended
\* or zeroed, through every move of their buffer, and views show the memory
\* they were made of.  EFBytes names what is kept less: an object that was made
\* empty may be lost, and its next use may lose all; an object's own bytes
\* appended to it may arrive as others.
ImplementsBytes == Bytes!Spec
=============================================================================
