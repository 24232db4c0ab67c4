------------------------------ MODULE EFObject ------------------------------
(***************************************************************************)
(* The object runtime of EFRuntime/EFObject.c: objects with an atomic      *)
(* reference count, created by EFObjectCreate, shared by EFRetain and      *)
(* destroyed by the EFRelease that takes the count to zero.  Several       *)
(* threads run concurrently; every action is one atomic access of the      *)
(* counter, or one step of the destruction that follows the last release.  *)
(*                                                                         *)
(* An owning reference is a member of Ref: target[r] is the object it      *)
(* points to and holder[r] the thread whose variable, or the container     *)
(* object whose field, it is.  The code has only the counter; the model    *)
(* keeps both, so that the two can be compared.                            *)
(***************************************************************************)
EXTENDS Integers, FiniteSets, EFThreads

CONSTANTS Object,   \* addresses the allocator may hand out, and static objects
          Static,   \* objects whose _rt is kEFRootTypeStaticObject
          Ref       \* names of owning references; bounds how many exist at once

ASSUME DisjointAssumption ==
    /\ Thread \cap Object = {}
    /\ Static \subseteq Object
    /\ Nobody \notin Thread \cup Object

ASSUME RefAssumption == IsFiniteSet(Ref) /\ Nobody \notin Ref

VARIABLES mem,       \* mem[o]: "free", "live", or "dying" while its deinit runs
          refcount,  \* refcount[o], the counter in the object
          isMutable, \* isMutable[o]: o is a container that still accepts stores
          target,    \* target[r]: the object reference r owns
          holder,    \* holder[r]: the thread or container r belongs to
          borrowed,  \* borrowed[t]: the unretained pointer t took out of a container
          top,       \* top[t]: the object whose deinit t is running
          caller,    \* caller[o]: the object whose deinit made the last release of o
          aborted    \* EFRelease met a counter below one

vars == <<mem, refcount, isMutable, target, holder, borrowed, top, caller, aborted>>
frames == <<top, caller>>

NoBorrow == [via |-> Nobody, item |-> Nobody]

Init == /\ mem = [o \in Object |-> IF o \in Static THEN "live" ELSE "free"]
        /\ refcount = [o \in Object |-> 0]
        /\ isMutable = [o \in Object |-> FALSE]
        /\ target = [r \in Ref |-> Nobody]
        /\ holder = [r \in Ref |-> Nobody]
        /\ borrowed = [t \in Thread |-> NoBorrow]
        /\ top = [t \in Thread |-> Nobody]
        /\ caller = [o \in Object |-> Nobody]
        /\ aborted = FALSE

RefsTo(o) == {r \in Ref : target[r] = o}
Fields(o) == {r \in Ref : holder[r] = o}
Unused(r) == target[r] = Nobody

\* t runs code of its own, not the inside of an EFRelease.
Running(t) == top[t] = Nobody

\* No other thread and no container can reach c, the condition under which
\* the unlocked fields of a container may be written.
Exclusive(t, c) == \A r \in RefsTo(c) : holder[r] = t

(***************************************************************************)
(* Creating and retaining                                                  *)
(***************************************************************************)

NewRef(r, o, h) == /\ Unused(r)
                   /\ target' = [target EXCEPT ![r] = o]
                   /\ holder' = [holder EXCEPT ![r] = h]

\* A fetch_add whose result is lost.
IncrementLost(o) == UNCHANGED refcount

\* The atomic_fetch_add of EFRetain; a static object has no count.
Increment(o) == \/ o \in Static /\ UNCHANGED refcount
                \/ o \notin Static /\ refcount' = [refcount EXCEPT ![o] = @ + 1]

\* A failed allocation returns NULL and changes nothing.
EFObjectCreate(t, o, r) ==
    /\ Running(t)
    /\ mem[o] = "free"
    /\ mem' = [mem EXCEPT ![o] = "live"]
    /\ refcount' = [refcount EXCEPT ![o] = 1]
    /\ isMutable' = [isMutable EXCEPT ![o] = TRUE]
    /\ NewRef(r, o, t)
    /\ UNCHANGED <<borrowed, frames, aborted>>

\* t names a static object, which needs no creation.
UseStatic(t, o, r) ==
    /\ Running(t)
    /\ o \in Static
    /\ NewRef(r, o, t)
    /\ UNCHANGED <<mem, refcount, isMutable, borrowed, frames, aborted>>

EFRetain(t, r, n) ==
    /\ Running(t)
    /\ holder[r] = t
    /\ Increment(target[r])
    /\ NewRef(n, target[r], t)
    /\ UNCHANGED <<mem, isMutable, borrowed, frames, aborted>>

(***************************************************************************)
(* Unretained pointers: a getter such as EFArrayGetValueAtIndex returns    *)
(* the pointer stored in the container, and the caller may retain it later.*)
(***************************************************************************)

Borrow(t, r, x) ==
    /\ Running(t)
    /\ borrowed[t] = NoBorrow
    /\ holder[r] = t
    /\ holder[x] = target[r]
    /\ borrowed' = [borrowed EXCEPT ![t] = [via |-> r, item |-> x]]
    /\ UNCHANGED <<mem, refcount, isMutable, target, holder, frames, aborted>>

RetainBorrowed(t, n) ==
    /\ Running(t)
    /\ borrowed[t] # NoBorrow
    /\ Increment(target[borrowed[t].item])
    /\ NewRef(n, target[borrowed[t].item], t)
    /\ borrowed' = [borrowed EXCEPT ![t] = NoBorrow]
    /\ UNCHANGED <<mem, isMutable, frames, aborted>>

EndBorrow(t) ==
    /\ Running(t)
    /\ borrowed[t] # NoBorrow
    /\ borrowed' = [borrowed EXCEPT ![t] = NoBorrow]
    /\ UNCHANGED <<mem, refcount, isMutable, target, holder, frames, aborted>>

(***************************************************************************)
(* Containers and hand-over                                                *)
(***************************************************************************)

\* A container keeps an item: its retain callback runs and the pointer is
\* written into the container.
Store(t, k, r, n) ==
    /\ Running(t)
    /\ holder[k] = t /\ holder[r] = t
    /\ isMutable[target[k]] /\ Exclusive(t, target[k])
    /\ Increment(target[r])
    /\ NewRef(n, target[r], target[k])
    /\ UNCHANGED <<mem, isMutable, borrowed, frames, aborted>>

\* The creating functions turn the finished container immutable.
Freeze(t, k) ==
    /\ Running(t)
    /\ holder[k] = t
    /\ isMutable[target[k]] /\ Exclusive(t, target[k])
    /\ isMutable' = [isMutable EXCEPT ![target[k]] = FALSE]
    /\ UNCHANGED <<mem, refcount, target, holder, borrowed, frames, aborted>>

\* The pointer is handed on, but the sender's variable keeps owning it too.
TransferKeepsSource(t, r, u) ==
    /\ Running(t)
    /\ t # u
    /\ holder[r] = t /\ borrowed[t] = NoBorrow
    /\ \E n \in Ref : NewRef(n, target[r], u)
    /\ UNCHANGED <<mem, refcount, isMutable, borrowed, frames, aborted>>

\* A thread passes an owned pointer on (EFAUTOTRANSFER, a queue, a thread start).
Transfer(t, r, u) ==
    /\ Running(t)
    /\ t # u
    /\ holder[r] = t /\ borrowed[t] = NoBorrow
    /\ holder' = [holder EXCEPT ![r] = u]
    /\ UNCHANGED <<mem, refcount, isMutable, target, borrowed, frames, aborted>>

(***************************************************************************)
(* Releasing and destroying                                                *)
(***************************************************************************)

\* A release that destroys the object one reference too early.
DecrementEarly(t, x) ==
    LET o == target[x] IN
    /\ o \notin Static
    /\ target' = [target EXCEPT ![x] = Nobody]
    /\ holder' = [holder EXCEPT ![x] = Nobody]
    /\ refcount' = [refcount EXCEPT ![o] = @ - 1]
    /\ IF refcount[o] = 2
          THEN /\ mem' = [mem EXCEPT ![o] = "dying"]
               /\ top' = [top EXCEPT ![t] = o]
               /\ caller' = [caller EXCEPT ![o] = top[t]]
          ELSE UNCHANGED <<mem, frames>>
    /\ UNCHANGED aborted

\* EFRelease up to the end of its atomic_fetch_sub: thread t gives up
\* reference x.  The release that sees 1 enters the deinit of the object.
Decrement(t, x) ==
    LET o == target[x] IN
    /\ target' = [target EXCEPT ![x] = Nobody]
    /\ holder' = [holder EXCEPT ![x] = Nobody]
    /\ \/ /\ o \in Static
          /\ UNCHANGED <<mem, refcount, frames, aborted>>
       \/ /\ o \notin Static
          /\ refcount[o] = 1
          /\ refcount' = [refcount EXCEPT ![o] = @ - 1]
          /\ mem' = [mem EXCEPT ![o] = "dying"]
          /\ top' = [top EXCEPT ![t] = o]
          /\ caller' = [caller EXCEPT ![o] = top[t]]
          /\ UNCHANGED aborted
       \/ /\ o \notin Static
          /\ refcount[o] # 1
          /\ refcount' = [refcount EXCEPT ![o] = @ - 1]
          /\ aborted' = (refcount[o] <= 0)
          /\ UNCHANGED <<mem, frames>>

\* A client releases a pointer it owns, or its EFAUTOREL variable goes out of scope.
EFRelease(t, r) ==
    /\ Running(t)
    /\ holder[r] = t /\ borrowed[t] = NoBorrow
    /\ Decrement(t, r)
    /\ UNCHANGED <<isMutable, borrowed>>

\* An item is dropped from a container that others can read.
RemoveShared(t, k, x) ==
    /\ Running(t)
    /\ holder[k] = t /\ borrowed[t] = NoBorrow
    /\ holder[x] = target[k]
    /\ Decrement(t, x)
    /\ UNCHANGED <<isMutable, borrowed>>

\* A mutable container drops an item through its release callback.
Remove(t, k, x) ==
    /\ Running(t)
    /\ holder[k] = t /\ borrowed[t] = NoBorrow
    /\ isMutable[target[k]] /\ Exclusive(t, target[k])
    /\ holder[x] = target[k]
    /\ Decrement(t, x)
    /\ UNCHANGED <<isMutable, borrowed>>

\* class->deinit(ref) of the dying object releases the next field it holds.
DeinitField(t, x) ==
    /\ ~Running(t)
    /\ holder[x] = top[t]
    /\ Decrement(t, x)
    /\ UNCHANGED <<isMutable, borrowed>>

\* A deinit that forgets to release the fields of its object.
DeallocateWithFields(t) ==
    /\ ~Running(t)
    /\ mem' = [mem EXCEPT ![top[t]] = "free"]
    /\ isMutable' = [isMutable EXCEPT ![top[t]] = FALSE]
    /\ top' = [top EXCEPT ![t] = caller[top[t]]]
    /\ caller' = [caller EXCEPT ![top[t]] = Nobody]
    /\ UNCHANGED <<refcount, target, holder, borrowed, aborted>>

\* An inner release that does not return to the deinit that made it.
DeallocateNoReturn(t) ==
    /\ ~Running(t)
    /\ Fields(top[t]) = {}
    /\ mem' = [mem EXCEPT ![top[t]] = "free"]
    /\ isMutable' = [isMutable EXCEPT ![top[t]] = FALSE]
    /\ top' = [top EXCEPT ![t] = Nobody]
    /\ caller' = [caller EXCEPT ![top[t]] = Nobody]
    /\ UNCHANGED <<refcount, target, holder, borrowed, aborted>>

\* deinit has returned: the memory goes back and EFRelease returns to its caller.
EFAllocatorDeallocate(t) ==
    /\ ~Running(t)
    /\ Fields(top[t]) = {}
    /\ mem' = [mem EXCEPT ![top[t]] = "free"]
    /\ isMutable' = [isMutable EXCEPT ![top[t]] = FALSE]
    /\ top' = [top EXCEPT ![t] = caller[top[t]]]
    /\ caller' = [caller EXCEPT ![top[t]] = Nobody]
    /\ UNCHANGED <<refcount, target, holder, borrowed, aborted>>

(***************************************************************************)
(* The specification                                                       *)
(***************************************************************************)

Destroying(t) == \/ \E x \in Ref : DeinitField(t, x)
                 \/ EFAllocatorDeallocate(t)

Client(t) == \/ \E o \in Object, r \in Ref : EFObjectCreate(t, o, r)
             \/ \E o \in Object, r \in Ref : UseStatic(t, o, r)
             \/ \E r, n \in Ref : EFRetain(t, r, n)
             \/ \E r, x \in Ref : Borrow(t, r, x)
             \/ \E n \in Ref : RetainBorrowed(t, n)
             \/ EndBorrow(t)
             \/ \E k, r, n \in Ref : Store(t, k, r, n)
             \/ \E k \in Ref : Freeze(t, k)
             \/ \E r \in Ref, u \in Thread : Transfer(t, r, u)
             \/ \E r \in Ref : EFRelease(t, r)
             \/ \E k, x \in Ref : Remove(t, k, x)

\* abort() ends the process.
Next == ~aborted /\ \E t \in Thread : Client(t) \/ Destroying(t)

Spec == Init /\ [][Next]_vars

\* A thread inside EFRelease keeps running; what a client calls next is its own affair.
FairSpec == Spec /\ \A t \in Thread : WF_vars(Destroying(t))

(***************************************************************************)
(* Properties                                                              *)
(***************************************************************************)

TypeOK == /\ mem \in [Object -> {"free", "live", "dying"}]
          /\ refcount \in [Object -> Int]
          /\ isMutable \in [Object -> BOOLEAN]
          /\ target \in [Ref -> Object \cup {Nobody}]
          /\ holder \in [Ref -> Thread \cup Object \cup {Nobody}]
          /\ borrowed \in [Thread -> [via : Ref, item : Ref] \cup {NoBorrow}]
          /\ top \in [Thread -> Object \cup {Nobody}]
          /\ caller \in [Object -> Object \cup {Nobody}]
          /\ aborted \in BOOLEAN
          /\ \A r \in Ref : target[r] = Nobody <=> holder[r] = Nobody

\* The counter of a live object is the number of references that own it, and
\* is never zero: no reference is lost by a race, none is counted twice, and an
\* object that nobody owns is not left behind (EFRetain, EFRelease).
CountOK == \A o \in Object \ Static :
               mem[o] = "live" => /\ refcount[o] = Cardinality(RefsTo(o))
                                  /\ refcount[o] > 0

\* Every owning reference, in a thread or in a container, points to an object
\* whose deinit has not begun, and belongs to a container that still exists.
NoDangling == \A r \in Ref :
                  target[r] # Nobody =>
                      /\ mem[target[r]] = "live"
                      /\ holder[r] \in Object => mem[holder[r]] # "free"

\* A pointer taken out of a container without a retain stays valid as long as
\* the borrower keeps the container: whatever other threads do meanwhile, the
\* retain that may follow finds a live object (EFArrayGetValueAtIndex, EFRetain).
BorrowSafe == \A t \in Thread :
                  borrowed[t] # NoBorrow => /\ target[borrowed[t].item] # Nobody
                                            /\ mem[target[borrowed[t].item]] = "live"

\* Exactly one activation of EFRelease destroys a dying object: it is the top
\* of one thread's chain of nested releases or is waiting for one inner
\* release to return, never both and never twice.
OneDestroyer ==
    \A o \in Object : mem[o] = "dying" =>
        Cardinality({t \in Thread : top[t] = o} \cup {p \in Object : caller[p] = o}) = 1

\* Threads that release only what they own never meet the underflow abort.
NoUnderflow == ~aborted

\* An object whose last reference is gone is given back to its allocator,
\* however deep the chain of objects its deinit releases (EFRelease).
DyingIsFreed == \A o \in Object : mem[o] = "dying" ~> mem[o] = "free"

\* The counting runtime implements the ownership contract: an object is
\* allocated while it has an owner and is reclaimed after the last one.
Lifetime == INSTANCE EFLifetime WITH
                alive <- [o \in Object |-> mem[o] # "free"],
                owners <- [o \in Object |-> RefsTo(o)]
ImplementsLifetime == Lifetime!Spec
=============================================================================
