------------------------- MODULE EFFileHandleProofs -------------------------
(***************************************************************************)
(* Proofs about EFFileHandle for any number of threads, handles and        *)
(* descriptions, any size of the descriptor table and any file length.     *)
(*                                                                         *)
(* Ownership of descriptors is inductive once it is known that a call that *)
(* works through a handle keeps the handle alive (CallsHold).  The cursor  *)
(* needs more: where a range read is between its seek and its restore      *)
(* (RangeInv), and that it has its description to itself (Apart), which is *)
(* what the callers have to see to: "range" \in Serial.                    *)
(***************************************************************************)
EXTENDS EFFileHandle, EFBitWalker, TLAPS, SequenceTheorems, FiniteSetTheorems

Calls == {Idle}
         \cup [kind : {"open"}, pc : {"dup", "close"}, fd : Fd]
         \cup [kind : {"open"}, pc : {"create"}, fd : Fd, dup : Fd]
         \cup [kind : {"move"}, pc : {"read"}, handle : Handle, length : Lengths]
         \cup [kind : {"range"}, pc : {"seek", "read", "restore"}, handle : Handle, location : Locations,
               length : Lengths, backup : Nat, from : Nat, got : Int]

TypeOK == /\ table \in [Fd -> Desc \cup {Unused}]
          /\ mode \in [Desc -> Modes \cup {"rw"}]
          /\ pos \in [Desc -> Nat]
          /\ size \in Nat
          /\ fdOf \in [Handle -> Fd \cup {Closed}]
          /\ call \in [Thread -> Calls]
          /\ leaked \subseteq Fd
          /\ home \in [Desc -> Nat]
          /\ crashed \in BOOLEAN

Through(t) == call[t].kind \in {"move", "range"}
Ranging(t) == call[t].kind = "range"
On(t) == DescOf(call[t].handle)

\* A thread inside a call on a handle keeps the handle, and the two descriptors
\* of a creation are different ones.
CallsHold == \A t \in Thread :
                /\ Through(t) => Exists(call[t].handle)
                /\ call[t].kind = "open" /\ call[t].pc = "create" => call[t].fd # call[t].dup

\* The parts of OneOwner.
OwnedIsOpen == \A f \in Fd : table[f] # Unused <=> \/ \E h \in Handle : fdOf[h] = f
                                                   \/ \E t \in Thread : f \in InCall(t)
                                                   \/ f \in leaked
HandleOwns == \A h \in Handle : Exists(h) => /\ \A g \in Handle \ {h} : fdOf[g] # fdOf[h]
                                             /\ \A t \in Thread : fdOf[h] \notin InCall(t)
                                             /\ fdOf[h] \notin leaked
CallOwns == \A t \in Thread : /\ InCall(t) \cap leaked = {}
                              /\ \A u \in Thread \ {t} : InCall(t) \cap InCall(u) = {}

OwnerInv == TypeOK /\ CallsHold /\ OneOwner

\* A range read has its description to itself.
Apart == \A t, u \in Thread : t # u /\ Ranging(t) /\ Through(u) => On(t) # On(u)

\* What a range read knows of the cursor before, between and after its system calls.
Restorable(t) ==
    /\ call[t].backup = home[On(t)]
    /\ call[t].pc = "seek" => call[t].got = -1
    /\ call[t].pc = "read" => /\ call[t].got = -1
                              /\ call[t].location # -1 => pos[On(t)] = call[t].location
    /\ call[t].pc = "restore" /\ call[t].got # -1 /\ call[t].location # -1
          => call[t].from = call[t].location /\ call[t].got = call[t].length
RangeInv == \A t \in Thread : Ranging(t) => Restorable(t)

\* The cursor of a description no range read is working on.
HomeInv == \A d \in Desc : (\A t \in Thread : Ranging(t) => On(t) # d) => pos[d] = home[d]

CursorInv == OwnerInv /\ Apart /\ RangeInv /\ HomeInv

(***************************************************************************)
(* Descriptor numbers                                                      *)
(***************************************************************************)

\* A set of naturals that is not empty has a least element.
LEMMA LeastExists ==
  ASSUME NEW S \in SUBSET Nat, S # {}
  PROVE  Least(S) \in S /\ \A y \in S : Least(S) <= y
<1> DEFINE R == StrictSubsetOrdering(Nat)
           T == {0..x : x \in S}
<1>1. IsWellFoundedOn(R, FiniteSubsetsOf(Nat))
  BY FS_StrictSubsetOrderingWellFounded
<1>2. T \subseteq FiniteSubsetsOf(Nat) /\ T # {}
  <2>1. ASSUME NEW x \in S PROVE 0..x \in FiniteSubsetsOf(Nat)
    <3>1. IsFiniteSet(0..x)
      BY FS_Interval
    <3> QED  BY <3>1 DEF FiniteSubsetsOf
  <2> QED  BY <2>1
<1>3. \E X \in T : \A Y \in T : <<Y, X>> \notin R
  <2> HIDE DEF R, T
  <2> QED  BY <1>1, <1>2, WFMin
<1>4. PICK x \in S : \A y \in S : <<0..y, 0..x>> \notin R
  BY <1>3
<1>5. ASSUME NEW y \in S PROVE x <= y
  <2> SUFFICES ASSUME y < x PROVE FALSE  OBVIOUS
  <2>1. 0..y \subseteq 0..x /\ x \in 0..x /\ x \notin 0..y /\ 0..y \subseteq Nat /\ 0..x \subseteq Nat
    OBVIOUS
  <2> QED  BY <2>1, <1>4 DEF StrictSubsetOrdering
<1> QED  BY <1>5 DEF Least

\* The number that open and dup give is free.
LEMMA LeastFree ==
  ASSUME FreeFds # {}
  PROVE  Least(FreeFds) \in Fd /\ table[Least(FreeFds)] = Unused
<1>1. FreeFds \in SUBSET Nat
  BY FileHandleAssumption DEF FreeFds, Fd
<1>2. Least(FreeFds) \in FreeFds
  BY <1>1, LeastExists
<1> QED  BY <1>2 DEF FreeFds

\* A handle that exists has a descriptor that stands for a description.
LEMMA HandleOpen ==
  ASSUME OwnerInv, NEW h \in Handle, Exists(h)
  PROVE  fdOf[h] \in Fd /\ DescOf(h) \in Desc
<1>1. fdOf[h] \in Fd
  BY DEF OwnerInv, TypeOK, Exists
<1>2. table[fdOf[h]] # Unused
  BY <1>1 DEF OwnerInv, OneOwner
<1> QED  BY <1>1, <1>2 DEF OwnerInv, TypeOK, DescOf

\* What a call under way is made of.
LEMMA CallShape ==
  ASSUME TypeOK, NEW t \in Thread
  PROVE  /\ call[t].kind \in {"none", "open", "move", "range"}
         /\ call[t].kind = "none" <=> call[t] = Idle
         /\ call[t].kind = "open" => /\ call[t].pc \in {"dup", "create", "close"} /\ call[t].fd \in Fd
                                     /\ call[t].pc = "create" => call[t].dup \in Fd
         /\ call[t].kind = "move" => call[t].handle \in Handle /\ call[t].length \in Lengths
         /\ call[t].kind = "range" => call[t].handle \in Handle /\ call[t].length \in Lengths
                                      /\ call[t].pc \in {"seek", "read", "restore"}
                                      /\ call[t].location \in Locations /\ call[t].backup \in Nat
                                      /\ call[t].from \in Nat /\ call[t].got \in Int
                                      /\ call[t] \in [kind : {"range"}, pc : {"seek", "read", "restore"},
                                            handle : Handle, location : Locations, length : Lengths,
                                            backup : Nat, from : Nat, got : Int]
<1>1. call[t] \in Calls
  BY DEF TypeOK
<1> QED  BY <1>1 DEF Calls, Idle

(***************************************************************************)
(* Ownership                                                               *)
(***************************************************************************)

\* The ownership invariant holds at the start.
LEMMA InitOwner == Init => OwnerInv
<1> SUFFICES ASSUME Init PROVE OwnerInv  OBVIOUS
<1>1. TypeOK
  <2>1. Idle \in Calls
    BY DEF Calls
  <2>2. call \in [Thread -> Calls]
    BY <2>1 DEF Init
  <2>3. size \in Nat
    BY FileHandleAssumption DEF Init
  <2> QED  BY <2>2, <2>3 DEF Init, TypeOK
<1>2. CallsHold
  BY DEF Init, CallsHold, Through, Idle
<1>3. OneOwner
  BY DEF Init, OneOwner, Exists, InCall, Idle, Closed, Fd
<1> QED  BY <1>1, <1>2, <1>3 DEF OwnerInv

\* A step that leaves the descriptors and their owners alone.
LEMMA OwnersKept ==
  ASSUME OwnerInv, DescriptorsKept, \A t \in Thread : InCall(t)' = InCall(t)
  PROVE  OneOwner'
BY DEF OwnerInv, OneOwner, DescriptorsKept, Exists

\* open gives the handle being created a descriptor that nobody has.
LEMMA OpenOwner ==
  ASSUME OwnerInv, NEW t \in Thread, NEW d \in Desc, NEW m \in Modes, NEW b \in BOOLEAN, Open(t, d, m, b)
  PROVE  OwnerInv'
<1> DEFINE f == Least(FreeFds)
<1>1. f \in Fd /\ table[f] = Unused
  BY LeastFree DEF Open
<1>2. call[t] = Idle /\ call' = [call EXCEPT ![t] = [kind |-> "open", pc |-> "dup", fd |-> f]]
  BY DEF Open, Go
<1>3. /\ table' = [table EXCEPT ![f] = d]
      /\ mode' = [mode EXCEPT ![d] = m]
      /\ pos' = [pos EXCEPT ![d] = 0]
      /\ home' = [home EXCEPT ![d] = 0]
      /\ size' \in {0, size}
      /\ UNCHANGED <<fdOf, leaked, crashed>>
  BY DEF Open, NewDescription
<1> HIDE DEF f
<1>4. TypeOK'
  BY <1>1, <1>2, <1>3 DEF OwnerInv, TypeOK, Calls
<1>5. CallsHold'
  BY <1>2, <1>3 DEF OwnerInv, CallsHold, TypeOK, Through, Exists
<1>6. InCall(t) = {} /\ InCall(t)' = {f} /\ \A u \in Thread \ {t} : InCall(u)' = InCall(u)
  BY <1>2 DEF InCall, Idle, OwnerInv, TypeOK
<1>7. OneOwner'
  BY <1>1, <1>3, <1>6, FileHandleAssumption DEF OwnerInv, OneOwner, TypeOK, Exists, Unused
<1> QED  BY <1>4, <1>5, <1>7 DEF OwnerInv

\* dup gives it another one.
LEMMA DupOwner ==
  ASSUME OwnerInv, NEW t \in Thread, Dup(t)
  PROVE  OwnerInv'
<1> DEFINE f == Least(FreeFds)
           g == call[t].fd
<1>1. f \in Fd /\ table[f] = Unused
  BY LeastFree DEF Dup
<1>2. /\ call[t].kind = "open" /\ call[t].pc = "dup" /\ g \in Fd
      /\ call' = [call EXCEPT ![t] = [kind |-> "open", pc |-> "create", fd |-> g, dup |-> f]]
  BY CallShape DEF Dup, Go, OwnerInv
<1>3. /\ table' = [table EXCEPT ![f] = table[g]]
      /\ UNCHANGED <<mode, pos, home, size, fdOf, leaked, crashed>>
  BY DEF Dup, Unmoved
<1>4. InCall(t) = {g}
  BY <1>2 DEF InCall
<1>5. table[g] \in Desc /\ table[g] # Unused /\ f # g
  BY <1>1, <1>2, <1>4 DEF OwnerInv, OneOwner, TypeOK
<1> HIDE DEF f, g
<1>6. TypeOK'
  <2>1. [kind |-> "open", pc |-> "create", fd |-> g, dup |-> f] \in Calls
    BY <1>1, <1>2 DEF Calls
  <2> QED  BY <2>1, <1>1, <1>2, <1>3, <1>5 DEF OwnerInv, TypeOK
<1>7. CallsHold'
  BY <1>2, <1>3, <1>5 DEF OwnerInv, CallsHold, TypeOK, Through, Exists
<1>8. InCall(t)' = {f, g} /\ \A u \in Thread \ {t} : InCall(u)' = InCall(u)
  BY <1>2 DEF InCall, OwnerInv, TypeOK
<1>2a. OneOwner'
  BY <1>1, <1>3, <1>4, <1>5, <1>8 DEF OwnerInv, OneOwner, TypeOK, Exists
<1> QED  BY <1>6, <1>7, <1>2a DEF OwnerInv

\* When dup fails, nothing is handed out.
LEMMA DupFailsOwner ==
  ASSUME OwnerInv, NEW t \in Thread, DupFails(t)
  PROVE  OwnerInv'
<1> DEFINE g == call[t].fd
<1>1. /\ call[t].kind = "open" /\ call[t].pc = "dup" /\ g \in Fd
      /\ call' = [call EXCEPT ![t] = [kind |-> "open", pc |-> "close", fd |-> g]]
      /\ UNCHANGED <<table, mode, pos, home, size, fdOf, leaked, crashed>>
  BY CallShape DEF DupFails, Go, OwnerInv, Unmoved
<1>2. InCall(t) = {g}
  BY <1>1 DEF InCall
<1> HIDE DEF g
<1>3. TypeOK'
  <2>1. [kind |-> "open", pc |-> "close", fd |-> g] \in Calls
    BY <1>1 DEF Calls
  <2> QED  BY <2>1, <1>1 DEF OwnerInv, TypeOK
<1>4. CallsHold'
  BY <1>1 DEF OwnerInv, CallsHold, TypeOK, Through, Exists
<1>5. \A u \in Thread : InCall(u)' = InCall(u)
  BY <1>1, <1>2 DEF InCall, OwnerInv, TypeOK
<1>6. OneOwner'
  BY <1>1, <1>5, OwnersKept DEF DescriptorsKept
<1> QED  BY <1>3, <1>4, <1>6 DEF OwnerInv

\* The new handle takes over the descriptor of its creation.
LEMMA CreateOwner ==
  ASSUME OwnerInv, NEW t \in Thread, NEW h \in Handle, Create(t, h)
  PROVE  OwnerInv'
<1> DEFINE f == call[t].dup
           g == call[t].fd
<1>1. /\ call[t].kind = "open" /\ call[t].pc = "create" /\ g \in Fd /\ f \in Fd
      /\ call' = [call EXCEPT ![t] = [kind |-> "open", pc |-> "close", fd |-> g]]
      /\ fdOf[h] = Closed /\ fdOf' = [fdOf EXCEPT ![h] = f]
      /\ UNCHANGED <<table, mode, pos, home, size, leaked, crashed>>
  BY CallShape DEF Create, Go, OwnerInv, Unmoved, Exists
<1>2. InCall(t) = {f, g} /\ f # g
  BY <1>1 DEF InCall, OwnerInv, CallsHold
<1>3. f # Closed /\ fdOf \in [Handle -> Fd \cup {Closed}]
  BY <1>1 DEF OwnerInv, TypeOK, Fd, Closed
<1> HIDE DEF f, g
<1>4. TypeOK'
  <2>1. [kind |-> "open", pc |-> "close", fd |-> g] \in Calls
    BY <1>1 DEF Calls
  <2> QED  BY <2>1, <1>1 DEF OwnerInv, TypeOK
<1>5. CallsHold'
  BY <1>1, <1>3 DEF OwnerInv, CallsHold, TypeOK, Through, Exists
<1>6. InCall(t)' = {g} /\ \A u \in Thread \ {t} : InCall(u)' = InCall(u)
  BY <1>1, <1>2 DEF InCall, OwnerInv, TypeOK
<1>7. OneOwner'
  <2> USE <1>1, <1>2, <1>3, <1>6
  <2>1. OwnedIsOpen'
    <3>1. ASSUME NEW x \in Fd
          PROVE  /\ (\E k \in Handle : fdOf'[k] = x) <=> x = f \/ \E k \in Handle : fdOf[k] = x
                 /\ (\E u \in Thread : x \in InCall(u)') \/ x = f <=> \E u \in Thread : x \in InCall(u)
      BY <1>3 DEF Closed, Fd
    <3> QED  BY <3>1 DEF OwnerInv, OneOwner, OwnedIsOpen
  <2>2. HandleOwns'
    BY DEF OwnerInv, OneOwner, HandleOwns, Exists
  <2>3. CallOwns'
    BY DEF OwnerInv, OneOwner, CallOwns
  <2> QED  BY <2>1, <2>2, <2>3 DEF OneOwner, OwnedIsOpen, HandleOwns, CallOwns
<1> QED  BY <1>4, <1>5, <1>7 DEF OwnerInv

\* A creation that fails after dup goes on to close the descriptor; its duplicate stays
\* open and is accounted for as leaked.
LEMMA CreateFailsOwner ==
  ASSUME OwnerInv, NEW t \in Thread, CreateFails(t)
  PROVE  OwnerInv'
<1> DEFINE f == call[t].dup
           g == call[t].fd
<1>1. /\ call[t].kind = "open" /\ call[t].pc = "create" /\ g \in Fd /\ f \in Fd
      /\ call' = [call EXCEPT ![t] = [kind |-> "open", pc |-> "close", fd |-> g]]
      /\ leaked' = leaked \cup {f}
      /\ UNCHANGED <<table, mode, pos, home, size, fdOf, crashed>>
  BY CallShape DEF CreateFails, Go, OwnerInv, Unmoved
<1>2. InCall(t) = {f, g} /\ f # g
  BY <1>1 DEF InCall, OwnerInv, CallsHold
<1> HIDE DEF f, g
<1>3. TypeOK'
  <2>1. [kind |-> "open", pc |-> "close", fd |-> g] \in Calls
    BY <1>1 DEF Calls
  <2> QED  BY <2>1, <1>1 DEF OwnerInv, TypeOK
<1>4. CallsHold'
  BY <1>1 DEF OwnerInv, CallsHold, TypeOK, Through, Exists
<1>5. InCall(t)' = {g} /\ \A u \in Thread \ {t} : InCall(u)' = InCall(u)
  BY <1>1, <1>2 DEF InCall, OwnerInv, TypeOK
<1>6. OneOwner'
  BY <1>1, <1>2, <1>5 DEF OwnerInv, OneOwner, Exists
<1> QED  BY <1>3, <1>4, <1>6 DEF OwnerInv

\* Closing a handle closes its own descriptor and nothing else.
LEMMA CloseOwner ==
  ASSUME OwnerInv, NEW t \in Thread, Close(t)
  PROVE  OwnerInv'
<1> DEFINE g == call[t].fd
<1>1. /\ call[t].kind = "open" /\ call[t].pc = "close" /\ g \in Fd
      /\ call' = [call EXCEPT ![t] = Idle]
      /\ table' = [table EXCEPT ![g] = Unused]
      /\ UNCHANGED <<mode, pos, home, size, fdOf, leaked, crashed>>
  BY CallShape DEF Close, Go, OwnerInv, Unmoved
<1>2. InCall(t) = {g}
  BY <1>1 DEF InCall
<1> HIDE DEF g
<1>3. TypeOK'
  <2>1. Idle \in Calls
    BY DEF Calls
  <2> QED  BY <2>1, <1>1 DEF OwnerInv, TypeOK
<1>4. CallsHold'
  BY <1>1 DEF OwnerInv, CallsHold, TypeOK, Through, Exists, Idle
<1>5. InCall(t)' = {} /\ \A u \in Thread \ {t} : InCall(u)' = InCall(u)
  BY <1>1 DEF InCall, OwnerInv, TypeOK, Idle
<1>6. OneOwner'
  <2> USE <1>1, <1>2, <1>5
  <2>1. OwnedIsOpen'
    <3>1. /\ \A h \in Handle : fdOf[h] # g
          /\ g \notin leaked
          /\ \A u \in Thread \ {t} : g \notin InCall(u)
      BY DEF OwnerInv, OneOwner, Exists, TypeOK, Fd, Closed
    <3>2. ASSUME NEW x \in Fd
          PROVE  (\E u \in Thread : x \in InCall(u)) <=> x = g \/ \E u \in Thread : x \in InCall(u)'
      OBVIOUS
    <3>3. \A x \in Fd : table'[x] # Unused <=> x # g /\ table[x] # Unused
      BY DEF OwnerInv, TypeOK
    <3> QED  BY <3>1, <3>2, <3>3 DEF OwnerInv, OneOwner, OwnedIsOpen
  <2>2. HandleOwns'
    BY DEF OwnerInv, OneOwner, HandleOwns, Exists
  <2>3. CallOwns'
    BY DEF OwnerInv, OneOwner, CallOwns
  <2> QED  BY <2>1, <2>2, <2>3 DEF OneOwner, OwnedIsOpen, HandleOwns, CallOwns
<1> QED  BY <1>3, <1>4, <1>6 DEF OwnerInv

\* A copy is over a descriptor of its own.
LEMMA CopyOwner ==
  ASSUME OwnerInv, NEW t \in Thread, NEW h \in Handle, NEW n \in Handle, EFFileHandleCreateCopy(t, h, n)
  PROVE  OwnerInv'
<1> DEFINE f == Least(FreeFds)
<1>1. f \in Fd /\ table[f] = Unused
  BY LeastFree DEF EFFileHandleCreateCopy
<1>2. DescOf(h) \in Desc /\ DescOf(h) # Unused
  BY HandleOpen, FileHandleAssumption DEF EFFileHandleCreateCopy, Unused
<1>3. /\ table' = [table EXCEPT ![f] = DescOf(h)]
      /\ fdOf[n] = Closed /\ fdOf' = [fdOf EXCEPT ![n] = f]
      /\ UNCHANGED <<mode, pos, home, size, call, leaked, crashed>>
  BY DEF EFFileHandleCreateCopy, Unmoved, Exists
<1>4. f # Closed /\ fdOf \in [Handle -> Fd \cup {Closed}]
  BY <1>1 DEF OwnerInv, TypeOK, Fd, Closed
<1> HIDE DEF f
<1>5. TypeOK'
  BY <1>1, <1>2, <1>3 DEF OwnerInv, TypeOK
<1>6. CallsHold'
  <2>1. \A x \in Handle : Exists(x) => Exists(x)'
    BY <1>3, <1>4 DEF Exists
  <2>2. \A u \in Thread : Through(u) => call[u].handle \in Handle
    BY CallShape DEF OwnerInv, Through
  <2> QED  BY <1>3, <2>1, <2>2 DEF OwnerInv, CallsHold, Through, Exists
<1>7. \A u \in Thread : InCall(u)' = InCall(u)
  BY <1>3 DEF InCall
<1>8. OneOwner'
  <2> USE <1>1, <1>2, <1>3, <1>4, <1>7
  <2>1. OwnedIsOpen'
    <3>1. ASSUME NEW x \in Fd
          PROVE  (\E k \in Handle : fdOf'[k] = x) <=> x = f \/ \E k \in Handle : fdOf[k] = x
      BY DEF Closed, Fd
    <3>2. \A x \in Fd : table'[x] # Unused <=> x = f \/ table[x] # Unused
      BY DEF OwnerInv, TypeOK
    <3> QED  BY <3>1, <3>2 DEF OwnerInv, OneOwner, OwnedIsOpen
  <2>2. HandleOwns'
    BY DEF OwnerInv, OneOwner, HandleOwns, Exists
  <2>3. CallOwns'
    BY DEF OwnerInv, OneOwner, CallOwns
  <2> QED  BY <2>1, <2>2, <2>3 DEF OneOwner, OwnedIsOpen, HandleOwns, CallOwns
<1> QED  BY <1>5, <1>6, <1>8 DEF OwnerInv

\* A handle that goes closes the descriptor it still owns.
LEMMA DestroyOwner ==
  ASSUME OwnerInv, NEW h \in Handle, Destroy(h)
  PROVE  OwnerInv'
<1> DEFINE f == fdOf[h]
<1>1. f \in Fd /\ f # Closed
  BY HandleOpen DEF Destroy, Exists
<1>2. /\ table' = [table EXCEPT ![f] = Unused]
      /\ fdOf' = [fdOf EXCEPT ![h] = Closed]
      /\ UNCHANGED <<mode, pos, home, size, call, leaked, crashed>>
  BY DEF Destroy, Unmoved
<1>3. fdOf \in [Handle -> Fd \cup {Closed}] /\ Closed \notin Fd
  BY DEF OwnerInv, TypeOK, Fd, Closed
<1>4. TypeOK'
  BY <1>1, <1>2 DEF OwnerInv, TypeOK
<1>5. CallsHold'
  <2>1. \A u \in Thread : Through(u) => call[u].handle # h
    BY DEF Destroy, Unheld, Through
  <2>2. \A u \in Thread : Through(u) => call[u].handle \in Handle
    BY CallShape DEF OwnerInv, Through
  <2> QED  BY <1>2, <2>1, <2>2 DEF OwnerInv, CallsHold, Through, Exists
<1>6. \A u \in Thread : InCall(u)' = InCall(u)
  BY <1>2 DEF InCall
<1>7. OneOwner'
  BY <1>1, <1>2, <1>3, <1>6 DEF OwnerInv, OneOwner, TypeOK, Exists
<1> QED  BY <1>4, <1>5, <1>7 DEF OwnerInv

\* A read gets no more than it asks for.
LEMMA GotType ==
  ASSUME TypeOK, NEW p \in Nat, NEW n \in Nat
  PROVE  Got(p, n) \in Nat /\ Got(p, n) <= n
BY DEF TypeOK, Got

\* The calls of one system call: the cursor of one description and the size.
LEMMA SimpleOwner ==
  ASSUME OwnerInv, DescriptorsKept, UNCHANGED <<call, crashed>>,
         pos' \in [Desc -> Nat], home' \in [Desc -> Nat], size' \in Nat
  PROVE  OwnerInv'
<1>1. \A u \in Thread : InCall(u)' = InCall(u)
  BY DEF InCall
<1>2. TypeOK' /\ CallsHold'
  BY DEF OwnerInv, TypeOK, CallsHold, Through, Exists, DescriptorsKept
<1> QED  BY <1>1, <1>2, OwnersKept DEF OwnerInv

\* A step of a call through a handle.
LEMMA ThroughOwner ==
  ASSUME OwnerInv, DescriptorsKept, UNCHANGED <<size, crashed>>,
         NEW t \in Thread, NEW c \in Calls, call' = [call EXCEPT ![t] = c],
         call[t].kind # "open", c.kind # "open",
         c.kind \in {"move", "range"} => Exists(c.handle),
         pos' \in [Desc -> Nat], home' \in [Desc -> Nat]
  PROVE  OwnerInv'
<1>1. \A u \in Thread : InCall(u)' = InCall(u)
  BY DEF InCall, OwnerInv, TypeOK
<1>2. TypeOK' /\ CallsHold'
  BY DEF OwnerInv, TypeOK, CallsHold, Through, Exists, DescriptorsKept
<1> QED  BY <1>1, <1>2, OwnersKept DEF OwnerInv

\* What a simple call does to the cursor of its description.
LEMMA SimpleMoves ==
  ASSUME OwnerInv, NEW h \in Handle, Exists(h), NEW p \in Nat, MoveTo(DescOf(h), p)
  PROVE  pos' \in [Desc -> Nat] /\ home' \in [Desc -> Nat]
BY HandleOpen DEF OwnerInv, TypeOK, MoveTo

\* Calls that move the cursor or write leave the owners.
LEMMA SimpleCallOwner ==
  ASSUME OwnerInv, NEW t \in Thread, NEW h \in Handle, SimpleCall(t, h)
  PROVE  OwnerInv'
<1> USE FileHandleAssumption
<1>0. Exists(h) /\ DescOf(h) \in Desc /\ pos[DescOf(h)] \in Nat /\ size \in Nat /\ call[t] = Idle
  <2>1. Exists(h) /\ call[t] = Idle
    BY DEF SimpleCall, EFFileHandleSeek, EFFileHandleRead, EFFileHandleWrite, EFFileHandleReadData,
           EFFileHandleTruncate
  <2> QED  BY <2>1, HandleOpen DEF OwnerInv, TypeOK
<1>1. ASSUME NEW p \in 0..MaxLen, EFFileHandleSeek(t, h, p) PROVE OwnerInv'
  <2>1. p \in Nat /\ MoveTo(DescOf(h), p) /\ DescriptorsKept /\ UNCHANGED <<size, call, crashed>>
    BY <1>1 DEF EFFileHandleSeek
  <2> QED  BY <1>0, <2>1, SimpleMoves, SimpleOwner
<1>2. ASSUME NEW n \in Lengths, EFFileHandleRead(t, h, n) PROVE OwnerInv'
  <2> DEFINE p == pos[DescOf(h)] + Got(pos[DescOf(h)], n)
  <2>1. p \in Nat
    <3>1. TypeOK /\ n \in Nat /\ pos[DescOf(h)] \in Nat
      BY <1>0 DEF OwnerInv
    <3>2. Got(pos[DescOf(h)], n) \in Nat
      BY <3>1, GotType
    <3> QED  BY <3>1, <3>2
  <2>2. MoveTo(DescOf(h), p) /\ DescriptorsKept /\ UNCHANGED <<size, call, crashed>>
    BY <1>2 DEF EFFileHandleRead
  <2> HIDE DEF p
  <2> QED  BY <1>0, <2>1, <2>2, SimpleMoves, SimpleOwner
<1>3. ASSUME NEW n \in Lengths, EFFileHandleWrite(t, h, n) PROVE OwnerInv'
  <2> DEFINE p == pos[DescOf(h)] + n
  <2>1. p \in Nat
    BY <1>0
  <2>2. MoveTo(DescOf(h), p) /\ DescriptorsKept /\ UNCHANGED <<call, crashed>> /\ size' \in {p, size}
    BY <1>3 DEF EFFileHandleWrite
  <2> HIDE DEF p
  <2> QED  BY <1>0, <2>1, <2>2, SimpleMoves, SimpleOwner
<1>4. ASSUME NEW n \in 0..MaxLen, EFFileHandleTruncate(t, h, n) PROVE OwnerInv'
  <2>1. size' \in Nat /\ DescriptorsKept /\ UNCHANGED <<pos, home, call, crashed>>
    BY <1>4 DEF EFFileHandleTruncate
  <2> QED  BY <2>1, SimpleOwner DEF OwnerInv, TypeOK
<1>5. ASSUME NEW n \in Lengths, EFFileHandleReadData(t, h, n) PROVE OwnerInv'
  <2> DEFINE c == [kind |-> "move", pc |-> "read", handle |-> h, length |-> n]
  <2>1. c \in Calls /\ c.kind = "move" /\ c.handle = h
    BY DEF Calls
  <2>2. call' = [call EXCEPT ![t] = c] /\ DescriptorsKept /\ UNCHANGED <<pos, size, home, crashed>>
    BY <1>5 DEF EFFileHandleReadData, Go
  <2> HIDE DEF c
  <2>3. pos' \in [Desc -> Nat] /\ home' \in [Desc -> Nat] /\ call[t].kind # "open"
    BY <1>0, <2>2 DEF OwnerInv, TypeOK, Idle
  <2> QED  BY <1>0, <2>1, <2>2, <2>3, ThroughOwner
<1> QED  BY <1>1, <1>2, <1>3, <1>4, <1>5 DEF SimpleCall

\* So does the read of EFFileHandleReadData.
LEMMA ReadDataReadOwner ==
  ASSUME OwnerInv, NEW t \in Thread, ReadDataRead(t)
  PROVE  OwnerInv'
<1> DEFINE h == call[t].handle
           p == pos[DescOf(h)] + Got(pos[DescOf(h)], call[t].length)
<1>1. call[t].kind = "move" /\ h \in Handle /\ Exists(h) /\ call[t].length \in Nat
  BY CallShape, FileHandleAssumption DEF ReadDataRead, OwnerInv, CallsHold, Through
<1>2. DescOf(h) \in Desc /\ pos[DescOf(h)] \in Nat
  BY <1>1, HandleOpen DEF OwnerInv, TypeOK
<1>3. p \in Nat
  <2>1. TypeOK
    BY DEF OwnerInv
  <2>2. Got(pos[DescOf(h)], call[t].length) \in Nat
    BY <1>1, <1>2, <2>1, GotType
  <2> QED  BY <1>2, <2>2
<1>4. /\ MoveTo(DescOf(h), p) /\ DescriptorsKept /\ UNCHANGED <<size, crashed>>
      /\ call' = [call EXCEPT ![t] = Idle]
  BY DEF ReadDataRead, Go
<1>5. Idle \in Calls /\ Idle.kind = "none"
  BY DEF Calls, Idle
<1> HIDE DEF h, p
<1>6. pos' \in [Desc -> Nat] /\ home' \in [Desc -> Nat]
  BY <1>1, <1>3, <1>4, SimpleMoves
<1> QED  BY <1>1, <1>4, <1>5, <1>6, ThroughOwner

\* What a range read does, and that it stays the call it is.
LEMMA RangeCallOwner ==
  ASSUME OwnerInv, NEW t \in Thread, RangeCall(t)
  PROVE  OwnerInv'
<1> USE FileHandleAssumption
<1> DEFINE h == call[t].handle
           d == DescOf(h)
           n == Got(pos[d], call[t].length)
<1>0. Idle \in Calls /\ Idle.kind = "none"
  BY DEF Calls, Idle
<1>1. ASSUME Ranging(t)
      PROVE  /\ h \in Handle /\ Exists(h) /\ d \in Desc /\ pos[d] \in Nat /\ call[t].location \in Int
             /\ n \in Nat /\ pos[d] + n \in Nat /\ call[t].backup \in Nat
  <2>1. h \in Handle /\ Exists(h) /\ call[t].location \in Int /\ call[t].length \in Nat /\ call[t].backup \in Nat
    BY <1>1, CallShape DEF OwnerInv, CallsHold, Ranging, Through
  <2>2. d \in Desc /\ pos[d] \in Nat
    BY <2>1, HandleOpen DEF OwnerInv, TypeOK
  <2>3. TypeOK
    BY DEF OwnerInv
  <2>4. n \in Nat
    BY <2>1, <2>2, <2>3, GotType
  <2> QED  BY <2>1, <2>2, <2>4
<1>2. ASSUME Ranging(t), NEW pc \in {"read", "restore"}
      PROVE  LET c == [call[t] EXCEPT !.pc = pc] IN c \in Calls /\ c.kind = "range" /\ c.handle = h
  BY <1>2, CallShape DEF Ranging, OwnerInv, Calls
<1>2a. ASSUME Ranging(t), NEW got \in Int
       PROVE  LET c == [call[t] EXCEPT !.pc = "restore", !.from = pos[d], !.got = got]
              IN c \in Calls /\ c.kind = "range" /\ c.handle = h
  <2>1. pos[d] \in Nat
    BY <1>1, <1>2a
  <2> HIDE DEF d
  <2> QED  BY <1>2a, <2>1, CallShape DEF Ranging, OwnerInv, Calls
<1>3. home \in [Desc -> Nat] /\ pos \in [Desc -> Nat]
  BY DEF OwnerInv, TypeOK
<1> HIDE DEF n
<1>4. ASSUME NEW g \in Handle, NEW loc \in Locations, NEW len \in Lengths,
             EFFileHandleCopyDataForRange(t, g, loc, len)
      PROVE  OwnerInv'
  <2> DEFINE c == [kind |-> "range", pc |-> "seek", handle |-> g, location |-> loc,
                   length |-> len, backup |-> pos[DescOf(g)], from |-> 0, got |-> -1]
  <2>1. Exists(g) /\ call[t] = Idle
    BY <1>4 DEF EFFileHandleCopyDataForRange
  <2>2. pos[DescOf(g)] \in Nat
    BY <2>1, HandleOpen DEF OwnerInv, TypeOK
  <2>3. c \in Calls /\ c.kind = "range" /\ c.handle = g
    BY <2>2 DEF Calls
  <2>4. call' = [call EXCEPT ![t] = c] /\ DescriptorsKept /\ UNCHANGED <<pos, size, home, crashed>>
    BY <1>4 DEF EFFileHandleCopyDataForRange, Go
  <2> HIDE DEF c
  <2> QED  BY <1>0, <1>3, <2>1, <2>3, <2>4, ThroughOwner
<1>5. CASE RangeSeek(t)
  <2>1. Ranging(t)
    BY <1>5 DEF RangeSeek, InRange, Ranging
  <2> DEFINE pc == IF call[t].location >= -1 THEN "read" ELSE "restore"
             c == [call[t] EXCEPT !.pc = pc]
  <2>2. /\ call' = [call EXCEPT ![t] = c] /\ DescriptorsKept /\ UNCHANGED <<size, home, crashed>>
        /\ pos' = [pos EXCEPT ![d] = IF call[t].location >= 0 THEN call[t].location ELSE @]
    BY <1>5 DEF RangeSeek, Go
  <2>3. pos' \in [Desc -> Nat]
    BY <1>1, <1>3, <2>1, <2>2
  <2>4. c \in Calls /\ c.kind = "range" /\ c.handle = h
    <3>1. pc \in {"read", "restore"}
      OBVIOUS
    <3> HIDE DEF pc
    <3> QED  BY <1>2, <2>1, <3>1
  <2> HIDE DEF c
  <2> QED  BY <1>1, <1>3, <2>1, <2>2, <2>3, <2>4, ThroughOwner DEF Ranging
<1>6. CASE RangeReadFails(t)
  <2>1. Ranging(t)
    BY <1>6 DEF RangeReadFails, InRange, Ranging
  <2> DEFINE c == [call[t] EXCEPT !.pc = "restore"]
  <2>2. call' = [call EXCEPT ![t] = c] /\ DescriptorsKept /\ UNCHANGED <<pos, size, home, crashed>>
    BY <1>6 DEF RangeReadFails, Go
  <2>3. c \in Calls /\ c.kind = "range" /\ c.handle = h
    BY <1>2, <2>1
  <2> HIDE DEF c
  <2> QED  BY <1>1, <1>3, <2>1, <2>2, <2>3, ThroughOwner DEF Ranging
<1>7. CASE RangeRead(t)
  <2>1. Ranging(t)
    BY <1>7 DEF RangeRead, InRange, Ranging
  <2> DEFINE got == IF n < call[t].length THEN -1 ELSE n
             c == [call[t] EXCEPT !.pc = "restore", !.from = pos[d], !.got = got]
  <2>2. /\ call' = [call EXCEPT ![t] = c] /\ DescriptorsKept /\ UNCHANGED <<size, home, crashed>>
        /\ pos' = [pos EXCEPT ![d] = @ + n]
    BY <1>7 DEF RangeRead, Go, n
  <2>3. pos' \in [Desc -> Nat]
    BY <1>1, <1>3, <2>1, <2>2
  <2>4. got \in Int
    BY <1>1, <2>1
  <2>5. c \in Calls /\ c.kind = "range" /\ c.handle = h
    <3> HIDE DEF got
    <3> QED  BY <1>2a, <2>1, <2>4
  <2> HIDE DEF c
  <2> QED  BY <1>1, <1>3, <2>1, <2>2, <2>3, <2>5, ThroughOwner DEF Ranging
<1>8. CASE RangeRestore(t)
  <2>1. Ranging(t)
    BY <1>8 DEF RangeRestore, InRange, Ranging
  <2>2. /\ call' = [call EXCEPT ![t] = Idle] /\ DescriptorsKept /\ UNCHANGED <<size, home, crashed>>
        /\ pos' = [pos EXCEPT ![d] = call[t].backup]
    BY <1>8 DEF RangeRestore, Go
  <2>3. pos' \in [Desc -> Nat]
    BY <1>1, <1>3, <2>1, <2>2
  <2> QED  BY <1>0, <1>3, <2>1, <2>2, <2>3, ThroughOwner DEF Ranging
<1> QED  BY <1>4, <1>5, <1>6, <1>7, <1>8 DEF RangeCall

\* A copy whose object has no memory ends the process, and touches no descriptor.
LEMMA CrashOwner ==
  ASSUME OwnerInv, NEW t \in Thread, NEW h \in Handle, CreateCopyCrashes(t, h)
  PROVE  OwnerInv'
<1>1. UNCHANGED <<table, size, fdOf, call, leaked, mode, pos, home>> /\ crashed' = TRUE
  BY DEF CreateCopyCrashes, Unmoved
<1>2. \A u \in Thread : InCall(u)' = InCall(u)
  BY <1>1 DEF InCall
<1> QED  BY <1>1, <1>2, OwnersKept DEF OwnerInv, TypeOK, CallsHold, Through, Exists, DescriptorsKept

\* Every step keeps the ownership invariant.
LEMMA StepOwner == OwnerInv /\ [Next]_vars => OwnerInv'
<1> SUFFICES ASSUME OwnerInv, [Next]_vars PROVE OwnerInv'  OBVIOUS
<1>1. ASSUME NEW t \in Thread, OpenCall(t) PROVE OwnerInv'
  BY <1>1, OpenOwner, DupOwner, DupFailsOwner, CreateOwner, CreateFailsOwner, CloseOwner DEF OpenCall
<1>2. ASSUME NEW t \in Thread, NEW h \in Handle, CopyCall(t, h) PROVE OwnerInv'
  BY <1>2, CopyOwner, CrashOwner DEF CopyCall
<1>3. CASE UNCHANGED vars
  <2>1. \A u \in Thread : InCall(u)' = InCall(u)
    BY <1>3 DEF vars, InCall
  <2> QED  BY <1>3, <2>1, OwnersKept DEF vars, OwnerInv, TypeOK, CallsHold, Through, Exists, DescriptorsKept
<1> QED  BY <1>1, <1>2, <1>3, SimpleCallOwner, RangeCallOwner, ReadDataReadOwner, DestroyOwner DEF Next

\* Every open descriptor has one owner, so that no close can hit a number that
\* belongs to another handle, whatever threads open, copy and release.
THEOREM DescriptorOwnership == Spec => []OneOwner
<1>1. OwnerInv => OneOwner
  BY DEF OwnerInv
<1> QED  BY <1>1, InitOwner, StepOwner, PTL DEF Spec

(***************************************************************************)
(* The cursor                                                              *)
(***************************************************************************)

\* The descriptions that calls under way work on are open.
LEMMA OnOpen ==
  ASSUME OwnerInv, NEW t \in Thread, Through(t)
  PROVE  call[t].handle \in Handle /\ Exists(call[t].handle) /\ On(t) \in Desc
<1>1. call[t].handle \in Handle /\ Exists(call[t].handle)
  BY CallShape DEF OwnerInv, CallsHold, Through
<1> QED  BY <1>1, HandleOpen DEF On

\* A step that begins no call through a handle, and that moves the cursor only
\* of a description that no range read works on, and then its home with it.
LEMMA CursorStep ==
  ASSUME CursorInv, OwnerInv',
         \A u \in Thread : Through(u)' => Through(u) /\ call'[u] = call[u] /\ On(u)' = On(u),
         \A u \in Thread : Ranging(u) => Ranging(u)',
         \A d \in Desc : \/ pos'[d] = pos[d] /\ home'[d] = home[d]
                         \/ pos'[d] = home'[d] /\ \A u \in Thread : Ranging(u) => On(u) # d
  PROVE  CursorInv'
<1>1. \A u \in Thread : Ranging(u)' => Ranging(u) /\ call'[u] = call[u] /\ On(u)' = On(u)
  BY DEF Ranging, Through
<1>2. Apart'
  BY <1>1 DEF CursorInv, Apart
<1>3. RangeInv'
  <2> SUFFICES ASSUME NEW u \in Thread, Ranging(u)' PROVE Restorable(u)'
    BY DEF RangeInv
  <2>1. Ranging(u) /\ call'[u] = call[u] /\ On(u)' = On(u)
    BY <1>1
  <2>2. On(u) \in Desc /\ Restorable(u)
    BY <2>1, OnOpen DEF Ranging, Through, CursorInv, RangeInv
  <2>3. pos'[On(u)] = pos[On(u)] /\ home'[On(u)] = home[On(u)]
    BY <2>1, <2>2
  <2> QED  BY <2>1, <2>2, <2>3 DEF Restorable
<1>4. HomeInv'
  BY <1>1 DEF CursorInv, HomeInv
<1> QED  BY <1>2, <1>3, <1>4 DEF CursorInv

\* A step that opens and closes descriptors, or creates and destroys handles,
\* but none that a call works through.
LEMMA HandlesStep ==
  ASSUME CursorInv, OwnerInv', UNCHANGED <<pos, home>>,
         \A u \in Thread : Through(u) =>
             LET h == call[u].handle
             IN  call'[u] = call[u] /\ fdOf'[h] = fdOf[h] /\ table'[fdOf[h]] = table[fdOf[h]],
         \A u \in Thread : Through(u)' => Through(u)
  PROVE  CursorInv'
<1>1. \A u \in Thread : Through(u) => call'[u] = call[u] /\ On(u)' = On(u)
  BY DEF On, DescOf
<1>2. \A u \in Thread : Ranging(u) => Ranging(u)'
  BY <1>1 DEF Ranging, Through
<1> QED  BY <1>1, <1>2, CursorStep

\* Where the handles of calls under way have their descriptors.
LEMMA ThroughFd ==
  ASSUME OwnerInv, NEW u \in Thread, Through(u)
  PROVE  LET f == fdOf[call[u].handle]
         IN  f \in Fd /\ table[f] # Unused /\ \A t \in Thread : f \notin InCall(t)
BY OnOpen, HandleOpen DEF OwnerInv, OneOwner

\* A fresh descriptor is of a description that no range read is at.
LEMMA OpenCallCursor ==
  ASSUME CursorInv, NEW t \in Thread, OpenCall(t)
  PROVE  CursorInv'
<1>0. OwnerInv
  BY DEF CursorInv
<1>1. ASSUME NEW d \in Desc, NEW m \in Modes, NEW b \in BOOLEAN, Open(t, d, m, b)
      PROVE  CursorInv'
  <2> DEFINE f == Least(FreeFds)
  <2>1. f \in Fd /\ table[f] = Unused
    BY <1>1, LeastFree DEF Open
  <2>2. /\ call' = [call EXCEPT ![t] = [kind |-> "open", pc |-> "dup", fd |-> f]]
        /\ table' = [table EXCEPT ![f] = d]
        /\ pos' = [pos EXCEPT ![d] = 0] /\ home' = [home EXCEPT ![d] = 0] /\ fdOf' = fdOf
        /\ call[t] = Idle /\ \A g \in Fd : table[g] # d
    BY <1>1 DEF Open, NewDescription, Go, FreeDescs
  <2> HIDE DEF f
  <2>3. ASSUME NEW u \in Thread, Through(u)'
        PROVE  Through(u) /\ call'[u] = call[u]
    BY <1>0, <2>2, <2>3 DEF Through, OwnerInv, TypeOK
  <2>4. ASSUME NEW u \in Thread, Through(u)
        PROVE  call'[u] = call[u] /\ On(u)' = On(u) /\ On(u) # d
    <3>1. call'[u] = call[u]
      BY <1>0, <2>2, <2>4 DEF Through, OwnerInv, TypeOK, Idle
    <3>2. fdOf[call[u].handle] \in Fd /\ table[fdOf[call[u].handle]] # Unused
      BY <1>0, <2>4, ThroughFd
    <3> QED  BY <1>0, <2>1, <2>2, <3>1, <3>2 DEF On, DescOf, OwnerInv, TypeOK
  <2>5. \A e \in Desc : \/ pos'[e] = pos[e] /\ home'[e] = home[e]
                        \/ pos'[e] = home'[e] /\ e = d
    BY <1>0, <2>2 DEF OwnerInv, TypeOK
  <2>6. OwnerInv'
    BY <1>0, <1>1, OpenOwner
  <2>7. \A u \in Thread : Ranging(u) => Ranging(u)' /\ On(u) # d
    BY <2>4 DEF Ranging, Through
  <2> QED  BY <2>3, <2>4, <2>5, <2>6, <2>7, CursorStep
<1>2. ASSUME call[t].kind = "open", OwnerInv', UNCHANGED <<pos, home>>,
             NEW c, call' = [call EXCEPT ![t] = c], c.kind \in {"open", "none"},
             \A u \in Thread : Through(u) =>
                LET h == call[u].handle IN fdOf'[h] = fdOf[h] /\ table'[fdOf[h]] = table[fdOf[h]]
      PROVE  CursorInv'
  <2>1. \A u \in Thread : Through(u) => u # t
    BY <1>2 DEF Through
  <2>2. \A u \in Thread : Through(u)' => u # t
    BY <1>0, <1>2 DEF Through, OwnerInv, TypeOK
  <2>3. \A u \in Thread : u # t => call'[u] = call[u]
    BY <1>0, <1>2 DEF OwnerInv, TypeOK
  <2>4. \A u \in Thread : Through(u)' => Through(u)
    BY <2>2, <2>3 DEF Through
  <2> QED  BY <1>2, <2>1, <2>3, <2>4, HandlesStep
<1>3. CASE Dup(t)
  <2>1. Least(FreeFds) \in Fd /\ table[Least(FreeFds)] = Unused
    BY <1>3, LeastFree DEF Dup
  <2> QED  BY <1>0, <1>2, <1>3, <2>1, DupOwner, ThroughFd DEF Dup, Go, Unmoved, OwnerInv, TypeOK
<1>4. CASE DupFails(t)
  BY <1>0, <1>2, <1>4, DupFailsOwner DEF DupFails, Go, Unmoved
<1>5. CASE CreateFails(t)
  BY <1>0, <1>2, <1>5, CreateFailsOwner DEF CreateFails, Go, Unmoved
<1>6. CASE Close(t)
  <2>1. call[t].fd \in InCall(t)
    BY <1>6 DEF Close, InCall
  <2> QED  BY <1>0, <1>2, <1>6, <2>1, CloseOwner, ThroughFd DEF Close, Go, Unmoved, Idle, OwnerInv, TypeOK
<1>7. ASSUME NEW h \in Handle, Create(t, h) PROVE CursorInv'
  <2>1. \A u \in Thread : Through(u) => call[u].handle # h
    BY <1>0, <1>7, OnOpen DEF Create
  <2> DEFINE c == [kind |-> "open", pc |-> "close", fd |-> call[t].fd]
  <2>2. /\ call[t].kind = "open" /\ call' = [call EXCEPT ![t] = c] /\ c.kind = "open"
        /\ fdOf' = [fdOf EXCEPT ![h] = call[t].dup] /\ UNCHANGED <<table, pos, home>>
    BY <1>7 DEF Create, Go, Unmoved
  <2> HIDE DEF c
  <2>3. \A g \in Handle \ {h} : fdOf'[g] = fdOf[g]
    BY <1>0, <2>2 DEF OwnerInv, TypeOK
  <2>4. OwnerInv'
    BY <1>0, <1>7, CreateOwner
  <2> QED  BY <1>0, <1>2, <2>1, <2>2, <2>3, <2>4, OnOpen
<1> QED  BY <1>1, <1>3, <1>4, <1>5, <1>6, <1>7 DEF OpenCall

\* Copies and destructions leave the cursors.
LEMMA CopyDestroyCursor ==
  ASSUME CursorInv, NEW h \in Handle,
         \/ \E t \in Thread : CopyCall(t, h)
         \/ Destroy(h)
  PROVE  CursorInv'
<1>0. OwnerInv
  BY DEF CursorInv
<1>1. ASSUME NEW t \in Thread, NEW n \in Handle, EFFileHandleCreateCopy(t, h, n)
      PROVE  CursorInv'
  <2>1. Least(FreeFds) \in Fd /\ table[Least(FreeFds)] = Unused
    BY <1>1, LeastFree DEF EFFileHandleCreateCopy
  <2>2. \A u \in Thread : Through(u) => call[u].handle # n
    BY <1>0, <1>1, OnOpen DEF EFFileHandleCreateCopy
  <2>3. OwnerInv'
    BY <1>0, <1>1, CopyOwner
  <2> QED  BY <1>0, <1>1, <2>1, <2>2, <2>3, ThroughFd, HandlesStep
           DEF EFFileHandleCreateCopy, Unmoved, Through, OwnerInv, TypeOK
<1>2. ASSUME NEW t \in Thread, CreateCopyCrashes(t, h) PROVE CursorInv'
  <2>1. OwnerInv'
    BY <1>0, <1>2, CrashOwner
  <2> QED  BY <1>0, <1>2, <2>1, HandlesStep DEF CreateCopyCrashes, Unmoved, Through
<1>3. CASE Destroy(h)
  <2>1. \A u \in Thread : Through(u) => call[u].handle # h /\ fdOf[call[u].handle] # fdOf[h]
    BY <1>0, <1>3, OnOpen DEF Destroy, Unheld, Through, OwnerInv, OneOwner
  <2>2. OwnerInv'
    BY <1>0, <1>3, DestroyOwner
  <2> QED  BY <1>0, <1>3, <2>1, <2>2, OnOpen, HandlesStep DEF Destroy, Unmoved, Through, OwnerInv, TypeOK
<1> QED  BY <1>1, <1>2, <1>3 DEF CopyCall

\* A call on h that may begin: no range read works on the description of h.
LEMMA NobodyRanging ==
  ASSUME "range" \in Serial, NEW t \in Thread, call[t] = Idle, NEW h \in Handle,
         NEW kind, Alone(t, h, kind)
  PROVE  \A u \in Thread : Ranging(u) => u # t /\ On(u) # DescOf(h)
BY DEF Alone, Ranging, On, Idle

\* A call that is not a range read moves a cursor only when no range read is under way.
LEMMA SimpleCallCursor ==
  ASSUME "range" \in Serial, CursorInv, NEW t \in Thread, NEW h \in Handle, SimpleCall(t, h)
  PROVE  CursorInv'
<1>0. OwnerInv /\ OwnerInv'
  BY SimpleCallOwner DEF CursorInv
<1>1. call[t] = Idle /\ Alone(t, h, "move") /\ DescriptorsKept
  BY DEF SimpleCall, EFFileHandleSeek, EFFileHandleRead, EFFileHandleWrite, EFFileHandleReadData,
         EFFileHandleTruncate
<1>2. \A u \in Thread : Ranging(u) => u # t /\ On(u) # DescOf(h)
  BY <1>1, NobodyRanging
<1>3. ASSUME UNCHANGED call, NEW p, MoveTo(DescOf(h), p) \/ UNCHANGED <<pos, home>>
      PROVE  CursorInv'
  <2>1. \A u \in Thread : On(u)' = On(u) /\ (Through(u)' <=> Through(u)) /\ (Ranging(u)' <=> Ranging(u))
    BY <1>1, <1>3 DEF On, DescOf, Through, Ranging, DescriptorsKept
  <2>2. \A d \in Desc : \/ pos'[d] = pos[d] /\ home'[d] = home[d]
                        \/ pos'[d] = home'[d] /\ d = DescOf(h)
    BY <1>0, <1>3 DEF MoveTo, OwnerInv, TypeOK
  <2> QED  BY <1>0, <1>2, <1>3, <2>1, <2>2, CursorStep
<1>4. ASSUME NEW n \in Lengths, EFFileHandleReadData(t, h, n)
      PROVE  CursorInv'
  <2> DEFINE c == [kind |-> "move", pc |-> "read", handle |-> h, length |-> n]
  <2>1. call' = [call EXCEPT ![t] = c] /\ c.kind = "move" /\ c.handle = h /\ UNCHANGED <<pos, home>>
    BY <1>4 DEF EFFileHandleReadData, Go
  <2> HIDE DEF c
  <2>2. \A u \in Thread \ {t} : call'[u] = call[u] /\ On(u)' = On(u)
    BY <1>0, <1>1, <2>1 DEF On, DescOf, DescriptorsKept, OwnerInv, TypeOK
  <2>3. ~Ranging(t)' /\ On(t)' = DescOf(h)
    BY <1>0, <1>1, <2>1 DEF Ranging, On, DescOf, DescriptorsKept, OwnerInv, TypeOK
  <2>4. \A u \in Thread : Ranging(u)' <=> Ranging(u)
    BY <1>2, <2>2, <2>3 DEF Ranging
  <2>5. \A u \in Thread \ {t} : Through(u)' <=> Through(u)
    BY <2>2 DEF Through
  <2>6. Apart'
    BY <1>2, <2>2, <2>3, <2>4, <2>5 DEF CursorInv, Apart
  <2>7. RangeInv'
    BY <1>2, <2>1, <2>2, <2>4 DEF CursorInv, RangeInv, Restorable
  <2>8. HomeInv'
    BY <1>2, <2>1, <2>2, <2>4 DEF CursorInv, HomeInv
  <2> QED  BY <1>0, <2>6, <2>7, <2>8 DEF CursorInv
<1>5. \/ \E p : UNCHANGED call /\ (MoveTo(DescOf(h), p) \/ UNCHANGED <<pos, home>>)
      \/ \E n \in Lengths : EFFileHandleReadData(t, h, n)
  BY DEF SimpleCall, EFFileHandleSeek, EFFileHandleRead, EFFileHandleWrite, EFFileHandleTruncate
<1> QED  BY <1>3, <1>4, <1>5

\* So does the read of EFFileHandleReadData.
LEMMA ReadDataReadCursor ==
  ASSUME CursorInv, NEW t \in Thread, ReadDataRead(t)
  PROVE  CursorInv'
<1>0. OwnerInv /\ OwnerInv'
  BY ReadDataReadOwner DEF CursorInv
<1> DEFINE d == On(t)
<1>1. PICK p : MoveTo(d, p)
  BY DEF ReadDataRead, On
<1>2. call[t].kind = "move" /\ call' = [call EXCEPT ![t] = Idle] /\ DescriptorsKept
  BY DEF ReadDataRead, Go
<1>3. \A u \in Thread : Through(u)' => u # t /\ Through(u) /\ call'[u] = call[u] /\ On(u)' = On(u)
  BY <1>0, <1>2 DEF Through, On, DescOf, DescriptorsKept, OwnerInv, TypeOK, Idle
<1>4. \A u \in Thread : Ranging(u) => Ranging(u)' /\ On(u) # d
  BY <1>0, <1>2 DEF Ranging, Through, CursorInv, Apart, OwnerInv, TypeOK
<1>5. \A e \in Desc : \/ pos'[e] = pos[e] /\ home'[e] = home[e]
                      \/ pos'[e] = home'[e] /\ e = d
  BY <1>0, <1>1 DEF MoveTo, OwnerInv, TypeOK
<1> QED  BY <1>0, <1>3, <1>4, <1>5, CursorStep

\* A step of the range read of t: only the cursor of its own description moves.
LEMMA RangeStep ==
  ASSUME CursorInv, OwnerInv', DescriptorsKept, UNCHANGED home, NEW t \in Thread, Ranging(t),
         NEW c, call' = [call EXCEPT ![t] = c], c = Idle \/ (c.kind = "range" /\ c.handle = call[t].handle),
         NEW p, pos' = [pos EXCEPT ![On(t)] = p],
         c = Idle => p = home[On(t)],
         c # Idle => Restorable(t)'
  PROVE  CursorInv'
<1>0. OwnerInv
  BY DEF CursorInv
<1>1. \A u \in Thread \ {t} : /\ call'[u] = call[u] /\ On(u)' = On(u)
                              /\ Through(u)' = Through(u) /\ Ranging(u)' = Ranging(u)
  BY <1>0 DEF On, DescOf, Through, Ranging, DescriptorsKept, OwnerInv, TypeOK
<1>2. call'[t] = c
  BY <1>0 DEF OwnerInv, TypeOK
<1>3. Through(t)' => Ranging(t)' /\ On(t)' = On(t)
  BY <1>2 DEF On, DescOf, Through, Ranging, DescriptorsKept, Idle
<1>4. Apart'
  BY <1>1, <1>3 DEF CursorInv, Apart, Ranging, Through
<1>5. RangeInv'
  <2> SUFFICES ASSUME NEW u \in Thread, Ranging(u)' PROVE Restorable(u)'
    BY DEF RangeInv
  <2>1. CASE u = t
    BY <1>2, <2>1 DEF Ranging, Idle
  <2>2. CASE u # t
    <3>1. On(u) \in Desc /\ Restorable(u) /\ On(u) # On(t)
      BY <1>0, <1>1, <2>2, OnOpen DEF CursorInv, RangeInv, Apart, Ranging, Through
    <3>2. pos'[On(u)] = pos[On(u)]
      BY <1>0, <3>1 DEF OwnerInv, TypeOK
    <3> QED  BY <1>1, <2>2, <3>1, <3>2 DEF Restorable
  <2> QED  BY <2>1, <2>2
<1>6. HomeInv'
  <2> SUFFICES ASSUME NEW d \in Desc, \A u \in Thread : Ranging(u)' => On(u)' # d PROVE pos'[d] = home'[d]
    BY DEF HomeInv
  <2>1. CASE d = On(t)
    BY <1>0, <1>2, <1>3, <2>1 DEF Ranging, Through, On, DescOf, DescriptorsKept, OwnerInv, TypeOK
  <2>2. CASE d # On(t)
    <3>1. \A u \in Thread : Ranging(u) => On(u) # d
      BY <1>1, <2>2
    <3> QED  BY <1>0, <2>2, <3>1 DEF CursorInv, HomeInv, OwnerInv, TypeOK
  <2> QED  BY <2>1, <2>2
<1> QED  BY <1>4, <1>5, <1>6 DEF CursorInv

\* A range read moves the cursor away and back, and knows where it was.
LEMMA RangeCallCursor ==
  ASSUME "range" \in Serial, CursorInv, NEW t \in Thread, RangeCall(t)
  PROVE  CursorInv'
<1>0. OwnerInv /\ OwnerInv'
  BY RangeCallOwner DEF CursorInv
<1> DEFINE h == call[t].handle
           d == On(t)
           n == Got(pos[d], call[t].length)
<1>1. ASSUME Ranging(t)
      PROVE  /\ d \in Desc /\ pos[d] \in Nat /\ call[t].location \in Int /\ call[t].length \in Nat
             /\ Restorable(t) /\ n \in Nat /\ n <= call[t].length
  <2>1. d \in Desc /\ pos[d] \in Nat
    BY <1>0, <1>1, OnOpen DEF Ranging, Through, OwnerInv, TypeOK
  <2>2. call[t].location \in Int /\ call[t].length \in Nat
    BY <1>0, <1>1, CallShape, FileHandleAssumption DEF Ranging, OwnerInv
  <2>3. n \in Nat /\ n <= call[t].length
    BY <1>0, <2>1, <2>2, GotType DEF OwnerInv
  <2> QED  BY <1>1, <2>1, <2>2, <2>3 DEF CursorInv, RangeInv
<1>2. ASSUME DescriptorsKept, NEW c, call' = [call EXCEPT ![t] = c], c.handle = h
      PROVE  call'[t] = c /\ On(t)' = d
  BY <1>0, <1>2 DEF On, DescOf, DescriptorsKept, OwnerInv, TypeOK
<1>3. ASSUME Ranging(t), NEW pc, NEW from, NEW got
      PROVE  /\ LET c == [call[t] EXCEPT !.pc = pc]
                IN  /\ c.kind = "range" /\ c.pc = pc /\ c.handle = h /\ c.backup = call[t].backup
                    /\ c.location = call[t].location /\ c.length = call[t].length
                    /\ c.from = call[t].from /\ c.got = call[t].got
             /\ LET c == [call[t] EXCEPT !.pc = pc, !.from = from, !.got = got]
                IN  /\ c.kind = "range" /\ c.pc = pc /\ c.handle = h /\ c.backup = call[t].backup
                    /\ c.location = call[t].location /\ c.length = call[t].length
                    /\ c.from = from /\ c.got = got
  BY <1>0, <1>3, CallShape DEF Ranging, OwnerInv
<1>4. home \in [Desc -> Nat] /\ pos \in [Desc -> Nat]
  BY <1>0 DEF OwnerInv, TypeOK
<1>5. ASSUME NEW g \in Handle, NEW loc \in Locations, NEW len \in Lengths,
             EFFileHandleCopyDataForRange(t, g, loc, len)
      PROVE  CursorInv'
  <2> DEFINE e == DescOf(g)
             c == [kind |-> "range", pc |-> "seek", handle |-> g, location |-> loc,
                   length |-> len, backup |-> pos[e], from |-> 0, got |-> -1]
  <2>1. call[t] = Idle /\ Exists(g) /\ Alone(t, g, "range") /\ DescriptorsKept
    BY <1>5 DEF EFFileHandleCopyDataForRange
  <2>2. call' = [call EXCEPT ![t] = c] /\ UNCHANGED <<pos, home>>
    BY <1>5 DEF EFFileHandleCopyDataForRange, Go
  <2>3. c.kind = "range" /\ c.handle = g /\ c.pc = "seek" /\ c.backup = pos[e] /\ c.got = -1
    OBVIOUS
  <2> HIDE DEF c
  <2>4. \A u \in Thread \ {t} : Through(u) => On(u) # e
    BY <2>1 DEF Alone, On, Through
  <2>5. \A u \in Thread \ {t} : call'[u] = call[u] /\ On(u)' = On(u)
    BY <1>0, <2>1, <2>2 DEF On, DescOf, DescriptorsKept, OwnerInv, TypeOK
  <2>6. call'[t] = c /\ On(t)' = e
    BY <1>0, <2>1, <2>2, <2>3 DEF On, DescOf, DescriptorsKept, OwnerInv, TypeOK
  <2>7. \A u \in Thread \ {t} : Ranging(u)' = Ranging(u) /\ Through(u)' = Through(u)
    BY <2>5 DEF Ranging, Through
  <2>8. e \in Desc /\ pos[e] = home[e]
    <3>1. e \in Desc
      BY <1>0, <2>1, HandleOpen
    <3>2. \A u \in Thread : Ranging(u) => On(u) # e
      BY <2>1, <2>4 DEF Ranging, Through, Idle
    <3> QED  BY <3>1, <3>2 DEF CursorInv, HomeInv
  <2>9. Apart'
    BY <2>4, <2>5, <2>6, <2>7 DEF CursorInv, Apart, Ranging, Through
  <2>10. RangeInv'
    <3>1. Restorable(t)'
      BY <2>2, <2>3, <2>6, <2>8 DEF Restorable
    <3> QED  BY <2>2, <2>5, <2>7, <3>1 DEF CursorInv, RangeInv, Restorable
  <2>11. HomeInv'
    <3>1. ~Ranging(t)
      BY <2>1 DEF Ranging, Idle
    <3> QED  BY <2>2, <2>5, <2>6, <2>7, <2>8, <3>1 DEF CursorInv, HomeInv
  <2> QED  BY <1>0, <2>9, <2>10, <2>11 DEF CursorInv
<1> HIDE DEF n
<1>6. CASE RangeSeek(t)
  <2> DEFINE loc == call[t].location
             pc == IF loc >= -1 THEN "read" ELSE "restore"
             c == [call[t] EXCEPT !.pc = pc]
             p == IF loc >= 0 THEN loc ELSE pos[d]
  <2>1. /\ Ranging(t) /\ call[t].pc = "seek" /\ call' = [call EXCEPT ![t] = c] /\ DescriptorsKept
        /\ UNCHANGED home /\ pos' = [pos EXCEPT ![d] = p]
    BY <1>6 DEF RangeSeek, InRange, Ranging, Go, On
  <2>2. Restorable(t) /\ loc \in Int /\ d \in Desc
    BY <1>1, <2>1
  <2>3. /\ c.kind = "range" /\ c.pc = pc /\ c.handle = h /\ c.backup = call[t].backup
        /\ c.location = loc /\ c.got = call[t].got
    BY <1>3, <2>1
  <2> HIDE DEF c
  <2>4. call'[t] = c /\ On(t)' = d
    BY <1>2, <2>1, <2>3
  <2>5. Restorable(t)'
    BY <1>4, <2>1, <2>2, <2>3, <2>4 DEF Restorable
  <2>6. c # Idle
    BY <2>3 DEF Idle
  <2> HIDE DEF d, p, pc
  <2> QED  BY <1>0, <2>1, <2>3, <2>5, <2>6, RangeStep DEF d
<1>7. CASE RangeReadFails(t)
  <2> DEFINE c == [call[t] EXCEPT !.pc = "restore"]
  <2>1. /\ Ranging(t) /\ call[t].pc = "read" /\ call' = [call EXCEPT ![t] = c] /\ DescriptorsKept
        /\ UNCHANGED <<home, pos>>
    BY <1>7 DEF RangeReadFails, InRange, Ranging, Go
  <2>2. Restorable(t) /\ d \in Desc
    BY <1>1, <2>1
  <2>3. /\ c.kind = "range" /\ c.pc = "restore" /\ c.handle = h /\ c.backup = call[t].backup
        /\ c.got = call[t].got
    BY <1>3, <2>1
  <2> HIDE DEF c
  <2>4. call'[t] = c /\ On(t)' = d
    BY <1>2, <2>1, <2>3
  <2>5. Restorable(t)'
    BY <2>1, <2>2, <2>3, <2>4 DEF Restorable
  <2>6. c # Idle /\ pos' = [pos EXCEPT ![d] = pos[d]]
    BY <1>4, <2>1, <2>3 DEF Idle
  <2> QED  BY <1>0, <2>1, <2>3, <2>5, <2>6, RangeStep
<1>8. CASE RangeRead(t)
  <2> DEFINE got == IF n < call[t].length THEN -1 ELSE n
             c == [call[t] EXCEPT !.pc = "restore", !.from = pos[d], !.got = got]
  <2>1. /\ Ranging(t) /\ call[t].pc = "read" /\ call' = [call EXCEPT ![t] = c] /\ DescriptorsKept
        /\ UNCHANGED home /\ pos' = [pos EXCEPT ![d] = pos[d] + n]
    BY <1>8 DEF RangeRead, InRange, Ranging, Go, On, n
  <2>2. Restorable(t) /\ d \in Desc /\ n \in Nat /\ n <= call[t].length /\ call[t].length \in Nat
    BY <1>1, <2>1
  <2>3. /\ c.kind = "range" /\ c.pc = "restore" /\ c.handle = h /\ c.backup = call[t].backup
        /\ c.location = call[t].location /\ c.length = call[t].length
        /\ c.from = pos[d] /\ c.got = got
    BY <1>3, <2>1
  <2>4. got # -1 => got = call[t].length
    BY <2>2
  <2> HIDE DEF c, got
  <2>5. call'[t] = c /\ On(t)' = d
    BY <1>2, <2>1, <2>3
  <2>6. Restorable(t)'
    BY <2>1, <2>2, <2>3, <2>4, <2>5 DEF Restorable
  <2>7. c # Idle
    BY <2>3 DEF Idle
  <2> QED  BY <1>0, <2>1, <2>3, <2>6, <2>7, RangeStep
<1>9. CASE RangeRestore(t)
  <2>1. /\ Ranging(t) /\ call' = [call EXCEPT ![t] = Idle] /\ DescriptorsKept
        /\ UNCHANGED home /\ pos' = [pos EXCEPT ![d] = call[t].backup]
    BY <1>9 DEF RangeRestore, InRange, Ranging, Go, On
  <2>2. call[t].backup = home[d]
    BY <1>1, <2>1 DEF Restorable
  <2> DEFINE p == call[t].backup
             c == Idle
  <2>3. pos' = [pos EXCEPT ![On(t)] = p] /\ call' = [call EXCEPT ![t] = c] /\ c = Idle /\ p = home[On(t)]
    BY <2>1, <2>2
  <2>4. DescriptorsKept /\ UNCHANGED home /\ Ranging(t)
    BY <2>1
  <2> HIDE DEF p, c
  <2> QED  BY <1>0, <2>3, <2>4, RangeStep
<1> QED  BY <1>5, <1>6, <1>7, <1>8, <1>9 DEF RangeCall

\* The cursor invariant holds at the start.
LEMMA InitCursor == Init => CursorInv
BY InitOwner DEF Init, CursorInv, Apart, RangeInv, HomeInv, Ranging, Idle

\* Every step keeps the cursor invariant when calls that read ranges are serial.
LEMMA StepCursor == "range" \in Serial /\ CursorInv /\ [Next]_vars => CursorInv'
<1> SUFFICES ASSUME "range" \in Serial, CursorInv, [Next]_vars PROVE CursorInv'  OBVIOUS
<1>1. CASE UNCHANGED vars
  <2>1. OwnerInv'
    BY <1>1, StepOwner DEF CursorInv
  <2> QED  BY <1>1, <2>1 DEF vars, CursorInv, Apart, RangeInv, Restorable, HomeInv, Ranging, Through, On, DescOf
<1> QED  BY <1>1, OpenCallCursor, SimpleCallCursor, RangeCallCursor, ReadDataReadCursor,
            CopyDestroyCursor DEF Next

\* When callers keep other calls on a description away from a range read of it
\* (nothing in the code does it for them), every range read gives the cursor
\* back, on its failing paths too.
THEOREM CursorSafety == ASSUME "range" \in Serial PROVE Spec => []CursorRestored
<1>1. CursorInv => CursorRestored
  <2> SUFFICES ASSUME CursorInv, NEW h \in Handle, Exists(h),
                      \A t \in Thread : call[t].kind = "range" => DescOf(call[t].handle) # DescOf(h)
               PROVE  pos[DescOf(h)] = home[DescOf(h)]
    BY DEF CursorRestored
  <2>1. DescOf(h) \in Desc
    BY HandleOpen DEF CursorInv
  <2> QED  BY <2>1 DEF CursorInv, HomeInv, Ranging, On
<1> QED  BY <1>1, InitCursor, StepCursor, PTL DEF Spec

\* Under the same condition the data a range read returns is the whole range.
THEOREM RangeSafety == ASSUME "range" \in Serial PROVE Spec => []RangeExact
<1>1. CursorInv => RangeExact
  BY DEF CursorInv, RangeInv, Restorable, RangeExact, InRange, Ranging
<1> QED  BY <1>1, InitCursor, StepCursor, PTL DEF Spec
(***************************************************************************)
(* Bit walkers                                                             *)
(***************************************************************************)

BitSet == {0, 1}

\* What the byte swap turns into whole bytes of the other order again.
WholeBytes(v) == Len(v) <= B \/ Len(v) % B = 0

WalkerType == /\ file \in Seq(BitSet)
              /\ offset \in Nat
              /\ bytePos \in [Walker -> Int]
              /\ bitIndex \in [Walker -> 0..B - 1]
              /\ endian \in [Walker -> {"little", "big"}]

FieldType(f) == /\ f.start \in Nat /\ f.value \in Seq(BitSet) /\ f.value # <<>>
                /\ f.endian \in {"little", "big"}
                /\ f.endian = "big" => WholeBytes(f.value)

\* The bits of the file at the field are those of its value in the byte order
\* it was written in.
InFile(f) == \A i \in DOMAIN f.value : Bit(f.start + i - 1) = ToEndian(f.value, f.endian)[i]

WalkerInv == WalkerType /\ \A f \in fields : FieldType(f) /\ InFile(f)

LEMMA DivMod ==
  ASSUME NEW a \in Int
  PROVE  /\ a \div B \in Int /\ a % B \in 0..B - 1 /\ a = B * (a \div B) + (a % B)
         /\ a >= 0 => a \div B \in Nat
BY BitWalkerAssumption

LEMMA DivModUnique ==
  ASSUME NEW k \in Int, NEW r \in 0..B - 1
  PROVE  (k * B + r) \div B = k /\ (k * B + r) % B = r
BY BitWalkerAssumption

\* Sequences of bits.
LEMMA BitSeq ==
  ASSUME NEW n \in Nat, NEW v \in [1..n -> BitSet]
  PROVE  v \in Seq(BitSet) /\ Len(v) = n /\ DOMAIN v = 1..n
<1>1. v \in Seq(BitSet)
  BY SeqDef
<1> QED  BY <1>1, LenProperties

LEMMA PadSame ==
  ASSUME NEW v \in Seq(BitSet)
  PROVE  Pad(v, Len(v)) = v
<1>1. Len(v) \in Nat /\ v = [i \in 1..Len(v) |-> v[i]]
  BY LenProperties
<1>2. \A i \in 1..Len(v) : i <= Len(v)
  BY <1>1
<1>3. Pad(v, Len(v)) = [i \in 1..Len(v) |-> v[i]]
  BY <1>2 DEF Pad
<1> QED  BY <1>1, <1>3

\* Where the byte swap takes the bit at i from, and that bit's own origin.
LEMMA SwapIndex ==
  ASSUME NEW k \in Nat, NEW i \in 1..k * B
  PROVE  LET j == (k - 1 - (i - 1) \div B) * B + ((i - 1) % B) + 1 IN
           j \in 1..k * B /\ (k - 1 - (j - 1) \div B) * B + ((j - 1) % B) + 1 = i
<1> DEFINE q == (i - 1) \div B
           r == (i - 1) % B
           j == (k - 1 - q) * B + r + 1
<1>0. k * B \in Nat /\ B \in Nat \ {0}
  BY BitWalkerAssumption
<1>1. i \in Int /\ i - 1 \in Nat /\ i - 1 < k * B
  BY <1>0
<1>2. q \in Nat /\ r \in 0..B - 1 /\ i - 1 = B * q + r
  BY <1>1, DivMod
<1>3. q < k
  <2> SUFFICES ASSUME q >= k PROVE FALSE
    BY <1>2
  <2>1. B * q >= B * k
    BY <1>0, <1>2
  <2> QED  BY <1>0, <1>1, <1>2, <2>1
<1>4. k - 1 - q \in Nat /\ k - 1 - q <= k - 1
  BY <1>2, <1>3
<1>5. (k - 1 - q) * B \in Nat /\ (k - 1 - q) * B <= (k - 1) * B
  BY <1>0, <1>4
<1>6. (k - 1) * B = k * B - B
  BY <1>0
<1>7. j \in 1..k * B /\ j - 1 = (k - 1 - q) * B + r
  BY <1>0, <1>2, <1>5, <1>6
<1>8. (j - 1) \div B = k - 1 - q /\ (j - 1) % B = r
  BY <1>2, <1>4, <1>7, DivModUnique
<1>9. k - 1 - (k - 1 - q) = q /\ q * B + r + 1 = i
  BY <1>0, <1>1, <1>2
<1> QED  BY <1>7, <1>8, <1>9

LEMMA SwapTwice ==
  ASSUME NEW k \in Nat, NEW v \in [1..k * B -> BitSet]
  PROVE  /\ EFEndianBSwapN(v, k) \in [1..k * B -> BitSet]
         /\ EFEndianBSwapN(EFEndianBSwapN(v, k), k) = v
<1> DEFINE j(i) == (k - 1 - (i - 1) \div B) * B + ((i - 1) % B) + 1
           s == EFEndianBSwapN(v, k)
<1>1. \A i \in 1..k * B : j(i) \in 1..k * B /\ j(j(i)) = i
  BY SwapIndex
<1>2. s = [i \in 1..k * B |-> v[j(i)]]
  BY DEF EFEndianBSwapN
<1>3. EFEndianBSwapN(s, k) = [i \in 1..k * B |-> s[j(i)]]
  BY DEF EFEndianBSwapN
<1> HIDE DEF j, s
<1>4. s \in [1..k * B -> BitSet]
  BY <1>1, <1>2
<1>5. \A i \in 1..k * B : s[j(i)] = v[i]
  BY <1>1, <1>2
<1>6. EFEndianBSwapN(s, k) = v
  BY <1>3, <1>5
<1> QED  BY <1>4, <1>6 DEF s

\* Turned twice, a value of at most a byte or of whole bytes is itself.
LEMMA ToEndianTwice ==
  ASSUME NEW v \in Seq(BitSet), NEW e, v # <<>>, e = "big" => WholeBytes(v)
  PROVE  /\ ToEndian(v, e) \in Seq(BitSet) /\ Len(ToEndian(v, e)) = Len(v)
         /\ ToEndian(ToEndian(v, e), e) = v
<1>1. CASE ~(Len(v) > B /\ e = "big")
  BY <1>1 DEF ToEndian
<1>2. CASE Len(v) > B /\ e = "big"
  <2> DEFINE n == Len(v)
             k == n \div B
  <2>1. n \in Nat /\ n % B = 0 /\ B \in Nat \ {0}
    BY <1>2, LenProperties, BitWalkerAssumption DEF WholeBytes
  <2>2. k \in Nat /\ n = k * B
    <3>1. n \in Int /\ n >= 0
      BY <2>1
    <3>2. k \in Nat /\ n = B * k + (n % B)
      BY <3>1, DivMod
    <3> HIDE DEF k
    <3> QED  BY <2>1, <3>2
  <2>3. NumBytes(n) = k
    <3>1. n + B - 1 = k * B + (B - 1) /\ B - 1 \in 0..B - 1
      BY <2>1, <2>2
    <3> QED  BY <2>2, <3>1, DivModUnique DEF NumBytes
  <2>4. v \in [1..k * B -> BitSet]
    BY <2>2, LenProperties
  <2>5. \A w \in Seq(BitSet) : Len(w) = n => Swapped(w) = EFEndianBSwapN(w, k)
    BY <2>2, <2>3, PadSame DEF Swapped
  <2>6. ToEndian(v, e) = EFEndianBSwapN(v, k)
    BY <1>2, <2>5 DEF ToEndian
  <2>7. EFEndianBSwapN(v, k) \in Seq(BitSet) /\ Len(EFEndianBSwapN(v, k)) = n
    BY <2>2, <2>4, SwapTwice, BitSeq
  <2>8. ToEndian(EFEndianBSwapN(v, k), e) = EFEndianBSwapN(EFEndianBSwapN(v, k), k)
    BY <1>2, <2>5, <2>7 DEF ToEndian
  <2> QED  BY <2>2, <2>4, <2>6, <2>7, <2>8, SwapTwice
<1> QED  BY <1>1, <1>2

\* A field whose bits are in the file is read back.
LEMMA InFileReadsBack ==
  ASSUME NEW f, FieldType(f), InFile(f)
  PROVE  LET read == ValueAt(f.start, Len(f.value), f.endian) IN read = Pad(f.value, Len(read))
<1> DEFINE v == f.value
           n == Len(v)
           bits == [i \in 1..n |-> Bit(f.start + i - 1)]
<1>1. v \in Seq(BitSet) /\ v # <<>> /\ n \in Nat /\ DOMAIN v = 1..n /\ (f.endian = "big" => WholeBytes(v))
  BY LenProperties DEF FieldType
<1>2. /\ ToEndian(v, f.endian) \in Seq(BitSet) /\ Len(ToEndian(v, f.endian)) = n
      /\ ToEndian(ToEndian(v, f.endian), f.endian) = v
  BY <1>1, ToEndianTwice
<1>3. ToEndian(v, f.endian) = [i \in 1..n |-> ToEndian(v, f.endian)[i]]
  BY <1>2, LenProperties
<1>4. bits = ToEndian(v, f.endian)
  BY <1>1, <1>3 DEF InFile
<1>5. ValueAt(f.start, n, f.endian) = v
  BY <1>2, <1>4 DEF ValueAt
<1> QED  BY <1>1, <1>5, PadSame

(***************************************************************************)
(* The file                                                                *)
(***************************************************************************)

LEMMA BitType ==
  ASSUME file \in Seq(BitSet), NEW i \in Nat
  PROVE  Bit(i) \in BitSet
<1>1. Len(file) \in Nat /\ file \in [1..Len(file) -> BitSet]
  BY LenProperties
<1>2. i < Len(file) => file[i + 1] \in BitSet
  BY <1>1
<1>3. 0 \in BitSet
  BY DEF BitSet
<1> QED  BY <1>2, <1>3 DEF Bit

\* A write changes the bits it covers and puts zeros before them where the file
\* was shorter.
LEMMA OverwriteBits ==
  ASSUME file \in Seq(BitSet), NEW base \in Nat, NEW b \in Seq(BitSet), Overwrite(base, b)
  PROVE  /\ file' \in Seq(BitSet)
         /\ \A i \in Nat : Bit(i)' = IF i - base * B + 1 \in DOMAIN b THEN b[i - base * B + 1] ELSE Bit(i)
<1> DEFINE a == base * B
           n == Larger(Len(file), IF b = <<>> THEN 0 ELSE a + Len(b))
<1>1. a \in Nat
  BY BitWalkerAssumption
<1>2. Len(file) \in Nat /\ Len(b) \in Nat /\ DOMAIN b = 1..Len(b) /\ b \in [1..Len(b) -> BitSet]
  BY LenProperties
<1>3. b = <<>> => Len(b) = 0
  OBVIOUS
<1>4. b # <<>> => Len(b) > 0
  BY <1>2, EmptySeq
<1>5. n \in Nat /\ n >= Len(file) /\ (b # <<>> => n >= a + Len(b))
  BY <1>1, <1>2 DEF Larger
<1>6. file' = [i \in 1..n |-> IF i - a \in DOMAIN b THEN b[i - a] ELSE Bit(i - 1)]
  BY DEF Overwrite
<1> HIDE DEF a, n
<1>7. file' \in [1..n -> BitSet]
  BY <1>2, <1>5, <1>6, BitType
<1>8. file' \in Seq(BitSet) /\ Len(file') = n
  BY <1>5, <1>7, BitSeq
<1>9. ASSUME NEW i \in Nat
      PROVE  Bit(i)' = IF i - a + 1 \in DOMAIN b THEN b[i - a + 1] ELSE Bit(i)
  <2>1. Bit(i)' = IF i < n THEN file'[i + 1] ELSE 0
    BY <1>8 DEF Bit
  <2>2. CASE i < n
    <3>1. i + 1 \in 1..n /\ (i + 1) - a = i - a + 1 /\ (i + 1) - 1 = i
      BY <1>1, <1>5, <2>2
    <3> QED  BY <1>6, <2>1, <2>2, <3>1
  <2>3. CASE ~(i < n)
    <3>1. i - a + 1 \notin DOMAIN b
      BY <1>1, <1>2, <1>4, <1>5, <2>3
    <3>2. ~(i < Len(file))
      BY <1>2, <1>5, <2>3
    <3>3. Bit(i) = 0
      BY <3>2 DEF Bit
    <3> QED  BY <2>1, <2>3, <3>1, <3>3
  <2> QED  BY <2>2, <2>3
<1> QED  BY <1>8, <1>9 DEF a

\* The window that a write stores.
LEMMA WindowBits ==
  ASSUME WalkerType, NEW w \in Walker, NEW t \in Seq(BitSet), NEW base \in Nat
  PROVE  LET win == OrInto(LoadWindow(base), t, bitIndex[w]) IN
           /\ win \in [1..Window * B -> BitSet]
           /\ \A i \in 1..Window * B :
                 win[i] = IF i - bitIndex[w] \in DOMAIN t
                          THEN Larger(Bit(base * B + i - 1), t[i - bitIndex[w]])
                          ELSE Bit(base * B + i - 1)
<1> DEFINE load == LoadWindow(base)
           a == base * B
           win == OrInto(load, t, bitIndex[w])
<1>1. a \in Nat /\ Window * B \in Nat /\ bitIndex[w] \in Int
  BY BitWalkerAssumption DEF WalkerType
<1>2. load = [i \in 1..Window * B |-> Bit(a + i - 1)] /\ DOMAIN load = 1..Window * B
  BY DEF LoadWindow
<1> HIDE DEF a, load
<1>3. \A i \in 1..Window * B : a + i - 1 \in Nat /\ load[i] = Bit(a + i - 1) /\ load[i] \in BitSet
  BY <1>1, <1>2, BitType DEF WalkerType
<1>4. win = [i \in 1..Window * B |-> IF i - bitIndex[w] \in DOMAIN t
                                     THEN Larger(load[i], t[i - bitIndex[w]]) ELSE load[i]]
  BY <1>2 DEF OrInto
<1>5. \A i \in DOMAIN t : t[i] \in BitSet
  BY ElementOfSeq, LenProperties
<1>6. \A x, y \in BitSet : Larger(x, y) \in BitSet
  BY DEF Larger
<1> HIDE DEF win
<1>7. win \in [1..Window * B -> BitSet]
  BY <1>3, <1>4, <1>5, <1>6
<1> QED  BY <1>3, <1>4, <1>7 DEF a, load, win

\* Offsets are natural numbers.
LEMMA OffsetType ==
  ASSUME WalkerType
  PROVE  /\ \A p \in Int : SeekTo(p) \in Nat
         /\ \A p, n \in Nat : BytesRead(p, n) \in Nat
         /\ \A w \in Walker : StoreAt(w) \in Nat
<1>1. Len(file) \in Nat
  BY LenProperties DEF WalkerType
<1>2. Bytes \in Nat
  BY <1>1, DivMod DEF Bytes
<1>3. \A p, n \in Nat : BytesRead(p, n) \in Nat
  BY <1>2 DEF BytesRead, Smaller
<1>4. \A p \in Int : SeekTo(p) \in Nat
  BY DEF SeekTo, WalkerType
<1>5. ASSUME NEW w \in Walker PROVE StoreAt(w) \in Nat
  <2>1. offset \in Nat /\ Window \in Nat /\ bytePos[w] \in Int
    BY BitWalkerAssumption DEF WalkerType
  <2>2. BytesRead(offset, Window) \in Nat
    BY <1>3, <2>1
  <2> QED  BY <2>1, <2>2 DEF StoreAt
<1> QED  BY <1>3, <1>4, <1>5

LEMMA AdvanceType ==
  ASSUME WalkerType, NEW w \in Walker, NEW n \in Int, Advance(w, n)
  PROVE  bytePos' \in [Walker -> Int] /\ bitIndex' \in [Walker -> 0..B - 1]
<1>1. bitIndex[w] + n \in Int
  BY BitWalkerAssumption DEF WalkerType
<1>2. (bitIndex[w] + n) \div B \in Int /\ (bitIndex[w] + n) % B \in 0..B - 1
  BY <1>1, DivMod
<1> QED  BY <1>2 DEF Advance, WalkerType

LEMMA AlignType ==
  ASSUME WalkerType, NEW w \in Walker, NEW n \in Int, AlignAndMove(w, n)
  PROVE  bytePos' \in [Walker -> Int] /\ bitIndex' \in [Walker -> 0..B - 1]
<1>1. Aligned(w) \in Int
  BY DEF WalkerType, Aligned
<1> QED  BY <1>1, BitWalkerAssumption DEF AlignAndMove, WalkerType

\* Big-endian walkers write at most a byte or whole bytes.
WholeFields == \A v \in Values["big"] : WholeBytes(v)

LEMMA ValueType ==
  ASSUME WalkerType, WholeFields, NEW w \in Walker, NEW v \in Values[endian[w]]
  PROVE  /\ v \in Seq(BitSet) /\ v # <<>> /\ Len(v) \in Nat /\ Len(v) <= (Window - 1) * B
         /\ DOMAIN v = 1..Len(v)
         /\ endian[w] = "big" => WholeBytes(v)
         /\ ToEndian(v, endian[w]) \in Seq(BitSet) /\ DOMAIN ToEndian(v, endian[w]) = 1..Len(v)
<1>1. endian[w] \in {"little", "big"} /\ v \in UNION {[1..n -> BitSet] : n \in 1..(Window - 1) * B}
  BY BitWalkerAssumption DEF WalkerType, BitSet
<1>2. (Window - 1) * B \in Nat
  BY BitWalkerAssumption
<1>3. PICK n \in 1..(Window - 1) * B : v \in [1..n -> BitSet]
  BY <1>1
<1>4. n \in Nat /\ n > 0 /\ n <= (Window - 1) * B
  BY <1>2, <1>3
<1>5. v \in Seq(BitSet) /\ Len(v) = n /\ DOMAIN v = 1..n
  BY <1>3, <1>4, BitSeq
<1>6. v # <<>>
  BY <1>4, <1>5, EmptySeq
<1>7. endian[w] = "big" => WholeBytes(v)
  BY DEF WholeFields
<1>8. /\ ToEndian(v, endian[w]) \in Seq(BitSet)
      /\ Len(ToEndian(v, endian[w])) = n
  BY <1>5, <1>6, <1>7, ToEndianTwice
<1>9. DOMAIN ToEndian(v, endian[w]) = 1..n
  BY <1>8, LenProperties
<1> QED  BY <1>4, <1>5, <1>6, <1>7, <1>8, <1>9

\* Storing the first m bytes of the window changes no bits but those of the
\* field, which get the bits of the value on top of theirs.
LEMMA WindowStored ==
  ASSUME WalkerType, WholeFields, NEW w \in Walker, NEW v \in Values[endian[w]], NEW m \in 0..Window,
         NEW b \in Seq(BitSet), Len(b) = m * B,
         \A i \in 1..m * B : b[i] = NewWindow(w, v)[i],
         Overwrite(StoreAt(w), b)
  PROVE  /\ file' \in Seq(BitSet)
         /\ bytePos[w] < 0 => \A i \in Nat : i < StoreAt(w) * B \/ i >= (StoreAt(w) + m) * B => Bit(i)' = Bit(i)
         /\ bytePos[w] >= 0 => \A i \in Nat :
               i < Position(w) \/ i >= Position(w) + Len(v) => Bit(i)' = Bit(i)
         /\ bytePos[w] >= 0 /\ m = Window => \A i \in Nat :
               i - Position(w) + 1 \in 1..Len(v)
                  => Bit(i)' = Larger(Bit(i), ToEndian(v, endian[w])[i - Position(w) + 1])
<1>0. PICK base, a, t, s : /\ base = StoreAt(w) /\ a = base * B
                           /\ t = ToEndian(v, endian[w]) /\ s = bitIndex[w]
  OBVIOUS
<1>1. base \in Nat /\ bytePos[w] \in Int /\ s \in 0..B - 1 /\ B \in Nat \ {0} /\ Window \in Nat \ {0} /\ m \in Nat
  BY <1>0, OffsetType, BitWalkerAssumption DEF WalkerType
<1>2. a \in Nat /\ m * B \in Nat /\ Window * B \in Nat /\ m * B <= Window * B
  <2>1. a \in Nat /\ m * B \in Nat /\ Window * B \in Nat
    BY <1>0, <1>1
  <2>2. Window - m \in Nat
    BY <1>1
  <2>3. (Window - m) * B \in Nat /\ Window * B = m * B + (Window - m) * B
    BY <1>1, <2>2
  <2> QED  BY <2>1, <2>3
<1>3. DOMAIN b = 1..m * B
  BY LenProperties
<1>4. /\ file' \in Seq(BitSet)
      /\ \A i \in Nat : Bit(i)' = IF i - a + 1 \in 1..m * B THEN b[i - a + 1] ELSE Bit(i)
  BY <1>0, <1>1, <1>3, OverwriteBits DEF WalkerType
<1>5. bytePos[w] < 0 => \A i \in Nat : i < a \/ i >= (base + m) * B => Bit(i)' = Bit(i)
  <2>1. (base + m) * B = a + m * B
    BY <1>0, <1>1
  <2>2. \A i \in Nat : i < a \/ i >= a + m * B => i - a + 1 \notin 1..m * B
    BY <1>2
  <2> QED  BY <1>4, <2>1, <2>2
<1>6. ASSUME bytePos[w] >= 0
      PROVE  /\ \A i \in Nat : i < Position(w) \/ i >= Position(w) + Len(v) => Bit(i)' = Bit(i)
             /\ m = Window => \A i \in Nat : i - Position(w) + 1 \in 1..Len(v)
                   => Bit(i)' = Larger(Bit(i), t[i - Position(w) + 1])
  <2>1. base = bytePos[w] /\ SeekTo(bytePos[w]) = base /\ Position(w) = a + s
    BY <1>0, <1>1, <1>6 DEF StoreAt, SeekTo, Position
  <2>2. t \in Seq(BitSet) /\ DOMAIN t = 1..Len(v) /\ Len(v) \in Nat /\ Len(v) <= (Window - 1) * B
    BY <1>0, ValueType
  <2>3. NewWindow(w, v) = OrInto(LoadWindow(base), t, s)
    BY <1>0, <2>1 DEF NewWindow
  <2>4. \A i \in 1..Window * B :
           NewWindow(w, v)[i] = IF i - s \in DOMAIN t THEN Larger(Bit(base * B + i - 1), t[i - s])
                                ELSE Bit(base * B + i - 1)
    <3>1. \A i \in 1..Window * B :
             OrInto(LoadWindow(base), t, bitIndex[w])[i]
                = IF i - bitIndex[w] \in DOMAIN t
                  THEN Larger(Bit(base * B + i - 1), t[i - bitIndex[w]]) ELSE Bit(base * B + i - 1)
      BY <1>1, <2>2, WindowBits
    <3> QED  BY <1>0, <2>3, <3>1
  <2>5. \A i \in 1..m * B :
           b[i] = IF i - s \in 1..Len(v) THEN Larger(Bit(a + i - 1), t[i - s]) ELSE Bit(a + i - 1)
    <3>1. \A i \in 1..m * B : i \in 1..Window * B
      BY <1>2
    <3> QED  BY <1>0, <2>2, <2>4, <3>1
  <2>6. ASSUME NEW i \in Nat, i < Position(w) \/ i >= Position(w) + Len(v) PROVE Bit(i)' = Bit(i)
    <3>1. (i - a + 1) - s \notin 1..Len(v) /\ a + (i - a + 1) - 1 = i
      BY <1>1, <1>2, <2>1, <2>2, <2>6
    <3> QED  BY <1>4, <2>5, <3>1
  <2>7. ASSUME m = Window, NEW i \in Nat, i - Position(w) + 1 \in 1..Len(v)
        PROVE  Bit(i)' = Larger(Bit(i), t[i - Position(w) + 1])
    <3>1. Window * B = (Window - 1) * B + B
      BY <1>1
    <3>2. i - a + 1 \in 1..m * B /\ (i - a + 1) - s = i - Position(w) + 1 /\ a + (i - a + 1) - 1 = i
      BY <1>1, <1>2, <2>1, <2>2, <2>7, <3>1
    <3> QED  BY <1>4, <2>5, <2>7, <3>2
  <2> QED  BY <2>6, <2>7
<1> QED  BY <1>0, <1>4, <1>5, <1>6

(***************************************************************************)
(* Steps                                                                   *)
(***************************************************************************)

\* A field whose bits do not change stays in the file.
LEMMA FieldKept ==
  ASSUME NEW f, FieldType(f), InFile(f),
         \A i \in Nat : i >= f.start /\ i < f.start + Len(f.value) => Bit(i)' = Bit(i)
  PROVE  InFile(f)'
<1>1. ASSUME NEW k \in DOMAIN f.value
      PROVE  Bit(f.start + k - 1)' = ToEndian(f.value, f.endian)[k]
  <2>1. f.start \in Nat /\ Len(f.value) \in Nat /\ k \in 1..Len(f.value)
    BY LenProperties DEF FieldType
  <2>2. PICK i : i = f.start + k - 1
    OBVIOUS
  <2>3. i \in Nat /\ i >= f.start /\ i < f.start + Len(f.value)
    BY <2>1, <2>2
  <2>4. Bit(i)' = Bit(i)
    BY <2>3
  <2>5. Bit(i) = ToEndian(f.value, f.endian)[k]
    BY <2>2 DEF InFile
  <2> QED  BY <2>2, <2>4, <2>5
<1> QED  BY <1>1 DEF InFile

\* So does every field that a write has not touched.
LEMMA UntouchedKept ==
  ASSUME WalkerInv, NEW from \in Nat, NEW to \in Nat,
         \A i \in Nat : i < from \/ i >= to => Bit(i)' = Bit(i),
         NEW f \in Untouched(from, to)
  PROVE  FieldType(f) /\ InFile(f)'
<1>1. FieldType(f) /\ InFile(f) /\ (f.start + Len(f.value) <= from \/ f.start >= to)
  BY DEF WalkerInv, Untouched
<1>2. f.start \in Nat /\ Len(f.value) \in Nat
  BY <1>1, LenProperties DEF FieldType
<1>3. \A i \in Nat : i >= f.start /\ i < f.start + Len(f.value) => Bit(i)' = Bit(i)
  BY <1>1, <1>2
<1> QED  BY <1>1, <1>3, FieldKept

LEMMA PositionType ==
  ASSUME WalkerType, NEW w \in Walker, bytePos[w] >= 0
  PROVE  Position(w) \in Nat
<1>1. bytePos[w] \in Nat /\ bitIndex[w] \in Nat /\ B \in Nat
  BY BitWalkerAssumption DEF WalkerType
<1>2. bytePos[w] * B \in Nat
  BY <1>1
<1> QED  BY <1>1, <1>2 DEF Position

\* A write, whole or short: what it has not touched is still there.
LEMMA StoreKeeps ==
  ASSUME WalkerInv, WholeFields, NEW w \in Walker, NEW v \in Values[endian[w]], NEW m \in 0..Window,
         NEW b \in Seq(BitSet), Len(b) = m * B,
         \A i \in 1..m * B : b[i] = NewWindow(w, v)[i],
         Overwrite(StoreAt(w), b)
  PROVE  /\ bytePos[w] < 0 => \A f \in Untouched(StoreAt(w) * B, (StoreAt(w) + m) * B) :
               FieldType(f) /\ InFile(f)'
         /\ bytePos[w] >= 0 => \A f \in Untouched(Position(w), Position(w) + Len(v)) :
               FieldType(f) /\ InFile(f)'
<1>1. WalkerType /\ StoreAt(w) \in Nat /\ B \in Nat /\ m \in Nat /\ Len(v) \in Nat
  BY OffsetType, ValueType, BitWalkerAssumption DEF WalkerInv
<1>2. StoreAt(w) * B \in Nat /\ (StoreAt(w) + m) * B \in Nat
  BY <1>1
<1>3. CASE bytePos[w] < 0
  <2>1. \A i \in Nat : i < StoreAt(w) * B \/ i >= (StoreAt(w) + m) * B => Bit(i)' = Bit(i)
    BY <1>1, <1>3, WindowStored
  <2>2. ~(bytePos[w] >= 0)
    BY <1>1, <1>3 DEF WalkerType
  <2> QED  BY <1>2, <2>1, <2>2, UntouchedKept
<1>4. CASE bytePos[w] >= 0
  <2>1. Position(w) \in Nat /\ Position(w) + Len(v) \in Nat
    BY <1>1, <1>4, PositionType
  <2>2. \A i \in Nat : i < Position(w) \/ i >= Position(w) + Len(v) => Bit(i)' = Bit(i)
    BY <1>1, <1>4, WindowStored
  <2>3. ~(bytePos[w] < 0)
    BY <1>1, <1>4 DEF WalkerType
  <2> QED  BY <2>1, <2>2, <2>3, UntouchedKept
<1>5. bytePos[w] < 0 \/ bytePos[w] >= 0
  BY <1>1 DEF WalkerType
<1> QED  BY <1>3, <1>4, <1>5

LEMMA WriteInv ==
  ASSUME WalkerInv, WholeFields, NEW w \in Walker, NEW v \in Values[endian[w]],
         EFBitWalkerWrite(w, v), endian' = endian
  PROVE  WalkerInv'
<1> DEFINE b == NewWindow(w, v)
           t == ToEndian(v, endian[w])
<1>1. /\ Overwrite(StoreAt(w), b) /\ offset' = StoreAt(w) + Window
      /\ Remember(w, v) /\ Advance(w, Len(v))
  BY DEF EFBitWalkerWrite
<1>2. /\ WalkerType /\ StoreAt(w) \in Nat /\ Window \in 0..Window /\ Window \in Nat /\ Window * B \in Nat
      /\ bytePos[w] \in Int /\ endian[w] \in {"little", "big"} /\ SeekTo(bytePos[w]) \in Nat
  <2>1. WalkerType /\ Window \in Nat /\ B \in Nat
    BY BitWalkerAssumption DEF WalkerInv
  <2>2. bytePos[w] \in Int /\ endian[w] \in {"little", "big"}
    BY <2>1 DEF WalkerType
  <2>3. Window * B \in Nat /\ Window \in 0..Window
    BY <2>1
  <2> QED  BY <2>1, <2>2, <2>3, OffsetType
<1>3. /\ v \in Seq(BitSet) /\ v # <<>> /\ Len(v) \in Nat /\ DOMAIN v = 1..Len(v)
      /\ endian[w] = "big" => WholeBytes(v)
      /\ t \in Seq(BitSet) /\ DOMAIN t = 1..Len(v)
  BY <1>2, ValueType
<1>4. b \in Seq(BitSet) /\ Len(b) = Window * B
  BY <1>2, <1>3, WindowBits, BitSeq DEF NewWindow
<1>5. file' \in Seq(BitSet)
  BY <1>1, <1>2, <1>4, OverwriteBits DEF WalkerType
<1>6. WalkerType'
  BY <1>1, <1>2, <1>3, <1>5, AdvanceType DEF WalkerType
<1>7. ASSUME NEW f \in fields' PROVE FieldType(f) /\ InFile(f)'
  <2>1. CASE bytePos[w] < 0
    <3>1. f \in Untouched(StoreAt(w) * B, (StoreAt(w) + Window) * B)
      BY <1>1, <1>7, <2>1 DEF Remember
    <3> QED  BY <1>1, <1>2, <1>4, <2>1, <3>1, StoreKeeps
  <2>2. CASE bytePos[w] >= 0
    <3>1. ~(bytePos[w] < 0)
      BY <1>2, <2>2
    <3>2. CASE f \in Untouched(Position(w), Position(w) + Len(v))
      BY <1>1, <1>2, <1>4, <2>2, <3>2, StoreKeeps
    <3>3. CASE Fits(w, v) /\ f = [start |-> Position(w), value |-> v, endian |-> endian[w]]
      <4>1. Position(w) \in Nat
        BY <1>2, <2>2, PositionType
      <4>2. FieldType(f)
        BY <1>2, <1>3, <3>3, <4>1 DEF FieldType
      <4>3. ASSUME NEW k \in 1..Len(v) PROVE Bit(f.start + k - 1)' = t[k]
        <5>0. PICK i : i = Position(w) + k - 1
          OBVIOUS
        <5>1. i \in Nat /\ i - Position(w) + 1 = k
          BY <1>3, <4>1, <5>0
        <5>2. Bit(i)' = Larger(Bit(i), t[k])
          BY <1>1, <1>2, <1>4, <2>2, <5>1, WindowStored
        <5>3. Bit(i) <= t[k]
          BY <1>3, <3>3, <5>0 DEF Fits
        <5>4. Bit(i) \in BitSet /\ t[k] \in BitSet
          BY <1>2, <1>3, <5>1, BitType, ElementOfSeq, LenProperties DEF WalkerType
        <5>5. Bit(i)' = t[k]
          BY <5>2, <5>3, <5>4 DEF Larger, BitSet
        <5>6. f.start + k - 1 = i
          BY <3>3, <5>0
        <5> QED  BY <5>5, <5>6
      <4>4. InFile(f)'
        <5>1. f.value = v /\ f.endian = endian[w]
          BY <3>3
        <5>2. \A k \in DOMAIN f.value : Bit(f.start + k - 1)' = ToEndian(f.value, f.endian)[k]
          BY <1>3, <4>3, <5>1
        <5> QED  BY <5>2 DEF InFile
      <4> QED  BY <4>2, <4>4
    <3>4. \/ f \in Untouched(Position(w), Position(w) + Len(v))
          \/ Fits(w, v) /\ f = [start |-> Position(w), value |-> v, endian |-> endian[w]]
      BY <1>1, <1>7, <3>1 DEF Remember, Written
    <3> QED  BY <3>2, <3>3, <3>4
  <2> QED  BY <1>2, <2>1, <2>2
<1> QED  BY <1>6, <1>7 DEF WalkerInv, FieldType, WholeBytes

LEMMA ShortInv ==
  ASSUME WalkerInv, WholeFields, NEW w \in Walker, NEW v \in Values[endian[w]], NEW k \in 0..Window - 1,
         WriteShort(w, v, k), endian' = endian
  PROVE  WalkerInv'
<1>0. PICK b : b = SubSeq(NewWindow(w, v), 1, k * B)
  OBVIOUS
<1>1. /\ Overwrite(StoreAt(w), b) /\ offset' = StoreAt(w) + k
      /\ fields' = IF bytePos[w] < 0 THEN Untouched(StoreAt(w) * B, (StoreAt(w) + k) * B)
                   ELSE Untouched(Position(w), Position(w) + Len(v))
      /\ UNCHANGED <<bytePos, bitIndex>>
  BY <1>0 DEF WriteShort
<1>2. WalkerType /\ StoreAt(w) \in Nat /\ bytePos[w] \in Int /\ k \in Nat /\ k \in 0..Window
  <2>1. WalkerType /\ Window \in Nat
    BY BitWalkerAssumption DEF WalkerInv
  <2>2. bytePos[w] \in Int
    BY <2>1 DEF WalkerType
  <2> QED  BY <2>1, <2>2, OffsetType
<1>3. k * B \in Nat /\ Window * B \in Nat /\ k * B <= Window * B
  <2>1. B \in Nat /\ Window - k \in Nat /\ Window \in Nat
    BY <1>2, BitWalkerAssumption
  <2>2. (Window - k) * B \in Nat /\ Window * B = k * B + (Window - k) * B /\ k * B \in Nat
    BY <1>2, <2>1
  <2> QED  BY <2>1, <2>2
<1>4. b \in Seq(BitSet) /\ Len(b) = k * B /\ \A i \in 1..k * B : b[i] = NewWindow(w, v)[i]
  <2>1. NewWindow(w, v) \in [1..Window * B -> BitSet]
    <3>1. SeekTo(bytePos[w]) \in Nat /\ ToEndian(v, endian[w]) \in Seq(BitSet)
      BY <1>2, OffsetType, ValueType
    <3> QED  BY <1>2, <3>1, WindowBits DEF NewWindow
  <2>2. \A i \in 1..k * B : NewWindow(w, v)[i] \in BitSet
    BY <1>3, <2>1
  <2>3. /\ b \in Seq(BitSet)
        /\ Len(b) = IF 1 <= k * B THEN k * B - 1 + 1 ELSE 0
        /\ \A i \in 1..k * B - 1 + 1 : b[i] = NewWindow(w, v)[1 + i - 1]
    <3>1. \A i \in 1..k * B : NewWindow(w, v)[i] \in BitSet
      BY <2>2
    <3>2. 1 \in Int /\ k * B \in Int
      BY <1>3
    <3> QED  BY <1>0, <3>1, <3>2, SubSeqProperties
  <2> QED  BY <1>3, <2>3
<1>5. file' \in Seq(BitSet)
  BY <1>1, <1>2, <1>4, OverwriteBits DEF WalkerType
<1>6. WalkerType'
  BY <1>1, <1>2, <1>5 DEF WalkerType
<1>7. ASSUME NEW f \in fields' PROVE FieldType(f) /\ InFile(f)'
  <2>1. CASE bytePos[w] < 0
    BY <1>1, <1>2, <1>4, <1>7, <2>1, StoreKeeps
  <2>2. CASE bytePos[w] >= 0
    <3>1. ~(bytePos[w] < 0)
      BY <1>2, <2>2
    <3> QED  BY <1>1, <1>2, <1>4, <1>7, <2>2, <3>1, StoreKeeps
  <2> QED  BY <1>2, <2>1, <2>2
<1> QED  BY <1>6, <1>7 DEF WalkerInv, FieldType, WholeBytes

\* A buffer is a field of whole bytes.
LEMMA BufferInv ==
  ASSUME WalkerInv, NEW w \in Walker, NEW b \in Buffers, EFBitWalkerWriteBuffer(w, b), endian' = endian
  PROVE  WalkerInv'
<1>0. PICK base, a : base = SeekTo(Aligned(w)) /\ a = base * B
  OBVIOUS
<1>1. /\ Overwrite(base, b) /\ offset' = base + 1
      /\ fields' = Untouched(a, (base + 1) * B) \cup {[start |-> a, value |-> b, endian |-> endian[w]]}
      /\ AlignAndMove(w, 1)
  BY <1>0 DEF EFBitWalkerWriteBuffer, Written
<1>2. WalkerType /\ Aligned(w) \in Int /\ endian[w] \in {"little", "big"} /\ B \in Nat \ {0}
  BY BitWalkerAssumption DEF WalkerInv, WalkerType, Aligned
<1>3. base \in Nat /\ a \in Nat /\ (base + 1) * B = a + B
  <2>1. base \in Nat
    BY <1>0, <1>2, OffsetType
  <2> QED  BY <1>0, <1>2, <2>1
<1>4. b \in Seq(BitSet) /\ Len(b) = B /\ DOMAIN b = 1..B /\ b # <<>>
  <2>1. b \in [1..B -> BitSet]
    BY BitWalkerAssumption DEF BitSet
  <2>2. b \in Seq(BitSet) /\ Len(b) = B /\ DOMAIN b = 1..B
    BY <1>2, <2>1, BitSeq
  <2> QED  BY <1>2, <2>2, EmptySeq
<1>5. /\ file' \in Seq(BitSet)
      /\ \A i \in Nat : Bit(i)' = IF i - a + 1 \in 1..B THEN b[i - a + 1] ELSE Bit(i)
  BY <1>0, <1>1, <1>2, <1>3, <1>4, OverwriteBits DEF WalkerType
<1>6. WalkerType'
  BY <1>1, <1>2, <1>3, <1>5, AlignType DEF WalkerType
<1>7. ASSUME NEW f \in fields' PROVE FieldType(f) /\ InFile(f)'
  <2>1. CASE f \in Untouched(a, a + B)
    <3>1. \A i \in Nat : i < a \/ i >= a + B => Bit(i)' = Bit(i)
      BY <1>2, <1>3, <1>5
    <3>2. a + B \in Nat
      BY <1>2, <1>3
    <3> QED  BY <1>3, <2>1, <3>1, <3>2, UntouchedKept
  <2>2. CASE f = [start |-> a, value |-> b, endian |-> endian[w]]
    <3>1. f.start = a /\ f.value = b /\ f.endian = endian[w]
      BY <2>2
    <3>2. FieldType(f)
      BY <1>2, <1>3, <1>4, <3>1 DEF FieldType, WholeBytes
    <3>3. ToEndian(f.value, f.endian) = b
      BY <1>2, <1>4, <3>1 DEF ToEndian
    <3>4. ASSUME NEW k \in 1..B PROVE Bit(f.start + k - 1)' = b[k]
      <4>1. PICK i : i = a + k - 1
        OBVIOUS
      <4>2. i \in Nat /\ i - a + 1 = k
        BY <1>2, <1>3, <4>1
      <4>3. Bit(i)' = b[k]
        BY <1>5, <4>2
      <4> QED  BY <3>1, <4>1, <4>3
    <3>5. \A k \in DOMAIN f.value : Bit(f.start + k - 1)' = ToEndian(f.value, f.endian)[k]
      BY <1>4, <3>1, <3>3, <3>4
    <3> QED  BY <3>2, <3>5 DEF InFile
  <2> QED  BY <1>1, <1>3, <1>7, <2>1, <2>2
<1> QED  BY <1>6, <1>7 DEF WalkerInv, FieldType, WholeBytes

\* All other calls leave the file alone.
LEMMA QuietInv ==
  ASSUME WalkerInv, UNCHANGED <<file, endian, fields>>, offset' \in Nat,
         bytePos' \in [Walker -> Int], bitIndex' \in [Walker -> 0..B - 1]
  PROVE  WalkerInv'
<1>1. WalkerType'
  BY DEF WalkerInv, WalkerType
<1>2. \A i : Bit(i)' = Bit(i)
  BY DEF Bit
<1>3. \A f \in fields' : FieldType(f) /\ InFile(f)'
  BY <1>2 DEF WalkerInv, InFile
<1> QED  BY <1>1, <1>3 DEF WalkerInv, FieldType, WholeBytes

LEMMA InitWalkerInv == InitWalker => WalkerInv
<1> SUFFICES ASSUME InitWalker PROVE WalkerInv
  OBVIOUS
<1>1. B \in Nat \ {0} /\ file \in [1..B -> BitSet]
  BY BitWalkerAssumption DEF InitWalker, BitSet
<1>2. file \in Seq(BitSet) /\ Len(file) = B /\ DOMAIN file = 1..B
  BY <1>1, BitSeq
<1>3. file # <<>>
  BY <1>1, <1>2, EmptySeq
<1>4. WalkerType
  BY <1>1, <1>2 DEF InitWalker, WalkerType
<1>5. ASSUME NEW f \in fields PROVE FieldType(f) /\ InFile(f)
  <2>1. f.start = 0 /\ f.value = file /\ f.endian = "little"
    BY DEF InitWalker
  <2>2. FieldType(f)
    BY <1>2, <1>3, <2>1 DEF FieldType
  <2>3. ToEndian(f.value, f.endian) = file
    BY <2>1 DEF ToEndian
  <2>4. \A k \in 1..B : Bit(0 + k - 1) = file[k]
    BY <1>1, <1>2 DEF Bit
  <2> QED  BY <1>2, <2>1, <2>2, <2>3, <2>4 DEF InFile
<1> QED  BY <1>4, <1>5 DEF WalkerInv

LEMMA NextWalkerInv == WholeFields /\ WalkerInv /\ [WalkerNext]_walkerVars => WalkerInv'
<1> SUFFICES ASSUME WholeFields, WalkerInv, [WalkerNext]_walkerVars PROVE WalkerInv'
  OBVIOUS
<1>1. /\ WalkerType /\ bytePos \in [Walker -> Int] /\ bitIndex \in [Walker -> 0..B - 1]
      /\ B \in Nat \ {0} /\ Window \in Nat /\ MaxBytes \in Nat /\ Skips \subseteq Int
  BY BitWalkerAssumption DEF WalkerInv, WalkerType
<1>2. \A w \in Walker : bytePos[w] \in Int /\ Aligned(w) \in Int
  BY <1>1 DEF Aligned
<1>3. /\ \A w \in Walker : SeekTo(bytePos[w]) \in Nat /\ SeekTo(Aligned(w)) \in Nat
      /\ \A p, n \in Nat : BytesRead(p, n) \in Nat
  BY <1>1, <1>2, OffsetType
<1>4. CASE UNCHANGED walkerVars
  BY <1>1, <1>4, QuietInv DEF walkerVars, WalkerType
<1>5. ASSUME WalkerNext PROVE WalkerInv'
  <2>1. endian' = endian
    BY <1>5 DEF WalkerNext
  <2>2. ASSUME NEW w \in Walker, WriteCall(w) PROVE WalkerInv'
    BY <2>1, <2>2, WriteInv, ShortInv DEF WriteCall
  <2>3. ASSUME NEW w \in Walker, WriteNotRead(w) \/ EFBitWalkerRead(w) PROVE WalkerInv'
    <3>1. BytesRead(SeekTo(bytePos[w]), Window) \in Nat
      BY <1>1, <1>3
    <3>2. /\ UNCHANGED <<file, bytePos, bitIndex, fields>>
          /\ \/ offset' = SeekTo(bytePos[w])
             \/ offset' = SeekTo(bytePos[w]) + BytesRead(SeekTo(bytePos[w]), Window)
      BY <2>3 DEF WriteNotRead, EFBitWalkerRead
    <3>3. offset' \in Nat
      <4>1. SeekTo(bytePos[w]) \in Nat
        BY <1>3
      <4> QED  BY <3>1, <3>2, <4>1
    <3> QED  BY <1>1, <2>1, <3>2, <3>3, QuietInv
  <2>4. ASSUME NEW w \in Walker, BufferCall(w) PROVE WalkerInv'
    <3>1. ASSUME NEW b \in Buffers, EFBitWalkerWriteBuffer(w, b) PROVE WalkerInv'
      BY <2>1, <3>1, BufferInv
    <3>2. ASSUME NEW n \in 1..2, EFBitWalkerReadBuffer(w, n) PROVE WalkerInv'
      <4>1. SeekTo(Aligned(w)) \in Nat /\ BytesRead(SeekTo(Aligned(w)), n) \in Nat
        <5>1. n \in Nat
          OBVIOUS
        <5> QED  BY <1>3, <5>1
      <4>2. /\ offset' = SeekTo(Aligned(w)) + BytesRead(SeekTo(Aligned(w)), n)
            /\ AlignAndMove(w, BytesRead(SeekTo(Aligned(w)), n)) /\ UNCHANGED <<file, fields>>
        BY <3>2 DEF EFBitWalkerReadBuffer
      <4>3. bytePos' \in [Walker -> Int] /\ bitIndex' \in [Walker -> 0..B - 1]
        BY <1>1, <4>1, <4>2, AlignType
      <4>4. offset' \in Nat
        BY <4>1, <4>2
      <4> QED  BY <2>1, <4>2, <4>3, <4>4, QuietInv
    <3>3. ASSUME BufferFails(w) PROVE WalkerInv'
      <4>1. offset' \in Nat /\ AlignAndMove(w, -1) /\ UNCHANGED <<file, fields>>
        BY <1>3, <3>3 DEF BufferFails
      <4>2. bytePos' \in [Walker -> Int] /\ bitIndex' \in [Walker -> 0..B - 1]
        BY <1>1, <4>1, AlignType
      <4> QED  BY <2>1, <4>1, <4>2, QuietInv
    <3> QED  BY <2>4, <3>1, <3>2, <3>3 DEF BufferCall
  <2>5. ASSUME NEW w \in Walker, CursorCall(w) PROVE WalkerInv'
    <3>1. ASSUME NEW p \in 0..MaxBytes, NEW i \in 0..B - 1, EFBitWalkerSeek(w, p, i) PROVE WalkerInv'
      BY <1>1, <2>1, <3>1, QuietInv DEF EFBitWalkerSeek, WalkerType
    <3>2. ASSUME NEW n \in Skips, EFBitWalkerSkip(w, n) PROVE WalkerInv'
      BY <1>1, <2>1, <3>2, AdvanceType, QuietInv DEF EFBitWalkerSkip, WalkerType
    <3>3. ASSUME EFBitWalkerAlignByte(w) PROVE WalkerInv'
      BY <1>1, <2>1, <3>3, AlignType, QuietInv DEF EFBitWalkerAlignByte, WalkerType
    <3> QED  BY <2>5, <3>1, <3>2, <3>3 DEF CursorCall
  <2>6. ASSUME NEW p \in 0..MaxBytes, HandleSeek(p) PROVE WalkerInv'
    BY <1>1, <2>1, <2>6, QuietInv DEF HandleSeek
  <2> QED  BY <1>5, <2>2, <2>3, <2>4, <2>5, <2>6 DEF WalkerNext
<1> QED  BY <1>4, <1>5

\* What walkers have written is read back, for bytes and windows of any size,
\* any number of walkers and any values, as long as big-endian walkers write at
\* most a byte or whole bytes: a write changes only the bits of its field,
\* wherever the shared offset was left, whether or not it completes.
THEOREM WalkersReadBack == ASSUME WholeFields PROVE WalkerSpec => []ReadBack
<1>1. WalkerInv => ReadBack
  BY InFileReadsBack DEF WalkerInv, ReadBack
<1>2. WalkerInv /\ [WalkerNext]_walkerVars => WalkerInv'
  BY NextWalkerInv
<1> QED  BY <1>1, <1>2, InitWalkerInv, PTL DEF WalkerSpec
=============================================================================
