------------------------------ MODULE EFClass -------------------------------
(***************************************************************************)
(* The class registry of EFRuntime/EFClass.c: a table from type            *)
(* identifiers to class definitions, allocated on first use, grown one     *)
(* chunk at a time and guarded by one mutex.  Threads register classes     *)
(* (EFClassRegister) and look them up (__EFClassGetByID) concurrently.     *)
(* Assertions are compiled in, and an assertion that fails stops the       *)
(* process.                                                                *)
(***************************************************************************)
EXTENDS Integers, EFThreads

CONSTANTS Class,            \* definitions user code registers
          FoundationClass,  \* stands for each of the library's own definitions
          NoClass,          \* the NULL pointer
          Garbage,          \* what memory never written, or freed, reads as
          Builtin,          \* kEFTypeIDFileManager, the last built-in identifier (14)
          Chunk,            \* entries added by one allocation (1024)
          MaxID             \* bound on the identifiers given out

ASSUME RegistryAssumption ==
    /\ Builtin \in Nat /\ Chunk \in Nat /\ MaxID \in Nat
    /\ Builtin < Chunk
    /\ Builtin <= MaxID
    /\ NoClass \notin Class \cup {FoundationClass, Garbage}
    /\ Nobody \notin Thread

ID == 0..MaxID
Entry == Class \cup {FoundationClass, NoClass, Garbage}

VARIABLES efClassLock,      \* the thread that holds the mutex
          allocated,        \* efClassTable # NULL
          efClassTable,     \* the entries, those past the allocation included
          efClassNext,      \* the last identifier given out
          efClassCapacity,  \* number of entries allocated
          pc,               \* where each thread is
          class,            \* the definition a registering thread has copied
          typeID,           \* the identifier a thread registers or looks up
          found,            \* [id, class, issued] of the lookup a thread has just made
          issued,           \* issued[id]: the class registered under id
          stopped           \* an assertion has failed

registryVars == <<efClassLock, allocated, efClassTable, efClassNext, efClassCapacity,
                  pc, class, typeID, found, issued, stopped>>
table == <<allocated, efClassTable, efClassCapacity>>

NoLookup == [id |-> 0, class |-> NoClass, issued |-> NoClass]

InitRegistry == /\ efClassLock = Nobody
                /\ allocated = FALSE
                /\ efClassTable = [id \in ID |-> Garbage]
                /\ efClassNext = Builtin
                /\ efClassCapacity = 0
                /\ pc = [t \in Thread |-> "idle"]
                /\ class = [t \in Thread |-> NoClass]
                /\ typeID = [t \in Thread |-> 0]
                /\ found = [t \in Thread |-> NoLookup]
                /\ issued = [id \in ID |-> IF id \in 1..Builtin THEN FoundationClass ELSE NoClass]
                /\ stopped = FALSE

Goto(t, from, to) == pc[t] = from /\ pc' = [pc EXCEPT ![t] = to]

\* A lock that does not wait.
AcquireNoWait(t) == efClassLock' = t

Acquire(t) == efClassLock = Nobody /\ efClassLock' = t
Unlock == efClassLock' = Nobody

(***************************************************************************)
(* __EFClassTableExtendIfNeeded, called with the mutex held                *)
(***************************************************************************)

AllocateTable ==
    /\ ~allocated
    /\ allocated' = TRUE
    /\ efClassCapacity' = Chunk
    /\ efClassTable' = [id \in ID |-> IF id = 0 THEN NoClass
                                      ELSE IF id <= Builtin THEN FoundationClass
                                      ELSE Garbage]

\* realloc moves the allocated entries and nothing beyond them.
GrowTable ==
    /\ allocated
    /\ efClassCapacity < efClassNext
    /\ efClassCapacity' = efClassCapacity + Chunk
    /\ efClassTable' = [id \in ID |-> IF id < efClassCapacity THEN efClassTable[id] ELSE Garbage]
    /\ UNCHANGED allocated

KeepTable == allocated /\ efClassCapacity >= efClassNext /\ UNCHANGED table

(***************************************************************************)
(* EFClassRegister                                                         *)
(***************************************************************************)

\* EFClassCopySafely, before the mutex is taken.
CopyClass(t, c) ==
    /\ Goto(t, "idle", "copied")
    /\ class' = [class EXCEPT ![t] = c]
    /\ found' = [found EXCEPT ![t] = NoLookup]
    /\ UNCHANGED <<efClassLock, table, efClassNext, typeID, issued, stopped>>

\* No memory for the copy, or a definition of an unknown version.
CopyFails(t) ==
    /\ pc[t] = "idle"
    /\ stopped' = TRUE
    /\ UNCHANGED <<efClassLock, table, efClassNext, pc, class, typeID, found, issued>>

LockRegister(t) ==
    /\ efClassNext < MaxID
    /\ Goto(t, "copied", "locked")
    /\ Acquire(t)
    /\ UNCHANGED <<table, efClassNext, class, typeID, found, issued, stopped>>

\* The identifier read before the increment.
TakeIDPostIncrement(t) ==
    /\ Goto(t, "locked", "numbered")
    /\ efClassNext' = efClassNext + 1
    /\ typeID' = [typeID EXCEPT ![t] = efClassNext]
    /\ UNCHANGED <<efClassLock, table, class, found, issued, stopped>>

TakeID(t) ==
    /\ Goto(t, "locked", "numbered")
    /\ efClassNext' = efClassNext + 1
    /\ typeID' = [typeID EXCEPT ![t] = efClassNext + 1]
    /\ UNCHANGED <<efClassLock, table, class, found, issued, stopped>>

Extend(t) ==
    /\ Goto(t, "numbered", "extended")
    /\ AllocateTable \/ GrowTable \/ KeepTable
    /\ UNCHANGED <<efClassLock, efClassNext, class, typeID, found, issued, stopped>>

\* The allocator fails and the assertion around the call does not hold.
ExtendFails(t) ==
    /\ pc[t] = "numbered"
    /\ ~allocated \/ efClassCapacity < efClassNext
    /\ stopped' = TRUE
    /\ UNCHANGED <<efClassLock, table, efClassNext, pc, class, typeID, found, issued>>

\* The definition written to the slot before its own.
StoreClassOffByOne(t) ==
    /\ Goto(t, "extended", "idle")
    /\ efClassTable' = [efClassTable EXCEPT ![typeID[t] - 1] = class[t]]
    /\ issued' = [issued EXCEPT ![typeID[t]] = class[t]]
    /\ class' = [class EXCEPT ![t] = NoClass]
    /\ typeID' = [typeID EXCEPT ![t] = 0]
    /\ Unlock
    /\ UNCHANGED <<allocated, efClassCapacity, efClassNext, found, stopped>>

\* A write past the allocation may or may not survive.
StoreClass(t) ==
    /\ Goto(t, "extended", "idle")
    /\ \E stored \in {class[t]} \cup (IF typeID[t] < efClassCapacity THEN {} ELSE {Garbage}) :
          efClassTable' = [efClassTable EXCEPT ![typeID[t]] = stored]
    /\ issued' = [issued EXCEPT ![typeID[t]] = class[t]]
    /\ class' = [class EXCEPT ![t] = NoClass]
    /\ typeID' = [typeID EXCEPT ![t] = 0]
    /\ Unlock
    /\ UNCHANGED <<allocated, efClassCapacity, efClassNext, found, stopped>>

(***************************************************************************)
(* __EFClassGetByID                                                        *)
(***************************************************************************)

LockLookup(t, id) ==
    /\ Goto(t, "idle", "lookup")
    /\ Acquire(t)
    /\ typeID' = [typeID EXCEPT ![t] = id]
    /\ found' = [found EXCEPT ![t] = NoLookup]
    /\ UNCHANGED <<table, efClassNext, class, issued, stopped>>

\* The entry read and the mutex given back.
ReadClass(t) ==
    /\ Goto(t, "lookup", "idle")
    /\ AllocateTable \/ (allocated /\ UNCHANGED table)
    /\ found' = [found EXCEPT ![t] =
                    [id |-> typeID[t],
                     class |-> IF typeID[t] > efClassNext THEN NoClass ELSE efClassTable'[typeID[t]],
                     issued |-> issued[typeID[t]]]]
    /\ typeID' = [typeID EXCEPT ![t] = 0]
    /\ Unlock
    /\ UNCHANGED <<efClassNext, class, issued, stopped>>

\* The early return that forgets the mutex.
ReadClassKeepsLock(t) ==
    /\ Goto(t, "lookup", "idle")
    /\ ~allocated
    /\ typeID' = [typeID EXCEPT ![t] = 0]
    /\ UNCHANGED <<efClassLock, table, efClassNext, class, found, issued, stopped>>

\* The first allocation of the table fails: NULL is returned.
ReadClassFails(t) ==
    /\ Goto(t, "lookup", "idle")
    /\ ~allocated
    /\ typeID' = [typeID EXCEPT ![t] = 0]
    /\ Unlock
    /\ UNCHANGED <<table, efClassNext, class, found, issued, stopped>>

Register(t) == \/ \E c \in Class : CopyClass(t, c)
               \/ CopyFails(t)
               \/ LockRegister(t)

\* Steps of a thread that holds the mutex.
Critical(t) == TakeID(t) \/ Extend(t) \/ ExtendFails(t) \/ StoreClass(t)
               \/ ReadClass(t) \/ ReadClassFails(t)

RegistryNext == ~stopped /\ \E t \in Thread : \/ Register(t)
                                              \/ \E id \in ID : LockLookup(t, id)
                                              \/ Critical(t)

RegistrySpec == InitRegistry /\ [][RegistryNext]_registryVars

\* A thread inside the critical section does not block, so it keeps running.
FairRegistry == RegistrySpec /\ \A t \in Thread : WF_registryVars(~stopped /\ Critical(t))

(***************************************************************************)
(* Properties                                                              *)
(***************************************************************************)

InCritical(t) == pc[t] \in {"locked", "numbered", "extended", "lookup"}

RegistryTypeOK == /\ efClassLock \in Thread \cup {Nobody}
                  /\ allocated \in BOOLEAN
                  /\ efClassTable \in [ID -> Entry]
                  /\ efClassNext \in Builtin..MaxID
                  /\ efClassCapacity \in Nat
                  /\ pc \in [Thread -> {"idle", "copied", "locked", "numbered", "extended", "lookup"}]
                  /\ class \in [Thread -> Class \cup {NoClass}]
                  /\ typeID \in [Thread -> ID]
                  /\ found \in [Thread -> [id : ID, class : Entry, issued : Entry]]
                  /\ issued \in [ID -> Class \cup {FoundationClass, NoClass}]
                  /\ stopped \in BOOLEAN
                  /\ \A t \in Thread : InCritical(t) <=> efClassLock = t

Boundary(id) == \E k \in 0..MaxID : id = k * Chunk

\* An identifier, once returned by EFClassRegister, is never given to another
\* class, whatever threads register at the same time.
IssuedOnce == [][\A id \in ID : issued[id] # NoClass => issued'[id] = issued[id]]_registryVars

\* A lookup of a registered identifier returns the class registered under it:
\* growing the table, and registrations and lookups in between, lose nothing -
\* except at identifiers that are a multiple of the chunk size.
LookupOK == \A t \in Thread :
                found[t].issued # NoClass /\ ~Boundary(found[t].id) =>
                    found[t].class = found[t].issued

\* The slot EFClassRegister writes (EFClass.c, efClassTable[id] = ...) lies inside
\* the allocation that the assertion before it has extended "if needed".
RoomForID == \A t \in Thread : pc[t] = "extended" => typeID[t] < efClassCapacity

\* No path through the registry keeps the mutex.
LockReleased == \A t \in Thread : efClassLock = t ~> efClassLock # t \/ stopped
=============================================================================
