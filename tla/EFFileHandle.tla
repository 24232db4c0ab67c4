---------------------------- MODULE EFFileHandle ----------------------------
(***************************************************************************)
(* File handles of EFFileHandle.c.  A handle owns one descriptor number;   *)
(* the number stands for an open file description, which holds the cursor  *)
(* and the access mode and which copies of the handle share, because       *)
(* EFFileHandleCreateCopy duplicates the descriptor.  Numbers are given    *)
(* out lowest first and are used again once closed.                        *)
(*                                                                         *)
(* Contents are abstracted to the positions they are read from: a read     *)
(* returns where it started and how many bytes it got.  All descriptions   *)
(* are of one regular file.  A call that makes several system calls is one *)
(* action per system call, with the call under way in call[t].             *)
(***************************************************************************)
EXTENDS Integers, FiniteSets

CONSTANTS Thread,     \* threads that use handles
          Handle,     \* EFFileHandle objects
          Desc,       \* open file descriptions
          MaxFd,      \* size of the process's descriptor table
          MaxLen,     \* bound on the file's size and on cursors
          Locations,  \* locations asked for, -1 among them
          Lengths,    \* lengths asked for
          Modes,      \* access modes files are opened with, of "r", "w" and "rw"
          Serial      \* kinds of calls, "move" and "range", that are not made
                      \* while another call on the same description is under way

ASSUME FileHandleAssumption == /\ MaxFd \in Nat /\ MaxLen \in Nat /\ "unused" \notin Desc
                               /\ Locations \subseteq Int /\ Lengths \subseteq Nat
                               /\ Modes \subseteq {"r", "w", "rw"}
                               /\ Serial \subseteq {"move", "range"}

VARIABLES table,   \* table[f]: the description descriptor f stands for
          mode,    \* mode[d]: the access mode description d was opened with
          pos,     \* pos[d]: the cursor
          size,    \* the size of the file
          fdOf,    \* fdOf[h]: the fileDescriptor field; Closed: h does not exist
          call,    \* call[t]: the call thread t is executing
          leaked,  \* descriptors no handle and no call will ever close
          home,    \* home[d]: where calls that are to move the cursor left it
          crashed  \* a NULL object was dereferenced

vars == <<table, mode, pos, size, fdOf, call, leaked, home, crashed>>

Fd == 0..MaxFd - 1
Closed == -1
Unused == "unused"
Idle == [kind |-> "none"]

Init == /\ table = [f \in Fd |-> Unused]
        /\ mode = [d \in Desc |-> "rw"]
        /\ pos = [d \in Desc |-> 0]
        /\ size \in 0..MaxLen
        /\ fdOf = [h \in Handle |-> Closed]
        /\ call = [t \in Thread |-> Idle]
        /\ leaked = {}
        /\ home = [d \in Desc |-> 0]
        /\ crashed = FALSE

Least(S) == CHOOSE x \in S : \A y \in S : x <= y
FreeFds == {f \in Fd : table[f] = Unused}
FreeDescs == {d \in Desc : \A f \in Fd : table[f] # d}
Exists(h) == fdOf[h] # Closed
DescOf(h) == table[fdOf[h]]
Readable(d) == mode[d] \in {"r", "rw"}
Writable(d) == mode[d] \in {"w", "rw"}

Go(t, next) == call' = [call EXCEPT ![t] = next]

\* A call of this kind on h may begin: nobody is inside a call on the same
\* description that it has to wait for, or that others have to wait for.
Alone(t, h, kind) == \A u \in Thread \ {t} :
    /\ call[u].kind \in {"move", "range"}
    /\ {kind, call[u].kind} \cap Serial # {}
    => DescOf(call[u].handle) # DescOf(h)

Unmoved == UNCHANGED <<mode, pos, home>>
DescriptorsKept == UNCHANGED <<table, mode, fdOf, leaked>>

(***************************************************************************)
(* EFFileHandleCreateWithURLAndOptions: open, then                         *)
(* EFFileHandleCreateWithFileDescriptor (dup, create the object), then     *)
(* close.  An open or a dup that finds the table full makes the call fail. *)
(***************************************************************************)

NewDescription(f, d, m) ==
    /\ table' = [table EXCEPT ![f] = d]
    /\ mode' = [mode EXCEPT ![d] = m]
    /\ pos' = [pos EXCEPT ![d] = 0]
    /\ home' = [home EXCEPT ![d] = 0]

Open(t, d, m, truncate) ==
    /\ call[t] = Idle
    /\ FreeFds # {} /\ d \in FreeDescs
    /\ NewDescription(Least(FreeFds), d, m)
    /\ size' = IF truncate THEN 0 ELSE size
    /\ Go(t, [kind |-> "open", pc |-> "dup", fd |-> Least(FreeFds)])
    /\ UNCHANGED <<fdOf, leaked, crashed>>

Dup(t) ==
    /\ call[t].kind = "open" /\ call[t].pc = "dup"
    /\ FreeFds # {}
    /\ table' = [table EXCEPT ![Least(FreeFds)] = table[call[t].fd]]
    /\ Go(t, [kind |-> "open", pc |-> "create", fd |-> call[t].fd, dup |-> Least(FreeFds)])
    /\ Unmoved /\ UNCHANGED <<size, fdOf, leaked, crashed>>

DupFails(t) ==
    /\ call[t].kind = "open" /\ call[t].pc = "dup"
    /\ FreeFds = {}
    /\ Go(t, [kind |-> "open", pc |-> "close", fd |-> call[t].fd])
    /\ Unmoved /\ UNCHANGED <<table, size, fdOf, leaked, crashed>>

Create(t, h) ==
    /\ call[t].kind = "open" /\ call[t].pc = "create"
    /\ ~Exists(h)
    /\ fdOf' = [fdOf EXCEPT ![h] = call[t].dup]
    /\ Go(t, [kind |-> "open", pc |-> "close", fd |-> call[t].fd])
    /\ Unmoved /\ UNCHANGED <<table, size, leaked, crashed>>

\* No memory for the object: CreateWithFileDescriptor returns NULL and the
\* duplicate stays open.
CreateFails(t) ==
    /\ call[t].kind = "open" /\ call[t].pc = "create"
    /\ leaked' = leaked \cup {call[t].dup}
    /\ Go(t, [kind |-> "open", pc |-> "close", fd |-> call[t].fd])
    /\ Unmoved /\ UNCHANGED <<table, size, fdOf, crashed>>

Close(t) ==
    /\ call[t].kind = "open" /\ call[t].pc = "close"
    /\ table' = [table EXCEPT ![call[t].fd] = Unused]
    /\ Go(t, Idle)
    /\ Unmoved /\ UNCHANGED <<size, fdOf, leaked, crashed>>

(***************************************************************************)
(* Copies and destruction                                                  *)
(***************************************************************************)

\* The copy keeps the number instead of a duplicate of it.
CreateCopyWithoutDup(t, h, n) ==
    /\ call[t] = Idle
    /\ Exists(h) /\ ~Exists(n)
    /\ fdOf' = [fdOf EXCEPT ![n] = fdOf[h]]
    /\ Unmoved /\ UNCHANGED <<table, size, call, leaked, crashed>>

EFFileHandleCreateCopy(t, h, n) ==
    /\ call[t] = Idle
    /\ Exists(h) /\ ~Exists(n)
    /\ FreeFds # {}
    /\ table' = [table EXCEPT ![Least(FreeFds)] = DescOf(h)]
    /\ fdOf' = [fdOf EXCEPT ![n] = Least(FreeFds)]
    /\ Unmoved /\ UNCHANGED <<size, call, leaked, crashed>>

\* No memory for the copy: the code tests the wrong variable and stores
\* through the NULL pointer.
CreateCopyCrashes(t, h) ==
    /\ call[t] = Idle
    /\ Exists(h)
    /\ crashed' = TRUE
    /\ Unmoved /\ UNCHANGED <<table, size, fdOf, call, leaked>>

\* The last reference goes.  A thread inside a call on h keeps one.
Unheld(h) == \A u \in Thread : call[u].kind \in {"range", "move"} => call[u].handle # h

Destroy(h) ==
    /\ Exists(h) /\ Unheld(h)
    /\ table' = [table EXCEPT ![fdOf[h]] = Unused]
    /\ fdOf' = [fdOf EXCEPT ![h] = Closed]
    /\ Unmoved /\ UNCHANGED <<size, call, leaked, crashed>>

(***************************************************************************)
(* Calls of one system call                                                *)
(***************************************************************************)

MoveTo(d, p) == /\ pos' = [pos EXCEPT ![d] = p]
                /\ home' = [home EXCEPT ![d] = p]

\* What a read of n bytes at p gets: whole, or cut short by the end of the file.
Got(p, n) == IF p >= size THEN 0 ELSE IF p + n <= size THEN n ELSE size - p

EFFileHandleSeek(t, h, p) ==
    /\ call[t] = Idle /\ Exists(h) /\ Alone(t, h, "move")
    /\ p \in 0..MaxLen
    /\ MoveTo(DescOf(h), p)
    /\ DescriptorsKept /\ UNCHANGED <<size, call, crashed>>

EFFileHandleRead(t, h, n) ==
    /\ call[t] = Idle /\ Exists(h) /\ Alone(t, h, "move")
    /\ Readable(DescOf(h))
    /\ MoveTo(DescOf(h), pos[DescOf(h)] + Got(pos[DescOf(h)], n))
    /\ DescriptorsKept /\ UNCHANGED <<size, call, crashed>>

\* EFFileHandleWriteData, Putc, Puts and Printf end in the same write.
EFFileHandleWrite(t, h, n) ==
    /\ call[t] = Idle /\ Exists(h) /\ Alone(t, h, "move")
    /\ Writable(DescOf(h))
    /\ LET p == pos[DescOf(h)] + n IN
       /\ p <= MaxLen
       /\ MoveTo(DescOf(h), p)
       /\ size' = IF p > size THEN p ELSE size
    /\ DescriptorsKept /\ UNCHANGED <<call, crashed>>

EFFileHandleTruncate(t, h, n) ==
    /\ call[t] = Idle /\ Exists(h) /\ Alone(t, h, "move")
    /\ Writable(DescOf(h))
    /\ n \in 0..MaxLen
    /\ size' = n
    /\ DescriptorsKept /\ UNCHANGED <<pos, home, call, crashed>>

(***************************************************************************)
(* EFFileHandleReadData: a check that adds the cursor to the size where it *)
(* means to subtract it, then a read that must not be short.               *)
(***************************************************************************)

EFFileHandleReadData(t, h, n) ==
    /\ call[t] = Idle /\ Exists(h) /\ Alone(t, h, "move")
    /\ Readable(DescOf(h))
    /\ size + pos[DescOf(h)] >= n
    /\ Go(t, [kind |-> "move", pc |-> "read", handle |-> h, length |-> n])
    /\ DescriptorsKept /\ UNCHANGED <<pos, size, home, crashed>>

\* A short read moves the cursor although the call returns NULL.
ReadDataRead(t) ==
    /\ call[t].kind = "move"
    /\ LET d == DescOf(call[t].handle) IN
       MoveTo(d, pos[d] + Got(pos[d], call[t].length))
    /\ Go(t, Idle)
    /\ DescriptorsKept /\ UNCHANGED <<size, crashed>>

(***************************************************************************)
(* EFFileHandleCopyDataForRange: remember the cursor, seek, read, restore. *)
(* call[t].from and call[t].got describe the data the call will return;    *)
(* got is -1 when it will return NULL.                                     *)
(***************************************************************************)

EFFileHandleCopyDataForRange(t, h, loc, n) ==
    /\ call[t] = Idle /\ Exists(h) /\ Alone(t, h, "range")
    /\ Go(t, [kind |-> "range", pc |-> "seek", handle |-> h, location |-> loc,
              length |-> n, backup |-> pos[DescOf(h)], from |-> 0, got |-> -1])
    /\ DescriptorsKept /\ UNCHANGED <<pos, size, home, crashed>>

InRange(t, pc) == call[t].kind = "range" /\ call[t].pc = pc

\* A negative location is refused by lseek with -1, and a location of -1 is
\* equal to that answer: the call goes on at the old cursor.
RangeSeek(t) ==
    /\ InRange(t, "seek")
    /\ LET d == DescOf(call[t].handle)
           loc == call[t].location IN
       /\ pos' = [pos EXCEPT ![d] = IF loc >= 0 THEN loc ELSE @]
       /\ Go(t, [call[t] EXCEPT !.pc = IF loc >= -1 THEN "read" ELSE "restore"])
    /\ DescriptorsKept /\ UNCHANGED <<size, home, crashed>>

\* A failed read or allocation, or a short read, that leaves the cursor.
RangeGivesUp(t) ==
    /\ InRange(t, "read")
    /\ Go(t, Idle)
    /\ DescriptorsKept /\ UNCHANGED <<pos, size, home, crashed>>

\* The buffer cannot be allocated, or read fails.
RangeReadFails(t) ==
    /\ InRange(t, "read")
    /\ Go(t, [call[t] EXCEPT !.pc = "restore"])
    /\ DescriptorsKept /\ UNCHANGED <<pos, size, home, crashed>>

\* A short read is taken for a whole one.
RangeReadShort(t) ==
    /\ InRange(t, "read")
    /\ LET d == DescOf(call[t].handle)
           n == Got(pos[d], call[t].length) IN
       /\ Readable(d)
       /\ pos' = [pos EXCEPT ![d] = @ + n]
       /\ Go(t, [call[t] EXCEPT !.pc = "restore", !.from = pos[d], !.got = n])
    /\ DescriptorsKept /\ UNCHANGED <<size, home, crashed>>

RangeRead(t) ==
    /\ InRange(t, "read")
    /\ LET d == DescOf(call[t].handle)
           n == Got(pos[d], call[t].length) IN
       /\ Readable(d)
       /\ pos' = [pos EXCEPT ![d] = @ + n]
       /\ Go(t, [call[t] EXCEPT !.pc = "restore", !.from = pos[d],
                                !.got = IF n < call[t].length THEN -1 ELSE n])
    /\ DescriptorsKept /\ UNCHANGED <<size, home, crashed>>

RangeRestore(t) ==
    /\ InRange(t, "restore")
    /\ pos' = [pos EXCEPT ![DescOf(call[t].handle)] = call[t].backup]
    /\ Go(t, Idle)
    /\ DescriptorsKept /\ UNCHANGED <<size, home, crashed>>

(***************************************************************************)

OpenCall(t) == \/ \E d \in Desc, m \in Modes, b \in BOOLEAN : Open(t, d, m, b)
               \/ Dup(t) \/ DupFails(t) \/ CreateFails(t) \/ Close(t)
               \/ \E h \in Handle : Create(t, h)

RangeCall(t) == \/ \E h \in Handle, loc \in Locations, n \in Lengths :
                       EFFileHandleCopyDataForRange(t, h, loc, n)
                \/ RangeSeek(t) \/ RangeReadFails(t) \/ RangeRead(t) \/ RangeRestore(t)

SimpleCall(t, h) == \/ \E p \in 0..MaxLen : EFFileHandleSeek(t, h, p)
                    \/ \E n \in Lengths : \/ EFFileHandleRead(t, h, n)
                                          \/ EFFileHandleWrite(t, h, n)
                                          \/ EFFileHandleReadData(t, h, n)
                    \/ \E n \in 0..MaxLen : EFFileHandleTruncate(t, h, n)

CopyCall(t, h) == \/ \E n \in Handle : EFFileHandleCreateCopy(t, h, n)
                  \/ CreateCopyCrashes(t, h)

Next == /\ ~crashed
        /\ \/ \E t \in Thread : OpenCall(t) \/ RangeCall(t) \/ ReadDataRead(t)
           \/ \E t \in Thread, h \in Handle : SimpleCall(t, h) \/ CopyCall(t, h)
           \/ \E h \in Handle : Destroy(h)

Spec == Init /\ [][Next]_vars

-----------------------------------------------------------------------------
(* The descriptors a thread will still close, or hand to a new object.      *)
InCall(t) == IF call[t].kind # "open" THEN {}
             ELSE {call[t].fd} \cup (IF call[t].pc = "create" THEN {call[t].dup} ELSE {})

(* Every open descriptor has exactly one owner: a handle, a call that is    *)
(* opening one, or nobody any more when the object could not be created.    *)
(* No close can therefore hit a number that belongs to somebody else        *)
(* (deinit, EFFileHandleCreateWithURLAndOptions).                           *)
OneOwner ==
    /\ \A f \in Fd : table[f] # Unused <=> \/ \E h \in Handle : fdOf[h] = f
                                           \/ \E t \in Thread : f \in InCall(t)
                                           \/ f \in leaked
    /\ \A h \in Handle : Exists(h) => /\ \A g \in Handle \ {h} : fdOf[g] # fdOf[h]
                                      /\ \A t \in Thread : fdOf[h] \notin InCall(t)
                                      /\ fdOf[h] \notin leaked
    /\ \A t \in Thread : /\ InCall(t) \cap leaked = {}
                         /\ \A u \in Thread \ {t} : InCall(t) \cap InCall(u) = {}

(* EFFileHandleCopyDataForRange gives the cursor back on every path, the    *)
(* failing ones too: outside such a call the cursor is where the last       *)
(* seek, read or write of the user left it.                                 *)
CursorRestored ==
    \A h \in Handle :
        Exists(h) /\ (\A t \in Thread : call[t].kind = "range" => DescOf(call[t].handle) # DescOf(h))
            => pos[DescOf(h)] = home[DescOf(h)]

(* The data EFFileHandleCopyDataForRange returns is the whole range asked   *)
(* for.  Location -1 is the exception the code has (see RangeSeek).         *)
RangeExact ==
    \A t \in Thread : InRange(t, "restore") /\ call[t].got # -1 /\ call[t].location # -1 =>
        call[t].from = call[t].location /\ call[t].got = call[t].length
=============================================================================
