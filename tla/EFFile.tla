------------------------------- MODULE EFFile -------------------------------
(***************************************************************************)
(* A file object of EFFile.c: a URL, a policy, the type found when it was  *)
(* made, and a handle that the first call that needs one opens.            *)
(*                                                                         *)
(* One thread, the owner, calls it.  Beside it are clients with copies of  *)
(* its handle, which share the cursor, and other processes that change     *)
(* what the path names.  A handle is its open file description, which      *)
(* EFFileHandle justifies.  A URL with a host opens by EFDownload.         *)
(***************************************************************************)
EXTENDS EFDownload, Integers, FiniteSets

CONSTANTS Client,    \* holders of a copy of the handle
          MaxNode,   \* number of inodes
          MaxDesc,   \* number of open file descriptions
          MaxLen,    \* bound on the length of a file
          MaxLost    \* bound on descriptors lost by failed allocations

ASSUME FileAssumption == IsFiniteSet(Client) /\ MaxNode \in Nat /\ MaxDesc \in Nat

VARIABLES url,      \* the kind of the file's URL, "posix" or "http"
          path,     \* what the path names: an inode, Dir or Absent
          data,     \* data[n]: the contents of inode n
          desc,     \* desc[d]: inode, access mode and cursor of description d
          file,     \* the file object
          copy,     \* copy[c]: the description c has a handle of
          call,     \* the owner's call under way
          quiet,    \* nobody but the call has touched the file since it began
          lost      \* descriptors no object has any more

fileVars == <<url, path, data, desc, file, copy, call, quiet, lost>>

Node == 1..MaxNode
Desc == 1..MaxDesc
None == 0
Dir == -1
Absent == -2
NoFile == [handle |-> None]
NoCall == [op |-> "none"]
Free == [node |-> None, mode |-> "none", pos |-> 0]

\* The policies the library offers.
Policy(p, must, isFile, create) ==
    [permission |-> p, mustExist |-> must, mustBeAFile |-> isFile, createOnOpen |-> create]
Policies == [permission : {"r", "w", "rw"},
             mustExist : BOOLEAN, mustBeAFile : BOOLEAN, createOnOpen : BOOLEAN]
EFFilePolicyInData == Policy("r", TRUE, TRUE, FALSE)
EFFilePolicyOutData == Policy("rw", FALSE, TRUE, TRUE)
EFFilePolicyInNoCreate == Policy("rw", FALSE, TRUE, FALSE)

InitFile == /\ url \in {"posix", "http"}
            /\ path = Absent
            /\ data = [n \in Node |-> <<>>]
            /\ desc = [d \in Desc |-> Free]
            /\ file = NoFile
            /\ copy = [c \in Client |-> None]
            /\ call = NoCall
            /\ quiet = TRUE
            /\ lost = 0

Exists == file # NoFile
Held(d) == (Exists /\ file.handle = d) \/ \E c \in Client : copy[c] = d
Linked(n) == path = n \/ \E d \in Desc : desc[d].node = n
FreshNode(n) == n \in Node /\ ~Linked(n) /\ \A m \in Node : m < n => Linked(m)
FreshDesc(d) == d \in Desc /\ desc[d] = Free /\ \A e \in Desc : e < d => desc[e] # Free

\* Descriptions and inodes go when nothing refers to them.
SweepDesc == desc' = [d \in Desc |-> IF Held(d)' THEN desc[d] ELSE Free]
SweepData == data' = [n \in Node |-> IF Linked(n)' THEN data[n] ELSE <<>>]

Opened(n, m) == [node |-> n, mode |-> m, pos |-> 0]

(***************************************************************************)
(* Creation and destruction                                                *)
(***************************************************************************)

EFFileTypeForPath == IF url = "posix" /\ path = Dir THEN "directory" ELSE "other"

Accepts(p, careAboutExist) ==
    url = "posix" => /\ p.mustExist /\ careAboutExist => path # Absent
                     /\ ~(p.mustBeAFile /\ EFFileTypeForPath = "directory")

NewFile(p, d) == [policy |-> p, type |-> EFFileTypeForPath, handle |-> d]

EFFileCreateWithURL(p) ==
    /\ ~Exists
    /\ Accepts(p, TRUE)
    /\ file' = NewFile(p, None)
    /\ UNCHANGED <<used, conn, url, path, data, desc, copy, call, quiet, lost>>

\* The string goes to an in-memory file, or nothing of it when memory is short.
EFFileCreateUnsavedWithString(p, n, d, written) ==
    /\ ~Exists
    /\ Accepts(p, FALSE)
    /\ Take(1)
    /\ FreshNode(n) /\ FreshDesc(d)
    /\ data' = [data EXCEPT ![n] = written]
    /\ desc' = [desc EXCEPT ![d] = Opened(n, "rw")]
    /\ file' = NewFile(p, d)
    /\ UNCHANGED <<conn, url, path, copy, call, quiet, lost>>

Destroy ==
    /\ Exists /\ call = NoCall
    /\ file' = NoFile
    /\ IF file.handle = None THEN UNCHANGED used ELSE GiveBack(1)
    /\ UNCHANGED <<conn, url, path, copy, call, quiet, lost>>
    /\ SweepDesc /\ SweepData

EFFileClose ==
    /\ Exists /\ call = NoCall /\ file.handle # None
    /\ file' = [file EXCEPT !.handle = None]
    /\ GiveBack(1)
    /\ UNCHANGED <<conn, url, path, copy, call, quiet, lost>>
    /\ SweepDesc /\ SweepData

EFFileUnlink ==
    /\ Exists /\ call = NoCall /\ path \in Node
    /\ path' = Absent
    /\ UNCHANGED <<used, conn, url, desc, file, copy, call, quiet, lost>>
    /\ SweepData

(***************************************************************************)
(* EFFileOpen, which EFFileCopyFileHandle, EFFileCreateBitWalker and       *)
(* EFFileCreateData call first                                             *)
(***************************************************************************)

Begin(op, c) ==
    /\ Exists /\ call = NoCall
    /\ call' = [op |-> op, pc |-> "open", client |-> c, length |-> 0, got |-> <<>>]
    /\ quiet' = TRUE
    /\ UNCHANGED <<used, conn, url, path, data, desc, file, copy, lost>>

Stage(pc) == call # NoCall /\ call.pc = pc
Goto(pc) == call' = [call EXCEPT !.pc = pc]
Return == call' = NoCall /\ quiet' = TRUE

\* A file that has a handle keeps it.
AlreadyOpen ==
    /\ Stage("open") /\ file.handle # None
    /\ Goto("use")
    /\ UNCHANGED <<used, conn, url, path, data, desc, file, copy, quiet, lost>>

\* The handle that is there is not looked at.
MayOpenAgain == Stage("open") /\ file.type # "directory"

\* The file has no handle yet and is not known to be a directory.
MayOpen == Stage("open") /\ file.handle = None /\ file.type # "directory"

\* A directory, or an open or a download that fails.
OpenFails ==
    /\ Stage("open") /\ file.handle = None
    /\ At("none")
    /\ Return
    /\ UNCHANGED <<used, conn, url, path, data, desc, file, copy, lost>>

\* open gives the inode n: the one there is, emptied if the policy says so,
\* or a new one, or a directory for reading.
SystemOpens(n) ==
    LET p == file.policy IN
    /\ url = "posix"
    /\ \/ /\ path \in Node /\ n = path
          /\ data' = IF p.createOnOpen THEN [data EXCEPT ![n] = <<>>] ELSE data
       \/ /\ path = Absent /\ p.createOnOpen /\ FreshNode(n)
          /\ UNCHANGED data
       \/ /\ path = Dir /\ n = Dir /\ ~p.createOnOpen /\ p.permission = "r"
          /\ UNCHANGED data
    /\ path' = n

OpenFile(n, d) ==
    /\ MayOpen /\ Room(2)
    /\ SystemOpens(n)
    /\ FreshDesc(d)
    /\ desc' = [desc EXCEPT ![d] = Opened(n, file.policy.permission)]
    /\ file' = [file EXCEPT !.handle = d]
    /\ Take(1)
    /\ Goto("use")
    /\ UNCHANGED <<conn, url, copy, quiet, lost>>

\* dup fails after open has created or emptied the file.
OpenWithoutDup(n) ==
    /\ MayOpen /\ Room(1) /\ ~Room(2)
    /\ SystemOpens(n)
    /\ Return
    /\ UNCHANGED <<used, conn, url, desc, file, copy, lost>>

\* No memory for the handle: its duplicate stays open.
OpenWithoutObject(n) ==
    /\ MayOpen /\ Room(2) /\ lost < MaxLost
    /\ SystemOpens(n)
    /\ Take(1)
    /\ lost' = lost + 1
    /\ Return
    /\ UNCHANGED <<conn, url, desc, file, copy>>

StartDownload(r) ==
    /\ MayOpen /\ url = "http"
    /\ Connect(r)
    /\ UNCHANGED fileVars

\* The in-memory file is handed over, its cursor at the beginning.
TakeDownload(n, d) ==
    /\ Stage("open") /\ At("done")
    /\ FreshNode(n) /\ FreshDesc(d)
    /\ data' = [data EXCEPT ![n] = conn.got]
    /\ desc' = [desc EXCEPT ![d] = Opened(n, "rw")]
    /\ file' = [file EXCEPT !.handle = d]
    /\ conn' = NoConn
    /\ Goto("use")
    /\ UNCHANGED <<used, url, path, copy, quiet, lost>>

DownloadFailed ==
    /\ Stage("open") /\ At("failed")
    /\ conn' = NoConn
    /\ Return
    /\ UNCHANGED <<used, url, path, data, desc, file, copy, lost>>

OpenStep(responses) ==
    \/ AlreadyOpen \/ OpenFails
    \/ \E n \in Node \cup {Dir} : \/ OpenWithoutDup(n) \/ OpenWithoutObject(n)
                                  \/ \E d \in Desc : OpenFile(n, d)
    \/ \E r \in responses : StartDownload(r)
    \/ \E n \in Node, d \in Desc : TakeDownload(n, d)
    \/ DownloadFailed

(***************************************************************************)
(* What is done with the handle                                            *)
(***************************************************************************)

Using(op) == Stage("use") /\ call.op = op

OpenReturns ==
    /\ Using("open")
    /\ Return
    /\ UNCHANGED <<used, conn, url, path, data, desc, file, copy, lost>>

\* EFFileHandleCreateCopy; a bit walker makes a copy as well.
CopyReturns ==
    /\ Using("copy") /\ copy[call.client] = None
    /\ Take(1)
    /\ copy' = [copy EXCEPT ![call.client] = file.handle]
    /\ Return
    /\ UNCHANGED <<conn, url, path, data, desc, file, lost>>

\* dup fails; a copy without memory for its object ends the process, which
\* EFFileHandle shows.
CopyFails ==
    /\ Using("copy")
    /\ Return
    /\ UNCHANGED <<used, conn, url, path, data, desc, file, copy, lost>>

Own == desc[file.handle]

\* EFFileHandleGetLength, and a buffer of that size.  A directory has a
\* length too, and cannot be read.
MeasureData ==
    /\ Using("data")
    /\ call' = [call EXCEPT !.pc = "seek",
                            !.length = IF Own.node = Dir THEN 1 ELSE Len(data[Own.node])]
    /\ UNCHANGED <<used, conn, url, path, data, desc, file, copy, quiet, lost>>

MeasureFails ==
    /\ Using("data")
    /\ Return
    /\ UNCHANGED <<used, conn, url, path, data, desc, file, copy, lost>>

\* The cursor is left where it is.
SeekNowhere ==
    /\ Stage("seek")
    /\ Goto("read")
    /\ UNCHANGED <<used, conn, url, path, data, desc, file, copy, quiet, lost>>

SeekToBegin ==
    /\ Stage("seek")
    /\ desc' = [desc EXCEPT ![file.handle].pos = 0]
    /\ Goto("read")
    /\ UNCHANGED <<used, conn, url, path, data, file, copy, quiet, lost>>

Readable == Own.mode # "w" /\ Own.node # Dir
Least(a, b) == IF a <= b THEN a ELSE b
ReadBytes == SubSeq(data[Own.node], Own.pos + 1,
                    Least(Own.pos + call.length, Len(data[Own.node])))

\* A read of the length asked for makes the data; a shorter one makes none.
ReadData ==
    /\ Stage("read") /\ Readable
    /\ desc' = [desc EXCEPT ![file.handle].pos = @ + Len(ReadBytes)]
    /\ IF Len(ReadBytes) < call.length THEN Return
       ELSE call' = [call EXCEPT !.pc = "done", !.got = ReadBytes] /\ UNCHANGED quiet
    /\ UNCHANGED <<used, conn, url, path, data, file, copy, lost>>

ReadFails ==
    /\ Stage("read") /\ ~Readable
    /\ Return
    /\ UNCHANGED <<used, conn, url, path, data, desc, file, copy, lost>>

DataReturns ==
    /\ Stage("done")
    /\ Return
    /\ UNCHANGED <<used, conn, url, path, data, desc, file, copy, lost>>

UseStep == OpenReturns \/ CopyReturns \/ CopyFails \/ MeasureData \/ MeasureFails
           \/ SeekToBegin \/ ReadData \/ ReadFails \/ DataReturns

(***************************************************************************)
(* Clients with a copy, and other processes                                *)
(***************************************************************************)

Touch == quiet' = (call = NoCall)
ClientDesc(c) == desc[copy[c]]
HasFile(c) == copy[c] # None /\ ClientDesc(c).node # Dir

ClientSeeks(c, p) ==
    /\ HasFile(c) /\ p \in 0..Len(data[ClientDesc(c).node])
    /\ p # ClientDesc(c).pos
    /\ desc' = [desc EXCEPT ![copy[c]].pos = p]
    /\ Touch
    /\ UNCHANGED <<used, conn, url, path, data, file, copy, call, lost>>

\* One byte, over what is there or behind it.
ClientWrites(c, b) ==
    /\ HasFile(c) /\ ClientDesc(c).mode # "r"
    /\ LET n == ClientDesc(c).node
           p == Least(ClientDesc(c).pos, Len(data[n])) IN
       /\ p < MaxLen
       /\ data' = [data EXCEPT ![n] = [i \in 1..(IF p < Len(@) THEN Len(@) ELSE p + 1) |->
                                          IF i = p + 1 THEN b ELSE @[i]]]
       /\ desc' = [desc EXCEPT ![copy[c]].pos = p + 1]
    /\ Touch
    /\ UNCHANGED <<used, conn, url, path, file, copy, call, lost>>

ClientReleases(c) ==
    /\ copy[c] # None
    /\ copy' = [copy EXCEPT ![c] = None]
    /\ GiveBack(1)
    /\ UNCHANGED <<conn, url, path, file, call, quiet, lost>>
    /\ SweepDesc /\ SweepData

\* The path comes to name a new file, a directory or nothing.
OthersReplace(n) ==
    /\ url = "posix" /\ n # path
    /\ n \in Node => FreshNode(n)
    /\ path' = n
    /\ UNCHANGED <<used, conn, url, desc, file, copy, call, quiet, lost>>
    /\ SweepData

OthersWrite(s) ==
    /\ path \in Node /\ data[path] # s
    /\ data' = [data EXCEPT ![path] = s]
    /\ Touch
    /\ UNCHANGED <<used, conn, url, path, desc, file, copy, call, lost>>

-----------------------------------------------------------------------------
FileOpen == lost + Cardinality({c \in Client : copy[c] # None})
                 + (IF Exists /\ file.handle # None THEN 1 ELSE 0)

(* EFFileCreateData reads the whole file, wherever the cursor was before,   *)
(* unless somebody moves the shared cursor or writes while it runs; and     *)
(* whatever they do, data it returns is as long as the file it measured.    *)
DataWhole ==
    /\ Stage("read") /\ Readable /\ quiet => ReadBytes = data[Own.node]
    /\ Stage("done") => /\ Len(call.got) = call.length
                        /\ quiet => call.got = data[Own.node]

(* While a file object has a handle, no call on it replaces that handle or  *)
(* empties the file behind it: text that was never saved stays what         *)
(* EFFileCreateUnsavedWithString and later writers made it until            *)
(* EFFileClose, although every call begins with an open and the policy may  *)
(* be one that empties.                                                     *)
HeldIsKept ==
    [][Exists /\ file.handle # None /\ file' # NoFile /\ file'.handle # None =>
          /\ file'.handle = file.handle
          /\ call' # call => \A n \in Node : Own.node = n => Len(data'[n]) >= Len(data[n])]_<<file, data, call>>
=============================================================================
