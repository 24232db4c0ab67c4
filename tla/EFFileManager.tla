--------------------------- MODULE EFFileManager ---------------------------
(***************************************************************************)
(* The directory listing of EFFileManager.c, in a thread of its own.  Its  *)
(* two variants, by path and by URL, differ in what they append.  A name   *)
(* is "good" or not UTF-8, "bad".  A failed allocation inside the loop     *)
(* reads no further entry and is tried again: a stutter.                   *)
(***************************************************************************)
EXTENDS EFDescriptors, Sequences

VARIABLES list,        \* the listing under way
          unclosed     \* directories that were listed and never closed

NoList == [pc |-> "none"]
InitListing == list = NoList /\ unclosed = 0

OpenDirectory(entries) ==
    /\ list = NoList
    /\ Take(1)
    /\ list' = [pc |-> "create", left |-> entries]
    /\ UNCHANGED unclosed

CreateContents ==
    /\ list.pc = "create"
    /\ list' = [list EXCEPT !.pc = "read"]
    /\ UNCHANGED <<used, unclosed>>

\* No array: the directory is closed.
CreateContentsFails ==
    /\ list.pc = "create"
    /\ list' = NoList
    /\ GiveBack(1)
    /\ UNCHANGED unclosed

Reading(name) == list.pc = "read" /\ list.left # <<>> /\ Head(list.left) = name

\* The next entry is not read when the last one has been appended.
ReadNextButLast ==
    /\ Reading("good")
    /\ list' = [list EXCEPT !.left = IF Len(@) > 1 THEN Tail(@) ELSE @]
    /\ UNCHANGED <<used, unclosed>>

\* The entry is appended, or left out when the array does not grow.
ReadNext ==
    /\ Reading("good")
    /\ list' = [list EXCEPT !.left = Tail(@)]
    /\ UNCHANGED <<used, unclosed>>

\* continue without readdir: the same entry again.
RefuseEntry ==
    /\ Reading("bad")
    /\ UNCHANGED <<used, list, unclosed>>

\* The contents are returned; nobody closes the directory.
ReturnContents ==
    /\ list.pc = "read" /\ list.left = <<>>
    /\ list' = NoList
    /\ unclosed' = unclosed + 1
    /\ UNCHANGED used

ListingStep == \/ CreateContents \/ CreateContentsFails
               \/ ReadNext \/ RefuseEntry
               \/ ReturnContents

ListingOpen == unclosed + (IF list = NoList THEN 0 ELSE 1)
Decodable == list # NoList => \A i \in 1..Len(list.left) : list.left[i] = "good"
=============================================================================
