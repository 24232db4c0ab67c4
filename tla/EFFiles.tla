------------------------------ MODULE EFFiles ------------------------------
(***************************************************************************)
(* Files, downloads and directory listings in one process: an owner that   *)
(* calls a file object, clients with copies of its handle, a thread that   *)
(* lists directories, other processes and a server.  They share the limit  *)
(* on open descriptors, which is how a failure of one reaches the others.  *)
(***************************************************************************)
EXTENDS EFFile, EFFileManager

CONSTANT Worlds   \* what the environment does, a record of sets: the URL's kind,
                  \* the policies used, the contents other processes leave,
                  \* the bytes clients write, responses, whether reads of a
                  \* connection may be interrupted, and directories

ASSUME WorldsAssumption ==
    /\ "s" \in Byte
    /\ \A w \in Worlds : /\ w.policies \subseteq Policies
                         /\ w.contents \subseteq Seq(Byte) /\ w.written \subseteq Byte
                         /\ w.responses \subseteq Seq(Byte) /\ w.interrupted \in BOOLEAN
                         /\ w.directories \subseteq Seq({"good", "bad"})

VARIABLE world    \* the world of this behaviour

vars == <<world, used, conn, list, unclosed, url, path, data, desc, file, copy, call, quiet, lost>>

Init == /\ world \in Worlds
        /\ used = 0 /\ InitDownload /\ InitListing
        /\ InitFile /\ url = world.url

OwnerStep == OpenStep(world.responses) \/ UseStep

Owner ==
    \/ \E p \in world.policies :
          \/ EFFileCreateWithURL(p)
          \/ \E n \in Node, d \in Desc, s \in {<<>>, <<"s">>} :
                EFFileCreateUnsavedWithString(p, n, d, s)
    \/ Destroy \/ EFFileClose \/ EFFileUnlink
    \/ \E op \in {"open", "data"} : Begin(op, None)
    \/ \E c \in Client : Begin("copy", c)
    \/ OwnerStep

Others == \/ \E c \in Client : \/ \E p \in 0..MaxLen : ClientSeeks(c, p)
                               \/ \E b \in world.written : ClientWrites(c, b)
                               \/ ClientReleases(c)
          \/ \E n \in Node \cup {Dir, Absent} : OthersReplace(n)
          \/ \E s \in world.contents : OthersWrite(s)

Next == UNCHANGED world /\
        \/ (Owner \/ Others) /\ UNCHANGED <<list, unclosed>>
        \/ (DownloadStep \/ LoseConnection \/ (world.interrupted /\ HeaderReadFails))
              /\ UNCHANGED <<list, unclosed>> /\ UNCHANGED fileVars
        \/ (ListingStep \/ \E entries \in world.directories : OpenDirectory(entries))
              /\ UNCHANGED conn /\ UNCHANGED fileVars

\* A loop under way is code of one thread, which runs; the server sends or closes.
Fairness == /\ WF_vars(DownloadStep /\ UNCHANGED <<world, list, unclosed>> /\ UNCHANGED fileVars)
            /\ WF_vars(ListingStep /\ UNCHANGED <<world, conn>> /\ UNCHANGED fileVars)

Spec == Init /\ [][Next]_vars /\ Fairness

-----------------------------------------------------------------------------
(* Every descriptor that is open is accounted for: by a handle, a copy, a   *)
(* connection, a listing under way, or one of the two that the code gives   *)
(* up, a directory that was listed and a duplicate without an object.  No   *)
(* failing path of a download, an open or a listing keeps one, and none is  *)
(* given back twice.                                                        *)
DescriptorsAccounted == used = FileOpen + DownloadOpen + ListingOpen

(* The loops over what comes from outside end: a download is over some time *)
(* after it began, whatever the response and wherever the connection is     *)
(* lost; and a listing returns unless it meets a name that is not UTF-8,    *)
(* which the code reads again and again.                                    *)
LoopsEnd == /\ conn # NoConn ~> conn = NoConn \/ conn.pc \in {"done", "failed"}
            /\ list # NoList /\ Decodable ~> list = NoList
=============================================================================
