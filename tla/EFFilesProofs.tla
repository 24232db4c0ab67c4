---------------------------- MODULE EFFilesProofs ----------------------------
(***************************************************************************)
(* Proofs about EFFiles for any number of clients, inodes, descriptions    *)
(* and descriptors, any alphabet, and any worlds: whatever policies the    *)
(* owner uses, responses a server sends and directories there are.         *)
(*                                                                         *)
(* The accounts of descriptors need to know that a download runs only      *)
(* inside the open of a file that has no handle yet (PhaseInv).  A whole   *)
(* read needs what the call knows between its steps as long as it is quiet *)
(* (CallInv).  A download needs that the automaton that looks for the end  *)
(* of the header has missed none (Scanned).                                *)
(***************************************************************************)
EXTENDS EFFiles, TLAPS, FiniteSetTheorems, SequenceTheorems

Downloads == [pc : {"header", "create", "body", "done", "failed"}, state : 0..3, rest : Seq(Byte),
              got : Seq(Byte), sent : Seq(Byte), cut : BOOLEAN, spoiled : BOOLEAN]
FileTypes == {"directory", "other"}
Calls == [op : {"open", "copy", "data"}, pc : {"open", "use", "seek", "read", "done"},
          client : Client \cup {None}, length : Nat, got : Seq(Byte)]
Descriptions == [node : Node \cup {None, Dir}, mode : {"none", "r", "w", "rw"}, pos : Nat]

TypeOK == /\ world \in Worlds
          /\ url \in {"posix", "http"}
          /\ path \in Node \cup {Dir, Absent}
          /\ data \in [Node -> Seq(Byte)]
          /\ desc \in [Desc -> Descriptions]
          /\ file \in {NoFile} \cup [policy : Policies, type : FileTypes, handle : Desc \cup {None}]
          /\ copy \in [Client -> Desc \cup {None}]
          /\ call \in {NoCall} \cup Calls
          /\ quiet \in BOOLEAN
          /\ lost \in Nat
          /\ conn \in {NoConn} \cup Downloads
          /\ list \in {NoList} \cup [pc : {"create", "read"}, left : Seq({"good", "bad"})]
          /\ unclosed \in Nat

\* A call has its file, and past its open the file's handle; a download runs
\* inside the open of a file that has none; and what is held is open.
PhaseInv == /\ call # NoCall => Exists
            /\ call # NoCall /\ call.pc # "open" => file.handle # None
            /\ call # NoCall /\ call.op = "copy" => call.client \in Client
            /\ conn # NoConn => Stage("open") /\ file.handle = None /\ url = "http"
            /\ \A d \in Desc : Held(d) => desc[d].node # None

AccountInv == TypeOK /\ PhaseInv /\ DescriptorsAccounted

\* What a read of the whole file knows between its steps.
Measured == call.length = Len(data[Own.node])
CallInv == /\ Stage("seek") /\ quiet /\ Own.node # Dir => Measured
           /\ Stage("read") /\ quiet /\ Own.node # Dir => Measured /\ Own.pos = 0
           /\ Stage("done") => /\ Own.node # Dir
                               /\ Len(call.got) = call.length
                               /\ quiet => call.got = data[Own.node]

\* The automaton has seen the first i bytes of r and no end of the header:
\* its state says what they end with, and nothing they end with is missed.
Scanned(r, i, s) ==
    /\ i \in 0..Len(r) /\ s \in 0..3 /\ s <= i
    /\ \A j \in 4..i : ~EndsHeader(r, j)
    /\ s >= 1 => r[i] = Terminator[s]
    /\ s >= 2 => r[i - 1] = Terminator[s - 1]
    /\ s >= 3 => r[i - 2] = Terminator[s - 2]
    /\ i >= 1 /\ r[i] = "cr" => s \in {1, 3}
    /\ i >= 2 /\ r[i - 1] = "cr" /\ r[i] = "lf" => s = 2
    /\ i >= 3 /\ r[i - 2] = "cr" /\ r[i - 1] = "lf" /\ r[i] = "cr" => s = 3

Taken == Len(conn.sent) - Len(conn.rest)

HeaderInv == At("header") =>
    /\ conn.got = <<>> /\ ~conn.spoiled
    /\ conn.cut => conn.rest = <<>>
    /\ ~conn.cut => /\ Taken >= 0
                    /\ conn.rest = SubSeq(conn.sent, Taken + 1, Len(conn.sent))
                    /\ Canonical(conn.sent) => Scanned(conn.sent, Taken, conn.state)

TransferInv == conn.pc \in {"create", "body", "done"} =>
    /\ At("create") => conn.got = <<>>
    /\ At("done") => conn.rest = <<>>
    /\ conn.cut => conn.rest = <<>>
    /\ Canonical(conn.sent) /\ ~conn.spoiled =>
          IF conn.cut THEN /\ Len(conn.got) <= Len(Body(conn.sent))
                           /\ conn.got = SubSeq(Body(conn.sent), 1, Len(conn.got))
          ELSE conn.got \o conn.rest = Body(conn.sent)


-----------------------------------------------------------------------------
(***************************************************************************)
(* Types, phases and accounts                                              *)
(***************************************************************************)

Elsewhere == UNCHANGED <<world, list, unclosed>>
Holding == {c \in Client : copy[c] # None}

\* What the marks that are no inode and no description differ from.
LEMMA Marks == /\ None \notin Desc /\ Desc \subseteq Nat /\ Node \subseteq Nat
               /\ None \notin Node /\ Dir \notin Node /\ Absent \notin Node
               /\ Dir # None /\ Absent # Dir
  BY FileAssumption DEF None, Desc, Node, Dir, Absent

\* A file object, a call, a download and a listing differ from their absence.
LEMMA Shapes ==
  ASSUME TypeOK
  PROVE  /\ Exists => file \in [policy : Policies, type : FileTypes, handle : Desc \cup {None}]
         /\ call # NoCall => call \in Calls
         /\ conn # NoConn <=> conn \in Downloads
         /\ At("none") <=> conn = NoConn
         /\ list # NoList => list.pc \in {"create", "read"}
         /\ NoList.pc = "none"
  BY DEF TypeOK, Exists, NoCall, Calls, NoConn, Downloads, At, NoList

\* The holders of copies are counted.
LEMMA HoldersCounted ==
  ASSUME TypeOK
  PROVE  IsFiniteSet(Holding) /\ Cardinality(Holding) \in Nat
<1>1. Holding \subseteq Client
  BY DEF Holding
<1> QED  BY <1>1, FileAssumption, FS_Subset, FS_CardinalityType

\* A client that takes a copy is one holder more.
LEMMA HolderMore ==
  ASSUME TypeOK, NEW c \in Client, NEW d \in Desc, copy[c] = None, copy' = [copy EXCEPT ![c] = d]
  PROVE  Cardinality(Holding') = Cardinality(Holding) + 1
<1>1. Holding' = Holding \cup {c} /\ c \notin Holding
  BY Marks DEF Holding, TypeOK
<1> QED  BY <1>1, HoldersCounted, FS_AddElement

\* A client that releases its copy is one holder less.
LEMMA HolderLess ==
  ASSUME TypeOK, NEW c \in Client, copy[c] # None, copy' = [copy EXCEPT ![c] = None]
  PROVE  Cardinality(Holding') = Cardinality(Holding) - 1
<1>1. Holding' = Holding \ {c} /\ c \in Holding
  BY DEF Holding, TypeOK
<1> QED  BY <1>1, HoldersCounted, FS_RemoveElement

\* Sweeping leaves what it sweeps well formed.
LEMMA Swept ==
  ASSUME TypeOK
  PROVE  /\ SweepDesc => desc' \in [Desc -> Descriptions]
         /\ SweepData => data' \in [Node -> Seq(Byte)]
<1>1. Free \in Descriptions /\ <<>> \in Seq(Byte)
  BY DEF Free, Descriptions
<1> QED  BY <1>1 DEF SweepDesc, SweepData, TypeOK

HandleCount == IF Exists /\ file.handle # None THEN 1 ELSE 0

\* The accounts with the holders of copies under a name of their own.
LEMMA Accounts == DescriptorsAccounted <=>
                     used = lost + Cardinality(Holding) + HandleCount + DownloadOpen + ListingOpen
  BY DEF DescriptorsAccounted, FileOpen, Holding, HandleCount

\* The same of the next state.
LEMMA AccountsNext == DescriptorsAccounted' <=>
    used' = lost' + Cardinality(Holding') + HandleCount' + DownloadOpen' + ListingOpen'
  BY DEF DescriptorsAccounted, FileOpen, Holding, HandleCount

\* The terms of the accounts are numbers.
LEMMA Terms ==
  ASSUME TypeOK
  PROVE  /\ lost \in Nat /\ Cardinality(Holding) \in Nat /\ HandleCount \in {0, 1}
         /\ DownloadOpen \in 0..2 /\ ListingOpen \in Nat
  BY HoldersCounted DEF TypeOK, HandleCount, DownloadOpen, ListingOpen, At

\* Creating a file object.
LEMMA CreateAccount ==
  ASSUME AccountInv, NEW p \in world.policies, EFFileCreateWithURL(p), Elsewhere
  PROVE  AccountInv'
<1> USE DEF AccountInv
<1>1. p \in Policies
  BY WorldsAssumption DEF TypeOK
<1>2. file' \in [policy : Policies, type : FileTypes, handle : Desc \cup {None}] /\ file'.handle = None
  BY <1>1 DEF EFFileCreateWithURL, NewFile, EFFileTypeForPath, FileTypes
<1>3. TypeOK'
  BY <1>2 DEF TypeOK, EFFileCreateWithURL, Elsewhere
<1>4. call = NoCall /\ conn = NoConn
  BY DEF EFFileCreateWithURL, PhaseInv, Stage
<1>5. PhaseInv'
  BY <1>2, <1>4, Marks DEF PhaseInv, EFFileCreateWithURL, Held, Exists, Stage
<1>6. HandleCount' = HandleCount
  BY <1>2 DEF HandleCount, Exists, EFFileCreateWithURL
<1>7. DescriptorsAccounted'
  BY <1>6, Accounts, AccountsNext DEF EFFileCreateWithURL, Elsewhere, Holding, DownloadOpen, At, ListingOpen
<1> QED  BY <1>3, <1>5, <1>7

\* A description that was free is opened on an inode or a directory.
LEMMA OpenedDesc ==
  ASSUME NEW n \in Node \cup {Dir}, NEW md \in {"r", "w", "rw"}
  PROVE  /\ Opened(n, md) \in Descriptions /\ Opened(n, md).node = n
         /\ Opened(n, md).mode = md /\ Opened(n, md).pos = 0 /\ n # None
  BY Marks DEF Opened, Descriptions

\* Creating a file object from text.
LEMMA UnsavedAccount ==
  ASSUME AccountInv, NEW p \in world.policies, NEW n \in Node, NEW d \in Desc, NEW s \in {<<>>, <<"s">>},
         EFFileCreateUnsavedWithString(p, n, d, s), Elsewhere
  PROVE  AccountInv'
<1> USE DEF AccountInv
<1>1. p \in Policies /\ s \in Seq(Byte)
  <2>1. p \in Policies
    BY WorldsAssumption DEF TypeOK
  <2>2. "s" \in Byte
    BY WorldsAssumption
  <2>3. <<>> \in Seq(Byte) /\ <<"s">> \in Seq(Byte)
    BY <2>2
  <2> QED  BY <2>1, <2>3
<1>2. file' \in [policy : Policies, type : FileTypes, handle : Desc \cup {None}] /\ file'.handle = d
  BY <1>1 DEF EFFileCreateUnsavedWithString, NewFile, EFFileTypeForPath, FileTypes
<1>3. data' \in [Node -> Seq(Byte)] /\ desc' = [desc EXCEPT ![d] = Opened(n, "rw")]
  BY <1>1 DEF EFFileCreateUnsavedWithString, TypeOK
<1>4. Opened(n, "rw") \in Descriptions /\ Opened(n, "rw").node # None
  BY OpenedDesc
<1>5. desc' \in [Desc -> Descriptions] /\ \A e \in Desc : desc'[e] = IF e = d THEN Opened(n, "rw") ELSE desc[e]
  BY <1>3, <1>4 DEF TypeOK
<1>6. TypeOK'
  BY <1>2, <1>3, <1>5 DEF TypeOK, EFFileCreateUnsavedWithString, Elsewhere
<1>7. call = NoCall /\ conn = NoConn
  BY DEF EFFileCreateUnsavedWithString, PhaseInv, Stage
<1>8. PhaseInv'
  <2>1. \A e \in Desc : Held(e)' => e = d \/ Held(e)
    BY <1>2 DEF Held, EFFileCreateUnsavedWithString
  <2> QED  BY <2>1, <1>4, <1>5, <1>7 DEF PhaseInv, EFFileCreateUnsavedWithString, Stage
<1>9. HandleCount' = 1 /\ HandleCount = 0
  BY <1>2, Marks DEF HandleCount, Exists, EFFileCreateUnsavedWithString, NoFile
<1>10. DescriptorsAccounted'
  BY <1>9, Accounts, AccountsNext, Terms
     DEF EFFileCreateUnsavedWithString, Take, Elsewhere, Holding, DownloadOpen, At, ListingOpen
<1> QED  BY <1>6, <1>8, <1>10

\* The file object goes, or only its handle.
LEMMA CloseAccount ==
  ASSUME AccountInv, Destroy \/ EFFileClose, Elsewhere
  PROVE  AccountInv'
<1> USE DEF AccountInv
<1>1. \/ file' = NoFile
      \/ /\ file' = [file EXCEPT !.handle = None]
         /\ file' \in [policy : Policies, type : FileTypes, handle : Desc \cup {None}]
  <2>1. CASE Destroy
    BY <2>1 DEF Destroy
  <2>2. CASE EFFileClose
    BY <2>2, Shapes DEF EFFileClose
  <2> QED  BY <2>1, <2>2
<1>2. desc' \in [Desc -> Descriptions] /\ data' \in [Node -> Seq(Byte)]
  BY Swept DEF Destroy, EFFileClose
<1>3. TypeOK'
  BY <1>1, <1>2 DEF TypeOK, Destroy, EFFileClose, Elsewhere
<1>4. call = NoCall /\ conn = NoConn
  BY DEF Destroy, EFFileClose, PhaseInv, Stage
<1>5. file'.handle = None /\ HandleCount' = 0
  BY <1>1, Shapes DEF HandleCount, NoFile, Destroy, EFFileClose
<1>6. PhaseInv'
  <2>1. \A e \in Desc : Held(e)' => Held(e) /\ desc'[e] = desc[e]
    BY <1>5, Marks DEF Held, Destroy, EFFileClose, SweepDesc
  <2> QED  BY <2>1, <1>4 DEF PhaseInv, Destroy, EFFileClose, Stage
<1>7. used' = used - HandleCount
  BY <1>3, Accounts, Terms DEF HandleCount, Destroy, EFFileClose, GiveBack
<1>8. DescriptorsAccounted'
  BY <1>5, <1>7, Accounts, AccountsNext, Terms
     DEF Destroy, EFFileClose, Elsewhere, Holding, DownloadOpen, At, ListingOpen
<1> QED  BY <1>3, <1>6, <1>8

\* Unlinking, and other processes that replace or write what the path names.
LEMMA PathAccount ==
  ASSUME AccountInv,
         \/ EFFileUnlink
         \/ \E n \in Node \cup {Dir, Absent} : OthersReplace(n)
         \/ \E s \in world.contents : OthersWrite(s),
         Elsewhere
  PROVE  AccountInv'
<1> USE DEF AccountInv
<1>1. data' \in [Node -> Seq(Byte)] /\ path' \in Node \cup {Dir, Absent} /\ quiet' \in BOOLEAN
  <2>1. CASE EFFileUnlink
    BY <2>1, Swept DEF EFFileUnlink, TypeOK
  <2>2. CASE \E n \in Node \cup {Dir, Absent} : OthersReplace(n)
    BY <2>2, Swept DEF OthersReplace, TypeOK
  <2>3. CASE \E s \in world.contents : OthersWrite(s)
    BY <2>3, WorldsAssumption DEF OthersWrite, Touch, TypeOK
  <2> QED  BY <2>1, <2>2, <2>3
<1>2. UNCHANGED <<world, used, conn, list, unclosed, url, desc, file, copy, call, lost>>
  BY DEF EFFileUnlink, OthersReplace, OthersWrite, Elsewhere
<1>3. TypeOK'
  BY <1>1, <1>2 DEF TypeOK
<1>4. PhaseInv'
  BY <1>2 DEF PhaseInv, Exists, Held, Stage
<1>5. HandleCount' = HandleCount /\ DownloadOpen' = DownloadOpen /\ ListingOpen' = ListingOpen /\ Holding' = Holding
  BY <1>2 DEF HandleCount, Exists, Holding, DownloadOpen, At, ListingOpen
<1>6. DescriptorsAccounted'
  BY <1>2, <1>5, Accounts, AccountsNext
<1> QED  BY <1>3, <1>4, <1>6

\* Beginning a call, and what only passes to the next step of one or returns.
LEMMA CallOnlyAccount ==
  ASSUME AccountInv,
         call' \in {NoCall} \cup Calls, quiet' \in BOOLEAN,
         call' # NoCall => /\ Exists
                           /\ call'.pc # "open" => file.handle # None
                           /\ call'.op = "copy" => call'.client \in Client,
         conn = NoConn,
         UNCHANGED <<used, conn, url, path, data, desc, file, copy, lost>>, Elsewhere
  PROVE  AccountInv'
<1> USE DEF AccountInv
<1>1. TypeOK'
  BY DEF TypeOK, Elsewhere
<1>2. PhaseInv'
  BY DEF PhaseInv, Exists, Held
<1>3. HandleCount' = HandleCount /\ DownloadOpen' = DownloadOpen /\ ListingOpen' = ListingOpen /\ Holding' = Holding
  BY DEF HandleCount, Exists, Holding, DownloadOpen, At, ListingOpen, Elsewhere
<1>4. DescriptorsAccounted'
  BY <1>3, Accounts, AccountsNext
<1> QED  BY <1>1, <1>2, <1>4

\* What a stage of a call tells about it.
LEMMA StageFacts ==
  ASSUME TypeOK, PhaseInv, call # NoCall
  PROVE  /\ call \in Calls
         /\ Exists
         /\ call.op = "copy" => call.client \in Client
         /\ call.pc # "open" => file.handle \in Desc
         /\ call.pc # "open" \/ file.handle # None => conn = NoConn
         /\ \A pc \in {"use", "seek", "read", "done"} :
               /\ [call EXCEPT !.pc = pc] \in Calls
               /\ [call EXCEPT !.pc = pc].pc = pc
               /\ [call EXCEPT !.pc = pc].op = call.op
               /\ [call EXCEPT !.pc = pc].client = call.client
<1>1. call \in Calls /\ Exists
  BY DEF TypeOK, PhaseInv
<1>2. file.handle \in Desc \cup {None}
  BY <1>1, Shapes
<1> QED  BY <1>1, <1>2 DEF PhaseInv, Stage, Calls

\* Beginning a call.
LEMMA BeginAccount ==
  ASSUME AccountInv, NEW op \in {"open", "data", "copy"}, NEW c \in Client \cup {None},
         op = "copy" => c \in Client, Begin(op, c), Elsewhere
  PROVE  AccountInv'
<1>1. /\ Exists
      /\ call' = [op |-> op, pc |-> "open", client |-> c, length |-> 0, got |-> <<>>]
      /\ quiet' = TRUE
      /\ UNCHANGED <<used, conn, url, path, data, desc, file, copy, lost>>
  BY DEF Begin
<1>2. call' \in Calls
  BY <1>1 DEF Calls
<1>3. conn = NoConn
  BY DEF Begin, AccountInv, PhaseInv, Stage
<1> QED  BY <1>1, <1>2, <1>3, CallOnlyAccount

\* The steps of a call that change neither the file nor what is open.
PassStep == AlreadyOpen \/ OpenFails \/ OpenReturns \/ CopyFails \/ MeasureData \/ MeasureFails
            \/ ReadFails \/ DataReturns

\* A call passes to its next step or returns.
LEMMA PassAccount ==
  ASSUME AccountInv, PassStep, Elsewhere
  PROVE  AccountInv'
<1> USE DEF AccountInv
<1>1. call # NoCall /\ UNCHANGED <<used, conn, url, path, data, desc, file, copy, lost>>
  BY DEF PassStep, AlreadyOpen, OpenFails, OpenReturns, CopyFails, MeasureData, MeasureFails, ReadFails,
         DataReturns, Using, Stage
<1>2. quiet' \in BOOLEAN
  BY DEF PassStep, AlreadyOpen, OpenFails, OpenReturns, CopyFails, MeasureData, MeasureFails, ReadFails,
         DataReturns, Return, TypeOK
<1>3. conn = NoConn
  BY <1>1, StageFacts, Shapes
     DEF PassStep, AlreadyOpen, OpenFails, OpenReturns, CopyFails, MeasureData, MeasureFails, ReadFails,
         DataReturns, Using, Stage
<1>4. CASE AlreadyOpen
  <2>1. call' = [call EXCEPT !.pc = "use"] /\ file.handle # None
    BY <1>4 DEF AlreadyOpen, Goto
  <2>2. call' \in Calls /\ Exists /\ (call'.op = "copy" => call'.client \in Client)
    BY <2>1, <1>1, StageFacts
  <2> QED  BY <2>1, <2>2, <1>1, <1>2, <1>3, CallOnlyAccount
<1>5. CASE MeasureData
  <2>1. call' = [call EXCEPT !.pc = "seek", !.length = IF Own.node = Dir THEN 1 ELSE Len(data[Own.node])]
        /\ call.pc = "use" /\ call.op = "data"
    BY <1>5 DEF MeasureData, Using, Stage
  <2>2. file.handle \in Desc /\ desc[file.handle].node # None
    BY <2>1, <1>1, StageFacts DEF PhaseInv, Held
  <2>3. Own.node \in Node \cup {Dir}
    BY <2>2 DEF Own, TypeOK, Descriptions
  <2>4. (IF Own.node = Dir THEN 1 ELSE Len(data[Own.node])) \in Nat
    BY <2>3 DEF TypeOK
  <2>5. call' \in Calls /\ call'.op = "data"
    BY <2>1, <2>4, <1>1, StageFacts DEF Calls
  <2>6. Exists /\ file.handle # None /\ call'.op # "copy"
    BY <2>2, <2>5, <1>1, Marks, StageFacts
  <2> QED  BY <2>5, <2>6, <1>1, <1>2, <1>3, CallOnlyAccount
<1>6. CASE ~AlreadyOpen /\ ~MeasureData
  <2>1. call' = NoCall
    BY <1>6 DEF PassStep, OpenFails, OpenReturns, CopyFails, MeasureFails, ReadFails, DataReturns, Return
  <2> QED  BY <2>1, <1>1, <1>2, <1>3, CallOnlyAccount
<1> QED  BY <1>4, <1>5, <1>6

\* What open may do to the path and the contents.
LEMMA SystemOpensType ==
  ASSUME TypeOK, NEW n \in Node \cup {Dir}, SystemOpens(n)
  PROVE  path' \in Node \cup {Dir, Absent} /\ data' \in [Node -> Seq(Byte)] /\ url = "posix"
<1>1. data' = data \/ data' = [data EXCEPT ![n] = <<>>]
  BY DEF SystemOpens
<1>2. <<>> \in Seq(Byte)
  OBVIOUS
<1> QED  BY <1>1, <1>2 DEF SystemOpens, TypeOK

\* open succeeds and the file has a handle.
LEMMA OpenFileAccount ==
  ASSUME AccountInv, NEW n \in Node \cup {Dir}, NEW d \in Desc, OpenFile(n, d), Elsewhere
  PROVE  AccountInv'
<1> USE DEF AccountInv
<1>1. /\ call # NoCall /\ file.handle = None /\ used' = used + 1
      /\ call' = [call EXCEPT !.pc = "use"]
      /\ desc' = [desc EXCEPT ![d] = Opened(n, file.policy.permission)]
      /\ file' = [file EXCEPT !.handle = d]
      /\ UNCHANGED <<conn, url, copy, quiet, lost>>
  BY DEF OpenFile, MayOpen, Stage, Goto, Take
<1>2. Exists /\ call' \in Calls /\ (call'.op = "copy" => call'.client \in Client)
  BY <1>1, StageFacts
<1>3. path' \in Node \cup {Dir, Absent} /\ data' \in [Node -> Seq(Byte)] /\ conn = NoConn
  BY SystemOpensType DEF OpenFile, PhaseInv
<1>4. file \in [policy : Policies, type : FileTypes, handle : Desc \cup {None}]
  BY <1>2, Shapes
<1>5. file.policy.permission \in {"r", "w", "rw"}
  BY <1>4 DEF Policies
<1>6. file' \in [policy : Policies, type : FileTypes, handle : Desc \cup {None}] /\ file'.handle = d
  BY <1>1, <1>4
<1> DEFINE new == Opened(n, file.policy.permission)
<1>7. new \in Descriptions /\ new.node # None
  BY <1>5, OpenedDesc
<1>8. desc' \in [Desc -> Descriptions] /\ \A e \in Desc : desc'[e] = IF e = d THEN new ELSE desc[e]
  <2> HIDE DEF new
  <2>1. desc' = [desc EXCEPT ![d] = new]
    BY <1>1 DEF new
  <2> QED  BY <2>1, <1>7 DEF TypeOK
<1> HIDE DEF new
<1>9. TypeOK'
  BY <1>1, <1>2, <1>3, <1>6, <1>8 DEF TypeOK, Elsewhere
<1>10. Exists' /\ file'.handle # None
  BY <1>6, Marks DEF Exists, NoFile
<1>11. PhaseInv'
  <2>1. \A e \in Desc : Held(e)' => e = d \/ Held(e)
    BY <1>1, <1>6 DEF Held
  <2> QED  BY <2>1, <1>1, <1>2, <1>3, <1>7, <1>8, <1>10 DEF PhaseInv
<1>12. HandleCount' = 1 /\ HandleCount = 0
  BY <1>1, <1>10 DEF HandleCount
<1>13. DescriptorsAccounted'
  BY <1>1, <1>12, Accounts, AccountsNext, Terms DEF Elsewhere, Holding, DownloadOpen, At, ListingOpen
<1> QED  BY <1>9, <1>11, <1>13

\* open succeeds, and there is no handle all the same.
LEMMA OpenLostAccount ==
  ASSUME AccountInv, NEW n \in Node \cup {Dir}, OpenWithoutDup(n) \/ OpenWithoutObject(n), Elsewhere
  PROVE  AccountInv'
<1> USE DEF AccountInv
<1>1. /\ call' = NoCall /\ quiet' = TRUE
      /\ UNCHANGED <<conn, url, desc, file, copy>>
      /\ lost' \in Nat /\ used' = used + (lost' - lost)
  <2>1. CASE OpenWithoutDup(n)
    BY <2>1, Accounts, Terms DEF OpenWithoutDup, Return
  <2>2. CASE OpenWithoutObject(n)
    BY <2>2, Accounts, Terms DEF OpenWithoutObject, Return, Take
  <2> QED  BY <2>1, <2>2
<1>2. SystemOpens(n)
  BY DEF OpenWithoutDup, OpenWithoutObject
<1>3. path' \in Node \cup {Dir, Absent} /\ data' \in [Node -> Seq(Byte)] /\ conn = NoConn
  BY <1>2, SystemOpensType DEF PhaseInv
<1>4. TypeOK'
  BY <1>1, <1>3 DEF TypeOK, Elsewhere
<1>5. PhaseInv'
  BY <1>1, <1>3 DEF PhaseInv, Exists, Held
<1>6. HandleCount' = HandleCount /\ DownloadOpen' = DownloadOpen /\ ListingOpen' = ListingOpen /\ Holding' = Holding
  BY <1>1 DEF HandleCount, Exists, Holding, DownloadOpen, At, ListingOpen, Elsewhere
<1>7. DescriptorsAccounted'
  <2>1. used = lost + Cardinality(Holding) + HandleCount + DownloadOpen + ListingOpen
    BY Accounts
  <2>2. used' = lost' + Cardinality(Holding) + HandleCount + DownloadOpen + ListingOpen
    BY <2>1, <1>1, Terms
  <2> QED  BY <2>2, <1>6, AccountsNext
<1> QED  BY <1>4, <1>5, <1>7

\* A download that has come to its end gives the file its handle, or nothing.
LEMMA DownloadOverAccount ==
  ASSUME AccountInv, DownloadFailed \/ \E n \in Node, d \in Desc : TakeDownload(n, d), Elsewhere
  PROVE  AccountInv'
<1> USE DEF AccountInv
<1>1. Stage("open") /\ call # NoCall /\ conn' = NoConn /\ UNCHANGED <<used, url, path, copy, lost>> /\ conn # NoConn
  BY Shapes DEF DownloadFailed, TakeDownload, Stage, At, NoConn
<1>2. Exists /\ file.handle = None /\ call \in Calls
  BY <1>1, StageFacts DEF PhaseInv
<1>3. CASE DownloadFailed
  <2>1. call' = NoCall /\ quiet' = TRUE /\ UNCHANGED <<data, desc, file>>
    BY <1>3 DEF DownloadFailed, Return
  <2>2. TypeOK'
    BY <1>1, <2>1 DEF TypeOK, Elsewhere
  <2>3. PhaseInv'
    BY <1>1, <2>1 DEF PhaseInv, Exists, Held
  <2>4. HandleCount' = HandleCount /\ ListingOpen' = ListingOpen /\ Holding' = Holding
    BY <1>1, <2>1 DEF HandleCount, Exists, Holding, ListingOpen, Elsewhere
  <2>5. DownloadOpen = 0 /\ DownloadOpen' = 0
    BY <1>1, <1>3 DEF DownloadFailed, DownloadOpen, At, NoConn
  <2>6. DescriptorsAccounted'
    BY <1>1, <2>4, <2>5, Accounts, AccountsNext
  <2> QED  BY <2>2, <2>3, <2>6
<1>4. CASE \E n \in Node, d \in Desc : TakeDownload(n, d)
  <2>1. PICK n \in Node, d \in Desc : TakeDownload(n, d)
    BY <1>4
  <2>2. /\ data' = [data EXCEPT ![n] = conn.got]
        /\ desc' = [desc EXCEPT ![d] = Opened(n, "rw")]
        /\ file' = [file EXCEPT !.handle = d]
        /\ call' = [call EXCEPT !.pc = "use"]
        /\ quiet' = quiet
    BY <2>1 DEF TakeDownload, Goto
  <2>3. file' \in [policy : Policies, type : FileTypes, handle : Desc \cup {None}] /\ file'.handle = d
    BY <2>2, <1>2, Shapes
  <2>4. data' \in [Node -> Seq(Byte)]
    BY <2>2, <1>1, Shapes DEF TypeOK, Downloads
  <2>5. Opened(n, "rw") \in Descriptions /\ Opened(n, "rw").node # None
    BY OpenedDesc
  <2>6. desc' \in [Desc -> Descriptions] /\ \A e \in Desc : desc'[e] = IF e = d THEN Opened(n, "rw") ELSE desc[e]
    BY <2>2, <2>5 DEF TypeOK
  <2>7. call' \in Calls /\ (call'.op = "copy" => call'.client \in Client)
    BY <1>1, <2>2, StageFacts
  <2>8. TypeOK'
    BY <1>1, <2>2, <2>3, <2>4, <2>6, <2>7 DEF TypeOK, Elsewhere
  <2>9. Exists' /\ file'.handle # None
    BY <2>3, Marks DEF Exists, NoFile
  <2>10. PhaseInv'
    <3>1. \A e \in Desc : Held(e)' => e = d \/ Held(e)
      BY <1>1, <2>3 DEF Held
    <3> QED  BY <3>1, <1>1, <2>5, <2>6, <2>7, <2>9 DEF PhaseInv
  <2>11. HandleCount' = 1 /\ HandleCount = 0
    BY <1>2, <2>9 DEF HandleCount
  <2>12. DownloadOpen = 1 /\ DownloadOpen' = 0
    BY <1>1, <2>1 DEF TakeDownload, DownloadOpen, At, NoConn
  <2>13. ListingOpen' = ListingOpen /\ Holding' = Holding
    BY <1>1 DEF Holding, ListingOpen, Elsewhere
  <2>14. DescriptorsAccounted'
    BY <1>1, <2>11, <2>12, <2>13, Accounts, AccountsNext, Terms
  <2> QED  BY <2>8, <2>10, <2>14
<1> QED  BY <1>3, <1>4

\* The server and the disk, beside a download that stays the same one.
LEMMA ConnAccount ==
  ASSUME AccountInv, conn # NoConn, conn' \in Downloads, UNCHANGED fileVars, Elsewhere,
         used' = used + (DownloadOpen' - DownloadOpen)
  PROVE  AccountInv'
<1> USE DEF AccountInv
<1>1. TypeOK'
  BY DEF TypeOK, fileVars, Elsewhere
<1>2. PhaseInv'
  BY DEF PhaseInv, fileVars, Exists, Held, Stage
<1>3. HandleCount' = HandleCount /\ ListingOpen' = ListingOpen /\ Holding' = Holding /\ lost' = lost
  BY DEF HandleCount, Exists, Holding, ListingOpen, Elsewhere, fileVars
<1>4. DescriptorsAccounted'
  <2>1. DownloadOpen' \in Int
    BY DEF DownloadOpen, At
  <2>2. used = lost + Cardinality(Holding) + HandleCount + DownloadOpen + ListingOpen
    BY Accounts
  <2> QED  BY <1>3, <2>1, <2>2, Terms, AccountsNext
<1> QED  BY <1>1, <1>2, <1>4

\* A client that has a copy has a description of an inode.
LEMMA ClientFacts ==
  ASSUME TypeOK, PhaseInv, NEW c \in Client, HasFile(c)
  PROVE  copy[c] \in Desc /\ ClientDesc(c) \in Descriptions /\ ClientDesc(c).node \in Node
<1>1. copy[c] \in Desc
  BY DEF HasFile, TypeOK
<1>2. Held(copy[c])
  BY DEF Held
<1> QED  BY <1>1, <1>2 DEF PhaseInv, TypeOK, HasFile, ClientDesc, Descriptions

\* The cursor or the contents of a description in use change.
LEMMA CursorAccount ==
  ASSUME AccountInv, NEW d \in Desc, NEW p \in Nat, desc' = [desc EXCEPT ![d].pos = p],
         data' \in [Node -> Seq(Byte)], call' \in {NoCall} \cup Calls, quiet' \in BOOLEAN,
         call' # NoCall => call # NoCall /\ UNCHANGED <<call.op, call.client>>
                           /\ (call.pc = "open" <=> call'.pc = "open"),
         conn # NoConn => UNCHANGED call,
         UNCHANGED <<used, conn, url, path, file, copy, lost>>, Elsewhere
  PROVE  AccountInv'
<1> USE DEF AccountInv
<1>1. desc[d] \in Descriptions
  BY DEF TypeOK
<1>2. [desc[d] EXCEPT !.pos = p] \in Descriptions /\ [desc[d] EXCEPT !.pos = p].node = desc[d].node
  BY <1>1 DEF Descriptions
<1>3. desc' \in [Desc -> Descriptions] /\ \A e \in Desc : desc'[e].node = desc[e].node
  BY <1>2 DEF TypeOK
<1>4. TypeOK'
  BY <1>3 DEF TypeOK, Elsewhere
<1>5. PhaseInv'
  BY <1>3 DEF PhaseInv, Exists, Held, Stage
<1>6. HandleCount' = HandleCount /\ DownloadOpen' = DownloadOpen /\ ListingOpen' = ListingOpen /\ Holding' = Holding
  BY DEF HandleCount, Exists, Holding, DownloadOpen, At, ListingOpen, Elsewhere
<1>7. DescriptorsAccounted'
  BY <1>6, Accounts, AccountsNext
<1> QED  BY <1>4, <1>5, <1>7

\* What is read is a sequence of bytes.
LEMMA ReadType ==
  ASSUME TypeOK, PhaseInv, Stage("read"), Readable
  PROVE  /\ file.handle \in Desc /\ Own \in Descriptions /\ Own.node \in Node
         /\ call.length \in Nat /\ data[Own.node] \in Seq(Byte)
         /\ ReadBytes \in Seq(Byte) /\ Len(ReadBytes) \in Nat /\ Len(ReadBytes) <= call.length
<1>1. call \in Calls /\ call # NoCall /\ file.handle \in Desc /\ Exists
  BY StageFacts DEF Stage
<1>2. desc[file.handle].node # None
  BY <1>1 DEF PhaseInv, Held
<1>3. Own \in Descriptions /\ Own.node \in Node
  BY <1>1, <1>2 DEF Own, TypeOK, Descriptions, Readable
<1> DEFINE s == data[Own.node]
           a == Own.pos + 1
           b == Least(Own.pos + call.length, Len(s))
<1>4. s \in Seq(Byte) /\ a \in 1..a /\ b \in Nat /\ b <= Len(s) /\ call.length \in Nat /\ b - a + 1 <= call.length
  BY <1>1, <1>3 DEF TypeOK, Calls, Descriptions, Least
<1>5. ReadBytes = SubSeq(s, a, b)
  BY DEF ReadBytes
<1> HIDE DEF s, a, b
<1>6. SubSeq(s, a, b) \in Seq(Byte) /\ Len(SubSeq(s, a, b)) = IF a <= b THEN b - a + 1 ELSE 0
  BY <1>4, SubSeqProperties
<1>7. a \in Nat /\ b \in Nat
  BY <1>4
<1>8. Len(SubSeq(s, a, b)) \in Nat /\ Len(SubSeq(s, a, b)) <= call.length
  BY <1>4, <1>6, <1>7
<1> QED  BY <1>1, <1>3, <1>4, <1>5, <1>6, <1>8 DEF s

\* Seeking and reading in the file's own handle.
LEMMA ReadingAccount ==
  ASSUME AccountInv, SeekToBegin \/ ReadData, Elsewhere
  PROVE  AccountInv'
<1> USE DEF AccountInv
<1>1. CASE SeekToBegin
  <2>1. call # NoCall /\ call' = [call EXCEPT !.pc = "read"] /\ call.pc = "seek"
    BY <1>1 DEF SeekToBegin, Stage, Goto
  <2>2. file.handle \in Desc /\ conn = NoConn
    BY <2>1, StageFacts
  <2>3. call' \in Calls /\ UNCHANGED <<call.op, call.client>> /\ call'.pc = "read"
    BY <2>1, StageFacts
  <2>4. data' \in [Node -> Seq(Byte)] /\ quiet' \in BOOLEAN
        /\ UNCHANGED <<used, conn, url, path, file, copy, lost>> /\ desc' = [desc EXCEPT ![file.handle].pos = 0]
    BY <1>1 DEF SeekToBegin, TypeOK
  <2> QED  BY <2>1, <2>2, <2>3, <2>4, CursorAccount
<1>2. CASE ReadData
  <2>1. call # NoCall /\ Stage("read") /\ Readable /\ call.pc = "read"
    BY <1>2 DEF ReadData, Stage
  <2>2. file.handle \in Desc /\ conn = NoConn /\ call \in Calls
    BY <2>1, StageFacts
  <2>3. Own.pos + Len(ReadBytes) \in Nat /\ ReadBytes \in Seq(Byte)
    BY <2>1, ReadType DEF Descriptions
  <2>4. desc' = [desc EXCEPT ![file.handle].pos = Own.pos + Len(ReadBytes)]
    BY <1>2 DEF ReadData, Own
  <2>5. data' \in [Node -> Seq(Byte)] /\ UNCHANGED <<used, conn, url, path, file, copy, lost>>
    BY <1>2 DEF ReadData, TypeOK
  <2>6. CASE call' = NoCall /\ quiet' = TRUE
    BY <2>2, <2>3, <2>4, <2>5, <2>6, CursorAccount
  <2>7. CASE call' = [call EXCEPT !.pc = "done", !.got = ReadBytes] /\ quiet' = quiet
    <3>1. call' \in Calls /\ UNCHANGED <<call.op, call.client>> /\ call'.pc = "done"
      BY <2>2, <2>3, <2>7 DEF Calls
    <3>2. quiet' \in BOOLEAN
      BY <2>7 DEF TypeOK
    <3> QED  BY <2>1, <2>2, <2>3, <2>4, <2>5, <3>1, <3>2, CursorAccount
  <2> QED  BY <1>2, <2>6, <2>7 DEF ReadData, Return
<1> QED  BY <1>1, <1>2

\* A client seeks or writes through its copy.
LEMMA ClientAccount ==
  ASSUME AccountInv, NEW c \in Client,
         \/ \E p \in 0..MaxLen : ClientSeeks(c, p)
         \/ \E b \in world.written : ClientWrites(c, b),
         Elsewhere
  PROVE  AccountInv'
<1> USE DEF AccountInv
<1>1. HasFile(c) /\ UNCHANGED <<used, conn, url, path, file, copy, call, lost>> /\ quiet' \in BOOLEAN
  BY DEF ClientSeeks, ClientWrites, Touch
<1>2. copy[c] \in Desc /\ ClientDesc(c) \in Descriptions /\ ClientDesc(c).node \in Node
  BY <1>1, ClientFacts
<1>3. call' \in {NoCall} \cup Calls
  BY <1>1 DEF TypeOK
<1>4. CASE \E p \in 0..MaxLen : ClientSeeks(c, p)
  <2>1. PICK p \in Nat : desc' = [desc EXCEPT ![copy[c]].pos = p] /\ data' = data
    <3>1. PICK p \in 0..MaxLen : ClientSeeks(c, p)
      BY <1>4
    <3>2. p \in Nat
      BY <1>2, <3>1 DEF ClientSeeks, TypeOK
    <3> QED  BY <3>1, <3>2 DEF ClientSeeks
  <2>2. data' \in [Node -> Seq(Byte)]
    BY <2>1 DEF TypeOK
  <2> QED  BY <2>1, <2>2, <1>1, <1>2, <1>3, CursorAccount
<1>5. CASE \E b \in world.written : ClientWrites(c, b)
  <2>1. PICK b \in world.written : ClientWrites(c, b)
    BY <1>5
  <2>2. b \in Byte
    BY WorldsAssumption DEF TypeOK
  <2> DEFINE n == ClientDesc(c).node
             p == Least(ClientDesc(c).pos, Len(data[n]))
             new == [i \in 1..(IF p < Len(data[n]) THEN Len(data[n]) ELSE p + 1) |-> IF i = p + 1 THEN b ELSE data[n][i]]
  <2>3. data[n] \in Seq(Byte) /\ p \in Nat /\ p <= Len(data[n])
    BY <1>2 DEF TypeOK, Least, Descriptions
  <2>4. data' = [data EXCEPT ![n] = new] /\ desc' = [desc EXCEPT ![copy[c]].pos = p + 1]
    BY <1>2, <2>1 DEF ClientWrites, TypeOK
  <2>5. new \in Seq(Byte)
    <3> HIDE DEF p, n
    <3> DEFINE k == IF p < Len(data[n]) THEN Len(data[n]) ELSE p + 1
    <3>1. k \in Nat /\ \A i \in 1..k : i # p + 1 => i \in 1..Len(data[n])
      BY <2>3
    <3>2. \A i \in 1..k : (IF i = p + 1 THEN b ELSE data[n][i]) \in Byte
      BY <2>2, <2>3, <3>1
    <3> HIDE DEF k
    <3>3. [i \in 1..k |-> IF i = p + 1 THEN b ELSE data[n][i]] \in Seq(Byte)
      BY <3>1, <3>2, IsASeq
    <3> QED  BY <3>3 DEF k
  <2>6. data' \in [Node -> Seq(Byte)]
    <3> HIDE DEF new
    <3> QED  BY <2>4, <2>5 DEF TypeOK
  <2>7. p + 1 \in Nat
    BY <2>3
  <2> HIDE DEF p, n, new
  <2> QED  BY <2>4, <2>6, <2>7, <1>1, <1>2, <1>3, CursorAccount
<1> QED  BY <1>4, <1>5

\* A client takes a copy of the handle.
LEMMA CopyAccount ==
  ASSUME AccountInv, CopyReturns, Elsewhere
  PROVE  AccountInv'
<1> USE DEF AccountInv
<1>1. call # NoCall /\ call.pc = "use" /\ call.op = "copy" /\ call' = NoCall /\ quiet' = TRUE
      /\ copy[call.client] = None /\ copy' = [copy EXCEPT ![call.client] = file.handle] /\ used' = used + 1
      /\ UNCHANGED <<conn, url, path, data, desc, file, lost>>
  BY DEF CopyReturns, Using, Stage, Return, Take
<1>2. call.client \in Client /\ file.handle \in Desc /\ conn = NoConn /\ Exists
  BY <1>1, StageFacts
<1>3. TypeOK'
  BY <1>1, <1>2 DEF TypeOK, Elsewhere
<1>4. PhaseInv'
  <2>1. \A e \in Desc : Held(e)' => Held(e)
    BY <1>1, <1>2 DEF Held, TypeOK, Exists
  <2> QED  BY <2>1, <1>1, <1>2 DEF PhaseInv
<1>5. Cardinality(Holding') = Cardinality(Holding) + 1
  BY <1>1, <1>2, HolderMore
<1>6. HandleCount' = HandleCount /\ DownloadOpen' = DownloadOpen /\ ListingOpen' = ListingOpen /\ lost' = lost
  BY <1>1 DEF HandleCount, Exists, DownloadOpen, At, ListingOpen, Elsewhere
<1>7. DescriptorsAccounted'
  BY <1>1, <1>5, <1>6, Accounts, AccountsNext, Terms
<1> QED  BY <1>3, <1>4, <1>7

\* A client releases its copy.
LEMMA ReleaseAccount ==
  ASSUME AccountInv, NEW c \in Client, ClientReleases(c), Elsewhere
  PROVE  AccountInv'
<1> USE DEF AccountInv
<1>1. copy[c] # None /\ copy' = [copy EXCEPT ![c] = None] /\ used' = used - 1
      /\ UNCHANGED <<conn, url, path, file, call, quiet, lost>>
  BY DEF ClientReleases, GiveBack
<1>2. desc' \in [Desc -> Descriptions] /\ data' \in [Node -> Seq(Byte)]
  BY Swept DEF ClientReleases
<1>3. TypeOK'
  BY <1>1, <1>2 DEF TypeOK, Elsewhere
<1>4. PhaseInv'
  <2>1. \A e \in Desc : Held(e)' => Held(e) /\ desc'[e] = desc[e]
    BY <1>1, Marks DEF Held, Exists, TypeOK, ClientReleases, SweepDesc
  <2> QED  BY <2>1, <1>1 DEF PhaseInv, Exists, Stage
<1>5. Cardinality(Holding') = Cardinality(Holding) - 1
  BY <1>1, HolderLess
<1>6. HandleCount' = HandleCount /\ DownloadOpen' = DownloadOpen /\ ListingOpen' = ListingOpen /\ lost' = lost
  BY <1>1 DEF HandleCount, Exists, DownloadOpen, At, ListingOpen, Elsewhere
<1>7. DescriptorsAccounted'
  BY <1>1, <1>5, <1>6, Accounts, AccountsNext, Terms
<1> QED  BY <1>3, <1>4, <1>7

\* The owner's open starts a download.
LEMMA StartAccount ==
  ASSUME AccountInv, NEW r \in world.responses, StartDownload(r), Elsewhere
  PROVE  AccountInv'
<1> USE DEF AccountInv
<1>1. Stage("open") /\ file.handle = None /\ url = "http" /\ At("none") /\ used' = used + 1
      /\ conn' = [pc |-> "header", state |-> 0, rest |-> r, got |-> <<>>,
                  sent |-> r, cut |-> FALSE, spoiled |-> FALSE]
      /\ UNCHANGED fileVars
  BY DEF StartDownload, MayOpen, Connect, Take
<1>2. r \in Seq(Byte)
  BY WorldsAssumption DEF TypeOK
<1>3. conn' \in Downloads /\ conn' # NoConn
  BY <1>1, <1>2 DEF Downloads, NoConn
<1>4. TypeOK'
  BY <1>1, <1>3 DEF TypeOK, fileVars, Elsewhere
<1>5. PhaseInv'
  BY <1>1 DEF PhaseInv, fileVars, Exists, Held, Stage
<1>6. HandleCount' = HandleCount /\ ListingOpen' = ListingOpen /\ Holding' = Holding /\ lost' = lost
  BY <1>1 DEF HandleCount, Exists, Holding, ListingOpen, Elsewhere, fileVars
<1>7. DownloadOpen = 0 /\ DownloadOpen' = 1
  BY <1>1 DEF DownloadOpen, At
<1>8. DescriptorsAccounted'
  BY <1>1, <1>6, <1>7, Accounts, AccountsNext, Terms
<1> QED  BY <1>4, <1>5, <1>8

\* A download goes on, or its connection is lost.
LEMMA DownloadAccount ==
  ASSUME AccountInv, DownloadStep \/ LoseConnection \/ HeaderReadFails, UNCHANGED fileVars, Elsewhere
  PROVE  AccountInv'
<1> USE DEF AccountInv
<1>1. conn # NoConn /\ conn \in Downloads
  BY Shapes DEF DownloadStep, LoseConnection, SkipHeaderByte, HeaderRunsOut, HeaderReadFails, CreateVirtualHandle, VirtualHandleFails,
                CopyBody, CopyBodyShort, BodyEnds, At, NoConn
<1>2. used \in Int
  BY Accounts, Terms
<1> USE DEF At
<1>3. CASE SkipHeaderByte
  <2> DEFINE s == HeaderState(conn.state, Head(conn.rest))
  <2>1. s \in 0..4
    BY <1>1 DEF HeaderState, Downloads
  <2>2. conn' = [conn EXCEPT !.rest = Tail(@), !.state = IF s = 4 THEN 0 ELSE s,
                             !.pc = IF s = 4 THEN "create" ELSE "header"]
        /\ conn.rest # <<>> /\ conn.pc = "header" /\ used' = used
    BY <1>3 DEF SkipHeaderByte
  <2>3. Tail(conn.rest) \in Seq(Byte)
    BY <1>1, <2>2 DEF Downloads
  <2> HIDE DEF s
  <2>4. conn' \in Downloads /\ conn'.pc \in {"header", "create"}
    <3>1. CASE s = 4
      <4>1. conn' = [conn EXCEPT !.rest = Tail(@), !.state = 0, !.pc = "create"]
        BY <2>2, <3>1
      <4>2. PICK z \in 0..3 : z = 0
        OBVIOUS
      <4>3. conn' = [conn EXCEPT !.rest = Tail(@), !.state = z, !.pc = "create"]
        BY <4>1, <4>2
      <4> QED  BY <4>3, <1>1, <2>3 DEF Downloads
    <3>2. CASE s # 4
      <4>1. conn' = [conn EXCEPT !.rest = Tail(@), !.state = s, !.pc = "header"] /\ s \in 0..3
        BY <2>1, <2>2, <3>2
      <4> QED  BY <4>1, <1>1, <2>3 DEF Downloads
    <3> QED  BY <3>1, <3>2
  <2>5. used' = used + (DownloadOpen' - DownloadOpen)
    BY <1>2, <2>2, <2>4 DEF DownloadOpen
  <2> QED  BY <1>1, <2>4, <2>5, ConnAccount
<1>4. CASE HeaderRunsOut \/ HeaderReadFails \/ CreateVirtualHandle \/ VirtualHandleFails \/ BodyEnds
  <2>1. conn' \in Downloads
    <3>1. CASE HeaderRunsOut
      <4>1. PICK z \in 0..3 : z = 0
        OBVIOUS
      <4>2. conn' = [conn EXCEPT !.pc = "create", !.state = z]
        BY <3>1, <4>1 DEF HeaderRunsOut
      <4> QED  BY <1>1, <4>2 DEF Downloads
    <3>2. CASE CreateVirtualHandle
      BY <1>1, <3>2 DEF CreateVirtualHandle, Downloads
    <3>3. CASE VirtualHandleFails
      BY <1>1, <3>3 DEF VirtualHandleFails, Downloads
    <3>4. CASE BodyEnds
      BY <1>1, <3>4 DEF BodyEnds, Downloads
    <3>5. CASE HeaderReadFails
      <4>1. PICK z \in 0..3 : z = 0
        OBVIOUS
      <4>2. conn' = [conn EXCEPT !.pc = "create", !.state = z, !.spoiled = TRUE]
        BY <3>5, <4>1 DEF HeaderReadFails
      <4> QED  BY <1>1, <4>2 DEF Downloads
    <3> QED  BY <1>4, <3>1, <3>2, <3>3, <3>4, <3>5
  <2>2. used' = used + (DownloadOpen' - DownloadOpen)
    <3>1. CASE HeaderRunsOut
      BY <1>1, <1>2, <3>1 DEF HeaderRunsOut, DownloadOpen, Downloads
    <3>2. CASE CreateVirtualHandle
      BY <1>1, <1>2, <3>2 DEF CreateVirtualHandle, DownloadOpen, Downloads, Take
    <3>3. CASE VirtualHandleFails
      BY <1>1, <1>2, <3>3 DEF VirtualHandleFails, DownloadOpen, Downloads, GiveBack
    <3>4. CASE BodyEnds
      BY <1>1, <1>2, <3>4 DEF BodyEnds, DownloadOpen, Downloads, GiveBack
    <3>5. CASE HeaderReadFails
      BY <1>1, <1>2, <3>5 DEF HeaderReadFails, DownloadOpen, Downloads
    <3> QED  BY <1>4, <3>1, <3>2, <3>3, <3>4, <3>5
  <2> QED  BY <1>1, <2>1, <2>2, ConnAccount
<1>5. CASE \E n \in 1..MaxBody : CopyBody(n) \/ \E k \in 0..n - 1 : CopyBodyShort(n, k)
  <2>1. PICK n \in 1..Len(conn.rest), k \in 0..Len(conn.rest), b \in BOOLEAN :
            /\ k <= n /\ used' = used /\ conn.pc = "body"
            /\ conn' = [conn EXCEPT !.got = @ \o SubSeq(conn.rest, 1, k),
                                    !.rest = SubSeq(@, n + 1, Len(@)), !.spoiled = b]
    <3>1. PICK n \in 1..MaxBody : CopyBody(n) \/ \E k \in 0..n - 1 : CopyBodyShort(n, k)
      BY <1>5
    <3>2. Len(conn.rest) \in Nat /\ conn.spoiled \in BOOLEAN
      BY <1>1 DEF Downloads
    <3>3. CASE CopyBody(n)
      <4>1. n \in 1..Len(conn.rest) /\ n \in 0..Len(conn.rest) /\ n <= n /\ used' = used /\ conn.pc = "body"
        BY <3>2, <3>3 DEF CopyBody
      <4>2. conn' = [conn EXCEPT !.got = @ \o SubSeq(conn.rest, 1, n),
                                 !.rest = SubSeq(@, n + 1, Len(@)), !.spoiled = conn.spoiled]
        BY <1>1, <3>3 DEF CopyBody, Downloads
      <4> QED  BY <3>2, <4>1, <4>2
    <3>4. CASE \E k \in 0..n - 1 : CopyBodyShort(n, k)
      <4>1. PICK k \in 0..n - 1 : CopyBodyShort(n, k)
        BY <3>4
      <4>2. n \in 1..Len(conn.rest) /\ k \in 0..Len(conn.rest) /\ k <= n /\ used' = used /\ conn.pc = "body"
        BY <3>2, <4>1 DEF CopyBodyShort
      <4>3. conn' = [conn EXCEPT !.got = @ \o SubSeq(conn.rest, 1, k),
                                 !.rest = SubSeq(@, n + 1, Len(@)), !.spoiled = TRUE]
        BY <4>1 DEF CopyBodyShort
      <4> QED  BY <4>2, <4>3
    <3> QED  BY <3>1, <3>3, <3>4
  <2>2. conn.rest \in Seq(Byte) /\ conn.got \in Seq(Byte)
    BY <1>1 DEF Downloads
  <2>3. SubSeq(conn.rest, 1, k) \in Seq(Byte) /\ SubSeq(conn.rest, n + 1, Len(conn.rest)) \in Seq(Byte)
    BY <2>2, SubSeqProperties
  <2>4. conn.got \o SubSeq(conn.rest, 1, k) \in Seq(Byte)
    BY <2>2, <2>3
  <2>5. conn' \in Downloads /\ conn'.pc = "body"
    BY <1>1, <2>1, <2>3, <2>4 DEF Downloads
  <2>6. used' = used + (DownloadOpen' - DownloadOpen)
    BY <1>2, <2>1, <2>5 DEF DownloadOpen
  <2> QED  BY <1>1, <2>5, <2>6, ConnAccount
<1>6. CASE LoseConnection
  <2>1. conn' = [conn EXCEPT !.rest = <<>>, !.cut = TRUE] /\ used' = used /\ <<>> \in Seq(Byte)
    BY <1>6 DEF LoseConnection
  <2>3. conn' \in Downloads /\ conn'.pc = conn.pc /\ used' = used
    BY <1>1, <2>1 DEF Downloads
  <2>2. used' = used + (DownloadOpen' - DownloadOpen)
    BY <1>2, <2>3 DEF DownloadOpen
  <2> QED  BY <1>1, <2>3, <2>2, ConnAccount
<1> QED  BY <1>3, <1>4, <1>5, <1>6 DEF DownloadStep

\* A listing that is under way before a step and after it holds one descriptor.
LEMMA Running ==
  ASSUME list \in [pc : {"create", "read"}, left : Seq({"good", "bad"})],
         list' \in [pc : {"create", "read"}, left : Seq({"good", "bad"})], unclosed \in Nat, unclosed' = unclosed
  PROVE  ListingOpen' = ListingOpen /\ ListingOpen \in Nat
<1>1. list # NoList /\ list' # NoList
  BY DEF NoList
<1> QED  BY <1>1 DEF ListingOpen

\* A listing begins, goes on or ends.
LEMMA ListingAccount ==
  ASSUME AccountInv, ListingStep \/ \E entries \in world.directories : OpenDirectory(entries),
         UNCHANGED world, UNCHANGED conn, UNCHANGED fileVars
  PROVE  AccountInv'
<1> USE DEF AccountInv
<1>1. list' \in {NoList} \cup [pc : {"create", "read"}, left : Seq({"good", "bad"})]
      /\ unclosed' \in Nat /\ used' = used + (ListingOpen' - ListingOpen)
  <2>1. used \in Int
    BY Accounts, Terms
  <2>2. list = NoList \/ list \in [pc : {"create", "read"}, left : Seq({"good", "bad"})]
    BY DEF TypeOK
  <2>3. CASE \E entries \in world.directories : OpenDirectory(entries)
    <3>1. PICK entries \in world.directories : OpenDirectory(entries)
      BY <2>3
    <3>2. entries \in Seq({"good", "bad"})
      BY WorldsAssumption DEF TypeOK
    <3> QED  BY <2>1, <3>1, <3>2 DEF OpenDirectory, ListingOpen, NoList, Take, TypeOK
  <2>4. CASE CreateContents
    <3>1. list \in [pc : {"create", "read"}, left : Seq({"good", "bad"})]
          /\ list' = [list EXCEPT !.pc = "read"] /\ used' = used /\ unclosed' = unclosed
      BY <2>2, <2>4 DEF CreateContents, NoList
    <3> QED  BY <2>1, <3>1, Running DEF TypeOK
  <2>5. CASE CreateContentsFails
    BY <2>1, <2>2, <2>5 DEF CreateContentsFails, ListingOpen, NoList, TypeOK, GiveBack
  <2>6. CASE ReadNext
    <3>1. list \in [pc : {"create", "read"}, left : Seq({"good", "bad"})] /\ list.left # <<>>
          /\ list' = [list EXCEPT !.left = Tail(@)] /\ used' = used /\ unclosed' = unclosed
      BY <2>2, <2>6 DEF ReadNext, Reading, NoList
    <3>2. Tail(list.left) \in Seq({"good", "bad"})
      BY <3>1
    <3>3. list' \in [pc : {"create", "read"}, left : Seq({"good", "bad"})]
      BY <3>1, <3>2
    <3> QED  BY <2>1, <3>1, <3>3, Running DEF TypeOK
  <2>7. CASE RefuseEntry
    BY <2>1, <2>2, <2>7 DEF RefuseEntry, ListingOpen, TypeOK
  <2>8. CASE ReturnContents
    BY <2>1, <2>2, <2>8 DEF ReturnContents, ListingOpen, NoList, TypeOK
  <2> QED  BY <2>3, <2>4, <2>5, <2>6, <2>7, <2>8 DEF ListingStep
<1>2. TypeOK'
  BY <1>1 DEF TypeOK, fileVars
<1>3. PhaseInv'
  BY DEF PhaseInv, fileVars, Exists, Held, Stage
<1>4. HandleCount' = HandleCount /\ DownloadOpen' = DownloadOpen /\ Holding' = Holding /\ lost' = lost
  BY DEF HandleCount, Exists, Holding, DownloadOpen, At, fileVars
<1>5. ListingOpen' \in Int
  BY <1>1 DEF ListingOpen
<1>6. DescriptorsAccounted'
  BY <1>1, <1>4, <1>5, Accounts, AccountsNext, Terms
<1> QED  BY <1>2, <1>3, <1>6

\* The first state.
LEMMA InitAccount == Init => AccountInv
<1> SUFFICES ASSUME Init PROVE AccountInv
  OBVIOUS
<1>1. TypeOK
  <2>1. <<>> \in Seq(Byte) /\ Free \in Descriptions
    BY DEF Free, Descriptions
  <2> QED  BY <2>1 DEF Init, InitFile, InitDownload, InitListing, TypeOK
<1>2. PhaseInv
  BY <1>1, Marks DEF Init, InitFile, InitDownload, PhaseInv, Held, Exists, NoFile
<1>3. Holding = {} /\ HandleCount = 0 /\ DownloadOpen = 0 /\ ListingOpen = 0 /\ lost = 0 /\ used = 0
  BY DEF Init, InitFile, InitDownload, InitListing, Holding, HandleCount, Exists, DownloadOpen, At, NoConn, ListingOpen
<1>4. DescriptorsAccounted
  BY <1>3, Accounts, FS_EmptySet
<1> QED  BY <1>1, <1>2, <1>4 DEF AccountInv

\* The steps of Next, one group for each lemma above.
LEMMA NextAccount ==
  ASSUME AccountInv, [Next]_vars
  PROVE  AccountInv'
<1>1. CASE Owner /\ Elsewhere
  <2>1. CASE \E p \in world.policies : EFFileCreateWithURL(p)
    BY <1>1, <2>1, CreateAccount
  <2>2. CASE \E p \in world.policies : \E n \in Node, d \in Desc, s \in {<<>>, <<"s">>} :
                EFFileCreateUnsavedWithString(p, n, d, s)
    BY <1>1, <2>2, UnsavedAccount
  <2>3. CASE Destroy \/ EFFileClose
    BY <1>1, <2>3, CloseAccount
  <2>4. CASE EFFileUnlink
    BY <1>1, <2>4, PathAccount
  <2>5. CASE (\E op \in {"open", "data"} : Begin(op, None)) \/ \E c \in Client : Begin("copy", c)
    BY <1>1, <2>5, BeginAccount
  <2>6. CASE PassStep
    BY <1>1, <2>6, PassAccount
  <2>7. CASE \E n \in Node \cup {Dir} : OpenWithoutDup(n) \/ OpenWithoutObject(n)
    BY <1>1, <2>7, OpenLostAccount
  <2>8. CASE \E n \in Node \cup {Dir}, d \in Desc : OpenFile(n, d)
    BY <1>1, <2>8, OpenFileAccount
  <2>9. CASE \E r \in world.responses : StartDownload(r)
    BY <1>1, <2>9, StartAccount
  <2>10. CASE DownloadFailed \/ \E n \in Node, d \in Desc : TakeDownload(n, d)
    BY <1>1, <2>10, DownloadOverAccount
  <2>11. CASE CopyReturns
    BY <1>1, <2>11, CopyAccount
  <2>12. CASE SeekToBegin \/ ReadData
    BY <1>1, <2>12, ReadingAccount
  <2> QED  BY <1>1, <2>1, <2>2, <2>3, <2>4, <2>5, <2>6, <2>7, <2>8, <2>9, <2>10, <2>11, <2>12
           DEF Owner, OwnerStep, OpenStep, UseStep, PassStep
<1>2. CASE Others /\ Elsewhere
  <2>1. CASE \E c \in Client : (\E p \in 0..MaxLen : ClientSeeks(c, p)) \/ (\E b \in world.written : ClientWrites(c, b))
    BY <1>2, <2>1, ClientAccount
  <2>2. CASE \E c \in Client : ClientReleases(c)
    BY <1>2, <2>2, ReleaseAccount
  <2>3. CASE (\E n \in Node \cup {Dir, Absent} : OthersReplace(n)) \/ \E s \in world.contents : OthersWrite(s)
    BY <1>2, <2>3, PathAccount
  <2> QED  BY <1>2, <2>1, <2>2, <2>3 DEF Others
<1>3. CASE (DownloadStep \/ LoseConnection \/ HeaderReadFails) /\ UNCHANGED fileVars /\ Elsewhere
  BY <1>3, DownloadAccount
<1>4. CASE /\ ListingStep \/ \E entries \in world.directories : OpenDirectory(entries)
           /\ UNCHANGED world /\ UNCHANGED conn /\ UNCHANGED fileVars
  BY <1>4, ListingAccount
<1>5. CASE UNCHANGED vars
  <2>1. TypeOK' /\ PhaseInv'
    BY <1>5 DEF vars, AccountInv, TypeOK, PhaseInv, Exists, Held, Stage
  <2>2. DescriptorsAccounted'
    BY <1>5 DEF vars, AccountInv, DescriptorsAccounted, FileOpen, DownloadOpen, ListingOpen, Exists, At
  <2> QED  BY <2>1, <2>2 DEF AccountInv
<1> QED  BY <1>1, <1>2, <1>3, <1>4, <1>5 DEF Next, Elsewhere

\* No failing path of a download, an open or a listing keeps a descriptor
\* that nobody has, and none is given back twice.
THEOREM DescriptorAccounting == Spec => []DescriptorsAccounted
<1>1. Init => AccountInv
  BY InitAccount
<1>2. AccountInv /\ [Next]_vars => AccountInv'
  BY NextAccount
<1>3. AccountInv => DescriptorsAccounted
  BY DEF AccountInv
<1> QED  BY <1>1, <1>2, <1>3, PTL DEF Spec

-----------------------------------------------------------------------------
(***************************************************************************)
(* A handle is kept, and the file behind it                                *)
(***************************************************************************)

\* What a step may not do to a file that has a handle.
KeepsHandle == Exists /\ file.handle # None /\ file' # NoFile /\ file'.handle # None =>
                  /\ file'.handle = file.handle
                  /\ call' # call => \A n \in Node : Own.node = n => Len(data'[n]) >= Len(data[n])

\* A step that leaves the file as it is, and either the contents or the call, keeps the handle.
LEMMA KeptTrivially ==
  ASSUME TypeOK, UNCHANGED file, UNCHANGED data \/ UNCHANGED call
  PROVE  KeepsHandle
<1>1. \A n \in Node : Len(data[n]) \in Nat
  BY DEF TypeOK
<1>2. \A n \in Node : data' = data => Len(data'[n]) >= Len(data[n])
  BY <1>1
<1> QED  BY <1>2 DEF KeepsHandle

\* The steps that open, empty or replace find a file without a handle.
LEMMA NextKeepsHandle ==
  ASSUME AccountInv, [Next]_vars
  PROVE  KeepsHandle
<1>0. TypeOK /\ PhaseInv
  BY DEF AccountInv
<1>1. CASE Owner
  <2>1. CASE \E p \in world.policies : \/ EFFileCreateWithURL(p)
                                       \/ \E n \in Node, d \in Desc, s \in {<<>>, <<"s">>} :
                                             EFFileCreateUnsavedWithString(p, n, d, s)
    BY <2>1 DEF EFFileCreateWithURL, EFFileCreateUnsavedWithString, KeepsHandle
  <2>2. CASE Destroy
    BY <2>2 DEF Destroy, KeepsHandle
  <2>3. CASE EFFileClose
    BY <1>0, <2>3, Shapes DEF EFFileClose, KeepsHandle
  <2>4. CASE EFFileUnlink
    BY <1>0, <2>4, KeptTrivially DEF EFFileUnlink
  <2>5. CASE \E op \in {"open", "data", "copy"}, c \in Client \cup {None} : Begin(op, c)
    BY <1>0, <2>5, KeptTrivially DEF Begin
  <2>6. CASE PassStep
    BY <1>0, <2>6, KeptTrivially
       DEF PassStep, AlreadyOpen, OpenFails, OpenReturns, CopyFails, MeasureData, MeasureFails, ReadFails, DataReturns
  <2>7. CASE \E n \in Node \cup {Dir} : \/ OpenWithoutDup(n) \/ OpenWithoutObject(n)
                                        \/ \E d \in Desc : OpenFile(n, d)
    BY <2>7 DEF OpenWithoutDup, OpenWithoutObject, OpenFile, MayOpen, KeepsHandle
  <2>8. CASE \E r \in world.responses : StartDownload(r)
    BY <1>0, <2>8, KeptTrivially DEF StartDownload, fileVars
  <2>9. CASE \E n \in Node, d \in Desc : TakeDownload(n, d)
    <3>1. conn # NoConn
      BY <2>9 DEF TakeDownload, At, NoConn
    <3> QED  BY <1>0, <3>1 DEF PhaseInv, KeepsHandle
  <2>10. CASE DownloadFailed
    BY <1>0, <2>10, KeptTrivially DEF DownloadFailed
  <2>11. CASE CopyReturns \/ SeekToBegin \/ ReadData
    BY <1>0, <2>11, KeptTrivially DEF CopyReturns, SeekToBegin, ReadData
  <2> QED  BY <1>1, <2>1, <2>2, <2>3, <2>4, <2>5, <2>6, <2>7, <2>8, <2>9, <2>10, <2>11
           DEF Owner, OwnerStep, OpenStep, UseStep, PassStep
<1>2. CASE Others
  BY <1>0, <1>2, KeptTrivially DEF Others, ClientSeeks, ClientWrites, ClientReleases, OthersReplace, OthersWrite
<1>3. CASE UNCHANGED fileVars \/ UNCHANGED vars
  BY <1>0, <1>3, KeptTrivially DEF fileVars, vars
<1> QED  BY <1>1, <1>2, <1>3 DEF Next

\* Text that was never saved stays what its writers made it until EFFileClose,
\* although every call begins with an open and the policy may be one that empties.
THEOREM HandleKept == Spec => HeldIsKept
<1>1. Init => AccountInv
  BY InitAccount
<1>2. AccountInv /\ [Next]_vars => AccountInv'
  BY NextAccount
<1>3. AccountInv /\ [Next]_vars => [KeepsHandle]_<<file, data, call>>
  BY NextKeepsHandle
<1> QED  BY <1>1, <1>2, <1>3, PTL DEF Spec, HeldIsKept, KeepsHandle

-----------------------------------------------------------------------------
(***************************************************************************)
(* A read of the whole file                                                *)
(***************************************************************************)

\* A call that is past its open has the description of its handle.
LEMMA OwnFacts ==
  ASSUME TypeOK, PhaseInv, call # NoCall, call.pc # "open"
  PROVE  /\ file.handle \in Desc /\ Held(file.handle)
         /\ Own \in Descriptions /\ Own.node \in Node \cup {Dir}
<1>1. file.handle \in Desc /\ Exists
  BY StageFacts
<1>2. Held(file.handle)
  BY <1>1 DEF Held
<1> QED  BY <1>1, <1>2 DEF PhaseInv, TypeOK, Descriptions, Own

\* A step beside the call: what the call knows stays true, or it is no longer quiet.
LEMMA BesideCall ==
  ASSUME TypeOK, PhaseInv, CallInv, UNCHANGED <<call, file>>,
         call # NoCall /\ call.pc # "open" => Own'.node = Own.node,
         quiet' => /\ quiet
                   /\ call # NoCall /\ call.pc # "open" =>
                         /\ Own'.pos = Own.pos
                         /\ Own.node \in Node => data'[Own.node] = data[Own.node]
  PROVE  CallInv'
<1>1. CASE call = NoCall \/ call.pc = "open"
  BY <1>1 DEF CallInv, Stage
<1>2. CASE call # NoCall /\ call.pc # "open"
  BY <1>2, OwnFacts DEF CallInv, Stage, Measured
<1> QED  BY <1>1, <1>2

\* What a read that finds the cursor at the beginning returns.
LEMMA ReadsWhole ==
  ASSUME TypeOK, PhaseInv, Stage("read"), Readable, Measured, Own.pos = 0
  PROVE  ReadBytes = data[Own.node]
<1>1. data[Own.node] \in Seq(Byte)
  BY ReadType
<1>2. Len(data[Own.node]) \in Nat
  BY <1>1
<1>3. ReadBytes = SubSeq(data[Own.node], 1, Len(data[Own.node]))
  BY <1>2 DEF ReadBytes, Least, Measured
<1> QED  BY <1>1, <1>3, SubSeqFull

\* The steps of a read of the whole file, in the order they are made.
LEMMA ReadingCall ==
  ASSUME AccountInv, CallInv, MeasureData \/ SeekToBegin \/ ReadData
  PROVE  CallInv'
<1>0. TypeOK /\ PhaseInv
  BY DEF AccountInv
<1>1. call # NoCall /\ call \in Calls /\ call.pc # "open"
  BY <1>0, StageFacts DEF MeasureData, SeekToBegin, ReadData, Using, Stage
<1>2. file.handle \in Desc /\ Own \in Descriptions /\ Own.node \in Node \cup {Dir}
  BY <1>0, <1>1, OwnFacts
<1>3. CASE MeasureData
  <2>1. /\ UNCHANGED <<data, desc, file>>
        /\ call' = [call EXCEPT !.pc = "seek", !.length = IF Own.node = Dir THEN 1 ELSE Len(data[Own.node])]
    BY <1>3 DEF MeasureData
  <2>2. call'.pc = "seek" /\ Own' = Own
        /\ (Own.node # Dir => call'.length = Len(data[Own.node]))
    BY <2>1, <1>1 DEF Calls, Own
  <2> QED  BY <2>1, <2>2 DEF CallInv, Stage, Measured
<1>4. CASE SeekToBegin
  <2>1. /\ UNCHANGED <<data, file, quiet>> /\ call.pc = "seek"
        /\ call' = [call EXCEPT !.pc = "read"] /\ desc' = [desc EXCEPT ![file.handle].pos = 0]
    BY <1>4 DEF SeekToBegin, Goto, Stage
  <2>2. call'.pc = "read" /\ call'.length = call.length
    BY <2>1, <1>1 DEF Calls
  <2>3. Own'.node = Own.node /\ Own'.pos = 0
    BY <2>1, <1>0, <1>2 DEF Own, TypeOK, Descriptions
  <2>4. quiet /\ Own.node # Dir => Measured
    BY <1>1, <2>1 DEF CallInv, Stage
  <2>5. Measured' = Measured
    BY <2>1, <2>2, <2>3 DEF Measured
  <2> QED  BY <2>1, <2>2, <2>3, <2>4, <2>5 DEF CallInv, Stage
<1>5. CASE ReadData
  <2>1. /\ UNCHANGED <<data, file>> /\ Stage("read") /\ Readable
        /\ desc' = [desc EXCEPT ![file.handle].pos = @ + Len(ReadBytes)]
    BY <1>5 DEF ReadData
  <2>2. CASE call' = NoCall
    BY <2>2 DEF CallInv, Stage
  <2>3. CASE /\ ~(Len(ReadBytes) < call.length)
             /\ call' = [call EXCEPT !.pc = "done", !.got = ReadBytes] /\ quiet' = quiet
    <3>1. call'.pc = "done" /\ call'.got = ReadBytes /\ call'.length = call.length
      BY <2>3, <1>1 DEF Calls
    <3>2. Own'.node = Own.node /\ Own.node # Dir
      BY <2>1, <1>0, <1>2 DEF Own, TypeOK, Descriptions, Readable
    <3>3. Len(ReadBytes) = call.length
      BY <2>1, <2>3, <1>0, ReadType
    <3>4. quiet => ReadBytes = data[Own.node]
      BY <2>1, <1>0, <3>2, ReadsWhole DEF CallInv
    <3> QED  BY <2>1, <2>3, <3>1, <3>2, <3>3, <3>4 DEF CallInv, Stage
  <2> QED  BY <1>5, <2>2, <2>3 DEF ReadData, Return
<1> QED  BY <1>3, <1>4, <1>5

\* What others may change of a description that a call reads through.
LEMMA SweptBeside ==
  ASSUME TypeOK, PhaseInv, UNCHANGED file, call # NoCall, call.pc # "open",
         \/ UNCHANGED desc
         \/ SweepDesc,
         \/ UNCHANGED data
         \/ SweepData
  PROVE  Own' = Own /\ (Own.node \in Node => data'[Own.node] = data[Own.node])
<1>1. file.handle \in Desc /\ Exists
  BY StageFacts
<1>2. Held(file.handle)'
  BY <1>1 DEF Held, Exists
<1>3. Own' = Own
  BY <1>1, <1>2 DEF SweepDesc, Own
<1>4. ASSUME Own.node \in Node PROVE Linked(Own.node)'
  BY <1>1, <1>3 DEF Linked, Own
<1> QED  BY <1>3, <1>4 DEF SweepData

\* Every step keeps what a call knows.
LEMMA NextCall ==
  ASSUME AccountInv, CallInv, [Next]_vars
  PROVE  CallInv'
<1>0. TypeOK /\ PhaseInv
  BY DEF AccountInv
<1>1. CASE Owner
  <2>1. CASE \/ \E p \in world.policies : \/ EFFileCreateWithURL(p)
                                          \/ \E n \in Node, d \in Desc, s \in {<<>>, <<"s">>} :
                                                EFFileCreateUnsavedWithString(p, n, d, s)
             \/ Destroy \/ EFFileClose
    <3>1. call' = NoCall
      BY <1>0, <2>1 DEF EFFileCreateWithURL, EFFileCreateUnsavedWithString, Destroy, EFFileClose, PhaseInv
    <3> QED  BY <3>1 DEF CallInv, Stage
  <2>2. CASE EFFileUnlink
    <3>1. call' = NoCall
      BY <2>2 DEF EFFileUnlink
    <3> QED  BY <3>1 DEF CallInv, Stage
  <2>3. CASE \E op \in {"open", "data", "copy"}, c \in Client \cup {None} : Begin(op, c)
    <3>1. call'.pc = "open"
      BY <2>3 DEF Begin
    <3> QED  BY <3>1 DEF CallInv, Stage
  <2>4. CASE \/ AlreadyOpen
             \/ \E n \in Node \cup {Dir}, d \in Desc : OpenFile(n, d)
             \/ \E n \in Node, d \in Desc : TakeDownload(n, d)
    <3>1. call # NoCall /\ call' = [call EXCEPT !.pc = "use"]
      BY <2>4 DEF AlreadyOpen, OpenFile, MayOpen, TakeDownload, Stage, Goto
    <3>2. call'.pc = "use"
      BY <1>0, <3>1, StageFacts
    <3> QED  BY <3>2 DEF CallInv, Stage
  <2>5. CASE \/ OpenFails \/ OpenReturns \/ CopyReturns \/ CopyFails \/ MeasureFails \/ ReadFails \/ DataReturns
             \/ DownloadFailed \/ \E n \in Node \cup {Dir} : OpenWithoutDup(n) \/ OpenWithoutObject(n)
    <3>1. call' = NoCall
      BY <2>5 DEF OpenFails, OpenReturns, CopyReturns, CopyFails, MeasureFails, ReadFails, DataReturns,
                  DownloadFailed, OpenWithoutDup, OpenWithoutObject, Return
    <3> QED  BY <3>1 DEF CallInv, Stage
  <2>6. CASE \E r \in world.responses : StartDownload(r)
    <3>1. UNCHANGED fileVars
      BY <2>6 DEF StartDownload
    <3> QED  BY <1>0, <3>1, BesideCall DEF fileVars, Own
  <2>7. CASE MeasureData \/ SeekToBegin \/ ReadData
    BY <2>7, ReadingCall
  <2> QED  BY <1>1, <2>1, <2>2, <2>3, <2>4, <2>5, <2>6, <2>7 DEF Owner, OwnerStep, OpenStep, UseStep
<1>2. CASE Others
  <2>1. CASE \E c \in Client : ClientReleases(c)
    <3>1. UNCHANGED <<call, file, quiet>> /\ SweepDesc /\ SweepData
      BY <2>1 DEF ClientReleases
    <3> QED  BY <1>0, <3>1, SweptBeside, BesideCall
  <2>2. CASE \E n \in Node \cup {Dir, Absent} : OthersReplace(n)
    <3>1. UNCHANGED <<call, file, quiet>> /\ UNCHANGED desc /\ SweepData
      BY <2>2 DEF OthersReplace
    <3> QED  BY <1>0, <3>1, SweptBeside, BesideCall
  <2>3. CASE \E s \in world.contents : OthersWrite(s)
    <3>1. UNCHANGED <<call, file, desc>> /\ quiet' = (call = NoCall)
      BY <2>3 DEF OthersWrite, Touch
    <3>2. CASE call = NoCall
      BY <3>1, <3>2 DEF CallInv, Stage
    <3>3. CASE call # NoCall
      BY <1>0, <3>1, <3>3, BesideCall DEF Own
    <3> QED  BY <3>2, <3>3
  <2>4. CASE \E c \in Client : \/ \E p \in 0..MaxLen : ClientSeeks(c, p)
                               \/ \E b \in world.written : ClientWrites(c, b)
    <3>1. PICK c \in Client : \/ \E p \in 0..MaxLen : ClientSeeks(c, p)
                              \/ \E b \in world.written : ClientWrites(c, b)
      BY <2>4
    <3>2. UNCHANGED <<call, file>> /\ quiet' = (call = NoCall) /\ HasFile(c)
      BY <3>1 DEF ClientSeeks, ClientWrites, Touch
    <3>3. CASE call = NoCall
      BY <3>2, <3>3 DEF CallInv, Stage
    <3>4. CASE call # NoCall
      <4>1. \E p : desc' = [desc EXCEPT ![copy[c]].pos = p]
        <5>1. CASE \E p \in 0..MaxLen : ClientSeeks(c, p)
          BY <5>1 DEF ClientSeeks
        <5>2. CASE \E b \in world.written : ClientWrites(c, b)
          BY <5>2 DEF ClientWrites
        <5> QED  BY <3>1, <5>1, <5>2
      <4>2. \A d \in Desc : desc'[d].node = desc[d].node
        BY <1>0, <4>1 DEF TypeOK, Descriptions
      <4>3. call.pc # "open" => Own'.node = Own.node
        BY <1>0, <3>2, <3>4, <4>2, OwnFacts DEF Own
      <4> QED  BY <1>0, <3>2, <3>4, <4>3, BesideCall
    <3> QED  BY <3>3, <3>4
  <2> QED  BY <1>2, <2>1, <2>2, <2>3, <2>4 DEF Others
<1>3. CASE UNCHANGED fileVars \/ UNCHANGED vars
  <2>1. UNCHANGED fileVars
    BY <1>3 DEF fileVars, vars
  <2> QED  BY <1>0, <2>1, BesideCall DEF fileVars, Own
<1> QED  BY <1>1, <1>2, <1>3 DEF Next

\* EFFileCreateData reads the whole file, wherever the cursor was before,
\* unless somebody moves the shared cursor or writes while it runs; and data
\* it returns is always as long as the file it measured.
THEOREM WholeData == Spec => []DataWhole
<1>1. Init => AccountInv /\ CallInv
  <2>1. Init => CallInv
    BY DEF Init, InitFile, CallInv, Stage
  <2> QED  BY <2>1, InitAccount
<1>2. AccountInv /\ CallInv /\ [Next]_vars => AccountInv' /\ CallInv'
  BY NextAccount, NextCall
<1>3. AccountInv /\ CallInv => DataWhole
  <2> SUFFICES ASSUME AccountInv, CallInv PROVE DataWhole
    OBVIOUS
  <2>1. TypeOK /\ PhaseInv
    BY DEF AccountInv
  <2>2. Stage("read") /\ Readable /\ quiet => ReadBytes = data[Own.node]
    BY <2>1, ReadsWhole DEF CallInv, Readable
  <2> QED  BY <2>2 DEF DataWhole, CallInv
<1> QED  BY <1>1, <1>2, <1>3, PTL DEF Spec

-----------------------------------------------------------------------------
(***************************************************************************)
(* What a download hands over                                              *)
(***************************************************************************)

\* A set of numbers has a least one.
LEMMA LeastNumber ==
  ASSUME NEW S \in SUBSET Nat, S # {}
  PROVE  \E x \in S : \A y \in S : x <= y
<1> DEFINE R == StrictSubsetOrdering(Nat)
           T == {0..x : x \in S}
<1>1. IsWellFoundedOn(R, FiniteSubsetsOf(Nat))
  BY FS_StrictSubsetOrderingWellFounded
<1>2. T \subseteq FiniteSubsetsOf(Nat) /\ T # {}
  <2>1. ASSUME NEW x \in S PROVE 0..x \in FiniteSubsetsOf(Nat)
    BY FS_Interval DEF FiniteSubsetsOf
  <2> QED  BY <2>1
<1>3. \E X \in T : \A Y \in T : <<Y, X>> \notin R
  <2> HIDE DEF R, T
  <2> QED  BY <1>1, <1>2, WFMin
<1>4. PICK x \in S : \A y \in S : <<0..y, 0..x>> \notin R
  BY <1>3
<1>5. ASSUME NEW y \in S, y < x PROVE FALSE
  <2>1. 0..y \subseteq 0..x /\ x \in 0..x /\ x \notin 0..y /\ 0..y \subseteq Nat /\ 0..x \subseteq Nat
    BY <1>5
  <2> QED  BY <2>1, <1>4 DEF StrictSubsetOrdering
<1> QED  BY <1>5

\* The four bytes that end a header.
LEMMA TerminatorBytes == /\ Len(Terminator) = 4 /\ Terminator \in Seq({"cr", "lf"})
                         /\ Terminator[1] = "cr" /\ Terminator[2] = "lf"
                         /\ Terminator[3] = "cr" /\ Terminator[4] = "lf"
  BY DEF Terminator

\* A header ends where its last four bytes are those.
LEMMA EndsHeaderBytes ==
  ASSUME NEW r \in Seq(Byte), NEW i \in 4..Len(r)
  PROVE  EndsHeader(r, i) <=> r[i - 3] = "cr" /\ r[i - 2] = "lf" /\ r[i - 1] = "cr" /\ r[i] = "lf"
<1> DEFINE q == SubSeq(r, i - 3, i)
<1>1. i \in Int /\ i - 3 \in Int /\ \A k \in i - 3..i : r[k] \in Byte
  OBVIOUS
<1>2. q \in Seq(Byte) /\ Len(q) = 4 /\ \A k \in 1..4 : q[k] = r[i - 3 + k - 1]
  <2>1. (IF i - 3 <= i THEN i - (i - 3) + 1 ELSE 0) = 4 /\ i - (i - 3) + 1 = 4
    OBVIOUS
  <2> QED  BY <1>1, <2>1, SubSeqProperties
<1>3. q[1] = r[i - 3] /\ q[2] = r[i - 2] /\ q[3] = r[i - 1] /\ q[4] = r[i]
  BY <1>2
<1> HIDE DEF q
<1>4. ASSUME q = Terminator PROVE r[i - 3] = "cr" /\ r[i - 2] = "lf" /\ r[i - 1] = "cr" /\ r[i] = "lf"
  BY <1>3, <1>4, TerminatorBytes
<1>5. ASSUME r[i - 3] = "cr", r[i - 2] = "lf", r[i - 1] = "cr", r[i] = "lf" PROVE q = Terminator
  <2> DEFINE U == Byte \cup {"cr", "lf"}
  <2>1. q \in Seq(U) /\ Terminator \in Seq(U)
    BY <1>2, TerminatorBytes, SeqMonotonic
  <2>2. \A k \in 1..4 : q[k] = Terminator[k]
    BY <1>3, <1>5, TerminatorBytes
  <2> HIDE DEF U
  <2> QED  BY <2>1, <2>2, <1>2, TerminatorBytes, SeqEqual
<1> QED  BY <1>4, <1>5 DEF EndsHeader, q

Ends(r) == {i \in 4..Len(r) : EndsHeader(r, i)}

\* The body begins behind the first end of a header.
LEMMA FirstEnd ==
  ASSUME NEW r \in Seq(Byte), NEW i \in 4..Len(r), EndsHeader(r, i),
         \A j \in 4..i - 1 : ~EndsHeader(r, j)
  PROVE  Body(r) = SubSeq(r, i + 1, Len(r))
<1>1. i \in Ends(r) /\ \A j \in Ends(r) : i <= j
  BY DEF Ends
<1>2. Ends(r) \subseteq Int
  BY DEF Ends
<1>3. (CHOOSE k \in Ends(r) : \A j \in Ends(r) : k <= j) = i
  BY <1>1, <1>2
<1>4. Body(r) = SubSeq(r, 1 + i, Len(r))
  BY <1>1, <1>3 DEF Body, Ends
<1> QED  BY <1>4

\* A response without an end of the header has no body.
LEMMA NoEnd ==
  ASSUME NEW r \in Seq(Byte), \A j \in 4..Len(r) : ~EndsHeader(r, j)
  PROVE  Body(r) = <<>>
  BY DEF Body

\* The body is a sequence, and begins behind the end of a header if there is one.
LEMMA BodyPlace ==
  ASSUME NEW r \in Seq(Byte)
  PROVE  /\ Body(r) \in Seq(Byte)
         /\ Ends(r) # {} => \E i \in Ends(r) : Len(Body(r)) = Len(r) - i
<1>1. CASE Ends(r) = {}
  BY <1>1 DEF Body, Ends
<1>2. CASE Ends(r) # {}
  <2>1. Ends(r) \subseteq Nat
    BY DEF Ends
  <2>2. PICK i \in Ends(r) : \A j \in Ends(r) : i <= j
    BY <1>2, <2>1, LeastNumber
  <2>3. (CHOOSE k \in Ends(r) : \A j \in Ends(r) : k <= j) = i
    BY <2>1, <2>2
  <2>4. Body(r) = SubSeq(r, 1 + i, Len(r))
    BY <1>2, <2>3 DEF Body, Ends
  <2>5. i \in 4..Len(r) /\ Len(r) \in Nat
    BY <2>2 DEF Ends
  <2>6. 1 + i \in Int /\ Len(r) \in Int /\ \A k \in 1 + i..Len(r) : r[k] \in Byte
    BY <2>5
  <2>7. Body(r) \in Seq(Byte) /\ Len(Body(r)) = IF 1 + i <= Len(r) THEN Len(r) - (1 + i) + 1 ELSE 0
    BY <2>4, <2>6, SubSeqProperties
  <2>8. Len(Body(r)) = Len(r) - i
    BY <2>5, <2>7
  <2> QED  BY <2>2, <2>7, <2>8
<1> QED  BY <1>1, <1>2

\* As long as no end of the header has come, no return follows another.
LEMMA CanonicalSoFar ==
  ASSUME NEW r \in Seq(Byte), Canonical(r), NEW i \in Nat, i < Len(r), \A j \in 4..i : ~EndsHeader(r, j)
  PROVE  i >= 1 => ~(r[i] = "cr" /\ r[i + 1] = "cr")
<1>1. Len(r) - Len(Body(r)) >= i + 1
  <2>1. CASE Ends(r) = {}
    <3>1. Body(r) = <<>>
      BY <2>1, NoEnd DEF Ends
    <3> QED  BY <3>1
  <2>2. CASE Ends(r) # {}
    <3>1. PICK k \in Ends(r) : Len(Body(r)) = Len(r) - k
      BY <2>2, BodyPlace
    <3>2. k \in 4..Len(r) /\ k > i
      BY <3>1 DEF Ends
    <3> QED  BY <3>1, <3>2
  <2> QED  BY <2>1, <2>2
<1>2. Len(r) - Len(Body(r)) \in Int
  BY BodyPlace
<1>3. \A k \in 2..Len(r) - Len(Body(r)) : ~(r[k - 1] = "cr" /\ r[k] = "cr")
  BY DEF Canonical
<1>4. SUFFICES ASSUME i >= 1 PROVE ~(r[i] = "cr" /\ r[i + 1] = "cr")
  OBVIOUS
<1>5. i + 1 \in 2..Len(r) - Len(Body(r)) /\ (i + 1) - 1 = i
  BY <1>1, <1>2, <1>4
<1> QED  BY <1>3, <1>5

\* One more byte of the header: the automaton ends where the header does.
LEMMA ScanStep ==
  ASSUME NEW r \in Seq(Byte), NEW i \in Nat, NEW s \in 0..3, Scanned(r, i, s), i < Len(r),
         i >= 1 => ~(r[i] = "cr" /\ r[i + 1] = "cr")
  PROVE  /\ HeaderState(s, r[i + 1]) # 4 => Scanned(r, i + 1, HeaderState(s, r[i + 1]))
         /\ HeaderState(s, r[i + 1]) = 4 => i + 1 \in 4..Len(r) /\ EndsHeader(r, i + 1)
<1> DEFINE c == r[i + 1]
           t == HeaderState(s, c)
<1>1. /\ t = IF c = Terminator[s + 1] THEN s + 1 ELSE 0
      /\ t \in 0..4
  BY DEF HeaderState
<1>2. /\ s = 0 => Terminator[s + 1] = "cr"
      /\ s = 1 => Terminator[s + 1] = "lf" /\ r[i] = "cr"
      /\ s = 2 => Terminator[s + 1] = "cr" /\ r[i] = "lf" /\ r[i - 1] = "cr"
      /\ s = 3 => Terminator[s + 1] = "lf" /\ r[i] = "cr" /\ r[i - 1] = "lf" /\ r[i - 2] = "cr"
  BY TerminatorBytes DEF Scanned
<1>3. s <= i /\ i + 1 \in 1..Len(r) /\ Len(r) \in Nat
  BY DEF Scanned
<1> HIDE DEF t, c
<1>4. ASSUME t = 4 PROVE i + 1 \in 4..Len(r) /\ EndsHeader(r, i + 1)
  <2>1. s = 3 /\ c = "lf"
    BY <1>1, <1>2, <1>4
  <2>2. i + 1 \in 4..Len(r)
    BY <1>3, <2>1
  <2>3. r[i + 1] = "lf" /\ r[i] = "cr" /\ r[i - 1] = "lf" /\ r[i - 2] = "cr"
    BY <1>2, <2>1 DEF c
  <2>4. (i + 1) - 1 = i /\ (i + 1) - 2 = i - 1 /\ (i + 1) - 3 = i - 2
    OBVIOUS
  <2> QED  BY <2>2, <2>3, <2>4, EndsHeaderBytes
<1>5. ASSUME t # 4 PROVE Scanned(r, i + 1, t)
  <2>1. i + 1 \in 0..Len(r) /\ t \in 0..3 /\ t <= i + 1
    BY <1>1, <1>3, <1>5
  <2>2. /\ t >= 1 => c = Terminator[t] /\ t = s + 1
        /\ t >= 2 => r[i] = Terminator[t - 1]
        /\ t >= 3 => r[i - 1] = Terminator[t - 2]
    BY <1>1, <1>2, <1>3, TerminatorBytes
  <2>3. c = "cr" => t \in {1, 3}
    BY <1>1, <1>2, <1>3, <1>5 DEF c
  <2>4. i >= 1 /\ r[i] = "cr" /\ c = "lf" => t = 2
    <3>1. i >= 1 /\ r[i] = "cr" => s \in {1, 3}
      BY DEF Scanned
    <3> QED  BY <3>1, <1>1, <1>2, <1>5
  <2>5. i >= 2 /\ r[i - 1] = "cr" /\ r[i] = "lf" /\ c = "cr" => t = 3
    <3>1. i >= 2 /\ r[i - 1] = "cr" /\ r[i] = "lf" => s = 2
      BY DEF Scanned
    <3> QED  BY <3>1, <1>1, <1>2
  <2>6. \A j \in 4..i + 1 : ~EndsHeader(r, j)
    <3>1. \A j \in 4..i : ~EndsHeader(r, j)
      BY DEF Scanned
    <3>2. ASSUME i + 1 >= 4 PROVE ~EndsHeader(r, i + 1)
      <4>1. i >= 3 /\ r[i - 2] = "cr" /\ r[i - 1] = "lf" /\ r[i] = "cr" => s = 3
        BY DEF Scanned
      <4>2. ~(r[i - 2] = "cr" /\ r[i - 1] = "lf" /\ r[i] = "cr" /\ c = "lf")
        BY <4>1, <1>1, <1>2, <1>5, <3>2
      <4>3. (i + 1) - 1 = i /\ (i + 1) - 2 = i - 1 /\ (i + 1) - 3 = i - 2 /\ i + 1 \in 4..Len(r)
        BY <1>3, <3>2
      <4> QED  BY <4>2, <4>3, EndsHeaderBytes DEF c
    <3> QED  BY <3>1, <3>2
  <2>7. (i + 1) - 1 = i /\ (i + 1) - 2 = i - 1
    OBVIOUS
  <2> QED  BY <2>1, <2>2, <2>3, <2>4, <2>5, <2>6, <2>7 DEF Scanned, c
<1> QED  BY <1>4, <1>5 DEF t, c

ByteInv == HeaderInv /\ TransferInv

\* The fields of a download.
LEMMA DownloadFields ==
  ASSUME conn \in Downloads
  PROVE  /\ conn.rest \in Seq(Byte) /\ conn.got \in Seq(Byte) /\ conn.sent \in Seq(Byte) /\ conn.state \in 0..3
         /\ Len(conn.rest) \in Nat /\ Len(conn.got) \in Nat /\ Len(conn.sent) \in Nat
         /\ Body(conn.sent) \in Seq(Byte)
  BY BodyPlace DEF Downloads

\* A byte of the header is skipped.
LEMMA SkipBytes ==
  ASSUME conn \in Downloads, ByteInv, SkipHeaderByte
  PROVE  ByteInv'
<1> DEFINE r == conn.sent
           i == Taken
           s == HeaderState(conn.state, Head(conn.rest))
<1>1. At("header") /\ conn.rest # <<>> /\ conn.got = <<>> /\ ~conn.spoiled /\ ~conn.cut
  BY DEF SkipHeaderByte, ByteInv, HeaderInv
<1>2. /\ r \in Seq(Byte) /\ i \in Nat /\ conn.rest = SubSeq(r, i + 1, Len(r))
      /\ Len(r) \in Nat /\ conn.state \in 0..3 /\ Len(conn.rest) = Len(r) - i
      /\ Canonical(r) => Scanned(r, i, conn.state)
  <2>1. Taken >= 0 /\ conn.rest = SubSeq(conn.sent, Taken + 1, Len(conn.sent))
        /\ (Canonical(conn.sent) => Scanned(conn.sent, Taken, conn.state))
    BY <1>1 DEF ByteInv, HeaderInv
  <2>2. Taken \in Nat /\ Len(conn.rest) = Len(conn.sent) - Taken
    BY <2>1, DownloadFields DEF Taken
  <2> QED  BY <2>1, <2>2, DownloadFields
<1>3. i + 1 \in 1..Len(r) /\ Len(r) \in i + 1..Len(r)
  <2>1. Len(conn.rest) > 0
    BY <1>1, DownloadFields, EmptySeq
  <2> QED  BY <1>2, <2>1
<1>4. Head(conn.rest) = r[i + 1] /\ Tail(conn.rest) = SubSeq(r, i + 2, Len(r)) /\ Len(Tail(conn.rest)) = Len(conn.rest) - 1
  <2>1. Head(conn.rest) = r[i + 1] /\ Tail(conn.rest) = SubSeq(r, (i + 1) + 1, Len(r))
    <3> HIDE DEF r, i
    <3> QED  BY <1>2, <1>3, HeadTailOfSubSeq
  <2>2. Len(Tail(conn.rest)) = Len(conn.rest) - 1
    BY <1>1, DownloadFields, HeadTailProperties
  <2>3. (i + 1) + 1 = i + 2
    BY <1>2
  <2> QED  BY <2>1, <2>2, <2>3
<1>5. /\ conn'.sent = r /\ conn'.got = <<>> /\ conn'.spoiled = conn.spoiled /\ conn'.cut = conn.cut
      /\ conn'.rest = Tail(conn.rest)
      /\ s = 4 => conn'.pc = "create"
      /\ s # 4 => conn'.pc = "header" /\ conn'.state = s
  <2> HIDE DEF s
  <2>1. conn' = [conn EXCEPT !.rest = Tail(@), !.state = IF s = 4 THEN 0 ELSE s,
                             !.pc = IF s = 4 THEN "create" ELSE "header"]
    BY DEF SkipHeaderByte, s
  <2> QED  BY <2>1, <1>1 DEF Downloads
<1>6. ~conn'.spoiled /\ ~conn'.cut
  BY <1>1, <1>5, Zenon
<1>7. Taken' = i + 1
  <2>1. Taken' = Len(r) - Len(Tail(conn.rest))
    BY <1>5 DEF Taken
  <2>2. Len(Tail(conn.rest)) = Len(conn.rest) - 1 /\ Len(conn.rest) = Len(r) - i /\ i \in Nat /\ Len(r) \in Nat
    BY <1>2, <1>4
  <2> DEFINE lt == Len(Tail(conn.rest))
             lr == Len(conn.rest)
             ls == Len(r)
  <2> HIDE DEF r, i, lt, lr, ls
  <2>3. lt = lr - 1 /\ lr = ls - i /\ i \in Nat /\ ls \in Nat /\ Taken' = ls - lt
    BY <2>1, <2>2 DEF lt, lr, ls
  <2> QED  BY <2>3
<1>8. ASSUME Canonical(r)
      PROVE  /\ s # 4 => Scanned(r, i + 1, s)
             /\ s = 4 => Body(r) = Tail(conn.rest)
  <2>1. Scanned(r, i, conn.state) /\ i < Len(r)
    BY <1>2, <1>3, <1>8
  <2>2. \A j \in 4..i : ~EndsHeader(r, j)
    BY <2>1 DEF Scanned
  <2>3. i >= 1 => ~(r[i] = "cr" /\ r[i + 1] = "cr")
    <3> HIDE DEF r, i
    <3> QED  BY <1>2, <1>8, <2>1, <2>2, CanonicalSoFar
  <2>4. s = HeaderState(conn.state, r[i + 1])
    BY <1>4
  <2> HIDE DEF r, i, s
  <2>5. /\ s # 4 => Scanned(r, i + 1, s)
        /\ s = 4 => i + 1 \in 4..Len(r) /\ EndsHeader(r, i + 1)
    BY <1>2, <2>1, <2>3, <2>4, ScanStep
  <2>6. ASSUME s = 4 PROVE Body(r) = Tail(conn.rest)
    <3>1. i + 1 \in 4..Len(r) /\ EndsHeader(r, i + 1) /\ \A j \in 4..(i + 1) - 1 : ~EndsHeader(r, j)
      BY <1>2, <2>2, <2>5, <2>6
    <3>2. Body(r) = SubSeq(r, (i + 1) + 1, Len(r))
      BY <1>2, <3>1, FirstEnd
    <3>3. (i + 1) + 1 = i + 2
      BY <1>2
    <3> QED  BY <3>2, <3>3, <1>4
  <2> QED  BY <2>5, <2>6
<1>9. CASE s = 4
  <2>1. Tail(conn.rest) \in Seq(Byte)
    BY <1>1, DownloadFields
  <2>2. <<>> \o Tail(conn.rest) = Tail(conn.rest)
    BY <2>1, ConcatEmptySeq
  <2>3. Canonical(r) => conn'.got \o conn'.rest = Body(conn'.sent)
    BY <1>5, <1>8, <1>9, <2>2
  <2> QED  BY <1>5, <1>6, <1>9, <2>3 DEF ByteInv, HeaderInv, TransferInv, At
<1>10. CASE s # 4
  <2>1. conn'.rest = SubSeq(conn'.sent, Taken' + 1, Len(conn'.sent)) /\ Taken' >= 0
    <3>1. (i + 1) + 1 = i + 2 /\ i + 1 >= 0
      BY <1>2
    <3> QED  BY <1>4, <1>5, <1>7, <3>1
  <2>2. Canonical(conn'.sent) => Scanned(conn'.sent, Taken', conn'.state)
    BY <1>5, <1>7, <1>8, <1>10
  <2> QED  BY <1>5, <1>6, <1>10, <2>1, <2>2 DEF ByteInv, HeaderInv, TransferInv, At
<1> QED  BY <1>9, <1>10

\* The response ends inside the header.
LEMMA RunOutBytes ==
  ASSUME conn \in Downloads, ByteInv, HeaderRunsOut
  PROVE  ByteInv'
<1>1. At("header") /\ conn.rest = <<>> /\ conn.got = <<>> /\ ~conn.spoiled
  BY DEF HeaderRunsOut, ByteInv, HeaderInv
<1>2. /\ conn'.sent = conn.sent /\ conn'.got = <<>> /\ conn'.spoiled = conn.spoiled /\ conn'.cut = conn.cut
      /\ conn'.rest = <<>> /\ conn'.pc = "create"
  BY <1>1 DEF HeaderRunsOut, Downloads
<1>3. ASSUME Canonical(conn.sent), ~conn.cut PROVE <<>> \o <<>> = Body(conn.sent)
  <2>1. Scanned(conn.sent, Taken, conn.state)
    BY <1>1, <1>3 DEF ByteInv, HeaderInv
  <2>2. Taken = Len(conn.sent)
    BY <1>1, DownloadFields DEF Taken
  <2>3. Body(conn.sent) = <<>>
    BY <2>1, <2>2, DownloadFields, NoEnd DEF Scanned
  <2> QED  BY <2>3, ConcatEmptySeq, EmptySeq
<1>4. Len(<<>>) <= Len(Body(conn.sent)) /\ <<>> = SubSeq(Body(conn.sent), 1, Len(<<>>))
  <2>1. Len(Body(conn.sent)) \in Nat
    BY DownloadFields
  <2> QED  BY <2>1, SubSeqEmpty
<1>5. IF conn'.cut THEN Len(conn'.got) <= Len(Body(conn'.sent)) /\ conn'.got = SubSeq(Body(conn'.sent), 1, Len(conn'.got))
      ELSE Canonical(conn'.sent) => conn'.got \o conn'.rest = Body(conn'.sent)
  BY <1>2, <1>3, <1>4
<1> QED  BY <1>2, <1>5 DEF ByteInv, HeaderInv, TransferInv, At

\* A read fails inside the header.
LEMMA ReadFailsBytes ==
  ASSUME conn \in Downloads, ByteInv, HeaderReadFails
  PROVE  ByteInv'
<1>1. At("header") /\ conn.got = <<>> /\ ~conn.cut
  BY DEF HeaderReadFails, ByteInv, HeaderInv
<1>2. conn'.got = <<>> /\ conn'.spoiled = TRUE /\ conn'.cut = conn.cut /\ conn'.pc = "create"
  BY <1>1 DEF HeaderReadFails, Downloads
<1> QED  BY <1>1, <1>2 DEF ByteInv, HeaderInv, TransferInv, At

\* The in-memory file is made or not, and the transfer ends.
LEMMA PassBytes ==
  ASSUME conn \in Downloads, ByteInv, CreateVirtualHandle \/ VirtualHandleFails \/ BodyEnds
  PROVE  ByteInv'
<1>1. /\ conn'.sent = conn.sent /\ conn'.got = conn.got /\ conn'.spoiled = conn.spoiled /\ conn'.cut = conn.cut
      /\ conn'.rest = conn.rest /\ conn.pc \in {"create", "body"} /\ conn'.pc \in {"body", "failed", "done"}
      /\ conn'.pc = "done" => conn.rest = <<>>
  <2>1. CASE CreateVirtualHandle
    BY <2>1 DEF CreateVirtualHandle, At, Downloads
  <2>2. CASE VirtualHandleFails
    BY <2>2 DEF VirtualHandleFails, At, Downloads
  <2>3. CASE BodyEnds
    BY <2>3 DEF BodyEnds, At, Downloads
  <2> QED  BY <2>1, <2>2, <2>3
<1> QED  BY <1>1 DEF ByteInv, HeaderInv, TransferInv, At

\* Some of the bytes that have come are copied.
LEMMA CopyBytes ==
  ASSUME conn \in Downloads, ByteInv,
         \E n \in 1..MaxBody : CopyBody(n) \/ \E k \in 0..n - 1 : CopyBodyShort(n, k)
  PROVE  ByteInv'
<1>1. PICK n \in 1..MaxBody : CopyBody(n) \/ \E k \in 0..n - 1 : CopyBodyShort(n, k)
  OBVIOUS
<1>2. conn.pc = "body" /\ n \in 1..Len(conn.rest)
  BY <1>1 DEF CopyBody, CopyBodyShort, At
<1>3. ~conn.cut
  <2>1. conn.rest # <<>>
    BY <1>2, EmptySeq
  <2> QED  BY <1>2, <2>1 DEF ByteInv, TransferInv
<1>4. conn'.pc = "body" /\ conn'.sent = conn.sent /\ conn'.cut = conn.cut
  BY <1>1, <1>2 DEF CopyBody, CopyBodyShort, Downloads
<1>5. CASE CopyBody(n)
  <2>1. /\ conn'.got = conn.got \o SubSeq(conn.rest, 1, n)
        /\ conn'.rest = SubSeq(conn.rest, n + 1, Len(conn.rest))
        /\ conn'.spoiled = conn.spoiled
    BY <1>5 DEF CopyBody, Downloads
  <2>2. conn'.got \o conn'.rest = conn.got \o conn.rest
    <3> DEFINE g == conn.got
               a == SubSeq(conn.rest, 1, n)
               b == SubSeq(conn.rest, n + 1, Len(conn.rest))
    <3>1. n \in Nat /\ n <= Len(conn.rest) /\ Len(conn.rest) \in Nat /\ conn.rest \in Seq(Byte) /\ conn.got \in Seq(Byte)
      BY <1>2, DownloadFields
    <3>2. a \in Seq(Byte) /\ b \in Seq(Byte)
      BY <3>1
    <3>3. a \o b = SubSeq(conn.rest, 1, Len(conn.rest))
      <4>1. 1 \in 1..Len(conn.rest) + 1 /\ n \in 1 - 1..Len(conn.rest) /\ Len(conn.rest) \in n..Len(conn.rest)
        BY <3>1
      <4> QED  BY <3>1, <4>1, ConcatAdjacentSubSeq
    <3>4. a \o b = conn.rest
      BY <3>1, <3>3, SubSeqFull
    <3>5. g \in Seq(Byte)
      BY <3>1
    <3> HIDE DEF g, a, b
    <3>6. (g \o a) \o b = g \o (a \o b)
      BY <3>2, <3>5, ConcatAssociative
    <3> QED  BY <2>1, <3>4, <3>6 DEF g, a, b
  <2> QED  BY <1>2, <1>3, <1>4, <2>1, <2>2 DEF ByteInv, HeaderInv, TransferInv, At
<1>6. CASE \E k \in 0..n - 1 : CopyBodyShort(n, k)
  <2>1. conn'.spoiled = TRUE
    BY <1>6 DEF CopyBodyShort, Downloads
  <2> QED  BY <1>3, <1>4, <2>1 DEF ByteInv, HeaderInv, TransferInv, At
<1> QED  BY <1>1, <1>5, <1>6

\* The connection is lost.
LEMMA LoseBytes ==
  ASSUME conn \in Downloads, ByteInv, LoseConnection
  PROVE  ByteInv'
<1>1. /\ conn'.sent = conn.sent /\ conn'.got = conn.got /\ conn'.spoiled = conn.spoiled /\ conn'.cut = TRUE
      /\ conn'.rest = <<>> /\ conn'.pc = conn.pc /\ conn.pc \in {"header", "create", "body"} /\ conn.rest # <<>>
  BY DEF LoseConnection, Downloads
<1>2. CASE conn.pc = "header"
  BY <1>1, <1>2 DEF ByteInv, HeaderInv, TransferInv, At
<1>3. CASE conn.pc \in {"create", "body"}
  <2>1. ASSUME Canonical(conn.sent), ~conn.spoiled
        PROVE  Len(conn.got) <= Len(Body(conn.sent)) /\ conn.got = SubSeq(Body(conn.sent), 1, Len(conn.got))
    <3> DEFINE g == conn.got
               q == conn.rest
               b == Body(conn.sent)
    <3>1. g \o q = b
      BY <1>1, <1>3, <2>1 DEF ByteInv, TransferInv
    <3>2. g \in Seq(Byte) /\ q \in Seq(Byte) /\ Len(g) \in Nat /\ Len(q) \in Nat
      BY DownloadFields
    <3> HIDE DEF g, q, b
    <3>3. b \in Seq(Byte) /\ Len(b) = Len(g) + Len(q) /\ \A i \in 1..Len(g) + Len(q) : b[i] = IF i <= Len(g) THEN g[i] ELSE q[i - Len(g)]
      BY <3>1, <3>2, ConcatProperties
    <3>4. Len(g) <= Len(b)
      BY <3>2, <3>3
    <3>5. 1 \in Int /\ Len(g) \in Int /\ \A i \in 1..Len(g) : b[i] \in Byte
      BY <3>2, <3>3
    <3>6. SubSeq(b, 1, Len(g)) \in Seq(Byte) /\ Len(SubSeq(b, 1, Len(g))) = Len(g)
          /\ \A i \in 1..Len(g) : SubSeq(b, 1, Len(g))[i] = b[i]
      <4>1. /\ SubSeq(b, 1, Len(g)) \in Seq(Byte)
            /\ Len(SubSeq(b, 1, Len(g))) = IF 1 <= Len(g) THEN Len(g) - 1 + 1 ELSE 0
            /\ \A i \in 1..Len(g) - 1 + 1 : SubSeq(b, 1, Len(g))[i] = b[1 + i - 1]
        BY <3>5, SubSeqProperties
      <4> QED  BY <3>2, <4>1
    <3>7. \A i \in 1..Len(g) : g[i] = SubSeq(b, 1, Len(g))[i]
      BY <3>2, <3>3, <3>6
    <3>8. g = SubSeq(b, 1, Len(g))
      BY <3>2, <3>6, <3>7, SeqEqual
    <3> QED  BY <3>4, <3>8 DEF g, b
  <2> QED  BY <1>1, <1>3, <2>1 DEF ByteInv, HeaderInv, TransferInv, At
<1> QED  BY <1>1, <1>2, <1>3

\* Every step keeps what a download has read and copied in order.
LEMMA NextBytes ==
  ASSUME AccountInv, ByteInv, [Next]_vars
  PROVE  ByteInv'
<1>0. TypeOK
  BY DEF AccountInv
<1>1. CASE DownloadStep \/ LoseConnection \/ HeaderReadFails
  <2>1. conn \in Downloads
    BY <1>0, <1>1, Shapes DEF DownloadStep, LoseConnection, SkipHeaderByte, HeaderRunsOut, HeaderReadFails, CreateVirtualHandle,
                              VirtualHandleFails, CopyBody, CopyBodyShort, BodyEnds, At, NoConn
  <2> QED  BY <1>1, <2>1, SkipBytes, RunOutBytes, ReadFailsBytes, PassBytes, CopyBytes, LoseBytes DEF DownloadStep
<1>2. CASE \E r \in world.responses : StartDownload(r)
  <2>1. PICK r \in world.responses : StartDownload(r)
    BY <1>2
  <2>2. r \in Seq(Byte) /\ Len(r) \in Nat
    <3>1. r \in Seq(Byte)
      BY <1>0, WorldsAssumption DEF TypeOK
    <3> QED  BY <3>1
  <2>3. conn' = [pc |-> "header", state |-> 0, rest |-> r, got |-> <<>>, sent |-> r, cut |-> FALSE, spoiled |-> FALSE]
    BY <2>1 DEF StartDownload, Connect
  <2>4. Taken' = 0 /\ r = SubSeq(r, 0 + 1, Len(r))
    BY <2>2, <2>3, SubSeqFull DEF Taken
  <2>5. Scanned(r, 0, 0)
    BY <2>2 DEF Scanned
  <2>6. conn'.pc = "header" /\ conn'.rest = r /\ conn'.got = <<>> /\ conn'.sent = r /\ conn'.state = 0
    BY <2>3
  <2>7. ~conn'.cut /\ ~conn'.spoiled
    BY <2>3
  <2> QED  BY <2>4, <2>5, <2>6, <2>7 DEF ByteInv, HeaderInv, TransferInv, At
<1>3. CASE conn' = NoConn
  BY <1>3 DEF ByteInv, HeaderInv, TransferInv, At, NoConn
<1>4. CASE conn' = conn
  BY <1>4 DEF ByteInv, HeaderInv, TransferInv, At, Taken
<1>5. CASE Owner
  <2>1. \/ \E r \in world.responses : StartDownload(r)
        \/ conn' = NoConn
        \/ conn' = conn
    BY <1>5 DEF Owner, OwnerStep, OpenStep, UseStep, EFFileCreateWithURL, EFFileCreateUnsavedWithString, Destroy,
                EFFileClose, EFFileUnlink, Begin, AlreadyOpen, OpenFails, OpenWithoutDup, OpenWithoutObject, OpenFile,
                TakeDownload, DownloadFailed, OpenReturns, CopyReturns, CopyFails, MeasureData, MeasureFails,
                SeekToBegin, ReadData, ReadFails, DataReturns
  <2> QED  BY <2>1, <1>2, <1>3, <1>4
<1>6. CASE Others
  <2>1. conn' = conn
    BY <1>6 DEF Others, ClientSeeks, ClientWrites, ClientReleases, OthersReplace, OthersWrite
  <2> QED  BY <2>1, <1>4
<1> QED  BY <1>1, <1>4, <1>5, <1>6 DEF Next, vars

\* What has been copied at the end is the body.
LEMMA BytesExact ==
  ASSUME AccountInv, ByteInv
  PROVE  BodyExact
<1>1. SUFFICES ASSUME At("done"), ~conn.spoiled, Canonical(conn.sent)
               PROVE  /\ Len(conn.got) <= Len(Body(conn.sent))
                      /\ conn.got = SubSeq(Body(conn.sent), 1, Len(conn.got))
                      /\ ~conn.cut => conn.got = Body(conn.sent)
  BY DEF BodyExact
<1>2. conn \in Downloads
  BY <1>1, Shapes DEF AccountInv, At, NoConn
<1>3. conn.got \in Seq(Byte) /\ Len(conn.got) \in Nat /\ Body(conn.sent) \in Seq(Byte)
  BY <1>2, DownloadFields
<1>4. CASE conn.cut
  BY <1>1, <1>4 DEF ByteInv, TransferInv, At
<1>5. CASE ~conn.cut
  <2>1. conn.got \o <<>> = Body(conn.sent)
    BY <1>1, <1>5 DEF ByteInv, TransferInv, At
  <2>2. conn.got = Body(conn.sent)
    <3> DEFINE g == conn.got
    <3>1. g \in Seq(Byte)
      BY <1>3
    <3> HIDE DEF g
    <3>2. g \o <<>> = g
      BY <3>1, ConcatEmptySeq
    <3> QED  BY <2>1, <3>2 DEF g
  <2>3. SubSeq(Body(conn.sent), 1, Len(Body(conn.sent))) = Body(conn.sent)
    <3> DEFINE b == Body(conn.sent)
    <3>1. b \in Seq(Byte)
      BY <1>3
    <3> HIDE DEF b
    <3>2. SubSeq(b, 1, Len(b)) = b
      BY <3>1, SubSeqFull
    <3> QED  BY <3>2 DEF b
  <2> QED  BY <1>3, <2>2, <2>3
<1> QED  BY <1>4, <1>5

\* A download hands over the body of the response: all of it when the
\* connection held, its beginning when it did not, never bytes of the header.
THEOREM BodyExactness == Spec => []BodyExact
<1>1. Init => AccountInv /\ ByteInv
  <2>1. Init => ByteInv
    BY DEF Init, InitDownload, ByteInv, HeaderInv, TransferInv, At, NoConn
  <2> QED  BY <2>1, InitAccount
<1>2. AccountInv /\ ByteInv /\ [Next]_vars => AccountInv' /\ ByteInv'
  BY NextAccount, NextBytes
<1>3. AccountInv /\ ByteInv => BodyExact
  BY BytesExact
<1> QED  BY <1>1, <1>2, <1>3, PTL DEF Spec
=============================================================================
