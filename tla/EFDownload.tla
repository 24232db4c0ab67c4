----------------------------- MODULE EFDownload -----------------------------
(***************************************************************************)
(* The download that stands behind a handle of an HTTP or HTTPS URL,       *)
(* __EFFileHandleCreateNetDesc of EFFileHandle.c: connect, skip the header *)
(* byte by byte, copy the rest into an in-memory file, close.              *)
(*                                                                         *)
(* The server is the environment: it sends a sequence of the bytes "cr",   *)
(* "lf" and "x", and the connection may be lost at any of them.  The disk  *)
(* may be full, and a read may fail and the next succeed, as one does that *)
(* a signal interrupts.  sent, cut and spoiled are what the environment    *)
(* did; the code has none of the three.                                    *)
(***************************************************************************)
EXTENDS EFDescriptors, Sequences

CONSTANTS MaxBody,   \* bytes one read may return
          Byte       \* the kinds of bytes in responses and files

VARIABLE conn        \* the download under way

NoConn == [pc |-> "none"]
InitDownload == conn = NoConn

At(pc) == conn.pc = pc

\* socket and connect, or popen; then the request.
Connect(r) ==
    /\ At("none")
    /\ Take(1)
    /\ conn' = [pc |-> "header", state |-> 0, rest |-> r, got |-> <<>>,
                sent |-> r, cut |-> FALSE, spoiled |-> FALSE]

Terminator == <<"cr", "lf", "cr", "lf">>

\* The state after one more byte, when one that does not fit is passed over.
HeaderStateKept(s, c) == IF c = Terminator[s + 1] THEN s + 1 ELSE s

\* Any other byte than the one waited for starts from the beginning, a
\* carriage return too.
HeaderState(s, c) == IF c = Terminator[s + 1] THEN s + 1 ELSE 0

SkipHeaderByte ==
    /\ At("header") /\ conn.rest # <<>>
    /\ LET s == HeaderState(conn.state, Head(conn.rest)) IN
       conn' = [conn EXCEPT !.rest = Tail(@),
                            !.state = IF s = 4 THEN 0 ELSE s,
                            !.pc = IF s = 4 THEN "create" ELSE "header"]
    /\ UNCHANGED used

\* The end of the response inside the header is taken for the end of the header.
HeaderRunsOut ==
    /\ At("header") /\ conn.rest = <<>>
    /\ conn' = [conn EXCEPT !.pc = "create", !.state = 0]
    /\ UNCHANGED used

CreateVirtualHandle ==
    /\ At("create")
    /\ Take(1)
    /\ conn' = [conn EXCEPT !.pc = "body"]

\* No in-memory file: the call returns with the connection open.
VirtualHandleFailsOpen ==
    /\ At("create")
    /\ conn' = [conn EXCEPT !.pc = "failed"]
    /\ UNCHANGED used

VirtualHandleFails ==
    /\ At("create")
    /\ conn' = [conn EXCEPT !.pc = "failed"]
    /\ GiveBack(1)

\* read returns n bytes, and they are written.
CopyBody(n) ==
    /\ At("body") /\ n \in 1..Len(conn.rest)
    /\ conn' = [conn EXCEPT !.got = @ \o SubSeq(conn.rest, 1, n),
                            !.rest = SubSeq(@, n + 1, Len(@))]
    /\ UNCHANGED used

\* Only k of n bytes are written; nobody looks at the answer of write.
CopyBodyShort(n, k) ==
    /\ At("body") /\ n \in 1..Len(conn.rest) /\ k \in 0..n - 1
    /\ conn' = [conn EXCEPT !.got = @ \o SubSeq(conn.rest, 1, k),
                            !.rest = SubSeq(@, n + 1, Len(@)),
                            !.spoiled = TRUE]
    /\ UNCHANGED used

\* A read that fails ends the copy as the end of the response does: that is
\* LoseConnection before this.
BodyEnds ==
    /\ At("body") /\ conn.rest = <<>>
    /\ conn' = [conn EXCEPT !.pc = "done"]
    /\ GiveBack(1)

LoseConnection ==
    /\ conn.pc \in {"header", "create", "body"} /\ conn.rest # <<>>
    /\ conn' = [conn EXCEPT !.rest = <<>>, !.cut = TRUE]
    /\ UNCHANGED used

\* A read inside the header fails while the connection holds: that too is taken
\* for the end of the header, and what is left of it is read as the body.
HeaderReadFails ==
    /\ At("header") /\ conn.rest # <<>>
    /\ conn' = [conn EXCEPT !.pc = "create", !.state = 0, !.spoiled = TRUE]
    /\ UNCHANGED used

DownloadStep ==
    \/ SkipHeaderByte \/ HeaderRunsOut
    \/ CreateVirtualHandle \/ VirtualHandleFails
    \/ \E n \in 1..MaxBody : CopyBody(n) \/ \E k \in 0..n - 1 : CopyBodyShort(n, k)
    \/ BodyEnds

\* The descriptors the download has open: the connection, then also the file.
DownloadOpen == CASE conn.pc \in {"header", "create"} -> 1
                  [] At("body") -> 2
                  [] At("done") -> 1
                  [] OTHER -> 0

-----------------------------------------------------------------------------
(* What a response carries: everything after its first empty line.          *)
EndsHeader(r, i) == SubSeq(r, i - 3, i) = Terminator
Body(r) == LET ends == {i \in 4..Len(r) : EndsHeader(r, i)} IN
           IF ends = {} THEN <<>>
           ELSE SubSeq(r, 1 + CHOOSE i \in ends : \A j \in ends : i <= j, Len(r))

\* No carriage return follows another before the body begins.
Canonical(r) == \A i \in 2..Len(r) - Len(Body(r)) : ~(r[i - 1] = "cr" /\ r[i] = "cr")

(* A download hands over the body of the response: all of it when the       *)
(* connection held, its beginning when it did not, never bytes of the       *)
(* header, twice or out of order.  It excepts what the code gives up: a     *)
(* write to a full disk, a read that fails inside the header while the      *)
(* connection holds, and a header in which a return repeats.                *)
BodyExact ==
    At("done") /\ ~conn.spoiled /\ Canonical(conn.sent) =>
        LET body == Body(conn.sent) IN
        /\ Len(conn.got) <= Len(body)
        /\ conn.got = SubSeq(body, 1, Len(conn.got))
        /\ ~conn.cut => conn.got = body
=============================================================================
