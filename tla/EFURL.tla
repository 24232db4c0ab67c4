------------------------------- MODULE EFURL --------------------------------
(***************************************************************************)
(* EFURL.c: a URL is a kind and a list of path components.  It is made     *)
(* from a string, which is split at slashes, or from another URL by adding *)
(* or removing a component.  EFURLGetPath joins the components again at    *)
(* its first call and keeps the string in the URL; threads call it without *)
(* a lock, and callers do not own what they get.                           *)
(*                                                                         *)
(* A string is a kind, which stands for "http://", "https://" or nothing,  *)
(* and the bytes behind it.  The file system is external: realpath answers *)
(* any resolved path or fails.                                             *)
(***************************************************************************)
EXTENDS EFSplit, SequencesExt

CONSTANTS Url,       \* EFURL objects
          Thread,    \* threads calling EFURLGetPath
          PathStr,   \* strings made for paths
          Strings,   \* Strings[kind]: what follows the prefix of strings parsed
          Resolved,  \* paths realpath and getcwd answer
          Names,     \* path components that callers add
          MaxNames,  \* bound on the number of components
          None

Slash == "/"
Kinds == {"POSIX", "HTTP", "HTTPS"}

ASSUME URLAssumption == /\ \A k \in Kinds : Strings[k] \subseteq Seq(STRING)
                        /\ Resolved \subseteq Seq(STRING) /\ Names \subseteq Seq(STRING)
                        /\ \A x \in Resolved : x # <<>> /\ x[1] = Slash
                        /\ MaxNames \in Nat /\ None \notin Url \cup PathStr \cup Kinds

VARIABLES type,            \* type[u], None when u does not exist
          pathComponents,  \* pathComponents[u]
          pathString,      \* pathString[u]: the cached string, or None
          contents,        \* contents[p]: what string p holds, Unmade when it does not exist
          call,            \* call[t]: where t is in EFURLGetPath
          got,             \* got[t]: the URL and the string of t's last call
          lost             \* lost[u]: strings made for u that nobody will release

urlVars == <<type, pathComponents, pathString, contents, call, got, lost>>

Idle == [pc |-> "idle", url |-> None, str |-> None]
Nothing == [url |-> None, str |-> None]
Unmade == [prefix |-> None, bytes |-> <<>>]

InitURL == /\ type = [u \in Url |-> None]
           /\ pathComponents = [u \in Url |-> <<>>]
           /\ pathString = [u \in Url |-> None]
           /\ contents = [p \in PathStr |-> Unmade]
           /\ call = [t \in Thread |-> Idle]
           /\ got = [t \in Thread |-> Nothing]
           /\ lost = [u \in Url |-> {}]

URLExists(u) == type[u] # None

(***************************************************************************)
(* Splitting and joining                                                   *)
(***************************************************************************)

\* Only a single slash has a split that is not EFString's.
Parses(bytes) == bytes = <<Slash>> \/ Splits(bytes, <<Slash>>)
Parse(bytes) == IF bytes = <<Slash>> THEN <<>> ELSE Components(bytes, <<Slash>>)

\* A slash before every name but the first two.
JoinFromSecond(names) ==
    FlattenSeq([i \in DOMAIN names |-> IF i > 2 THEN <<Slash>> \o names[i] ELSE names[i]])

\* A slash before every name but the first.
Join(names) ==
    FlattenSeq([i \in DOMAIN names |-> IF i > 1 THEN <<Slash>> \o names[i] ELSE names[i]])

EFURLCopyPath(u) ==
    [prefix |-> type[u],
     bytes |-> (IF type[u] = "POSIX" THEN <<Slash>> ELSE <<>>) \o Join(pathComponents[u])]

EFURLCopyPathWithoutHostname(u) ==
    IF pathComponents[u] = <<>> THEN <<>> ELSE Join(Tail(pathComponents[u]))

(***************************************************************************)
(* Creation.  A creation that fails leaves nothing behind.                 *)
(***************************************************************************)

NewURL(u, kind, names) ==
    /\ ~URLExists(u)
    /\ Len(names) <= MaxNames
    /\ type' = [type EXCEPT ![u] = kind]
    /\ pathComponents' = [pathComponents EXCEPT ![u] = names]
    /\ UNCHANGED <<pathString, contents, call, got, lost>>

CreateHTTP(u, kind, bytes) == /\ kind # "POSIX"
                              /\ Parses(bytes) /\ NewURL(u, kind, Parse(bytes))

\* realpath has resolved the string.
CreateResolved(u, path) == Parses(path) /\ NewURL(u, "POSIX", Parse(path))

\* It has not, and the path is absolute.
CreateUnresolved(u, bytes) == /\ bytes # <<>> /\ bytes[1] = Slash
                              /\ Parses(bytes) /\ NewURL(u, "POSIX", Parse(bytes))

\* It has not, and the path is relative to the working directory.
CreateRelative(u, bytes, cwd) ==
    /\ bytes # <<>> => bytes[1] # Slash
    /\ Splits(cwd, <<Slash>>) /\ Splits(bytes, <<Slash>>)
    /\ NewURL(u, "POSIX", Components(cwd, <<Slash>>) \o Components(bytes, <<Slash>>))

EFURLCreateWithString(u) ==
    \/ \E kind \in Kinds : \E bytes \in Strings[kind] : CreateHTTP(u, kind, bytes)
    \/ \E path \in Resolved : CreateResolved(u, path)
    \/ \E bytes \in Strings["POSIX"] : \/ CreateUnresolved(u, bytes)
                                       \/ \E cwd \in Resolved : CreateRelative(u, bytes, cwd)

EFURLCreateByAppendingPathComponent(u, n, name) ==
    URLExists(u) /\ NewURL(n, type[u], Append(pathComponents[u], name))

\* At the root nothing is removed.
WithoutLast(names) == IF names = <<>> THEN names ELSE Front(names)

EFURLCreateByDeletingLastPathComponent(u, n) ==
    URLExists(u) /\ NewURL(n, type[u], WithoutLast(pathComponents[u]))

EFURLCreateByReplacingLastPathComponent(u, n, name) ==
    URLExists(u) /\ NewURL(n, type[u], Append(WithoutLast(pathComponents[u]), name))

\* The last reference is dropped: no call on u is under way, and borrowed
\* strings are no longer used.  Lost strings are out of reach for good and
\* leave the model.
Unused(u) == /\ URLExists(u)
             /\ \A t \in Thread : call[t].url # u

Gone(u) == /\ type' = [type EXCEPT ![u] = None]
           /\ pathComponents' = [pathComponents EXCEPT ![u] = <<>>]
           /\ pathString' = [pathString EXCEPT ![u] = None]
           /\ got' = [t \in Thread |-> IF got[t].url = u THEN Nothing ELSE got[t]]
           /\ lost' = [lost EXCEPT ![u] = {}]
           /\ UNCHANGED call

EFURLDeinit(u) ==
    /\ Unused(u) /\ Gone(u)
    /\ contents' = [p \in PathStr |-> IF p \in lost[u] \cup {pathString[u]} THEN Unmade ELSE contents[p]]

(***************************************************************************)
(* EFURLGetPath: the test, the join, the store and the second read are     *)
(* steps of their own.                                                     *)
(***************************************************************************)

Go(t, pc, u, p) == call' = [call EXCEPT ![t] = [pc |-> pc, url |-> u, str |-> p]]

GetPath(t, u) ==
    /\ call[t] = Idle /\ URLExists(u)
    /\ Go(t, IF pathString[u] = None THEN "copy" ELSE "return", u, None)
    /\ UNCHANGED <<type, pathComponents, pathString, contents, got, lost>>

GetPathCopy(t, p) ==
    LET u == call[t].url IN
    /\ call[t].pc = "copy" /\ contents[p] = Unmade
    /\ contents' = [contents EXCEPT ![p] = EFURLCopyPath(u)]
    /\ Go(t, "store", u, p)
    /\ UNCHANGED <<type, pathComponents, pathString, got, lost>>

\* EFURLCopyPath has no memory: NULL will be stored.
GetPathCopyFails(t) ==
    LET u == call[t].url IN
    /\ call[t].pc = "copy"
    /\ Go(t, "store", u, None)
    /\ UNCHANGED <<type, pathComponents, pathString, contents, got, lost>>

\* A string already there is released before the store.
StoreReleasing(t) ==
    LET u == call[t].url IN
    /\ call[t].pc = "store"
    /\ contents' = [p \in PathStr |-> IF p = pathString[u] THEN Unmade ELSE contents[p]]
    /\ pathString' = [pathString EXCEPT ![u] = call[t].str]
    /\ Go(t, "return", u, None)
    /\ UNCHANGED <<type, pathComponents, got, lost>>

\* What another thread has stored in between is overwritten.
GetPathStore(t) ==
    LET u == call[t].url IN
    /\ call[t].pc = "store"
    /\ lost' = [lost EXCEPT ![u] = @ \cup ({pathString[u]} \ {None})]
    /\ pathString' = [pathString EXCEPT ![u] = call[t].str]
    /\ Go(t, "return", u, None)
    /\ UNCHANGED <<type, pathComponents, contents, got>>

GetPathReturn(t) ==
    LET u == call[t].url IN
    /\ call[t].pc = "return"
    /\ got' = [got EXCEPT ![t] = [url |-> u, str |-> pathString[u]]]
    /\ Go(t, "idle", None, None)
    /\ UNCHANGED <<type, pathComponents, pathString, contents, lost>>

-----------------------------------------------------------------------------
URLNext == \/ \E u \in Url : EFURLCreateWithString(u) \/ EFURLDeinit(u)
           \/ \E u, n \in Url :
                 \/ EFURLCreateByDeletingLastPathComponent(u, n)
                 \/ \E name \in Names : \/ EFURLCreateByAppendingPathComponent(u, n, name)
                                        \/ EFURLCreateByReplacingLastPathComponent(u, n, name)
           \/ \E t \in Thread : \/ \E u \in Url : GetPath(t, u)
                                \/ \E p \in PathStr : GetPathCopy(t, p)
                                \/ GetPathCopyFails(t) \/ GetPathStore(t) \/ GetPathReturn(t)

URLSpec == InitURL /\ [][URLNext]_urlVars

-----------------------------------------------------------------------------
(* What EFURLGetPath has returned is the path of the URL and stays valid as  *)
(* long as the URL does, also when other threads make their own string at    *)
(* the same time and store it over this one.                                 *)
BorrowedPathValid == \A t \in Thread :
    got[t].str # None => contents[got[t].str] = EFURLCopyPath(got[t].url)

(* A path taken from a URL and split again gives the names it was joined     *)
(* from: none is lost, invented or merged with its neighbour.  Components    *)
(* that callers add with slashes in them come back in pieces, empty ones     *)
(* vanish.  A POSIX path is always accepted, and an HTTP address is the host *)
(* and, behind a slash, what a download asks the host for.                   *)
PathSplitsAgain == \A u \in Url :
    LET bytes == EFURLCopyPath(u).bytes
        names == pathComponents[u] IN
    URLExists(u) =>
        /\ type[u] = "POSIX" => Parses(bytes)
        /\ Parses(bytes) =>
              Parse(bytes) = FlattenSeq([i \in DOMAIN names |-> Components(names[i], <<Slash>>)])
        /\ type[u] # "POSIX" /\ Len(names) > 1 =>
              bytes = names[1] \o <<Slash>> \o EFURLCopyPathWithoutHostname(u)
=============================================================================
