----------------------------- MODULE MCEFFiles -----------------------------
\* Instance for TLC.  Seven worlds, so that what does not interact is not
\* multiplied: policies over a path that others change; a client that
\* writes; listings beside a file; 16 responses; a download beside listings;
\* reads of a download that are interrupted.
EXTENDS EFFiles

UpTo(S, n) == UNION {[1..k -> S] : k \in 0..n}
World(kind, policies, contents, written, responses, directories) ==
    [url |-> kind, policies |-> policies, contents |-> contents, written |-> written,
     responses |-> responses, interrupted |-> FALSE, directories |-> directories]
Interrupted(w) == [w EXCEPT !.interrupted = TRUE]

AlsoDirectories == Policy("r", FALSE, FALSE, FALSE)
Listed == {<<"good">>, <<"bad">>}
Responses == {h \o Terminator \o <<"x">> : h \in UpTo({"cr", "lf", "x"}, 2)}
             \cup {<<"cr", "lf", "x">> \o Terminator \o <<"x">>, Terminator \o <<"x", "lf">>,
                   <<"cr", "lf", "cr">>}

MCWorlds == {
    World("posix", {EFFilePolicyInData, EFFilePolicyOutData}, {<<"s">>}, {}, {}, {}),
    World("posix", {EFFilePolicyInNoCreate, AlsoDirectories}, {}, {}, {}, {}),
    World("posix", {EFFilePolicyOutData}, {<<>>}, {"x"}, {}, {}),
    World("posix", {EFFilePolicyOutData}, {}, {}, {}, Listed),
    World("http", {EFFilePolicyInData}, {}, {}, Responses, {}),
    World("http", {EFFilePolicyInData}, {}, {"x"}, {Terminator \o <<"x">>}, Listed),
    Interrupted(World("http", {EFFilePolicyInData}, {}, {}, {Terminator}, {}))}
=============================================================================
