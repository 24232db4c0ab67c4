------------------------------ MODULE MCEFURL -------------------------------
(* A small instance of EFURL for TLC. *)
EXTENDS EFURL

MCStrings == [POSIX |-> {<<"/">>, <<"b", "/", "/">>, <<"b">>, <<>>},
              HTTP |-> {<<"h", "/", "b">>, <<"/">>},
              HTTPS |-> {}]
MCResolved == {<<"/">>, <<"/", "b">>}
MCNames == {<<"b", "/", "b">>, <<>>}

URLSymmetry == Permutations(Url) \cup Permutations(Thread) \cup Permutations(PathStr)
=============================================================================
