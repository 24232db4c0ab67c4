---------------------------- MODULE MCEFBitWalker ---------------------------
(* A small instance of EFBitWalker for TLC: bytes of two bits. *)
EXTENDS EFBitWalker

MCBuffers == {<<1, 0>>}
MCSkips == {-3, -1, 3}

\* Inside a byte, over a boundary, as wide as a value can be; for a big-endian
\* walker at most a byte or whole bytes.
MCValues == [little |-> {<<1>>, <<1, 0, 1>>, <<1, 0, 0, 1>>},
             big |-> {<<1>>, <<0, 1>>, <<1, 0, 1, 1>>}]

=============================================================================
