------------------------------- MODULE EFText -------------------------------
(***************************************************************************)
(* What mutable strings promise, without buffers, terminators or moves of  *)
(* memory: a string is a sequence of bytes, and an edit has the effect its *)
(* name says or none.  Strings that are not mutable are not edited.        *)
(***************************************************************************)
EXTENDS Integers, Sequences

CONSTANTS Str,     \* string objects
          Byte,    \* bytes other than the terminator
          Space,   \* the bytes that are white space
          Texts    \* byte sequences that callers pass

VARIABLES text,    \* text[s]: the bytes of s, <<>> when s does not exist
          exists, editable

vars == <<text, exists, editable>>

Init == /\ text = [s \in Str |-> <<>>]
        /\ exists = [s \in Str |-> FALSE]
        /\ editable = [s \in Str |-> FALSE]

Set(s, t) == text' = [text EXCEPT ![s] = t]

\* Some bytes, or a range of another string, become a new string.
Make(s, t) == /\ ~exists[s]
              /\ exists' = [exists EXCEPT ![s] = TRUE]
              /\ \E m \in BOOLEAN : editable' = [editable EXCEPT ![s] = m]
              /\ Set(s, t)

Edit(s, t) == /\ exists[s] /\ editable[s]
              /\ Set(s, t)
              /\ UNCHANGED <<exists, editable>>

Delete(s, from, n) == Edit(s, SubSeq(text[s], 1, from) \o SubSeq(text[s], from + n + 1, Len(text[s])))

\* What is left has white space at neither end, and all that is gone is white space.
Trim(s) == \E from, to \in 1..Len(text[s]) + 1 :
    /\ \A i \in DOMAIN text[s] \ (from..to - 1) : text[s][i] \in Space
    /\ from < to => text[s][from] \notin Space /\ text[s][to - 1] \notin Space
    /\ Edit(s, SubSeq(text[s], from, to - 1))

Drop(s) == /\ exists[s]
           /\ exists' = [exists EXCEPT ![s] = FALSE]
           /\ editable' = [editable EXCEPT ![s] = FALSE]
           /\ Set(s, <<>>)

Next == \E s \in Str :
    \/ \E t \in Texts : Make(s, t) \/ Edit(s, text[s] \o t)
    \/ \E r \in Str : \E from \in 0..Len(text[r]) : \E n \in 0..Len(text[r]) - from :
           exists[r] /\ Make(s, SubSeq(text[r], from + 1, from + n))
    \/ \E r \in Str : exists[r] /\ Edit(s, text[s] \o text[r])
    \/ \E from \in 0..Len(text[s]) : \E n \in 0..Len(text[s]) - from : Delete(s, from, n)
    \/ Trim(s) \/ Drop(s)

Spec == Init /\ [][Next]_vars
=============================================================================
