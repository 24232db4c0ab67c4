------------------------------ MODULE EFBytes ------------------------------
(***************************************************************************)
(* What data objects promise, without buffers, owners or moves of memory:  *)
(* a data object is a sequence of cells.  One that owns a copy never       *)
(* changes; a mutable one changes as it is told; a view changes with the   *)
(* memory it shows, but not its length.                                    *)
(*                                                                         *)
(* Two calls keep less than that.  To make a mutable object empty may lose *)
(* it, and whoever uses or drops a lost object is promised nothing any     *)
(* more, of any object.  An object's own cells appended to it may arrive   *)
(* as others.                                                              *)
(***************************************************************************)
EXTENDS Integers, Sequences

CONSTANTS Data,       \* data objects
          Cell,       \* what memory holds
          MaxLength   \* bound on the length of a data object

VARIABLES value,      \* value[d]: the cells of d, Gone or Lost
          kind,       \* kind[d]: "copy", "mutable" or "view", "none" when d does not exist
          readable    \* the cell sequences that callers can pass

vars == <<value, kind>>

Gone == <<"gone">>
Lost == <<"lost">>
Fill(n, c) == [i \in 1..n |-> c]

Init == value = [d \in Data |-> Gone] /\ kind = [d \in Data |-> "none"]

\* d, and no other, becomes one of T.
Becomes(d, T) == /\ \A e \in Data \ {d} : value'[e] = value[e]
                 /\ value'[d] \in T

Make(d) == /\ value[d] = Gone
           /\ \E k \in {"copy", "view", "mutable"} : kind' = [kind EXCEPT ![d] = k]
           /\ Becomes(d, readable \cup IF kind'[d] = "mutable" THEN {Fill(n, "0") : n \in 0..MaxLength} ELSE {})

Drop(d) == /\ kind[d] # "none" /\ value[d] # Lost
           /\ kind' = [kind EXCEPT ![d] = "none"]
           /\ Becomes(d, {Gone})

\* A cell of v is written.
Written(v) == UNION {{[v EXCEPT ![i] = c] : c \in Cell} : i \in DOMAIN v}

\* A mutable object with the cells v is resized, gets what was appended or is
\* written.
Edited(v) == {SubSeq(v, 1, n) : n \in 0..Len(v)}
             \cup {v \o Fill(n, "0") : n \in 0..MaxLength - Len(v)}
             \cup {v \o t : t \in readable}
             \cup Written(v)

Editable(d) == kind[d] = "mutable" /\ value[d] # Lost

Edit(d) == /\ Editable(d)
           /\ UNCHANGED kind
           /\ Becomes(d, Edited(value[d]))

\* Cells of d itself are appended to it, after they were freed.
AppendOwn(d) == /\ Editable(d)
                /\ UNCHANGED kind
                /\ Becomes(d, {value[d] \o Fill(n, "?") : n \in DOMAIN value[d]})

\* d is made empty, and lost.
Empty(d) == /\ Editable(d) /\ value[d] # <<>>
            /\ UNCHANGED kind
            /\ Becomes(d, {Lost})

\* A lost object is used or dropped.
Break == /\ \E d \in Data : value[d] = Lost
         /\ value' = [d \in Data |-> Lost]
         /\ kind' = [d \in Data |-> "none"]

\* The memory that views show is written.
Show == /\ UNCHANGED kind
        /\ \A d \in Data : IF kind[d] = "view" THEN value'[d] \in [DOMAIN value[d] -> Cell]
                                               ELSE value'[d] = value[d]

Next == \/ \E d \in Data : Make(d) \/ Drop(d) \/ Edit(d) \/ AppendOwn(d) \/ Empty(d)
        \/ Show \/ Break

Spec == Init /\ [][Next]_vars
=============================================================================
