----------------------------- MODULE EFLifetime -----------------------------
(***************************************************************************)
(* What reference counting promises to a user of EmexFoundation, without   *)
(* counters, threads or destructors: an object exists from its creation    *)
(* until it has no owner left, and is then reclaimed.                      *)
(***************************************************************************)
CONSTANTS Object,   \* addresses an object may occupy
          Static,   \* objects of the static root type, never reclaimed
          Ref       \* names of owning references

VARIABLES alive,    \* alive[o]: memory of o is allocated
          owners    \* owners[o]: the owning references to o

vars == <<alive, owners>>

Init == /\ alive = [o \in Object |-> o \in Static]
        /\ owners = [o \in Object |-> {}]

Unused(r) == \A o \in Object : r \notin owners[o]

Create(o, r) == /\ ~alive[o]
                /\ Unused(r)
                /\ alive' = [alive EXCEPT ![o] = TRUE]
                /\ owners' = [owners EXCEPT ![o] = {r}]

\* Only the holder of a reference can make another one; a static object is
\* always within reach.
Share(o, r) == /\ o \in Static \/ owners[o] # {}
               /\ Unused(r)
               /\ owners' = [owners EXCEPT ![o] = @ \cup {r}]
               /\ UNCHANGED alive

Drop(o, r) == /\ r \in owners[o]
              /\ owners' = [owners EXCEPT ![o] = @ \ {r}]
              /\ UNCHANGED alive

Reclaim(o) == /\ o \notin Static
              /\ alive[o]
              /\ owners[o] = {}
              /\ alive' = [alive EXCEPT ![o] = FALSE]
              /\ UNCHANGED owners

Next == \E o \in Object : \/ \E r \in Ref : Create(o, r) \/ Share(o, r) \/ Drop(o, r)
                          \/ Reclaim(o)

Spec == Init /\ [][Next]_vars
=============================================================================
