----------------------------- MODULE EFProcess ------------------------------
(***************************************************************************)
(* EFProcess.c: objects that describe a process and send it signals.  An   *)
(* object made by spawning owns its child and kills it at its end; one     *)
(* made from an identifier observes.  The fields are read by several       *)
(* system calls, while processes come and go and the kernel gives the      *)
(* identifiers of dead ones to new ones.                                   *)
(*                                                                         *)
(* A process is a number, never used twice; an identifier is what the      *)
(* kernel calls it by.  The kernel and the processes are external, as      *)
(* posix_spawn, kill, waitpid, getpgid, getsid and sysctl show them.       *)
(***************************************************************************)
EXTENDS Integers, FiniteSets, Sequences

CONSTANTS Thread,   \* threads creating objects
          Object,   \* EFProcess objects
          Pid,      \* process identifiers, positive
          MaxProcs  \* bound on the number of processes over time

ASSUME ProcessAssumption == Pid \subseteq Nat \ {0} /\ MaxProcs \in Nat

VARIABLES at,       \* at[p]: the process called p, 0 when p is free
          state,    \* state[i]: "unborn", "runs", "zombie" or "gone"
          ours,     \* processes that are children of this one
          object,   \* object[o]: the fields of o
          call,     \* call[t]: a creation under way
          hits,     \* signals sent by owners: the child and the process hit
          crashed

vars == <<at, state, ours, object, call, hits, crashed>>

Procs == 1..MaxProcs
NoObject == [pid |-> 0, weSpawnedThis |-> FALSE, child |-> 0]
Idle == [pc |-> "idle"]
\* Groups stands for getpgid and getsid.
Fields == <<"groups", "info", "args">>
Unread == [groups |-> 0, info |-> 0, args |-> 0]

Init == /\ at = [p \in Pid |-> 0]
        /\ state = [i \in Procs |-> "unborn"]
        /\ ours = {}
        /\ object = [o \in Object |-> NoObject]
        /\ call = [t \in Thread |-> Idle]
        /\ hits = {}
        /\ crashed = FALSE

Exists(o) == object[o] # NoObject
Go(t, next) == call' = [call EXCEPT ![t] = next]
KernelKept == UNCHANGED <<at, state, ours>>

(***************************************************************************)
(* Processes (external)                                                    *)
(***************************************************************************)

Born(i, p) == /\ state[i] = "unborn" /\ \A j \in Procs : j < i => state[j] # "unborn"
              /\ at[p] = 0
              /\ at' = [at EXCEPT ![p] = i]
              /\ state' = [state EXCEPT ![i] = "runs"]

Reap(i) == /\ at' = [p \in Pid |-> IF at[p] = i THEN 0 ELSE at[p]]
           /\ state' = [state EXCEPT ![i] = "gone"]

\* A child that ends stays a zombie until it is waited for; other processes
\* are reaped by their own parents.
Ends(i) == /\ state[i] = "runs"
           /\ IF i \in ours THEN state' = [state EXCEPT ![i] = "zombie"] /\ UNCHANGED at
                            ELSE Reap(i)

Other(p) == /\ \E i \in Procs : Born(i, p)
            /\ UNCHANGED <<ours, object, call, hits, crashed>>

Exit(i) == Ends(i) /\ UNCHANGED <<ours, object, call, hits, crashed>>

(***************************************************************************)
(* Creation                                                                *)
(***************************************************************************)

Creating(pid, child) ==
    [pc |-> "read", pid |-> pid, child |-> child, next |-> 1, seen |-> Unread]

\* EFProcessCreateWithCommand and EFProcessCreateWithPath, up to the spawn.
Spawn(t, p) ==
    /\ call[t] = Idle
    /\ \E i \in Procs : Born(i, p) /\ ours' = ours \cup {i} /\ Go(t, Creating(p, i))
    /\ UNCHANGED <<object, hits, crashed>>

EFProcessCreateWithProcessIdentifier(t, p) ==
    /\ call[t] = Idle
    /\ p > 0
    /\ Go(t, Creating(p, 0))
    /\ KernelKept /\ UNCHANGED <<object, hits, crashed>>

\* The kernel has an answer for 0, about none of these processes.
At(p) == IF p = 0 THEN -1 ELSE at[p]

\* A call may also fail, and does about nobody.
Answers(p) == {0, At(p)}

Reading(t) == /\ call[t].pc = "read" /\ call[t].next <= Len(Fields)
              /\ call[t].next = 3 => call[t].seen.info # 0

\* The answer is kept in a buffer that threads share.
ReadIntoShared(t) ==
    /\ Reading(t)
    /\ \E i \in Answers(call[t].pid) :
          call' = [u \in Thread |->
                      IF call[u].pc # "read" THEN call[u]
                      ELSE [call[u] EXCEPT !.seen[Fields[call[t].next]] = i,
                                           !.next = IF u = t THEN @ + 1 ELSE @]]
    /\ KernelKept /\ UNCHANGED <<object, hits, crashed>>

\* The next system call: for the groups, by sysctl for the process, by sysctl
\* for its arguments.
ReadField(t) ==
    /\ Reading(t)
    /\ \E i \in Answers(call[t].pid) :
          Go(t, [call[t] EXCEPT !.seen[Fields[call[t].next]] = i, !.next = @ + 1])
    /\ KernelKept /\ UNCHANGED <<object, hits, crashed>>

\* No information about the process, or no memory: NULL, through which the
\* spawning functions store.
CreationFails(t) ==
    /\ call[t].pc = "read" /\ call[t].next >= 3
    /\ Go(t, Idle)
    /\ crashed' = (call[t].child # 0)
    /\ KernelKept /\ UNCHANGED <<object, hits>>

\* What an observer has seen is not followed further.
Fill(t, o, spawned) ==
    /\ call[t].pc = "read" /\ call[t].next > Len(Fields)
    /\ ~Exists(o)
    /\ object' = [object EXCEPT ![o] = [pid |-> call[t].pid, weSpawnedThis |-> spawned,
                                        child |-> call[t].child,
                                        seen |-> IF call[t].child # 0 THEN call[t].seen ELSE Unread]]
    /\ Go(t, Idle)
    /\ KernelKept /\ UNCHANGED <<hits, crashed>>

Build(t, o) == Fill(t, o, call[t].child # 0)

(***************************************************************************)
(* Signals, waiting and the end of an object                               *)
(***************************************************************************)

Noted(o, i) == hits' = IF object[o].child # 0 /\ i # 0 /\ i # object[o].child
                       THEN hits \cup {[child |-> object[o].child, hit |-> i]} ELSE hits

\* kill with SIGTERM or SIGKILL.  A zombie does not notice.
Kills(i) == IF i # 0 /\ state[i] = "runs" THEN Ends(i) ELSE UNCHANGED <<at, state>>

\* The signal goes to the process group, of which any child is a member.
SignalGroup(o) ==
    /\ Exists(o)
    /\ \E i \in {at[object[o].pid]} \cup ours : Kills(i) /\ Noted(o, i)
    /\ UNCHANGED <<ours, object, call, crashed>>

EFProcessSendSignal(o) ==
    /\ Exists(o)
    /\ Kills(at[object[o].pid]) /\ Noted(o, at[object[o].pid])
    /\ UNCHANGED <<ours, object, call, crashed>>

\* waitpid, for a zombie; for a running child it blocks, for others it fails.
EFProcessWaitPID(o) ==
    LET i == at[object[o].pid] IN
    /\ Exists(o) /\ i \in ours /\ state[i] = "zombie"
    /\ Reap(i)
    /\ UNCHANGED <<ours, object, call, hits, crashed>>

\* The child is left to itself.
DeinitWithoutKill(o) ==
    /\ Exists(o)
    /\ object' = [object EXCEPT ![o] = NoObject]
    /\ KernelKept /\ UNCHANGED <<call, hits, crashed>>

EFProcessDeinit(o) ==
    /\ Exists(o)
    /\ object' = [object EXCEPT ![o] = NoObject]
    /\ IF object[o].weSpawnedThis
       THEN Kills(at[object[o].pid]) /\ Noted(o, at[object[o].pid]) /\ UNCHANGED ours
       ELSE KernelKept /\ UNCHANGED hits
    /\ UNCHANGED <<call, crashed>>

-----------------------------------------------------------------------------
CreateCall(t) == \/ \E p \in Pid : Spawn(t, p)
                 \/ \E p \in Pid \cup {0} : EFProcessCreateWithProcessIdentifier(t, p)
                 \/ ReadField(t) \/ CreationFails(t)
                 \/ \E o \in Object : Build(t, o)

Next == /\ ~crashed
        /\ \/ \E p \in Pid : Other(p)
           \/ \E i \in Procs : Exit(i)
           \/ \E t \in Thread : CreateCall(t)
           \/ \E o \in Object : EFProcessSendSignal(o) \/ EFProcessWaitPID(o) \/ EFProcessDeinit(o)

Spec == Init /\ [][Next]_vars

-----------------------------------------------------------------------------
Unreaped(i) == state[i] \in {"runs", "zombie"}

(* A signal an owner sends, or its deinit, hits its own child as long as     *)
(* nobody has waited for the child, even if it has ended long ago.           *)
StrangersSpared == \A h \in hits : state[h.child] = "gone"

(* What an owner knows about its child it knows from no other process: the   *)
(* fields may be missing, and are mixed only if the child was waited for in  *)
(* the middle of the creation.                                               *)
OneDescription == \A o \in Object :
    Exists(o) /\ object[o].child # 0 /\ Unreaped(object[o].child) =>
        /\ object[o].seen.info = object[o].child
        /\ object[o].seen.groups \in {0, object[o].child}
        /\ object[o].seen.args \in {0, object[o].child}

(* A running child has an owner, finished or under construction: when the    *)
(* owner goes, so does the child.                                            *)
NoRunawayChild == \A i \in ours : ~crashed /\ state[i] = "runs" =>
    \/ \E o \in Object : Exists(o) /\ object[o].child = i /\ object[o].weSpawnedThis
    \/ \E t \in Thread : call[t].pc = "read" /\ call[t].child = i

=============================================================================
