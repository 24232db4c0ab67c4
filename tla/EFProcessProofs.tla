-------------------------- MODULE EFProcessProofs ---------------------------
(***************************************************************************)
(* Proofs about EFProcess for any number of threads, objects, identifiers  *)
(* and processes over time.                                                *)
(*                                                                         *)
(* The kernel may give an identifier to another process only when the one  *)
(* before has been waited for.  So an owner's identifier means its child   *)
(* as long as nobody has waited for the child (CallInv, ObjectInv); that   *)
(* is what the three properties rest on.                                   *)
(***************************************************************************)
EXTENDS EFProcess, TLAPS

FieldName == {"groups", "info", "args"}
Seen == [groups : Int, info : Int, args : Int]
Calls == {Idle} \cup [pc : {"read"}, pid : Pid, child : Procs \cup {0}, next : 1..4, seen : Seen]
Objects == {NoObject} \cup [pid : Pid, weSpawnedThis : BOOLEAN, child : Procs \cup {0}, seen : Seen]

TypeOK == /\ at \in [Pid -> Procs \cup {0}]
          /\ state \in [Procs -> {"unborn", "runs", "zombie", "gone"}]
          /\ ours \subseteq Procs
          /\ object \in [Object -> Objects]
          /\ call \in [Thread -> Calls]
          /\ hits \subseteq [child : Procs, hit : Procs]
          /\ crashed \in BOOLEAN

\* The identifiers in use are those of processes nobody has waited for, and a
\* process has no more than one.
KernelInv == /\ \A p \in Pid : at[p] # 0 => Unreaped(at[p])
             /\ \A p, q \in Pid : at[p] # 0 /\ at[p] = at[q] => p = q
             /\ \A i \in ours : state[i] # "unborn"

\* The identifier pid was given to the child i and still means it.
Means(pid, i) == /\ i \in ours /\ pid \in Pid
                 /\ Unreaped(i) => at[pid] = i

Told(s, i) == s.groups \in {0, i} /\ s.info \in {0, i} /\ s.args \in {0, i}

CallInv == \A t \in Thread : call[t] # Idle /\ call[t].child # 0 =>
    /\ Means(call[t].pid, call[t].child)
    /\ Unreaped(call[t].child) => /\ Told(call[t].seen, call[t].child)
                                  /\ call[t].next = 4 => call[t].seen.info # 0

ObjectInv == \A o \in Object : Exists(o) =>
    /\ object[o].weSpawnedThis <=> object[o].child # 0
    /\ object[o].child # 0 =>
          /\ Means(object[o].pid, object[o].child)
          /\ Unreaped(object[o].child) => Told(object[o].seen, object[o].child) /\ object[o].seen.info # 0

IInv == TypeOK /\ KernelInv /\ CallInv /\ ObjectInv /\ StrangersSpared /\ NoRunawayChild

(***************************************************************************)
(* The kernel                                                              *)
(***************************************************************************)

\* What becomes of processes and identifiers in any step: nobody is born
\* twice or comes back, and an identifier stays until the wait.
Kept == \A i \in Procs :
    /\ state[i] # "unborn" => state'[i] # "unborn" /\ (Unreaped(i)' => Unreaped(i))
    /\ \A p \in Pid : at[p] = i /\ Unreaped(i)' => at'[p] = i

KernelTypes == /\ at' \in [Pid -> Procs \cup {0}]
               /\ state' \in [Procs -> {"unborn", "runs", "zombie", "gone"}]

\* Process ids are positive numbers.
LEMMA ProcsType == Procs \subseteq Nat \ {0} /\ 0 \notin Pid /\ 0 \notin Procs
BY ProcessAssumption DEF Procs

\* A process that starts fits the table.
LEMMA BornKernel ==
  ASSUME TypeOK, KernelInv, NEW i \in Procs, NEW p \in Pid, Born(i, p), ours' \in {ours, ours \cup {i}}
  PROVE  Kept /\ KernelTypes /\ KernelInv' /\ state'[i] = "runs" /\ at'[p] = i /\ i \notin ours
         /\ (\A j \in Procs \ {i} : state'[j] = state[j])
<1>1. state[i] = "unborn" /\ at[p] = 0 /\ at' = [at EXCEPT ![p] = i] /\ state' = [state EXCEPT ![i] = "runs"]
  BY DEF Born
<1>2. \A q \in Pid : at[q] # i
  BY <1>1, ProcsType DEF KernelInv, Unreaped
<1>3. Kept
  BY <1>1, <1>2, ProcsType DEF Kept, TypeOK, Unreaped
<1>4. KernelTypes
  BY <1>1 DEF KernelTypes, TypeOK
<1>5. KernelInv'
  BY <1>1, <1>2, ProcsType DEF KernelInv, TypeOK, Unreaped
<1> QED  BY <1>1, <1>3, <1>4, <1>5 DEF TypeOK, KernelInv

\* So does the table without a reaped one.
LEMMA ReapKernel ==
  ASSUME TypeOK, KernelInv, NEW i \in Procs, Reap(i), UNCHANGED ours
  PROVE  Kept /\ KernelTypes /\ KernelInv' /\ state'[i] = "gone"
         /\ (\A j \in Procs \ {i} : state'[j] = state[j])
<1>1. /\ at' = [p \in Pid |-> IF at[p] = i THEN 0 ELSE at[p]]
      /\ state' = [state EXCEPT ![i] = "gone"]
  BY DEF Reap
<1>2. Kept
  BY <1>1 DEF Kept, TypeOK, Unreaped
<1>3. KernelTypes
  BY <1>1 DEF KernelTypes, TypeOK
<1>4. KernelInv'
  BY <1>1, ProcsType DEF KernelInv, TypeOK, Unreaped
<1> QED  BY <1>1, <1>2, <1>3, <1>4 DEF TypeOK

\* A process that ends stays a child to be reaped.
LEMMA EndsKernel ==
  ASSUME TypeOK, KernelInv, NEW i \in Procs, Ends(i), UNCHANGED ours
  PROVE  Kept /\ KernelTypes /\ KernelInv' /\ state'[i] # "runs"
         /\ (\A j \in Procs \ {i} : state'[j] = state[j])
<1>1. CASE i \in ours
  <2>1. state[i] = "runs" /\ state' = [state EXCEPT ![i] = "zombie"] /\ UNCHANGED at
    BY <1>1 DEF Ends
  <2> QED  BY <2>1 DEF Kept, KernelTypes, KernelInv, TypeOK, Unreaped
<1>2. CASE i \notin ours
  BY <1>2, ReapKernel DEF Ends
<1> QED  BY <1>1, <1>2

\* A table that stays stays right.
LEMMA KeptKernel ==
  ASSUME TypeOK, KernelInv, UNCHANGED <<at, state, ours>>
  PROVE  Kept /\ KernelTypes /\ KernelInv'
BY DEF Kept, KernelTypes, KernelInv, TypeOK, Unreaped

\* So does one after a signal.
LEMMA KillsKernel ==
  ASSUME TypeOK, KernelInv, NEW i \in Procs \cup {0}, Kills(i), UNCHANGED ours
  PROVE  Kept /\ KernelTypes /\ KernelInv' /\ (i # 0 => state'[i] # "runs")
         /\ (\A j \in Procs : state'[j] = "runs" => state[j] = "runs")
<1>1. CASE i # 0 /\ state[i] = "runs"
  BY <1>1, EndsKernel DEF Kills
<1>2. CASE ~(i # 0 /\ state[i] = "runs")
  BY <1>2, KeptKernel DEF Kills
<1> QED  BY <1>1, <1>2

(***************************************************************************)
(* Owners                                                                  *)
(***************************************************************************)

\* An identifier that means a child means it after the step, too.
LEMMA MeansKept ==
  ASSUME TypeOK, KernelInv, Kept, ours \subseteq ours', NEW i, NEW p, Means(p, i)
  PROVE  Means(p, i)' /\ (Unreaped(i)' => Unreaped(i)) /\ i \in Procs
BY DEF KernelInv, Kept, Means, TypeOK

\* A creation under way that the step leaves alone.
LEMMA CallKept ==
  ASSUME IInv, Kept, ours \subseteq ours'
  PROVE  \A t \in Thread : call'[t] = call[t] /\ call[t] # Idle /\ call[t].child # 0 =>
            /\ Means(call[t].pid, call[t].child)'
            /\ Unreaped(call[t].child)' => /\ Told(call[t].seen, call[t].child)'
                                           /\ call'[t].next = 4 => call'[t].seen.info # 0
<1> SUFFICES ASSUME NEW t \in Thread, call'[t] = call[t], call[t] # Idle, call[t].child # 0
             PROVE  /\ Means(call[t].pid, call[t].child)'
                    /\ Unreaped(call[t].child)' => /\ Told(call[t].seen, call[t].child)'
                                                   /\ call'[t].next = 4 => call'[t].seen.info # 0
  OBVIOUS
<1> QED  BY DEF IInv, TypeOK, KernelInv, CallInv, Kept, Means, Told, Unreaped

\* An object that the step leaves alone.
LEMMA ObjectKept ==
  ASSUME IInv, Kept, ours \subseteq ours'
  PROVE  \A o \in Object : object'[o] = object[o] /\ Exists(o) =>
            /\ object[o].weSpawnedThis <=> object[o].child # 0
            /\ object[o].child # 0 =>
                  /\ Means(object[o].pid, object[o].child)'
                  /\ Unreaped(object[o].child)' => /\ Told(object[o].seen, object[o].child)'
                                                   /\ object'[o].seen.info # 0
<1> SUFFICES ASSUME NEW o \in Object, object'[o] = object[o], Exists(o)
             PROVE  /\ object[o].weSpawnedThis <=> object[o].child # 0
                    /\ object[o].child # 0 =>
                          /\ Means(object[o].pid, object[o].child)'
                          /\ Unreaped(object[o].child)' => /\ Told(object[o].seen, object[o].child)'
                                                           /\ object'[o].seen.info # 0
  OBVIOUS
<1> QED  BY DEF IInv, TypeOK, KernelInv, ObjectInv, Kept, Means, Told, Unreaped

\* Who has been waited for stays so.
LEMMA SparedKept ==
  ASSUME TypeOK, StrangersSpared, Kept, KernelTypes,
         hits' \subseteq hits \cup {h \in [child : Procs, hit : Procs] : state[h.child] = "gone"}
  PROVE  StrangersSpared' /\ hits' \subseteq [child : Procs, hit : Procs]
<1>1. \A i \in Procs : state[i] = "gone" => state'[i] = "gone"
  BY DEF Kept, KernelTypes, Unreaped
<1>2. \A h \in hits' : h \in [child : Procs, hit : Procs] /\ state[h.child] = "gone"
  BY DEF TypeOK, StrangersSpared
<1> QED  BY <1>1, <1>2 DEF StrangersSpared

\* A signal by an object goes to its child until somebody has waited for it.
LEMMA NotedSpared ==
  ASSUME IInv, NEW o \in Object, Exists(o), Noted(o, at[object[o].pid])
  PROVE  hits' \subseteq hits \cup {h \in [child : Procs, hit : Procs] : state[h.child] = "gone"}
<1> DEFINE c == object[o].child
           i == at[object[o].pid]
<1> SUFFICES ASSUME c # 0, i # 0, i # c, hits' = hits \cup {[child |-> c, hit |-> i]}
             PROVE  c \in Procs /\ i \in Procs /\ state[c] = "gone"
  BY DEF Noted
<1>1. Means(object[o].pid, c)
  BY DEF IInv, ObjectInv
<1>2. object[o].pid \in Pid /\ c \in Procs
  BY <1>1 DEF IInv, TypeOK, Means
<1>3. ~Unreaped(c) /\ state[c] # "unborn"
  BY <1>1 DEF IInv, KernelInv, Means
<1> QED  BY <1>2, <1>3 DEF IInv, TypeOK, Unreaped

\* Processes of others come and go.
LEMMA OtherInv ==
  ASSUME IInv, NEW p \in Pid, Other(p)
  PROVE  IInv'
<1>1. PICK i \in Procs : Born(i, p)
  BY DEF Other
<1>2. UNCHANGED <<ours, object, call, hits, crashed>>
  BY DEF Other
<1>3. /\ Kept /\ KernelTypes /\ KernelInv' /\ i \notin ours
      /\ \A j \in Procs \ {i} : state'[j] = state[j]
  BY <1>1, <1>2, BornKernel DEF IInv
<1>4. TypeOK' /\ StrangersSpared'
  BY <1>2, <1>3, SparedKept DEF IInv, TypeOK, KernelTypes
<1>5. CallInv'
  BY <1>2, <1>3, CallKept DEF CallInv
<1>6. ObjectInv'
  BY <1>2, <1>3, ObjectKept DEF ObjectInv, Exists
<1>7. NoRunawayChild'
  BY <1>2, <1>3 DEF IInv, NoRunawayChild, TypeOK, Exists
<1> QED  BY <1>3, <1>4, <1>5, <1>6, <1>7 DEF IInv

\* A process of ours ends on its own.
LEMMA ExitInv ==
  ASSUME IInv, NEW i \in Procs, Exit(i)
  PROVE  IInv'
<1>1. Ends(i) /\ UNCHANGED <<ours, object, call, hits, crashed>>
  BY DEF Exit
<1>2. /\ Kept /\ KernelTypes /\ KernelInv' /\ state'[i] # "runs"
      /\ \A j \in Procs \ {i} : state'[j] = state[j]
  BY <1>1, EndsKernel DEF IInv
<1>3. TypeOK' /\ StrangersSpared'
  BY <1>1, <1>2, SparedKept DEF IInv, TypeOK, KernelTypes
<1>4. CallInv'
  BY <1>1, <1>2, CallKept DEF CallInv
<1>5. ObjectInv'
  BY <1>1, <1>2, ObjectKept DEF ObjectInv, Exists
<1>6. NoRunawayChild'
  BY <1>1, <1>2 DEF IInv, NoRunawayChild, TypeOK, Exists
<1> QED  BY <1>2, <1>3, <1>4, <1>5, <1>6 DEF IInv

\* The child that a creation starts is one that nobody describes.
LEMMA SpawnInv ==
  ASSUME IInv, NEW t \in Thread, NEW p \in Pid, Spawn(t, p)
  PROVE  IInv'
<1>1. PICK i \in Procs : Born(i, p) /\ ours' = ours \cup {i} /\ Go(t, Creating(p, i))
  BY DEF Spawn
<1>2. call[t] = Idle /\ UNCHANGED <<object, hits, crashed>>
  BY DEF Spawn
<1>3. /\ Kept /\ KernelTypes /\ KernelInv' /\ state'[i] = "runs" /\ at'[p] = i
      /\ \A j \in Procs \ {i} : state'[j] = state[j]
  BY <1>1, BornKernel DEF IInv
<1> DEFINE c == Creating(p, i)
<1>4. /\ c \in Calls /\ c # Idle /\ c.pc = "read" /\ c.pid = p /\ c.child = i /\ c.next = 1
      /\ c.seen \in Seen /\ Told(c.seen, i)
  BY DEF Creating, Calls, Unread, Seen, Idle, Told
<1>5. call' = [call EXCEPT ![t] = c]
  BY <1>1 DEF Go
<1> HIDE DEF c
<1>6. TypeOK' /\ StrangersSpared'
  BY <1>1, <1>2, <1>3, <1>4, <1>5, SparedKept DEF IInv, TypeOK, KernelTypes
<1>7. CallInv'
  <2> SUFFICES ASSUME NEW u \in Thread, (call[u] # Idle)', (call[u].child # 0)'
               PROVE  /\ Means(call[u].pid, call[u].child)'
                      /\ Unreaped(call[u].child)' => /\ Told(call[u].seen, call[u].child)'
                                                     /\ call'[u].next = 4 => call'[u].seen.info # 0
    BY DEF CallInv
  <2>1. CASE u = t
    <3>1. call'[u] = c
      BY <1>5, <2>1 DEF IInv, TypeOK
    <3>2. i # 0 /\ i \in ours'
      BY <1>1, ProcsType
    <3> QED  BY <1>3, <1>4, <3>1, <3>2 DEF Means, Told
  <2>2. CASE u # t
    <3>1. call'[u] = call[u]
      BY <1>5, <2>2 DEF IInv, TypeOK
    <3> QED  BY <1>1, <1>3, <3>1, CallKept
  <2> QED  BY <2>1, <2>2
<1>8. ObjectInv'
  BY <1>1, <1>2, <1>3, ObjectKept DEF ObjectInv, Exists
<1>9. NoRunawayChild'
  <2> SUFFICES ASSUME NEW j \in ours', ~crashed', state'[j] = "runs"
               PROVE  \/ \E o \in Object : (Exists(o) /\ object[o].child = j /\ object[o].weSpawnedThis)'
                      \/ \E u \in Thread : (call[u].pc = "read" /\ call[u].child = j)'
    BY DEF NoRunawayChild
  <2>1. CASE j = i
    BY <1>4, <1>5, <2>1 DEF IInv, TypeOK
  <2>2. CASE j # i
    <3>1. j \in ours /\ state[j] = "runs" /\ ~crashed
      BY <1>1, <1>2, <1>3, <2>2 DEF IInv, TypeOK
    <3>2. CASE \E o \in Object : Exists(o) /\ object[o].child = j /\ object[o].weSpawnedThis
      BY <1>2, <3>2 DEF Exists
    <3>3. CASE \E u \in Thread : call[u].pc = "read" /\ call[u].child = j
      BY <1>2, <1>5, <3>3 DEF Idle, IInv, TypeOK
    <3> QED  BY <3>1, <3>2, <3>3 DEF IInv, NoRunawayChild
  <2> QED  BY <2>1, <2>2
<1> QED  BY <1>3, <1>6, <1>7, <1>8, <1>9 DEF IInv

\* A step of one creation that the kernel does not notice.
LEMMA CreationStep ==
  ASSUME IInv, KernelKept, UNCHANGED <<object, hits>>, crashed' \in BOOLEAN, crashed' \/ ~crashed,
         NEW t \in Thread, NEW c \in Calls, call' = [call EXCEPT ![t] = c],
         c # Idle /\ c.child # 0 =>
            /\ Means(c.pid, c.child)
            /\ Unreaped(c.child) => Told(c.seen, c.child) /\ (c.next = 4 => c.seen.info # 0),
         crashed' \/ (call[t].pc = "read" /\ call[t].child # 0 => c.pc = "read" /\ c.child = call[t].child)
  PROVE  IInv'
<1>1. Kept /\ KernelTypes /\ KernelInv'
  BY KeptKernel DEF IInv, KernelKept
<1>2. TypeOK' /\ StrangersSpared'
  BY <1>1, SparedKept DEF IInv, TypeOK, KernelTypes, KernelKept
<1>3. call'[t] = c /\ \A u \in Thread \ {t} : call'[u] = call[u]
  BY DEF IInv, TypeOK
<1>4. CallInv'
  <2> SUFFICES ASSUME NEW u \in Thread, (call[u] # Idle)', (call[u].child # 0)'
               PROVE  /\ Means(call[u].pid, call[u].child)'
                      /\ Unreaped(call[u].child)' => /\ Told(call[u].seen, call[u].child)'
                                                     /\ call'[u].next = 4 => call'[u].seen.info # 0
    BY DEF CallInv
  <2>1. CASE u = t
    BY <1>3, <2>1 DEF Means, Told, Unreaped, KernelKept
  <2>2. CASE u # t
    BY <1>1, <1>3, <2>2, CallKept DEF KernelKept
  <2> QED  BY <2>1, <2>2
<1>5. ObjectInv'
  BY <1>1, ObjectKept DEF ObjectInv, Exists, KernelKept
<1>6. NoRunawayChild'
  <2> SUFFICES ASSUME NEW j \in ours', ~crashed', state'[j] = "runs"
               PROVE  \/ \E o \in Object : (Exists(o) /\ object[o].child = j /\ object[o].weSpawnedThis)'
                      \/ \E u \in Thread : (call[u].pc = "read" /\ call[u].child = j)'
    BY DEF NoRunawayChild
  <2>1. j \in ours /\ state[j] = "runs" /\ ~crashed /\ j # 0
    BY ProcsType DEF KernelKept, IInv, TypeOK
  <2>2. CASE \E o \in Object : Exists(o) /\ object[o].child = j /\ object[o].weSpawnedThis
    BY <2>2 DEF Exists
  <2>3. CASE \E u \in Thread : call[u].pc = "read" /\ call[u].child = j
    BY <1>3, <2>1, <2>3
  <2> QED  BY <2>1, <2>2, <2>3 DEF IInv, NoRunawayChild
<1> QED  BY <1>1, <1>2, <1>4, <1>5, <1>6 DEF IInv

\* The creation of an object for a process looks at the table.
LEMMA ObserveInv ==
  ASSUME IInv, NEW t \in Thread, NEW p \in Pid \cup {0}, EFProcessCreateWithProcessIdentifier(t, p)
  PROVE  IInv'
<1> DEFINE c == Creating(p, 0)
<1>1. c \in Calls /\ c.child = 0
  <2>1. p \in Pid
    BY DEF EFProcessCreateWithProcessIdentifier
  <2> QED  BY <2>1 DEF Creating, Calls, Unread, Seen
<1>2. KernelKept /\ UNCHANGED <<object, hits, crashed>> /\ call' = [call EXCEPT ![t] = c] /\ call[t].pc # "read"
  BY DEF EFProcessCreateWithProcessIdentifier, Go, Idle
<1> HIDE DEF c
<1> QED  BY <1>1, <1>2, CreationStep DEF IInv, TypeOK

\* It reads one field more.
LEMMA ReadFieldInv ==
  ASSUME IInv, NEW t \in Thread, ReadField(t)
  PROVE  IInv'
<1> DEFINE k == call[t]
<1>1. PICK i \in Answers(k.pid) :
         call' = [call EXCEPT ![t] = [k EXCEPT !.seen[Fields[k.next]] = i, !.next = @ + 1]]
  BY DEF ReadField, Go
<1> DEFINE c == [k EXCEPT !.seen[Fields[k.next]] = i, !.next = @ + 1]
<1>2. /\ KernelKept /\ UNCHANGED <<object, hits, crashed>>
      /\ k.pc = "read" /\ k.next <= 3 /\ (k.next = 3 => k.seen.info # 0)
  BY DEF ReadField, Reading, Fields
<1>3. /\ k \in Calls /\ k # Idle /\ k.next \in 1..3 /\ k.seen \in Seen
      /\ k.pid \in Pid /\ k.child \in Procs \cup {0}
  BY <1>2 DEF IInv, TypeOK, Calls, Idle
<1>4. /\ c.pc = "read" /\ c.pid = k.pid /\ c.child = k.child /\ c.next = k.next + 1
      /\ c.seen = [k.seen EXCEPT ![Fields[k.next]] = i]
  BY <1>3 DEF Calls, Idle
<1>5. i \in Int
  BY <1>3, ProcsType DEF Answers, At, IInv, TypeOK
<1>6. /\ c.seen \in Seen
      /\ k.next = 1 => c.seen.groups = i /\ c.seen.info = k.seen.info /\ c.seen.args = k.seen.args
      /\ k.next = 2 => c.seen.groups = k.seen.groups /\ c.seen.info = i /\ c.seen.args = k.seen.args
      /\ k.next = 3 => c.seen.groups = k.seen.groups /\ c.seen.info = k.seen.info /\ c.seen.args = i
  BY <1>3, <1>4, <1>5 DEF Fields, Seen
<1>7. c \in Calls
  <2> DEFINE s == [k.seen EXCEPT ![Fields[k.next]] = i]
  <2>1. c = [pc |-> "read", pid |-> k.pid, child |-> k.child, next |-> k.next + 1, seen |-> s]
    <3>1. k \in [pc : {"read"}, pid : Pid, child : Procs \cup {0}, next : 1..4, seen : Seen]
      BY <1>3 DEF Calls
    <3>2. c = [k EXCEPT !.seen = s, !.next = k.next + 1]
      BY <3>1
    <3> HIDE DEF c, s, k
    <3> QED  BY <3>1, <3>2
  <2>2. s \in Seen
    BY <1>4, <1>6
  <2> HIDE DEF s, c
  <2> QED  BY <1>3, <2>1, <2>2 DEF Calls
<1>8. ASSUME k.child # 0
      PROVE  /\ Means(k.pid, k.child)
             /\ Unreaped(k.child) => Told(c.seen, k.child) /\ (c.next = 4 => c.seen.info # 0)
  <2>1. Means(k.pid, k.child) /\ (Unreaped(k.child) => Told(k.seen, k.child))
    BY <1>3, <1>8 DEF IInv, CallInv
  <2>2. ASSUME Unreaped(k.child) PROVE i \in {0, k.child}
    BY <2>1, <2>2, ProcsType DEF Means, Answers, At
  <2>3. c.next = 4 => k.next = 3
    BY <1>3, <1>4
  <2> QED  BY <1>2, <1>3, <1>6, <2>1, <2>2, <2>3 DEF Told
<1> HIDE DEF c
<1> QED  BY <1>1, <1>2, <1>4, <1>7, <1>8, CreationStep DEF IInv, TypeOK, c

\* A creation fails: an observer gets NULL, and a spawning function crashes
\* storing through it.
LEMMA CreationFailsInv ==
  ASSUME IInv, ~crashed, NEW t \in Thread, CreationFails(t)
  PROVE  IInv'
<1>1. /\ KernelKept /\ UNCHANGED <<object, hits>> /\ call' = [call EXCEPT ![t] = Idle]
      /\ crashed' = (call[t].child # 0)
  BY DEF CreationFails, Go
<1>2. Idle \in Calls
  BY DEF Calls
<1> QED  BY <1>1, <1>2, CreationStep

\* A creation ends with an object that describes the process it has read of.
LEMMA BuildInv ==
  ASSUME IInv, NEW t \in Thread, NEW o \in Object, Build(t, o)
  PROVE  IInv'
<1> DEFINE k == call[t]
           new == [pid |-> k.pid, weSpawnedThis |-> k.child # 0, child |-> k.child,
                   seen |-> IF k.child # 0 THEN k.seen ELSE Unread]
<1>1. /\ k.pc = "read" /\ k.next > 3 /\ ~Exists(o) /\ object' = [object EXCEPT ![o] = new]
      /\ call' = [call EXCEPT ![t] = Idle] /\ KernelKept /\ UNCHANGED <<hits, crashed>>
  BY DEF Build, Fill, Go, Fields
<1>2. /\ k \in Calls /\ k # Idle /\ k.next = 4 /\ k.seen \in Seen
      /\ k.pid \in Pid /\ k.child \in Procs \cup {0}
  BY <1>1 DEF IInv, TypeOK, Calls, Idle
<1>3. /\ new \in Objects /\ new # NoObject /\ new.pid = k.pid /\ new.child = k.child
      /\ new.weSpawnedThis = (k.child # 0) /\ (k.child # 0 => new.seen = k.seen)
  <2>1. new \in [pid : Pid, weSpawnedThis : BOOLEAN, child : Procs \cup {0}, seen : Seen]
    BY <1>2 DEF Seen, Unread
  <2>2. "seen" \in DOMAIN new /\ "seen" \notin DOMAIN NoObject
    BY DEF NoObject
  <2> QED  BY <2>1, <2>2 DEF Objects
<1> HIDE DEF new
<1>4. Kept /\ KernelTypes /\ KernelInv'
  BY <1>1, KeptKernel DEF IInv, KernelKept
<1>5. Idle \in Calls
  BY DEF Calls
<1>6. TypeOK' /\ StrangersSpared'
  BY <1>1, <1>3, <1>4, <1>5, SparedKept DEF IInv, TypeOK, KernelTypes, KernelKept
<1>7. CallInv'
  <2>1. \A u \in Thread : (call[u] # Idle)' => call'[u] = call[u]
    BY <1>1 DEF IInv, TypeOK
  <2> QED  BY <1>1, <1>4, <2>1, CallKept DEF CallInv, KernelKept
<1>8. ObjectInv'
  <2> SUFFICES ASSUME NEW q \in Object, Exists(q)'
               PROVE  /\ object'[q].weSpawnedThis <=> object'[q].child # 0
                      /\ object'[q].child # 0 =>
                            /\ Means(object[q].pid, object[q].child)'
                            /\ Unreaped(object[q].child)' => /\ Told(object[q].seen, object[q].child)'
                                                             /\ object'[q].seen.info # 0
    BY DEF ObjectInv
  <2>1. CASE q = o
    <3>1. object'[q] = new
      BY <1>1, <2>1 DEF IInv, TypeOK
    <3>2. k.child # 0 => /\ Means(k.pid, k.child)
                         /\ Unreaped(k.child) => Told(k.seen, k.child) /\ k.seen.info # 0
      BY <1>2 DEF IInv, CallInv
    <3>3. CASE k.child = 0
      BY <1>3, <3>1, <3>3
    <3>4. CASE k.child # 0
      <4>1. /\ object'[q].pid = k.pid /\ object'[q].child = k.child /\ object'[q].seen = k.seen
            /\ object'[q].weSpawnedThis = TRUE
        BY <1>3, <3>1, <3>4
      <4>2. at' = at /\ state' = state /\ ours' = ours
        BY <1>1 DEF KernelKept
      <4> QED  BY <3>2, <3>4, <4>1, <4>2 DEF Means, Told, Unreaped
    <3> QED  BY <3>3, <3>4
  <2>2. CASE q # o
    <3>1. object'[q] = object[q]
      BY <1>1, <2>2 DEF IInv, TypeOK
    <3> QED  BY <1>1, <1>4, <3>1, ObjectKept DEF Exists, KernelKept
  <2> QED  BY <2>1, <2>2
<1>9. NoRunawayChild'
  <2> SUFFICES ASSUME NEW j \in ours', ~crashed', state'[j] = "runs"
               PROVE  \/ \E q \in Object : (Exists(q) /\ object[q].child = j /\ object[q].weSpawnedThis)'
                      \/ \E u \in Thread : (call[u].pc = "read" /\ call[u].child = j)'
    BY DEF NoRunawayChild
  <2>1. j \in ours /\ state[j] = "runs" /\ ~crashed /\ j # 0
    BY <1>1, ProcsType DEF KernelKept, IInv, TypeOK
  <2>2. object'[o] = new /\ \A q \in Object \ {o} : object'[q] = object[q]
    BY <1>1 DEF IInv, TypeOK
  <2>3. CASE \E q \in Object : Exists(q) /\ object[q].child = j /\ object[q].weSpawnedThis
    BY <1>1, <2>2, <2>3 DEF Exists
  <2>4. CASE \E u \in Thread : call[u].pc = "read" /\ call[u].child = j
    <3>1. PICK u \in Thread : call[u].pc = "read" /\ call[u].child = j
      BY <2>4
    <3>2. CASE u = t
      BY <1>3, <2>1, <2>2, <3>1, <3>2 DEF Exists
    <3>3. CASE u # t
      BY <1>1, <3>1, <3>3 DEF IInv, TypeOK
    <3> QED  BY <3>2, <3>3
  <2> QED  BY <2>1, <2>3, <2>4 DEF IInv, NoRunawayChild
<1> QED  BY <1>4, <1>6, <1>7, <1>8, <1>9 DEF IInv

\* A step in which no object or creation changes: a signal or a wait.
LEMMA SignalStep ==
  ASSUME IInv, UNCHANGED <<ours, object, call, crashed>>, Kept, KernelTypes, KernelInv',
         \A j \in Procs : state'[j] = "runs" => state[j] = "runs",
         hits' \subseteq hits \cup {h \in [child : Procs, hit : Procs] : state[h.child] = "gone"}
  PROVE  IInv'
<1>1. TypeOK' /\ StrangersSpared'
  BY SparedKept DEF IInv, TypeOK, KernelTypes
<1>2. CallInv'
  BY CallKept DEF CallInv
<1>3. ObjectInv'
  BY ObjectKept DEF ObjectInv, Exists
<1>4. NoRunawayChild'
  BY DEF IInv, NoRunawayChild, TypeOK, Exists
<1> QED  BY <1>1, <1>2, <1>3, <1>4 DEF IInv

\* A signal reaches the process that the object is of, or none.
LEMMA SendSignalInv ==
  ASSUME IInv, NEW o \in Object, EFProcessSendSignal(o)
  PROVE  IInv'
<1> DEFINE i == at[object[o].pid]
<1>1. /\ Exists(o) /\ Kills(i) /\ Noted(o, i) /\ UNCHANGED <<ours, object, call, crashed>>
  BY DEF EFProcessSendSignal
<1>2. Kept /\ KernelTypes /\ KernelInv' /\ \A j \in Procs : state'[j] = "runs" => state[j] = "runs"
  <2>1. i \in Procs \cup {0}
    BY <1>1 DEF IInv, TypeOK, Objects, Exists
  <2> HIDE DEF i
  <2> QED  BY <1>1, <2>1, KillsKernel DEF IInv
<1>3. hits' \subseteq hits \cup {h \in [child : Procs, hit : Procs] : state[h.child] = "gone"}
  BY <1>1, NotedSpared
<1> QED  BY <1>1, <1>2, <1>3, SignalStep

\* Waiting reaps a child of ours.
LEMMA WaitPIDInv ==
  ASSUME IInv, NEW o \in Object, EFProcessWaitPID(o)
  PROVE  IInv'
<1> DEFINE i == at[object[o].pid]
<1>1. i \in ours /\ Reap(i) /\ UNCHANGED <<ours, object, call, hits, crashed>>
  BY DEF EFProcessWaitPID
<1>2. i \in Procs
  BY <1>1 DEF IInv, TypeOK
<1> HIDE DEF i
<1>3. /\ Kept /\ KernelTypes /\ KernelInv' /\ state'[i] = "gone"
      /\ \A j \in Procs \ {i} : state'[j] = state[j]
  BY <1>1, <1>2, ReapKernel DEF IInv
<1> QED  BY <1>1, <1>3, SignalStep

\* The object goes.
LEMMA DeinitInv ==
  ASSUME IInv, NEW o \in Object, EFProcessDeinit(o)
  PROVE  IInv'
<1> DEFINE i == at[object[o].pid]
           c == object[o].child
<1>1. /\ Exists(o) /\ object' = [object EXCEPT ![o] = NoObject] /\ UNCHANGED <<call, crashed, ours>>
      /\ IF object[o].weSpawnedThis THEN Kills(i) /\ Noted(o, i)
                                    ELSE UNCHANGED <<at, state, hits>>
  BY DEF EFProcessDeinit, KernelKept
<1>2. object[o].weSpawnedThis <=> c # 0
  BY <1>1 DEF IInv, ObjectInv
<1>3. c # 0 => Means(object[o].pid, c) /\ c \in Procs /\ object[o].pid \in Pid
  BY <1>1 DEF IInv, ObjectInv, TypeOK, Means
<1>4. /\ Kept /\ KernelTypes /\ KernelInv'
      /\ \A j \in Procs : state'[j] = "runs" => state[j] = "runs"
      /\ c # 0 => state'[c] # "runs"
  <2>1. CASE c # 0
    <3>1. i \in Procs \cup {0} /\ Kills(i)
      BY <1>1, <1>2, <1>3, <2>1 DEF IInv, TypeOK
    <3> HIDE DEF i
    <3>2. /\ Kept /\ KernelTypes /\ KernelInv' /\ (i # 0 => state'[i] # "runs")
          /\ \A j \in Procs : state'[j] = "runs" => state[j] = "runs"
      BY <1>1, <3>1, KillsKernel DEF IInv
    <3>3. state[c] = "runs" => i = c
      BY <1>3, <2>1 DEF Means, Unreaped, i
    <3>4. state'[c] # "runs"
      BY <1>3, <2>1, <3>2, <3>3, ProcsType
    <3> QED  BY <3>2, <3>4
  <2>2. CASE c = 0
    BY <1>1, <1>2, <2>2, KeptKernel DEF IInv
  <2> QED  BY <2>1, <2>2
<1>5. hits' \subseteq hits \cup {h \in [child : Procs, hit : Procs] : state[h.child] = "gone"}
  BY <1>1, NotedSpared
<1>6. TypeOK' /\ StrangersSpared'
  <2>1. NoObject \in Objects
    BY DEF Objects
  <2> QED  BY <1>1, <1>4, <1>5, <2>1, SparedKept DEF IInv, TypeOK, KernelTypes
<1>7. CallInv'
  BY <1>1, <1>4, CallKept DEF CallInv
<1>8. ObjectInv'
  <2>1. \A q \in Object : Exists(q)' => object'[q] = object[q] /\ Exists(q)
    BY <1>1 DEF Exists, IInv, TypeOK
  <2> QED  BY <1>1, <1>4, <2>1, ObjectKept DEF ObjectInv
<1>9. NoRunawayChild'
  <2> SUFFICES ASSUME NEW j \in ours', ~crashed', state'[j] = "runs"
               PROVE  \/ \E q \in Object : (Exists(q) /\ object[q].child = j /\ object[q].weSpawnedThis)'
                      \/ \E u \in Thread : (call[u].pc = "read" /\ call[u].child = j)'
    BY DEF NoRunawayChild
  <2>1. j \in ours /\ j \in Procs /\ state[j] = "runs" /\ ~crashed /\ j # 0 /\ j # c
    BY <1>1, <1>4, ProcsType DEF IInv, TypeOK
  <2>2. CASE \E q \in Object : Exists(q) /\ object[q].child = j /\ object[q].weSpawnedThis
    BY <1>1, <2>1, <2>2 DEF Exists, IInv, TypeOK
  <2>3. CASE \E u \in Thread : call[u].pc = "read" /\ call[u].child = j
    BY <1>1, <2>3
  <2> QED  BY <2>1, <2>2, <2>3 DEF IInv, NoRunawayChild
<1> QED  BY <1>4, <1>6, <1>7, <1>8, <1>9 DEF IInv

(***************************************************************************)
(* The invariant and what it implies                                       *)
(***************************************************************************)

\* The invariant holds at the start.
LEMMA InitInv == Init => IInv
<1> SUFFICES ASSUME Init PROVE IInv  OBVIOUS
<1>1. TypeOK
  BY DEF Init, TypeOK, Calls, Objects
<1>2. KernelInv /\ CallInv
  BY DEF Init, KernelInv, CallInv
<1>3. ObjectInv /\ StrangersSpared /\ NoRunawayChild
  BY DEF Init, ObjectInv, StrangersSpared, NoRunawayChild, Exists
<1> QED  BY <1>1, <1>2, <1>3 DEF IInv

\* Every step keeps it.
LEMMA StepInv == IInv /\ [Next]_vars => IInv'
<1> SUFFICES ASSUME IInv, [Next]_vars PROVE IInv'  OBVIOUS
<1>1. CASE UNCHANGED vars
  <2>1. UNCHANGED <<at, state, ours, object, call, hits, crashed>>
    BY <1>1 DEF vars
  <2>2. Kept /\ KernelTypes /\ KernelInv'
    BY <2>1, KeptKernel DEF IInv
  <2> QED  BY <2>1, <2>2, SignalStep
<1>2. ASSUME NEW t \in Thread, CreateCall(t), ~crashed PROVE IInv'
  BY <1>2, SpawnInv, ObserveInv, ReadFieldInv, CreationFailsInv, BuildInv DEF CreateCall
<1> QED  BY <1>1, <1>2, OtherInv, ExitInv, SendSignalInv, WaitPIDInv, DeinitInv DEF Next

\* No signal of an owner, and no deinit, hits another process than its child
\* while the child has not been waited for.
THEOREM SignalSafety == Spec => []StrangersSpared
<1>1. IInv => StrangersSpared
  BY DEF IInv
<1> QED  BY <1>1, InitInv, StepInv, PTL DEF Spec

\* What an owner knows about its child comes from the child alone.
THEOREM DescriptionSafety == Spec => []OneDescription
<1>1. IInv => OneDescription
  BY DEF IInv, ObjectInv, OneDescription, Told
<1> QED  BY <1>1, InitInv, StepInv, PTL DEF Spec

\* A child that runs has an owner, finished or under construction.
THEOREM ChildSafety == Spec => []NoRunawayChild
<1>1. IInv => NoRunawayChild
  BY DEF IInv
<1> QED  BY <1>1, InitInv, StepInv, PTL DEF Spec
=============================================================================
