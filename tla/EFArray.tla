------------------------------- MODULE EFArray ------------------------------
(***************************************************************************)
(* The growable array of EFArray.c.  An array has a buffer of              *)
(* itemsCapacity slots, of which the first Len(items) are in use.  Through *)
(* its callbacks it retains the values it stores and releases them when    *)
(* they leave; an array with the default callbacks does neither.  Calls on *)
(* one array are not concurrent.  A call that stores one value is one      *)
(* action; a call that stores several (creation, copy,                     *)
(* EFArrayAppendValuesOfArray) is a sequence of steps, each of which may   *)
(* fail, with the call under way in the variable call.                     *)
(***************************************************************************)
EXTENDS Integers, Sequences, FiniteSets

CONSTANTS Array,      \* array objects
          Val,        \* pointers that are stored, never NULL
          Growth,     \* slots added by one reallocation (5)
          Capacities, \* capacities asked for, negative ones included
          MaxCount    \* bound on the length of an array

ASSUME ArrayAssumption == /\ IsFiniteSet(Array)
                          /\ Growth \in Nat \ {0}
                          /\ MaxCount \in Nat
                          /\ Capacities \subseteq Int

VARIABLES exists,     \* exists[a]: a has been created and not destroyed
          isMutable,  \* the field of that name
          callbacks,  \* "object" (retain and release) or "default" (neither)
          capacity,   \* itemsCapacity
          items,      \* the stored values; Len(items[a]) is itemsCount
          retained,   \* retained[v]: retain callbacks less release callbacks for v
          call        \* the call that is storing several values, if any

vars == <<exists, isMutable, callbacks, capacity, items, retained, call>>

Idle == [kind |-> "none"]

Callbacks == {"object", "default"}

Init == /\ exists = [a \in Array |-> FALSE]
        /\ isMutable = [a \in Array |-> FALSE]
        /\ callbacks = [a \in Array |-> "default"]
        /\ capacity = [a \in Array |-> 0]
        /\ items = [a \in Array |-> <<>>]
        /\ retained = [v \in Val |-> 0]
        /\ call = Idle

Count(a) == Len(items[a])
Lists(n) == UNION {[1..m -> Val] : m \in 0..n}
Copies(v, s) == Cardinality({i \in DOMAIN s : s[i] = v})

Retains(a) == callbacks[a] = "object"

Retain(a, v) == retained' = IF Retains(a) THEN [retained EXCEPT ![v] = @ + 1] ELSE retained
ReleaseAll(a, s) == retained' = IF Retains(a)
                                THEN [v \in Val |-> retained[v] - Copies(v, s)]
                                ELSE retained

(***************************************************************************)
(* __EFArrayResizeIfNeededForOneMoreIndex with itemsCount = n              *)
(***************************************************************************)

\* It succeeds: there was room, or the buffer has grown.  A capacity that is
\* still negative is a huge size to realloc, which refuses it.
Resize(a, n) == \/ capacity[a] >= n + 1 /\ UNCHANGED capacity
                \/ /\ capacity[a] < n + 1
                   /\ capacity[a] + Growth >= 0
                   /\ capacity' = [capacity EXCEPT ![a] = @ + Growth]

ResizeMayFail(a, n) == capacity[a] < n + 1

(***************************************************************************)
(* Calls that store or remove one value, or remove a range                 *)
(***************************************************************************)

\* A negative capacity takes the callbacks k asked for away; NULL is "default".
EFArrayCreateMutable(a, k, c) ==
    /\ call = Idle
    /\ ~exists[a]
    /\ exists' = [exists EXCEPT ![a] = TRUE]
    /\ isMutable' = [isMutable EXCEPT ![a] = TRUE]
    /\ callbacks' = [callbacks EXCEPT ![a] = IF c < 0 THEN "default" ELSE k]
    /\ capacity' = [capacity EXCEPT ![a] = c]
    /\ items' = [items EXCEPT ![a] = <<>>]
    /\ UNCHANGED <<retained, call>>

InsertAt(s, i, v) == SubSeq(s, 1, i) \o <<v>> \o SubSeq(s, i + 1, Len(s))
RemoveAt(s, i, n) == SubSeq(s, 1, i) \o SubSeq(s, i + n + 1, Len(s))

\* Indices are those of the code and start at 0.  EFArrayAppendValue is the
\* insertion at the end.
EFArrayInsertValueAtIndex(a, i, v) ==
    /\ call = Idle
    /\ exists[a] /\ isMutable[a] /\ Count(a) < MaxCount
    /\ i \in 0..Count(a)
    /\ Resize(a, Count(a))
    /\ Retain(a, v)
    /\ items' = [items EXCEPT ![a] = InsertAt(@, i, v)]
    /\ UNCHANGED <<exists, isMutable, callbacks, call>>

\* The retain callback refuses the value: false, after the buffer may have grown.
InsertRefused(a) ==
    /\ call = Idle
    /\ exists[a] /\ isMutable[a] /\ Retains(a)
    /\ Resize(a, Count(a))
    /\ UNCHANGED <<exists, isMutable, callbacks, items, retained, call>>

\* EFArrayRemoveValuesInRange, which removes at location until length values or
\* the rest of the array are gone; with length 1, EFArrayRemoveValueAtIndex.
EFArrayRemoveValuesInRange(a, location, length) ==
    /\ call = Idle
    /\ exists[a] /\ isMutable[a]
    /\ location \in 0..Count(a) - 1
    /\ LET n == IF length <= Count(a) - location THEN length ELSE Count(a) - location IN
       /\ ReleaseAll(a, SubSeq(items[a], location + 1, location + n))
       /\ items' = [items EXCEPT ![a] = RemoveAt(@, location, n)]
    /\ UNCHANGED <<exists, isMutable, callbacks, capacity, call>>

\* The last reference goes: __EFArrayClassDeinit releases the values.
Destroy(a) ==
    /\ call = Idle
    /\ exists[a]
    /\ exists' = [exists EXCEPT ![a] = FALSE]
    /\ ReleaseAll(a, items[a])
    /\ items' = [items EXCEPT ![a] = <<>>]
    /\ isMutable' = [isMutable EXCEPT ![a] = FALSE]
    /\ callbacks' = [callbacks EXCEPT ![a] = "default"]
    /\ capacity' = [capacity EXCEPT ![a] = 0]
    /\ UNCHANGED call

(***************************************************************************)
(* Calls that store several values.  call.values are the values to store,  *)
(* call.before the contents at the start, call.index how many are stored.  *)
(* EFArrayAppendValuesOfArray first reserves room, one growth step a round: *)
(* call.remaining counts down the values it has no room for yet, and       *)
(* call.count is the itemsCount it pretends the array has meanwhile.       *)
(***************************************************************************)

\* EFArrayCreate and __EFArrayCreateCopy fill a new array of the right size.
BeginCreate(a, kind, k, s, m) ==
    /\ call = Idle
    /\ ~exists[a]
    /\ exists' = [exists EXCEPT ![a] = TRUE]
    /\ isMutable' = [isMutable EXCEPT ![a] = TRUE]
    /\ callbacks' = [callbacks EXCEPT ![a] = k]
    /\ capacity' = [capacity EXCEPT ![a] = Len(s)]
    /\ items' = [items EXCEPT ![a] = <<>>]
    /\ call' = [kind |-> kind, dst |-> a, values |-> s, before |-> <<>>,
                index |-> 0, remaining |-> 0, count |-> 0, mutable |-> m]
    /\ UNCHANGED retained

EFArrayCreate(a, k, s) == BeginCreate(a, "create", k, s, FALSE)

EFArrayCreateCopy(a, b, m) ==
    exists[b] /\ BeginCreate(a, "copy", callbacks[b], items[b], m)

\* EFArrayAppendValuesOfArray with another array of the same callbacks.  An
\* array appended to itself is left out: the bound of the storing loop moves
\* with every store, and the loop ends only when the retain callback refuses or
\* the memory is exhausted.
EFArrayAppendValuesOfArray(a, b) ==
    /\ call = Idle
    /\ a # b
    /\ exists[a] /\ exists[b] /\ isMutable[a]
    /\ callbacks[a] = callbacks[b]
    /\ Count(a) + Count(b) <= MaxCount
    /\ call' = [kind |-> "append", dst |-> a, values |-> items[b], before |-> items[a],
                index |-> 0, remaining |-> Count(b), count |-> Count(a), mutable |-> TRUE]
    /\ UNCHANGED <<exists, isMutable, callbacks, capacity, items, retained>>

Appending == call.kind = "append"
Reserving == Appending /\ call.remaining > 0
Storing == call.kind # "none" /\ ~Reserving

\* A reservation that grows the buffer once instead of looping.
ReserveOnce ==
    /\ Reserving
    /\ Resize(call.dst, call.count)
    /\ call' = [call EXCEPT !.remaining = 0, !.count = @ + call.remaining]
    /\ UNCHANGED <<exists, isMutable, callbacks, items, retained>>

\* A round of the reservation loop that forgets to count down.
ReserveForever ==
    /\ Reserving
    /\ Resize(call.dst, call.count)
    /\ UNCHANGED <<exists, isMutable, callbacks, items, retained, call>>

Reserve ==
    /\ Reserving
    /\ Resize(call.dst, call.count)
    /\ call' = [call EXCEPT !.remaining = @ - Growth, !.count = @ + Growth]
    /\ UNCHANGED <<exists, isMutable, callbacks, items, retained>>

ReserveFails ==
    /\ Reserving
    /\ ResizeMayFail(call.dst, call.count)
    /\ call' = Idle
    /\ UNCHANGED <<exists, isMutable, callbacks, capacity, items, retained>>

\* A value is stored without its retain.
StoreUnretained ==
    LET a == call.dst  v == call.values[call.index + 1] IN
    /\ Storing
    /\ call.index < Len(call.values)
    /\ IF Appending THEN UNCHANGED capacity ELSE Resize(a, Count(a))
    /\ items' = [items EXCEPT ![a] = Append(@, v)]
    /\ call' = [call EXCEPT !.index = @ + 1]
    /\ UNCHANGED <<exists, isMutable, callbacks, retained>>

\* A loop that stores the first value again and again.
StoreFirst ==
    LET a == call.dst  v == call.values[1] IN
    /\ Storing
    /\ call.index < Len(call.values)
    /\ IF Appending THEN UNCHANGED capacity ELSE Resize(a, Count(a))
    /\ Retain(a, v)
    /\ items' = [items EXCEPT ![a] = Append(@, v)]
    /\ call' = [call EXCEPT !.index = @ + 1]
    /\ UNCHANGED <<exists, isMutable, callbacks>>

\* EFArrayAppendValue for the creating functions, which checks the room again;
\* the loop of EFArrayAppendValuesOfArray does not.
StoreNext ==
    LET a == call.dst  v == call.values[call.index + 1] IN
    /\ Storing
    /\ call.index < Len(call.values)
    /\ IF Appending THEN UNCHANGED capacity ELSE Resize(a, Count(a))
    /\ Retain(a, v)
    /\ items' = [items EXCEPT ![a] = Append(@, v)]
    /\ call' = [call EXCEPT !.index = @ + 1]
    /\ UNCHANGED <<exists, isMutable, callbacks>>

\* The retain callback refuses a value, or EFArrayCreate is given a NULL one.
\* A creating function drops its array (EFAUTOREL);
\* EFArrayAppendValuesOfArray keeps what it has stored so far.
StoreRefused ==
    LET a == call.dst IN
    /\ Storing
    /\ call.index < Len(call.values)
    /\ Retains(a) \/ call.kind = "create"
    /\ call' = Idle
    /\ \/ /\ ~Appending
          /\ exists' = [exists EXCEPT ![a] = FALSE]
          /\ ReleaseAll(a, items[a])
          /\ items' = [items EXCEPT ![a] = <<>>]
          /\ isMutable' = [isMutable EXCEPT ![a] = FALSE]
          /\ callbacks' = [callbacks EXCEPT ![a] = "default"]
          /\ capacity' = [capacity EXCEPT ![a] = 0]
       \/ /\ Appending
          /\ UNCHANGED <<exists, isMutable, callbacks, capacity, items, retained>>

Return ==
    /\ Storing
    /\ call.index = Len(call.values)
    /\ isMutable' = [isMutable EXCEPT ![call.dst] = call.mutable]
    /\ call' = Idle
    /\ UNCHANGED <<exists, callbacks, capacity, items, retained>>

(***************************************************************************)
(* The specification                                                       *)
(***************************************************************************)

StoreStep == Reserve \/ ReserveFails \/ StoreNext \/ StoreRefused \/ Return

SingleCalls == \E a \in Array :
    \/ \E k \in Callbacks, c \in Capacities : EFArrayCreateMutable(a, k, c)
    \/ \E i \in 0..MaxCount, v \in Val : EFArrayInsertValueAtIndex(a, i, v)
    \/ InsertRefused(a)
    \/ \E i, n \in 0..MaxCount : EFArrayRemoveValuesInRange(a, i, n)
    \/ Destroy(a)
    \/ \E k \in Callbacks, s \in Lists(MaxCount) : EFArrayCreate(a, k, s)
    \/ \E b \in Array, m \in BOOLEAN : EFArrayCreateCopy(a, b, m)

Next == \/ SingleCalls
        \/ \E a, b \in Array : EFArrayAppendValuesOfArray(a, b)
        \/ StoreStep

Spec == Init /\ [][Next]_vars

\* Without EFArrayAppendValuesOfArray.
SingleSpec == Init /\ [][SingleCalls \/ StoreStep]_vars

\* A call that has begun runs to its end.
FairSpec == Spec /\ WF_vars(StoreStep)

(***************************************************************************)
(* Properties                                                              *)
(***************************************************************************)

Call == [kind : {"create", "copy", "append"}, dst : Array, values : Seq(Val), before : Seq(Val),
         index : Nat, remaining : Int, count : Nat, mutable : BOOLEAN]

TypeOK == /\ exists \in [Array -> BOOLEAN]
          /\ isMutable \in [Array -> BOOLEAN]
          /\ callbacks \in [Array -> Callbacks]
          /\ capacity \in [Array -> Int]
          /\ items \in [Array -> Seq(Val)]
          /\ retained \in [Val -> Int]
          /\ call \in Call \cup {Idle}
          /\ call # Idle => exists[call.dst] /\ isMutable[call.dst] /\ call.index <= Len(call.values)

\* A value has been retained exactly as often as it is stored in arrays with
\* the object callbacks, all of them together, also after a creation or an append
\* that failed half-way; the arrays with the default callbacks (a NULL argument,
\* a negative capacity, a copy of such an array) retain and release nothing.
RetainBalance ==
    \A v \in Val : retained[v] = Cardinality({p \in Array \X (1..MaxCount) :
                        Retains(p[1]) /\ p[2] <= Count(p[1]) /\ items[p[1]][p[2]] = v})

\* What a storing call has done so far is a prefix of its values, after what
\* the array held before: nothing is reordered, duplicated or overwritten.
PrefixStored == call # Idle => items[call.dst] = call.before \o SubSeq(call.values, 1, call.index)

\* The values in use exceed the buffer by at most one growth step, and an
\* array with a negative capacity is empty: the damage a bulk append or a
\* negative capacity can do (EFArrayAppendValuesOfArray, EFArrayCreateMutable).
SlackBounded == \A a \in Array : exists[a] =>
                    IF capacity[a] < 0 THEN items[a] = <<>>
                                       ELSE Count(a) <= capacity[a] + Growth

\* Every value lies inside the buffer: what reallocating before a store is for.
\* A bulk append does not keep it; StoresInside proves it for all other calls.
WithinCapacity == \A a \in Array : exists[a] /\ items[a] # <<>> => Count(a) <= capacity[a]

\* Every storing call returns.
CallsReturn == call # Idle ~> call = Idle
=============================================================================
