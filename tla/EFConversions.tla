---------------------------- MODULE EFConversions ----------------------------
(***************************************************************************)
(* Formatting and parsing together: callers have strings made from formats *)
(* and lines parsed into numbers, and a number's description, which is     *)
(* made by the interpreter of formats, is a line that can be parsed again. *)
(***************************************************************************)
EXTENDS EFNumber, EFFormat

vars == <<formatVars, numberVars>>

Init == InitNumber /\ InitFormat

Quiet == number = None /\ line = <<>>

\* A bug: every value is cast to SInt64 and printed signed.
SignedDescription(n) == <<Directive(0, Absent, Absent, "ll", "d")>>

\* __EFNumberCopyDebugDescription: the format for a number, with its s128 cast.
DescriptionFormat(n) == <<Directive(0, Absent, Absent, "ll", IF n.s128 > SMax(64) THEN "u" ELSE "d")>>

\* What %lld and %llu print.
Printed(v) ==
    LET digit(d) == CHOOSE c \in Char : DigitOf[c] = d
        magnitude == IF v < 0 THEN -v ELSE v
        digits == IF magnitude = 0 THEN <<0>> ELSE Numeral(magnitude, 10)
    IN  (IF v < 0 THEN <<"-">> ELSE <<>>) \o [i \in DOMAIN digits |-> digit(digits[i])]

Description(n) == Printed(Cast(IF result[1].item.conv = "u" THEN UInt64 ELSE SInt64, n.s128))

\* The caller drops the number and keeps its description.
Describe == HasValue(number) /\ given # None /\ Begin(DescriptionFormat(number))
TakeDescription == /\ HasValue(number) /\ result \notin {Waiting, Null, Undefined}
                   /\ line' = Description(number)
                   /\ number' = None
                   /\ Forget /\ UNCHANGED given

Next == \/ NumberStep /\ fmt = Idle /\ UNCHANGED formatVars
        \/ (\E f \in Formats : Quiet /\ Begin(f)) /\ UNCHANGED numberVars
        \/ (Describe \/ FormatStep) /\ UNCHANGED numberVars
        \/ TakeDescription
        \/ (Quiet \/ result = Null) /\ Forget /\ UNCHANGED numberVars

\* A call under way is code of one thread, which runs.
Spec == Init /\ [][Next]_vars /\ WF_vars(FormatStep /\ UNCHANGED numberVars)

-----------------------------------------------------------------------------
(* A number that was made from a value gives that value back, and the        *)
(* description of one that is not negative parses as a number of that value, *)
(* unsigned only if it has to be; that of a negative number does not parse.  *)
RoundTrip == given # None =>
    LET v == given.value IN
    /\ number # None /\ line = <<>> => EFNumberGetValue(number) = v
    /\ line # <<>> => EFStringCreateNumber(line) =
           IF v < 0 THEN None ELSE Number(IF v > SMax(64) THEN UInt64 ELSE SInt64, v)

(* Every call returns, whatever fails on its way, unless a directive has so  *)
(* many flags that the array cannot take them: then the loop over them goes  *)
(* on forever.                                                               *)
EndlessFlags(f) == \E i \in DOMAIN f : IsDirective(f[i]) /\ f[i].flags >= SpecLimit
CallsReturn == asked # Idle /\ ~EndlessFlags(asked) ~> result # Waiting
=============================================================================
