------------------------------ MODULE ParseInt ------------------------------
(***************************************************************************)
(* interger_parser_with_overflow_checks.c: parse_i32.  A string is the     *)
(* sequence of its characters; a digit is its value, and everything that   *)
(* is neither a digit nor a sign is one character.  A step is one turn of  *)
(* the loop, which runs from the end of the string to its second           *)
(* character.  The limits stand for INT32_MAX and INT32_MIN; rv does not   *)
(* overflow, since the strings have far fewer digits than an int64_t.      *)
(***************************************************************************)
EXTENDS Integers, Sequences

CONSTANTS Digits, MaxLen,    \* the digits used, the longest string
          INT_MAX

LimitAssumption == Digits \subseteq 0 .. 9 /\ MaxLen \in Nat /\ INT_MAX \in Nat

INT_MIN == -INT_MAX - 1
Plus == 10
Minus == 11
Other == 12
NUL == 13
Chars == Digits \cup {Plus, Minus, Other}
Strings == UNION {[1 .. n -> Chars] : n \in 0 .. MaxLen}

VARIABLES str, i, rv, multiplier, pc, ret, out

vars == <<str, i, rv, multiplier, pc, ret, out>>

\* s[j], of which the last is the terminating zero.
At(j) == IF j = Len(str) THEN NUL ELSE str[j + 1]
what_digit(c) == IF c \in 0 .. 9 THEN c ELSE -1
Signed == At(0) \in {Plus, Minus}

TypeOK == /\ str \in Strings /\ i \in 0 .. MaxLen
          /\ rv \in Nat /\ multiplier \in Nat
          /\ pc \in {"sign", "loop", "done"} /\ ret \in {"none", "0", "-3", "-4", "-5"}
          /\ out \in INT_MIN .. INT_MAX

Init == /\ str \in Strings /\ i = 0 /\ rv = 0 /\ multiplier = 1
        /\ pc = "sign" /\ ret = "none" /\ out = 0

Fail(code) == pc' = "done" /\ ret' = code /\ UNCHANGED <<i, rv, multiplier, out>>

Sign == /\ pc = "sign" /\ UNCHANGED str
        /\ \/ ~Signed /\ what_digit(At(0)) < 0 /\ Fail("-3")
           \/ Signed /\ At(1) = NUL /\ Fail("-3")
           \/ /\ (Signed /\ At(1) # NUL) \/ what_digit(At(0)) >= 0
              /\ i' = (IF Signed THEN Len(str) - 1 ELSE Len(str))
              /\ pc' = "loop" /\ UNCHANGED <<rv, multiplier, ret, out>>

Digit == /\ pc = "loop" /\ i > 0 /\ UNCHANGED str
         /\ \/ what_digit(At(i)) < 0 /\ Fail("-4")
            \/ /\ what_digit(At(i)) >= 0
               /\ rv' = rv + what_digit(At(i)) * multiplier
               /\ multiplier' = multiplier * 10 /\ i' = i - 1
               /\ UNCHANGED <<pc, ret, out>>

InRange(n) == n <= INT_MAX /\ n >= INT_MIN
Finish == /\ pc = "loop" /\ i = 0 /\ UNCHANGED str
          /\ \/ ~InRange(rv) /\ Fail("-5")
             \/ /\ InRange(rv) /\ pc' = "done" /\ ret' = "0"
                /\ out' = rv
                /\ UNCHANGED <<i, rv, multiplier>>

Next == Sign \/ Digit \/ Finish \/ (pc = "done" /\ UNCHANGED vars)
Spec == Init /\ [][Next]_vars
-----------------------------------------------------------------------------
\* The reference: an optional sign, then one digit or more; the value of the
\* digits by place.
DigitsOf == IF Signed THEN Tail(str) ELSE str
Numeral == DigitsOf # <<>> /\ \A j \in DOMAIN DigitsOf : DigitsOf[j] \in 0 .. 9
Magnitude == LET val[j \in 0 .. Len(DigitsOf)] ==
                   IF j = 0 THEN 0 ELSE 10 * val[j - 1] + DigitsOf[j]
             IN  val[Len(DigitsOf)]

\* What becomes of each string.  With a sign, a numeral up to INT32_MAX is
\* accepted, a larger one answered -5, and a wrong character -4 wherever it
\* stands.  The code departs from its requirements in two ways: the value of a
\* numeral with a minus is its magnitude (negative is set and never read), so
\* that line 15's -2147483648 is refused; and no numeral without a sign, like
\* line 14's, is accepted, since the loop starts at the terminating zero.
ParsedAs == CASE ~Signed /\ (str = <<>> \/ str[1] \notin 0 .. 9) -> "-3"
              [] Signed /\ DigitsOf = <<>> -> "-3"
              [] Signed /\ Numeral /\ Magnitude <= INT_MAX -> "0"
              [] Signed /\ Numeral /\ Magnitude > INT_MAX -> "-5"
              [] OTHER -> "-4"
\* "Do not modify *out_value on failure."
Parsed == pc = "done" => ret = ParsedAs /\ out = IF ret = "0" THEN Magnitude ELSE 0
=============================================================================
