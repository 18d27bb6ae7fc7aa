------------------------------ MODULE Submasks ------------------------------
(***************************************************************************)
(* bitmask_backtracking.c: generate_submasks writes every submask of mask  *)
(* to out.  The words have Width bits (32 in the code).  A step is one     *)
(* turn of a loop.                                                         *)
(***************************************************************************)
EXTENDS Integers, FiniteSets, Bitwise

CONSTANTS Width, MaxCap

WidthAssumption == Width \in Nat \ {0, 1} /\ MaxCap \in Nat

VARIABLES mask, out_cap, out,  \* the arguments; out is a function of its written cells
          k, i, s,             \* the locals
          pc, ret

vars == <<mask, out_cap, out, k, i, s, pc, ret>>
Words == 0 .. 2^Width - 1

TypeOK == /\ mask \in Words /\ out_cap \in 0 .. MaxCap
          /\ DOMAIN out \subseteq 0 .. 2^Width /\ \A c \in DOMAIN out : out[c] \in Words
          /\ k \in 0 .. Width /\ i \in Words /\ s \in Words
          /\ pc \in {"count", "check", "generate", "done"} /\ ret \in {"none", "0", "-3"}

Init == /\ mask \in Words /\ out_cap \in 0 .. MaxCap /\ out = << >>
        /\ k = 0 /\ i = mask /\ s = mask /\ pc = "count" /\ ret = "none"

DropBit == i & (i - 1)
\* while (i != 0) { i &= (i-1); k++; }
CountBits == /\ pc = "count" /\ i # 0
             /\ i' = DropBit /\ k' = k + 1
             /\ UNCHANGED <<mask, out_cap, out, s, pc, ret>>
Counted == /\ pc = "count" /\ i = 0 /\ pc' = "check"
           /\ UNCHANGED <<mask, out_cap, out, k, i, s, ret>>

\* (size_t)(1 << k).  The shift into the sign bit gives a negative int, which
\* is converted to a size_t larger than any capacity; a shift by the width is
\* undefined and gives 1 (the shift count is taken modulo the width) or 0.
Shifts == IF k < Width - 1 THEN {2^k}
          ELSE IF k = Width - 1 THEN {MaxCap + 1} ELSE {0, 1}
Check == /\ pc = "check"
         /\ \E n \in Shifts :
              \/ out_cap < n /\ ret' = "-3" /\ pc' = "done" /\ UNCHANGED out
              \/ out_cap >= n /\ pc' = "generate" /\ out' = [c \in {0} |-> 0] /\ UNCHANGED ret
         /\ UNCHANGED <<mask, out_cap, k, i, s>>

idx == Cardinality(DOMAIN out)
NextSubmask == (s - 1) & mask
Generate == /\ pc = "generate" /\ s # 0
            /\ out' = [c \in 0 .. idx |-> IF c = idx THEN s ELSE out[c]]
            /\ s' = NextSubmask
            /\ UNCHANGED <<mask, out_cap, k, i, pc, ret>>
Generated == /\ pc = "generate" /\ s = 0 /\ pc' = "done" /\ ret' = "0"
             /\ UNCHANGED <<mask, out_cap, out, k, i, s>>

Next == \/ CountBits \/ Counted \/ Check \/ Generate \/ Generated
        \/ pc = "done" /\ UNCHANGED vars
Spec == Init /\ [][Next]_vars
-----------------------------------------------------------------------------
Submask == {w \in Words : w & mask = w}

\* "Generate every submask of mask, including 0 and mask", none twice: on
\* success the cells written hold all submasks and each one once.
AllOnce == ret = "0" => /\ {out[c] : c \in DOMAIN out} = Submask
                        /\ idx = Cardinality(Submask)

\* "Return -3 if out_cap is too small": so it is while 1 << k (line 49) fits an
\* int.  With one bit of mask clear the shift makes a number that no capacity
\* reaches, and the call fails however large out_cap is; with none clear the
\* shift is undefined, only an empty out is refused, and the submasks are
\* written whether or not there is room.  Nothing is written past out_cap but then.
RespectsCapacity ==
  LET clear == {b \in 0 .. Width - 1 : 2^b & mask = 0} IN
  /\ idx <= out_cap \/ out = << >> \/ clear = {}
  /\ ret = "-3" => \/ out_cap < Cardinality(Submask)
                   \/ Cardinality(clear) = 1
  /\ ret = "0" => Cardinality(clear) # 1
  /\ clear = {} /\ ret = "-3" => out_cap = 0
=============================================================================
