------------------------------- MODULE IdSet -------------------------------
(***************************************************************************)
(* What is required of a sparse set: a set of at most max_active ids of a  *)
(* universe, with the answer of the last call.                             *)
(***************************************************************************)
EXTENDS Integers, FiniteSets

CONSTANTS Ids,               \* the values of a uint32_t
          Universe,          \* those that may be members
          max_active

VARIABLES active, ret

vars == <<active, ret>>

Init == active = {} /\ ret = "none"

\* "reject values outside the universe, duplicates, and capacity overflow"
Takes(v) == v \in Universe \ active /\ Cardinality(active) < max_active
Add(v) == \/ Takes(v) /\ active' = active \cup {v} /\ ret' = "0"
          \/ ~Takes(v) /\ ret' = "-1" /\ UNCHANGED active
Remove(v) == /\ active' = active \ {v}
             /\ ret' = IF v \in active THEN "0" ELSE "-1"
Contains(v) == ret' = (IF v \in active THEN "true" ELSE "false") /\ UNCHANGED active
Clear == active' = {} /\ ret' = "none"

Next == Clear \/ \E v \in Ids : Add(v) \/ Remove(v) \/ Contains(v)
Spec == Init /\ [][Next]_vars
=============================================================================
