------------------------------ MODULE KVStore ------------------------------
(***************************************************************************)
(* What the log-structured store promises: a map from keys to values.      *)
(* Cleaning is not part of it; it must not show.                           *)
(***************************************************************************)
EXTENDS Integers

CONSTANTS Threads, Keys, Values

VARIABLES kv,   \* the value of each key, -1 when there is none
          got   \* per thread, the answer of its last get

Init == kv = [k \in Keys |-> -1] /\ got = [t \in Threads |-> 0]

Put(k, v) == kv' = [kv EXCEPT ![k] = v] /\ UNCHANGED got
Get(t, k) == got' = [got EXCEPT ![t] = kv[k]] /\ UNCHANGED kv

Next == \/ \E k \in Keys, v \in Values : Put(k, v)
        \/ \E t \in Threads, k \in Keys : Get(t, k)

Spec == Init /\ [][Next]_<<kv, got>>
=============================================================================
