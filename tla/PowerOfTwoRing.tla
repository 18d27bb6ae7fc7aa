--------------------------- MODULE PowerOfTwoRing ---------------------------
(***************************************************************************)
(* power_of_two_ring_buffer.c: a ring with counters that are never reset,  *)
(* used by one task.  Here tail is the write counter and head the read     *)
(* counter; both are uint32_t and wrap.                                    *)
(***************************************************************************)
EXTENDS Integers

CONSTANTS Values, RingCap,  \* RING_CAP
          Modulus           \* 2^32

WrapAssumption == /\ RingCap \in Nat \ {0} /\ Modulus \in Nat
                  /\ RingCap < Modulus /\ Modulus % RingCap = 0

VARIABLES head, tail, entries,  \* struct ring
          result                \* what the last call returned

vars == <<head, tail, entries, result>>

TypeOK == /\ head \in 0 .. Modulus - 1 /\ tail \in 0 .. Modulus - 1
          /\ entries \in [0 .. RingCap - 1 -> Values]
          /\ result["user"] \in Values \cup {"none", "ok", "full", "empty"}

Init == /\ head = 0 /\ tail = 0 /\ entries \in [0 .. RingCap - 1 -> Values]
        /\ result = [c \in {"user"} |-> "none"]

ring_empty == head = tail
ring_size == (tail - head) % Modulus
ring_full == ring_size = RingCap
Masked(i) == i % RingCap
Inc(i) == (i + 1) % Modulus

ring_push(v) ==
  \/ ring_full /\ result' = [result EXCEPT !["user"] = "full"] /\ UNCHANGED <<head, tail, entries>>
  \/ /\ ~ring_full
     /\ entries' = [entries EXCEPT ![Masked(tail)] = v]
     /\ tail' = Inc(tail)
     /\ result' = [result EXCEPT !["user"] = "ok"]
     /\ UNCHANGED head

ring_pop ==
  \/ ring_empty /\ result' = [result EXCEPT !["user"] = "empty"] /\ UNCHANGED <<head, tail, entries>>
  \/ /\ ~ring_empty
     /\ result' = [result EXCEPT !["user"] = entries[Masked(head)]]
     /\ head' = Inc(head)
     /\ UNCHANGED <<tail, entries>>

Next == (\E v \in Values : ring_push(v)) \/ ring_pop

Spec == Init /\ [][Next]_vars
-----------------------------------------------------------------------------
Fifo == INSTANCE BoundedFifo WITH
          Producers <- {"user"}, Consumers <- {"user"}, Capacity <- RingCap,
          items <- [i \in 1 .. (tail - head) % Modulus |-> entries[((head + i - 1) % Modulus) % RingCap]],
          closed <- FALSE

\* A step of the ring is one of a bounded FIFO queue of RING_CAP entries.
FifoStep == [Fifo!Next]_(Fifo!vars)
=============================================================================
