---------------------------- MODULE BoundedFifo ----------------------------
(***************************************************************************)
(* What a bounded first-in first-out queue promises its callers.  An       *)
(* operation takes effect in one step, or refuses and says why.  The       *)
(* detailed models of the repository's queues (a blocking queue with       *)
(* condition variables, an interrupt-to-task ring, a power-of-two ring)    *)
(* implement this specification.                                           *)
(***************************************************************************)
EXTENDS Integers, Sequences

CONSTANTS Producers, Consumers,  \* the callers that push and that pop
          Values,                \* what is queued
          Capacity               \* how many values fit

VARIABLES items,   \* the queued values, oldest first
          closed,  \* no further value is accepted
          result   \* per caller, what its last completed operation returned

vars == <<items, closed, result>>

Init == /\ items = <<>>
        /\ closed = FALSE
        /\ result = [t \in Producers \cup Consumers |-> "none"]

Answer(t, r) == result' = [result EXCEPT ![t] = r]

Push(p, v) == /\ ~closed
              /\ Len(items) < Capacity
              /\ items' = Append(items, v)
              /\ Answer(p, "ok")
              /\ UNCHANGED closed

Pop(c) == /\ items # <<>>
          /\ items' = Tail(items)
          /\ Answer(c, Head(items))
          /\ UNCHANGED closed

Refuse(t) == /\ \/ t \in Producers /\ Len(items) = Capacity /\ Answer(t, "full")
                \/ t \in Consumers /\ items = <<>> /\ Answer(t, "empty")
                \/ t \in Producers /\ closed /\ Answer(t, "closed")
                \/ t \in Consumers /\ closed /\ items = <<>> /\ Answer(t, "closed")
                \/ Answer(t, "invalid")
             /\ UNCHANGED <<items, closed>>

Close == closed' = TRUE /\ UNCHANGED <<items, result>>

Next == \/ \E p \in Producers, v \in Values : Push(p, v)
        \/ \E c \in Consumers : Pop(c)
        \/ \E t \in Producers \cup Consumers : Refuse(t)
        \/ Close

Spec == Init /\ [][Next]_vars
=============================================================================
