--------------------------- MODULE ApproxCounter ---------------------------
(***************************************************************************)
(* 29_LockedDataStructures/approx_counter.c and its main.c: each thread    *)
(* counts locally and passes its count on to the global value when it      *)
(* reaches the threshold.  counter_init leaves the local counts as malloc  *)
(* returned them.                                                          *)
(***************************************************************************)
EXTENDS Integers, Functions

CONSTANTS Threads, threshold,
          Increments,        \* PER_THREAD_INCREMENT
          Leftovers          \* what malloc'ed memory may hold

CounterAssumption == /\ threshold \in Nat \ {0} /\ Increments \in Nat
                     /\ Leftovers \subseteq Int

VARIABLES value, local_value,
          pc, done,          \* per thread: location, increments made
          start,             \* history: the local counts at the start
          got                \* what main's counter_get returned, first -1

vars == <<value, local_value, pc, done, start, got>>

TypeOK == /\ value \in Int /\ local_value \in [Threads -> Int]
          /\ pc \in [Threads -> {"loop", "flush", "reset"}]
          /\ done \in [Threads -> 0 .. Increments]
          /\ start \in [Threads -> Leftovers] /\ got \in Int

\* counter_init.
Init == /\ value = 0 /\ start \in [Threads -> Leftovers] /\ local_value = start
        /\ pc = [t \in Threads |-> "loop"] /\ done = [t \in Threads |-> 0]
        /\ got = -1

\* counter_increment: the local step, the global one with glock held, and the
\* reset of the local count after it.
Flushes(n) == n >= threshold
MutantMore(n) == n <= Increments
More(n) == n < Increments     \* the loop of increase_counter
Count(t) == /\ pc[t] = "loop" /\ More(done[t])
            /\ local_value' = [local_value EXCEPT ![t] = @ + 1]
            /\ done' = [done EXCEPT ![t] = @ + 1]
            /\ pc' = [pc EXCEPT ![t] = IF Flushes(local_value[t] + 1) THEN "flush" ELSE "loop"]
            /\ UNCHANGED <<value, start, got>>
Flush(t) == /\ pc[t] = "flush" /\ value' = value + local_value[t]
            /\ pc' = [pc EXCEPT ![t] = "reset"]
            /\ UNCHANGED <<local_value, done, start, got>>
Kept(n) == 0
Reset(t) == /\ pc[t] = "reset"
            /\ local_value' = [local_value EXCEPT ![t] = Kept(@)]
            /\ pc' = [pc EXCEPT ![t] = "loop"]
            /\ UNCHANGED <<value, done, start, got>>

\* main has joined the threads; it prints counter_get and ends.
Joined == \A t \in Threads : pc[t] = "loop" /\ done[t] = Increments
Thread(t) == Count(t) \/ Flush(t) \/ Reset(t)
counter_get == /\ Joined /\ got = -1 /\ got' = value
               /\ UNCHANGED <<value, local_value, pc, done, start>>
Next == counter_get \/ \E t \in Threads : Thread(t)
Spec == Init /\ [][Next]_vars
-----------------------------------------------------------------------------
\* No increment is lost or counted twice: the global value and what the
\* threads have not passed on yet make up the increments, on top of what the
\* local counts held at the start.
Unpassed(t) == IF pc[t] = "reset" THEN 0 ELSE local_value[t]
NoneLost == value + SumFunction([t \in Threads |-> Unpassed(t)])
              = SumFunction(done) + SumFunction(start)

\* When the local counts start as 0, a thread keeps less than the threshold to
\* itself between two calls, so that what main prints is at most that much short
\* for each thread, and never too much.
BoundedLag == (\A t \in Threads : start[t] = 0) =>
  /\ \A t \in Threads : pc[t] = "loop" => local_value[t] \in 0 .. threshold - 1
  /\ got # -1 => \E lag \in [Threads -> 0 .. threshold - 1] :
                   got = SumFunction(done) - SumFunction(lag)
=============================================================================
