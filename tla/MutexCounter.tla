---------------------------- MODULE MutexCounter ----------------------------
(***************************************************************************)
(* A counter behind one mutex: 29_LockedDataStructures/simple_counter.c    *)
(* with its main.c, and 27_ThreadAPI/main-race.c, in which main and one    *)
(* worker add 1 each.  A step is one access to the counter or the mutex:   *)
(* value++ is a load and a store.                                          *)
(***************************************************************************)
EXTENDS Integers, Functions

CONSTANTS Threads, Nobody,
          Loops            \* PER_THREAD_INCREMENT, and 1 for main-race.c

LoopAssumption == Loops \subseteq Nat /\ Nobody \notin Threads

VARIABLES value, glock,
          pc, tmp, done,   \* per thread: location, value loaded, increments made
          todo,            \* increments each thread is to make
          got              \* what main's counter_get returned, first -1

vars == <<value, glock, pc, tmp, done, todo, got>>

TypeOK == /\ value \in Nat /\ glock \in Threads \cup {Nobody}
          /\ pc \in [Threads -> {"loop", "load", "store", "unlock"}]
          /\ tmp \in [Threads -> Nat] /\ todo \in Loops
          /\ done \in [Threads -> 0 .. todo] /\ got \in Int

Init == /\ value = 0 /\ glock = Nobody /\ pc = [t \in Threads |-> "loop"]
        /\ tmp = [t \in Threads |-> 0] /\ done = [t \in Threads |-> 0]
        /\ todo \in Loops /\ got = -1

Goto(t, l) == pc' = [pc EXCEPT ![t] = l]
Lock(t) == /\ pc[t] = "loop" /\ done[t] < todo /\ glock = Nobody
           /\ glock' = t /\ Goto(t, "load")
           /\ UNCHANGED <<value, tmp, done, todo, got>>
Load(t) == /\ pc[t] = "load" /\ tmp' = [tmp EXCEPT ![t] = value] /\ Goto(t, "store")
           /\ UNCHANGED <<value, glock, done, todo, got>>
Store(t) == /\ pc[t] = "store" /\ value' = tmp[t] + 1 /\ Goto(t, "unlock")
            /\ UNCHANGED <<glock, tmp, done, todo, got>>
Unlock(t) == /\ pc[t] = "unlock" /\ glock' = Nobody /\ Goto(t, "loop")
             /\ done' = [done EXCEPT ![t] = @ + 1]
             /\ UNCHANGED <<value, tmp, todo, got>>
counter_increment(t) == Lock(t) \/ Load(t) \/ Store(t) \/ Unlock(t)

\* main, after its joins.
Joined == \A t \in Threads : pc[t] = "loop" /\ done[t] = todo
counter_get == /\ Joined /\ glock = Nobody /\ got = -1 /\ got' = value
               /\ UNCHANGED <<value, glock, pc, tmp, done, todo>>

Next == counter_get \/ \E t \in Threads : counter_increment(t)
Spec == Init /\ [][Next]_vars
-----------------------------------------------------------------------------
\* No increment is lost between another thread's load and its store, and main
\* gets all of them.
Stored(t) == IF pc[t] = "unlock" THEN done[t] + 1 ELSE done[t]
NoneLost == /\ value = SumFunction([t \in Threads |-> Stored(t)])
            /\ got # -1 => got = SumFunction(done)
=============================================================================
