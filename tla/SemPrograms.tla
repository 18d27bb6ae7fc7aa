---------------------------- MODULE SemPrograms ----------------------------
(***************************************************************************)
(* The one-shot semaphore programs of 31_Semaphores: fork-join.c (a parent *)
(* that waits for its child), rendezvous.c (two children that meet) and    *)
(* barrier.c (num_threads children that meet).  A thread is a program of   *)
(* semaphore calls and prints, one step each; sleep(1) is only a chance    *)
(* for others to run, which every step is.                                 *)
(***************************************************************************)
EXTENDS Integers, Sequences

CONSTANTS MaxThreads         \* bound on barrier.c's argument

ThreadsAssumption == MaxThreads \in Nat \ {0, 1}

VARIABLES program, num_threads,
          sem,               \* the semaphores of the program
          count,             \* barrier_t.count
          at                 \* next instruction of each thread

vars == <<program, num_threads, sem, count, at>>

Wait(s) == [op |-> "wait", s |-> s]
Post(s) == [op |-> "post", s |-> s]
Do(op)  == [op |-> op, s |-> "none"]

\* barrier.c: barrier, between the two prints of child.
Full(n) == n = num_threads
Barrier == <<Do("before"), Wait("lock"), Do("count"), Post("lock"),
             Wait("barrier"), Post("barrier"), Do("after")>>

\* rendezvous.c: child_1 and child_2.
Rendezvous(t) ==
  IF t = 1 THEN <<Do("before"), Wait("s2"), Post("s1"), Do("after")>>
           ELSE <<Do("before"), Post("s2"), Wait("s1"), Do("after")>>

\* fork-join.c: child (1) and the rest of main (2).
ForkJoin(t) == IF t = 1 THEN <<Do("before"), Post("s")>>
                        ELSE <<Wait("s"), Do("after")>>

Code(t) == CASE program = "barrier" -> Barrier
             [] program = "rendezvous" -> Rendezvous(t)
             [] program = "fork-join" -> ForkJoin(t)

Semaphores == {"lock", "barrier", "s1", "s2", "s"}
Children == 1 .. num_threads

TypeOK == /\ program \in {"barrier", "rendezvous", "fork-join"}
          /\ num_threads \in 1 .. MaxThreads
          /\ sem \in [Semaphores -> {0, 1}] /\ count \in 0 .. num_threads
          /\ at \in [Children -> 1 .. 8]

\* main: sem_init (barrier_init) and the creation of the threads.
Init == /\ program \in {"barrier", "rendezvous", "fork-join"}
        /\ num_threads \in (IF program = "barrier" THEN 1 .. MaxThreads ELSE {2})
        /\ sem = [s \in Semaphores |-> IF s = "lock" THEN 1 ELSE 0]
        /\ count = 0
        /\ at = [t \in Children |-> 1]

Advance(t) == at' = [at EXCEPT ![t] = @ + 1] /\ UNCHANGED <<program, num_threads>>
Running(t, op) == at[t] <= Len(Code(t)) /\ Code(t)[at[t]].op = op

SemWait(t) == LET s == Code(t)[at[t]].s IN
              /\ Running(t, "wait") /\ sem[s] > 0
              /\ sem' = [sem EXCEPT ![s] = @ - 1]
              /\ Advance(t) /\ UNCHANGED count
SemPost(t) == LET s == Code(t)[at[t]].s IN
              /\ Running(t, "post")
              /\ sem' = [sem EXCEPT ![s] = @ + 1]
              /\ Advance(t) /\ UNCHANGED count
\* b->count++, and the post by the thread that fills the barrier.
Count(t) == /\ Running(t, "count") /\ count' = count + 1
            /\ sem' = [sem EXCEPT !["barrier"] = IF Full(count + 1) THEN @ + 1 ELSE @]
            /\ Advance(t)
Say(t) == /\ Running(t, "before") \/ Running(t, "after")
          /\ Advance(t) /\ UNCHANGED <<sem, count>>

Thread(t) == SemWait(t) \/ SemPost(t) \/ Count(t) \/ Say(t)
\* main has joined every thread and ends.
AllEnd == \A t \in Children : at[t] > Len(Code(t))

Next == \E t \in Children : Thread(t)
Spec == Init /\ [][Next]_vars
\* Threads keep running.  The semaphores need not be fair.
FairSpec == Spec /\ \A t \in 1 .. MaxThreads : WF_vars(t \in Children /\ Thread(t))
-----------------------------------------------------------------------------
Said(t, m) == \E k \in 1 .. at[t] - 1 : Code(t)[k].op = m
Says(t, m) == \E k \in 1 .. Len(Code(t)) : Code(t)[k].op = m

\* "each child should print their before message before either prints their
\* after message", for any number of threads at the barrier; in fork-join.c
\* the parent ends after the child has run.
BeforeThenAfter == \A t, u \in Children :
  Said(t, "after") /\ Says(u, "before") => Said(u, "before")
=============================================================================
