------------------------------ MODULE RdWrLock ------------------------------
(***************************************************************************)
(* implement_rdwrlock.c: a read-write lock made of a mutex, a condition    *)
(* variable, a flag and a count of readers.  A step is a critical section  *)
(* of the mutex.  The file has no unlock functions; Release stands for     *)
(* what its callers must have: it takes back what the lock call of the     *)
(* caller set and wakes waiters, one or more, when the lock becomes free.  *)
(***************************************************************************)
EXTENDS Integers, FiniteSets

CONSTANT Threads

LockAssumption == IsFiniteSet(Threads)

VARIABLES num_readers, locked,
          pc     \* where a thread is, see TypeOK

vars == <<num_readers, locked, pc>>

TypeOK == /\ num_readers \in 0 .. Cardinality(Threads) /\ locked \in BOOLEAN
          /\ pc \in [Threads -> {"idle", "wait_rd", "woken_rd", "reading",
                                 "wait_wr", "woken_wr", "writing"}]

Init == num_readers = 0 /\ locked = FALSE /\ pc = [t \in Threads |-> "idle"]

At(l) == {t \in Threads : pc[t] = l}
Goto(t, l) == pc' = [pc EXCEPT ![t] = l]
Waiting == At("wait_rd") \cup At("wait_wr")
WokenFrom(l) == IF l = "wait_rd" THEN "woken_rd" ELSE "woken_wr"

\* pthread_rwlock_rdlock: a first look at num_readers, not repeated after a wait.
Joins == num_readers > 0
rdlock(t) ==
  \/ /\ pc[t] = "idle" /\ Joins
     /\ num_readers' = num_readers + 1 /\ Goto(t, "reading") /\ UNCHANGED locked
  \/ /\ pc[t] = "woken_rd" \/ (pc[t] = "idle" /\ ~Joins)
     /\ \/ locked /\ Goto(t, "wait_rd") /\ UNCHANGED <<num_readers, locked>>
        \/ /\ ~locked /\ Goto(t, "reading")
           /\ num_readers' = num_readers + 1 /\ locked' = TRUE

\* pthread_rwlock_wrlock.
wrlock(t) == /\ pc[t] \in {"idle", "woken_wr"} /\ UNCHANGED num_readers
             /\ \/ locked /\ Goto(t, "wait_wr") /\ UNCHANGED locked
                \/ ~locked /\ Goto(t, "writing") /\ locked' = TRUE

Release(t) ==
  /\ pc[t] \in {"reading", "writing"}
  /\ num_readers' = IF pc[t] = "reading" THEN num_readers - 1 ELSE num_readers
  /\ locked' = (num_readers' > 0)
  /\ \E W \in SUBSET Waiting :
       /\ W = {} <=> (locked' \/ Waiting = {})
       /\ pc' = [u \in Threads |-> IF u = t THEN "idle"
                                   ELSE IF u \in W THEN WokenFrom(pc[u]) ELSE pc[u]]

SpuriousWakeup(t) == /\ t \in Waiting /\ Goto(t, WokenFrom(pc[t]))
                     /\ UNCHANGED <<num_readers, locked>>

Next == \E t \in Threads : rdlock(t) \/ wrlock(t) \/ Release(t) \/ SpuriousWakeup(t)
Spec == Init /\ [][Next]_vars
-----------------------------------------------------------------------------
\* "If rd has -- more rd can lcok, wr cannot lock.  If wr has -- No one else can
\* lock": a writer is alone, num_readers counts the readers, and locked says
\* that there is a reader or a writer.
WriterAlone == /\ Cardinality(At("writing")) <= 1
               /\ At("writing") # {} => At("reading") = {}
               /\ num_readers = Cardinality(At("reading"))
               /\ locked <=> At("reading") \cup At("writing") # {}
=============================================================================
