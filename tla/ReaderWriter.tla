---------------------------- MODULE ReaderWriter ----------------------------
(***************************************************************************)
(* reader-writer.c: a readers-writers lock made of two semaphores and a    *)
(* count of readers, with its reader and writer threads.  Each semaphore   *)
(* call is a step; the accesses to num_readers, all made while the thread  *)
(* has the semaphore lock, belong to the step before or after them.        *)
(***************************************************************************)
EXTENDS Integers, FiniteSets, Functions

CONSTANTS Readers, Writers, loops

ThreadAssumption == /\ IsFiniteSet(Readers) /\ Readers \cap Writers = {}
                    /\ loops \in Nat

VARIABLES lock, write_lock,  \* the two semaphores
          num_readers, value,
          pc, i,             \* per thread: location, loops done
          reg                \* per writer: value as loaded by value++

vars == <<lock, write_lock, num_readers, value, pc, i, reg>>
Threads == Readers \cup Writers

ReaderPc == {"idle", "first", "got", "read", "last", "leave"}
WriterPc == {"idle", "load", "store", "leave"}

TypeOK == /\ lock \in {0, 1} /\ write_lock \in {0, 1}
          /\ num_readers \in Nat /\ value \in Nat
          /\ pc \in [Threads -> ReaderPc \cup WriterPc]
          /\ \A r \in Readers : pc[r] \in ReaderPc
          /\ \A w \in Writers : pc[w] \in WriterPc
          /\ i \in [Threads -> 0 .. loops] /\ reg \in [Writers -> Nat]

\* main and rwlock_init.
Init == /\ lock = 1 /\ write_lock = 1 /\ num_readers = 0 /\ value = 0
        /\ pc = [t \in Threads |-> "idle"] /\ i = [t \in Threads |-> 0]
        /\ reg = [w \in Writers |-> 0]

Go(t, l) == pc' = [pc EXCEPT ![t] = l]

\* rwlock_acquire_readlock.
MutantFirstReader == num_readers = 1
FirstReader == num_readers + 1 = 1
AcquireLock(r) == /\ pc[r] = "idle" /\ i[r] < loops
                  /\ lock > 0 /\ lock' = lock - 1
                  /\ num_readers' = num_readers + 1
                  /\ Go(r, IF FirstReader THEN "first" ELSE "got")
                  /\ UNCHANGED <<write_lock, value, i, reg>>
BlockWriters(r) == /\ pc[r] = "first"
                   /\ write_lock > 0 /\ write_lock' = write_lock - 1
                   /\ Go(r, "got")
                   /\ UNCHANGED <<lock, num_readers, value, i, reg>>
AcquireDone(r) == /\ pc[r] = "got" /\ lock' = lock + 1
                  /\ Go(r, "read")
                  /\ UNCHANGED <<write_lock, num_readers, value, i, reg>>

\* The read of value, and rwlock_release_readlock.
LastReader == num_readers - 1 = 0
ReleaseLock(r) == /\ pc[r] = "read"
                  /\ lock > 0 /\ lock' = lock - 1
                  /\ num_readers' = num_readers - 1
                  /\ Go(r, IF LastReader THEN "last" ELSE "leave")
                  /\ UNCHANGED <<write_lock, value, i, reg>>
AdmitWriters(r) == /\ pc[r] = "last" /\ write_lock' = write_lock + 1
                   /\ Go(r, "leave")
                   /\ UNCHANGED <<lock, num_readers, value, i, reg>>
ReleaseDone(r) == /\ pc[r] = "leave" /\ lock' = lock + 1
                  /\ i' = [i EXCEPT ![r] = @ + 1]
                  /\ Go(r, "idle")
                  /\ UNCHANGED <<write_lock, num_readers, value, reg>>

Reader(r) == \/ AcquireLock(r) \/ BlockWriters(r) \/ AcquireDone(r)
             \/ ReleaseLock(r) \/ AdmitWriters(r) \/ ReleaseDone(r)

\* rwlock_acquire_writelock, value++ and rwlock_release_writelock.
CanWrite == write_lock > 0
AcquireWrite(w) == /\ pc[w] = "idle" /\ i[w] < loops
                   /\ CanWrite /\ write_lock' = write_lock - 1
                   /\ Go(w, "load")
                   /\ UNCHANGED <<lock, num_readers, value, i, reg>>
Load(w) == /\ pc[w] = "load" /\ reg' = [reg EXCEPT ![w] = value]
           /\ Go(w, "store")
           /\ UNCHANGED <<lock, write_lock, num_readers, value, i>>
Store(w) == /\ pc[w] = "store" /\ value' = reg[w] + 1
            /\ Go(w, "leave")
            /\ UNCHANGED <<lock, write_lock, num_readers, i, reg>>
ReleaseWrite(w) == /\ pc[w] = "leave" /\ write_lock' = write_lock + 1
                   /\ i' = [i EXCEPT ![w] = @ + 1]
                   /\ Go(w, "idle")
                   /\ UNCHANGED <<lock, num_readers, value, reg>>

Writer(w) == AcquireWrite(w) \/ Load(w) \/ Store(w) \/ ReleaseWrite(w)

\* main has joined the threads and ends.
Joined == \A t \in Threads : i[t] = loops

Next == \/ \E r \in Readers : Reader(r)
        \/ \E w \in Writers : Writer(w)
Spec == Init /\ [][Next]_vars
\* Threads keep running.  The semaphores need not be fair.
FairSpec == /\ Spec
            /\ \A r \in Readers : WF_vars(Reader(r))
            /\ \A w \in Writers : WF_vars(Writer(w))
-----------------------------------------------------------------------------
Reading == {r \in Readers : pc[r] = "read"}
Writing == {w \in Writers : pc[w] # "idle"}

\* Nobody reads value while a writer is between its acquire and its release,
\* and no two writers are there together.
WriterExclusive == /\ Reading # {} => Writing = {}
                   /\ \A v, w \in Writing : v = w

\* No increment is lost: at any moment value is the number of value++ done.
WritesDone(w) == i[w] + (IF pc[w] = "leave" THEN 1 ELSE 0)
NoLostWrite == value = SumFunction([w \in Writers |-> WritesDone(w)])
=============================================================================
