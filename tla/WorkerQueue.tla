---------------------------- MODULE WorkerQueue ----------------------------
(***************************************************************************)
(* worker_queue_shutdown.c: jobs in a ring with free-running indices,      *)
(* submitters that block while it is full, workers that run jobs outside   *)
(* the mutex, and a stop request.  A step is a critical section of p->mu,  *)
(* the unlocked read of p->stopping at the top of submit_job, or the call  *)
(* of a job.  A job is known by the number of its submission; a job in     *)
(* Nested calls submit_job itself.                                         *)
(***************************************************************************)
EXTENDS Integers, FiniteSets, CondVar

CONSTANTS Submitters, Workers,  \* the threads
          QMax,                 \* Q_MAX
          MaxJobs,              \* bound: how many submissions succeed
          MaxOutside,           \* bound: how far the submitters bring tail
          MaxHead,              \* bound: how many times a worker pops
          Nested                \* the jobs that submit a job when they run

ASSUME SizeAssumption == QMax \in Nat \ {0} /\ MaxJobs \in Nat /\ MaxOutside \in Nat /\ MaxHead \in Nat
ASSUME ThreadAssumption == IsFiniteSet(Submitters) /\ IsFiniteSet(Workers)

VARIABLES queue, head, tail, stopping,  \* struct worker_pool
          pc,    \* where a thread is, see TypeOK
          curr,  \* a worker's local job
          runs   \* how often each job was called; runs[0] counts calls of an empty slot

pool == <<queue, head, tail, stopping>>
vars == <<pool, pc, curr, runs>>

Threads == Submitters \cup Workers
Jobs == 1 .. MaxJobs
NotFull == {t \in Threads : pc[t] = "wait_full"}
NotEmpty == {w \in Workers : pc[w] = "wait_empty"}
WokenFull == {t \in Threads : pc[t] = "woken_full"}
WokenEmpty == {w \in Workers : pc[w] = "woken_empty"}

\* "call": about to call submit_job, "lock": past its unlocked check,
\* "idle": a submitter outside, or a worker at the top of its loop.
TypeOK == /\ queue \in [0 .. QMax - 1 -> {0} \cup Jobs]
          /\ head \in 0 .. MaxHead /\ tail \in 0 .. MaxJobs /\ tail - head <= QMax
          /\ stopping \in BOOLEAN
          /\ pc \in [Threads -> {"idle", "call", "lock", "wait_full", "woken_full",
                                 "wait_empty", "woken_empty", "run"}]
          /\ curr \in [Workers -> {0} \cup Jobs]
          /\ runs \in [{0} \cup Jobs -> Nat]

Init == /\ queue = [s \in 0 .. QMax - 1 |-> 0]
        /\ head = 0 /\ tail = 0 /\ stopping = FALSE
        /\ pc = [t \in Threads |-> "idle"]
        /\ curr = [w \in Workers |-> 0]
        /\ runs = [j \in {0} \cup Jobs |-> 0]

get_queue_count == tail - head

Goto(t, l) == pc' = [pc EXCEPT ![t] = l]
GotoWaking(t, l, W, m) ==
  pc' = [u \in Threads |-> IF u = t THEN l ELSE IF u \in W THEN m ELSE pc[u]]

\* submit_job up to the lock: the fast fail reads stopping without the mutex.
FastFail(t) == /\ \/ pc[t] = "call" \/ (t \in Submitters /\ pc[t] = "idle")
               /\ Goto(t, IF stopping THEN "idle" ELSE "lock")
               /\ UNCHANGED <<pool, curr, runs>>

MutantRejects == FALSE
Rejects == stopping
MutantSubmitBlocks == FALSE
SubmitBlocks == get_queue_count = QMax /\ ~stopping
MutantWake(waiters) == {{}}
NotEmptySignal(waiters) == SignalChoices(waiters)
\* The bounds leave room for what the jobs submit themselves.
Bounded(t) == tail < MaxJobs /\ (t \in Submitters => tail < MaxOutside)

\* submit_job under the lock, on first entry or after a wait.
SubmitJob(t) ==
  /\ pc[t] \in {"lock", "woken_full"}
  /\ UNCHANGED <<head, stopping, curr, runs>>
  /\ \/ SubmitBlocks /\ Goto(t, "wait_full") /\ UNCHANGED <<queue, tail>>
     \/ Rejects /\ Goto(t, "idle") /\ UNCHANGED <<queue, tail>>
     \/ /\ ~SubmitBlocks /\ ~Rejects /\ Bounded(t)
        /\ queue' = [queue EXCEPT ![tail % QMax] = tail + 1]
        /\ tail' = tail + 1
        /\ \E W \in NotEmptySignal(NotEmpty) : GotoWaking(t, "idle", W, "woken_empty")

RequestStop == /\ stopping' = TRUE
               /\ pc' = [t \in Threads |-> CASE t \in NotEmpty -> "woken_empty"
                                             [] t \in NotFull -> "woken_full"
                                             [] OTHER -> pc[t]]
               /\ UNCHANGED <<queue, head, tail, curr, runs>>

WorkerBlocks == get_queue_count = 0 /\ ~stopping

MutantSlot(i) == IF stopping THEN 0 ELSE i % QMax
HeadSlot(i) == i % QMax

\* worker_main, from the lock to the unlock.  Line 92 compares the function
\* get_queue_count with 0, where line 88 calls it: the test is never true and
\* the exit in its body cannot be reached.
WorkerTake(w) ==
  /\ pc[w] \in {"idle", "woken_empty"}
  /\ UNCHANGED <<queue, tail, stopping, runs>>
  /\ \/ WorkerBlocks /\ Goto(w, "wait_empty") /\ UNCHANGED <<head, curr>>
     \/ /\ ~WorkerBlocks /\ head < MaxHead
        /\ curr' = [curr EXCEPT ![w] = queue[HeadSlot(head)]]
        /\ head' = head + 1
        /\ \E W \in SignalChoices(NotFull) : GotoWaking(w, "run", W, "woken_full")

\* curr.fn(curr.arg), without the mutex.
RunJob(w) == /\ pc[w] = "run"
             /\ runs' = [runs EXCEPT ![curr[w]] = @ + 1]
             /\ Goto(w, IF curr[w] \in Nested THEN "call" ELSE "idle")
             /\ UNCHANGED <<pool, curr>>

\* A condition wait returns without a signal.
SpuriousWakeup(t) == /\ \/ pc[t] = "wait_full" /\ Goto(t, "woken_full")
                        \/ pc[t] = "wait_empty" /\ Goto(t, "woken_empty")
                     /\ UNCHANGED <<pool, curr, runs>>

Next == \/ \E t \in Threads : FastFail(t) \/ SubmitJob(t) \/ SpuriousWakeup(t)
        \/ \E w \in Workers : WorkerTake(w) \/ RunJob(w)
        \/ RequestStop

Spec == Init /\ [][Next]_vars
FairSpec == /\ Spec
            /\ \A w \in Workers : WF_vars(WorkerTake(w)) /\ WF_vars(RunJob(w)) /\ WF_vars(FastFail(w))
            /\ \A t \in Threads : WF_vars(SubmitJob(t))
-----------------------------------------------------------------------------
\* "Reject new jobs after stop is requested": no job enters the queue once
\* stopping is set, although the first check of it takes no lock.
NoSubmitAfterStop == [][stopping => tail' = tail]_vars

\* Every job that is queued and not yet taken is still in its slot: a
\* submitter that waited for room never overwrites one.
PendingIntact == \A j \in head .. tail - 1 : queue[j % QMax] = j + 1

\* One signal for each submission and each job taken is enough.  While a worker
\* sleeps on not_empty, as many workers are on their way to the mutex as there
\* are jobs; while a thread sleeps on not_full, as many are as there are free
\* slots; and after request_stop's broadcasts nobody sleeps on either.
NoLostWakeup ==
  /\ NotEmpty # {} => Cardinality(WokenEmpty) >= get_queue_count
  /\ NotFull # {} => Cardinality(WokenFull) >= QMax - get_queue_count
  /\ stopping => NotEmpty = {} /\ NotFull = {}

\* "What if a job submits another job? [...] this will deadlock": it does when
\* the ring is full and every worker is inside the submit_job that its job has
\* called, so that none is left to make room.
NestedDeadlock == /\ get_queue_count = QMax /\ ~stopping
                  /\ \A w \in Workers : pc[w] \in {"call", "lock", "wait_full", "woken_full"}

\* Every accepted job is run, before or after the stop request, unless the
\* workers stay deadlocked on their own nested submissions.
AcceptedJobsRun == \A j \in Jobs : tail >= j ~> (runs[j] >= 1 \/ []NestedDeadlock)

\* "On stop, drain existing jobs" (the comment above worker_main): a worker
\* runs no job twice and calls no slot that holds none.
DrainsExistingJobs == runs[0] = 0 /\ \A j \in Jobs : runs[j] <= 1
=============================================================================
