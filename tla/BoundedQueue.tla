---------------------------- MODULE BoundedQueue ----------------------------
(***************************************************************************)
(* thread_safe_bounded_queue.c: a blocking queue in a ring of BQ_CAPACITY  *)
(* slots, guarded by one mutex and two condition variables.                *)
(*                                                                         *)
(* Every access to the queue happens under q->mu, so a step is a whole     *)
(* critical section: from pthread_mutex_lock (or from the return of        *)
(* pthread_cond_wait) up to the unlock or the next wait.                   *)
(***************************************************************************)
EXTENDS Integers, FiniteSets, CondVar

CONSTANTS Producers, Consumers,  \* the threads that push and that pop
          Values,                \* the uint32_t values pushed
          Capacity               \* BQ_CAPACITY

ASSUME CapacityAssumption == Capacity \in Nat \ {0}
ASSUME ThreadAssumption == /\ IsFiniteSet(Producers) /\ IsFiniteSet(Consumers)
                           /\ Producers \cap Consumers = {}
ASSUME ValueAssumption == Values \cap {"none", "ok", "closed", "invalid"} = {}

VARIABLES data, head, tail, count, closed,  \* the fields of struct blocking_queue
          pc,      \* "idle": not in a call, "wait": in a wait set, "woken": has to relock
          arg,     \* the value a producer is pushing
          result   \* what the last completed call returned

queue == <<data, head, tail, count, closed>>
vars == <<queue, pc, arg, result>>

Threads == Producers \cup Consumers
Slots == 0 .. Capacity - 1
NotFull == {p \in Producers : pc[p] = "wait"}    \* wait set of q->not_full
NotEmpty == {c \in Consumers : pc[c] = "wait"}   \* wait set of q->not_empty

TypeOK == /\ data \in [Slots -> Values]
          /\ head \in Slots /\ tail \in Slots
          /\ count \in 0 .. Capacity
          /\ closed \in BOOLEAN
          /\ pc \in [Threads -> {"idle", "wait", "woken"}]
          /\ arg \in [Producers -> Values]
          /\ result \in [Threads -> Values \cup {"none", "ok", "closed", "invalid"}]

Init == /\ data \in [Slots -> Values]
        /\ head = 0 /\ tail = 0 /\ count = 0
        /\ closed = FALSE
        /\ pc = [t \in Threads |-> "idle"]
        /\ arg \in [Producers -> Values]
        /\ result = [t \in Threads |-> "none"]

\* Thread t leaves the monitor with return code r, having woken the threads in W.
Return(t, r, W) == /\ pc' = Wake(pc, t, W)
                   /\ result' = [result EXCEPT ![t] = r]

\* pthread_cond_wait: t joins the wait set of its condition.
Block(t) == /\ pc' = [pc EXCEPT ![t] = "wait"]
            /\ UNCHANGED <<queue, result>>

Inside(t) == pc[t] \in {"idle", "woken"}

MutantPushNeverBlocks == FALSE
MutantPushBlocks == count = Capacity - 1 /\ ~closed
PushBlocks == count = Capacity /\ ~closed
PopBlocks == count = 0 /\ ~closed
MutantNextSlot(i) == IF i + 1 < Capacity THEN i + 1 ELSE Capacity - 1
NextSlot(i) == (i + 1) % Capacity

\* The successful end of bq_push and of bq_pop.
Enqueue(p, v) == /\ ~PushBlocks /\ ~closed
                 /\ data' = [data EXCEPT ![head] = v]
                 /\ head' = NextSlot(head)
                 /\ count' = count + 1
                 /\ \E W \in SignalChoices(NotEmpty) : Return(p, "ok", W)
                 /\ UNCHANGED <<tail, closed>>

Dequeue(c) == /\ count # 0
              /\ tail' = NextSlot(tail)
              /\ count' = count - 1
              /\ \E W \in SignalChoices(NotFull) : Return(c, data[tail], W)
              /\ UNCHANGED <<data, head, closed>>

\* bq_push(q, v): one critical section, on first entry or after a wait.
BqPush(p, v) == /\ Inside(p)
                /\ pc[p] = "woken" => v = arg[p]
                /\ arg' = [arg EXCEPT ![p] = v]
                /\ \/ PushBlocks /\ Block(p)
                   \/ closed /\ Return(p, "closed", {}) /\ UNCHANGED queue
                   \/ Enqueue(p, v)

\* bq_pop(q, &out).
BqPop(c) == /\ Inside(c)
            /\ UNCHANGED arg
            /\ \/ PopBlocks /\ Block(c)
               \/ closed /\ count = 0 /\ Return(c, "closed", {}) /\ UNCHANGED queue
               \/ Dequeue(c)

\* bq_close(q): broadcasts both conditions.
BqClose ==
  /\ closed' = TRUE
  /\ pc' = [t \in Threads |-> IF t \in NotFull \cup NotEmpty THEN "woken" ELSE pc[t]]
  /\ UNCHANGED <<data, head, tail, count, arg, result>>

\* A call with a NULL queue or a NULL out pointer.
BqNull(t) == /\ pc[t] = "idle"
             /\ result' = [result EXCEPT ![t] = "invalid"]
             /\ UNCHANGED <<queue, pc, arg>>

\* pthread_cond_wait returns without having been signalled.
SpuriousWakeup(t) == /\ pc[t] = "wait"
                     /\ pc' = [pc EXCEPT ![t] = "woken"]
                     /\ UNCHANGED <<queue, arg, result>>

Next == \/ \E p \in Producers, v \in Values : BqPush(p, v)
        \/ \E c \in Consumers : BqPop(c)
        \/ BqClose
        \/ \E t \in Threads : BqNull(t) \/ SpuriousWakeup(t)

\* A woken thread gets the mutex eventually and then runs its section.
Resume(t) == /\ pc[t] = "woken"
             /\ \/ t \in Producers /\ \E v \in Values : BqPush(t, v)
                \/ t \in Consumers /\ BqPop(t)

Spec == Init /\ [][Next]_vars
-----------------------------------------------------------------------------
\* The write index is always count slots ahead of the read index: bq_push and
\* bq_pop keep head, tail and count in step across every interleaving.
RingConsistent == head = (tail + count) % Capacity

\* Nobody sleeps in a closed queue.
ClosedAwake == closed => NotFull = {} /\ NotEmpty = {}

Woken(S) == {t \in S : pc[t] = "woken"}

\* No wakeup is lost: while a consumer sleeps in bq_pop there are at least as
\* many consumers on their way back to the mutex as there are queued values,
\* and the same for producers sleeping in bq_push and free slots.  It is what
\* makes one pthread_cond_signal per operation enough.
NoLostWakeup == /\ NotEmpty # {} => Cardinality(Woken(Consumers)) >= count
                /\ NotFull # {} => Cardinality(Woken(Producers)) >= Capacity - count

\* The queued values, oldest first.
Contents == [i \in 1 .. count |-> data[(tail + i - 1) % Capacity]]

Fifo == INSTANCE BoundedFifo WITH items <- Contents

\* The ring, its indices and its waits implement a bounded FIFO queue: values
\* come out once, in the order they went in, none after -2 was answered.
ImplementsFifo == Fifo!Spec
=============================================================================
