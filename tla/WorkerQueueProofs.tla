------------------------- MODULE WorkerQueueProofs -------------------------
(***************************************************************************)
(* Proofs about WorkerQueue for every ring size and all finite sets of     *)
(* threads.  Until a stop is requested head does not pass tail, so that    *)
(* the slots from head to tail hold the jobs that wait; after it nothing   *)
(* is submitted and nobody sleeps.  This is what the inductive invariant   *)
(* IInv adds to the properties.                                            *)
(***************************************************************************)
EXTENDS WorkerQueue, ProofLemmas

Locations == {"idle", "call", "lock", "wait_full", "woken_full",
              "wait_empty", "woken_empty", "run"}
Running == {w \in Workers : pc[w] = "run"}

\* Before the stop request a worker takes only jobs that were submitted.
HeadBehind == ~stopping => head <= tail

\* The three parts of NoLostWakeup: a woken worker for every job while one
\* sleeps, a woken thread for every free slot while one sleeps, and nobody
\* asleep once the stop was requested.
EmptyServed == NotEmpty # {} => Cardinality(WokenEmpty) >= get_queue_count
FullServed == NotFull # {} => Cardinality(WokenFull) >= QMax - get_queue_count
StoppedAwake == stopping => NotEmpty = {} /\ NotFull = {}

\* Before the stop request the workers run different jobs, all of them taken
\* from the ring, and none that was called before.
RunsOnce ==
  ~stopping =>
    /\ runs[0] = 0
    /\ \A j \in Jobs : runs[j] <= 1 /\ (j > head => runs[j] = 0)
    /\ \A w \in Running : curr[w] \in Jobs /\ curr[w] <= head /\ runs[curr[w]] = 0
    /\ \A v, w \in Running : curr[v] = curr[w] => v = w

IInv == TypeOK /\ HeadBehind /\ PendingIntact /\ NoLostWakeup /\ RunsOnce

\* The pool starts empty, with nobody asleep and nothing called.
LEMMA InitIInv == Init => IInv
<1> SUFFICES ASSUME Init PROVE IInv
  OBVIOUS
<1> USE SizeAssumption DEF Init
<1>1. TypeOK
  <2>1. head \in 0 .. MaxHead /\ tail \in 0 .. MaxJobs /\ tail - head <= QMax
    OBVIOUS
  <2>s. stopping \in BOOLEAN
    OBVIOUS
  <2>2. queue \in [0 .. QMax - 1 -> {0} \cup Jobs] /\ curr \in [Workers -> {0} \cup Jobs]
    OBVIOUS
  <2>3. runs \in [{0} \cup Jobs -> Nat]
    OBVIOUS
  <2>4. pc \in [Threads -> Locations]
    BY DEF Locations
  <2> QED
    BY <2>1, <2>s, <2>2, <2>3, <2>4 DEF TypeOK, Locations
<1>2. HeadBehind /\ PendingIntact
  BY DEF HeadBehind, PendingIntact
<1>3. NotEmpty = {} /\ NotFull = {} /\ Running = {}
  BY DEF NotEmpty, NotFull, Running, Threads
<1>4. RunsOnce
  BY <1>3 DEF RunsOnce, Jobs
<1> QED
  BY <1>1, <1>2, <1>3, <1>4 DEF IInv, NoLostWakeup

\* A slot of the ring.
LEMMA SlotOf ==
  ASSUME NEW i \in Nat
  PROVE  i % QMax \in 0 .. QMax - 1
  BY DivMod, SizeAssumption

\* Every step of submit_job, worker_main and request_stop keeps the fields of
\* the pool within bounds: a submitter waits while the ring is full.
LEMMA TypeStep == TypeOK /\ HeadBehind /\ [Next]_vars => TypeOK'
<1> SUFFICES ASSUME TypeOK, HeadBehind, [Next]_vars PROVE TypeOK'
  OBVIOUS
<1> USE SizeAssumption
<1>t. /\ head \in Nat /\ tail \in Nat /\ queue \in [0 .. QMax - 1 -> {0} \cup Jobs]
      /\ stopping \in BOOLEAN /\ pc \in [Threads -> Locations] /\ Workers \subseteq Threads
  BY DEF TypeOK, Locations, Threads
<1>1. ASSUME NEW t \in Threads, FastFail(t) PROVE TypeOK'
  <2>1. pc' \in [Threads -> Locations]
    BY <1>1, <1>t DEF FastFail, Goto, Locations
  <2> QED
    BY <1>1, <2>1 DEF FastFail, pool, TypeOK, Locations
<1>2. ASSUME NEW t \in Threads, SubmitJob(t) PROVE TypeOK'
  <2>1. CASE SubmitBlocks /\ Goto(t, "wait_full") /\ UNCHANGED <<queue, tail>>
    <3>1. pc' \in [Threads -> Locations]
      BY <2>1, <1>t DEF Goto, Locations
    <3> QED
      BY <1>2, <2>1, <3>1 DEF SubmitJob, TypeOK, Locations
  <2>2. CASE Rejects /\ Goto(t, "idle") /\ UNCHANGED <<queue, tail>>
    <3>1. pc' \in [Threads -> Locations]
      BY <2>2, <1>t DEF Goto, Locations
    <3> QED
      BY <1>2, <2>2, <3>1 DEF SubmitJob, TypeOK, Locations
  <2>3. CASE /\ ~SubmitBlocks /\ ~Rejects /\ Bounded(t)
             /\ queue' = [queue EXCEPT ![tail % QMax] = tail + 1]
             /\ tail' = tail + 1
             /\ \E W \in NotEmptySignal(NotEmpty) : GotoWaking(t, "idle", W, "woken_empty")
    <3>1. pc' \in [Threads -> Locations]
      BY <2>3, <1>t DEF GotoWaking, Locations
    <3>2. tail + 1 \in Jobs /\ tail' \in 0 .. MaxJobs
      BY <2>3, <1>t DEF Bounded, Jobs
    <3>3. queue' \in [0 .. QMax - 1 -> {0} \cup Jobs]
      BY <2>3, <3>2, <1>t, SlotOf
    <3>4. tail' - head <= QMax
      BY <2>3, <1>t DEF SubmitBlocks, Rejects, get_queue_count, TypeOK
    <3> QED
      BY <1>2, <3>1, <3>2, <3>3, <3>4 DEF SubmitJob, TypeOK, Locations
  <2> QED
    BY <1>2, <2>1, <2>2, <2>3 DEF SubmitJob
<1>3. ASSUME NEW t \in Threads, SpuriousWakeup(t) PROVE TypeOK'
  <2>1. pc' \in [Threads -> Locations]
    BY <1>3, <1>t DEF SpuriousWakeup, Goto, Locations
  <2> QED
    BY <1>3, <2>1 DEF SpuriousWakeup, pool, TypeOK, Locations
<1>4. ASSUME NEW w \in Workers, WorkerTake(w) PROVE TypeOK'
  <2>1. CASE WorkerBlocks /\ Goto(w, "wait_empty") /\ UNCHANGED <<head, curr>>
    <3>1. pc' \in [Threads -> Locations]
      BY <2>1, <1>t DEF Goto, Locations
    <3> QED
      BY <1>4, <2>1, <3>1 DEF WorkerTake, TypeOK, Locations
  <2>2. CASE /\ ~WorkerBlocks /\ head < MaxHead
             /\ curr' = [curr EXCEPT ![w] = queue[HeadSlot(head)]]
             /\ head' = head + 1
             /\ \E W \in SignalChoices(NotFull) : GotoWaking(w, "run", W, "woken_full")
    <3>1. pc' \in [Threads -> Locations]
      BY <2>2, <1>t DEF GotoWaking, Locations
    <3>2. queue[HeadSlot(head)] \in {0} \cup Jobs
      BY <1>t, SlotOf DEF HeadSlot
    <3>3. curr' \in [Workers -> {0} \cup Jobs]
      BY <2>2, <3>2 DEF TypeOK
    <3>4. head' \in 0 .. MaxHead /\ tail - head' <= QMax
      BY <2>2, <1>t DEF TypeOK
    <3> QED
      BY <1>4, <3>1, <3>3, <3>4 DEF WorkerTake, TypeOK, Locations
  <2> QED
    BY <1>4, <2>1, <2>2 DEF WorkerTake
<1>5. ASSUME NEW w \in Workers, RunJob(w) PROVE TypeOK'
  <2>1. pc' \in [Threads -> Locations]
    BY <1>5, <1>t DEF RunJob, Goto, Locations
  <2>2. runs' \in [{0} \cup Jobs -> Nat]
    BY <1>5 DEF RunJob, TypeOK
  <2> QED
    BY <1>5, <2>1, <2>2 DEF RunJob, pool, TypeOK, Locations
<1>6. CASE RequestStop
  <2>1. pc' \in [Threads -> Locations]
    BY <1>6, <1>t DEF RequestStop, Locations
  <2> QED
    BY <1>6, <2>1 DEF RequestStop, TypeOK, Locations
<1>7. CASE UNCHANGED vars
  BY <1>7 DEF vars, pool, TypeOK
<1> QED
  BY <1>1, <1>2, <1>3, <1>4, <1>5, <1>6, <1>7 DEF Next

\* What a step does to the ring: a submission that is not refused stores a job
\* at tail while there is room, a worker takes the job at head, and every other
\* step leaves the ring alone.
LEMMA RingSteps ==
  ASSUME TypeOK, HeadBehind, Next
  PROVE  \/ /\ ~stopping /\ tail - head < QMax
            /\ queue' = [queue EXCEPT ![tail % QMax] = tail + 1]
            /\ tail' = tail + 1 /\ UNCHANGED <<head, stopping>>
         \/ /\ stopping \/ head < tail
            /\ head' = head + 1 /\ UNCHANGED <<queue, tail, stopping>>
         \/ stopping' = TRUE /\ UNCHANGED <<queue, head, tail>>
         \/ UNCHANGED pool
<1> USE SizeAssumption
<1>t. head \in Nat /\ tail \in Nat /\ stopping \in BOOLEAN /\ tail - head <= QMax
  BY DEF TypeOK
<1>1. ASSUME NEW t \in Threads, SubmitJob(t), queue' # queue \/ tail' # tail
      PROVE  /\ ~stopping /\ tail - head < QMax
             /\ queue' = [queue EXCEPT ![tail % QMax] = tail + 1]
             /\ tail' = tail + 1 /\ UNCHANGED <<head, stopping>>
  BY <1>1, <1>t DEF SubmitJob, SubmitBlocks, Rejects, get_queue_count
<1>2. ASSUME NEW w \in Workers, WorkerTake(w), head' # head
      PROVE  /\ stopping \/ head < tail
             /\ head' = head + 1 /\ UNCHANGED <<queue, tail, stopping>>
  BY <1>2, <1>t DEF WorkerTake, WorkerBlocks, get_queue_count, HeadBehind
<1> QED
  BY <1>1, <1>2
     DEF Next, FastFail, SubmitJob, SpuriousWakeup, WorkerTake, RunJob, RequestStop, pool

\* The jobs between head and tail stay in their slots: the slot at tail is free
\* when a job is stored, because the ring is not full.
LEMMA RingStep ==
  TypeOK /\ HeadBehind /\ PendingIntact /\ [Next]_vars => HeadBehind' /\ PendingIntact'
<1> SUFFICES ASSUME TypeOK, HeadBehind, PendingIntact, [Next]_vars
             PROVE  HeadBehind' /\ PendingIntact'
  OBVIOUS
<1> USE SizeAssumption
<1>t. head \in Nat /\ tail \in Nat /\ queue \in [0 .. QMax - 1 -> {0} \cup Jobs]
  BY DEF TypeOK
<1>1. CASE /\ ~stopping /\ tail - head < QMax
           /\ queue' = [queue EXCEPT ![tail % QMax] = tail + 1]
           /\ tail' = tail + 1 /\ UNCHANGED <<head, stopping>>
  <2>1. HeadBehind'
    BY <1>1, <1>t DEF HeadBehind
  <2>2. ASSUME NEW j \in head .. tail PROVE queue'[j % QMax] = j + 1
    <3>0. j \in Nat
      BY <1>t
    <3>1. j % QMax \in 0 .. QMax - 1 /\ tail % QMax \in 0 .. QMax - 1
      BY <3>0, <1>t, SlotOf
    <3>2. CASE j = tail
      BY <1>1, <1>t, <3>0, <3>1, <3>2
    <3>3. CASE j # tail
      <4>1. j < tail /\ tail < j + QMax /\ j \in head .. tail - 1
        BY <1>1, <1>t, <3>0, <3>3
      <4>2. j % QMax # tail % QMax
        BY <4>1, <3>0, <1>t, ModDistinct
      <4> QED
        BY <1>1, <1>t, <3>1, <4>1, <4>2 DEF PendingIntact
    <3> QED
      BY <3>2, <3>3
  <2>3. head' .. tail' - 1 = head .. tail
    BY <1>1, <1>t
  <2> QED
    BY <2>1, <2>2, <2>3 DEF PendingIntact
<1>2. CASE /\ stopping \/ head < tail
           /\ head' = head + 1 /\ UNCHANGED <<queue, tail, stopping>>
  <2>1. HeadBehind'
    BY <1>2, <1>t DEF HeadBehind
  <2>2. head' .. tail' - 1 \subseteq head .. tail - 1 /\ queue' = queue
    BY <1>2, <1>t
  <2> QED
    BY <2>1, <2>2 DEF PendingIntact
<1>3. CASE stopping' = TRUE /\ UNCHANGED <<queue, head, tail>>
  BY <1>3 DEF HeadBehind, PendingIntact
<1>4. CASE UNCHANGED pool
  BY <1>4 DEF HeadBehind, PendingIntact, pool
<1> QED
  BY <1>1, <1>2, <1>3, <1>4, RingSteps DEF vars, pool

\* Nobody goes to sleep after the stop request, and the request wakes all.
LEMMA AwakeStep == TypeOK /\ StoppedAwake /\ [Next]_vars => StoppedAwake'
<1> SUFFICES ASSUME TypeOK, StoppedAwake, [Next]_vars PROVE StoppedAwake'
  OBVIOUS
<1>t. pc \in [Threads -> Locations] /\ Workers \subseteq Threads
  BY DEF TypeOK, Locations, Threads
<1>1. CASE RequestStop
  BY <1>1, <1>t DEF RequestStop, StoppedAwake, NotEmpty, NotFull
<1>2. ASSUME WorkerBlocks \/ SubmitBlocks PROVE StoppedAwake' \/ stopping' # stopping
  BY <1>2 DEF WorkerBlocks, SubmitBlocks, StoppedAwake
<1>3. ASSUME stopping' = stopping, NotEmpty' \subseteq NotEmpty, NotFull' \subseteq NotFull
      PROVE  StoppedAwake'
  BY <1>3 DEF StoppedAwake
<1>4. ASSUME NEW t \in Threads, NEW l, Goto(t, l), l \notin {"wait_empty", "wait_full"}
      PROVE  NotEmpty' \subseteq NotEmpty /\ NotFull' \subseteq NotFull
  BY <1>4, <1>t DEF Goto, NotEmpty, NotFull
<1>5. ASSUME NEW t \in Threads, NEW l, NEW W, NEW m, GotoWaking(t, l, W, m),
             l \notin {"wait_empty", "wait_full"}, m \notin {"wait_empty", "wait_full"}
      PROVE  NotEmpty' \subseteq NotEmpty /\ NotFull' \subseteq NotFull
  BY <1>5, <1>t DEF GotoWaking, NotEmpty, NotFull
<1>6. ASSUME NEW t \in Threads, FastFail(t) \/ SubmitJob(t) \/ SpuriousWakeup(t) PROVE StoppedAwake'
  <2>1. CASE FastFail(t)
    BY <2>1, <1>3, <1>4 DEF FastFail, pool
  <2>2. CASE SubmitJob(t)
    BY <2>2, <1>2, <1>3, <1>4, <1>5 DEF SubmitJob
  <2>3. CASE SpuriousWakeup(t)
    BY <2>3, <1>3, <1>4 DEF SpuriousWakeup, pool
  <2> QED
    BY <1>6, <2>1, <2>2, <2>3
<1>7. ASSUME NEW w \in Workers, WorkerTake(w) \/ RunJob(w) PROVE StoppedAwake'
  BY <1>7, <1>t, <1>2, <1>3, <1>4, <1>5 DEF WorkerTake, RunJob, pool
<1>8. CASE UNCHANGED vars
  BY <1>8 DEF vars, pool, StoppedAwake, NotEmpty, NotFull
<1> QED
  BY <1>1, <1>6, <1>7, <1>8 DEF Next

\* The threads are finitely many, and so are those that were woken.
LEMMA WokenFinite ==
  /\ IsFiniteSet(WokenEmpty) /\ Cardinality(WokenEmpty) \in Nat
  /\ IsFiniteSet(WokenEmpty') /\ Cardinality(WokenEmpty') \in Nat
  /\ IsFiniteSet(WokenFull) /\ Cardinality(WokenFull) \in Nat
  /\ IsFiniteSet(WokenFull') /\ Cardinality(WokenFull') \in Nat
<1>1. IsFiniteSet(Threads)
  BY ThreadAssumption, FS_Union DEF Threads
<1>2. \A S : S \subseteq Workers \/ S \subseteq Threads => IsFiniteSet(S) /\ Cardinality(S) \in Nat
  BY <1>1, ThreadAssumption, FS_Subset, FS_CardinalityType
<1> QED
  BY <1>2 DEF WokenEmpty, WokenFull

\* A thread that is woken joins the woken ones, which become one more if it was
\* not among them, and no fewer if it was.
LEMMA OneMore ==
  ASSUME NEW S, NEW T, NEW x, IsFiniteSet(S), T = S \/ T = S \cup {x}
  PROVE  Cardinality(T) \in Nat /\ Cardinality(T) >= Cardinality(S)
<1>1. /\ Cardinality(S) \in Nat
      /\ x \notin S => Cardinality(S \cup {x}) = Cardinality(S) + 1
  BY SizeChange
<1>2. T = S \/ (x \notin S /\ T = S \cup {x})
  OBVIOUS
<1>3. CASE T = S
  BY <1>1, <1>3
<1>4. CASE x \notin S /\ T = S \cup {x}
  BY <1>1, <1>4
<1> QED
  BY <1>2, <1>3, <1>4

\* As long as a worker sleeps, there is a woken one for every job: a submission
\* wakes one, and a worker that uses up a job is at most one of the woken.
LEMMA EmptyStep == TypeOK /\ EmptyServed /\ [Next]_vars => EmptyServed'
<1> SUFFICES ASSUME TypeOK, EmptyServed, [Next]_vars PROVE EmptyServed'
  OBVIOUS
<1> USE SizeAssumption
<1>t. head \in Nat /\ tail \in Nat /\ pc \in [Threads -> Locations] /\ Workers \subseteq Threads
  BY DEF TypeOK, Locations, Threads
<1>f. /\ IsFiniteSet(WokenEmpty) /\ Cardinality(WokenEmpty) \in Nat
      /\ IsFiniteSet(WokenEmpty') /\ Cardinality(WokenEmpty') \in Nat
  BY WokenFinite
<1>w. EmptyServed <=> (NotEmpty # {} => Cardinality(WokenEmpty) >= tail - head)
  BY DEF EmptyServed, get_queue_count
<1>p. EmptyServed' <=> (NotEmpty' # {} => Cardinality(WokenEmpty') >= tail' - head')
  BY DEF EmptyServed, get_queue_count
<1>1. ASSUME NotEmpty' \subseteq NotEmpty, WokenEmpty' = WokenEmpty, tail' = tail, head' = head
      PROVE  EmptyServed'
  BY <1>1, <1>w, <1>p
<1>2. ASSUME NEW t \in Threads, FastFail(t) PROVE EmptyServed'
  BY <1>2, <1>1, <1>t DEF FastFail, Goto, pool, NotEmpty, WokenEmpty
<1>3. ASSUME NEW t \in Threads, SubmitJob(t) PROVE EmptyServed'
  <2>1. CASE \/ SubmitBlocks /\ Goto(t, "wait_full") /\ UNCHANGED <<queue, tail>>
             \/ Rejects /\ Goto(t, "idle") /\ UNCHANGED <<queue, tail>>
    BY <1>3, <2>1, <1>1, <1>t DEF SubmitJob, Goto, NotEmpty, WokenEmpty
  <2>2. ASSUME NEW W \in NotEmptySignal(NotEmpty), GotoWaking(t, "idle", W, "woken_empty"),
               tail' = tail + 1, NotEmpty' # {}
        PROVE  Cardinality(WokenEmpty') >= tail' - head'
    <3>1. NotEmpty # {}
      BY <2>2, <1>t DEF GotoWaking, NotEmpty
    <3>2. PICK w \in NotEmpty : W = {w}
      BY <2>2, <3>1 DEF NotEmptySignal, SignalChoices
    <3>3. w \notin WokenEmpty
      BY DEF NotEmpty, WokenEmpty
    <3>4. WokenEmpty' = WokenEmpty \cup {w}
      BY <1>3, <2>2, <3>2, <1>t DEF SubmitJob, GotoWaking, NotEmpty, WokenEmpty
    <3>5. Cardinality(WokenEmpty \cup {w}) = Cardinality(WokenEmpty) + 1
      BY <3>3, <1>f, SizeChange
    <3>6. head' = head
      BY <1>3 DEF SubmitJob
    <3> QED
      BY <3>1, <3>4, <3>5, <3>6, <2>2, <1>t, <1>f, <1>w
  <2> QED
    BY <1>3, <2>1, <2>2, <1>p DEF SubmitJob
<1>4. ASSUME NEW t \in Threads, SpuriousWakeup(t) PROVE EmptyServed'
  <2>1. NotEmpty' \subseteq NotEmpty /\ tail' = tail /\ head' = head
    BY <1>4, <1>t DEF SpuriousWakeup, Goto, NotEmpty, pool
  <2>2. WokenEmpty' = WokenEmpty \/ WokenEmpty' = WokenEmpty \cup {t}
    BY <1>4, <1>t DEF SpuriousWakeup, Goto, WokenEmpty
  <2>3. Cardinality(WokenEmpty') >= Cardinality(WokenEmpty)
    BY <2>2, <1>f, OneMore
  <2> QED
    BY <2>1, <2>3, <1>f, <1>t, <1>w, <1>p
<1>5. ASSUME NEW w \in Workers, WorkerTake(w) PROVE EmptyServed'
  <2>1. CASE WorkerBlocks /\ Goto(w, "wait_empty") /\ UNCHANGED <<head, curr>>
    <3>1. tail' - head' = 0
      BY <1>5, <2>1, <1>t DEF WorkerTake, WorkerBlocks, get_queue_count
    <3> QED
      BY <3>1, <1>f, <1>p
  <2>2. ASSUME NEW W \in SignalChoices(NotFull), GotoWaking(w, "run", W, "woken_full"),
               head' = head + 1
        PROVE  EmptyServed'
    <3>1. NotEmpty' \subseteq NotEmpty
      BY <2>2, <1>t DEF GotoWaking, NotEmpty
    <3>2. WokenEmpty' = WokenEmpty \ {w}
      BY <2>2, <1>t DEF GotoWaking, WokenEmpty, SignalChoices, NotFull
    <3>3. /\ Cardinality(WokenEmpty \ {w}) \in Nat
          /\ Cardinality(WokenEmpty \ {w}) >= Cardinality(WokenEmpty) - 1
      BY <1>f, SizeChange
    <3>4. tail' = tail
      BY <1>5 DEF WorkerTake
    <3> QED
      BY <3>1, <3>2, <3>3, <3>4, <2>2, <1>t, <1>f, <1>w, <1>p
  <2> QED
    BY <1>5, <2>1, <2>2 DEF WorkerTake
<1>6. ASSUME NEW w \in Workers, RunJob(w) PROVE EmptyServed'
  BY <1>6, <1>1, <1>t DEF RunJob, Goto, pool, NotEmpty, WokenEmpty
<1>7. CASE RequestStop
  <2>1. NotEmpty' = {}
    BY <1>7, <1>t DEF RequestStop, NotEmpty, NotFull
  <2> QED
    BY <2>1, <1>p
<1>8. CASE UNCHANGED vars
  BY <1>8, <1>1 DEF vars, pool, NotEmpty, WokenEmpty
<1> QED
  BY <1>2, <1>3, <1>4, <1>5, <1>6, <1>7, <1>8 DEF Next

\* As long as a thread sleeps on not_full, there is a woken one for every free
\* slot: a worker that takes a job wakes one, and a thread that fills a slot is
\* at most one of the woken.
LEMMA FullStep == TypeOK /\ StoppedAwake /\ FullServed /\ [Next]_vars => FullServed'
<1> SUFFICES ASSUME TypeOK, StoppedAwake, FullServed, [Next]_vars PROVE FullServed'
  OBVIOUS
<1> USE SizeAssumption
<1>t. head \in Nat /\ tail \in Nat /\ pc \in [Threads -> Locations] /\ Workers \subseteq Threads
  BY DEF TypeOK, Locations, Threads
<1>f. /\ IsFiniteSet(WokenFull) /\ Cardinality(WokenFull) \in Nat
      /\ IsFiniteSet(WokenFull') /\ Cardinality(WokenFull') \in Nat
  BY WokenFinite
<1>w. FullServed <=> (NotFull # {} => Cardinality(WokenFull) >= QMax - (tail - head))
  BY DEF FullServed, get_queue_count
<1>p. FullServed' <=> (NotFull' # {} => Cardinality(WokenFull') >= QMax - (tail' - head'))
  BY DEF FullServed, get_queue_count
<1>1. ASSUME NotFull' \subseteq NotFull, WokenFull' = WokenFull, tail' = tail, head' = head
      PROVE  FullServed'
  BY <1>1, <1>w, <1>p
<1>2. ASSUME NEW t \in Threads, FastFail(t) PROVE FullServed'
  BY <1>2, <1>1, <1>t DEF FastFail, Goto, pool, NotFull, WokenFull
<1>3. ASSUME NEW t \in Threads, SubmitJob(t) PROVE FullServed'
  <2>1. CASE SubmitBlocks /\ Goto(t, "wait_full") /\ UNCHANGED <<queue, tail>>
    <3>1. QMax - (tail' - head') = 0
      BY <1>3, <2>1, <1>t DEF SubmitJob, SubmitBlocks, get_queue_count
    <3> QED
      BY <3>1, <1>f, <1>p
  <2>2. CASE Rejects /\ Goto(t, "idle") /\ UNCHANGED <<queue, tail>>
    <3>1. NotFull' \subseteq NotFull /\ NotFull = {}
      BY <2>2, <1>t DEF Goto, Rejects, StoppedAwake, NotFull
    <3> QED
      BY <3>1, <1>p
  <2>3. ASSUME NEW W \in NotEmptySignal(NotEmpty), GotoWaking(t, "idle", W, "woken_empty"),
               tail' = tail + 1
        PROVE  FullServed'
    <3>1. NotFull' \subseteq NotFull
      BY <2>3, <1>t DEF GotoWaking, NotFull
    <3>2. WokenFull' = WokenFull \ {t}
      BY <2>3, <1>t DEF GotoWaking, WokenFull, NotEmptySignal, SignalChoices, NotEmpty
    <3>3. /\ Cardinality(WokenFull \ {t}) \in Nat
          /\ Cardinality(WokenFull \ {t}) >= Cardinality(WokenFull) - 1
      BY <1>f, SizeChange
    <3>4. head' = head
      BY <1>3 DEF SubmitJob
    <3> QED
      BY <3>1, <3>2, <3>3, <3>4, <2>3, <1>t, <1>f, <1>w, <1>p
  <2> QED
    BY <1>3, <2>1, <2>2, <2>3 DEF SubmitJob
<1>4. ASSUME NEW t \in Threads, SpuriousWakeup(t) PROVE FullServed'
  <2>1. NotFull' \subseteq NotFull /\ tail' = tail /\ head' = head
    BY <1>4, <1>t DEF SpuriousWakeup, Goto, NotFull, pool
  <2>2. WokenFull' = WokenFull \/ WokenFull' = WokenFull \cup {t}
    BY <1>4, <1>t DEF SpuriousWakeup, Goto, WokenFull
  <2>3. Cardinality(WokenFull') >= Cardinality(WokenFull)
    BY <2>2, <1>f, OneMore
  <2> QED
    BY <2>1, <2>3, <1>f, <1>t, <1>w, <1>p
<1>5. ASSUME NEW w \in Workers, WorkerTake(w) PROVE FullServed'
  <2>1. CASE WorkerBlocks /\ Goto(w, "wait_empty") /\ UNCHANGED <<head, curr>>
    BY <1>5, <2>1, <1>1, <1>t DEF WorkerTake, Goto, NotFull, WokenFull
  <2>2. ASSUME NEW W \in SignalChoices(NotFull), GotoWaking(w, "run", W, "woken_full"),
               head' = head + 1, NotFull' # {}
        PROVE  Cardinality(WokenFull') >= QMax - (tail' - head')
    <3>1. NotFull # {}
      BY <2>2, <1>t DEF GotoWaking, NotFull
    <3>2. PICK t \in NotFull : W = {t}
      BY <2>2, <3>1 DEF SignalChoices
    <3>3. t \notin WokenFull
      BY DEF NotFull, WokenFull
    <3>4. WokenFull' = WokenFull \cup {t}
      BY <1>5, <2>2, <3>2, <1>t DEF WorkerTake, GotoWaking, NotFull, WokenFull
    <3>5. Cardinality(WokenFull \cup {t}) = Cardinality(WokenFull) + 1
      BY <3>3, <1>f, SizeChange
    <3>6. tail' = tail
      BY <1>5 DEF WorkerTake
    <3> QED
      BY <3>1, <3>4, <3>5, <3>6, <2>2, <1>t, <1>f, <1>w
  <2> QED
    BY <1>5, <2>1, <2>2, <1>p DEF WorkerTake
<1>6. ASSUME NEW w \in Workers, RunJob(w) PROVE FullServed'
  BY <1>6, <1>1, <1>t DEF RunJob, Goto, pool, NotFull, WokenFull
<1>7. CASE RequestStop
  <2>1. NotFull' = {}
    BY <1>7, <1>t DEF RequestStop, NotEmpty, NotFull
  <2> QED
    BY <2>1, <1>p
<1>8. CASE UNCHANGED vars
  BY <1>8, <1>1 DEF vars, pool, NotFull, WokenFull
<1> QED
  BY <1>2, <1>3, <1>4, <1>5, <1>6, <1>7, <1>8 DEF Next

\* The three parts of NoLostWakeup are preserved together.
LEMMA WakeupStep == TypeOK /\ NoLostWakeup /\ [Next]_vars => NoLostWakeup'
<1>1. NoLostWakeup <=> EmptyServed /\ FullServed /\ StoppedAwake
  BY DEF NoLostWakeup, EmptyServed, FullServed, StoppedAwake
<1>2. NoLostWakeup' <=> EmptyServed' /\ FullServed' /\ StoppedAwake'
  BY DEF NoLostWakeup, EmptyServed, FullServed, StoppedAwake
<1> QED
  BY <1>1, <1>2, EmptyStep, FullStep, AwakeStep

\* Until the stop request every job is called at most once: a worker takes the
\* job at head, which nobody took before, and calls it once.
LEMMA OnceStep ==
  TypeOK /\ HeadBehind /\ PendingIntact /\ RunsOnce /\ [Next]_vars => RunsOnce'
<1> SUFFICES ASSUME TypeOK, HeadBehind, PendingIntact, RunsOnce, [Next]_vars, ~stopping'
             PROVE  RunsOnce'
  BY DEF RunsOnce
<1> USE SizeAssumption
<1>t. /\ head \in Nat /\ tail \in Nat /\ tail <= MaxJobs /\ pc \in [Threads -> Locations]
      /\ Workers \subseteq Threads
      /\ curr \in [Workers -> {0} \cup Jobs] /\ runs \in [{0} \cup Jobs -> Nat]
  BY DEF TypeOK, Locations, Threads
<1>n. 0 \notin Jobs /\ Jobs \subseteq Nat
  BY DEF Jobs
<1>s. ~stopping
  BY DEF Next, FastFail, SubmitJob, SpuriousWakeup, WorkerTake, RunJob, RequestStop, vars, pool
<1>1. ASSUME Running' = Running, UNCHANGED <<head, curr, runs>> PROVE RunsOnce'
  BY <1>1, <1>s DEF RunsOnce, Running
<1>2. ASSUME NEW t \in Threads, FastFail(t) \/ SubmitJob(t) \/ SpuriousWakeup(t) PROVE RunsOnce'
  <2>1. UNCHANGED <<head, curr, runs>>
    BY <1>2 DEF FastFail, SubmitJob, SpuriousWakeup, pool
  <2>2. CASE FastFail(t) \/ SpuriousWakeup(t)
    BY <2>1, <2>2, <1>1, <1>t DEF FastFail, SpuriousWakeup, Goto, Running
  <2>3. CASE SubmitJob(t)
    <3>1. ASSUME NEW W \in NotEmptySignal(NotEmpty), GotoWaking(t, "idle", W, "woken_empty")
          PROVE  Running' = Running
      BY <2>3, <3>1, <1>t DEF SubmitJob, GotoWaking, NotEmptySignal, SignalChoices, NotEmpty, Running
    <3>2. ASSUME NEW l \in {"wait_full", "idle"}, Goto(t, l) PROVE Running' = Running
      BY <2>3, <3>2, <1>t DEF SubmitJob, Goto, Running
    <3> QED
      BY <2>1, <2>3, <3>1, <3>2, <1>1 DEF SubmitJob
  <2> QED
    BY <1>2, <2>2, <2>3
<1>3. ASSUME NEW w \in Workers, WorkerTake(w) PROVE RunsOnce'
  <2>1. CASE WorkerBlocks /\ Goto(w, "wait_empty") /\ UNCHANGED <<head, curr>>
    BY <1>3, <2>1, <1>1, <1>t DEF WorkerTake, Goto, Running
  <2>2. ASSUME ~WorkerBlocks, curr' = [curr EXCEPT ![w] = queue[HeadSlot(head)]],
               head' = head + 1,
               NEW W \in SignalChoices(NotFull), GotoWaking(w, "run", W, "woken_full")
        PROVE  RunsOnce'
    <3>1. head < tail
      BY <2>2, <1>s, <1>t DEF WorkerBlocks, get_queue_count, HeadBehind
    <3>2. queue[HeadSlot(head)] = head + 1 /\ head + 1 \in Jobs
      <4>1. head \in head .. tail - 1 /\ head + 1 \in 1 .. MaxJobs
        BY <3>1, <1>t
      <4> QED
        BY <4>1 DEF PendingIntact, HeadSlot, Jobs
    <3>3. w \notin Running /\ runs' = runs
      BY <1>3 DEF WorkerTake, Running
    <3>4. Running' = Running \cup {w}
      BY <2>2, <1>t DEF GotoWaking, Running, SignalChoices, NotFull
    <3>5. curr'[w] = head + 1 /\ \A v \in Running : curr'[v] = curr[v] /\ curr'[v] <= head
      BY <2>2, <3>2, <3>3, <1>t, <1>s DEF RunsOnce, Running
    <3>6. runs[head + 1] = 0
      BY <3>2, <1>t, <1>s DEF RunsOnce
    <3>7. \A v \in Running' : curr'[v] \in Jobs /\ curr'[v] <= head' /\ runs'[curr'[v]] = 0
      <4>1. ASSUME NEW v \in Running PROVE curr'[v] \in Jobs /\ curr'[v] <= head' /\ runs'[curr'[v]] = 0
        <5>1. curr[v] \in Jobs /\ runs[curr[v]] = 0
          BY <4>1, <1>s DEF RunsOnce
        <5>2. curr'[v] \in Nat /\ curr'[v] <= head
          BY <4>1, <3>5, <5>1, <1>n
        <5> QED
          BY <4>1, <5>1, <5>2, <2>2, <3>3, <3>5, <1>t
      <4>2. curr'[w] \in Jobs /\ curr'[w] <= head' /\ runs'[curr'[w]] = 0
        BY <2>2, <3>2, <3>3, <3>5, <3>6, <1>t
      <4> QED
        BY <3>4, <4>1, <4>2
    <3>8. \A u, v \in Running' : curr'[u] = curr'[v] => u = v
      BY <3>4, <3>5, <1>s, <1>t, <1>n DEF RunsOnce
    <3>9. runs'[0] = 0 /\ \A j \in Jobs : runs'[j] <= 1 /\ (j > head' => runs'[j] = 0)
      BY <2>2, <3>3, <1>s, <1>t, <1>n DEF RunsOnce
    <3> QED
      BY <3>7, <3>8, <3>9 DEF RunsOnce
  <2> QED
    BY <1>3, <2>1, <2>2 DEF WorkerTake
<1>4. ASSUME NEW w \in Workers, RunJob(w) PROVE RunsOnce'
  <2>1. w \in Running /\ runs' = [runs EXCEPT ![curr[w]] = @ + 1] /\ UNCHANGED <<head, curr>>
    BY <1>4 DEF RunJob, Running, pool
  <2>2. Running' = Running \ {w}
    BY <1>4, <1>t DEF RunJob, Goto, Running
  <2>3. curr[w] \in Jobs /\ curr[w] <= head /\ runs[curr[w]] = 0
    BY <2>1, <1>s DEF RunsOnce
  <2>4. runs'[curr[w]] = 1 /\ \A j \in {0} \cup Jobs : j # curr[w] => runs'[j] = runs[j]
    BY <2>1, <2>3, <1>t
  <2>5. \A v \in Running' : curr[v] # curr[w] /\ curr[v] \in Jobs
    BY <2>1, <2>2, <1>s DEF RunsOnce
  <2>6. \A j \in Jobs : runs'[j] <= 1 /\ (j > head => runs'[j] = 0)
    BY <2>3, <2>4, <1>s, <1>t, <1>n DEF RunsOnce
  <2>7. runs'[0] = 0
    BY <2>3, <2>4, <1>s, <1>n DEF RunsOnce
  <2>8. \A v \in Running' : curr'[v] \in Jobs /\ curr'[v] <= head' /\ runs'[curr'[v]] = 0
    BY <2>1, <2>2, <2>4, <2>5, <1>s DEF RunsOnce
  <2>9. \A u, v \in Running' : curr'[u] = curr'[v] => u = v
    BY <2>1, <2>2, <1>s DEF RunsOnce
  <2> QED
    BY <2>1, <2>6, <2>7, <2>8, <2>9 DEF RunsOnce
<1>5. CASE RequestStop
  BY <1>5 DEF RequestStop
<1>6. CASE UNCHANGED vars
  BY <1>6, <1>1 DEF vars, pool, Running
<1> QED
  BY <1>2, <1>3, <1>4, <1>5, <1>6 DEF Next

\* The parts of the invariant are preserved together.
LEMMA IInvStep == IInv /\ [Next]_vars => IInv'
  BY TypeStep, RingStep, WakeupStep, OnceStep DEF IInv

\* The inductive invariant holds in every reachable state.
LEMMA IInvHolds == Spec => []IInv
  BY InitIInv, IInvStep, PTL DEF Spec

\* The fields of the pool stay within their bounds; above all the ring is never
\* overfull, although submit_job waits for count = Q_MAX and not for >=.
THEOREM TypeCorrect == Spec => []TypeOK
  BY IInvHolds, PTL DEF IInv

\* A job that waits in the ring is never overwritten, for every ring size.
THEOREM PendingCorrect == Spec => []PendingIntact
  BY IInvHolds, PTL DEF IInv

\* One signal per submission and one per job taken lose no wakeup on either
\* condition, and request_stop's broadcasts leave nobody asleep, however many
\* threads there are.
THEOREM WakeupCorrect == Spec => []NoLostWakeup
  BY IInvHolds, PTL DEF IInv

\* Until a stop is requested the workers do what their comment asks for: they
\* call no job twice and no empty slot.  What the run worker_queue_drain shows
\* of the code can happen only after a stop request.
THEOREM DrainsUntilStop == Spec => [](~stopping => DrainsExistingJobs)
<1>1. IInv => (~stopping => DrainsExistingJobs)
  BY DEF IInv, RunsOnce, DrainsExistingJobs
<1> QED
  BY <1>1, IInvHolds, PTL

\* Once stopping is set no submission enters the ring: the check under the lock
\* catches the submitters that passed the unlocked one.
THEOREM NothingAfterStop == Spec => NoSubmitAfterStop
<1>1. [Next]_vars => [stopping => tail' = tail]_vars
  BY DEF Next, vars, pool, FastFail, SubmitJob, Rejects, SpuriousWakeup, WorkerTake, RunJob, RequestStop
<1> QED
  BY <1>1, PTL DEF Spec, NoSubmitAfterStop
=============================================================================
