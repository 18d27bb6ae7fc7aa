----------------------------- MODULE ThreadPool -----------------------------
(***************************************************************************)
(* thread_pool_shutdown.c: submitters put jobs into a ring and workers run *)
(* them outside the mutex.  A step is a critical section of p->mu, or the  *)
(* call of a job.  tp_shutdown has no body: the state stays TP_RUNNING and *)
(* the branches for the other states, the -2 of tp_submit among them, are  *)
(* never taken.  tp_worker_main has no loop: a worker runs one job.  The   *)
(* condition of line 108 breaks off after count == TP_CAP, and is that.    *)
(* A job is known by the number of its submission.                         *)
(***************************************************************************)
EXTENDS Integers, FiniteSets, CondVar, ProofLemmas

CONSTANTS Submitters, Workers,  \* the threads
          TP_CAP,
          MaxJobs               \* bound: how many submissions succeed

PoolAssumption == /\ TP_CAP \in Nat \ {0} /\ MaxJobs \in Nat
                  /\ IsFiniteSet(Submitters) /\ IsFiniteSet(Workers)
                  /\ Submitters \cap Workers = {}

VARIABLES data, head, tail, count, active,  \* struct thread_pool, its queue in data
          pc,     \* where a thread is, see TypeOK
          curr,   \* a worker's job
          calls   \* how often each job was called

ring == <<data, head, tail, count>>
vars == <<ring, active, pc, curr, calls>>

Threads == Submitters \cup Workers
Slots == 0 .. TP_CAP - 1
Jobs == 1 .. MaxJobs
NotFull == {s \in Submitters : pc[s] = "wait"}
NotEmpty == {w \in Workers : pc[w] = "wait"}
Woken(S) == {t \in S : pc[t] = "woken"}

TypeOK == /\ data \in [Slots -> {0} \cup Jobs] /\ head \in Slots /\ tail \in Slots
          /\ count \in 0 .. TP_CAP /\ active \in 0 .. Cardinality(Workers)
          /\ pc \in [Threads -> {"idle", "wait", "woken", "run", "ran", "end"}]
          /\ curr \in [Workers -> {0} \cup Jobs] /\ calls \in [Jobs -> Nat]

Init == /\ data = [s \in Slots |-> 0] /\ head = 0 /\ tail = 0 /\ count = 0 /\ active = 0
        /\ pc = [t \in Threads |-> "idle"]
        /\ curr = [w \in Workers |-> 0] /\ calls = [j \in Jobs |-> 0]

\* How many jobs were taken, and how many were submitted before.
Taken == Cardinality({w \in Workers : curr[w] # 0})
Accepted == Taken + count

Goto(t, l, W) == pc' = [u \in Threads |-> IF u = t THEN l ELSE IF u \in W THEN "woken" ELSE pc[u]]
MutantSubmitBlocks == FALSE
SubmitBlocks == count = TP_CAP

\* tp_submit, on first entry or after a wait.
tp_submit(s) ==
  /\ pc[s] \in {"idle", "woken"}
  /\ \/ SubmitBlocks /\ Goto(s, "wait", {}) /\ UNCHANGED <<ring, active, curr, calls>>
     \/ /\ ~SubmitBlocks /\ Accepted < MaxJobs
        /\ data' = [data EXCEPT ![tail] = Accepted + 1]
        /\ count' = count + 1 /\ tail' = (tail + 1) % TP_CAP
        /\ \E W \in SignalChoices(NotEmpty) : Goto(s, "idle", W)
        /\ UNCHANGED <<head, active, curr, calls>>

\* tp_worker_main up to the call: wait for a job, take it, count it as active.
TakeJob(w) ==
  /\ pc[w] \in {"idle", "woken"}
  /\ \/ count = 0 /\ Goto(w, "wait", {}) /\ UNCHANGED <<ring, active, curr, calls>>
     \/ /\ count > 0
        /\ curr' = [curr EXCEPT ![w] = data[head]]
        /\ count' = count - 1 /\ head' = (head + 1) % TP_CAP
        /\ active' = active + 1
        /\ \E W \in SignalChoices(NotFull) : Goto(w, "run", W)
        /\ UNCHANGED <<data, tail, calls>>

\* The call, which passes the function where its argument belongs (line 147),
\* and the second critical section.
RunJob(w) == /\ pc[w] = "run" /\ Goto(w, "ran", {})
             /\ calls' = [calls EXCEPT ![curr[w]] = @ + 1]
             /\ UNCHANGED <<ring, active, curr>>
EndJob(w) == /\ pc[w] = "ran" /\ Goto(w, "end", {}) /\ active' = active - 1
             /\ UNCHANGED <<ring, curr, calls>>

SpuriousWakeup(t) == /\ pc[t] = "wait" /\ Goto(t, "woken", {})
                     /\ UNCHANGED <<ring, active, curr, calls>>

tp_worker_main(w) == TakeJob(w) \/ RunJob(w) \/ EndJob(w)
Next == \/ \E s \in Submitters : tp_submit(s)
        \/ \E w \in Workers : tp_worker_main(w)
        \/ \E t \in Threads : SpuriousWakeup(t)
Spec == Init /\ [][Next]_vars
-----------------------------------------------------------------------------
\* "A job record is owned by exactly one place": the queue holds the jobs that
\* nobody has taken, oldest first, a worker the one it took, and no job is
\* called twice; "`active` equals the number of jobs currently running".
OnePlace == /\ \A i \in 0 .. count - 1 : data[(head + i) % TP_CAP] = Taken + i + 1
            /\ {curr[w] : w \in Workers} \ {0} = 1 .. Taken
            /\ \A j \in Jobs : calls[j] <= 1
            /\ active = Cardinality({w \in Workers : pc[w] \in {"run", "ran"}})

\* While a worker sleeps, as many workers are on their way to the mutex as
\* there are jobs; while a submitter sleeps, as many submitters as free slots.
NoLostWakeup == /\ NotEmpty # {} => Cardinality(Woken(Workers)) >= count
                /\ NotFull # {} => Cardinality(Woken(Submitters)) >= TP_CAP - count

\* Of the accepted jobs, as many as there are workers have been called.
AllCalled == \A j \in Jobs : j <= Accepted /\ j <= Cardinality(Workers) => calls[j] = 1
-----------------------------------------------------------------------------
\* The thread pool: tail follows from head and count, and a worker that has
\* taken a job is the only one that has it and has called it at most once.
PoolPlaces == {"idle", "wait", "woken", "run", "ran", "end"}
Busy == {w \in Workers : curr[w] # 0}
Active == {w \in Workers : pc[w] \in {"run", "ran"}}
JobsOwned ==
  /\ tail = (head + count) % TP_CAP /\ Taken + count <= MaxJobs
  /\ \A w \in Workers : curr[w] # 0 <=> pc[w] \in {"run", "ran", "end"}
  /\ \A v, w \in Workers : curr[v] = curr[w] /\ curr[v] # 0 => v = w
  /\ \A w \in Workers : pc[w] = "run" => calls[curr[w]] = 0
  /\ \A j \in Jobs : j > Taken => calls[j] = 0
JobsIInv == TypeOK /\ OnePlace /\ JobsOwned

\* The facts of the invariant, one by one.
LEMMA JobFacts ==
  ASSUME PoolAssumption, JobsIInv
  PROVE  /\ TP_CAP \in Nat \ {0} /\ MaxJobs \in Nat /\ Workers \subseteq Threads
         /\ data \in [Slots -> {0} \cup Jobs] /\ head \in Slots /\ tail \in Slots
         /\ count \in 0 .. TP_CAP /\ active \in Nat
         /\ pc \in [Threads -> PoolPlaces] /\ curr \in [Workers -> {0} \cup Jobs]
         /\ calls \in [Jobs -> Nat]
  BY DEF PoolAssumption, JobsIInv, TypeOK, PoolPlaces, Threads

\* The busy and the active workers are finitely many.
LEMMA JobSets ==
  ASSUME PoolAssumption
  PROVE  /\ IsFiniteSet(Busy) /\ Cardinality(Busy) \in Nat /\ Taken = Cardinality(Busy)
         /\ IsFiniteSet(Active) /\ Cardinality(Active) \in 0 .. Cardinality(Workers)
<1>1. IsFiniteSet(Workers)
  BY DEF PoolAssumption
<1>2. IsFiniteSet(Busy) /\ IsFiniteSet(Active) /\ Cardinality(Active) <= Cardinality(Workers)
  BY <1>1, FS_Subset DEF Busy, Active
<1>3. Cardinality(Workers) \in Nat /\ Cardinality(Active) \in Nat /\ Cardinality(Busy) \in Nat
  BY <1>1, <1>2, FS_CardinalityType
<1> QED
  BY <1>2, <1>3 DEF Taken, Busy

\* The pool starts empty, with no job taken or called.
LEMMA JobsInit ==
  ASSUME PoolAssumption, Init
  PROVE  JobsIInv
<1>1. Busy = {} /\ Active = {}
  BY DEF Init, Busy, Active, Threads
<1>2. Cardinality(Busy) = 0 /\ Cardinality(Active) = 0
  BY <1>1, FS_EmptySet
<1>3. TypeOK
  <2>1. active \in 0 .. Cardinality(Workers)
    BY <1>2, JobSets DEF Init
  <2> QED
    BY <2>1 DEF Init, TypeOK, PoolAssumption, Slots
<1>4. Taken = 0
  BY <1>2, JobSets
<1>5. OnePlace
  <2>1. {curr[w] : w \in Workers} \ {0} = 1 .. Taken
    BY <1>4 DEF Init
  <2>2. active = Cardinality(Active)
    BY <1>2 DEF Init
  <2>3. \A i \in 0 .. count - 1 : data[(head + i) % TP_CAP] = Taken + i + 1
    BY DEF Init
  <2>4. \A j \in Jobs : calls[j] <= 1
    BY DEF Init
  <2> QED
    BY <2>1, <2>2, <2>3, <2>4 DEF OnePlace, Active
<1>6. JobsOwned
  <2>1. tail = (head + count) % TP_CAP /\ Taken + count <= MaxJobs
    BY <1>4 DEF Init, PoolAssumption
  <2> QED
    BY <2>1 DEF Init, JobsOwned, Threads
<1> QED
  BY <1>3, <1>5, <1>6 DEF JobsIInv

\* A step that moves threads among those that have no job.
LEMMA WaitStep ==
  ASSUME PoolAssumption, JobsIInv, pc' \in [Threads -> PoolPlaces],
         \A w \in Workers : \/ pc'[w] = pc[w]
                            \/ /\ pc[w] \in {"idle", "wait", "woken"}
                               /\ pc'[w] \in {"idle", "wait", "woken"},
         UNCHANGED <<ring, active, curr, calls>>
  PROVE  JobsIInv'
<1>1. Busy' = Busy /\ Taken' = Taken
  BY DEF Busy, Taken
<1>2. Active' = Active
  BY DEF Active
<1>3. TypeOK'
  BY DEF JobsIInv, TypeOK, PoolPlaces, ring
<1>4. OnePlace'
  BY <1>1, <1>2 DEF JobsIInv, OnePlace, Active, ring
<1>5. JobsOwned'
  BY <1>1 DEF JobsIInv, JobsOwned, ring
<1> QED
  BY <1>3, <1>4, <1>5 DEF JobsIInv

\* tp_submit stores the next job behind the others.
LEMMA SubmitStep ==
  ASSUME PoolAssumption, JobsIInv, NEW s \in Submitters, tp_submit(s), ~SubmitBlocks
  PROVE  JobsIInv'
<1>s. /\ count \in 0 .. TP_CAP - 1 /\ Taken + count < MaxJobs
      /\ data' = [data EXCEPT ![tail] = Taken + count + 1]
      /\ count' = count + 1 /\ tail' = (tail + 1) % TP_CAP
      /\ UNCHANGED <<head, active, curr, calls>>
  BY JobFacts DEF tp_submit, SubmitBlocks, Accepted
<1>w. PICK W \in SignalChoices(NotEmpty) : Goto(s, "idle", W)
  BY DEF tp_submit
<1>p. /\ pc' \in [Threads -> PoolPlaces]
      /\ \A w \in Workers : pc'[w] = pc[w] \/ (pc[w] = "wait" /\ pc'[w] = "woken")
  BY <1>w, JobFacts DEF Goto, SignalChoices, NotEmpty, PoolPlaces, PoolAssumption, Threads
<1>1. Busy' = Busy /\ Taken' = Taken
  BY <1>s DEF Busy, Taken
<1>2. Active' = Active
  BY <1>p DEF Active
<1>t. Taken \in Nat
  BY JobSets
<1>3. /\ Taken \in Nat /\ head \in Nat /\ count \in Nat /\ tail = (head + count) % TP_CAP
      /\ TP_CAP \in Nat \ {0} /\ MaxJobs \in Nat
  BY <1>t, JobFacts DEF JobsIInv, JobsOwned, Slots
<1>4. tail' = (head + count') % TP_CAP
  <2>1. head + count \in Nat /\ 1 \in Nat
    BY <1>3
  <2>2. (((head + count) % TP_CAP) + 1) % TP_CAP = ((head + count) + 1) % TP_CAP
    BY <2>1, <1>3, ModAdd
  <2>3. (head + count) + 1 = head + count'
    BY <1>s, <1>3
  <2> QED
    BY <2>2, <2>3, <1>s, <1>3
<1>5. tail' \in Slots
  <2>1. head + count' \in Nat
    BY <1>3, <1>s
  <2> QED
    BY <2>1, <1>3, <1>4, DivMod DEF Slots
<1>6. TypeOK'
  <2>1. data' \in [Slots -> {0} \cup Jobs]
    <3>1. Taken + count + 1 \in Jobs
      BY <1>s, <1>3 DEF Jobs
    <3> QED
      BY <3>1, <1>s, JobFacts
  <2>2. count' \in 0 .. TP_CAP
    BY <1>s, <1>3
  <2> QED
    BY <1>s, <1>p, <1>5, <2>1, <2>2 DEF JobsIInv, TypeOK, PoolPlaces
<1>7. ASSUME NEW i \in 0 .. count PROVE data'[(head + i) % TP_CAP] = Taken + i + 1
  <2>0. i \in Nat /\ head + i \in Nat /\ head + count \in Nat
    BY <1>3
  <2>1. (head + i) % TP_CAP \in Slots
    BY <2>0, <1>3, DivMod DEF Slots
  <2>2. CASE i = count
    BY <2>1, <2>2, <1>s, <1>3, JobFacts
  <2>3. CASE i < count
    <3>1. (head + i) % TP_CAP # (head + count) % TP_CAP
      <4>1. head + i < head + count /\ head + count < (head + i) + TP_CAP
        BY <2>0, <2>3, <1>s, <1>3
      <4> QED
        BY <4>1, <2>0, <1>3, ModDistinct
    <3>2. data[(head + i) % TP_CAP] = Taken + i + 1
      <4>1. i \in 0 .. count - 1
        BY <2>0, <2>3, <1>3
      <4> QED
        BY <4>1 DEF JobsIInv, OnePlace
    <3> QED
      BY <2>1, <3>1, <3>2, <1>s, <1>3, JobFacts
  <2> QED
    BY <2>0, <2>2, <2>3, <1>3
<1>8. OnePlace'
  <2>1. 0 .. count' - 1 = 0 .. count
    BY <1>s, <1>3
  <2>2. \A i \in 0 .. count' - 1 : data'[(head' + i) % TP_CAP] = Taken' + i + 1
    BY <2>1, <1>7, <1>s, <1>1
  <2>3. {curr'[w] : w \in Workers} \ {0} = 1 .. Taken'
    BY <1>s, <1>1 DEF JobsIInv, OnePlace
  <2>4. active' = Cardinality(Active')
    BY <1>s, <1>2 DEF JobsIInv, OnePlace, Active
  <2> QED
    BY <2>2, <2>3, <2>4, <1>s DEF JobsIInv, OnePlace, Active
<1>9. JobsOwned'
  <2>1. Taken' + count' <= MaxJobs
    BY <1>s, <1>1, <1>3
  <2> QED
    BY <2>1, <1>4, <1>s, <1>1, <1>p DEF JobsIInv, JobsOwned
<1> QED
  BY <1>6, <1>8, <1>9 DEF JobsIInv

\* tp_worker_main takes the oldest job.
LEMMA TakeStep ==
  ASSUME PoolAssumption, JobsIInv, NEW w \in Workers, TakeJob(w), count > 0
  PROVE  JobsIInv'
<1>s. /\ pc[w] \in {"idle", "woken"} /\ curr' = [curr EXCEPT ![w] = data[head]]
      /\ count' = count - 1 /\ head' = (head + 1) % TP_CAP /\ active' = active + 1
      /\ UNCHANGED <<data, tail, calls>>
  BY DEF TakeJob
<1>w. PICK W \in SignalChoices(NotFull) : Goto(w, "run", W)
  BY DEF TakeJob
<1>p. /\ pc' \in [Threads -> PoolPlaces] /\ pc'[w] = "run"
      /\ \A v \in Workers : v # w => pc'[v] = pc[v]
  BY <1>w, JobFacts DEF Goto, SignalChoices, NotFull, PoolPlaces, PoolAssumption, Threads
<1>t. Taken \in Nat
  BY JobSets
<1>3. /\ Taken \in Nat /\ head \in Nat /\ count \in Nat /\ tail = (head + count) % TP_CAP
      /\ TP_CAP \in Nat \ {0} /\ MaxJobs \in Nat /\ head \in 0 .. TP_CAP - 1
      /\ Taken + count <= MaxJobs /\ count <= TP_CAP
  BY <1>t, JobFacts DEF JobsIInv, JobsOwned, Slots
<1>4. data[head] = Taken + 1
  <2>1. (head + 0) % TP_CAP = head
    BY <1>3, ModSmall
  <2>2. 0 \in 0 .. count - 1
    BY <1>3
  <2>3. data[(head + 0) % TP_CAP] = Taken + 0 + 1
    BY <2>2 DEF JobsIInv, OnePlace
  <2> QED
    BY <2>1, <2>3, <1>3
<1>5. /\ curr[w] = 0 /\ curr' = [curr EXCEPT ![w] = Taken + 1] /\ Taken + 1 \in Jobs
      /\ curr \in [Workers -> {0} \cup Jobs]
  <2>1. curr[w] = 0
    BY <1>s DEF JobsIInv, JobsOwned
  <2>2. Taken + 1 \in Jobs
    BY <1>3 DEF Jobs
  <2> QED
    BY <2>1, <2>2, <1>s, <1>4, JobFacts
<1>6. Busy' = Busy \cup {w} /\ w \notin Busy
  BY <1>5, <1>3 DEF Busy
<1>7. Taken' = Taken + 1
  <2>1. Cardinality(Busy \cup {w}) = Cardinality(Busy) + 1
    BY <1>6, JobSets, SizeChange
  <2>2. Taken' = Cardinality(Busy')
    BY DEF Taken, Busy
  <2> QED
    BY <2>1, <2>2, <1>6, JobSets
<1>8. Active' = Active \cup {w} /\ w \notin Active
  BY <1>p, <1>s DEF Active
<1>9. Cardinality(Active \cup {w}) = Cardinality(Active) + 1
  BY <1>8, JobSets, SizeChange
<1>10. active' = Cardinality(Active') /\ active' \in 0 .. Cardinality(Workers)
  <2>1. active = Cardinality(Active)
    BY DEF JobsIInv, OnePlace, Active
  <2>2. Active' \in SUBSET Workers /\ IsFiniteSet(Workers)
    BY DEF Active, PoolAssumption
  <2>3. Cardinality(Active') <= Cardinality(Workers) /\ Cardinality(Workers) \in Nat
    BY <2>2, FS_Subset, FS_CardinalityType
  <2> QED
    <3>1. Cardinality(Active) \in Nat
      BY JobSets
    <3> QED
      BY <3>1, <2>1, <2>3, <1>8, <1>9, <1>s
<1>11. tail' = (head' + count') % TP_CAP
  <2>1. count - 1 \in Nat /\ head + 1 \in Nat
    BY <1>3
  <2>2. (((head + 1) % TP_CAP) + (count - 1)) % TP_CAP = ((head + 1) + (count - 1)) % TP_CAP
    BY <2>1, <1>3, ModAdd
  <2>3. (head + 1) + (count - 1) = head + count
    BY <1>3
  <2> QED
    BY <2>2, <2>3, <1>s, <1>3
<1>12. TypeOK'
  <2>1. head' \in Slots
    <3>1. head + 1 \in Nat
      BY <1>3
    <3> QED
      BY <3>1, <1>s, <1>3, DivMod DEF Slots
  <2>2. count' \in 0 .. TP_CAP
    BY <1>s, <1>3
  <2>3. curr' \in [Workers -> {0} \cup Jobs]
    BY <1>5
  <2> QED
    BY <2>1, <2>2, <2>3, <1>s, <1>p, <1>10 DEF JobsIInv, TypeOK, PoolPlaces
<1>13. ASSUME NEW i \in 0 .. count' - 1 PROVE data'[(head' + i) % TP_CAP] = Taken' + i + 1
  <2>1. i \in Nat /\ i + 1 \in 0 .. count - 1 /\ head + 1 \in Nat
    BY <1>s, <1>3
  <2>2. (head' + i) % TP_CAP = ((head + 1) + i) % TP_CAP
    BY <1>s, <1>3, <2>1, ModAdd
  <2>3. (head + 1) + i = head + (i + 1)
    BY <2>1, <1>3
  <2>4. data[(head + (i + 1)) % TP_CAP] = Taken + (i + 1) + 1
    BY <2>1 DEF JobsIInv, OnePlace
  <2> QED
    BY <2>1, <2>2, <2>3, <2>4, <1>s, <1>7, <1>3
<1>14. {curr[v] : v \in Workers} \ {0} = 1 .. Taken
  BY DEF JobsIInv, OnePlace
<1>15. OnePlace'
  <2>1. {curr'[v] : v \in Workers} \ {0} = 1 .. Taken'
    <3>1. {curr'[v] : v \in Workers} \ {0} = ({curr[v] : v \in Workers} \ {0}) \cup {Taken + 1}
      BY <1>5, <1>3
    <3>2. 1 .. Taken' = (1 .. Taken) \cup {Taken + 1}
      BY <1>7, <1>3
    <3> QED
      BY <3>1, <3>2, <1>14
  <2>2. \A j \in Jobs : calls'[j] <= 1
    BY <1>s DEF JobsIInv, OnePlace
  <2> QED
    BY <2>1, <2>2, <1>13, <1>10 DEF OnePlace, Active
<1>16. JobsOwned'
  <2>1. Taken' + count' <= MaxJobs
    BY <1>s, <1>7, <1>3
  <2>2. \A v \in Workers : curr'[v] # 0 <=> pc'[v] \in {"run", "ran", "end"}
    BY <1>5, <1>p, <1>3 DEF JobsIInv, JobsOwned
  <2>3. \A v \in Workers : v # w => curr'[v] = curr[v] /\ curr[v] # Taken + 1
    BY <1>5, <1>14, <1>3
  <2>4. \A u, v \in Workers : curr'[u] = curr'[v] /\ curr'[u] # 0 => u = v
    BY <2>3, <1>5 DEF JobsIInv, JobsOwned
  <2>5. calls[Taken + 1] = 0
    BY <1>5, <1>3 DEF JobsIInv, JobsOwned
  <2>6. \A v \in Workers : pc'[v] = "run" => calls'[curr'[v]] = 0
    BY <2>3, <2>5, <1>5, <1>p, <1>s DEF JobsIInv, JobsOwned
  <2>7. \A j \in Jobs : j > Taken' => calls'[j] = 0
    BY <1>7, <1>3, <1>s DEF JobsIInv, JobsOwned, Jobs
  <2> QED
    BY <2>1, <2>2, <2>4, <2>6, <2>7, <1>11 DEF JobsOwned
<1> QED
  BY <1>12, <1>15, <1>16 DEF JobsIInv

\* A worker calls its job, and is done.
LEMMA CallStep ==
  ASSUME PoolAssumption, JobsIInv, NEW w \in Workers, RunJob(w) \/ EndJob(w)
  PROVE  JobsIInv'
<1>1. /\ UNCHANGED <<ring, curr>> /\ Busy' = Busy /\ Taken' = Taken
      /\ pc' \in [Threads -> PoolPlaces] /\ pc[w] \in {"run", "ran"}
      /\ pc'[w] = IF pc[w] = "run" THEN "ran" ELSE "end"
      /\ \A v \in Workers : v # w => pc'[v] = pc[v]
  BY JobFacts DEF RunJob, EndJob, Goto, PoolPlaces, Busy, Taken
<1>2. curr[w] \in Jobs /\ curr[w] \in 1 .. Taken
  <2>1. curr[w] # 0
    BY <1>1 DEF JobsIInv, JobsOwned
  <2> QED
    BY <2>1, JobFacts DEF JobsIInv, OnePlace
<1>t. Taken \in Nat
  BY JobSets
<1>3. CASE RunJob(w)
  <2>s. /\ pc[w] = "run" /\ calls' = [calls EXCEPT ![curr[w]] = calls[curr[w]] + 1]
        /\ active' = active
    BY <1>3 DEF RunJob
  <2>1. calls[curr[w]] = 0
    BY <2>s DEF JobsIInv, JobsOwned
  <2>2. calls' \in [Jobs -> Nat] /\ \A j \in Jobs : calls'[j] <= 1
    BY <2>s, <2>1, <1>2, JobFacts DEF JobsIInv, OnePlace
  <2>3. Active' = Active
    BY <2>s, <1>1 DEF Active
  <2>4. TypeOK'
    BY <2>s, <2>2, <1>1 DEF JobsIInv, TypeOK, PoolPlaces, ring
  <2>5. OnePlace'
    BY <2>s, <2>2, <2>3, <1>1 DEF JobsIInv, OnePlace, Active, ring
  <2>6. \A v \in Workers : pc'[v] = "run" => calls'[curr[v]] = 0
    BY <2>s, <1>1, <1>2, JobFacts DEF JobsIInv, JobsOwned
  <2>7. \A j \in Jobs : j > Taken => calls'[j] = 0
    BY <2>s, <1>2, <1>t, JobFacts DEF JobsIInv, JobsOwned, Jobs
  <2>8. JobsOwned'
    BY <2>6, <2>7, <2>s, <1>1 DEF JobsIInv, JobsOwned, ring
  <2> QED
    BY <2>4, <2>5, <2>8 DEF JobsIInv
<1>4. CASE EndJob(w)
  <2>s. pc[w] = "ran" /\ active' = active - 1 /\ calls' = calls
    BY <1>4 DEF EndJob
  <2>1. Active' = Active \ {w} /\ w \in Active
    BY <2>s, <1>1 DEF Active
  <2>2. Cardinality(Active \ {w}) = Cardinality(Active) - 1 /\ Cardinality(Active \ {w}) \in Nat
    BY <2>1, JobSets, FS_RemoveElement, SizeChange
  <2>3. active' = Cardinality(Active') /\ active' \in 0 .. Cardinality(Workers)
    <3>1. active = Cardinality(Active)
      BY DEF JobsIInv, OnePlace, Active
    <3>2. Cardinality(Active) \in 0 .. Cardinality(Workers) /\ Cardinality(Workers) \in Nat
      BY JobSets, FS_CardinalityType DEF PoolAssumption
    <3> QED
      BY <3>1, <3>2, <2>s, <2>1, <2>2
  <2>4. TypeOK'
    BY <2>s, <2>3, <1>1 DEF JobsIInv, TypeOK, PoolPlaces, ring
  <2>5. OnePlace'
    BY <2>s, <2>3, <1>1 DEF JobsIInv, OnePlace, Active, ring
  <2>6. JobsOwned'
    BY <2>s, <1>1 DEF JobsIInv, JobsOwned, ring
  <2> QED
    BY <2>4, <2>5, <2>6 DEF JobsIInv
<1> QED
  BY <1>3, <1>4

\* Every step preserves the invariant of the pool.
LEMMA JobsStep ==
  ASSUME PoolAssumption, JobsIInv, [Next]_vars
  PROVE  JobsIInv'
<1> USE JobFacts
<1>1. ASSUME NEW t \in Threads, pc[t] \in {"idle", "wait", "woken"}, NEW l \in {"wait", "woken"},
             Goto(t, l, {}), UNCHANGED <<ring, active, curr, calls>>
      PROVE  JobsIInv'
  <2>1. pc' \in [Threads -> PoolPlaces] /\ \A u \in Threads : pc'[u] = IF u = t THEN l ELSE pc[u]
    BY <1>1 DEF Goto, PoolPlaces
  <2> QED
    BY <1>1, <2>1, WaitStep
<1>2. ASSUME NEW s \in Submitters, tp_submit(s) PROVE JobsIInv'
  BY <1>1, <1>2, SubmitStep DEF tp_submit, Threads
<1>3. ASSUME NEW w \in Workers, TakeJob(w) PROVE JobsIInv'
  BY <1>1, <1>3, TakeStep DEF TakeJob, Threads
<1>4. ASSUME NEW t \in Threads, SpuriousWakeup(t) PROVE JobsIInv'
  BY <1>1, <1>4 DEF SpuriousWakeup
<1>5. CASE UNCHANGED vars
  BY <1>5, WaitStep DEF vars
<1> QED
  BY <1>2, <1>3, <1>4, <1>5, CallStep DEF Next, tp_worker_main

\* Threads on one side of the pool sleep, or are on their way to the mutex.
Asleep(S) == {t \in S : pc[t] = "wait"}

\* The woken threads of a side are finitely many.
LEMMA WokenSets ==
  ASSUME PoolAssumption, NEW S \in {Submitters, Workers}
  PROVE  IsFiniteSet(Woken(S)) /\ Cardinality(Woken(S)) \in Nat /\ Cardinality(Woken(S)') \in Nat
<1>1. IsFiniteSet(S) /\ Woken(S) \in SUBSET S /\ Woken(S)' \in SUBSET S
  BY DEF PoolAssumption, Woken
<1> QED
  BY <1>1, FS_Subset, FS_CardinalityType

\* A thread that has used the ring goes on, and signals one sleeper of the other side.
LEMMA SignalEffect ==
  ASSUME PoolAssumption, pc \in [Threads -> PoolPlaces],
         NEW S \in SUBSET Threads, NEW O \in SUBSET Threads, S \cap O = {}, NEW t \in S,
         NEW l \in {"idle", "run"}, NEW W \in SignalChoices(Asleep(O)), Goto(t, l, W)
  PROVE  /\ Woken(S)' = Woken(S) \ {t} /\ Asleep(S)' \subseteq Asleep(S)
         /\ Asleep(O)' # {} => \E w \in Asleep(O) : w \notin Woken(O) /\ Woken(O)' = Woken(O) \cup {w}
<1>1. pc' = [u \in Threads |-> IF u = t THEN l ELSE IF u \in W THEN "woken" ELSE pc[u]]
  BY DEF Goto
<1>2. W \subseteq Asleep(O) /\ (Asleep(O) # {} => \E w \in Asleep(O) : W = {w})
  BY DEF SignalChoices
<1>3. Asleep(O) \subseteq O /\ t \notin O
  BY DEF Asleep
<1>4. Woken(S)' = Woken(S) \ {t}
  BY <1>1, <1>2, <1>3 DEF Woken
<1>5. Asleep(S)' \subseteq Asleep(S)
  BY <1>1, <1>2, <1>3 DEF Asleep
<1>6. ASSUME Asleep(O)' # {}
      PROVE  \E w \in Asleep(O) : w \notin Woken(O) /\ Woken(O)' = Woken(O) \cup {w}
  <2>1. Asleep(O) # {}
    BY <1>1, <1>2, <1>3, <1>6 DEF Asleep
  <2>2. PICK w \in Asleep(O) : W = {w}
    BY <2>1, <1>2
  <2>3. w \notin Woken(O)
    BY DEF Asleep, Woken
  <2>4. Woken(O)' = Woken(O) \cup {w}
    BY <1>1, <1>3, <2>2 DEF Asleep, Woken
  <2> QED
    BY <2>3, <2>4
<1> QED
  BY <1>4, <1>5, <1>6

\* A thread that is woken for no reason joins those on their way.
LEMMA SpuriousEffect ==
  ASSUME PoolAssumption, pc \in [Threads -> PoolPlaces],
         NEW S \in {Submitters, Workers}, NEW t \in Threads, SpuriousWakeup(t)
  PROVE  /\ Cardinality(Woken(S)') >= Cardinality(Woken(S)) /\ Asleep(S)' \subseteq Asleep(S)
<1>1. /\ pc' = [u \in Threads |-> IF u = t THEN "woken" ELSE pc[u]]
      /\ pc[t] = "wait" /\ S \subseteq Threads
  BY DEF SpuriousWakeup, Goto, Threads
<1>2. Asleep(S)' \subseteq Asleep(S)
  BY <1>1 DEF Asleep
<1>3. Woken(S)' = Woken(S) \/ (t \notin Woken(S) /\ Woken(S)' = Woken(S) \cup {t})
  BY <1>1 DEF Woken
<1>4. t \notin Woken(S) => Cardinality(Woken(S) \cup {t}) = Cardinality(Woken(S)) + 1
  BY WokenSets, SizeChange
<1>5. Cardinality(Woken(S)) \in Nat
  BY WokenSets
<1>6. CASE Woken(S)' = Woken(S)
  BY <1>2, <1>5, <1>6
<1>7. CASE t \notin Woken(S) /\ Woken(S)' = Woken(S) \cup {t}
  <2>1. Cardinality(Woken(S)') = Cardinality(Woken(S)) + 1
    BY <1>4, <1>7
  <2> QED
    BY <2>1, <1>2, <1>5
<1> QED
  BY <1>3, <1>6, <1>7

\* Each submission wakes a worker for the job and each take a submitter for the
\* slot, and a thread that goes to sleep has found no job, or no slot.
LEMMA WakeupStep ==
  ASSUME PoolAssumption, JobsIInv, NoLostWakeup, [Next]_vars
  PROVE  NoLostWakeup'
<1>t. /\ count \in 0 .. TP_CAP /\ TP_CAP \in Nat /\ pc \in [Threads -> PoolPlaces]
      /\ Submitters \in SUBSET Threads /\ Workers \in SUBSET Threads /\ Submitters \cap Workers = {}
  BY JobFacts DEF Threads, PoolAssumption
<1>a. NotFull = Asleep(Submitters) /\ NotEmpty = Asleep(Workers)
  BY DEF NotFull, NotEmpty, Asleep
<1>b. NotFull' = Asleep(Submitters)' /\ NotEmpty' = Asleep(Workers)'
  BY DEF NotFull, NotEmpty, Asleep
<1>f. /\ IsFiniteSet(Woken(Submitters)) /\ IsFiniteSet(Woken(Workers))
      /\ Cardinality(Woken(Submitters)) \in Nat /\ Cardinality(Woken(Workers)) \in Nat
      /\ Cardinality(Woken(Submitters)') \in Nat /\ Cardinality(Woken(Workers)') \in Nat
  BY WokenSets
<1>1. ASSUME NEW s \in Submitters, tp_submit(s), ~SubmitBlocks PROVE NoLostWakeup'
  <2>1. PICK W \in SignalChoices(NotEmpty) : Goto(s, "idle", W)
    BY <1>1 DEF tp_submit
  <2>2. count' = count + 1
    BY <1>1 DEF tp_submit
  <2>3. /\ Woken(Submitters)' = Woken(Submitters) \ {s} /\ NotFull' \subseteq NotFull
        /\ NotEmpty' # {} => \E w \in NotEmpty : /\ w \notin Woken(Workers)
                                                 /\ Woken(Workers)' = Woken(Workers) \cup {w}
    BY <2>1, <1>t, <1>a, <1>b, SignalEffect
  <2>4. NotEmpty' # {} => Cardinality(Woken(Workers)') >= count'
    <3> SUFFICES ASSUME NotEmpty' # {} PROVE Cardinality(Woken(Workers)') >= count'
      OBVIOUS
    <3>1. PICK w \in NotEmpty : w \notin Woken(Workers) /\ Woken(Workers)' = Woken(Workers) \cup {w}
      BY <2>3
    <3>2. Cardinality(Woken(Workers) \cup {w}) = Cardinality(Woken(Workers)) + 1
      BY <3>1, <1>f, SizeChange
    <3>3. Cardinality(Woken(Workers)) >= count
      BY <3>1 DEF NoLostWakeup
    <3>4. Cardinality(Woken(Workers)') = Cardinality(Woken(Workers)) + 1
      BY <3>1, <3>2
    <3> QED
      BY <3>3, <3>4, <2>2, <1>f, <1>t
  <2>5. NotFull' # {} => Cardinality(Woken(Submitters)') >= TP_CAP - count'
    <3>1. Cardinality(Woken(Submitters) \ {s}) >= Cardinality(Woken(Submitters)) - 1
      BY <1>f, SizeChange
    <3>2. Cardinality(Woken(Submitters)') >= Cardinality(Woken(Submitters)) - 1
      BY <3>1, <2>3
    <3>3. NotFull' # {} => Cardinality(Woken(Submitters)) >= TP_CAP - count
      BY <2>3 DEF NoLostWakeup
    <3> QED
      BY <3>2, <3>3, <2>2, <1>f, <1>t
  <2> QED
    BY <2>4, <2>5 DEF NoLostWakeup
<1>2. ASSUME NEW w \in Workers, TakeJob(w), count > 0 PROVE NoLostWakeup'
  <2>1. PICK W \in SignalChoices(NotFull) : Goto(w, "run", W)
    BY <1>2 DEF TakeJob
  <2>2. count' = count - 1
    BY <1>2 DEF TakeJob
  <2>3. /\ Woken(Workers)' = Woken(Workers) \ {w} /\ NotEmpty' \subseteq NotEmpty
        /\ NotFull' # {} => \E s \in NotFull : /\ s \notin Woken(Submitters)
                                               /\ Woken(Submitters)' = Woken(Submitters) \cup {s}
    BY <2>1, <1>t, <1>a, <1>b, SignalEffect
  <2>4. NotFull' # {} => Cardinality(Woken(Submitters)') >= TP_CAP - count'
    <3> SUFFICES ASSUME NotFull' # {} PROVE Cardinality(Woken(Submitters)') >= TP_CAP - count'
      OBVIOUS
    <3>1. PICK s \in NotFull : /\ s \notin Woken(Submitters)
                               /\ Woken(Submitters)' = Woken(Submitters) \cup {s}
      BY <2>3
    <3>2. Cardinality(Woken(Submitters) \cup {s}) = Cardinality(Woken(Submitters)) + 1
      BY <3>1, <1>f, SizeChange
    <3>3. Cardinality(Woken(Submitters)) >= TP_CAP - count
      BY <3>1 DEF NoLostWakeup
    <3>4. Cardinality(Woken(Submitters)') = Cardinality(Woken(Submitters)) + 1
      BY <3>1, <3>2
    <3> QED
      BY <3>3, <3>4, <2>2, <1>f, <1>t
  <2>5. NotEmpty' # {} => Cardinality(Woken(Workers)') >= count'
    <3>1. Cardinality(Woken(Workers) \ {w}) >= Cardinality(Woken(Workers)) - 1
      BY <1>f, SizeChange
    <3>2. Cardinality(Woken(Workers)') >= Cardinality(Woken(Workers)) - 1
      BY <3>1, <2>3
    <3>3. NotEmpty' # {} => Cardinality(Woken(Workers)) >= count
      BY <2>3 DEF NoLostWakeup
    <3> QED
      BY <3>2, <3>3, <2>2, <1>f, <1>t
  <2> QED
    BY <2>4, <2>5 DEF NoLostWakeup
<1>3. ASSUME NEW s \in Submitters, SubmitBlocks, Goto(s, "wait", {}), count' = count
      PROVE  NoLostWakeup'
  <2>1. Woken(Workers)' = Woken(Workers) /\ NotEmpty' = NotEmpty /\ TP_CAP - count' = 0
    BY <1>3, <1>t DEF Goto, SubmitBlocks, Woken, NotEmpty
  <2> QED
    BY <2>1, <1>3, <1>f DEF NoLostWakeup
<1>4. ASSUME NEW w \in Workers, count = 0, Goto(w, "wait", {}), count' = count
      PROVE  NoLostWakeup'
  <2>1. Woken(Submitters)' = Woken(Submitters) /\ NotFull' = NotFull
    BY <1>4, <1>t DEF Goto, Woken, NotFull
  <2> QED
    BY <2>1, <1>4, <1>f DEF NoLostWakeup
<1>5. ASSUME NEW t \in Threads, SpuriousWakeup(t) PROVE NoLostWakeup'
  <2>1. Cardinality(Woken(Submitters)') >= Cardinality(Woken(Submitters)) /\ NotFull' \subseteq NotFull
    BY <1>5, <1>t, <1>a, <1>b, SpuriousEffect
  <2>2. Cardinality(Woken(Workers)') >= Cardinality(Woken(Workers)) /\ NotEmpty' \subseteq NotEmpty
    BY <1>5, <1>t, <1>a, <1>b, SpuriousEffect
  <2>3. count' = count
    BY <1>5 DEF SpuriousWakeup, ring
  <2> QED
    BY <2>1, <2>2, <2>3, <1>f, <1>t DEF NoLostWakeup
<1>6. ASSUME NEW w \in Workers, RunJob(w) \/ EndJob(w) PROVE NoLostWakeup'
  <2>1. \A u \in Threads : pc'[u] \in {"wait", "woken"} \/ pc[u] \in {"wait", "woken"} => pc'[u] = pc[u]
    BY <1>6, <1>t DEF RunJob, EndJob, Goto
  <2>2. /\ Woken(Submitters)' = Woken(Submitters) /\ Woken(Workers)' = Woken(Workers)
        /\ NotFull' = NotFull /\ NotEmpty' = NotEmpty
    BY <2>1, <1>t DEF Woken, NotFull, NotEmpty
  <2>3. count' = count
    BY <1>6 DEF RunJob, EndJob, ring
  <2> QED
    BY <2>2, <2>3 DEF NoLostWakeup
<1>7. CASE UNCHANGED vars
  BY <1>7 DEF vars, ring, NoLostWakeup, NotFull, NotEmpty, Woken
<1>8. ASSUME NEW s \in Submitters, tp_submit(s) PROVE NoLostWakeup'
  BY <1>8, <1>1, <1>3 DEF tp_submit, ring
<1>9. ASSUME NEW w \in Workers, tp_worker_main(w) PROVE NoLostWakeup'
  BY <1>9, <1>2, <1>4, <1>6 DEF tp_worker_main, TakeJob, ring
<1> QED
  BY <1>5, <1>7, <1>8, <1>9 DEF Next

\* The pool starts with nobody asleep.
LEMMA PoolStart == ASSUME PoolAssumption, Init PROVE JobsIInv /\ NoLostWakeup
<1>1. NotFull = {} /\ NotEmpty = {}
  BY DEF Init, NotFull, NotEmpty, Threads
<1> QED
  BY <1>1, JobsInit DEF NoLostWakeup

\* tp_submit and tp_worker_main keep every job in one place, for every number of
\* threads, jobs and slots: "A job record is owned by exactly one place", it is
\* called at most once, and active counts the jobs that run.
THEOREM JobsCorrect == ASSUME PoolAssumption PROVE Spec => []OnePlace
<1>1. Init => JobsIInv
  BY JobsInit
<1>2. JobsIInv /\ [Next]_vars => JobsIInv'
  BY JobsStep
<1>3. JobsIInv => OnePlace
  BY DEF JobsIInv
<1> QED
  BY <1>1, <1>2, <1>3, PTL DEF Spec

\* The signals of tp_submit and tp_worker_main reach enough sleepers: while one
\* sleeps, as many others are on their way as there are jobs, or free slots.
THEOREM WakeupsReachPool == ASSUME PoolAssumption PROVE Spec => []NoLostWakeup
<1>1. Init => JobsIInv /\ NoLostWakeup
  BY PoolStart
<1>2. JobsIInv /\ NoLostWakeup /\ [Next]_vars => (JobsIInv /\ NoLostWakeup)'
  BY JobsStep, WakeupStep
<1> QED
  BY <1>1, <1>2, PTL DEF Spec
=============================================================================
