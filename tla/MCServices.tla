------------------------------ MODULE MCServices ------------------------------
(***************************************************************************)
(* The services that threads share (statistics table, publish-subscribe    *)
(* dispatcher, resource pool, reset guard, bounded queue, thread pool,     *)
(* read-write lock), each on a small instance.  A behavior is a use of one *)
(* of them: program says which, and the variables of the others are not    *)
(* used.                                                                   *)
(***************************************************************************)
EXTENDS Services

vars == <<program, counters, readers, writer, pc, k, out, total, adds, subs,
          mu, stack, events, ret, in_use, closed, available, holds, state,
          inflight, running, reset, data, head, tail, count, arg, result,
          active, curr, calls, num_readers, locked>>

\* The variables a program does not have, which stay unused.
unused == "unused"
NotST == <<subs, mu, stack, events, ret, in_use, closed, available, holds,
           state, inflight, running, reset, data, head, tail, count, arg,
           result, active, curr, calls, num_readers, locked>>
NotPS == <<counters, readers, writer, pc, k, out, total, adds, in_use, closed,
           available, holds, state, inflight, running, reset, data, head,
           tail, count, arg, result, active, curr, calls, num_readers, locked>>
NotRP == <<counters, readers, writer, k, out, total, adds, subs, stack,
           events, ret, state, inflight, running, reset, data, head, tail,
           count, arg, result, active, curr, calls, num_readers, locked>>
NotRG == <<counters, readers, writer, pc, k, out, total, adds, subs, mu,
           stack, events, ret, in_use, closed, available, holds, data, head,
           tail, count, arg, result, active, curr, calls, num_readers, locked>>
NotBQ == <<counters, readers, writer, k, out, total, adds, subs, mu, stack,
           events, ret, in_use, available, holds, state, inflight, running,
           reset, active, curr, calls, num_readers, locked>>
NotTP == <<counters, readers, writer, k, out, total, adds, subs, mu, stack,
           events, ret, in_use, closed, available, holds, state, inflight,
           running, reset, arg, result, num_readers, locked>>
NotRL == <<counters, readers, writer, k, out, total, adds, subs, mu, stack,
           events, ret, in_use, closed, available, holds, state, inflight,
           running, reset, data, head, tail, count, arg, result, active, curr,
           calls>>

InitST == /\ program = "stat-table" /\ ST!Init
          /\ subs = unused /\ mu = unused /\ stack = unused /\ events = unused
          /\ ret = unused /\ in_use = unused /\ closed = unused
          /\ available = unused /\ holds = unused /\ state = unused
          /\ inflight = unused /\ running = unused /\ reset = unused
          /\ data = unused /\ head = unused /\ tail = unused /\ count = unused
          /\ arg = unused /\ result = unused /\ active = unused
          /\ curr = unused /\ calls = unused /\ num_readers = unused
          /\ locked = unused
InitPS == /\ program = "pub-sub" /\ PS!Init
          /\ counters = unused /\ readers = unused /\ writer = unused
          /\ pc = unused /\ k = unused /\ out = unused /\ total = unused
          /\ adds = unused /\ in_use = unused /\ closed = unused
          /\ available = unused /\ holds = unused /\ state = unused
          /\ inflight = unused /\ running = unused /\ reset = unused
          /\ data = unused /\ head = unused /\ tail = unused /\ count = unused
          /\ arg = unused /\ result = unused /\ active = unused
          /\ curr = unused /\ calls = unused /\ num_readers = unused
          /\ locked = unused
InitRP == /\ program = "resource-pool" /\ RP!Init
          /\ counters = unused /\ readers = unused /\ writer = unused
          /\ k = unused /\ out = unused /\ total = unused /\ adds = unused
          /\ subs = unused /\ stack = unused /\ events = unused /\ ret = unused
          /\ state = unused /\ inflight = unused /\ running = unused
          /\ reset = unused /\ data = unused /\ head = unused /\ tail = unused
          /\ count = unused /\ arg = unused /\ result = unused
          /\ active = unused /\ curr = unused /\ calls = unused
          /\ num_readers = unused /\ locked = unused
InitRG == /\ program = "reset-guard" /\ RG!Init
          /\ counters = unused /\ readers = unused /\ writer = unused
          /\ pc = unused /\ k = unused /\ out = unused /\ total = unused
          /\ adds = unused /\ subs = unused /\ mu = unused /\ stack = unused
          /\ events = unused /\ ret = unused /\ in_use = unused
          /\ closed = unused /\ available = unused /\ holds = unused
          /\ data = unused /\ head = unused /\ tail = unused /\ count = unused
          /\ arg = unused /\ result = unused /\ active = unused
          /\ curr = unused /\ calls = unused /\ num_readers = unused
          /\ locked = unused
InitBQ == /\ program = "bounded-queue" /\ BQ!Init
          /\ counters = unused /\ readers = unused /\ writer = unused
          /\ k = unused /\ out = unused /\ total = unused /\ adds = unused
          /\ subs = unused /\ mu = unused /\ stack = unused /\ events = unused
          /\ ret = unused /\ in_use = unused /\ available = unused
          /\ holds = unused /\ state = unused /\ inflight = unused
          /\ running = unused /\ reset = unused /\ active = unused
          /\ curr = unused /\ calls = unused /\ num_readers = unused
          /\ locked = unused
InitTP == /\ program = "thread-pool" /\ TP!Init
          /\ counters = unused /\ readers = unused /\ writer = unused
          /\ k = unused /\ out = unused /\ total = unused /\ adds = unused
          /\ subs = unused /\ mu = unused /\ stack = unused /\ events = unused
          /\ ret = unused /\ in_use = unused /\ closed = unused
          /\ available = unused /\ holds = unused /\ state = unused
          /\ inflight = unused /\ running = unused /\ reset = unused
          /\ arg = unused /\ result = unused /\ num_readers = unused
          /\ locked = unused
InitRL == /\ program = "rd-wr-lock" /\ RL!Init
          /\ counters = unused /\ readers = unused /\ writer = unused
          /\ k = unused /\ out = unused /\ total = unused /\ adds = unused
          /\ subs = unused /\ mu = unused /\ stack = unused /\ events = unused
          /\ ret = unused /\ in_use = unused /\ closed = unused
          /\ available = unused /\ holds = unused /\ state = unused
          /\ inflight = unused /\ running = unused /\ reset = unused
          /\ data = unused /\ head = unused /\ tail = unused /\ count = unused
          /\ arg = unused /\ result = unused /\ active = unused
          /\ curr = unused /\ calls = unused

Init == InitST \/ InitPS \/ InitRP \/ InitRG \/ InitBQ \/ InitTP \/ InitRL

StatTable == program = "stat-table" /\ ST!Next /\ UNCHANGED <<program, NotST>>
PubSubCall == program = "pub-sub" /\ PS!Calls /\ UNCHANGED <<program, NotPS>>
PubSubStep(t) == program = "pub-sub" /\ PS!Step(t) /\ UNCHANGED <<program, NotPS>>
PoolCall == program = "resource-pool" /\ RP!Calls /\ UNCHANGED <<program, NotRP>>
PoolStep(t) == program = "resource-pool" /\ RP!Running(t) /\ UNCHANGED <<program, NotRP>>
GuardCall == program = "reset-guard" /\ RG!Calls /\ UNCHANGED <<program, NotRG>>
Completed(c) == program = "reset-guard" /\ RG!command_completed(c)
                  /\ UNCHANGED <<program, NotRG>>
QueueCall == program = "bounded-queue" /\ BQ!Next /\ UNCHANGED <<program, NotBQ>>
QueueResume(t) == program = "bounded-queue" /\ BQ!Resume(t) /\ UNCHANGED <<program, NotBQ>>
Submit(s) == program = "thread-pool" /\ TP!tp_submit(s) /\ UNCHANGED <<program, NotTP>>
Worker(w) == program = "thread-pool" /\ TP!tp_worker_main(w) /\ UNCHANGED <<program, NotTP>>
PoolWakeup(t) == program = "thread-pool" /\ TP!SpuriousWakeup(t) /\ UNCHANGED <<program, NotTP>>
RdWrLock == program = "rd-wr-lock" /\ RL!Next /\ UNCHANGED <<program, NotRL>>

Next == \/ StatTable
        \/ PubSubCall \/ \E t \in Users : PubSubStep(t)
        \/ PoolCall \/ \E t \in Clients : PoolStep(t)
        \/ GuardCall \/ \E c \in Commands : Completed(c)
        \/ QueueCall
        \/ \E s \in Users : Submit(s)
        \/ \E w \in Servers : Worker(w)
        \/ \E t \in Users \cup Servers : PoolWakeup(t)
        \/ RdWrLock

\* With FairSpec, calls that have begun go on, a callback returns, a command completes, a woken
\* thread gets the mutex and the workers run.  Nobody need ever make a call.
Spec == Init /\ [][Next]_vars
FairSpec == /\ Spec
            /\ \A t \in Users : WF_vars(PubSubStep(t))
            /\ \A t \in Clients : WF_vars(PoolStep(t))
            /\ \A c \in Commands : WF_vars(Completed(c))
            /\ \A t \in Users \cup Servers : WF_vars(QueueResume(t))
            /\ \A w \in Servers : WF_vars(Worker(w))
-----------------------------------------------------------------------------
TypeOK == CASE program = "stat-table" -> ST!TypeOK
            [] program = "pub-sub" -> PS!TypeOK
            [] program = "resource-pool" -> RP!TypeOK
            [] program = "reset-guard" -> RG!TypeOK
            [] program = "bounded-queue" -> BQ!TypeOK
            [] program = "thread-pool" -> TP!TypeOK
            [] program = "rd-wr-lock" -> RL!TypeOK

\* "A job record is owned by exactly one place", in the queue or with a worker,
\* is called at most once and keeps no thread asleep that could go on; and the
\* read-write lock has readers or one writer, which its count and flag tell.
OnePlace == /\ program = "thread-pool" => TP!OnePlace /\ TP!NoLostWakeup
            /\ program = "rd-wr-lock" => RL!WriterAlone

\* "Snapshot must be internally consistent": what stats_snapshot copied, one
\* counter after the other, are the counters as they stand at one moment; and a
\* counter is what was added since it was reset, up to UINT64_MAX.
SnapshotConsistent == program = "stat-table" => ST!SnapshotConsistent /\ ST!Saturates

\* "publish calls every active matching subscriber", whoever subscribes or
\* unsubscribes meanwhile, and "Do not hold d->mu while invoking callbacks".
NoneMissed == program = "pub-sub" => PS!NoneMissed /\ PS!CallbacksMayCall

\* "The semaphore counts resources", although it and the table change in
\* different steps; so no resource is handed to two clients.
PermitsMatchFree == program = "resource-pool" => RP!PermitsMatchFree /\ RP!ExclusiveUse

\* One step of what NoneUndercut says.
Respects == /\ program = "reset-guard" => RG!NoResetUnderCommand /\ RG!NoneAcceptedMeanwhile
            /\ program = "pub-sub" => PS!NoneOverwritten
            /\ program = "stat-table" => ST!ResetUnseen

\* What one caller relies on no other takes away: a reset gets its go-ahead, at
\* once or held back, only when no command runs, and while it is held back no
\* command is accepted; subscribe overwrites no subscription; and nobody copies
\* or adds a counter while stats_reset_all has reset only some of them.
NoneUndercut == [][Respects]_vars

\* Whoever waits is served: a publish returns, those made from callbacks
\* included; a permit of a closed pool is passed on until every client blocked
\* in rp_acquire has returned; a pending reset is performed, however many
\* commands are in flight; every thread inside bq_push or bq_pop when bq_close
\* is called returns; and a worker that is free calls a job that was accepted.
Waits(t) == CASE program = "pub-sub" -> t \in Users /\ stack[t] # <<>>
              [] program = "resource-pool" -> t \in Clients /\ RP!CanBeHandedOn(t)
              [] program = "reset-guard" -> reset = "pending"
              [] program = "bounded-queue" -> t \in BQ!Threads /\ closed /\ pc[t] # "idle"
              [] program = "thread-pool" -> ~TP!AllCalled
              [] OTHER -> FALSE
Served(t) == CASE program = "pub-sub" -> t \in Users => stack[t] = <<>>
               [] program = "resource-pool" -> t \in Clients => pc[t] # "wait"
               [] program = "reset-guard" -> reset = "granted"
               [] program = "bounded-queue" -> t \in BQ!Threads => pc[t] = "idle"
               [] program = "thread-pool" -> TP!AllCalled
               [] OTHER -> TRUE
EachIsServed == \A t \in Users \cup Clients \cup Servers : Waits(t) ~> Served(t)
-----------------------------------------------------------------------------
\* A behavior stays with its program, and every step is one of that program's.
LEMMA OneProgram ==
  ASSUME [Next]_vars
  PROVE  /\ program' = program
         /\ program = "stat-table" => [ST!Next]_(ST!vars)
         /\ program = "pub-sub" => [PS!Next]_(PS!vars)
         /\ program = "resource-pool" => [RP!CarefulNext]_(RP!vars)
         /\ program = "reset-guard" => [RG!Next]_(RG!vars)
         /\ program = "thread-pool" => [TP!Next]_(TP!vars)
         /\ program = "rd-wr-lock" => [RL!Next]_(RL!vars)
<1>1. CASE UNCHANGED vars
  BY <1>1 DEF vars, ST!vars, PS!vars, RP!vars, RP!table, RG!vars, TP!vars, TP!ring, RL!vars
<1>2. CASE Next
  <2>1. program' = program
    BY <1>2 DEF Next, StatTable, PubSubCall, PubSubStep, PoolCall, PoolStep, GuardCall, Completed, QueueCall,
                Submit, Worker, PoolWakeup, RdWrLock
  <2>2. /\ program = "stat-table" => ST!Next
        /\ program = "rd-wr-lock" => RL!Next
        /\ program = "pub-sub" => PS!Calls \/ \E t \in Users : PS!Step(t)
        /\ program = "resource-pool" => RP!Calls \/ \E t \in Clients : RP!Running(t)
        /\ program = "reset-guard" => RG!Calls \/ \E c \in Commands : RG!command_completed(c)
        /\ program = "thread-pool" => \/ \E s \in Users : TP!tp_submit(s)
                                      \/ \E w \in Servers : TP!tp_worker_main(w)
                                      \/ \E t \in Users \cup Servers : TP!SpuriousWakeup(t)
    BY <1>2 DEF Next, StatTable, PubSubCall, PubSubStep, PoolCall, PoolStep, GuardCall, Completed, QueueCall,
                Submit, Worker, PoolWakeup, RdWrLock
  <2> QED
    BY <2>1, <2>2 DEF PS!Next, RP!CarefulNext, RG!Next, TP!Next, TP!Threads
<1> QED
  BY <1>1, <1>2

\* "The semaphore counts resources", for every number of clients and resources.
THEOREM PermitsCorrect == Spec => []PermitsMatchFree
<1> DEFINE Inv == program = "resource-pool" => PoolIInv
<1>1. Init => Inv
  BY PoolInit DEF Init, InitST, InitPS, InitRP, InitRG, InitBQ, InitTP, InitRL
<1>2. Inv /\ [Next]_vars => Inv'
  BY OneProgram, PoolInvariant
<1>3. Inv => PermitsMatchFree
  BY DEF PoolIInv, PermitsMatchFree
<1> QED
  BY <1>1, <1>2, <1>3, PTL DEF Spec

\* "Snapshot must be internally consistent", for every number of threads and
\* counters: stats_snapshot and stats_reset_all hold the lock through their loops.
THEOREM SnapshotsCorrect == Spec => []SnapshotConsistent
<1> DEFINE Inv == program = "stat-table" => TableIInv
<1>1. Init => Inv
  BY TableInit, StatTableAssumption DEF Init, InitST, InitPS, InitRP, InitRG, InitBQ, InitTP, InitRL
<1>2. Inv /\ [Next]_vars => Inv'
  BY OneProgram, TableStep, StatTableAssumption
<1>3. Inv => SnapshotConsistent
  BY TableFacts, StatTableAssumption DEF SnapshotConsistent
<1> QED
  BY <1>1, <1>2, <1>3, PTL DEF Spec

\* "publish calls every active matching subscriber", for every number of threads,
\* slots, topics and calls of publish, those that callbacks make included: what a
\* publish owes stays among the copies it has still to call.
THEOREM PublishCorrect == Spec => []NoneMissed
<1> DEFINE Inv == program = "pub-sub" => SubsOK /\ StackOK
<1>1. Init => Inv
  BY SubsInit, CallInit, PubSubAssumption DEF Init, InitST, InitPS, InitRP, InitRG, InitBQ, InitTP, InitRL
<1>2. Inv /\ [Next]_vars => Inv'
  BY OneProgram, SubsStep, CallStep
<1>3. Inv => NoneMissed
  BY CallsAreSound, PubSubAssumption DEF NoneMissed
<1> QED
  BY <1>1, <1>2, <1>3, PTL DEF Spec

\* A job is in one place and no thread of the pool sleeps for nothing, and a
\* writer of the read-write lock is alone, for every number of threads and jobs.
THEOREM OwnersCorrect == Spec => []OnePlace
<1> DEFINE Inv == /\ program = "thread-pool" => TP!JobsIInv /\ TP!NoLostWakeup
                  /\ program = "rd-wr-lock" => LockIInv
<1>1. Init => Inv
  BY TP!PoolStart, ThreadPoolAssumption, LockInit, RdWrLockAssumption
     DEF Init, InitST, InitPS, InitRP, InitRG, InitBQ, InitTP, InitRL
<1>2. Inv /\ [Next]_vars => Inv'
  BY OneProgram, TP!JobsStep, TP!WakeupStep, ThreadPoolAssumption, LockStep, RdWrLockAssumption
<1>3. Inv => OnePlace
  BY DEF OnePlace, TP!JobsIInv, LockIInv
<1> QED
  BY <1>1, <1>2, <1>3, PTL DEF Spec

\* No caller takes away what another relies on: a reset goes ahead only when no
\* command is in flight, and one that is held back accepts none; subscribe fills
\* free slots only; no call sees the table between the first and the last
\* counter of a reset.
THEOREM CallersUndisturbed == Spec => NoneUndercut
<1> DEFINE Inv == /\ program = "reset-guard" => GuardIInv
                  /\ program = "pub-sub" => SubsOK
                  /\ program = "stat-table" => TableIInv
<1>1. Init => Inv
  BY GuardInit, SubsInit, PubSubAssumption, TableInit, StatTableAssumption
     DEF Init, InitST, InitPS, InitRP, InitRG, InitBQ, InitTP, InitRL
<1>2. Inv /\ [Next]_vars => Inv'
  BY OneProgram, GuardStep, SubsStep, TableStep, StatTableAssumption
<1>3. Inv /\ [Next]_vars => Respects
  BY OneProgram, GuardFacts, SubsStep, TableFacts, StatTableAssumption DEF Respects
<1> QED
  BY <1>1, <1>2, <1>3, PTL DEF Spec, NoneUndercut
===============================================================================
