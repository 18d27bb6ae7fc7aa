----------------------------- MODULE MCPrograms -----------------------------
(***************************************************************************)
(* The multi-threaded programs of the course chapters and what two parties *)
(* share without a lock (rings, registers of a device, an interrupt's      *)
(* status, the descriptors of an event loop), each on a small instance     *)
(* with counters that wrap.  A behavior is a run of one of them: program   *)
(* says which, and the variables of the others are not used.               *)
(***************************************************************************)
EXTENDS Integers

CONSTANTS Readers, Writers, Incrementers, Nobody, Values

VARIABLES program,           \* the one of them that runs
          variant, cause_deadlock, enable_parallelism, values, owner, i, at,
          reg, retry, lock, write_lock, num_readers, value, pc, sem_program,
          num_threads, sem, count, local_value, done, start, got, glock, tmp,
          todo, pipe, buff, head, tail, ppc, parent_counter, local_head, cpc,
          child_counter, local_tail, entry_sum, entries, ipc, event, tpc, out,
          result, free_ring, ready_ring, packet_buf, packet_idx, curr, current,
          packet_count, checksum, status, mask, needs_recovery,
          active_interrupts, arrivals, ever, late, call, ctrl, ret, reads,
          typed, consumed, eof, size, offset, expired, revents

vars == <<program, variant, cause_deadlock, enable_parallelism, values, owner,
          i, at, reg, retry, lock, write_lock, num_readers, value, pc,
          sem_program, num_threads, sem, count, local_value, done, start, got,
          glock, tmp, todo, pipe, buff, head, tail, ppc, parent_counter,
          local_head, cpc, child_counter, local_tail, entry_sum, entries, ipc,
          event, tpc, out, result, free_ring, ready_ring, packet_buf,
          packet_idx, curr, current, packet_count, checksum, status, mask,
          needs_recovery, active_interrupts, arrivals, ever, late, call, ctrl,
          ret, reads, typed, consumed, eof, size, offset, expired, revents>>

VA == INSTANCE VectorAdd WITH num_threads <- 3, loops <- 2, MaxRetry <- 2,
      Variants <- {"deadlock", "global-order", "avoid-hold-and-wait", "try-wait", "nolock"}
RW == INSTANCE ReaderWriter WITH loops <- 2
SP == INSTANCE SemPrograms WITH MaxThreads <- 4, program <- sem_program
AC == INSTANCE ApproxCounter WITH Threads <- Incrementers, threshold <- 2,
      Increments <- 4, Leftovers <- {-1, 0, 3}
MC == INSTANCE MutexCounter WITH Threads <- Incrementers, Loops <- {1, 3}
FP == INSTANCE ForkPipe
SR == INSTANCE SpscRing WITH RBLen <- 4, MaxCount <- 12
EQ == INSTANCE EventQueue WITH Events <- Values, Cap <- 2, Modulus <- 8
PR == INSTANCE PowerOfTwoRing WITH RingCap <- 4, Modulus <- 16
PP == INSTANCE PacketProc WITH BufferSize <- 4, Expected <- 12, Modulus <- 16,
      PayloadSum <- 5
IH == INSTANCE IrqHandler WITH MaxArrivals <- 3, CountModulus <- 8
IS == INSTANCE IrqStorm WITH MaxArrivals <- 3, CountModulus <- 8
DP == INSTANCE DevicePoll WITH Rounds <- 0 .. 2, Targets <- {0, 3, 4},
      MaxTarget <- 3
EL == INSTANCE EventLoop WITH Chunk <- 2, MaxBytes <- 3

ASSUME /\ VA!VectorAssumption /\ RW!ThreadAssumption
       /\ SP!ThreadsAssumption /\ AC!CounterAssumption
       /\ MC!LoopAssumption
       /\ SR!SizeAssumption /\ EQ!WrapAssumption /\ EQ!EventAssumption
       /\ PR!WrapAssumption /\ PP!SizeAssumption /\ IH!ArrivalAssumption
       /\ IS!CountAssumption /\ DP!PollAssumption /\ EL!ChunkAssumption

\* The variables of one program or a few, and that no other program uses them.
unused == "unused"
vectorVars == <<variant, cause_deadlock, enable_parallelism, values, owner,
                retry>>
addingVars == <<i, reg>>
rwLockVars == <<lock, write_lock, num_readers>>
semVars == <<sem_program, num_threads, sem>>
approxVars == <<local_value, start>>
mutexVars == <<glock, tmp, todo>>
spscVars == <<buff, parent_counter, local_head, child_counter, local_tail,
              entry_sum>>
indexVars == <<head, tail>>
sideVars == <<ppc, cpc>>
entryVars == <<entries, result>>
queueVars == <<ipc, event, tpc, out>>
packetVars == <<free_ring, ready_ring, packet_buf, packet_idx, curr, current,
                packet_count, checksum>>
irqVars == <<mask, needs_recovery, active_interrupts, arrivals>>
seenVars == <<ever, late>>
deviceVars == <<call, ctrl, ret, reads>>
loopVars == <<typed, consumed, eof, size, offset, expired, revents>>
NoVector == /\ variant = unused /\ cause_deadlock = unused
            /\ enable_parallelism = unused /\ values = unused
            /\ owner = unused /\ retry = unused
NoAdding == /\ i = unused /\ reg = unused
NoRwLock == /\ lock = unused /\ write_lock = unused /\ num_readers = unused
NoSem == /\ sem_program = unused /\ num_threads = unused /\ sem = unused
NoApprox == /\ local_value = unused /\ start = unused
NoMutex == /\ glock = unused /\ tmp = unused /\ todo = unused
NoSpsc == /\ buff = unused /\ parent_counter = unused /\ local_head = unused
          /\ child_counter = unused /\ local_tail = unused
          /\ entry_sum = unused
NoIndex == /\ head = unused /\ tail = unused
NoSide == /\ ppc = unused /\ cpc = unused
NoEntry == /\ entries = unused /\ result = unused
NoQueue == /\ ipc = unused /\ event = unused /\ tpc = unused /\ out = unused
NoPacket == /\ free_ring = unused /\ ready_ring = unused
            /\ packet_buf = unused /\ packet_idx = unused /\ curr = unused
            /\ current = unused /\ packet_count = unused /\ checksum = unused
NoIrq == /\ mask = unused /\ needs_recovery = unused
         /\ active_interrupts = unused /\ arrivals = unused
NoSeen == /\ ever = unused /\ late = unused
NoDevice == /\ call = unused /\ ctrl = unused /\ ret = unused /\ reads = unused
NoLoop == /\ typed = unused /\ consumed = unused /\ eof = unused
          /\ size = unused /\ offset = unused /\ expired = unused
          /\ revents = unused

\* What a program does not have.
NotVA == <<rwLockVars, semVars, approxVars, mutexVars, spscVars, indexVars,
           sideVars, entryVars, queueVars, packetVars, irqVars, seenVars,
           deviceVars, loopVars, value, pc, count, done, got, pipe, status>>
NotRW == <<vectorVars, semVars, approxVars, mutexVars, spscVars, indexVars,
           sideVars, entryVars, queueVars, packetVars, irqVars, seenVars,
           deviceVars, loopVars, at, count, done, got, pipe, status>>
NotSP == <<vectorVars, addingVars, rwLockVars, approxVars, mutexVars, spscVars,
           indexVars, sideVars, entryVars, queueVars, packetVars, irqVars,
           seenVars, deviceVars, loopVars, value, pc, done, got, pipe, status>>
NotAC == <<vectorVars, addingVars, rwLockVars, semVars, mutexVars, spscVars,
           indexVars, sideVars, entryVars, queueVars, packetVars, irqVars,
           seenVars, deviceVars, loopVars, at, count, pipe, status>>
NotMC == <<vectorVars, addingVars, rwLockVars, semVars, approxVars, spscVars,
           indexVars, sideVars, entryVars, queueVars, packetVars, irqVars,
           seenVars, deviceVars, loopVars, at, count, pipe, status>>
NotFP == <<vectorVars, addingVars, rwLockVars, semVars, approxVars, mutexVars,
           spscVars, indexVars, sideVars, entryVars, queueVars, packetVars,
           irqVars, seenVars, deviceVars, loopVars, at, value, count, done,
           status>>
NotSR == <<vectorVars, addingVars, rwLockVars, semVars, approxVars, mutexVars,
           entryVars, queueVars, packetVars, irqVars, seenVars, deviceVars,
           loopVars, at, value, pc, count, done, got, pipe, status>>
NotEQ == <<vectorVars, addingVars, rwLockVars, semVars, approxVars, mutexVars,
           spscVars, sideVars, packetVars, irqVars, seenVars, deviceVars,
           loopVars, at, value, pc, count, done, got, pipe, status>>
NotPR == <<vectorVars, addingVars, rwLockVars, semVars, approxVars, mutexVars,
           spscVars, sideVars, queueVars, packetVars, irqVars, seenVars,
           deviceVars, loopVars, at, value, pc, count, done, got, pipe,
           status>>
NotPP == <<vectorVars, addingVars, rwLockVars, semVars, approxVars, mutexVars,
           spscVars, indexVars, entryVars, queueVars, irqVars, seenVars,
           deviceVars, loopVars, at, value, pc, count, done, got, pipe,
           status>>
NotIH == <<vectorVars, addingVars, rwLockVars, semVars, approxVars, mutexVars,
           spscVars, indexVars, sideVars, entryVars, queueVars, packetVars,
           deviceVars, loopVars, at, value, done, got, pipe>>
NotIS == <<vectorVars, addingVars, rwLockVars, semVars, approxVars, mutexVars,
           spscVars, indexVars, sideVars, entryVars, queueVars, packetVars,
           seenVars, deviceVars, loopVars, at, value, done, got, pipe>>
NotDP == <<vectorVars, addingVars, rwLockVars, semVars, approxVars, mutexVars,
           spscVars, indexVars, sideVars, entryVars, queueVars, packetVars,
           irqVars, seenVars, loopVars, at, value, count, done, got, pipe>>
NotEL == <<vectorVars, addingVars, rwLockVars, semVars, approxVars, mutexVars,
           spscVars, indexVars, sideVars, entryVars, queueVars, packetVars,
           irqVars, seenVars, deviceVars, at, value, count, done, got, pipe,
           status>>

InitVA == /\ program = "vector-add" /\ VA!Init
          /\ NoRwLock /\ NoSem /\ NoApprox /\ NoMutex /\ NoSpsc /\ NoIndex
          /\ NoSide /\ NoEntry /\ NoQueue /\ NoPacket /\ NoIrq /\ NoSeen
          /\ NoDevice /\ NoLoop /\ value = unused /\ pc = unused
          /\ count = unused /\ done = unused /\ got = unused
          /\ pipe = unused /\ status = unused
InitRW == /\ program = "reader-writer" /\ RW!Init
          /\ NoVector /\ NoSem /\ NoApprox /\ NoMutex /\ NoSpsc /\ NoIndex
          /\ NoSide /\ NoEntry /\ NoQueue /\ NoPacket /\ NoIrq /\ NoSeen
          /\ NoDevice /\ NoLoop /\ at = unused /\ count = unused
          /\ done = unused /\ got = unused /\ pipe = unused /\ status = unused
InitSP == /\ program = "semaphores" /\ SP!Init
          /\ NoVector /\ NoAdding /\ NoRwLock /\ NoApprox /\ NoMutex
          /\ NoSpsc /\ NoIndex /\ NoSide /\ NoEntry /\ NoQueue /\ NoPacket
          /\ NoIrq /\ NoSeen /\ NoDevice /\ NoLoop /\ value = unused
          /\ pc = unused /\ done = unused /\ got = unused /\ pipe = unused
          /\ status = unused
InitAC == /\ program = "counter" /\ AC!Init
          /\ NoVector /\ NoAdding /\ NoRwLock /\ NoSem /\ NoMutex /\ NoSpsc
          /\ NoIndex /\ NoSide /\ NoEntry /\ NoQueue /\ NoPacket /\ NoIrq
          /\ NoSeen /\ NoDevice /\ NoLoop /\ at = unused /\ count = unused
          /\ pipe = unused /\ status = unused
InitMC == /\ program = "mutex-counter" /\ MC!Init
          /\ NoVector /\ NoAdding /\ NoRwLock /\ NoSem /\ NoApprox /\ NoSpsc
          /\ NoIndex /\ NoSide /\ NoEntry /\ NoQueue /\ NoPacket /\ NoIrq
          /\ NoSeen /\ NoDevice /\ NoLoop /\ at = unused /\ count = unused
          /\ pipe = unused /\ status = unused
InitFP == /\ program = "fork-pipe" /\ FP!Init
          /\ NoVector /\ NoAdding /\ NoRwLock /\ NoSem /\ NoApprox
          /\ NoMutex /\ NoSpsc /\ NoIndex /\ NoSide /\ NoEntry /\ NoQueue
          /\ NoPacket /\ NoIrq /\ NoSeen /\ NoDevice /\ NoLoop
          /\ at = unused /\ value = unused /\ count = unused
          /\ done = unused /\ status = unused
InitSR == /\ program = "spsc" /\ SR!Init
          /\ NoVector /\ NoAdding /\ NoRwLock /\ NoSem /\ NoApprox
          /\ NoMutex /\ NoEntry /\ NoQueue /\ NoPacket /\ NoIrq /\ NoSeen
          /\ NoDevice /\ NoLoop /\ at = unused /\ value = unused
          /\ pc = unused /\ count = unused /\ done = unused /\ got = unused
          /\ pipe = unused /\ status = unused
InitEQ == /\ program = "event-queue" /\ EQ!Init
          /\ NoVector /\ NoAdding /\ NoRwLock /\ NoSem /\ NoApprox
          /\ NoMutex /\ NoSpsc /\ NoSide /\ NoPacket /\ NoIrq /\ NoSeen
          /\ NoDevice /\ NoLoop /\ at = unused /\ value = unused
          /\ pc = unused /\ count = unused /\ done = unused /\ got = unused
          /\ pipe = unused /\ status = unused
InitPR == /\ program = "power-of-two" /\ PR!Init
          /\ NoVector /\ NoAdding /\ NoRwLock /\ NoSem /\ NoApprox
          /\ NoMutex /\ NoSpsc /\ NoSide /\ NoQueue /\ NoPacket /\ NoIrq
          /\ NoSeen /\ NoDevice /\ NoLoop /\ at = unused /\ value = unused
          /\ pc = unused /\ count = unused /\ done = unused /\ got = unused
          /\ pipe = unused /\ status = unused
InitPP == /\ program = "packets" /\ PP!Init
          /\ NoVector /\ NoAdding /\ NoRwLock /\ NoSem /\ NoApprox
          /\ NoMutex /\ NoSpsc /\ NoIndex /\ NoEntry /\ NoQueue /\ NoIrq
          /\ NoSeen /\ NoDevice /\ NoLoop /\ at = unused /\ value = unused
          /\ pc = unused /\ count = unused /\ done = unused /\ got = unused
          /\ pipe = unused /\ status = unused
InitIH == /\ program = "irq" /\ IH!Init
          /\ NoVector /\ NoAdding /\ NoRwLock /\ NoSem /\ NoApprox
          /\ NoMutex /\ NoSpsc /\ NoIndex /\ NoSide /\ NoEntry /\ NoQueue
          /\ NoPacket /\ NoDevice /\ NoLoop /\ at = unused /\ value = unused
          /\ done = unused /\ got = unused /\ pipe = unused
InitIS == /\ program = "irq-storm" /\ IS!Init
          /\ NoVector /\ NoAdding /\ NoRwLock /\ NoSem /\ NoApprox
          /\ NoMutex /\ NoSpsc /\ NoIndex /\ NoSide /\ NoEntry /\ NoQueue
          /\ NoPacket /\ NoSeen /\ NoDevice /\ NoLoop /\ at = unused
          /\ value = unused /\ done = unused /\ got = unused /\ pipe = unused
InitDP == /\ program = "device" /\ DP!Init
          /\ NoVector /\ NoAdding /\ NoRwLock /\ NoSem /\ NoApprox
          /\ NoMutex /\ NoSpsc /\ NoIndex /\ NoSide /\ NoEntry /\ NoQueue
          /\ NoPacket /\ NoIrq /\ NoSeen /\ NoLoop /\ at = unused
          /\ value = unused /\ count = unused /\ done = unused
          /\ got = unused /\ pipe = unused
InitEL == /\ program = "event-loop" /\ EL!Init
          /\ NoVector /\ NoAdding /\ NoRwLock /\ NoSem /\ NoApprox
          /\ NoMutex /\ NoSpsc /\ NoIndex /\ NoSide /\ NoEntry /\ NoQueue
          /\ NoPacket /\ NoIrq /\ NoSeen /\ NoDevice /\ at = unused
          /\ value = unused /\ count = unused /\ done = unused
          /\ got = unused /\ pipe = unused /\ status = unused

Init == InitVA \/ InitRW \/ InitSP \/ InitAC \/ InitMC \/ InitFP \/ InitSR \/
        InitEQ \/ InitPR \/ InitPP \/ InitIH \/ InitIS \/ InitDP \/ InitEL

VectorAdd == program = "vector-add" /\ VA!Next /\ UNCHANGED <<program, NotVA>>
ReaderWriter == program = "reader-writer" /\ RW!Next /\ UNCHANGED <<program, NotRW>>
Semaphores == program = "semaphores" /\ SP!Next /\ UNCHANGED <<program, NotSP>>
ApproxCounter == program = "counter" /\ AC!Next /\ UNCHANGED <<program, NotAC>>
MutexCounter == program = "mutex-counter" /\ MC!Next /\ UNCHANGED <<program, NotMC>>
ForkPipe == program = "fork-pipe" /\ FP!Next /\ UNCHANGED <<program, NotFP>>
Spsc == program = "spsc" /\ SR!Next /\ UNCHANGED <<program, NotSR>>
EventQueue == program = "event-queue" /\ EQ!Next /\ UNCHANGED <<program, NotEQ>>
PowerOfTwo == program = "power-of-two" /\ PR!Next /\ UNCHANGED <<program, NotPR>>
Packets == program = "packets" /\ PP!Next /\ UNCHANGED <<program, NotPP>>
Irq == program = "irq" /\ IH!Next /\ UNCHANGED <<program, NotIH>>
IrqStorm == program = "irq-storm" /\ IS!Next /\ UNCHANGED <<program, NotIS>>
Device == program = "device" /\ DP!Next /\ UNCHANGED <<program, NotDP>>
EventLoop == program = "event-loop" /\ EL!Next /\ UNCHANGED <<program, NotEL>>

Next == VectorAdd \/ ReaderWriter \/ Semaphores \/ ApproxCounter \/
        MutexCounter \/ ForkPipe \/ Spsc \/ EventQueue \/ PowerOfTwo \/
        Packets \/ Irq \/ IrqStorm \/ Device \/ EventLoop

\* The threads, processes and tasks keep running, and so do a caller and the
\* loop; an ISR that has begun a push ends it, the processor takes an interrupt
\* that stays raised, and the periodic timer expires.  Mutexes and semaphores
\* need not be fair, no event need ever come and no call need fail.
FairSpec == /\ Init /\ [][Next]_vars
            /\ \A t \in VA!Tids : WF_(VA!vars)(program = "vector-add" /\ VA!Worker(t))
            /\ \A r \in Readers : WF_(RW!vars)(program = "reader-writer" /\ RW!Reader(r))
            /\ \A w \in Writers : WF_(RW!vars)(program = "reader-writer" /\ RW!Writer(w))
            /\ \A t \in 1 .. 4 : WF_(SP!vars)(program = "semaphores" /\ t \in SP!Children /\ SP!Thread(t))
            /\ \A t \in Incrementers : WF_(AC!vars)(program = "counter" /\ AC!Thread(t))
            /\ WF_(AC!vars)(program = "counter" /\ AC!counter_get)
            /\ \A t \in Incrementers : WF_(MC!vars)(program = "mutex-counter" /\ MC!counter_increment(t))
            /\ WF_(MC!vars)(program = "mutex-counter" /\ MC!counter_get)
            /\ \A p \in FP!Processes : WF_(FP!vars)(program = "fork-pipe" /\ FP!Process(p))
            /\ WF_(SR!vars)(program = "spsc" /\ SR!Parent)
            /\ WF_(SR!vars)(program = "spsc" /\ SR!Child)
            /\ WF_(EQ!vars)(program = "event-queue" /\ EQ!PushStore)
            /\ WF_(EQ!vars)(program = "event-queue" /\ EQ!PushAdvance)
            /\ WF_(EQ!vars)(program = "event-queue" /\ EQ!Task)
            /\ WF_(PP!vars)(program = "packets" /\ PP!Producer)
            /\ WF_(PP!vars)(program = "packets" /\ PP!Consumer)
            /\ WF_(IH!vars)(program = "irq" /\ IH!handle_irq)
            /\ WF_(IS!vars)(program = "irq-storm" /\ IS!irq_handler)
            /\ WF_(IS!vars)(program = "irq-storm" /\ IS!RecoveryTask)
            /\ WF_(DP!vars)(program = "device" /\ DP!Caller)
            /\ WF_(EL!vars)(program = "event-loop" /\ EL!Loop)
            /\ WF_(EL!vars)(program = "event-loop" /\ EL!Tick)
-----------------------------------------------------------------------------
TypeOK == CASE program = "vector-add" -> VA!TypeOK
            [] program = "reader-writer" -> RW!TypeOK
            [] program = "semaphores" -> SP!TypeOK
            [] program = "counter" -> AC!TypeOK
            [] program = "mutex-counter" -> MC!TypeOK
            [] program = "fork-pipe" -> FP!TypeOK
            [] program = "spsc" -> SR!TypeOK
            [] program = "event-queue" -> EQ!TypeOK
            [] program = "power-of-two" -> PR!TypeOK
            [] program = "packets" -> PP!TypeOK
            [] program = "irq" -> IH!TypeOK
            [] program = "irq-storm" -> IS!TypeOK
            [] program = "device" -> DP!TypeOK
            [] program = "event-loop" -> EL!TypeOK

\* No update of shared data is lost to another thread: an add of vector_add
\* (every variant, -p or not), a value++ under the write lock or a mutex, or a
\* count that a thread passes on to the approximate counter, which lags by a
\* bounded amount.
NoUpdateLost == CASE program = "vector-add" -> VA!AddIsAtomic /\ VA!NoAddLost
                  [] program = "reader-writer" -> RW!NoLostWrite
                  [] program = "counter" -> AC!NoneLost /\ AC!BoundedLag
                  [] program = "mutex-counter" -> MC!NoneLost
                  [] OTHER -> TRUE

\* The synchronisation does what it is there for.  A writer excludes readers
\* and writers.  A vector_add worker between two calls, however often it had to
\* back off, keeps no mutex.  "each child should print their before message
\* before either prints their after message", for any number of threads at the
\* barrier, and in fork-join.c the parent ends after the child has run.  The
\* reader of fork_test.c ends with the writer's message.
Synchronised == CASE program = "reader-writer" -> RW!WriterExclusive
                  [] program = "vector-add" -> VA!ReturnsUnlocked
                  [] program = "semaphores" -> SP!BeforeThenAfter
                  [] program = "fork-pipe" -> FP!MessageArrives
                  [] OTHER -> TRUE

\* main's joins all return, with vector_add's -d as well: no thread is left
\* blocked, and the parent of fork_test.c gets both its children.  Excepted are
\* try-wait with -d, where two workers can back off from each other for ever,
\* and a writer of fork_test.c whose dup2 failed, since the reader has the
\* pipe's write end open itself and waits for ever.
BackOffForEver == program = "vector-add" /\ variant = "try-wait" /\ cause_deadlock
NoWriter == program = "fork-pipe" /\ pc["child1"] = "failed"
Joined == CASE program = "vector-add" -> VA!Joined
            [] program = "reader-writer" -> RW!Joined
            [] program = "semaphores" -> SP!AllEnd
            [] program \in {"counter", "mutex-counter"} -> got # -1
            [] program = "fork-pipe" -> FP!Joined
            [] OTHER -> TRUE
AllJoin == <>(BackOffForEver \/ NoWriter \/ Joined)

\* Without a lock, the two sides never use one slot at the same time: the
\* parent and the child of spsc.c, the ISR and the task ("ie we don't increment
\* tail before grabbing data"), the producer and the consumer, whose packets
\* have one owner each, in a ring or in hand, and are never lost.
OneOwner == CASE program = "spsc" -> SR!NoSlotRace
              [] program = "event-queue" -> EQ!NoTornEvent
              [] program = "packets" -> PP!OneOwner
              [] OTHER -> TRUE

\* What the reader finds is what was written next, nothing lost, duplicated or
\* overwritten: the child of spsc.c reads the numbers in order, so that its sum
\* "should be" the one it prints, and the consumer gets the packets in the order
\* of the file and their checksum.
InOrder == CASE program = "spsc" -> SR!ReadsInOrder /\ SR!SumCorrect
             [] program = "packets" -> PP!InFileOrder /\ PP!ChecksumMatches
             [] OTHER -> TRUE

\* The event queue and the power-of-two ring are bounded FIFO queues of all
\* their entries, across the wrap of their counters: a value is dropped only
\* when the queue is full, every other one is delivered once, in order.
ImplementsFifo ==
  /\ program = "event-queue" => EQ!Fifo!Init
  /\ program = "power-of-two" => PR!Fifo!Init
  /\ [][/\ program = "event-queue" => EQ!FifoStep
        /\ program = "power-of-two" => PR!FifoStep]_vars

\* "Clear only the events you handled": whenever it arrives, an event of a kind
\* that handle_irq's read did not find is left set by its clear, no kind is gone
\* before it was counted once, and recovery is asked for exactly when a severe
\* event was counted.  (A second event of a kind that the read did find is
\* cleared with the first: see LateEventsKept.)
NoneForgotten == program = "irq" => IH!NoneForgotten /\ IH!RecoveryNeeded

\* What is read may have changed since it was looked at.  The device functions
\* answer by the first telling status they read; the event loop reads only what
\* is still there to be read, so that it never blocks.
ReadsHold == CASE program = "device" -> DP!FirstReadDecides
               [] program = "event-loop" -> EL!NeverBlocks
               [] OTHER -> TRUE

\* Nobody waits for ever: the child of spsc.c reads all the numbers, the
\* consumer gets every packet and its child's end (unless the producer could not
\* open the file), a polling task drains a full event queue, an interrupt line
\* goes down again, the recovery task runs unless an unmasked error keeps its
\* interrupt firing, a call that polls a device returns, and the event loop gets
\* to all input, also when standard input is at its end, unless poll fails.
Awaited == CASE program = "event-queue" -> EQ!Size = 2
             [] program = "irq" -> status \cap mask # {}
             [] program = "irq-storm" -> needs_recovery
             [] program = "device" -> pc # "end"
             [] program = "event-loop" -> ~EL!AllRead
             [] OTHER -> program \in {"spsc", "packets"}
Arrived == CASE program = "spsc" -> child_counter = 12
             [] program = "packets" -> cpc = "joined" \/ ppc = "failed"
             [] program = "event-queue" -> EQ!Size < 2
             [] program = "irq" -> status \cap mask = {}
             [] program = "irq-storm" -> ~needs_recovery \/ IS!Storm
             [] program = "device" -> pc = "end"
             [] program = "event-loop" -> EL!AllRead \/ pc = "end"
             [] OTHER -> TRUE
AllArrive == Awaited ~> Arrived
=============================================================================
