------------------------------ MODULE VectorAdd ------------------------------
(***************************************************************************)
(* 32_ConcurrencyBugs: num_threads workers each call vector_add loops      *)
(* times, linked with one of five vector_add's.  A vector_add is a program *)
(* of lock, unlock, load and store instructions, which the worker runs one *)
(* at a time; the options -d (every second worker swaps its vectors) and   *)
(* -p (every worker has vectors of its own) are chosen at the start.  The  *)
(* elements of a vector are all alike and handled alike: one stands for    *)
(* the VECTOR_SIZE of them.                                                *)
(***************************************************************************)
EXTENDS Integers, Sequences

CONSTANTS num_threads, loops, Variants,
          MaxRetry           \* bound: the retry counter stops there

VectorAssumption == num_threads \in Nat /\ loops \in Nat /\ MaxRetry \in Nat

Tids    == 0 .. num_threads - 1
Vectors == 0 .. 2 * num_threads - 1
global  == 2 * num_threads   \* the mutex of vector-avoid-hold-and-wait.c
Locks   == Vectors \cup {global}
free    == -1

VARIABLES variant, cause_deadlock, enable_parallelism,
          values,            \* v[i].values[0]
          owner,             \* who holds each mutex
          i,                 \* per worker: calls of vector_add done
          at,                \* per worker: next instruction of vector_add
          reg,               \* per worker: what it last loaded
          retry

options == <<variant, cause_deadlock, enable_parallelism>>
vars == <<options, values, owner, i, at, reg, retry>>

\* The instructions: n is the mutex, or the instruction to go on with.
Lock(n)       == [op |-> "lock", n |-> n, else |-> 0]
TryLock(n, e) == [op |-> "trylock", n |-> n, else |-> e]
Unlock(n)     == [op |-> "unlock", n |-> n, else |-> 0]
Do(op)        == [op |-> op, n |-> 0, else |-> 0]
Goto(n)       == [op |-> "goto", n |-> n, else |-> 0]
Add           == <<Do("load sum"), Do("store")>>
Return        == <<Do("return")>>

Deadlock(dst, src) ==
  <<Lock(dst), Lock(src)>> \o Add \o <<Unlock(dst), Unlock(src)>> \o Return

MutantGlobalOrder(dst, src) == Deadlock(dst, src)
GlobalOrder(dst, src) ==
  (IF dst < src THEN <<Lock(dst), Lock(src)>>
   ELSE IF dst > src THEN <<Lock(src), Lock(dst)>> ELSE <<Lock(src)>>)
  \o Add \o <<Unlock(src)>> \o (IF dst # src THEN <<Unlock(dst)>> ELSE <<>>) \o Return

AvoidHoldAndWait(dst, src) ==
  <<Lock(global), Lock(dst), Lock(src), Unlock(global)>>
  \o Add \o <<Unlock(dst), Unlock(src)>> \o Return

TryWait(dst, src) ==
  <<TryLock(dst, 1), TryLock(src, 8)>> \o Add \o <<Unlock(dst), Unlock(src)>> \o Return
  \o <<Do("load retry"), Do("store retry"), Unlock(dst), Goto(1)>>

MutantNoLock(dst, src) == Add \o Return
NoLock(dst, src) == <<Do("load src"), Do("fetch and add")>> \o Return

vector_add(dst, src) ==
  CASE variant = "deadlock" -> Deadlock(dst, src)
    [] variant = "global-order" -> GlobalOrder(dst, src)
    [] variant = "avoid-hold-and-wait" -> AvoidHoldAndWait(dst, src)
    [] variant = "try-wait" -> TryWait(dst, src)
    [] variant = "nolock" -> NoLock(dst, src)

\* The vectors of worker t: main's thread arguments and worker's choice of order.
Pair(t) == IF enable_parallelism THEN <<2 * t, 2 * t + 1>> ELSE <<0, 1>>
Swaps(t) == cause_deadlock /\ t % 2 = 1
Dst(t) == Pair(t)[IF Swaps(t) THEN 2 ELSE 1]
Src(t) == Pair(t)[IF Swaps(t) THEN 1 ELSE 2]
Instr(t) == vector_add(Dst(t), Src(t))[at[t]]

TypeOK == /\ values \in [Vectors -> Int] /\ owner \in [Locks -> Tids \cup {free}]
          /\ i \in [Tids -> 0 .. loops] /\ at \in [Tids -> 1 .. 11]
          /\ reg \in [Tids -> Int] /\ retry \in 0 .. MaxRetry

\* main: every vector starts as its index.  vector-deadlock.c is not run with
\* -d, the option that is there to make it deadlock.
Init == /\ variant \in Variants
        /\ cause_deadlock \in (IF variant = "deadlock" THEN {FALSE} ELSE BOOLEAN)
        /\ enable_parallelism \in BOOLEAN
        /\ values = [k \in Vectors |-> k]
        /\ owner = [l \in Locks |-> free]
        /\ i = [t \in Tids |-> 0] /\ at = [t \in Tids |-> 1] /\ reg = [t \in Tids |-> 0]
        /\ retry = 0

Go(t, n) == at' = [at EXCEPT ![t] = n] /\ UNCHANGED options
Running(t, op) == i[t] < loops /\ Instr(t).op = op
Least(x, y) == IF x < y THEN x ELSE y

Acquire(t) == /\ Running(t, "lock") \/ Running(t, "trylock")
              /\ owner[Instr(t).n] = free
              /\ owner' = [owner EXCEPT ![Instr(t).n] = t]
              /\ Go(t, at[t] + 1) /\ UNCHANGED <<values, i, reg, retry>>
FailTry(t) == /\ Running(t, "trylock") /\ owner[Instr(t).n] # free
              /\ Go(t, Instr(t).else) /\ UNCHANGED <<values, owner, i, reg, retry>>
Release(t) == /\ Running(t, "unlock")
              /\ owner' = [owner EXCEPT ![Instr(t).n] = free]
              /\ Go(t, at[t] + 1) /\ UNCHANGED <<values, i, reg, retry>>
Jump(t) == /\ Running(t, "goto")
           /\ Go(t, Instr(t).n) /\ UNCHANGED <<values, owner, i, reg, retry>>
Load(t, op, x) == /\ Running(t, op) /\ reg' = [reg EXCEPT ![t] = x]
                  /\ Go(t, at[t] + 1) /\ UNCHANGED <<values, owner, i, retry>>
Store(t, op, x) == /\ Running(t, op) /\ values' = [values EXCEPT ![Dst(t)] = x]
                   /\ reg' = [reg EXCEPT ![t] = 0]
                   /\ Go(t, at[t] + 1) /\ UNCHANGED <<owner, i, retry>>
StoreRetry(t) == /\ Running(t, "store retry")
                 /\ retry' = Least(reg[t] + 1, MaxRetry)
                 /\ reg' = [reg EXCEPT ![t] = 0]
                 /\ Go(t, at[t] + 1) /\ UNCHANGED <<values, owner, i>>
Leave(t) == /\ Running(t, "return") /\ i' = [i EXCEPT ![t] = @ + 1]
            /\ Go(t, 1) /\ UNCHANGED <<values, owner, reg, retry>>

Worker(t) == \/ Acquire(t) \/ FailTry(t) \/ Release(t) \/ Jump(t) \/ Leave(t)
             \/ Load(t, "load sum", values[Dst(t)] + values[Src(t)])
             \/ Load(t, "load src", values[Src(t)])
             \/ Store(t, "store", reg[t])
             \/ Store(t, "fetch and add", values[Dst(t)] + reg[t])
             \/ Load(t, "load retry", retry)
             \/ StoreRetry(t)

\* pthread_join has returned for every worker; main ends.
Joined == \A t \in Tids : i[t] = loops

Next == \E t \in Tids : Worker(t)
Spec == Init /\ [][Next]_vars
\* Every thread keeps running.  The mutexes need not be fair.
FairSpec == Spec /\ \A t \in Tids : WF_vars(Worker(t))
-----------------------------------------------------------------------------
\* A worker about to store its sum computed it from the present values: no add
\* of another worker comes between its load and its store.
AddIsAtomic == \A t \in Tids :
  Running(t, "store") => reg[t] = values[Dst(t)] + values[Src(t)]

\* Without -d the workers only read the second vector of their pair, and when
\* they have joined no addition to the first one has been lost: it has grown by
\* the second once for each call.
NoAddLost == Joined /\ ~cause_deadlock =>
  \A t \in Tids : values[Dst(t)] = Dst(t)
    + Src(t) * loops * (IF enable_parallelism THEN 1 ELSE num_threads)

\* A worker between two calls holds no mutex, whichever way it left the last
\* one and however often it had to back off.
ReturnsUnlocked == \A t \in Tids : at[t] = 1 => \A l \in Locks : owner[l] # t
=============================================================================
