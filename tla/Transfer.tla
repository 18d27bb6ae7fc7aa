------------------------------ MODULE Transfer ------------------------------
(***************************************************************************)
(* deadlock_free_multi_lock_transfer.c: threads move amounts between       *)
(* counters, each guarded by its own mutex, and lock the two counters of a *)
(* transfer in the order of their ids, and of their addresses when the ids *)
(* are equal.  Each lock and unlock is a step, the critical section is     *)
(* one.  Calls that return before they lock anything change no state.      *)
(***************************************************************************)
EXTENDS Integers, FiniteSets, Functions

CONSTANTS Threads, Counters,
          Id, Addr,          \* id field and address of each counter
          MaxId, AddrSpace,  \* id <= MaxId (uint32_t), address < AddrSpace
          Initial,           \* initial values
          Amounts            \* amounts asked for, all positive

ASSUME CounterAssumption ==
  /\ MaxId \in Nat /\ AddrSpace \in Nat
  /\ Id \in [Counters -> 0 .. MaxId]
  /\ Addr \in [Counters -> 0 .. AddrSpace - 1]
  /\ \A a, b \in Counters : Addr[a] = Addr[b] => a = b
\* The values together are far below 2^63, so that no addition overflows.
ASSUME ValueAssumption == /\ Initial \in [Counters -> Nat] /\ Counters # {}
                          /\ Amounts \subseteq Nat \ {0} /\ Amounts # {}
ASSUME FiniteAssumption == IsFiniteSet(Counters)
ASSUME ThreadAssumption == "free" \notin Threads

VARIABLES value,             \* the value field of each counter
          owner,             \* who holds each mutex
          pc, from, to, amount  \* per thread: location and arguments

args == <<from, to, amount>>
vars == <<value, owner, pc, args>>

TypeOK == /\ value \in [Counters -> Int]
          /\ owner \in [Counters -> Threads \cup {"free"}]
          /\ pc \in [Threads -> {"idle", "lock_1", "lock_2", "body", "unlock_2", "unlock_1"}]
          /\ from \in [Threads -> Counters] /\ to \in [Threads -> Counters]
          /\ amount \in [Threads -> Amounts]
          /\ \A t \in Threads : pc[t] # "idle" => from[t] # to[t]

Init == /\ value = Initial
        /\ owner = [c \in Counters |-> "free"]
        /\ pc = [t \in Threads |-> "idle"]
        /\ from = [t \in Threads |-> CHOOSE c \in Counters : TRUE] /\ to = from
        /\ amount = [t \in Threads |-> CHOOSE a \in Amounts : TRUE]

MutantFirst(t) == from[t]
\* Lines 40 to 56.
First(t) == LET f == from[t]
                o == to[t] IN
            IF Id[f] < Id[o] THEN f
            ELSE IF Id[f] > Id[o] THEN o
            ELSE IF Addr[f] < Addr[o] THEN f ELSE o
Second(t) == IF First(t) = from[t] THEN to[t] ELSE from[t]

MutantAccepted(f, o) == TRUE
\* The early returns of lines 25 to 38 that depend on the counters.
Accepted(f, o) == f # o
Call(t, f, o, a) == /\ pc[t] = "idle" /\ Accepted(f, o)
                    /\ from' = [from EXCEPT ![t] = f]
                    /\ to' = [to EXCEPT ![t] = o]
                    /\ amount' = [amount EXCEPT ![t] = a]
                    /\ pc' = [pc EXCEPT ![t] = "lock_1"]
                    /\ UNCHANGED <<value, owner>>

Lock(t, c, l, m) == /\ pc[t] = l /\ owner[c] = "free"
                    /\ owner' = [owner EXCEPT ![c] = t]
                    /\ pc' = [pc EXCEPT ![t] = m]
                    /\ UNCHANGED <<value, args>>

Unlock(t, c, l, m) == /\ pc[t] = l
                      /\ owner' = [owner EXCEPT ![c] = "free"]
                      /\ pc' = [pc EXCEPT ![t] = m]
                      /\ UNCHANGED <<value, args>>

Enough(t) == value[from[t]] >= amount[t]

MutantMoved(t) == [value EXCEPT ![to[t]] = @ + amount[t]]
Moved(t) == [value EXCEPT ![from[t]] = @ - amount[t], ![to[t]] = @ + amount[t]]

MutantBody(t) == /\ pc[t] = "body" /\ UNCHANGED <<owner, args>>
                 /\ IF Enough(t) THEN value' = Moved(t) /\ pc' = [pc EXCEPT ![t] = "unlock_2"]
                                 ELSE UNCHANGED <<value, pc>>
\* The critical section; -3 when there is not enough to move.
Body(t) == /\ pc[t] = "body"
           /\ \/ ~Enough(t) /\ UNCHANGED value
              \/ Enough(t) /\ value' = Moved(t)
           /\ pc' = [pc EXCEPT ![t] = "unlock_2"]
           /\ UNCHANGED <<owner, args>>

Step(t) == \/ Lock(t, First(t), "lock_1", "lock_2")
           \/ Lock(t, Second(t), "lock_2", "body")
           \/ Body(t)
           \/ Unlock(t, Second(t), "unlock_2", "unlock_1")
           \/ Unlock(t, First(t), "unlock_1", "idle")

Next == \E t \in Threads :
          Step(t) \/ \E f, o \in Counters, a \in Amounts : Call(t, f, o, a)

Spec == Init /\ [][Next]_vars
\* Every thread keeps running, and gets a mutex that stays free.  Mutexes need
\* not be fair: one that others keep taking may never be got.
FairSpec == Spec /\ \A t \in Threads : WF_vars(Step(t))
-----------------------------------------------------------------------------
\* Thread t is inside pthread_mutex_lock for a mutex that u holds.
WaitsFor(t, u) == \/ pc[t] = "lock_1" /\ owner[First(t)] = u
                  \/ pc[t] = "lock_2" /\ owner[Second(t)] = u

\* "Prevent deadlock by always locking in increasing id order": no set of
\* threads wait for each other, whichever transfers they have started; and
\* none waits for a thread that has returned ("Unlock every mutex on every
\* return path").
NoCircularWait ==
  /\ \A S \in SUBSET Threads : S # {} => \E t \in S : \A u \in S : ~WaitsFor(t, u)
  /\ \A t \in Threads, c \in Counters : pc[t] = "idle" => owner[c] # t

\* Transfers move value and neither make nor lose any, at every moment, and no
\* transfer overdraws a counter.
Conserved == /\ SumFunction(value) = SumFunction(Initial)
             /\ \A c \in Counters : value[c] >= 0

\* Once no more transfers are started, all that were started return: nothing
\* but a stream of later transfers can keep one waiting.
NoMoreCalls == <>[][\A t \in Threads : pc[t] = "idle" => pc'[t] = "idle"]_vars
AllCallsReturn == NoMoreCalls => <>[](\A t \in Threads : pc[t] = "idle")
=============================================================================
