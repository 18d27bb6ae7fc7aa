----------------------------- MODULE StatTable -----------------------------
(***************************************************************************)
(* thread_safe_stat_table.c: counters behind a readers-writers lock.  The  *)
(* loops of stats_snapshot and stats_reset_all take one counter a step, so *)
(* that what the lock keeps apart can be seen.  Calls that fail the checks *)
(* of their arguments change nothing and are left out.                     *)
(***************************************************************************)
EXTENDS Integers

CONSTANTS Threads, STAT_COUNT,
          MAX,               \* UINT64_MAX
          Deltas,            \* arguments of stats_add
          MaxAdds            \* bound on the calls of stats_add that finish

TableAssumption == /\ STAT_COUNT \in Nat \ {0} /\ MAX \in Nat
                   /\ Deltas \subseteq 0 .. MAX /\ MaxAdds \in Nat

Idx == 0 .. STAT_COUNT - 1

VARIABLES counters,
          readers, writer,   \* who holds the lock for reading, for writing
          pc, k,             \* per thread: call it is in, position in its loop
          out,               \* per thread: what stats_read or stats_snapshot copied
          total, adds        \* history: sum added since the last reset; calls

vars == <<counters, readers, writer, pc, k, out, total, adds>>
history == <<total, adds>>
Calls == {"idle", "snapshot", "reset", "copied"}

TypeOK == /\ counters \in [Idx -> 0 .. MAX]
          /\ readers \subseteq Threads /\ writer \subseteq Threads
          /\ pc \in [Threads -> Calls] /\ k \in [Threads -> 0 .. STAT_COUNT]
          /\ out \in [Threads -> [Idx -> 0 .. MAX]]
          /\ total \in [Idx -> Nat] /\ adds \in 0 .. MaxAdds

Zero == [j \in Idx |-> 0]
Init == /\ counters = Zero /\ readers = {} /\ writer = {}
        /\ pc = [t \in Threads |-> "idle"] /\ k = [t \in Threads |-> 0]
        /\ out = [t \in Threads |-> Zero]
        /\ total = Zero /\ adds = 0

\* The lock (pthread_rwlock_t): many readers or one writer.
RdLock(t) == writer = {} /\ readers' = readers \cup {t} /\ UNCHANGED writer
WrLock(t) == writer = {} /\ readers = {} /\ writer' = {t} /\ UNCHANGED readers
Unlock(t) == readers' = readers \ {t} /\ writer' = writer \ {t}

MutantSnapshotLock(t) == UNCHANGED <<readers, writer>>
SnapshotLock(t) == RdLock(t)
StartSnapshot(t) == /\ pc[t] = "idle" /\ SnapshotLock(t)
                    /\ pc' = [pc EXCEPT ![t] = "snapshot"]
                    /\ k' = [k EXCEPT ![t] = 0] /\ out' = [out EXCEPT ![t] = Zero]
                    /\ UNCHANGED <<counters, history>>
Copy(t) == /\ pc[t] = "snapshot" /\ k[t] < STAT_COUNT
           /\ out' = [out EXCEPT ![t][k[t]] = counters[k[t]]]
           /\ k' = [k EXCEPT ![t] = @ + 1]
           /\ pc' = [pc EXCEPT ![t] = IF k[t] + 1 = STAT_COUNT THEN "copied" ELSE @]
           /\ UNCHANGED <<counters, readers, writer, history>>
EndSnapshot(t) == /\ pc[t] = "copied" /\ Unlock(t)
                  /\ pc' = [pc EXCEPT ![t] = "idle"] /\ k' = [k EXCEPT ![t] = 0]
                  /\ UNCHANGED <<counters, out, history>>

\* stats_read: one counter, copied with the lock held.
Read(t, j) == /\ pc[t] = "idle" /\ writer = {}
              /\ out' = [out EXCEPT ![t] = [Zero EXCEPT ![j] = counters[j]]]
              /\ UNCHANGED <<counters, readers, writer, pc, k, history>>

Sum(c, delta) == IF delta > MAX - c THEN MAX ELSE c + delta
\* stats_add: nobody can look between its lock and its unlock.
Add(t, j, delta) == /\ pc[t] = "idle" /\ writer = {} /\ readers = {} /\ adds < MaxAdds
                    /\ counters' = [counters EXCEPT ![j] = Sum(@, delta)]
                    /\ total' = [total EXCEPT ![j] = @ + delta] /\ adds' = adds + 1
                    /\ UNCHANGED <<readers, writer, pc, k, out>>

StartReset(t) == /\ pc[t] = "idle" /\ WrLock(t)
                 /\ pc' = [pc EXCEPT ![t] = "reset"] /\ k' = [k EXCEPT ![t] = 0]
                 /\ UNCHANGED <<counters, out, history>>
Last(j) == j = STAT_COUNT
Clear(t) == /\ pc[t] = "reset" /\ ~Last(k[t])
            /\ counters' = [counters EXCEPT ![k[t]] = 0]
            /\ total' = [total EXCEPT ![k[t]] = 0]
            /\ k' = [k EXCEPT ![t] = @ + 1]
            /\ UNCHANGED <<readers, writer, pc, out, adds>>
EndReset(t) == /\ pc[t] = "reset" /\ Last(k[t]) /\ Unlock(t)
               /\ pc' = [pc EXCEPT ![t] = "idle"] /\ k' = [k EXCEPT ![t] = 0]
               /\ UNCHANGED <<counters, out, history>>

Next == \E t \in Threads :
          \/ StartSnapshot(t) \/ Copy(t) \/ EndSnapshot(t)
          \/ StartReset(t) \/ Clear(t) \/ EndReset(t)
          \/ \E j \in Idx : Read(t, j) \/ \E delta \in Deltas : Add(t, j, delta)
Spec == Init /\ [][Next]_vars
-----------------------------------------------------------------------------
\* "Snapshot must be internally consistent": what stats_snapshot copied, one
\* counter after the other, are the counters as they stand at one moment.
SnapshotConsistent == \A t \in Threads : pc[t] = "copied" => out[t] = counters

\* A counter is what was added since it was reset, up to UINT64_MAX where it
\* stays: no add is lost, and none wraps the counter round.
Saturates == \A j \in Idx :
  counters[j] = IF total[j] > MAX THEN MAX ELSE total[j]

\* Nobody sees half of stats_reset_all: from its lock to its unlock no call
\* copies a counter or adds to one, and it leaves with every counter at 0.
ResetUnseen == \A t \in Threads : pc[t] = "reset" =>
  /\ out' = out /\ adds' = adds
  /\ pc'[t] # "reset" => counters = Zero
=============================================================================
