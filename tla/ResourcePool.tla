---------------------------- MODULE ResourcePool ----------------------------
(***************************************************************************)
(* semaphore_resource_pool.c: a counting semaphore admits as many threads  *)
(* as there are free resources, a mutex guards the table of resources.     *)
(* The semaphore and the table change in different steps.  A step is       *)
(* sem_wait, sem_post, or a critical section of p->mu; mu is kept as a     *)
(* variable because one path of rp_release returns without unlocking.      *)
(***************************************************************************)
EXTENDS Integers, FiniteSets

CONSTANTS Threads,  \* the clients
          Cap,      \* RP_CAP
          Foreign   \* ids a client may pass to rp_release that are not in the table

PoolAssumption == Cap \in Nat \ {0} /\ IsFiniteSet(Threads) /\ "free" \notin Threads

VARIABLES in_use, closed,  \* struct resource_pool; the id of a resource is its index
          available,       \* the semaphore
          mu,              \* "free", or the thread that holds the mutex
          pc,              \* where each client is
          holds            \* the resources each client has acquired and not released

table == <<in_use, closed>>
vars == <<table, available, mu, pc, holds>>

Slots == 0 .. Cap - 1

TypeOK == /\ in_use \in [Slots -> BOOLEAN] /\ closed \in BOOLEAN
          /\ available \in Nat
          /\ mu \in Threads \cup {"free"}
          /\ pc \in [Threads -> {"idle", "wait", "lock", "repost", "post", "stopped"}]
          /\ holds \in [Threads -> SUBSET Slots]

Init == /\ in_use = [s \in Slots |-> FALSE] /\ closed = FALSE
        /\ available = Cap
        /\ mu = "free"
        /\ pc = [t \in Threads |-> "idle"]
        /\ holds = [t \in Threads |-> {}]

Goto(t, l) == pc' = [pc EXCEPT ![t] = l]

\* A client calls rp_acquire.
CallAcquire(t) == /\ pc[t] = "idle" /\ Goto(t, "wait")
                  /\ UNCHANGED <<table, available, mu, holds>>

MutantSemUnguarded(t) == /\ pc[t] = "wait" /\ Goto(t, "lock")
                         /\ available' = available - 1
                         /\ UNCHANGED <<table, mu, holds>>
SemWait(t) == /\ pc[t] = "wait" /\ available > 0
              /\ available' = available - 1
              /\ Goto(t, "lock")
              /\ UNCHANGED <<table, mu, holds>>

Free == {s \in Slots : ~in_use[s]}
\* The loop's free_idx: the first free resource, and 0 when there is none.
FreeIdx == IF Free = {} THEN 0 ELSE CHOOSE s \in Free : \A r \in Free : s <= r

\* The critical section of rp_acquire.
AcquireSection(t) ==
  /\ pc[t] = "lock" /\ mu = "free"
  /\ \/ closed /\ Goto(t, "repost") /\ UNCHANGED <<in_use, holds>>
     \/ /\ ~closed
        /\ in_use' = [in_use EXCEPT ![FreeIdx] = TRUE]
        /\ holds' = [holds EXCEPT ![t] = @ \cup {FreeIdx}]
        /\ Goto(t, "idle")
  /\ UNCHANGED <<closed, available, mu>>

MutantRepost(t) == /\ pc[t] = "repost" /\ Goto(t, "stopped")
                   /\ UNCHANGED <<table, available, mu, holds>>
\* rp_acquire of a closed pool passes its permit on; the client stops asking.
Repost(t) == /\ pc[t] = "repost"
             /\ available' = available + 1
             /\ Goto(t, "stopped")
             /\ UNCHANGED <<table, mu, holds>>

\* The critical section of rp_release for a resource the client holds.
ReleaseSection(t, s) == /\ pc[t] = "idle" /\ mu = "free" /\ s \in holds[t]
                        /\ in_use' = [in_use EXCEPT ![s] = FALSE]
                        /\ holds' = [holds EXCEPT ![t] = @ \ {s}]
                        /\ Goto(t, "post")
                        /\ UNCHANGED <<closed, available, mu>>

MutantPost(t) == /\ pc[t] = "post" /\ available' = available + 2 /\ Goto(t, "idle")
                 /\ UNCHANGED <<table, mu, holds>>
Post(t) == /\ pc[t] = "post"
           /\ available' = available + 1
           /\ Goto(t, "idle")
           /\ UNCHANGED <<table, mu, holds>>

\* rp_release of an id that is not in the table: line 78 returns with p->mu locked.
ReleaseForeign(t, id) == /\ pc[t] = "idle" /\ mu = "free"
                         /\ id \notin Slots
                         /\ mu' = t
                         /\ UNCHANGED <<table, available, pc, holds>>

Close == /\ mu = "free"
         /\ closed' = TRUE
         /\ UNCHANGED <<in_use, available, mu, pc, holds>>

\* What clients ask for: they release only what they hold.
Calls == \/ Close
         \/ \E t \in Threads : CallAcquire(t) \/ \E s \in Slots : ReleaseSection(t, s)
\* Calls go on.
Running(t) == SemWait(t) \/ AcquireSection(t) \/ Repost(t) \/ Post(t)

CarefulNext == Calls \/ \E t \in Threads : Running(t)
Next == CarefulNext \/ \E t \in Threads, id \in Foreign : ReleaseForeign(t, id)

Spec == Init /\ [][Next]_vars
CarefulSpec == Init /\ [][CarefulNext]_vars
FairSpec == CarefulSpec /\ \A t \in Threads : WF_vars(Running(t))
-----------------------------------------------------------------------------
\* No resource is handed to two clients.
ExclusiveUse == \A t, u \in Threads : t # u => holds[t] \cap holds[u] = {}

\* "The semaphore counts resources": permits, and threads between the
\* semaphore and the table, together always match the free entries.  A thread
\* that got past sem_wait therefore finds a free entry, and the default
\* free_idx = 0 is never handed out.
PermitsMatchFree ==
  available + Cardinality({t \in Threads : pc[t] \in {"lock", "repost", "post"}}) = Cardinality(Free)

\* Closing wakes nobody by itself, but a permit in a closed pool is passed on:
\* t is blocked in rp_acquire and there is one.
CanBeHandedOn(t) == closed /\ available > 0 /\ pc[t] = "wait"
=============================================================================
