----------------------------- MODULE Completion -----------------------------
(***************************************************************************)
(* completion_vs_timeout_race.c: one thread arms an operation and waits    *)
(* for it with a timeout.  A step is a critical section of c->mu, or the   *)
(* end of a pthread_cond_timedwait.  comp_complete has no body and changes *)
(* nothing; comp_cancel is declared only, and modelled from the states the *)
(* waiter handles.  The two returns of comp_wait_timeout that skip the     *)
(* unlock leave the mutex with the caller for good.                        *)
(***************************************************************************)
EXTENDS Integers

CONSTANTS Threads, NoThread,
          MaxGeneration      \* bound: operations armed

GenerationAssumption == MaxGeneration \in Nat /\ NoThread \notin Threads

VARIABLES state, generation, \* struct completion
          mu,                \* who keeps the mutex between steps
          pc,                \* per thread: "idle", in the "wait", "woken" or "expired"
          ret                \* per thread: what its last wait returned

vars == <<state, generation, mu, pc, ret>>

States == {"IDLE", "PENDING", "DONE", "TIMED_OUT", "CANCELED"}

TypeOK == /\ state \in States /\ generation \in 0 .. MaxGeneration
          /\ mu \in Threads \cup {NoThread}
          /\ pc \in [Threads -> {"idle", "wait", "woken", "expired"}]
          /\ ret \in [Threads -> {"none", "0", "-1", "-2", "-3"}]

Init == /\ state = "IDLE" /\ generation = 0 /\ mu = NoThread
        /\ pc = [t \in Threads |-> "idle"] /\ ret = [t \in Threads |-> "none"]

CanLock == mu = NoThread

comp_arm == /\ CanLock /\ generation < MaxGeneration
            /\ generation' = generation + 1 /\ state' = "PENDING"
            /\ UNCHANGED <<mu, pc, ret>>

\* comp_wait_timeout up to the first wait, for the operation g.
StartWait(t, g) ==
  /\ pc[t] = "idle" /\ CanLock /\ UNCHANGED <<state, generation>>
  /\ \/ /\ generation = g /\ state = "PENDING"
        /\ pc' = [pc EXCEPT ![t] = "wait"] /\ UNCHANGED <<mu, ret>>
     \/ /\ generation # g \/ state # "PENDING"
        /\ ret' = [ret EXCEPT ![t] = "-1"] /\ mu' = t /\ UNCHANGED pc

\* The timer of the wait runs out, or the wait ends without a reason.
Expire(t) == /\ pc[t] = "wait" /\ pc' = [pc EXCEPT ![t] = "expired"]
             /\ UNCHANGED <<state, generation, mu, ret>>
SpuriousWakeup(t) == /\ pc[t] = "wait" /\ pc' = [pc EXCEPT ![t] = "woken"]
                     /\ UNCHANGED <<state, generation, mu, ret>>

\* The loop and what follows it.  It ends only when state is not PENDING, so
\* the branch for ETIMEDOUT is never taken.
Recheck(t) ==
  /\ pc[t] \in {"woken", "expired"} /\ CanLock /\ UNCHANGED <<state, generation>>
  /\ \/ /\ state = "PENDING" /\ pc' = [pc EXCEPT ![t] = "wait"] /\ UNCHANGED <<mu, ret>>
     \/ /\ state # "PENDING" /\ pc' = [pc EXCEPT ![t] = "idle"] /\ UNCHANGED mu
        /\ ret' = [ret EXCEPT ![t] = IF state = "DONE" THEN "0" ELSE "-3"]

comp_cancel(g) == /\ CanLock /\ generation = g /\ state = "PENDING"
                  /\ state' = "CANCELED"
                  /\ pc' = [t \in Threads |-> IF pc[t] = "wait" THEN "woken" ELSE pc[t]]
                  /\ UNCHANGED <<generation, mu, ret>>

Generations == 1 .. MaxGeneration
Next == \/ comp_arm
        \/ \E g \in Generations : comp_cancel(g) \/ \E t \in Threads : StartWait(t, g)
        \/ \E t \in Threads : Expire(t) \/ SpuriousWakeup(t) \/ Recheck(t)
Spec == Init /\ [][Next]_vars
FairSpec == Spec /\ \A t \in Threads : WF_vars(Expire(t)) /\ WF_vars(Recheck(t))
-----------------------------------------------------------------------------
\* "If timeout expires while state is still `COMP_PENDING`, the waiter
\* transitions it to `COMP_TIMED_OUT`", so that the operation ends.
TimeoutEnds == \A t \in Threads : pc[t] = "expired" /\ state = "PENDING" ~> state # "PENDING"
=============================================================================
