------------------------------ MODULE CondVar ------------------------------
(***************************************************************************)
(* POSIX condition variables, as the programs use them.  A thread that     *)
(* calls pthread_cond_wait releases the mutex and joins the wait set of    *)
(* the condition in one step; a signal takes one arbitrary member out of   *)
(* the set (none when it is empty), a broadcast takes all; a thread that   *)
(* left the set still has to lock the mutex again before it goes on.  A    *)
(* wait may also return without a signal.                                  *)
(***************************************************************************)

\* The sets of threads that one pthread_cond_signal may wake.
SignalChoices(waiters) ==
  IF waiters = {} THEN {{}} ELSE {{w} : w \in waiters}

\* Program counters after t returned and the threads in W were woken.
Wake(pc, t, W) ==
  [u \in DOMAIN pc |-> IF u = t THEN "idle" ELSE IF u \in W THEN "woken" ELSE pc[u]]
=============================================================================
