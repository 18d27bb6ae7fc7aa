----------------------------- MODULE ResetGuard -----------------------------
(***************************************************************************)
(* reset_race_state_guard.c: a count of commands in flight that holds back *)
(* a reset.  Each function runs with the spinlock held and is one step.    *)
(***************************************************************************)
EXTENDS Integers

CONSTANTS Commands           \* the commands that may be submitted, again and again

VARIABLES state, inflight,
          running,           \* the commands accepted and not completed
          reset              \* the last request: held back, or free to go ahead

vars == <<state, inflight, running, reset>>

TypeOK == /\ state \in {"READY", "ACTIVE", "RESETTING", "FAULTED"}
          /\ inflight \in Nat
          /\ running \subseteq Commands
          /\ reset \in {"none", "pending", "granted"}

\* A module starts ready; no function makes it active or faulted.
Init == /\ state \in {"READY", "ACTIVE"} /\ inflight = 0
        /\ running = {} /\ reset = "none"

Accepts == state \in {"READY", "ACTIVE"}
Submitted(n) == n + 1
try_submit_command(c) ==
  /\ c \notin running
  /\ \/ /\ Accepts /\ inflight' = Submitted(inflight) /\ running' = running \cup {c}
     \/ /\ ~Accepts /\ UNCHANGED <<inflight, running>>
  /\ UNCHANGED <<state, reset>>

\* The last completion performs a pending reset.
MutantDrained(n) == n <= 1
Drained(n) == n = 0
command_completed(c) ==
  /\ c \in running /\ running' = running \ {c}
  /\ inflight' = inflight - 1
  /\ reset' = IF state = "RESETTING" /\ Drained(inflight') THEN "granted" ELSE reset
  /\ UNCHANGED state

begin_reset ==
  \/ /\ inflight > 0 /\ state' = "RESETTING" /\ reset' = "pending"
     /\ UNCHANGED <<inflight, running>>
  \/ /\ inflight = 0 /\ reset' = "granted"
     /\ UNCHANGED <<state, inflight, running>>

Calls == begin_reset \/ \E c \in Commands : try_submit_command(c)
Next == Calls \/ \E c \in Commands : command_completed(c)
Spec == Init /\ [][Next]_vars
\* A command that runs completes.
FairSpec == Spec /\ \A c \in Commands : WF_vars(command_completed(c))
-----------------------------------------------------------------------------
\* A reset gets its go-ahead, from begin_reset at once or from the completion it
\* was held back for, only when no command is running.
NoResetUnderCommand == reset # "granted" /\ reset' = "granted" => running' = {}

\* "New commands may start only from `MOD_READY` or `MOD_ACTIVE`": none is
\* accepted from begin_reset's false answer to the last completion.
NoneAcceptedMeanwhile == reset = "pending" => running' \subseteq running

\* "`begin_reset` prevents new submissions", whether it succeeds at once or not.
NoSubmissionAfterReset == [][reset # "none" => running' \subseteq running]_vars
=============================================================================
