------------------------------ MODULE IrqStorm ------------------------------
(***************************************************************************)
(* labs/interrupt_storm_after_error.c: a handler that clears only          *)
(* IRQ_DONE, and a recovery task that is to clear the errors.  The         *)
(* interrupt is raised as long as an unmasked bit is set; the task gets    *)
(* the processor between two entries of the handler.  A step of the        *)
(* handler accesses status once.                                           *)
(***************************************************************************)
EXTENDS Integers

CONSTANTS CountModulus,      \* 2^32, the range of the counts
          MaxArrivals        \* bound: events the device signals

CountAssumption == CountModulus \in Nat \ {0} /\ MaxArrivals \in Nat

VARIABLES status, mask,      \* struct regs
          count,             \* done_count and error_count, by bit
          needs_recovery,    \* recovery_needed, and the task is woken
          pc, active_interrupts,  \* the handler: location, its local st
          arrivals           \* how many events there have been

vars == <<status, mask, count, needs_recovery, pc, active_interrupts, arrivals>>

Bits == {"DONE", "ERROR", "FATAL"}
Errors == {"ERROR", "FATAL"}

TypeOK == /\ status \subseteq Bits /\ mask \subseteq Bits
          /\ count \in [{"DONE", "ERROR"} -> 0 .. CountModulus - 1]
          /\ needs_recovery \in BOOLEAN /\ pc \in {"idle", "clear"}
          /\ active_interrupts \subseteq Bits
          /\ arrivals \in 0 .. MaxArrivals

Init == /\ status = {} /\ mask \in SUBSET Bits
        /\ count = [b \in {"DONE", "ERROR"} |-> 0] /\ needs_recovery = FALSE
        /\ pc = "idle" /\ active_interrupts = {} /\ arrivals = 0

Raised == status \cap mask # {}
Event(b) == /\ arrivals < MaxArrivals /\ arrivals' = arrivals + 1
            /\ status' = status \cup {b}
            /\ UNCHANGED <<mask, count, needs_recovery, pc, active_interrupts>>

ReadAndCount ==
  /\ pc = "idle" /\ Raised /\ pc' = "clear" /\ active_interrupts' = status
  /\ count' = [b \in DOMAIN count |->
                 IF b \in status THEN (count[b] + 1) % CountModulus ELSE count[b]]
  /\ needs_recovery' = (needs_recovery \/ status \cap Errors # {})
  /\ UNCHANGED <<status, mask, arrivals>>

MutantCleared == {}
Cleared == {"DONE"}
Clear == /\ pc = "clear" /\ pc' = "idle" /\ status' = status \ Cleared
         /\ UNCHANGED <<mask, count, needs_recovery, active_interrupts, arrivals>>
irq_handler == ReadAndCount \/ Clear

\* The task that wake_recovery_task wakes: "Error recovery task will clear errors
\* later".  The handler preempts it, but may leave it a moment at any time.
RecoveryTask == /\ needs_recovery /\ pc = "idle"
                /\ status' = status \ Errors /\ needs_recovery' = FALSE
                /\ UNCHANGED <<mask, count, pc, active_interrupts, arrivals>>

Next == irq_handler \/ RecoveryTask \/ \E b \in Bits : Event(b)
Spec == Init /\ [][Next]_vars
-----------------------------------------------------------------------------
\* "the bits aren't cleared or mask so it continously refires the handler": the
\* storm, which ends only when the task has cleared the error.
Storm == status \cap mask \cap Errors # {}
=============================================================================
