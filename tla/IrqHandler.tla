----------------------------- MODULE IrqHandler -----------------------------
(***************************************************************************)
(* interrupt_status_handler.c: handle_irq reads a write-one-to-clear       *)
(* status register once, counts the enabled events it finds and clears     *)
(* those.  Events arrive at any time, also between its read and its clear. *)
(* A register is the set of its bits that are 1.                           *)
(***************************************************************************)
EXTENDS Integers, FiniteSets

CONSTANTS MaxArrivals,       \* bound on the events the hardware reports
          CountModulus       \* the counts are uint32_t and wrap: 2^32

ArrivalAssumption == MaxArrivals \in Nat /\ CountModulus \in Nat /\ MaxArrivals < CountModulus

Bits == {"CMD_DONE", "ERROR", "FATAL", "LINK_DOWN"}

VARIABLES status, mask,
          count, needs_recovery,
          pc,
          active_interrupts, \* what the handler read last
          arrivals,
          ever,              \* history: the kinds of events there have been
          late               \* history: those since the last read

vars == <<status, mask, count, needs_recovery, pc, active_interrupts, arrivals, ever, late>>

TypeOK == /\ status \subseteq Bits /\ mask \subseteq Bits
          /\ count \in [Bits -> 0 .. CountModulus - 1] /\ needs_recovery \in BOOLEAN
          /\ pc \in {"out", "clear"} /\ active_interrupts \subseteq mask
          /\ arrivals \in 0 .. MaxArrivals /\ ever \subseteq Bits /\ late \subseteq ever

Init == /\ status = {} /\ mask \in SUBSET Bits
        /\ count = [b \in Bits |-> 0] /\ needs_recovery = FALSE
        /\ pc = "out" /\ active_interrupts = {} /\ arrivals = 0
        /\ ever = {} /\ late = {}

\* The hardware reports an event.
Event(b) == /\ arrivals < MaxArrivals /\ arrivals' = arrivals + 1
            /\ status' = status \cup {b} /\ ever' = ever \cup {b} /\ late' = late \cup {b}
            /\ UNCHANGED <<mask, count, needs_recovery, pc, active_interrupts>>

\* The interrupt is raised while an enabled bit is set: handle_irq reads the
\* status and counts what it found.
Severe == {"FATAL", "LINK_DOWN"}
Found == status \cap mask
ReadAndCount == LET found == Found IN
  /\ pc = "out" /\ found # {}
  /\ active_interrupts' = found
  /\ count' = [b \in Bits |-> IF b \in found THEN (count[b] + 1) % CountModulus
                             ELSE count[b]]
  /\ needs_recovery' = (needs_recovery \/ found \cap Severe # {})
  /\ pc' = "clear" /\ late' = {}
  /\ UNCHANGED <<status, mask, arrivals, ever>>

MutantBitsToClear == status
BitsToClear == active_interrupts
\* Writing the register clears the bits written as 1.
Clear == /\ pc = "clear" /\ status' = status \ BitsToClear
         /\ pc' = "out"
         /\ UNCHANGED <<mask, count, needs_recovery, active_interrupts, arrivals, ever, late>>

handle_irq == ReadAndCount \/ Clear
Next == handle_irq \/ \E b \in Bits : Event(b)
Spec == Init /\ [][Next]_vars
\* The processor takes an interrupt that stays raised, and runs its handler.
FairSpec == Spec /\ WF_vars(handle_irq)
-----------------------------------------------------------------------------
\* "Clear only the events you handled": an event of a kind that the last read
\* did not find is still set, whenever it arrived, so that the clear takes away
\* no kind it did not count; and no kind of event, a masked one included, is
\* gone before it was counted once.
NoneForgotten == /\ late \ active_interrupts \subseteq status
                 /\ \A b \in ever : b \in status \/ count[b] > 0

\* "If new events arrive subsequently the hw interrupt line will remain high and
\* we will immediately jump back into this handler to handle it": an enabled
\* event that arrived after the read keeps its bit, and the line, set.
LateEventsKept == late \cap mask \subseteq status

\* Recovery is asked for exactly when a fatal error or a lost link was counted.
RecoveryNeeded == needs_recovery <=> \E b \in {"FATAL", "LINK_DOWN"} : count[b] > 0
=============================================================================
