----------------------------- MODULE EventQueue -----------------------------
(***************************************************************************)
(* isr_to_task_event_queue.c: an interrupt handler pushes events, a task   *)
(* pops them, through a ring with free-running uint32_t counters.  head    *)
(* and tail are atomics; only the ISR writes head, only the task writes    *)
(* tail.  The ISR may interrupt the task between any two accesses, and on  *)
(* another core the two run in parallel: a step is one atomic access with  *)
(* the local work around it, or the copy of a slot.                        *)
(***************************************************************************)
EXTENDS Integers

CONSTANTS Events,   \* what is pushed
          Cap,      \* EVT_Q_CAP
          Modulus   \* 2^32, the range of the counters

\* The mask works across the wrap because the capacity divides the range, and
\* full differs from empty because it is smaller.
WrapAssumption == /\ Cap \in Nat \ {0} /\ Modulus \in Nat
                  /\ Cap < Modulus /\ Modulus % Cap = 0
EventAssumption == Events \cap {"none", "ok", "full", "empty"} = {}

VARIABLES head, tail, entries,   \* struct event_q
          ipc, event,            \* the ISR: where it is, what it pushes
          tpc, out,              \* the task
          result                 \* what the last push and the last pop returned

vars == <<head, tail, entries, ipc, event, tpc, out, result>>

Counters == 0 .. Modulus - 1
Callers == {"isr", "task"}
Slot(i) == i % Cap
MutantIncNoWrap(i) == i + 1
MutantInc(i) == IF i + 1 = Modulus THEN 1 ELSE i + 1
Inc(i) == (i + 1) % Modulus
Minus(i, j) == (i - j) % Modulus

TypeOK == /\ head \in Counters /\ tail \in Counters
          /\ entries \in [0 .. Cap - 1 -> Events]
          /\ ipc \in {"idle", "store", "advance"} /\ event \in Events
          /\ tpc \in {"idle", "load", "advance"} /\ out \in Events
          /\ result \in [Callers -> Events \cup {"none", "ok", "full", "empty"}]

Init == /\ head = 0 /\ tail = 0 /\ entries \in [0 .. Cap - 1 -> Events]
        /\ ipc = "idle" /\ event \in Events
        /\ tpc = "idle" /\ out \in Events
        /\ result = [c \in Callers |-> "none"]

Return(c, r) == result' = [result EXCEPT ![c] = r]

IsFull == Minus(head, tail) = Cap

\* event_q_push_from_isr: the full test, the slot, the counter.
PushCheck(e) == /\ ipc = "idle"
                /\ event' = e
                /\ \/ IsFull /\ Return("isr", "full") /\ UNCHANGED ipc
                   \/ ~IsFull /\ ipc' = "store" /\ UNCHANGED result
                /\ UNCHANGED <<head, tail, entries, tpc, out>>

PushStore == /\ ipc = "store" /\ ipc' = "advance"
             /\ entries' = [entries EXCEPT ![Slot(head)] = event]
             /\ UNCHANGED <<head, tail, event, tpc, out, result>>

PushAdvance == /\ ipc = "advance" /\ ipc' = "idle"
               /\ head' = Inc(head)
               /\ Return("isr", "ok")
               /\ UNCHANGED <<tail, entries, event, tpc, out>>

IsEmpty == head = tail

\* event_q_pop_from_task: the empty test, the slot, the counter.
PopCheck == /\ tpc = "idle"
            /\ \/ IsEmpty /\ Return("task", "empty") /\ UNCHANGED tpc
               \/ ~IsEmpty /\ tpc' = "load" /\ UNCHANGED result
            /\ UNCHANGED <<head, tail, entries, ipc, event, out>>

PopLoad == /\ tpc = "load" /\ tpc' = "advance"
           /\ out' = entries[Slot(tail)]
           /\ UNCHANGED <<head, tail, entries, ipc, event, result>>

PopAdvance == /\ tpc = "advance" /\ tpc' = "idle"
              /\ tail' = Inc(tail)
              /\ Return("task", out)
              /\ UNCHANGED <<head, entries, ipc, event, out>>

Isr == (\E e \in Events : PushCheck(e)) \/ PushStore \/ PushAdvance
Task == PopCheck \/ PopLoad \/ PopAdvance

Next == Isr \/ Task

Spec == Init /\ [][Next]_vars
FairSpec == Spec /\ WF_vars(Task) /\ WF_vars(PushStore) /\ WF_vars(PushAdvance)
-----------------------------------------------------------------------------
\* "ie we don't increment tail before grabbing data": while the task copies an
\* event out of its slot, the ISR is not writing that slot.
NoTornEvent == tpc = "load" /\ ipc = "store" => Slot(head) # Slot(tail)

Size == Minus(head, tail)
Contents == [i \in 1 .. Size |-> entries[Slot((tail + i - 1) % Modulus)]]

Fifo == INSTANCE BoundedFifo WITH
          Producers <- {"isr"}, Consumers <- {"task"}, Values <- Events,
          Capacity <- Cap, items <- Contents, closed <- FALSE

\* A step of the ring is one of a bounded FIFO queue, or none.
FifoStep == [Fifo!Next]_(Fifo!vars)
=============================================================================
