------------------------------ MODULE SpscRing ------------------------------
(***************************************************************************)
(* spsc.c: a parent process hands the numbers 0 .. max_count-1 to its      *)
(* child through a ring in shared memory, without a lock.  Each side keeps *)
(* a local copy of the index it owns and publishes it with a release       *)
(* store; it reads the other side's index with an acquire load.  A step    *)
(* has at most one access to shared memory; the release/acquire pairs      *)
(* order the slot accesses, so the steps may be interleaved as written.    *)
(***************************************************************************)
EXTENDS Integers

CONSTANTS RBLen,     \* RB_LEN
          MaxCount   \* max_count

SizeAssumption == RBLen \in Nat \ {0} /\ MaxCount \in Nat

VARIABLES buff, head, tail,                        \* rb_t, in shared memory
          ppc, parent_counter, local_head,         \* the parent
          cpc, child_counter, local_tail, entry_sum  \* the child

parent == <<ppc, parent_counter, local_head>>
child == <<cpc, child_counter, local_tail, entry_sum>>
vars == <<buff, head, tail, parent, child>>

Slots == 0 .. RBLen - 1

TypeOK == /\ buff \in [Slots -> Nat]
          /\ head \in Slots /\ tail \in Slots
          /\ ppc \in {"check", "write", "publish"}
          /\ parent_counter \in 0 .. MaxCount /\ local_head \in Slots
          /\ cpc \in {"check", "take", "publish"}
          /\ child_counter \in 0 .. MaxCount /\ local_tail \in Slots
          /\ entry_sum \in Nat

\* An anonymous mapping starts out zeroed.
Init == /\ buff = [s \in Slots |-> 0] /\ head = 0 /\ tail = 0
        /\ ppc = "check" /\ parent_counter = 0 /\ local_head = 0
        /\ cpc = "check" /\ child_counter = 0 /\ local_tail = 0 /\ entry_sum = 0

Succ(i) == (i + 1) % RBLen

Full == Succ(local_head) = tail
MutantEmpty == FALSE
Empty == local_tail = head

\* Line 66 and 68; when the ring is full the parent spins.
ParentCheck == /\ ppc = "check" /\ parent_counter < MaxCount /\ ~Full
               /\ ppc' = "write"
               /\ UNCHANGED <<buff, head, tail, parent_counter, local_head, child>>

ParentWrite == /\ ppc = "write"
               /\ buff' = [buff EXCEPT ![local_head] = parent_counter]
               /\ parent_counter' = parent_counter + 1
               /\ local_head' = Succ(local_head)
               /\ ppc' = "publish"
               /\ UNCHANGED <<head, tail, child>>

ParentPublish == /\ ppc = "publish"
                 /\ head' = local_head
                 /\ ppc' = "check"
                 /\ UNCHANGED <<buff, tail, parent_counter, local_head, child>>

\* Line 51 and 53; when the ring is empty the child spins.
ChildCheck == /\ cpc = "check" /\ child_counter < MaxCount /\ ~Empty
              /\ cpc' = "take"
              /\ UNCHANGED <<buff, head, tail, child_counter, local_tail, entry_sum, parent>>

ChildTake == /\ cpc = "take"
             /\ entry_sum' = entry_sum + buff[local_tail]
             /\ child_counter' = child_counter + 1
             /\ local_tail' = Succ(local_tail)
             /\ cpc' = "publish"
             /\ UNCHANGED <<buff, head, tail, parent>>

ChildPublish == /\ cpc = "publish"
                /\ tail' = local_tail
                /\ cpc' = "check"
                /\ UNCHANGED <<buff, head, child_counter, local_tail, entry_sum, parent>>

Parent == ParentCheck \/ ParentWrite \/ ParentPublish
Child == ChildCheck \/ ChildTake \/ ChildPublish

Next == Parent \/ Child

Spec == Init /\ [][Next]_vars
FairSpec == Spec /\ WF_vars(Parent) /\ WF_vars(Child)
-----------------------------------------------------------------------------
\* The two processes never touch the same slot at the same time, although
\* neither takes a lock.
NoSlotRace == ppc = "write" /\ cpc = "take" => local_head # local_tail

\* A slot the child is about to read holds the number it has not seen yet:
\* nothing is lost, duplicated, reordered or overwritten.
ReadsInOrder == cpc = "take" => buff[local_tail] = child_counter

\* "Final Sum is %lu, should be %lu": the sum of the numbers read so far, and
\* so the printed total, is that of 0 .. child_counter-1.
SumCorrect == 2 * entry_sum = child_counter * (child_counter - 1)
=============================================================================
