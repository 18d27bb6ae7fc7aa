----------------------------- MODULE SparseSet -----------------------------
(***************************************************************************)
(* sparse_set_for_huge_domain_ids.c: the ids that are present, packed in   *)
(* dense, and a two-level table from an id to its place in dense.  An id   *)
(* is split in two halves, an index of a leaf table and an index into it;  *)
(* leaves are allocated when the first id needs them and freed with the    *)
(* last.  dense is the sequence of its first count elements: the rest is   *)
(* never read.                                                             *)
(***************************************************************************)
EXTENDS Integers, Sequences, FiniteSets

CONSTANTS LevelSize,         \* LEVEL_SIZE, 2^16 in the code
          universe_size, max_active,
          MaxCount           \* bound: no level2_counts goes beyond it

SizeAssumption == /\ LevelSize \in Nat \ {0} /\ max_active \in Nat /\ MaxCount \in Nat
                  /\ universe_size \in 0 .. LevelSize * LevelSize - 1

Ids      == 0 .. LevelSize * LevelSize - 1
Leaves   == 0 .. LevelSize - 1
Universe == 0 .. universe_size - 1
Unused   == -1               \* UINT32_MAX
WordSize == 4                \* sizeof(uint32_t)

VARIABLES dense,
          sparse,            \* the entries of the leaf tables, by id
          mapped,            \* the leaves that are allocated
          level2_counts,
          left,              \* history: what ss_clear left of each count
          ret                \* what the last call returned

vars == <<dense, sparse, mapped, level2_counts, left, ret>>

get_lvl1_idx(v) == v \div LevelSize
count == Len(dense)

TypeOK == /\ dense \in Seq(Ids) /\ count <= max_active
          /\ sparse \in [Ids -> {Unused} \cup 0 .. max_active - 1]
          /\ mapped \subseteq Leaves /\ level2_counts \in [Leaves -> Nat]
          /\ left \in [Leaves -> Nat] /\ ret \in {"none", "0", "-1", "true", "false"}

\* ss_create; the allocations succeed.
Init == /\ dense = <<>> /\ sparse = [v \in Ids |-> Unused]
        /\ mapped = {} /\ level2_counts = [l \in Leaves |-> 0]
        /\ left = [l \in Leaves |-> 0] /\ ret = "none"

\* The answer of ss_contains.
contains(v) == get_lvl1_idx(v) \in mapped /\ sparse[v] # Unused

ss_contains(v) == /\ ret' = (IF contains(v) THEN "true" ELSE "false")
                  /\ UNCHANGED <<dense, sparse, mapped, level2_counts, left>>

MutantRejects(v) == count > max_active \/ v > universe_size
Rejects(v) == count >= max_active \/ v > universe_size
MutantCounted(l) == [level2_counts EXCEPT ![l] = IF l \in mapped THEN @ + 1 ELSE @]
Counted(l) == [level2_counts EXCEPT ![l] = @ + 1]
Unmapped(l) == [w \in Ids |-> IF get_lvl1_idx(w) = l THEN Unused ELSE sparse[w]]

AddPresent(v) == /\ contains(v) /\ ret' = "0"
                 /\ UNCHANGED <<dense, sparse, mapped, level2_counts, left>>
AddRejected(v) == /\ ~contains(v) /\ Rejects(v) /\ ret' = "-1"
                  /\ UNCHANGED <<dense, sparse, mapped, level2_counts, left>>
AddNew(v) == LET l == get_lvl1_idx(v)
                 table == IF l \in mapped THEN sparse ELSE Unmapped(l) IN
             /\ ~contains(v) /\ ~Rejects(v) /\ ret' = "0"
             /\ level2_counts[l] < MaxCount
             /\ mapped' = mapped \cup {l}
             /\ sparse' = [table EXCEPT ![v] = count]
             /\ dense' = Append(dense, v)
             /\ level2_counts' = Counted(l) /\ UNCHANGED left
ss_add(v) == AddPresent(v) \/ AddRejected(v) \/ AddNew(v)

RemoveAbsent(v) == /\ ~contains(v) /\ ret' = "-1"
                   /\ UNCHANGED <<dense, sparse, mapped, level2_counts, left>>
\* The two tables after the last id has taken v's place, which may be its own.
Packed(v) == [k \in 1 .. count - 1 |->
                IF k = sparse[v] + 1 THEN dense[count] ELSE dense[k]]
Relinked(v) == [sparse EXCEPT ![dense[count]] = sparse[v], ![v] = Unused]
MutantEmptied(l) == level2_counts[l] - 1 <= 1
Emptied(l) == level2_counts[l] - 1 = 0
RemovePresent(v) == LET l == get_lvl1_idx(v) IN
                    /\ contains(v) /\ ret' = "0"
                    /\ dense' = Packed(v) /\ sparse' = Relinked(v)
                    /\ level2_counts' = [level2_counts EXCEPT ![l] = @ - 1]
                    /\ mapped' = IF Emptied(l) THEN mapped \ {l} ELSE mapped
                    /\ UNCHANGED left
ss_remove(v) == RemoveAbsent(v) \/ RemovePresent(v)

\* memset clears LEVEL_SIZE bytes of level2_counts, not LEVEL_SIZE counts.
Cleared(l) == l < LevelSize \div WordSize
ss_clear == /\ mapped' = {} /\ dense' = <<>> /\ ret' = "none"
            /\ level2_counts' =
                 [l \in Leaves |-> IF Cleared(l) THEN 0 ELSE level2_counts[l]]
            /\ left' = level2_counts' /\ UNCHANGED sparse

\* ss_destroy, after ss_clear, frees the tables; the next ss_create makes new ones.
ss_destroy == /\ dense' = <<>> /\ sparse' = [v \in Ids |-> Unused] /\ mapped' = {}
              /\ level2_counts' = [l \in Leaves |-> 0]
              /\ left' = [l \in Leaves |-> 0] /\ ret' = "none"

Next == ss_clear \/ ss_destroy \/ \E v \in Ids : ss_add(v) \/ ss_remove(v) \/ ss_contains(v)
Spec == Init /\ [][Next]_vars
-----------------------------------------------------------------------------
\* The two tables are inverse: the id at each place of dense is contained and
\* its entry is that place, and nothing else is contained.
Inverse == /\ \A k \in 1 .. count : contains(dense[k]) /\ sparse[dense[k]] = k - 1
           /\ \A v \in Ids : contains(v) => sparse[v] < count /\ dense[sparse[v] + 1] = v

\* The ids ss_contains finds.
Members == {v \in Ids : contains(v)}

\* "number of active entries in level 2" (line 28) is what level2_counts is, but
\* for what ss_clear has left in it, since line 140 clears LEVEL_SIZE bytes.  So
\* no leaf is freed before its last id is removed, and one is kept without ids
\* only if ss_clear left it a count, which then nothing but ss_destroy removes.
CountsExact == \A l \in Leaves :
  LET ids == {v \in Members : get_lvl1_idx(v) = l} IN
  /\ level2_counts[l] = Cardinality(ids) + left[l]
  /\ l \in mapped /\ ids = {} => left[l] > 0
  /\ Cleared(l) => left[l] = 0

\* The set of ids that the requirements (line 176) ask for.  ss_add departs from
\* it twice: it takes universe_size itself (line 79 has >, not >=), and answers 0
\* for an id that is there already (lines 73-75).
Abstract == INSTANCE IdSet WITH active <- Members
TakesBound == /\ ss_add(universe_size) /\ ret' = "0" /\ universe_size \notin Members
              /\ Cardinality(Members) < max_active
              /\ Members' = Members \cup {universe_size}
SkipsDuplicate == \E v \in Members : ss_add(v) /\ ret' = "0" /\ Members' = Members
SetStep == [Abstract!Next]_(Abstract!vars) \/ TakesBound \/ SkipsDuplicate
=============================================================================
