------------------------------ MODULE MCRoutines ------------------------------
(***************************************************************************)
(* The code that is called by one thread at a time: two data structures    *)
(* and the pure routines, each on a small instance.  A behavior is a use   *)
(* of one of them: program says which, and the variables of the others are *)
(* not used.                                                               *)
(***************************************************************************)
EXTENDS Integers, FiniteSets

VARIABLES program,           \* the one of them that runs
          dense, sparse, mapped, level2_counts, left, ret, pool, head, mem, held,
          call, i, pc, mask, out_cap, out, k, s, str, rv, multiplier

vars == <<program, dense, sparse, mapped, level2_counts, left, ret, pool, head, mem,
          held, call, i, pc, mask, out_cap, out, k, s, str, rv, multiplier>>

\* Pools that end inside a block, with a block, or before the first: aligned or
\* not, blocks of one unit or two.
Pool(r, p, b) == [raw_memory |-> r, pool_size |-> p, block_size |-> b]
TestPools == {Pool(0, 19, 1), Pool(3, 19, 4), Pool(5, 29, 5),
              Pool(0, 16, 4), Pool(3, 17, 5), Pool(3, 1, 1), Pool(1, 2, 1)}

SS == INSTANCE SparseSet WITH LevelSize <- 4, universe_size <- 7,
      max_active <- 3, MaxCount <- 3
BP == INSTANCE BufferPool WITH Align <- 4, MinSize <- 2, Pools <- TestPools
MO == INSTANCE MemOps WITH Size <- 11, SetValues <- {-2, 0, 7, 255, 256}
SM == INSTANCE Submasks WITH Width <- 5, MaxCap <- 17
PI == INSTANCE ParseInt WITH Digits <- {0, 1, 2, 8}, MaxLen <- 4,
      INT_MAX <- 127
DC == INSTANCE DriverCalls WITH Width <- 4, MaxPayload <- 256,
      EdgeBits <- {0, 1, 2, 4, 6, 7, 8, 9, 11, 16, 23, 31}

ASSUME /\ SS!SizeAssumption /\ BP!PoolAssumption /\ MO!MemAssumption
       /\ SM!WidthAssumption /\ PI!LimitAssumption /\ DC!CallAssumption

\* The variables a program does not have, which stay unused.
unused == "unused"
NotSS == <<pool, head, mem, held, call, i, pc, mask, out_cap, out, k, s, str,
           rv, multiplier>>
NotBP == <<dense, sparse, mapped, level2_counts, left, ret, call, i, pc, mask,
           out_cap, out, k, s, str, rv, multiplier>>
NotMO == <<dense, sparse, mapped, level2_counts, left, ret, pool, head, held, mask,
           out_cap, out, k, s, str, rv, multiplier>>
NotSM == <<dense, sparse, mapped, level2_counts, left, pool, head, mem, held, call,
           str, rv, multiplier>>
NotPI == <<dense, sparse, mapped, level2_counts, left, pool, head, mem, held, call,
           mask, out_cap, k, s>>
NotDC == <<dense, sparse, mapped, level2_counts, left, pool, head, mem, held, i, pc,
           mask, out_cap, out, k, s, str, rv, multiplier>>

InitSS == /\ program = "sparse-set" /\ SS!Init
          /\ pool = unused /\ head = unused /\ mem = unused /\ held = unused
          /\ call = unused /\ i = unused /\ pc = unused /\ mask = unused
          /\ out_cap = unused /\ out = unused /\ k = unused /\ s = unused
          /\ str = unused /\ rv = unused /\ multiplier = unused
InitBP == /\ program = "buffer-pool" /\ BP!Init
          /\ dense = unused /\ sparse = unused /\ mapped = unused
          /\ level2_counts = unused /\ left = unused /\ ret = unused /\ call = unused
          /\ i = unused /\ pc = unused /\ mask = unused /\ out_cap = unused
          /\ out = unused /\ k = unused /\ s = unused /\ str = unused
          /\ rv = unused /\ multiplier = unused
InitMO == /\ program = "mem-ops" /\ MO!Init
          /\ dense = unused /\ sparse = unused /\ mapped = unused
          /\ level2_counts = unused /\ left = unused /\ ret = unused /\ pool = unused
          /\ head = unused /\ held = unused /\ mask = unused
          /\ out_cap = unused /\ out = unused /\ k = unused /\ s = unused
          /\ str = unused /\ rv = unused /\ multiplier = unused
InitSM == /\ program = "submasks" /\ SM!Init
          /\ dense = unused /\ sparse = unused /\ mapped = unused
          /\ level2_counts = unused /\ left = unused /\ pool = unused /\ head = unused
          /\ mem = unused /\ held = unused /\ call = unused /\ str = unused
          /\ rv = unused /\ multiplier = unused
InitPI == /\ program = "parse" /\ PI!Init
          /\ dense = unused /\ sparse = unused /\ mapped = unused
          /\ level2_counts = unused /\ left = unused /\ pool = unused /\ head = unused
          /\ mem = unused /\ held = unused /\ call = unused /\ mask = unused
          /\ out_cap = unused /\ k = unused /\ s = unused
InitDC == /\ program = "driver-calls" /\ DC!Init
          /\ dense = unused /\ sparse = unused /\ mapped = unused
          /\ level2_counts = unused /\ left = unused /\ pool = unused /\ head = unused
          /\ mem = unused /\ held = unused /\ i = unused /\ pc = unused
          /\ mask = unused /\ out_cap = unused /\ out = unused /\ k = unused
          /\ s = unused /\ str = unused /\ rv = unused /\ multiplier = unused

Init == InitSS \/ InitBP \/ InitMO \/ InitSM \/ InitPI \/ InitDC

SparseSet == program = "sparse-set" /\ SS!Next /\ UNCHANGED <<program, NotSS>>
BufferPool == program = "buffer-pool" /\ BP!Next /\ UNCHANGED <<program, NotBP>>
MemOps == program = "mem-ops" /\ MO!Next /\ UNCHANGED <<program, NotMO>>
Submasks == program = "submasks" /\ SM!Next /\ UNCHANGED <<program, NotSM>>
ParseInt == program = "parse" /\ PI!Next /\ UNCHANGED <<program, NotPI>>
DriverCalls == program = "driver-calls" /\ DC!Next /\ UNCHANGED <<program, NotDC>>

Next == \/ SparseSet \/ BufferPool \/ MemOps \/ Submasks \/ ParseInt \/ DriverCalls
Spec == Init /\ [][Next]_vars
-----------------------------------------------------------------------------
TypeOK == CASE program = "sparse-set" -> SS!TypeOK
            [] program = "buffer-pool" -> BP!TypeOK
            [] program = "mem-ops" -> MO!TypeOK
            [] program = "submasks" -> SM!TypeOK
            [] program = "parse" -> PI!TypeOK
            [] program = "driver-calls" -> DC!TypeOK

\* The two tables of the sparse set stay inverse of each other through every
\* sequence of adds, removes and clears, and "number of active entries in level 2"
\* is what a leaf's count is, but for what ss_clear (line 140) left in it.
TablesAgree == program = "sparse-set" => SS!Inverse /\ SS!CountsExact

\* The ids ss_contains finds are the bounded set of a universe that the
\* requirements ask for, which each call changes and answers as that set would,
\* so that a call for one id never affects another; save that ss_add takes the
\* first id beyond the universe and answers 0 for an id that is there already.
ImplementsSet == /\ program = "sparse-set" => SS!Abstract!Init
                 /\ [][program = "sparse-set" => SS!SetStep]_vars

\* The free list of a buffer pool runs through every block that is not handed
\* out, once, whatever the holders of blocks write, and then comes to its end
\* exactly if the pool ends inside a block; one block of the list is not inside
\* the pool; and "Every buffer block must be 64 byte aligned".
FreeListIntact == program = "buffer-pool" =>
  BP!FreeListIntact /\ BP!OneOverruns /\ BP!Aligned

===============================================================================
