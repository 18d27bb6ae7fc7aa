----------------------------- MODULE BufferPool -----------------------------
(***************************************************************************)
(* bare_metal_packet_buffer_pool_allocation: an allocator of equal blocks  *)
(* that keeps its free list in the free blocks themselves: the first word  *)
(* of a free block is the address of the next.  Whoever has a block may    *)
(* write anything into it.                                                 *)
(***************************************************************************)
EXTENDS Integers, FiniteSets

CONSTANTS Align,             \* the alignment, 64 bytes in the code
          MinSize,           \* the smallest block_size, 8 (a pointer)
          Pools              \* the arguments of buffer_pool_init

PoolAssumption ==
  /\ Align \in Nat \ {0} /\ MinSize \in 1 .. Align
  /\ Pools \subseteq [raw_memory : Nat, pool_size : Nat, block_size : Nat]

INVALID_ADDR == -1
Garbage == -2                \* what a word holds that the pool did not write

VARIABLES pool, head,
          mem,               \* the word at each address of the list
          held               \* blocks handed out and not given back

vars == <<pool, head, mem, held>>

RoundUp(n) == ((n + Align - 1) \div Align) * Align
BlockSize == RoundUp(IF pool.block_size < MinSize THEN MinSize ELSE pool.block_size)
First     == RoundUp(pool.raw_memory)
PoolEnd   == pool.raw_memory + pool.pool_size
\* The addresses at which the loop of buffer_pool_init writes a link.
Blocks == {a \in First .. PoolEnd - 1 : (a - First) % BlockSize = 0}

Link(a) == IF a + BlockSize <= PoolEnd THEN a + BlockSize ELSE INVALID_ADDR
\* The addresses the list leads to: in a pool that ends with a block, the
\* address after it too, where buffer_pool_init has written nothing.
Places == Blocks \cup {First} \cup ({Link(a) : a \in Blocks} \ {INVALID_ADDR})
buffer_pool_init ==
  head = First /\ mem = [a \in Places |-> IF a \in Blocks THEN Link(a) ELSE Garbage]
Init == pool \in Pools /\ held = {} /\ buffer_pool_init

TypeOK == /\ pool \in Pools /\ head \in Places \cup {INVALID_ADDR, Garbage}
          /\ mem \in [Places -> Places \cup {INVALID_ADDR, Garbage}]
          /\ held \subseteq Places

\* A call that finds garbage in head reads through it: what it does then is
\* undefined, and not followed.
buffer_pool_alloc ==
  \/ /\ head = INVALID_ADDR /\ UNCHANGED vars
  \/ /\ head \in Places /\ held' = held \cup {head}
     /\ head' = mem[head]
     /\ UNCHANGED <<pool, mem>>

\* The holder of a block overwrites it.
Use(a) == /\ a \in held /\ mem' = [mem EXCEPT ![a] = Garbage]
          /\ UNCHANGED <<pool, head, held>>

MutantRelinked(a) == [mem EXCEPT ![a] = a]
Relinked(a) == [mem EXCEPT ![a] = head]
buffer_pool_free(a) == /\ a \in held /\ held' = held \ {a}
                       /\ head' = a /\ mem' = Relinked(a)
                       /\ UNCHANGED pool

Next == buffer_pool_alloc \/ \E a \in Places : Use(a) \/ buffer_pool_free(a)
Spec == Init /\ [][Next]_vars
-----------------------------------------------------------------------------
\* The free list: the links followed from head.
NextFree(a) == IF a \in Places THEN mem[a] ELSE Garbage
Chain[n \in Nat] == IF n = 0 THEN head ELSE NextFree(Chain[n - 1])

\* The pool's end lies inside its last block, so that buffer_pool_init has an
\* end to write (line 41); otherwise line 37, with its <=, links past the end.
EndsInBlock == First < PoolEnd /\ (PoolEnd - First) % BlockSize # 0

\* The free list runs through every block that is not handed out, once, and is
\* followed by the end mark exactly if the pool ends inside a block: no block is
\* lost, handed out twice, or linked through one whose holder may write over the
\* link.  In a pool that ends with a block, the list goes on past its end and
\* then wherever the word there leads.
FreeListIntact ==
  LET free == Places \ held
      n == Cardinality(free) IN
  /\ {Chain[k] : k \in 0 .. n - 1} = free
  /\ Chain[n] = IF EndsInBlock THEN INVALID_ADDR ELSE Garbage

\* In every pool one block that alloc hands out, and no other, is not inside
\* the memory given to buffer_pool_init: the last, which the pool's end cuts, or
\* the one past the end.
OneOverruns == \E a \in Places : \A b \in Places :
  First <= b /\ (b + BlockSize <= PoolEnd <=> b # a)

\* "Every buffer block must be 64 byte aligned", wherever the memory starts
\* and whatever size is asked for.
Aligned == \A a \in held : a % Align = 0
=============================================================================
