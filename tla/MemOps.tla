------------------------------- MODULE MemOps -------------------------------
(***************************************************************************)
(* mem_basics.c: my_memcpy, my_memmove and my_memset on one small memory   *)
(* of bytes.  A step is one turn of a loop: a word of four bytes, read     *)
(* whole before it is written, or a byte.  The regions lie in the memory   *)
(* and the pointers are not null.                                          *)
(***************************************************************************)
EXTENDS Integers, Sequences

CONSTANTS Size,              \* bytes of memory
          SetValues          \* the int values given to my_memset

MemAssumption == Size \in Nat /\ SetValues \subseteq Int

Addr == 0 .. Size - 1
Word == 4
Byte == 256

VARIABLES mem, call, i, pc

vars == <<mem, call, i, pc>>

\* Every byte starts different from every other.
Original == [a \in Addr |-> a]
Calls == [op : {"memcpy", "memmove"}, dst : Addr, src : Addr, n : 0 .. Size]
           \cup [op : {"memset"}, dst : Addr, value : SetValues, n : 0 .. Size]
Fits(c) == c.dst + c.n <= Size /\ (c.op # "memset" => c.src + c.n <= Size)
Apart(c) == c.dst + c.n <= c.src \/ c.src + c.n <= c.dst

TypeOK == /\ mem \in [Addr -> 0 .. Byte - 1] /\ call \in Calls
          /\ i \in 0 .. Size
          /\ pc \in {"call", "copy words", "copy bytes", "copy back", "set words", "set bytes", "done"}

\* my_memcpy "may assume non-overlapping regions".
Init == /\ mem = Original
        /\ call \in {c \in Calls : Fits(c) /\ (c.op = "memcpy" => Apart(c))}
        /\ i = 0 /\ pc = "call"

Backwards(c) == c.dst > c.src /\ c.dst <= c.src + (c.n - 1)
Enter == /\ pc = "call"
         /\ pc' = CASE call.n = 0 -> "done"
                    [] call.op = "memset" -> IF call.value > Byte - 1 THEN "done" ELSE "set words"
                    [] call.op = "memcpy" -> "copy words"
                    [] call.op = "memmove" -> IF call.src = call.dst THEN "done"
                                              ELSE IF Backwards(call) THEN "copy back" ELSE "copy words"
         /\ UNCHANGED <<mem, call, i>>

\* The memory with w bytes from address a taken from the function f of 0 .. w-1.
Written(a, w, f) == [b \in Addr |-> IF b \in a .. a + w - 1 THEN f[b - a] ELSE mem[b]]
Copied(to, from, w) == Written(to, w, [k \in 0 .. w - 1 |-> mem[from + k]])

Words == call.n \div Word    \* n >> 2
Rest == call.n % Word        \* n & 3
\* A loop: turns times body, and on to the next location.
Loop(at, turns, body, next) ==
  /\ pc = at
  /\ \/ /\ i < turns /\ mem' = body /\ i' = i + 1 /\ UNCHANGED <<call, pc>>
     \/ /\ i = turns /\ pc' = next /\ i' = 0 /\ UNCHANGED <<mem, call>>

CopyWords == Loop("copy words", Words,
                  Copied(call.dst + Word * i, call.src + Word * i, Word), "copy bytes")
CopyBytes == Loop("copy bytes", Rest,
                  Copied(call.dst + Word * Words + i, call.src + Word * Words + i, 1), "done")
CopyBack == Loop("copy back", call.n,
                 Copied(call.dst + call.n - 1 - i, call.src + call.n - 1 - i, 1), "done")

\* val32, by its bytes: val << 24 | val << 16 | val << 8 | val.  Of a small negative
\* value the higher bytes are all ones, and so is whatever they are or-ed with.
Val32 == [k \in 0 .. Word - 1 |->
            IF k = 0 \/ call.value >= 0 THEN call.value % Byte ELSE Byte - 1]
SetWords == Loop("set words", Words, Written(call.dst + Word * i, Word, Val32), "set bytes")
SetBytes == Loop("set bytes", Rest,
                 Written(call.dst + Word * Words + i, 1, [k \in {0} |-> call.value % Byte]), "done")

Next == \/ Enter \/ CopyWords \/ CopyBytes \/ CopyBack \/ SetWords \/ SetBytes
        \/ pc = "done" /\ UNCHANGED vars
Spec == Init /\ [][Next]_vars
-----------------------------------------------------------------------------
\* The bytes of the destination region, and the others.
Region == call.dst .. call.dst + call.n - 1

\* "my_memmove must handle overlapping regions correctly": when a copy is done
\* the destination holds what the source held before, also where the regions
\* overlap by less than a word, and nothing else has changed.
CopyCorrect == pc = "done" /\ call.op # "memset" =>
  mem = [a \in Addr |-> IF a \in Region THEN Original[a - call.dst + call.src] ELSE Original[a]]

\* No loop writes a byte outside the destination, at any moment.
WritesInside == \A a \in Addr \ Region : mem[a] = Original[a]

\* my_memset with a value that is a byte sets the whole region.  "my_memset writes
\* the low byte of value" does not hold of the others: a larger value is ignored
\* (line 86), and of a negative one the higher bytes of each word are all ones.
InWord(a) == a - call.dst < Word * Words /\ (a - call.dst) % Word # 0
SetExact == pc = "done" /\ call.op = "memset" => \A a \in Region :
  mem[a] = IF call.value >= Byte THEN Original[a]
           ELSE IF call.value < 0 /\ InWord(a) THEN Byte - 1 ELSE call.value % Byte
=============================================================================
