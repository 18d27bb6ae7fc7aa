------------------------------ MODULE LogStore ------------------------------
(***************************************************************************)
(* logstore.c: an append-only buffer of entries, an imap from each key to  *)
(* its latest entry, and a cleaner that copies the latest entries into a   *)
(* new buffer and switches the pointers.  put and get each run under       *)
(* store->lock and are one step.  logstore_clean takes the lock only for   *)
(* the switch, so its unlocked reads are steps of their own.               *)
(*                                                                         *)
(* A buffer and the imap that goes with it are allocated, switched and     *)
(* freed together; `gen' stands for the pair of pointers in the store.     *)
(***************************************************************************)
EXTENDS Integers, FiniteSets

CONSTANTS Threads,    \* threads that put and get
          Cleaners,   \* threads that call logstore_clean
          KeyRange,   \* key_range
          Values,     \* the values put, all positive
          Capacity,   \* capacity
          MaxHead,    \* bound: entries the buffer is modelled for
          MaxGen      \* bound: buffers ever allocated

ASSUME SizeAssumption == /\ KeyRange \in Nat \ {0} /\ Capacity \in Nat \ {0}
                         /\ MaxHead \in Nat /\ MaxHead >= Capacity /\ MaxGen \in Nat
ASSUME ValueAssumption == Values \subseteq Nat \ {0}

VARIABLES buffer, imap, head,  \* the LogStore
          gen,     \* which buffer the store points to
          made,    \* buffers allocated after the first, numbered from 1
          alive,   \* logstore_destroy was not called yet
          frees,   \* how often each buffer was freed
          clean,   \* per cleaner: its local variables
          got      \* per thread: what its last get returned

store == <<buffer, imap, head, gen>>
vars == <<store, made, alive, frees, clean, got>>

Keys == 0 .. KeyRange - 1
Offsets == 0 .. MaxHead - 1
Entries == [key : Keys \cup {-1}, value : Values \cup {-1, 0}]
Junk == [key |-> -1, value |-> -1]     \* what malloc returns
Zero == [key |-> 0, value |-> 0]       \* what calloc returns

Idle == [pc |-> "idle", i |-> 0, buffer |-> [o \in Offsets |-> Junk],
         imap |-> [k \in Keys |-> -1], head |-> 0, new |-> 0, old |-> 0]

TypeOK == /\ buffer \in [Offsets -> Entries]
          /\ imap \in [Keys -> Offsets \cup {-1}]
          /\ head \in 0 .. MaxHead
          /\ made \in 0 .. MaxGen /\ gen \in 0 .. made /\ alive \in BOOLEAN
          /\ frees \in [0 .. MaxGen -> Nat]
          /\ \A c \in Cleaners :
               /\ clean[c].pc \in {"idle", "copy", "capture", "switch", "free"}
               /\ clean[c].i \in 0 .. KeyRange
               /\ clean[c].head <= clean[c].i
          /\ got \in [Threads -> Values \cup {-1, 0}]

\* logstore_create
Init == /\ buffer = [o \in Offsets |-> Zero]
        /\ imap = [k \in Keys |-> -1]
        /\ head = 0
        /\ gen = 0 /\ made = 0 /\ alive = TRUE
        /\ frees = [g \in 0 .. MaxGen |-> 0]
        /\ clean = [c \in Cleaners |-> Idle]
        /\ got = [t \in Threads |-> 0]

MutantPut(k, v) ==
  /\ head < MaxHead
  /\ buffer' = [buffer EXCEPT ![head] = [key |-> k, value |-> v]]
  /\ imap' = [imap EXCEPT ![k] = head + 1]
  /\ head' = head + 1
  /\ UNCHANGED <<gen, made, alive, frees, clean, got>>

\* logstore_put: appends, without a look at the capacity.
Put(k, v) ==
  /\ head < MaxHead
  /\ buffer' = [buffer EXCEPT ![head] = [key |-> k, value |-> v]]
  /\ imap' = [imap EXCEPT ![k] = head]
  /\ head' = head + 1
  /\ UNCHANGED <<gen, made, alive, frees, clean, got>>

Lookup(k) == IF imap[k] < 0 THEN -1 ELSE buffer[imap[k]].value

\* logstore_get
Get(t, k) == /\ got' = [got EXCEPT ![t] = Lookup(k)]
             /\ UNCHANGED <<store, made, alive, frees, clean>>

\* Line 55, an unlocked read of head: only clean when 80% full.
CleanDue == 5 * head >= 4 * Capacity

\* Start cleaning: allocate the new buffer and imap.
CleanStart(c) ==
  /\ clean[c].pc = "idle"
  /\ CleanDue
  /\ made < MaxGen /\ made' = made + 1
  /\ clean' = [clean EXCEPT ![c] = [Idle EXCEPT !.pc = "copy", !.new = made + 1]]
  /\ UNCHANGED <<store, alive, frees, got>>

\* One round of the copying loop.
CleanCopy(c) ==
  LET l == clean[c]
      next == IF l.i + 1 = KeyRange THEN "capture" ELSE "copy" IN
  /\ l.pc = "copy"
  /\ clean' = [clean EXCEPT ![c] =
       IF imap[l.i] >= 0
       THEN [l EXCEPT !.buffer[l.head] = buffer[imap[l.i]], !.imap[l.i] = l.head,
                      !.head = @ + 1, !.i = @ + 1, !.pc = next]
       ELSE [l EXCEPT !.i = @ + 1, !.pc = next]]
  /\ UNCHANGED <<store, made, alive, frees, got>>

\* old_buffer = store->buffer; old_imap = store->imap
CleanCapture(c) ==
  /\ clean[c].pc = "capture"
  /\ clean' = [clean EXCEPT ![c].old = gen, ![c].pc = "switch"]
  /\ UNCHANGED <<store, made, alive, frees, got>>

MutantSwitchedHead(l) == head
SwitchedHead(l) == l.head

\* The switch, under the write lock.
CleanSwitch(c) ==
  /\ clean[c].pc = "switch"
  /\ buffer' = clean[c].buffer /\ imap' = clean[c].imap
  /\ head' = SwitchedHead(clean[c])
  /\ gen' = clean[c].new
  /\ clean' = [clean EXCEPT ![c].pc = "free"]
  /\ UNCHANGED <<made, alive, frees, got>>

MutantFreed(l) == l.new
Freed(l) == l.old

\* free(old_buffer); free(old_imap)
CleanFree(c) ==
  /\ clean[c].pc = "free"
  /\ frees' = [frees EXCEPT ![Freed(clean[c])] = @ + 1]
  /\ clean' = [clean EXCEPT ![c] = Idle]
  /\ UNCHANGED <<store, made, alive, got>>

Clean(c) == CleanStart(c) \/ CleanCopy(c) \/ CleanCapture(c) \/ CleanSwitch(c) \/ CleanFree(c)

\* logstore_destroy frees the buffer and the imap the store points to.
Destroy == /\ frees' = [frees EXCEPT ![gen] = @ + 1] /\ alive' = FALSE
           /\ UNCHANGED <<store, made, clean, got>>

\* The threads end before main destroys the store.
Resting(C) == \A c \in C : clean[c].pc = "idle"
Next == /\ alive
        /\ \/ \E k \in Keys, v \in Values : Put(k, v)
           \/ \E t \in Threads, k \in Keys : Get(t, k)
           \/ \E c \in Cleaners : Clean(c)
           \/ Resting(Cleaners) /\ Destroy

Spec == Init /\ [][Next]_vars

\* Careful use, as in logstore_test.c: the puts stay within the capacity the
\* store was created with, and while one thread cleans, nobody puts and nobody
\* else cleans; gets may run at any time.
QuietNext ==
  /\ alive
  /\ \/ \E t \in Threads, k \in Keys : Get(t, k)
     \/ \E c \in Cleaners : Clean(c) /\ Resting(Cleaners \ {c})
     \/ /\ Resting(Cleaners) /\ head < Capacity
        /\ \E k \in Keys, v \in Values : Put(k, v)
     \/ Resting(Cleaners) /\ Destroy

QuietSpec == Init /\ [][QuietNext]_vars
-----------------------------------------------------------------------------
KV == INSTANCE KVStore WITH kv <- [k \in Keys |-> Lookup(k)]

\* "Imap maintains where the latest value of key is", and the cleaner builds a
\* new buffer and imap "and atomically switch[es] the pointer": the buffer and
\* the imap stand for one key-value map, a get returns its entry, and only a put
\* changes it, wherever the cleaner is.
ImplementsKV == KV!Spec

\* The store never points to a buffer that was freed: the old one goes only
\* after the switch.  And each buffer is freed once: when logstore_destroy has
\* returned, none of those ever allocated is left.
BuffersAlive == /\ alive => frees[gen] = 0 /\ \A g \in 0 .. MaxGen : frees[g] <= 1
                /\ ~alive => \A g \in 0 .. MaxGen : frees[g] = IF g <= made THEN 1 ELSE 0

\* Cleaning keeps one entry for each key that has one, and nothing else: the
\* space of every overwritten version is reclaimed.
CleanReclaims ==
  [][gen' # gen => head' = Cardinality({k \in Keys : Lookup(k) # -1})]_vars
=============================================================================
