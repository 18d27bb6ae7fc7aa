--------------------------- MODULE LogStoreProofs ---------------------------
(***************************************************************************)
(* Proofs about LogStore under careful use (QuietSpec), for every number   *)
(* of keys, capacity and set of cleaners.  The imap leads each key to an   *)
(* entry below head that carries that key, so no two keys share one; what  *)
(* the cleaner has copied so far is the part of the map below its index i. *)
(***************************************************************************)
EXTENDS LogStore, ProofLemmas

Offset == Offsets \cup {-1}
Locals == [pc : {"idle", "copy", "capture", "switch", "free"}, i : 0 .. KeyRange,
           buffer : [Offsets -> Entries], imap : [Keys -> Offset],
           head : Nat, new : 0 .. MaxGen, old : 0 .. MaxGen]

\* The latest version of every key is in the log, under its own key.
LogHolds(b, m, h) ==
  \A k \in Keys : m[k] >= 0 => m[k] < h /\ b[m[k]].key = k /\ b[m[k]].value \in Values

\* The keys below i that have an entry.
Kept(m, i) == {k \in Keys : k < i /\ m[k] >= 0}

\* The new buffer and imap of a cleaner hold the latest versions of the keys
\* below i, one after the other, and nothing else.
Copied(l, b, m) ==
  /\ l.head = Cardinality(Kept(m, l.i))
  /\ \A k \in Keys :
       IF k < l.i /\ m[k] >= 0
       THEN l.imap[k] >= 0 /\ l.imap[k] < l.head /\ l.buffer[l.imap[k]] = b[m[k]]
       ELSE l.imap[k] = -1

Building == {"copy", "capture", "switch"}

\* The locals of a cleaner, by its location.
LocalOK(l) ==
  /\ l.pc = "idle" => l = Idle
  /\ l.pc \in Building => Copied(l, buffer, imap) /\ l.new = made /\ gen # made
  /\ l.pc = "copy" => l.i < KeyRange
  /\ l.pc \in {"capture", "switch"} => l.i = KeyRange
  /\ l.pc = "switch" => l.old = gen
  /\ l.pc = "free" => l.old # gen /\ l.old <= made

OneCleans == \A c, d \in Cleaners : clean[c].pc # "idle" /\ clean[d].pc # "idle" => c = d

\* A buffer that a cleaner builds and has not switched to, or has not yet freed.
Owns(l, g) == (l.pc \in Building /\ l.new = g) \/ (l.pc = "free" /\ l.old = g)
Pending(g) == \E c \in Cleaners : Owns(clean[c], g)

\* The buffers that were replaced are freed once, the others not.
FreesOK ==
  alive => \A g \in 0 .. MaxGen :
             frees[g] = IF g > made \/ g = gen \/ Pending(g) THEN 0 ELSE 1

Types == TypeOK /\ clean \in [Cleaners -> Locals]

LogOK == LogHolds(buffer, imap, head)
CleanOK == \A c \in Cleaners : LocalOK(clean[c])
IInv == Types /\ LogOK /\ CleanOK /\ OneCleans /\ FreesOK /\ BuffersAlive
-----------------------------------------------------------------------------
\* The keys with an entry are finitely many; the count goes up by one with each.
LEMMA KeptGrows ==
  ASSUME NEW m \in [Keys -> Offset], NEW i \in Keys
  PROVE  /\ Cardinality(Kept(m, i)) \in Nat
         /\ m[i] >= 0 => Cardinality(Kept(m, i + 1)) = Cardinality(Kept(m, i)) + 1
         /\ ~(m[i] >= 0) => Kept(m, i + 1) = Kept(m, i)
<1> USE SizeAssumption
<1>1. IsFiniteSet(Keys)
  BY FS_Interval DEF Keys
<1>2. IsFiniteSet(Kept(m, i))
  BY <1>1, FS_Subset DEF Kept
<1>3. i \notin Kept(m, i)
  BY DEF Kept, Keys
<1>4. m[i] >= 0 => Kept(m, i + 1) = Kept(m, i) \cup {i}
  BY DEF Kept, Keys
<1>5. ~(m[i] >= 0) => Kept(m, i + 1) = Kept(m, i)
  BY DEF Kept, Keys
<1> QED
  BY <1>2, <1>3, <1>4, <1>5, SizeChange

\* No key has an entry below 0.
LEMMA KeptNone == ASSUME NEW m PROVE Cardinality(Kept(m, 0)) = 0
<1>1. Kept(m, 0) = {}
  BY SizeAssumption DEF Kept, Keys
<1> QED
  BY <1>1, FS_EmptySet

\* The entries of different keys are different, so the log is long enough for
\* all of them.
LEMMA KeptFits ==
  ASSUME NEW b, NEW m \in [Keys -> Offset], NEW h \in Nat, LogHolds(b, m, h), NEW i
  PROVE  Cardinality(Kept(m, i)) <= h
<1> USE SizeAssumption
<1> DEFINE K == Kept(m, i)
           f == [k \in K |-> m[k]]
<1>1. f \in [K -> 0 .. h - 1]
  <2> SUFFICES ASSUME NEW k \in K PROVE m[k] \in 0 .. h - 1
    OBVIOUS
  <2>1. k \in Keys /\ m[k] >= 0 /\ m[k] \in Int
    BY DEF Kept, Offset, Offsets
  <2> QED
    BY <2>1 DEF LogHolds
<1>2. \A j, k \in K : f[j] = f[k] => j = k
  BY DEF Kept, LogHolds
<1>3. f \in Injection(K, 0 .. h - 1)
  BY <1>1, <1>2 DEF Injection, IsInjective
<1>4. IsFiniteSet(0 .. h - 1) /\ Cardinality(0 .. h - 1) = h
  BY FS_Interval
<1> HIDE DEF K, f
<1>5. Cardinality(K) <= h
  BY <1>3, <1>4, FS_Injection
<1> QED
  BY <1>5 DEF K

\* What is true of the fields of a cleaner's locals.
LEMMA LocalTypes ==
  ASSUME NEW l \in Locals
  PROVE  /\ l.pc \in {"idle", "copy", "capture", "switch", "free"}
         /\ l.i \in 0 .. KeyRange /\ l.buffer \in [Offsets -> Entries]
         /\ l.imap \in [Keys -> Offset] /\ l.head \in Nat
         /\ l.new \in 0 .. MaxGen /\ l.old \in 0 .. MaxGen
  BY DEF Locals

\* A round of the copying loop that finds an entry appends it.
LEMMA CopyRound ==
  ASSUME NEW b \in [Offsets -> Entries], NEW m \in [Keys -> Offset], NEW h \in 0 .. MaxHead,
         LogHolds(b, m, h), NEW l \in Locals, Copied(l, b, m), l.i < KeyRange, m[l.i] >= 0,
         NEW p \in {"copy", "capture"},
         NEW n, n = [l EXCEPT !.buffer[l.head] = b[m[l.i]], !.imap[l.i] = l.head,
                              !.head = l.head + 1, !.i = l.i + 1, !.pc = p]
  PROVE  n \in Locals /\ Copied(n, b, m)
<1> USE SizeAssumption
<1>l. /\ l.i \in Keys /\ l.buffer \in [Offsets -> Entries] /\ l.imap \in [Keys -> Offset]
      /\ l.head \in Nat
  BY LocalTypes DEF Keys
<1>1. l.head = Cardinality(Kept(m, l.i)) /\ Cardinality(Kept(m, l.i + 1)) = l.head + 1
  BY <1>l, KeptGrows DEF Copied
<1>2. l.head + 1 <= h
  BY <1>1, KeptFits
<1>3. l.head \in Offsets
  BY <1>l, <1>2 DEF Offsets
<1>4. m[l.i] \in Offsets
  BY <1>l DEF Offset
<1>5. /\ n.pc = p /\ n.i = l.i + 1 /\ n.head = l.head + 1 /\ n.new = l.new /\ n.old = l.old
      /\ n.buffer = [l.buffer EXCEPT ![l.head] = b[m[l.i]]]
      /\ n.imap = [l.imap EXCEPT ![l.i] = l.head]
  BY DEF Locals
<1>6. n \in Locals
  <2>1. n.buffer \in [Offsets -> Entries]
    BY <1>l, <1>3, <1>4, <1>5
  <2>2. n.imap \in [Keys -> Offset]
    BY <1>l, <1>3, <1>5 DEF Offset
  <2>3. l.i + 1 \in 0 .. KeyRange /\ l.head + 1 \in Nat
    BY <1>l, SMTT(20) DEF Keys
  <2>4. n = [pc |-> n.pc, i |-> n.i, buffer |-> n.buffer, imap |-> n.imap,
             head |-> n.head, new |-> n.new, old |-> n.old]
    BY DEF Locals
  <2> QED
    BY <1>5, <2>1, <2>2, <2>3, <2>4, LocalTypes DEF Locals
<1>7. ASSUME NEW k \in Keys, k < n.i, m[k] >= 0
      PROVE  n.imap[k] >= 0 /\ n.imap[k] < n.head /\ n.buffer[n.imap[k]] = b[m[k]]
  <2>1. CASE k = l.i
    BY <2>1, <1>l, <1>3, <1>5
  <2>2. CASE k # l.i
    <3>1. k < l.i
      BY <1>7, <2>2, <1>5, <1>l DEF Keys
    <3>2. l.imap[k] >= 0 /\ l.imap[k] < l.head /\ l.buffer[l.imap[k]] = b[m[k]]
      BY <1>7, <3>1 DEF Copied
    <3>3. n.imap[k] = l.imap[k] /\ l.imap[k] \in Offsets
      BY <2>2, <3>2, <1>5, <1>l DEF Offset
    <3> QED
      BY <3>2, <3>3, <1>5, <1>l DEF Offsets
  <2> QED
    BY <2>1, <2>2
<1>8. ASSUME NEW k \in Keys, ~(k < n.i /\ m[k] >= 0) PROVE n.imap[k] = -1
  <2>1. k # l.i /\ ~(k < l.i /\ m[k] >= 0)
    BY <1>8, <1>5, <1>l DEF Keys
  <2> QED
    BY <2>1, <1>5, <1>l DEF Copied
<1>9. n.head = Cardinality(Kept(m, n.i))
  BY <1>1, <1>5
<1> QED
  BY <1>6, <1>7, <1>8, <1>9 DEF Copied

\* A round that finds none goes on to the next key.
LEMMA SkipRound ==
  ASSUME NEW b, NEW m \in [Keys -> Offset], NEW l \in Locals, Copied(l, b, m), l.i < KeyRange,
         ~(m[l.i] >= 0), NEW p \in {"copy", "capture"},
         NEW n, n = [l EXCEPT !.i = l.i + 1, !.pc = p]
  PROVE  n \in Locals /\ Copied(n, b, m)
<1> USE SizeAssumption
<1>1. l.i \in Keys /\ l.i + 1 \in 0 .. KeyRange
  BY LocalTypes DEF Keys
<1>2. Kept(m, l.i + 1) = Kept(m, l.i)
  BY <1>1, KeptGrows
<1>3. /\ n \in Locals /\ n.i = l.i + 1 /\ n.head = l.head
      /\ n.buffer = l.buffer /\ n.imap = l.imap
  BY <1>1 DEF Locals
<1>4. \A k \in Keys : (k < n.i /\ m[k] >= 0) <=> (k < l.i /\ m[k] >= 0)
  BY <1>1, <1>3 DEF Keys
<1> QED
  BY <1>2, <1>3, <1>4 DEF Copied
-----------------------------------------------------------------------------
\* While the others rest, a step of cleaner c preserves what the invariant says
\* of the cleaners when it leaves its locals and the counts of frees right.
LEMMA OneMoves ==
  ASSUME IInv, NEW c \in Cleaners, Resting(Cleaners \ {c}),
         NEW n \in Locals, clean' = [clean EXCEPT ![c] = n], n.head <= n.i, LocalOK(n)',
         alive', \A g \in 0 .. MaxGen :
                   frees'[g] = IF g > made' \/ g = gen' \/ Owns(n, g) THEN 0 ELSE 1
  PROVE  /\ clean' \in [Cleaners -> Locals]
         /\ \A d \in Cleaners : clean'[d].head <= clean'[d].i
         /\ CleanOK' /\ OneCleans' /\ FreesOK'
<1>1. clean \in [Cleaners -> Locals]
  BY DEF IInv, Types
<1>2. clean'[c] = n /\ \A d \in Cleaners \ {c} : clean'[d] = clean[d] /\ clean[d].pc = "idle"
  BY <1>1 DEF Resting
<1>3. \A d \in Cleaners \ {c} : clean'[d].pc = "idle" /\ clean'[d] = Idle
  BY <1>2 DEF IInv, CleanOK, LocalOK
<1>4. clean' \in [Cleaners -> Locals]
  BY <1>1
<1>5. \A d \in Cleaners : clean'[d].head <= clean'[d].i
  BY <1>2, <1>3 DEF Idle
<1>6. CleanOK'
  BY <1>2, <1>3 DEF CleanOK, LocalOK, Building
<1>7. OneCleans'
  BY <1>3 DEF OneCleans
<1>8. \A g : Pending(g)' <=> Owns(n, g)
  BY <1>2, <1>3 DEF Pending, Owns, Building
<1>9. FreesOK'
  BY <1>8 DEF FreesOK
<1> QED
  BY <1>4, <1>5, <1>6, <1>7, <1>9

\* While the others rest, a buffer is pending only because of cleaner c.
LEMMA OnePending ==
  ASSUME IInv, alive, NEW c \in Cleaners, Resting(Cleaners \ {c})
  PROVE  \A g \in 0 .. MaxGen :
           frees[g] = IF g > made \/ g = gen \/ Owns(clean[c], g) THEN 0 ELSE 1
<1>1. \A g : Pending(g) <=> Owns(clean[c], g)
  BY DEF Pending, Owns, Building, Resting
<1> QED
  BY <1>1 DEF IInv, FreesOK

\* The facts of the invariant about the store, one by one.
LEMMA StoreTypes ==
  ASSUME IInv
  PROVE  /\ buffer \in [Offsets -> Entries] /\ imap \in [Keys -> Offset] /\ head \in 0 .. MaxHead
         /\ made \in 0 .. MaxGen /\ gen \in 0 .. made /\ frees \in [0 .. MaxGen -> Nat]
         /\ got \in [Threads -> Values \cup {-1, 0}] /\ clean \in [Cleaners -> Locals]
         /\ \A c \in Cleaners : clean[c].head <= clean[c].i /\ LocalOK(clean[c])
         /\ LogHolds(buffer, imap, head)
  BY DEF IInv, Types, TypeOK, Offset, LogOK, CleanOK

\* The locals of a cleaner that has not started.
LEMMA IdleLocal == Idle \in Locals /\ Idle.pc = "idle" /\ Idle.i = 0 /\ Idle.head = 0
<1> USE SizeAssumption
<1>1. Junk \in Entries
  BY DEF Junk, Entries
<1>2. [o \in Offsets |-> Junk] \in [Offsets -> Entries] /\ [k \in Keys |-> -1] \in [Keys -> Offset]
  BY <1>1 DEF Offset
<1>3. 0 \in 0 .. KeyRange /\ 0 \in 0 .. MaxGen /\ 0 \in Nat
  OBVIOUS
<1> QED
  BY <1>2, <1>3 DEF Idle, Locals
-----------------------------------------------------------------------------
\* The store starts empty and no cleaner has started.
LEMMA InitIInv == Init => IInv
<1> SUFFICES ASSUME Init PROVE IInv
  OBVIOUS
<1> USE SizeAssumption, IdleLocal DEF Init
<1>1. \A c \in Cleaners : clean[c] = Idle
  OBVIOUS
<1>2. Zero \in Entries
  BY DEF Zero, Entries, Keys
<1>3. TypeOK
  <2>1. buffer \in [Offsets -> Entries] /\ imap \in [Keys -> Offsets \cup {-1}]
    BY <1>2
  <2>2. head \in 0 .. MaxHead /\ made \in 0 .. MaxGen /\ gen \in 0 .. made
    OBVIOUS
  <2>3. frees \in [0 .. MaxGen -> Nat] /\ got \in [Threads -> Values \cup {-1, 0}]
    OBVIOUS
  <2>4. \A c \in Cleaners : /\ clean[c].pc \in {"idle", "copy", "capture", "switch", "free"}
                            /\ clean[c].i \in 0 .. KeyRange
                            /\ clean[c].head <= clean[c].i
    BY <1>1
  <2>5. alive \in BOOLEAN
    OBVIOUS
  <2> QED
    BY <2>1, <2>2, <2>3, <2>4, <2>5 DEF TypeOK
<1>4. clean \in [Cleaners -> Locals]
  OBVIOUS
<1>5. LogOK
  BY DEF LogOK, LogHolds
<1>6. CleanOK /\ OneCleans
  BY <1>1 DEF CleanOK, OneCleans, LocalOK, Building
<1>7. \A g : ~Pending(g)
  BY <1>1 DEF Pending, Owns, Building
<1>8. FreesOK
  BY <1>7 DEF FreesOK
<1>9. BuffersAlive
  BY DEF BuffersAlive
<1> QED
  BY <1>3, <1>4, <1>5, <1>6, <1>8, <1>9 DEF IInv, Types

\* What remains to be shown of a step of a cleaner, besides its locals.
LEMMA CleanerStep ==
  ASSUME IInv, NEW c \in Cleaners, Resting(Cleaners \ {c}),
         NEW n \in Locals, clean' = [clean EXCEPT ![c] = n], n.head <= n.i, LocalOK(n)',
         alive', got' = got, frees' \in [0 .. MaxGen -> Nat],
         \A g \in 0 .. MaxGen :
           frees'[g] = IF g > made' \/ g = gen' \/ Owns(n, g) THEN 0 ELSE 1,
         buffer' \in [Offsets -> Entries], imap' \in [Keys -> Offset], head' \in 0 .. MaxHead,
         LogHolds(buffer', imap', head'), made' \in 0 .. MaxGen, gen' \in 0 .. made'
  PROVE  IInv'
<1>1. /\ clean' \in [Cleaners -> Locals]
      /\ \A d \in Cleaners : clean'[d].head <= clean'[d].i
      /\ CleanOK' /\ OneCleans' /\ FreesOK'
  BY OneMoves
<1>2. \A d \in Cleaners : /\ clean'[d].pc \in {"idle", "copy", "capture", "switch", "free"}
                          /\ clean'[d].i \in 0 .. KeyRange
  BY <1>1, LocalTypes
<1>3. TypeOK'
  BY <1>1, <1>2, StoreTypes DEF TypeOK, Offset
<1>4. gen' \in 0 .. MaxGen
  BY SizeAssumption
<1>5. BuffersAlive'
  <2>1. \A g \in 0 .. MaxGen : frees'[g] <= 1
    OBVIOUS
  <2>2. frees'[gen'] = 0
    BY <1>4
  <2> QED
    BY <2>1, <2>2 DEF BuffersAlive
<1> QED
  BY <1>1, <1>3, <1>5 DEF IInv, Types, LogOK

\* Cleaning starts with nothing copied into the new buffer.
LEMMA StartStep ==
  ASSUME IInv, alive, NEW c \in Cleaners, Resting(Cleaners \ {c}), CleanStart(c)
  PROVE  IInv'
<1>n. PICK n : n = [Idle EXCEPT !.pc = "copy", !.new = made + 1]
  OBVIOUS
<1>s. /\ made < MaxGen /\ made' = made + 1 /\ clean' = [clean EXCEPT ![c] = n]
      /\ UNCHANGED <<buffer, imap, head, gen, alive, frees, got>> /\ clean[c].pc = "idle"
  BY <1>n DEF CleanStart, store
<1> USE SizeAssumption
<1>1. /\ n.pc = "copy" /\ n.new = made + 1 /\ n.i = 0 /\ n.head = 0
      /\ n.imap = [k \in Keys |-> -1]
  BY <1>n DEF Idle
<1>2. made' \in 0 .. MaxGen /\ gen' \in 0 .. made' /\ gen' # made'
  BY <1>s, StoreTypes
<1>3. n \in Locals
  BY <1>n, <1>s, <1>2, IdleLocal DEF Locals
<1>4. Copied(n, buffer, imap)
  BY <1>1, KeptNone DEF Copied, Keys
<1>5. LocalOK(n)'
  BY <1>s, <1>1, <1>2, <1>4 DEF LocalOK, Building
<1>6. \A g \in 0 .. MaxGen :
        frees'[g] = IF g > made' \/ g = gen' \/ Owns(n, g) THEN 0 ELSE 1
  <2>1. \A g : ~Owns(clean[c], g)
    BY <1>s DEF Owns, Building
  <2>2. \A g : Owns(n, g) <=> g = made'
    BY <1>s, <1>1 DEF Owns, Building
  <2>3. \A g \in 0 .. MaxGen : g > made \/ g = gen <=> (g > made' \/ g = made') \/ g = gen'
    BY <1>s, StoreTypes
  <2> QED
    BY <1>s, <2>1, <2>2, <2>3, OnePending
<1>7. n.head <= n.i
  BY <1>1
<1> QED
  BY <1>s, <1>2, <1>3, <1>5, <1>6, <1>7, CleanerStep, StoreTypes

\* A round of the copying loop adds one key to what is copied.
LEMMA CopyStep ==
  ASSUME IInv, alive, NEW c \in Cleaners, Resting(Cleaners \ {c}), CleanCopy(c)
  PROVE  IInv'
<1>l. PICK l : l = clean[c]
  OBVIOUS
<1>p. PICK p : p = IF l.i + 1 = KeyRange THEN "capture" ELSE "copy"
  OBVIOUS
<1>n. PICK n : n = IF imap[l.i] >= 0
                   THEN [l EXCEPT !.buffer[l.head] = buffer[imap[l.i]], !.imap[l.i] = l.head,
                                  !.head = l.head + 1, !.i = l.i + 1, !.pc = p]
                   ELSE [l EXCEPT !.i = l.i + 1, !.pc = p]
  OBVIOUS
<1>s. l.pc = "copy" /\ clean' = [clean EXCEPT ![c] = n]
      /\ UNCHANGED <<buffer, imap, head, gen, made, alive, frees, got>>
  BY <1>l, <1>p, <1>n DEF CleanCopy, store
<1>1. l \in Locals /\ LocalOK(l) /\ l.head <= l.i
  BY <1>l, StoreTypes
<1>2. Copied(l, buffer, imap) /\ l.i < KeyRange /\ l.new = made /\ gen # made
  BY <1>s, <1>1 DEF LocalOK, Building
<1>3. n \in Locals /\ Copied(n, buffer, imap)
  <2>1. p \in {"copy", "capture"}
    BY <1>p
  <2>2. CASE imap[l.i] >= 0
    <3>1. n = [l EXCEPT !.buffer[l.head] = buffer[imap[l.i]], !.imap[l.i] = l.head,
                        !.head = l.head + 1, !.i = l.i + 1, !.pc = p]
      BY <1>n, <2>2
    <3> QED
      BY <1>1, <1>2, <2>1, <2>2, <3>1, StoreTypes, CopyRound
  <2>3. CASE ~(imap[l.i] >= 0)
    <3>1. n = [l EXCEPT !.i = l.i + 1, !.pc = p]
      BY <1>n, <2>3
    <3> QED
      BY <1>1, <1>2, <2>1, <2>3, <3>1, StoreTypes, SkipRound
  <2> QED
    BY <2>2, <2>3
<1>4. l.head \in Nat /\ l.i \in 0 .. KeyRange
  BY <1>1, LocalTypes
<1>5. /\ n.pc = p /\ n.i = l.i + 1 /\ n.new = l.new
      /\ n.head = l.head \/ n.head = l.head + 1
  BY <1>1, <1>n DEF Locals
<1>6. n.head <= n.i
  BY <1>1, <1>4, <1>5
<1>7. (p = "copy" /\ l.i + 1 < KeyRange) \/ (p = "capture" /\ l.i + 1 = KeyRange)
  BY <1>p, <1>2, <1>4, SizeAssumption
<1>8. LocalOK(n)'
  BY <1>s, <1>2, <1>3, <1>5, <1>7 DEF LocalOK, Building
<1>9. \A g \in 0 .. MaxGen :
        frees'[g] = IF g > made' \/ g = gen' \/ Owns(n, g) THEN 0 ELSE 1
  <2>1. \A g : Owns(n, g) <=> Owns(l, g)
    BY <1>s, <1>5, <1>7 DEF Owns, Building
  <2> QED
    BY <1>l, <1>s, <2>1, OnePending
<1> QED
  BY <1>s, <1>3, <1>6, <1>8, <1>9, CleanerStep, StoreTypes

\* The buffer to be freed later is the one in use.
LEMMA CaptureStep ==
  ASSUME IInv, alive, NEW c \in Cleaners, Resting(Cleaners \ {c}), CleanCapture(c)
  PROVE  IInv'
<1>l. PICK l : l = clean[c]
  OBVIOUS
<1>n. PICK n : n = [l EXCEPT !.old = gen, !.pc = "switch"]
  OBVIOUS
<1>1. l \in Locals /\ LocalOK(l) /\ l.head <= l.i
  BY <1>l, StoreTypes
<1>s. l.pc = "capture" /\ clean' = [clean EXCEPT ![c] = n]
      /\ UNCHANGED <<buffer, imap, head, gen, made, alive, frees, got>>
  BY <1>l, <1>n, StoreTypes DEF CleanCapture, store, Locals
<1>2. /\ n.pc = "switch" /\ n.old = gen /\ n.i = l.i /\ n.head = l.head /\ n.new = l.new
      /\ n.imap = l.imap /\ n.buffer = l.buffer
  BY <1>1, <1>n DEF Locals
<1>3. gen \in 0 .. MaxGen
  BY StoreTypes, SizeAssumption
<1>4. n \in Locals
  BY <1>1, <1>3, <1>n DEF Locals
<1>5. Copied(l, buffer, imap) /\ l.new = made /\ gen # made /\ l.i = KeyRange
  BY <1>s, <1>1 DEF LocalOK, Building
<1>6. LocalOK(n)'
  BY <1>s, <1>2, <1>5 DEF LocalOK, Building, Copied
<1>7. \A g \in 0 .. MaxGen :
        frees'[g] = IF g > made' \/ g = gen' \/ Owns(n, g) THEN 0 ELSE 1
  <2>1. \A g : Owns(n, g) <=> Owns(l, g)
    BY <1>s, <1>2 DEF Owns, Building
  <2> QED
    BY <1>l, <1>s, <2>1, OnePending
<1> QED
  BY <1>s, <1>1, <1>2, <1>4, <1>6, <1>7, CleanerStep, StoreTypes

\* The copy of all the keys stands for the same map as the log it replaces.
LEMMA CopiedAll ==
  ASSUME NEW b, NEW m \in [Keys -> Offset], NEW h \in 0 .. MaxHead, LogHolds(b, m, h),
         NEW l \in Locals, Copied(l, b, m), l.i = KeyRange
  PROVE  /\ LogHolds(l.buffer, l.imap, l.head) /\ l.head \in 0 .. MaxHead
         /\ l.head = Cardinality(Kept(m, KeyRange))
         /\ \A k \in Keys : m[k] >= 0 => l.imap[k] >= 0 /\ l.buffer[l.imap[k]] = b[m[k]]
         /\ \A k \in Keys : ~(m[k] >= 0) => l.imap[k] = -1
<1> USE SizeAssumption
<1>1. \A k \in Keys : k < l.i
  BY DEF Keys
<1>3. l.head <= h /\ l.head \in Nat
  BY KeptFits, LocalTypes DEF Copied
<1>4. \A k \in Keys :
        IF m[k] >= 0
        THEN l.imap[k] >= 0 /\ l.imap[k] < l.head /\ l.buffer[l.imap[k]] = b[m[k]]
        ELSE l.imap[k] = -1
  BY <1>1 DEF Copied
<1>5. LogHolds(l.buffer, l.imap, l.head)
  BY <1>4 DEF LogHolds
<1> QED
  BY <1>3, <1>4, <1>5 DEF Copied

\* The switch puts the copy in the place of the log.
LEMMA SwitchStep ==
  ASSUME IInv, alive, NEW c \in Cleaners, Resting(Cleaners \ {c}), CleanSwitch(c)
  PROVE  IInv'
<1>l. PICK l : l = clean[c]
  OBVIOUS
<1>n. PICK n : n = [l EXCEPT !.pc = "free"]
  OBVIOUS
<1>1. l \in Locals /\ LocalOK(l) /\ l.head <= l.i
  BY <1>l, StoreTypes
<1>s. /\ l.pc = "switch" /\ clean' = [clean EXCEPT ![c] = n]
      /\ buffer' = l.buffer /\ imap' = l.imap /\ head' = l.head /\ gen' = l.new
      /\ UNCHANGED <<made, alive, frees, got>>
  BY <1>l, <1>n, StoreTypes DEF CleanSwitch, SwitchedHead, Locals
<1>2. n \in Locals /\ n.pc = "free" /\ n.old = l.old /\ n.i = l.i /\ n.head = l.head
  BY <1>1, <1>n DEF Locals
<1>3. Copied(l, buffer, imap) /\ l.new = made /\ gen # made /\ l.i = KeyRange /\ l.old = gen
  BY <1>s, <1>1 DEF LocalOK, Building
<1>4. LogHolds(buffer', imap', head') /\ head' \in 0 .. MaxHead
  BY <1>s, <1>1, <1>3, CopiedAll, StoreTypes
<1>5. gen' = made /\ made \in 0 .. MaxGen /\ gen \in 0 .. made /\ gen' \in 0 .. made'
  BY <1>s, <1>3, StoreTypes, SizeAssumption
<1>6. LocalOK(n)'
  BY <1>s, <1>2, <1>3, <1>5 DEF LocalOK, Building
<1>7. \A g \in 0 .. MaxGen :
        frees'[g] = IF g > made' \/ g = gen' \/ Owns(n, g) THEN 0 ELSE 1
  <2>1. \A g : Owns(n, g) <=> g = gen
    BY <1>2, <1>3 DEF Owns, Building
  <2>2. \A g : Owns(l, g) <=> g = gen'
    BY <1>s DEF Owns, Building
  <2> QED
    BY <1>l, <1>s, <2>1, <2>2, OnePending
<1>8. buffer' \in [Offsets -> Entries] /\ imap' \in [Keys -> Offset]
  BY <1>s, <1>1, LocalTypes
<1> QED
  BY <1>s, <1>1, <1>2, <1>4, <1>5, <1>6, <1>7, <1>8, CleanerStep, StoreTypes

\* The buffer that the cleaner frees was in use until the switch.
LEMMA FreeStep ==
  ASSUME IInv, alive, NEW c \in Cleaners, Resting(Cleaners \ {c}), CleanFree(c)
  PROVE  IInv'
<1>l. PICK l : l = clean[c]
  OBVIOUS
<1>1. l \in Locals /\ LocalOK(l)
  BY <1>l, StoreTypes
<1>s. /\ l.pc = "free" /\ clean' = [clean EXCEPT ![c] = Idle]
      /\ frees' = [frees EXCEPT ![l.old] = @ + 1]
      /\ UNCHANGED <<buffer, imap, head, gen, made, alive, got>>
  BY <1>l DEF CleanFree, Freed, store
<1>2. l.old # gen /\ l.old <= made /\ l.old \in 0 .. MaxGen
  BY <1>s, <1>1, LocalTypes DEF LocalOK
<1>3. \A g : (Owns(l, g) <=> g = l.old) /\ ~Owns(Idle, g)
  BY <1>s, IdleLocal DEF Owns, Building
<1>4. frees \in [0 .. MaxGen -> Nat] /\ made \in Nat /\ gen \in Nat
  BY StoreTypes, SizeAssumption
<1>5. \A g \in 0 .. MaxGen :
        frees'[g] = IF g > made' \/ g = gen' \/ Owns(Idle, g) THEN 0 ELSE 1
  <2> SUFFICES ASSUME NEW g \in 0 .. MaxGen
               PROVE  frees'[g] = IF g > made \/ g = gen THEN 0 ELSE 1
    BY <1>s, <1>3
  <2>1. frees[g] = IF g > made \/ g = gen \/ g = l.old THEN 0 ELSE 1
    BY <1>l, <1>3, OnePending
  <2> QED
    BY <2>1, <1>s, <1>2, <1>4
<1>6. frees' \in [0 .. MaxGen -> Nat]
  BY <1>s, <1>2, <1>4
<1>7. LocalOK(Idle)'
  BY IdleLocal DEF LocalOK, Building
<1>8. Idle.head <= Idle.i
  BY IdleLocal
<1> QED
  BY <1>s, <1>5, <1>6, <1>7, <1>8, CleanerStep, StoreTypes, IdleLocal

\* What a put writes: the log holds the latest versions again, and the map that
\* it stands for has changed at that key only.
LEMMA PutWrites ==
  ASSUME IInv, NEW k \in Keys, NEW v \in Values, Put(k, v)
  PROVE  /\ buffer' \in [Offsets -> Entries] /\ imap' \in [Keys -> Offset]
         /\ head' \in 0 .. MaxHead /\ LogHolds(buffer', imap', head')
         /\ \A j \in Keys : Lookup(j)' = IF j = k THEN v ELSE Lookup(j)
<1> USE SizeAssumption
<1>t. /\ buffer \in [Offsets -> Entries] /\ imap \in [Keys -> Offset] /\ head \in 0 .. MaxHead
      /\ LogHolds(buffer, imap, head)
  BY StoreTypes
<1>s. /\ head < MaxHead /\ head' = head + 1 /\ imap' = [imap EXCEPT ![k] = head]
      /\ buffer' = [buffer EXCEPT ![head] = [key |-> k, value |-> v]]
  BY DEF Put
<1>1. head \in Offsets /\ head >= 0 /\ head' \in 0 .. MaxHead
  BY <1>t, <1>s DEF Offsets
<1>2. [key |-> k, value |-> v] \in Entries
  BY DEF Entries
<1>3. buffer' \in [Offsets -> Entries] /\ imap' \in [Keys -> Offset]
  BY <1>t, <1>s, <1>1, <1>2 DEF Offset
<1>4. buffer'[head] = [key |-> k, value |-> v] /\ imap'[k] = head
  BY <1>t, <1>s, <1>1
<1>5. ASSUME NEW j \in Keys, j # k, imap[j] >= 0
      PROVE  imap'[j] = imap[j] /\ imap[j] < head /\ buffer'[imap[j]] = buffer[imap[j]]
  <2>1. imap'[j] = imap[j] /\ imap[j] < head /\ imap[j] \in Offsets
    BY <1>5, <1>t, <1>s DEF LogHolds, Offset
  <2>2. imap[j] # head
    BY <2>1 DEF Offsets
  <2> QED
    BY <2>1, <2>2, <1>t, <1>s
<1>6. \A j \in Keys : j # k => imap'[j] = imap[j] /\ imap[j] \in Int
  BY <1>t, <1>s DEF Offset, Offsets
<1>7. LogHolds(buffer', imap', head')
  <2> SUFFICES ASSUME NEW j \in Keys, imap'[j] >= 0
               PROVE  /\ imap'[j] < head' /\ buffer'[imap'[j]].key = j
                      /\ buffer'[imap'[j]].value \in Values
    BY DEF LogHolds
  <2>1. CASE j = k
    BY <2>1, <1>s, <1>t, <1>4
  <2>2. CASE j # k
    <3>1. imap[j] >= 0 /\ imap'[j] = imap[j] /\ imap[j] \in Int
      BY <2>2, <1>6
    <3>2. imap[j] < head /\ buffer'[imap[j]] = buffer[imap[j]]
      BY <2>2, <3>1, <1>5
    <3>3. buffer[imap[j]].key = j /\ buffer[imap[j]].value \in Values
      BY <3>1, <1>t DEF LogHolds
    <3> QED
      BY <3>1, <3>2, <3>3, <1>s, <1>t
  <2> QED
    BY <2>1, <2>2
<1>8. ASSUME NEW j \in Keys PROVE Lookup(j)' = IF j = k THEN v ELSE Lookup(j)
  <2>1. CASE j = k
    <3>1. ~(imap'[k] < 0)
      BY <1>1, <1>4, <1>t
    <3> QED
      BY <2>1, <3>1, <1>4 DEF Lookup
  <2>2. CASE j # k /\ imap[j] >= 0
    <3>1. imap'[j] = imap[j] /\ buffer'[imap[j]] = buffer[imap[j]]
      BY <2>2, <1>5
    <3> QED
      BY <2>2, <3>1 DEF Lookup
  <2>3. CASE j # k /\ ~(imap[j] >= 0)
    <3>1. imap'[j] = imap[j] /\ imap[j] < 0
      BY <2>3, <1>6
    <3> QED
      BY <2>3, <3>1 DEF Lookup
  <2> QED
    BY <2>1, <2>2, <2>3
<1> QED
  BY <1>1, <1>3, <1>7, <1>8

\* Every step of careful use preserves the invariant.
LEMMA IInvStep == IInv /\ [QuietNext]_vars => IInv'
<1> SUFFICES ASSUME IInv, [QuietNext]_vars PROVE IInv'
  OBVIOUS
<1>t. TypeOK /\ clean \in [Cleaners -> Locals]
  BY DEF IInv, Types
<1>1. ASSUME NEW t \in Threads, NEW k \in Keys, Get(t, k) PROVE IInv'
  <2>1. UNCHANGED <<buffer, imap, head, gen, made, alive, frees, clean>>
    BY <1>1 DEF Get, store
  <2>2. Lookup(k) \in Values \cup {-1, 0}
    <3>1. imap[k] \in Int /\ (imap[k] >= 0 => buffer[imap[k]].value \in Values)
      BY StoreTypes, SizeAssumption DEF LogHolds, Offset, Offsets
    <3> QED
      BY <3>1 DEF Lookup
  <2>3. got' \in [Threads -> Values \cup {-1, 0}]
    BY <1>1, <2>2, <1>t DEF Get, TypeOK
  <2>4. TypeOK'
    BY <1>t, <2>1, <2>3 DEF TypeOK
  <2> QED
    BY <2>1, <2>4 DEF IInv, Types, LogOK, CleanOK, LocalOK, OneCleans, FreesOK, Pending, BuffersAlive
<1>2. ASSUME alive, NEW c \in Cleaners, Clean(c), Resting(Cleaners \ {c}) PROVE IInv'
  BY <1>2, StartStep, CopyStep, CaptureStep, SwitchStep, FreeStep DEF Clean
<1>3. ASSUME Resting(Cleaners), NEW k \in Keys, NEW v \in Values, Put(k, v) PROVE IInv'
  <2>1. UNCHANGED <<gen, made, alive, frees, clean, got>>
    BY <1>3 DEF Put
  <2>2. /\ buffer' \in [Offsets -> Entries] /\ imap' \in [Keys -> Offset]
        /\ head' \in 0 .. MaxHead /\ LogHolds(buffer', imap', head')
    BY <1>3, PutWrites
  <2>3. TypeOK'
    BY <1>t, <2>1, <2>2 DEF TypeOK, Offset
  <2>4. CleanOK'
    BY <1>3, <2>1 DEF IInv, CleanOK, LocalOK, Resting, Building
  <2> QED
    BY <2>1, <2>2, <2>3, <2>4
       DEF IInv, Types, LogOK, OneCleans, FreesOK, Pending, BuffersAlive
<1>4. ASSUME alive, Resting(Cleaners), Destroy PROVE IInv'
  <2>1. /\ UNCHANGED <<buffer, imap, head, gen, made, clean, got>>
        /\ frees' = [frees EXCEPT ![gen] = @ + 1] /\ alive' = FALSE
    BY <1>4 DEF Destroy, store
  <2>2. /\ gen \in 0 .. MaxGen /\ gen <= made /\ made \in Nat
        /\ frees \in [0 .. MaxGen -> Nat]
    BY StoreTypes, SizeAssumption
  <2>3. \A g : ~Pending(g)
    BY <1>4 DEF Pending, Owns, Building, Resting
  <2>4. ASSUME NEW g \in 0 .. MaxGen PROVE frees'[g] = IF g <= made' THEN 1 ELSE 0
    <3>1. frees[g] = IF g > made \/ g = gen THEN 0 ELSE 1
      BY <1>4, <2>3 DEF IInv, FreesOK
    <3> QED
      BY <2>1, <2>2, <3>1
  <2>5. frees' \in [0 .. MaxGen -> Nat]
    BY <2>1, <2>2
  <2>6. TypeOK'
    BY <1>t, <2>1, <2>5 DEF TypeOK
  <2>7. BuffersAlive'
    BY <2>1, <2>4 DEF BuffersAlive
  <2> QED
    BY <2>1, <2>6, <2>7 DEF IInv, Types, LogOK, CleanOK, LocalOK, OneCleans, FreesOK
<1>5. CASE UNCHANGED vars
  <2>1. UNCHANGED <<buffer, imap, head, gen, made, alive, frees, clean, got>>
    BY <1>5 DEF vars, store
  <2>2. TypeOK'
    BY <1>t, <2>1 DEF TypeOK
  <2> QED
    BY <2>1, <2>2
       DEF IInv, Types, LogOK, CleanOK, LocalOK, OneCleans, FreesOK, Pending, BuffersAlive
<1> QED
  BY <1>1, <1>2, <1>3, <1>4, <1>5 DEF QuietNext

\* The inductive invariant holds in every reachable state.
LEMMA IInvHolds == QuietSpec => []IInv
  BY InitIInv, IInvStep, PTL DEF QuietSpec
-----------------------------------------------------------------------------
\* The indices of the log, the imap and the cleaners stay within their arrays.
THEOREM TypeCorrect == QuietSpec => []TypeOK
  BY IInvHolds, PTL DEF IInv, Types

\* No get or put touches a freed buffer, none is freed twice, and when
\* logstore_destroy has returned none is left.
THEOREM BuffersCorrect == QuietSpec => []BuffersAlive
  BY IInvHolds, PTL DEF IInv

\* The switch leaves the keys with an entry, and what they lead to, as they were.
LEMMA SwitchKeeps ==
  ASSUME IInv, NEW c \in Cleaners, CleanSwitch(c)
  PROVE  /\ \A k \in Keys : Lookup(k)' = Lookup(k)
         /\ head' = Cardinality({k \in Keys : Lookup(k) # -1})
<1>l. PICK l : l = clean[c]
  OBVIOUS
<1>1. l \in Locals /\ LocalOK(l)
  BY <1>l, StoreTypes
<1>2. /\ l.pc = "switch" /\ buffer' = l.buffer /\ imap' = l.imap /\ head' = l.head
  BY <1>l DEF CleanSwitch, SwitchedHead
<1>3. Copied(l, buffer, imap) /\ l.i = KeyRange
  BY <1>1, <1>2 DEF LocalOK, Building
<1>4. /\ l.head = Cardinality(Kept(imap, KeyRange))
      /\ \A k \in Keys : imap[k] >= 0 => l.imap[k] >= 0 /\ l.buffer[l.imap[k]] = buffer[imap[k]]
      /\ \A k \in Keys : ~(imap[k] >= 0) => l.imap[k] = -1
  <2>1. imap \in [Keys -> Offset] /\ head \in 0 .. MaxHead /\ LogHolds(buffer, imap, head)
    BY StoreTypes
  <2> QED
    BY <2>1, <1>1, <1>3, CopiedAll, SMTT(20)
<1>5. \A k \in Keys : imap[k] \in Int /\ l.imap[k] \in Int
  BY <1>1, StoreTypes, LocalTypes, SizeAssumption, SMTT(20) DEF Offset, Offsets
<1>6. ASSUME NEW k \in Keys PROVE Lookup(k)' = Lookup(k)
  <2>1. CASE imap[k] >= 0
    BY <2>1, <1>2, <1>4, <1>5 DEF Lookup
  <2>2. CASE imap[k] < 0
    BY <2>2, <1>2, <1>4, <1>5 DEF Lookup
  <2> QED
    BY <2>1, <2>2, <1>5, SMTT(20)
<1>7. \A k \in Keys : Lookup(k) # -1 <=> imap[k] >= 0
  <2>1. \A k \in Keys : imap[k] >= 0 => buffer[imap[k]].value \in Values
    BY StoreTypes DEF LogHolds
  <2> QED
    BY <2>1, <1>5, ValueAssumption DEF Lookup
<1>8. {k \in Keys : Lookup(k) # -1} = Kept(imap, KeyRange)
  BY <1>7, SizeAssumption DEF Kept, Keys
<1> QED
  BY <1>2, <1>4, <1>6, <1>8

\* Cleaning reclaims the space of every overwritten version and of no other.
THEOREM Reclaimed == QuietSpec => CleanReclaims
<1>1. IInv /\ [QuietNext]_vars
      => [gen' # gen => head' = Cardinality({k \in Keys : Lookup(k) # -1})]_vars
  <2> SUFFICES ASSUME IInv, QuietNext, gen' # gen
               PROVE  head' = Cardinality({k \in Keys : Lookup(k) # -1})
    OBVIOUS
  <2>1. \E c \in Cleaners : CleanSwitch(c)
    BY DEF QuietNext, Get, Put, Clean, CleanStart, CleanCopy, CleanCapture, CleanFree,
           Destroy, store
  <2> QED
    BY <2>1, SwitchKeeps
<1> QED
  BY <1>1, IInvHolds, PTL DEF QuietSpec, CleanReclaims

\* Under careful use the log, its imap and the cleaner implement a map from
\* keys to values: cleaning never shows, wherever the cleaner is.
THEOREM MapRefinement == QuietSpec => ImplementsKV
<1>1. Init => KV!Init
  BY DEF Init, KV!Init, Lookup
<1>2. IInv /\ [QuietNext]_vars => [KV!Next]_<<[k \in Keys |-> Lookup(k)], got>>
  <2> SUFFICES ASSUME IInv, [QuietNext]_vars
               PROVE  [KV!Next]_<<[k \in Keys |-> Lookup(k)], got>>
    OBVIOUS
  <2>0. UNCHANGED <<buffer, imap>> => \A k \in Keys : Lookup(k)' = Lookup(k)
    BY DEF Lookup
  <2>1. ASSUME NEW t \in Threads, NEW k \in Keys, Get(t, k) PROVE KV!Next
    <3>1. UNCHANGED <<buffer, imap>>
      BY <2>1 DEF Get, store
    <3>2. KV!Get(t, k)
      BY <2>0, <2>1, <3>1 DEF Get, KV!Get
    <3> QED
      BY <3>2 DEF KV!Next
  <2>2. ASSUME NEW k \in Keys, NEW v \in Values, Put(k, v) PROVE KV!Next
    <3>1. \A j \in Keys : Lookup(j)' = IF j = k THEN v ELSE Lookup(j)
      BY <2>2, PutWrites
    <3>2. got' = got
      BY <2>2 DEF Put
    <3>3. KV!Put(k, v)
      BY <3>1, <3>2 DEF KV!Put
    <3> QED
      BY <3>3 DEF KV!Next
  <2>3. ASSUME NEW c \in Cleaners, Clean(c) PROVE UNCHANGED <<[k \in Keys |-> Lookup(k)], got>>
    <3>1. got' = got
      BY <2>3 DEF Clean, CleanStart, CleanCopy, CleanCapture, CleanSwitch, CleanFree
    <3>2. \A k \in Keys : Lookup(k)' = Lookup(k)
      BY <2>0, <2>3, SwitchKeeps DEF Clean, CleanStart, CleanCopy, CleanCapture, CleanFree, store
    <3> QED
      BY <3>1, <3>2
  <2>4. ASSUME Destroy \/ UNCHANGED vars PROVE UNCHANGED <<[k \in Keys |-> Lookup(k)], got>>
    BY <2>0, <2>4 DEF Destroy, vars, store
  <2> QED
    BY <2>1, <2>2, <2>3, <2>4 DEF QuietNext
<1> QED
  BY <1>1, <1>2, IInvHolds, PTL DEF QuietSpec, ImplementsKV, KV!Spec
=============================================================================
