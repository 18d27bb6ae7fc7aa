---------------------------- MODULE ProofLemmas ----------------------------
(***************************************************************************)
(* Facts that several proofs rest on.  Positions in a ring: every ring in  *)
(* the repository turns a running position into a slot with % or a mask.   *)
(* And sizes of finite sets.                                               *)
(***************************************************************************)
EXTENDS Integers, FiniteSets, FiniteSetTheorems, TLAPS

\* Division with remainder.
LEMMA DivMod ==
  ASSUME NEW n \in Nat \ {0}, NEW a \in Nat
  PROVE  /\ a = n * (a \div n) + (a % n)
         /\ a % n \in 0 .. n-1
         /\ a \div n \in Nat
  OBVIOUS

\* A position inside the ring is its own slot.
LEMMA ModSmall ==
  ASSUME NEW n \in Nat \ {0}, NEW a \in 0 .. n-1
  PROVE  a % n = a
  OBVIOUS

\* A position in the second lap is one ring length further.
LEMMA ModWrap ==
  ASSUME NEW n \in Nat \ {0}, NEW a \in n .. 2*n-1
  PROVE  a % n = a - n
  OBVIOUS

\* The remainder is determined by any representation n * q + r of the number.
LEMMA ModUnique ==
  ASSUME NEW n \in Nat \ {0}, NEW q \in Nat, NEW r \in 0 .. n-1
  PROVE  (n * q + r) % n = r
<1> DEFINE a == n * q + r
<1>1. a \in Nat OBVIOUS
<1> HIDE DEF a
<1> DEFINE q2 == a \div n
           r2 == a % n
<1>2. a = n * q2 + r2 /\ r2 \in 0..n-1 /\ q2 \in Nat
  BY <1>1, DivMod
<1>q. a = n * q + r BY DEF a
<1> HIDE DEF q2, r2
<1>3. n * q - n * q2 = r2 - r /\ n*q \in Int /\ n * q2 \in Int BY <1>2, <1>q
<1>31. n * (q - q2) = r2 - r BY <1>3, <1>2
<1>4. q = q2
  <2>1. CASE q - q2 >= 1
    <3>1. n * (q - q2) >= n BY <2>1, <1>2
    <3> QED BY <3>1, <1>31, <1>2
  <2>2. CASE q2 - q >= 1
    <3>1. n * (q2 - q) >= n BY <2>2, <1>2
    <3>2. n * (q2 - q) = r - r2 BY <1>31, <1>2
    <3> QED BY <3>1, <3>2, <1>2
  <2> QED BY <2>1, <2>2, <1>2
<1>5. r2 = r BY <1>3, <1>4, <1>2
<1> QED BY <1>5 DEF r2, a

\* The slot after a slot: one further, or back to the start of the ring.
LEMMA ModSucc ==
  ASSUME NEW n \in Nat \ {0}, NEW a \in Nat
  PROVE  (a + 1) % n = IF (a % n) + 1 = n THEN 0 ELSE (a % n) + 1
<1> DEFINE q == a \div n r == a % n
<1>1. a = n * q + r /\ r \in 0..n-1 /\ q \in Nat BY DivMod
<1> HIDE DEF q, r
<1>2. CASE r + 1 = n
  <2>1. a + 1 = n * (q + 1) + 0 BY <1>1, <1>2
  <2>2. (n * (q + 1) + 0) % n = 0 BY ModUnique, <1>1
  <2> QED BY <2>1, <2>2, <1>2 DEF r
<1>3. CASE r + 1 # n
  <2>1. a + 1 = n * q + (r + 1) /\ r + 1 \in 0..n-1 BY <1>1, <1>3
  <2>2. (n * q + (r + 1)) % n = r + 1 BY <2>1, ModUnique, <1>1
  <2> QED BY <2>1, <2>2, <1>3 DEF r
<1> QED BY <1>2, <1>3

\* Two positions less than a ring length apart have different slots.
LEMMA ModDistinct ==
  ASSUME NEW n \in Nat \ {0}, NEW a \in Nat, NEW b \in Nat, a < b, b < a + n
  PROVE  a % n # b % n
<1> SUFFICES ASSUME a % n = b % n PROVE FALSE OBVIOUS
<1> DEFINE q == a \div n r == a % n q2 == b \div n
<1>1. a = n * q + r /\ r \in 0..n-1 /\ q \in Nat BY DivMod
<1>2. b = n * q2 + r /\ q2 \in Nat BY DivMod
<1> HIDE DEF q, r, q2
<1>3. b - a = n * (q2 - q) BY <1>1, <1>2
<1>4. CASE q2 - q >= 1
  <2>1. n * (q2 - q) >= n BY <1>4, <1>1, <1>2
  <2> QED BY <2>1, <1>3
<1>5. CASE q2 - q <= 0
  <2>1. n * (q2 - q) <= 0 BY <1>5, <1>1, <1>2
  <2> QED BY <2>1, <1>3
<1> QED BY <1>4, <1>5, <1>1, <1>2

\* Reducing a position before adding to it makes no difference.
LEMMA ModAdd ==
  ASSUME NEW n \in Nat \ {0}, NEW a \in Nat, NEW i \in Nat
  PROVE  ((a % n) + i) % n = (a + i) % n
<1> DEFINE q == a \div n r == a % n
<1>1. a = n * q + r /\ r \in 0..n-1 /\ q \in Nat BY DivMod
<1> HIDE DEF q, r
<1>2. r + i \in Nat BY <1>1
<1> DEFINE q2 == (r + i) \div n r2 == (r + i) % n
<1>3. r + i = n * q2 + r2 /\ r2 \in 0..n-1 /\ q2 \in Nat BY <1>2, DivMod
<1> HIDE DEF q2, r2
<1>4. a + i = n * (q + q2) + r2 BY <1>1, <1>3
<1>5. q + q2 \in Nat BY <1>1, <1>3
<1>6. (n * (q + q2) + r2) % n = r2 BY <1>3, <1>5, ModUnique
<1> QED BY <1>4, <1>6 DEF r, r2

\* A set of natural numbers that is not empty has a least member.
LEMMA LeastNat ==
  ASSUME NEW T \in SUBSET Nat, T # {}
  PROVE  \E n \in T : \A m \in T : n <= m
<1>1. \E n \in T : \A m \in T : ~(<<m, n>> \in OpToRel(<, Nat))
  BY NatLessThanWellFounded, WFMin, Zenon
<1>2. \A m, n \in Nat : m < n => <<m, n>> \in OpToRel(<, Nat)
  BY Zenon DEF OpToRel
<1>3. \E n \in T : \A m \in T : ~(m < n)
  BY <1>1, <1>2, Zenon
<1> QED
  BY <1>3

\* Removing an element from a finite set lowers its size by at most one,
\* adding a new one raises it by one: what a signal does to a wait set.
LEMMA SizeChange ==
  ASSUME NEW S, IsFiniteSet(S), NEW x
  PROVE  /\ Cardinality(S) \in Nat
         /\ Cardinality(S \ {x}) \in Nat
         /\ Cardinality(S \ {x}) >= Cardinality(S) - 1
         /\ x \notin S => Cardinality(S \cup {x}) = Cardinality(S) + 1
<1>1. Cardinality(S) \in Nat
  BY FS_CardinalityType
<1>2. Cardinality(S \ {x}) = IF x \in S THEN Cardinality(S) - 1 ELSE Cardinality(S)
  BY FS_RemoveElement
<1>3. IsFiniteSet(S \ {x}) /\ Cardinality(S \ {x}) \in Nat
  BY FS_RemoveElement, FS_CardinalityType
<1>4. Cardinality(S \cup {x}) = IF x \in S THEN Cardinality(S) ELSE Cardinality(S) + 1
  BY FS_AddElement
<1> QED
  BY <1>1, <1>2, <1>3, <1>4

=============================================================================
