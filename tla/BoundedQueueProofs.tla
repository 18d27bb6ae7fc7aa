------------------------- MODULE BoundedQueueProofs -------------------------
(***************************************************************************)
(* Proofs about BoundedQueue for every capacity and every finite set of    *)
(* threads.  The invariant IInv is inductive: TypeOK bounds the indices,   *)
(* RingConsistent ties them together, ClosedAwake is what NoLostWakeup     *)
(* needs once threads start to leave a closed queue.                       *)
(***************************************************************************)
EXTENDS BoundedQueue, ProofLemmas, SequenceTheorems

\* Append, element by element.
LEMMA AppendElements ==
  ASSUME NEW S, NEW s \in Seq(S), NEW v \in S
  PROVE  Append(s, v) = [i \in 1 .. Len(s) + 1 |-> IF i = Len(s) + 1 THEN v ELSE s[i]]
<1>1. Len(s) \in Nat /\ Append(s, v) \in Seq(S) /\ Len(Append(s, v)) = Len(s) + 1
  OBVIOUS
<1>2. DOMAIN Append(s, v) = 1 .. Len(s) + 1
  BY <1>1
<1>3. \A i \in 1 .. Len(s) + 1 : Append(s, v)[i] = IF i = Len(s) + 1 THEN v ELSE s[i]
  BY <1>1
<1>4. Append(s, v) \in [1 .. Len(s) + 1 -> S]
  BY <1>1, LenProperties
<1> QED
  BY <1>3, <1>4

\* Tail, element by element.
LEMMA TailElements ==
  ASSUME NEW S, NEW s \in Seq(S), s # <<>>
  PROVE  Tail(s) = [i \in 1 .. Len(s) - 1 |-> s[i + 1]]
<1>1. Tail(s) \in [1 .. Len(s) - 1 -> S]
  BY HeadTailProperties, LenProperties
<1>2. \A i \in 1 .. Len(s) - 1 : Tail(s)[i] = s[i + 1]
  BY HeadTailProperties
<1> QED
  BY <1>1, <1>2

Results == Values \cup {"none", "ok", "closed", "invalid"}

IInv == TypeOK /\ RingConsistent /\ ClosedAwake /\ NoLostWakeup

\* The slot after slot i is again a slot: one further, or slot 0.
LEMMA NextSlotValue ==
  ASSUME NEW i \in Slots
  PROVE  NextSlot(i) \in Slots /\ NextSlot(i) = IF i + 1 = Capacity THEN 0 ELSE i + 1
<1> USE CapacityAssumption DEF Slots
<1>1. i % Capacity = i
  BY ModSmall
<1>2. (i + 1) % Capacity = IF (i % Capacity) + 1 = Capacity THEN 0 ELSE (i % Capacity) + 1
  <2>1. i \in Nat
    OBVIOUS
  <2> QED
    BY <2>1, ModSucc
<1> QED
  BY <1>1, <1>2 DEF NextSlot

\* Leaving the monitor makes the caller idle and the chosen sleepers woken.
LEMMA ReturnEffect ==
  ASSUME TypeOK, NEW t \in Threads, NEW r \in Results, NEW W, Return(t, r, W)
  PROVE  /\ pc' = [u \in Threads |-> IF u = t THEN "idle" ELSE IF u \in W THEN "woken" ELSE pc[u]]
         /\ pc' \in [Threads -> {"idle", "wait", "woken"}]
         /\ result' \in [Threads -> Results]
  BY DEF TypeOK, Return, Wake, Results

\* An initialised queue is empty, open and has no sleeper.
LEMMA InitIInv == Init => IInv
<1> SUFFICES ASSUME Init PROVE IInv
  OBVIOUS
<1>1. 0 \in Slots /\ 0 \in 0 .. Capacity
  BY CapacityAssumption DEF Slots
<1>2. closed \in BOOLEAN
  BY DEF Init
<1>3. TypeOK
  BY <1>1, <1>2 DEF Init, TypeOK
<1>4. RingConsistent
  BY CapacityAssumption, ModSmall DEF Init, RingConsistent
<1>5. NotFull = {} /\ NotEmpty = {}
  BY DEF Init, NotFull, NotEmpty, Threads
<1> QED
  BY <1>3, <1>4, <1>5 DEF IInv, ClosedAwake, NoLostWakeup

\* Every call of the queue, and every wakeup, keeps the fields within bounds.
LEMMA TypeStep == TypeOK /\ [Next]_vars => TypeOK'
<1> SUFFICES ASSUME TypeOK, [Next]_vars PROVE TypeOK'
  OBVIOUS
<1> USE CapacityAssumption DEF TypeOK, queue, Results
<1>1. ASSUME NEW p \in Producers, NEW v \in Values, BqPush(p, v) PROVE TypeOK'
  <2>1. p \in Threads /\ arg' \in [Producers -> Values]
    BY <1>1 DEF BqPush, Threads
  <2>2. CASE PushBlocks /\ Block(p)
    BY <2>1, <2>2 DEF Block
  <2>3. CASE closed /\ Return(p, "closed", {}) /\ UNCHANGED queue
    BY <2>1, <2>3, ReturnEffect
  <2>4. CASE Enqueue(p, v)
    <3>1. data' \in [Slots -> Values] /\ head' \in Slots /\ tail' \in Slots /\ closed' \in BOOLEAN
      BY <2>4, NextSlotValue DEF Enqueue
    <3>2. count' \in 0 .. Capacity
      BY <2>4 DEF Enqueue, PushBlocks
    <3> QED
      BY <3>1, <3>2, <2>1, <2>4, ReturnEffect DEF Enqueue
  <2> QED
    BY <1>1, <2>2, <2>3, <2>4 DEF BqPush
<1>2. ASSUME NEW c \in Consumers, BqPop(c) PROVE TypeOK'
  <2>1. c \in Threads /\ arg' \in [Producers -> Values]
    BY <1>2 DEF BqPop, Threads
  <2>2. CASE PopBlocks /\ Block(c)
    BY <2>1, <2>2 DEF Block
  <2>3. CASE closed /\ count = 0 /\ Return(c, "closed", {}) /\ UNCHANGED queue
    BY <2>1, <2>3, ReturnEffect
  <2>4. CASE Dequeue(c)
    <3>1. tail' \in Slots /\ count' \in 0 .. Capacity /\ data[tail] \in Values
      BY <2>4, NextSlotValue DEF Dequeue
    <3> QED
      BY <3>1, <2>1, <2>4, ReturnEffect DEF Dequeue
  <2> QED
    BY <1>2, <2>2, <2>3, <2>4 DEF BqPop
<1>3. CASE BqClose
  BY <1>3 DEF BqClose
<1>4. ASSUME NEW t \in Threads, BqNull(t) \/ SpuriousWakeup(t) PROVE TypeOK'
  BY <1>4 DEF BqNull, SpuriousWakeup
<1>5. CASE UNCHANGED vars
  BY <1>5 DEF vars
<1> QED
  BY <1>1, <1>2, <1>3, <1>4, <1>5 DEF Next

\* Every call keeps head count slots ahead of tail: only a push moves head, only
\* a pop moves tail, and each changes count with it.
LEMMA RingStep == TypeOK /\ RingConsistent /\ [Next]_vars => RingConsistent'
<1> SUFFICES ASSUME TypeOK, RingConsistent, [Next]_vars PROVE RingConsistent'
  OBVIOUS
<1> USE CapacityAssumption
<1>t. head \in Slots /\ tail \in Slots /\ count \in 0 .. Capacity
  BY DEF TypeOK
<1>1. ASSUME NEW p \in Producers, NEW v \in Values, Enqueue(p, v) PROVE RingConsistent'
  <2>1. (tail + count + 1) % Capacity = IF head + 1 = Capacity THEN 0 ELSE head + 1
    <3>1. tail + count \in Nat
      BY <1>t DEF Slots
    <3> QED
      BY <3>1, ModSucc DEF RingConsistent
  <2> QED
    BY <1>1, <1>t, <2>1, NextSlotValue DEF Enqueue, RingConsistent, Slots
<1>2. ASSUME NEW c \in Consumers, Dequeue(c) PROVE RingConsistent'
  <2>1. CASE tail + 1 # Capacity
    BY <1>2, <1>t, <2>1, NextSlotValue DEF Dequeue, RingConsistent, Slots
  <2>2. CASE tail + 1 = Capacity
    <3>1. count - 1 \in 0 .. Capacity - 1
      BY <1>2, <1>t DEF Dequeue
    <3>2. (tail + count) % Capacity = count - 1
      BY <2>2, <3>1, <1>t, ModWrap DEF Slots
    <3>3. tail' = 0 /\ count' = count - 1 /\ head' = head
      BY <1>2, <2>2, <1>t, NextSlotValue DEF Dequeue
    <3> QED
      BY <3>1, <3>2, <3>3, ModSmall DEF RingConsistent
  <2> QED
    BY <2>1, <2>2
<1>3. CASE UNCHANGED queue
  BY <1>3 DEF queue, RingConsistent
<1>4. CASE UNCHANGED <<head, tail, count>>
  BY <1>4 DEF RingConsistent
<1> QED
  BY <1>1, <1>2, <1>3, <1>4
     DEF Next, vars, BqPush, BqPop, BqClose, BqNull, SpuriousWakeup, Block

\* No thread goes to sleep in a closed queue, and bq_close wakes all sleepers.
LEMMA AwakeStep == TypeOK /\ ClosedAwake /\ [Next]_vars => ClosedAwake'
<1> SUFFICES ASSUME TypeOK, ClosedAwake, [Next]_vars PROVE ClosedAwake'
  OBVIOUS
<1> USE DEF TypeOK, ClosedAwake, NotFull, NotEmpty, Threads
<1>1. ASSUME NEW t \in Threads, NEW r, NEW W, Return(t, r, W), closed' = closed PROVE ClosedAwake'
  BY <1>1 DEF Return, Wake
<1>2. ASSUME NEW t \in Threads, Block(t), ~closed PROVE ClosedAwake'
  BY <1>2 DEF Block, queue
<1>a. ASSUME NEW p \in Producers, NEW v \in Values, BqPush(p, v) PROVE ClosedAwake'
  BY <1>a, <1>1, <1>2 DEF BqPush, PushBlocks, Enqueue, queue
<1>b. ASSUME NEW c \in Consumers, BqPop(c) PROVE ClosedAwake'
  BY <1>b, <1>1, <1>2 DEF BqPop, PopBlocks, Dequeue, queue
<1>3. CASE BqClose
  BY <1>3 DEF BqClose
<1>4. ASSUME NEW t \in Threads, BqNull(t) \/ SpuriousWakeup(t) PROVE ClosedAwake'
  BY <1>4 DEF BqNull, SpuriousWakeup, queue
<1>5. CASE UNCHANGED vars
  BY <1>5 DEF vars, queue
<1> QED
  BY <1>a, <1>b, <1>3, <1>4, <1>5 DEF Next

\* The threads a queue has woken are finitely many, as the threads are.
LEMMA WokenFinite ==
  /\ IsFiniteSet(Woken(Producers)) /\ Cardinality(Woken(Producers)) \in Nat
  /\ IsFiniteSet(Woken(Consumers)) /\ Cardinality(Woken(Consumers)) \in Nat
  BY ThreadAssumption, FS_Subset, FS_CardinalityType DEF Woken

\* How the woken sets change when t leaves and W, sleepers of the other
\* condition, are woken; stated for either side of the queue.
LEMMA WokenAfterReturn ==
  ASSUME TypeOK, NEW t \in Threads, NEW r \in Results, NEW W, Return(t, r, W),
         NEW S \in SUBSET Threads
  PROVE  Woken(S)' = (Woken(S) \cup (W \cap S)) \ {t}
<1>1. pc' = [u \in Threads |-> IF u = t THEN "idle" ELSE IF u \in W THEN "woken" ELSE pc[u]]
  BY ReturnEffect
<1> QED
  BY <1>1 DEF Woken

\* Every call keeps enough threads awake for the values and the free slots: a
\* woken thread that uses one up leaves, and each push or pop signals for the
\* one it makes.
LEMMA WakeupStep == TypeOK /\ ClosedAwake /\ NoLostWakeup /\ [Next]_vars => NoLostWakeup'
<1> SUFFICES ASSUME TypeOK, ClosedAwake, NoLostWakeup, [Next]_vars PROVE NoLostWakeup'
  OBVIOUS
<1> DEFINE WP == Woken(Producers)
           WC == Woken(Consumers)
<1>t. count \in 0 .. Capacity /\ Capacity \in Nat /\ pc \in [Threads -> {"idle", "wait", "woken"}]
  BY CapacityAssumption DEF TypeOK
<1>f. /\ IsFiniteSet(WP) /\ IsFiniteSet(WC) /\ Cardinality(WP) \in Nat /\ Cardinality(WC) \in Nat
      /\ Producers \cap Consumers = {}
  BY WokenFinite, ThreadAssumption
<1>s. Producers \in SUBSET Threads /\ Consumers \in SUBSET Threads
  BY DEF Threads
<1>1. ASSUME NEW p \in Producers, NEW v \in Values, Enqueue(p, v) PROVE NoLostWakeup'
  <2>1. PICK W \in SignalChoices(NotEmpty) : Return(p, "ok", W)
    BY <1>1 DEF Enqueue
  <2>2. W \subseteq Consumers /\ W \cap Producers = {} /\ p \notin Consumers
    BY <2>1, <1>f DEF SignalChoices, NotEmpty
  <2>3. pc' = [u \in Threads |-> IF u = p THEN "idle" ELSE IF u \in W THEN "woken" ELSE pc[u]]
    BY <2>1, <1>s, ReturnEffect DEF Results
  <2>4. count' = count + 1
    BY <1>1 DEF Enqueue
  <2>5. WP' = WP \ {p} /\ WC' = WC \cup W
    <3>1. WP' = (WP \cup (W \cap Producers)) \ {p}
      BY <2>1, <1>s, WokenAfterReturn DEF Results
    <3>2. WC' = (WC \cup (W \cap Consumers)) \ {p}
      BY <2>1, <1>s, WokenAfterReturn DEF Results
    <3> QED
      BY <3>1, <3>2, <2>2 DEF Woken
  <2>6. NotEmpty' # {} => Cardinality(WC') >= count'
    <3> SUFFICES ASSUME NotEmpty' # {} PROVE Cardinality(WC') >= count'
      OBVIOUS
    <3>1. NotEmpty # {}
      BY <2>3, <2>2, <1>s, <1>t DEF NotEmpty
    <3>2. PICK w \in NotEmpty : W = {w}
      BY <2>1, <3>1 DEF SignalChoices
    <3>3. w \notin WC
      BY DEF NotEmpty, Woken
    <3>4. Cardinality(WC \cup {w}) = Cardinality(WC) + 1
      BY <3>3, <1>f, SizeChange
    <3> HIDE DEF WC
    <3> QED
      BY <3>1, <3>2, <3>4, <2>5, <2>4, <1>f, <1>t DEF NoLostWakeup, WC
  <2>7. NotFull' # {} => Cardinality(WP') >= Capacity - count'
    <3>1. NotFull' # {} => NotFull # {}
      BY <2>3, <2>2, <1>s, <1>t DEF NotFull
    <3>2. Cardinality(WP \ {p}) \in Nat /\ Cardinality(WP \ {p}) >= Cardinality(WP) - 1
      BY <1>f, SizeChange
    <3> QED
      BY <3>1, <3>2, <2>5, <2>4, <1>f, <1>t DEF NoLostWakeup
  <2> QED
    BY <2>6, <2>7 DEF NoLostWakeup
<1>2. ASSUME NEW c \in Consumers, Dequeue(c) PROVE NoLostWakeup'
  <2>1. PICK W \in SignalChoices(NotFull) : Return(c, data[tail], W)
    BY <1>2 DEF Dequeue
  <2>r. data[tail] \in Results
    BY DEF Results, TypeOK
  <2>2. W \subseteq Producers /\ W \cap Consumers = {} /\ c \notin Producers
    BY <2>1, <1>f DEF SignalChoices, NotFull
  <2>3. pc' = [u \in Threads |-> IF u = c THEN "idle" ELSE IF u \in W THEN "woken" ELSE pc[u]]
    BY <2>1, <2>r, <1>s, ReturnEffect
  <2>4. count' = count - 1 /\ count' \in Int
    BY <1>2, <1>t DEF Dequeue
  <2>5. WC' = WC \ {c} /\ WP' = WP \cup W
    <3>1. WC' = (WC \cup (W \cap Consumers)) \ {c}
      BY <2>1, <2>r, <1>s, WokenAfterReturn
    <3>2. WP' = (WP \cup (W \cap Producers)) \ {c}
      BY <2>1, <2>r, <1>s, WokenAfterReturn
    <3> QED
      BY <3>1, <3>2, <2>2 DEF Woken
  <2>6. NotFull' # {} => Cardinality(WP') >= Capacity - count'
    <3> SUFFICES ASSUME NotFull' # {} PROVE Cardinality(WP') >= Capacity - count'
      OBVIOUS
    <3>1. NotFull # {}
      BY <2>3, <2>2, <1>s, <1>t DEF NotFull
    <3>2. PICK w \in NotFull : W = {w}
      BY <2>1, <3>1 DEF SignalChoices
    <3>3. w \notin WP
      BY DEF NotFull, Woken
    <3>4. Cardinality(WP \cup {w}) = Cardinality(WP) + 1
      BY <3>3, <1>f, SizeChange
    <3> HIDE DEF WP
    <3> QED
      BY <3>1, <3>2, <3>4, <2>5, <2>4, <1>f, <1>t DEF NoLostWakeup, WP
  <2>7. NotEmpty' # {} => Cardinality(WC') >= count'
    <3>1. NotEmpty' # {} => NotEmpty # {}
      BY <2>3, <2>2, <1>s, <1>t DEF NotEmpty
    <3>2. Cardinality(WC \ {c}) \in Nat /\ Cardinality(WC \ {c}) >= Cardinality(WC) - 1
      BY <1>f, SizeChange
    <3> QED
      BY <3>1, <3>2, <2>5, <2>4, <1>f, <1>t DEF NoLostWakeup
  <2> QED
    BY <2>6, <2>7 DEF NoLostWakeup
<1>3. ASSUME NEW p \in Producers, PushBlocks, Block(p) PROVE NoLostWakeup'
  <2>1. WC' = WC /\ NotEmpty' = NotEmpty /\ count' = count /\ count = Capacity
    BY <1>3, <1>f, <1>s, <1>t DEF Block, queue, PushBlocks, Woken, NotEmpty
  <2>2. Cardinality(WP') \in Nat
    BY <1>f, <1>3, <1>s, <1>t, FS_Subset, FS_CardinalityType, ThreadAssumption DEF Woken
  <2> QED
    BY <2>1, <2>2, <1>t DEF NoLostWakeup
<1>4. ASSUME NEW c \in Consumers, PopBlocks, Block(c) PROVE NoLostWakeup'
  <2>1. WP' = WP /\ NotFull' = NotFull /\ count' = count /\ count = 0
    BY <1>4, <1>f, <1>s, <1>t DEF Block, queue, PopBlocks, Woken, NotFull
  <2>2. Cardinality(WC') \in Nat
    BY <1>f, <1>4, <1>s, <1>t, FS_Subset, FS_CardinalityType, ThreadAssumption DEF Woken
  <2> QED
    BY <2>1, <2>2, <1>t DEF NoLostWakeup
<1>5. ASSUME NEW t \in Threads, closed, Return(t, "closed", {}) PROVE NoLostWakeup'
  <2>1. NotFull = {} /\ NotEmpty = {}
    BY <1>5 DEF ClosedAwake
  <2>2. NotFull' = {} /\ NotEmpty' = {}
    <3>1. pc' = [u \in Threads |-> IF u = t THEN "idle" ELSE pc[u]]
      BY <1>5, <1>t DEF Return, Wake
    <3> QED
      BY <3>1, <2>1, <1>s, <1>t DEF NotFull, NotEmpty
  <2> QED
    BY <2>2 DEF NoLostWakeup
<1>6. CASE BqClose
  <2>1. NotFull' = {} /\ NotEmpty' = {}
    BY <1>6, <1>s, <1>t DEF BqClose, NotFull, NotEmpty
  <2> QED
    BY <2>1 DEF NoLostWakeup
<1>7. ASSUME NEW t \in Threads, SpuriousWakeup(t) PROVE NoLostWakeup'
  <2>1. NotFull' \subseteq NotFull /\ NotEmpty' \subseteq NotEmpty /\ count' = count
    BY <1>7, <1>s, <1>t DEF SpuriousWakeup, NotFull, NotEmpty, queue
  <2>2. Cardinality(WP') >= Cardinality(WP) /\ Cardinality(WP') \in Nat
    <3>1. WP' = WP \/ (t \notin WP /\ WP' = WP \cup {t})
      BY <1>7, <1>s, <1>t DEF SpuriousWakeup, Woken
    <3>2. t \notin WP => Cardinality(WP \cup {t}) = Cardinality(WP) + 1
      BY <1>f, SizeChange
    <3> QED
      BY <3>1, <3>2, <1>f
  <2>3. Cardinality(WC') >= Cardinality(WC) /\ Cardinality(WC') \in Nat
    <3>1. WC' = WC \/ (t \notin WC /\ WC' = WC \cup {t})
      BY <1>7, <1>s, <1>t DEF SpuriousWakeup, Woken
    <3>2. t \notin WC => Cardinality(WC \cup {t}) = Cardinality(WC) + 1
      BY <1>f, SizeChange
    <3> QED
      BY <3>1, <3>2, <1>f
  <2> HIDE DEF WP, WC
  <2> QED
    BY <2>1, <2>2, <2>3, <1>f, <1>t DEF NoLostWakeup, WP, WC
<1>8. CASE UNCHANGED <<pc, count>>
  BY <1>8 DEF NoLostWakeup, NotFull, NotEmpty, Woken
<1> QED
  BY <1>1, <1>2, <1>3, <1>4, <1>5, <1>6, <1>7, <1>8, <1>s
     DEF Next, vars, queue, BqPush, BqPop, BqNull

\* The four parts of the invariant are preserved together.
LEMMA IInvStep == IInv /\ [Next]_vars => IInv'
  BY TypeStep, RingStep, AwakeStep, WakeupStep DEF IInv

\* The inductive invariant holds in every reachable state.
LEMMA IInvHolds == Spec => []IInv
  BY InitIInv, IInvStep, PTL DEF Spec

\* The fields of struct blocking_queue stay within their bounds.
THEOREM TypeCorrect == Spec => []TypeOK
  BY IInvHolds, PTL DEF IInv

\* head, tail and count agree in every reachable state, for every capacity.
THEOREM RingCorrect == Spec => []RingConsistent
  BY IInvHolds, PTL DEF IInv

\* One signal per operation loses no wakeup, however many threads there are.
THEOREM WakeupCorrect == Spec => []NoLostWakeup
  BY IInvHolds, PTL DEF IInv

\* The stored values form a sequence of length count.
LEMMA ContentsSeq ==
  ASSUME TypeOK
  PROVE  Contents \in Seq(Values) /\ Len(Contents) = count /\ count \in Nat
<1>1. ASSUME NEW i \in 1 .. count PROVE data[(tail + i - 1) % Capacity] \in Values
  <2>1. tail + i - 1 \in Nat
    BY DEF TypeOK, Slots
  <2>2. (tail + i - 1) % Capacity \in Slots
    BY <2>1, CapacityAssumption, DivMod DEF Slots
  <2> QED
    BY <2>2 DEF TypeOK
<1>2. count \in Nat
  BY CapacityAssumption DEF TypeOK
<1> QED
  BY <1>1, <1>2 DEF Contents

\* A successful bq_push appends to the stored values.
LEMMA EnqueueAppends ==
  ASSUME TypeOK, RingConsistent, NEW p \in Producers, NEW v \in Values, Enqueue(p, v)
  PROVE  Contents' = Append(Contents, v) /\ count < Capacity
<1> USE CapacityAssumption
<1>t. head \in Slots /\ tail \in Nat /\ count \in Nat /\ data \in [Slots -> Values] /\ head = (tail + count) % Capacity
  BY DEF TypeOK, Slots, RingConsistent
<1>1. count < Capacity /\ count' = count + 1 /\ tail' = tail /\ data' = [data EXCEPT ![head] = v]
  BY DEF Enqueue, PushBlocks, TypeOK
<1>2. ASSUME NEW i \in 1 .. count PROVE data'[(tail + i - 1) % Capacity] = data[(tail + i - 1) % Capacity]
  <2>1. tail + i - 1 \in Nat /\ tail + i - 1 < tail + count /\ tail + count < tail + i - 1 + Capacity /\ tail + count \in Nat
    BY <1>t, <1>1
  <2>2. (tail + i - 1) % Capacity # head
    BY <2>1, <1>t, ModDistinct
  <2> QED
    BY <2>2, <1>1, <1>t
<1>3. data'[(tail + (count + 1) - 1) % Capacity] = v
  BY <1>t, <1>1
<1>4. Contents' = [i \in 1 .. count + 1 |-> data'[(tail + i - 1) % Capacity]]
  BY <1>1 DEF Contents
<1>5. Append(Contents, v) = [i \in 1 .. count + 1 |-> IF i = count + 1 THEN v ELSE Contents[i]]
  BY ContentsSeq, AppendElements
<1>6. ASSUME NEW i \in 1 .. count + 1
      PROVE  data'[(tail + i - 1) % Capacity] = IF i = count + 1 THEN v ELSE Contents[i]
  <2>1. CASE i = count + 1
    BY <2>1, <1>3
  <2>2. CASE i # count + 1
    <3>1. i \in 1 .. count
      BY <2>2, <1>t
    <3> QED
      BY <3>1, <2>2, <1>2 DEF Contents
  <2> QED
    BY <2>1, <2>2
<1> QED
  BY <1>1, <1>4, <1>5, <1>6

\* A successful bq_pop removes the oldest stored value and returns it.
LEMMA DequeueTakesHead ==
  ASSUME TypeOK, NEW c \in Consumers, Dequeue(c)
  PROVE  Contents # <<>> /\ Contents' = Tail(Contents) /\ Head(Contents) = data[tail]
<1> USE CapacityAssumption
<1>t. tail \in Slots /\ tail \in Nat /\ count \in Nat \ {0} /\ count <= Capacity
  BY DEF TypeOK, Slots, Dequeue
<1>1. count' = count - 1 /\ tail' = NextSlot(tail) /\ data' = data
  BY DEF Dequeue
<1>2. ASSUME NEW i \in 1 .. count - 1 PROVE (NextSlot(tail) + i - 1) % Capacity = (tail + i) % Capacity
  <2>1. CASE tail + 1 # Capacity
    BY <2>1, <1>t, NextSlotValue
  <2>2. CASE tail + 1 = Capacity
    <3>1. NextSlot(tail) = 0 /\ i - 1 \in 0 .. Capacity - 1 /\ tail + i \in Capacity .. 2 * Capacity - 1
      BY <2>2, <1>t, NextSlotValue
    <3>2. (i - 1) % Capacity = i - 1
      BY <3>1, ModSmall
    <3> DEFINE a == tail + i
    <3>a. a \in Capacity .. 2 * Capacity - 1
      BY <3>1
    <3> HIDE DEF a
    <3>3. a % Capacity = a - Capacity
      BY <3>a, ModWrap
    <3> QED
      BY <3>1, <3>2, <3>3, <2>2, <1>t DEF a
  <2> QED
    BY <2>1, <2>2
<1>3. tail % Capacity = tail
  BY <1>t, ModSmall DEF Slots
<1>4. Head(Contents) = data[tail] /\ Contents # <<>>
  BY <1>3, <1>t, ContentsSeq DEF Contents
<1>5. Tail(Contents) = [i \in 1 .. count - 1 |-> Contents[i + 1]]
  BY <1>4, ContentsSeq, TailElements
<1>6. Contents' = [i \in 1 .. count - 1 |-> data[(NextSlot(tail) + i - 1) % Capacity]]
  BY <1>1 DEF Contents
<1>7. ASSUME NEW i \in 1 .. count - 1
      PROVE  data[(NextSlot(tail) + i - 1) % Capacity] = Contents[i + 1]
  BY <1>2, <1>t DEF Contents
<1> QED
  BY <1>4, <1>5, <1>6, <1>7

\* The blocking queue implements the abstract bounded FIFO queue: its steps
\* are pushes, pops, refusals and closings of the stored sequence, or leave
\* everything a caller can see unchanged (a wait, a wakeup).
THEOREM FifoRefinement == Spec => ImplementsFifo
<1>1. Init => Fifo!Init
  <2> SUFFICES ASSUME Init PROVE Fifo!Init
    OBVIOUS
  <2>1. Contents = <<>>
    BY DEF Init, Contents
  <2> QED
    BY <2>1 DEF Init, Fifo!Init, Threads
<1>2. IInv /\ [Next]_vars => [Fifo!Next]_(Fifo!vars)
  <2> SUFFICES ASSUME TypeOK, RingConsistent, [Next]_vars
               PROVE  [Fifo!Next]_(Fifo!vars)
    BY DEF IInv
  <2> USE DEF Threads
  <2>k. UNCHANGED queue => Contents' = Contents /\ closed' = closed
    BY DEF queue, Contents
  <2>1. ASSUME NEW p \in Producers, NEW v \in Values, Enqueue(p, v) PROVE Fifo!Next
    <3>1. Contents' = Append(Contents, v) /\ Len(Contents) < Capacity
      BY <2>1, EnqueueAppends, ContentsSeq
    <3>2. ~closed /\ closed' = closed /\ result' = [result EXCEPT ![p] = "ok"]
      BY <2>1 DEF Enqueue, Return
    <3>3. Fifo!Push(p, v)
      BY <3>1, <3>2 DEF Fifo!Push, Fifo!Answer
    <3> QED
      BY <3>3 DEF Fifo!Next
  <2>2. ASSUME NEW c \in Consumers, Dequeue(c) PROVE Fifo!Next
    <3>1. Contents # <<>> /\ Contents' = Tail(Contents) /\ Head(Contents) = data[tail]
      BY <2>2, DequeueTakesHead
    <3>2. closed' = closed /\ result' = [result EXCEPT ![c] = data[tail]]
      BY <2>2 DEF Dequeue, Return
    <3>3. Fifo!Pop(c)
      BY <3>1, <3>2 DEF Fifo!Pop, Fifo!Answer
    <3> QED
      BY <3>3 DEF Fifo!Next
  <2>3. ASSUME NEW t \in Threads, UNCHANGED <<queue, result>> PROVE UNCHANGED Fifo!vars
    BY <2>3, <2>k DEF Fifo!vars
  <2>4. ASSUME NEW p \in Producers, closed, Return(p, "closed", {}), UNCHANGED queue PROVE Fifo!Next
    <3>1. Fifo!Refuse(p)
      BY <2>4, <2>k DEF Fifo!Refuse, Fifo!Answer, Return
    <3> QED
      BY <3>1 DEF Fifo!Next
  <2>5. ASSUME NEW c \in Consumers, closed, count = 0, Return(c, "closed", {}), UNCHANGED queue
        PROVE  Fifo!Next
    <3>1. Contents = <<>>
      BY <2>5 DEF Contents
    <3>2. Fifo!Refuse(c)
      BY <2>5, <2>k, <3>1 DEF Fifo!Refuse, Fifo!Answer, Return
    <3> QED
      BY <3>2 DEF Fifo!Next
  <2>6. CASE BqClose
    <3>1. Contents' = Contents
      BY <2>6 DEF BqClose, Contents
    <3>2. Fifo!Close
      BY <2>6, <3>1 DEF BqClose, Fifo!Close
    <3> QED
      BY <3>2 DEF Fifo!Next
  <2>7. ASSUME NEW t \in Threads, BqNull(t) PROVE Fifo!Next
    <3>1. Fifo!Refuse(t)
      BY <2>7, <2>k DEF BqNull, Fifo!Refuse, Fifo!Answer
    <3> QED
      BY <3>1 DEF Fifo!Next
  <2>8. ASSUME NEW t \in Threads, SpuriousWakeup(t) PROVE UNCHANGED Fifo!vars
    BY <2>8, <2>3 DEF SpuriousWakeup
  <2>9. ASSUME NEW p \in Producers, NEW v \in Values, BqPush(p, v) PROVE [Fifo!Next]_(Fifo!vars)
    BY <2>9, <2>1, <2>3, <2>4 DEF BqPush, Block
  <2>10. ASSUME NEW c \in Consumers, BqPop(c) PROVE [Fifo!Next]_(Fifo!vars)
    BY <2>10, <2>2, <2>3, <2>5 DEF BqPop, Block
  <2>11. CASE UNCHANGED vars
    BY <2>11, <2>k DEF vars, Fifo!vars
  <2> QED
    BY <2>6, <2>7, <2>8, <2>9, <2>10, <2>11 DEF Next
<1> QED
  BY <1>1, <1>2, IInvHolds, PTL DEF Spec, ImplementsFifo, Fifo!Spec
=============================================================================
