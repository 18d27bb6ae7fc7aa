------------------------------ MODULE Services ------------------------------
(***************************************************************************)
(* The services that threads share, one instance of each component over    *)
(* the variables of the suite, and after each instance the inductive       *)
(* invariant of the component and the lemmas about its steps.  The thread  *)
(* pool's are in its own module; the bounded queue has its own proofs.     *)
(***************************************************************************)
EXTENDS Integers, Sequences, ProofLemmas

CONSTANTS Users, Clients, Servers, Callbacks, Topics, Commands, NoThread,
          STAT_COUNT, MAX, Deltas, MaxAdds,  \* of the statistics table
          MAX_SUBS, MaxEvents,               \* of the dispatcher
          Cap, Capacity, TP_CAP, MaxJobs     \* of the pools and the queue

VARIABLES program,           \* the one of them that runs
          counters, readers, writer, pc, k, out, total, adds, subs, mu, stack,
          events, ret, in_use, closed, available, holds, state, inflight,
          running, reset, data, head, tail, count, arg, result, active, curr,
          calls, num_readers, locked

PS == INSTANCE PubSub WITH Threads <- Users
ASSUME PubSubAssumption == PS!DispatcherAssumption

\* The dispatcher: every slot of the table has a subscriber's fields.
SubsOK == subs \in [PS!Slots -> PS!Subscriber]

\* The table starts cleared.
LEMMA SubsInit == ASSUME PS!DispatcherAssumption, PS!Init PROVE SubsOK
<1>1. PS!Blank \in PS!Subscriber
  BY DEF PS!DispatcherAssumption, PS!Blank, PS!Subscriber
<1> QED
  BY <1>1 DEF PS!Init, SubsOK

\* subscribe fills a slot that is free, unsubscribe only clears the active flag,
\* and publish leaves the table alone.
LEMMA SubsStep ==
  ASSUME SubsOK, [PS!Next]_(PS!vars)
  PROVE  SubsOK' /\ PS!NoneOverwritten
<1>1. ASSUME NEW t \in Users, NEW topic \in Topics, NEW c \in Callbacks, PS!subscribe(t, topic, c)
      PROVE  SubsOK' /\ PS!NoneOverwritten
  <2>1. CASE UNCHANGED subs
    BY <2>1 DEF SubsOK, PS!NoneOverwritten
  <2>2. ASSUME NEW s \in PS!Slots, ~subs[s].active,
               subs' = [subs EXCEPT ![s] = [active |-> TRUE, topic |-> topic, cb |-> c]]
        PROVE  SubsOK' /\ PS!NoneOverwritten
    BY <2>2 DEF SubsOK, PS!Subscriber, PS!NoneOverwritten
  <2> QED
    BY <1>1, <2>1, <2>2 DEF PS!subscribe, PS!FirstFree
<1>2. ASSUME NEW t \in Users, NEW c \in Callbacks, PS!unsubscribe(t, c)
      PROVE  SubsOK' /\ PS!NoneOverwritten
  <2>1. \A s \in PS!Slots : [subs[s] EXCEPT !.active = FALSE] \in PS!Subscriber
                         /\ ~[subs[s] EXCEPT !.active = FALSE].active
    BY Zenon DEF SubsOK, PS!Subscriber
  <2>2. \A s \in PS!Slots : \/ subs'[s] = subs[s]
                         \/ subs'[s] = [subs[s] EXCEPT !.active = FALSE]
    BY <1>2 DEF PS!unsubscribe
  <2>3. subs' = [s \in PS!Slots |-> subs'[s]]
    BY <1>2 DEF PS!unsubscribe
  <2>4. SubsOK'
    BY <2>1, <2>2, <2>3 DEF SubsOK
  <2> QED
    BY <2>1, <2>2, <2>4, Zenon DEF PS!NoneOverwritten
<1>3. CASE UNCHANGED subs
  BY <1>3 DEF SubsOK, PS!NoneOverwritten
<1> QED
  BY <1>1, <1>2, <1>3, Zenon DEF PS!Next, PS!Calls, PS!publish, PS!Step, PS!CopyMatching, PS!Invoke, PS!Return, PS!vars

\* What a publish owes is active and of its topic, and, once it has copied the
\* callbacks, among the copies it has still to call.
CallOK(table, call) ==
  /\ call \in PS!Call
  /\ \A s \in call.owed : table[s].active /\ table[s].topic = call.topic
  /\ call.at = "lock" => DOMAIN call.cbs = {}
  /\ call.at # "lock" => \A s \in call.owed : s \in DOMAIN call.cbs /\ call.cbs[s] = table[s].cb
CallsOK(table, calls_of) == \A n \in 1 .. Len(calls_of) : CallOK(table, calls_of[n])
StackOK == /\ mu = NoThread /\ stack \in [Users -> Seq(PS!Call)]
           /\ \A t \in Users : CallsOK(subs, stack[t])

\* A sequence by its elements.
LEMMA Elements ==
  ASSUME NEW S, NEW q \in Seq(S)
  PROVE  Len(q) \in Nat /\ DOMAIN q = 1 .. Len(q) /\ \A n \in 1 .. Len(q) : q[n] \in S
  OBVIOUS

\* A call in front of the others.
LEMMA PushElements ==
  ASSUME NEW S, NEW q \in Seq(S), NEW x \in S
  PROVE  /\ <<x>> \o q \in Seq(S) /\ Len(<<x>> \o q) = Len(q) + 1
         /\ \A n \in 1 .. Len(q) + 1 : (<<x>> \o q)[n] = IF n = 1 THEN x ELSE q[n - 1]
  OBVIOUS

\* The others, without the first.
LEMMA PopElements ==
  ASSUME NEW S, NEW q \in Seq(S), q # <<>>
  PROVE  /\ Len(q) \in Nat \ {0} /\ Head(q) = q[1] /\ Tail(q) \in Seq(S) /\ Len(Tail(q)) = Len(q) - 1
         /\ \A n \in 1 .. Len(q) - 1 : Tail(q)[n] = q[n + 1]
  OBVIOUS

\* Another first element.
LEMMA SetFirst ==
  ASSUME NEW S, NEW q \in Seq(S), q # <<>>, NEW x \in S
  PROVE  /\ [q EXCEPT ![1] = x] \in Seq(S) /\ Len([q EXCEPT ![1] = x]) = Len(q)
         /\ \A n \in 1 .. Len(q) : [q EXCEPT ![1] = x][n] = IF n = 1 THEN x ELSE q[n]
  OBVIOUS

\* A sequence from its elements.
LEMMA FromElements ==
  ASSUME NEW S, NEW size \in Nat, NEW f, f = [n \in 1 .. size |-> f[n]],
         \A n \in 1 .. size : f[n] \in S
  PROVE  f \in Seq(S) /\ Len(f) = size
  OBVIOUS

\* A step that leaves the table alone and the calls of the other threads, and
\* gives this one calls that are in order, keeps them all in order.
LEMMA StackChange ==
  ASSUME StackOK, NEW t \in Users, NEW q \in Seq(PS!Call), stack' = [stack EXCEPT ![t] = q],
         UNCHANGED subs, mu' = NoThread, CallsOK(subs, q)
  PROVE  StackOK'
<1>1. stack' \in [Users -> Seq(PS!Call)] /\ \A u \in Users : stack'[u] = IF u = t THEN q ELSE stack[u]
  BY DEF StackOK
<1>2. \A u \in Users : CallsOK(subs, stack'[u])
  BY <1>1 DEF StackOK
<1> QED
  BY <1>1, <1>2, Zenon DEF StackOK, PS!Call, PS!Slots

\* publish starts a call that owes every match of the table.
LEMMA PublishStep ==
  ASSUME StackOK, SubsOK, NEW t \in Users, NEW topic \in Topics, PS!publish(t, topic)
  PROVE  StackOK'
<1> DEFINE x == [topic |-> topic, at |-> "lock", owed |-> PS!Matching(topic), cbs |-> <<>>]
           q == <<x>> \o stack[t]
<1>1. x \in PS!Call
  <2>1. <<>> \in [{} -> Callbacks]
    OBVIOUS
  <2>2. <<>> \in UNION {[S -> Callbacks] : S \in SUBSET PS!Slots}
    BY <2>1, Zenon
  <2> QED
    BY <2>2, Zenon DEF PS!Call, PS!Matching
<1>2. CallOK(subs, x)
  BY <1>1 DEF CallOK, PS!Matching
<1>3. q \in Seq(PS!Call) /\ CallsOK(subs, q)
  BY <1>1, <1>2, PushElements, Elements DEF StackOK, CallsOK
<1> QED
  BY <1>3, StackChange DEF PS!publish, StackOK

\* The copy holds the callback of everyone owed.
LEMMA CopyStep ==
  ASSUME StackOK, SubsOK, NEW t \in Users, PS!CopyMatching(t)
  PROVE  StackOK'
<1> DEFINE call == Head(stack[t])
           x == [call EXCEPT !.at = "copied", !.cbs = PS!Matches(call.topic)]
           q == [stack[t] EXCEPT ![1] = x]
<1>1. stack[t] \in Seq(PS!Call) /\ stack[t] # <<>> /\ CallsOK(subs, stack[t])
  BY DEF StackOK, PS!CopyMatching
<1>2. call = stack[t][1] /\ CallOK(subs, call)
  BY <1>1, PopElements DEF CallsOK
<1>3. PS!Matches(call.topic) \in [PS!Matching(call.topic) -> Callbacks]
  BY DEF PS!Matches, PS!LastSlot, PS!Matching, PS!Slots, SubsOK, PS!Subscriber
<1>4. PS!Matches(call.topic) \in UNION {[S -> Callbacks] : S \in SUBSET PS!Slots}
  BY <1>3, Zenon DEF PS!Matching
<1>5. x \in PS!Call
  BY <1>2, <1>4, Zenon DEF CallOK, PS!Call
<1>6. \A s \in call.owed : s \in PS!Matching(call.topic) /\ PS!Matches(call.topic)[s] = subs[s].cb
  BY <1>2 DEF CallOK, PS!Call, PS!Matches, PS!Matching, PS!LastSlot, PS!Slots
<1>7. CallOK(subs, x)
  BY <1>2, <1>3, <1>5, <1>6, Zenon DEF CallOK, PS!Call
<1>8. q \in Seq(PS!Call) /\ CallsOK(subs, q)
  BY <1>1, <1>5, <1>7, SetFirst DEF CallsOK
<1> QED
  BY <1>8, StackChange DEF PS!CopyMatching, PS!Unlocked, StackOK

\* A copy that is called is owed no more: who is owed has it still to come.
LEMMA InvokeStep ==
  ASSUME StackOK, SubsOK, NEW t \in Users, PS!Invoke(t)
  PROVE  StackOK'
<1> DEFINE call == Head(stack[t])
<1>1. PICK s \in DOMAIN call.cbs : stack' = [stack EXCEPT ![t][1] =
            [call EXCEPT !.at = "calls", !.cbs = PS!Restrict(@, DOMAIN @ \ {s}),
                         !.owed = IF subs[s].cb = call.cbs[s] THEN @ \ {s} ELSE @]]
  BY Zenon DEF PS!Invoke
<1> DEFINE rest == PS!Restrict(call.cbs, DOMAIN call.cbs \ {s})
           due == IF subs[s].cb = call.cbs[s] THEN call.owed \ {s} ELSE call.owed
           x == [call EXCEPT !.at = "calls", !.cbs = rest, !.owed = due]
           q == [stack[t] EXCEPT ![1] = x]
<1>2. stack[t] \in Seq(PS!Call) /\ stack[t] # <<>> /\ CallsOK(subs, stack[t])
  BY DEF StackOK, PS!Invoke
<1>3. call = stack[t][1] /\ CallOK(subs, call)
  BY <1>2, PopElements DEF CallsOK
<1>4. PICK D \in SUBSET PS!Slots : call.cbs \in [D -> Callbacks]
  BY <1>3 DEF CallOK, PS!Call
<1>5. rest \in [D \ {s} -> Callbacks] /\ \A r \in D \ {s} : rest[r] = call.cbs[r]
  BY <1>4 DEF PS!Restrict
<1>6. rest \in UNION {[S -> Callbacks] : S \in SUBSET PS!Slots}
  BY <1>4, <1>5, Zenon
<1>7. x \in PS!Call
  BY <1>3, <1>6, Zenon DEF CallOK, PS!Call
<1>8. x.topic = call.topic /\ x.at = "calls" /\ x.cbs = rest /\ x.owed = due
  BY <1>3 DEF CallOK, PS!Call
<1>9. CallOK(subs, x)
  <2>1. \A r \in due : r \in call.owed /\ r \in D /\ call.cbs[r] = subs[r].cb /\ r # s
    BY <1>3, <1>4 DEF CallOK
  <2> HIDE DEF x, rest, due
  <2> QED
    BY <1>3, <1>5, <1>7, <1>8, <2>1 DEF CallOK
<1>10. q \in Seq(PS!Call) /\ CallsOK(subs, q)
  BY <1>2, <1>7, <1>9, SetFirst DEF CallsOK
<1> QED
  BY <1>1, <1>10, StackChange, Zenon DEF PS!Invoke, StackOK

\* A publish that has called all its copies leaves the calls around it as they are.
LEMMA ReturnStep ==
  ASSUME StackOK, NEW t \in Users, PS!Return(t)
  PROVE  StackOK'
<1>1. stack[t] \in Seq(PS!Call) /\ stack[t] # <<>> /\ CallsOK(subs, stack[t])
  BY DEF StackOK, PS!Return
<1>2. Tail(stack[t]) \in Seq(PS!Call) /\ CallsOK(subs, Tail(stack[t]))
  BY <1>1, PopElements DEF CallsOK
<1> QED
  BY <1>2, StackChange DEF PS!Return, StackOK

\* subscribe takes a slot nobody is owed.
LEMMA SubscribeStep ==
  ASSUME StackOK, SubsOK, NEW t \in Users, NEW topic \in Topics, NEW c \in Callbacks, PS!subscribe(t, topic, c)
  PROVE  StackOK'
<1>1. \A s \in PS!Slots : subs[s].active => subs'[s] = subs[s]
  BY DEF PS!subscribe, PS!FirstFree, SubsOK
<1>2. ASSUME NEW call, CallOK(subs, call) PROVE CallOK(subs', call)
  BY <1>1, <1>2 DEF CallOK, PS!Call
<1>3. \A u \in Users : CallsOK(subs', stack[u])
  BY <1>2 DEF StackOK, CallsOK
<1> QED
  BY <1>3, Zenon DEF StackOK, PS!subscribe, PS!Call, PS!Slots

\* unsubscribe ends what is owed for the slots it clears.
LEMMA UnsubscribeStep ==
  ASSUME StackOK, SubsOK, NEW t \in Users, NEW c \in Callbacks, PS!unsubscribe(t, c)
  PROVE  StackOK'
<1> DEFINE gone == {s \in PS!Slots : subs[s].active /\ subs[s].cb = c}
           Lapse(call) == [call EXCEPT !.owed = @ \ gone]
<1>1. \A s \in PS!Slots \ gone : subs'[s] = subs[s]
  BY DEF PS!unsubscribe
<1>2. ASSUME NEW call, CallOK(subs, call) PROVE CallOK(subs', Lapse(call))
  <2>1. Lapse(call) \in PS!Call /\ Lapse(call).owed = call.owed \ gone
    BY <1>2 DEF CallOK, PS!Call
  <2>2. Lapse(call).topic = call.topic /\ Lapse(call).at = call.at /\ Lapse(call).cbs = call.cbs
    BY <1>2 DEF CallOK, PS!Call
  <2>3. \A s \in call.owed \ gone : subs'[s] = subs[s]
    BY <1>1, <1>2 DEF CallOK, PS!Call
  <2> HIDE DEF Lapse, gone
  <2> QED
    BY <1>2, <2>1, <2>2, <2>3 DEF CallOK
<1>3. stack' = [u \in Users |-> [n \in DOMAIN stack[u] |-> Lapse(stack[u][n])]]
  BY DEF PS!unsubscribe
<1> HIDE DEF Lapse
<1>4. ASSUME NEW u \in Users PROVE stack'[u] \in Seq(PS!Call) /\ CallsOK(subs', stack'[u])
  <2>1. stack[u] \in Seq(PS!Call) /\ CallsOK(subs, stack[u])
    BY DEF StackOK
  <2>2. Len(stack[u]) \in Nat /\ DOMAIN stack[u] = 1 .. Len(stack[u])
    BY <2>1, Elements
  <2>3. stack'[u] = [n \in 1 .. Len(stack[u]) |-> Lapse(stack[u][n])]
    BY <1>3, <2>2
  <2>4. \A n \in 1 .. Len(stack[u]) : CallOK(subs', stack'[u][n])
    BY <1>2, <2>1, <2>3 DEF CallsOK
  <2>5. \A n \in 1 .. Len(stack[u]) : stack'[u][n] \in PS!Call
    BY <2>4 DEF CallOK
  <2>6. stack'[u] = [n \in 1 .. Len(stack[u]) |-> stack'[u][n]]
    BY <2>3
  <2>7. stack'[u] \in Seq(PS!Call) /\ Len(stack'[u]) = Len(stack[u])
    BY <2>2, <2>5, <2>6, FromElements, Zenon
  <2> QED
    BY <2>4, <2>7 DEF CallsOK
<1>5. stack' \in [Users -> Seq(PS!Call)]
  BY <1>3, <1>4
<1> QED
  BY <1>4, <1>5, Zenon DEF StackOK, PS!unsubscribe, PS!Call, PS!Slots

\* Every operation keeps the calls in order, whoever makes it.
LEMMA CallStep ==
  ASSUME StackOK, SubsOK, [PS!Next]_(PS!vars)
  PROVE  StackOK'
<1>1. CASE UNCHANGED PS!vars
  BY <1>1 DEF PS!vars, StackOK, PS!Call, PS!Slots
<1>2. CASE PS!Next
  BY <1>2, PublishStep, CopyStep, InvokeStep, ReturnStep, SubscribeStep, UnsubscribeStep
     DEF PS!Next, PS!Calls, PS!Step
<1> QED
  BY <1>1, <1>2

\* No call is running yet.
LEMMA CallInit == ASSUME PS!Init PROVE StackOK
  BY DEF PS!Init, StackOK, CallsOK

\* Calls in order miss nobody, and no callback is locked out.
LEMMA CallsAreSound ==
  ASSUME StackOK, PS!DispatcherAssumption
  PROVE  PS!NoneMissed /\ PS!CallbacksMayCall
<1>1. PS!CallbacksMayCall
  BY DEF StackOK, PS!DispatcherAssumption, PS!CallbacksMayCall
<1>2. ASSUME NEW t \in Users, NEW n \in DOMAIN stack[t], PS!Done(stack[t][n])
      PROVE  stack[t][n].owed = {}
  <2>1. CallOK(subs, stack[t][n])
    BY Elements DEF StackOK, CallsOK
  <2> QED
    BY <1>2, <2>1 DEF PS!Done, CallOK
<1> QED
  BY <1>1, <1>2, Zenon DEF PS!NoneMissed

RP == INSTANCE ResourcePool WITH Threads <- Clients, Foreign <- {}
ASSUME ResourcePoolAssumption == RP!PoolAssumption

\* The resource pool: an entry is in use exactly when some client holds it, and
\* the mutex is free between two steps.
PoolIInv ==
  /\ RP!TypeOK /\ mu = "free" /\ RP!PermitsMatchFree /\ RP!ExclusiveUse
  /\ \A s \in RP!Slots : in_use[s] <=> \E t \in Clients : s \in holds[t]

\* The clients between the semaphore and the table.
InTransit == {t \in Clients : pc[t] \in {"lock", "repost", "post"}}

\* The instance of FiniteSets inside the component is the one used here.
LEMMA PoolSizes == \A S : RP!Cardinality(S) = Cardinality(S) /\ (RP!IsFiniteSet(S) <=> IsFiniteSet(S))
  BY DEF RP!Cardinality, Cardinality, RP!IsFiniteSet, IsFiniteSet

\* What the constants of the pool are.
LEMMA PoolConstants == IsFiniteSet(Clients) /\ Cap \in Nat /\ "free" \notin Clients
<1>1. RP!PoolAssumption
  BY ResourcePoolAssumption
<1>2. IsFiniteSet(Clients) /\ "free" \notin Clients
  BY <1>1, PoolSizes, Zenon DEF RP!PoolAssumption
<1>3. Cap \in Nat
  BY <1>1 DEF RP!PoolAssumption
<1> QED
  BY <1>2, <1>3

\* The free entries and the clients in transit are finitely many.
LEMMA PoolSets ==
  /\ IsFiniteSet(InTransit) /\ IsFiniteSet(RP!Free)
  /\ Cardinality(InTransit) \in Nat /\ Cardinality(RP!Free) \in Nat
<1>1. IsFiniteSet(InTransit)
  BY PoolConstants, FS_Subset DEF InTransit
<1>2. IsFiniteSet(RP!Slots)
  BY PoolConstants, FS_Interval DEF RP!Slots
<1>3. IsFiniteSet(RP!Free)
  BY <1>2, FS_Subset DEF RP!Free
<1> QED
  BY <1>1, <1>3, FS_CardinalityType

\* The facts of the invariant, one by one.
LEMMA PoolFacts ==
  ASSUME PoolIInv
  PROVE  /\ in_use \in [RP!Slots -> BOOLEAN] /\ holds \in [Clients -> SUBSET RP!Slots]
         /\ pc \in [Clients -> {"idle", "wait", "lock", "repost", "post", "stopped"}]
         /\ available \in Nat
         /\ available + Cardinality(InTransit) = Cardinality(RP!Free)
<1>1. available + Cardinality(InTransit) = Cardinality(RP!Free)
  BY PoolSizes DEF PoolIInv, RP!PermitsMatchFree, InTransit
<1> QED
  BY <1>1 DEF PoolIInv, RP!TypeOK

\* A client past sem_wait finds a free entry.
LEMMA FreeIdxFree ==
  ASSUME PoolIInv, NEW t \in Clients, pc[t] = "lock"
  PROVE  RP!FreeIdx \in RP!Free
<1>1. t \in InTransit
  BY DEF InTransit
<1>2. Cardinality(InTransit) # 0
  BY <1>1, PoolSets, FS_EmptySet
<1>3. Cardinality(RP!Free) # 0
  BY <1>2, PoolFacts, PoolSets
<1>4. RP!Free # {}
  BY <1>3, FS_EmptySet
<1>5. RP!Free \in SUBSET Nat
  BY PoolConstants DEF RP!Free, RP!Slots
<1>6. \E s \in RP!Free : \A r \in RP!Free : s <= r
  BY <1>4, <1>5, LeastNat
<1> QED
  BY <1>4, <1>6 DEF RP!FreeIdx

\* A step that leaves the table alone keeps the permits in balance when it moves
\* one from the semaphore to a client, or back.
LEMMA PermitStep ==
  ASSUME PoolIInv, NEW t \in Clients, NEW l \in {"wait", "lock", "repost", "stopped", "idle"},
         RP!Goto(t, l), UNCHANGED <<in_use, holds, mu, closed>>,
         \/ pc[t] \notin {"lock", "repost", "post"} /\ l = "wait" /\ available' = available
         \/ pc[t] \notin {"lock", "repost", "post"} /\ l = "lock" /\ available > 0
            /\ available' = available - 1
         \/ pc[t] = "lock" /\ l = "repost" /\ available' = available
         \/ pc[t] \in {"repost", "post"} /\ l \in {"stopped", "idle"} /\ available' = available + 1
  PROVE  PoolIInv'
<1> USE PoolFacts, PoolSets
<1>1. /\ pc' = [pc EXCEPT ![t] = l] /\ available' \in Nat
      /\ pc' \in [Clients -> {"idle", "wait", "lock", "repost", "post", "stopped"}]
  BY DEF RP!Goto
<1>2. RP!Free' = RP!Free
  BY DEF RP!Free
<1>3. available' + Cardinality(InTransit') = Cardinality(RP!Free)
  <2>1. CASE l = "lock" /\ pc[t] \notin {"lock", "repost", "post"}
    <3>1. InTransit' = InTransit \cup {t} /\ t \notin InTransit
      BY <1>1, <2>1 DEF InTransit
    <3>2. Cardinality(InTransit \cup {t}) = Cardinality(InTransit) + 1
      BY <3>1, SizeChange
    <3> QED
      BY <2>1, <3>1, <3>2
  <2>2. CASE pc[t] \in {"repost", "post"}
    <3>1. InTransit' = InTransit \ {t} /\ t \in InTransit
      BY <1>1, <2>2 DEF InTransit
    <3>2. Cardinality(InTransit \ {t}) = Cardinality(InTransit) - 1
      BY <3>1, FS_RemoveElement, Zenon
    <3> QED
      BY <2>2, <3>1, <3>2
  <2>3. CASE l # "lock" /\ pc[t] \notin {"repost", "post"}
    <3>1. InTransit' = InTransit
      BY <1>1, <2>3 DEF InTransit
    <3> QED
      BY <2>3, <3>1
  <2> QED
    BY <2>1, <2>2, <2>3
<1>4. RP!PermitsMatchFree'
  BY <1>2, <1>3, PoolSizes DEF RP!PermitsMatchFree, InTransit
<1>5. RP!TypeOK'
  BY <1>1 DEF PoolIInv, RP!TypeOK
<1> QED
  BY <1>4, <1>5 DEF PoolIInv, RP!ExclusiveUse

\* The critical section of rp_acquire takes a free entry for its permit.
LEMMA AcquireStep ==
  ASSUME PoolIInv, NEW t \in Clients, RP!AcquireSection(t), ~closed
  PROVE  PoolIInv'
<1>i. PICK i : i = RP!FreeIdx
  OBVIOUS
<1> USE PoolFacts, PoolSets
<1>s. /\ pc[t] = "lock" /\ in_use' = [in_use EXCEPT ![i] = TRUE]
      /\ holds' = [holds EXCEPT ![t] = @ \cup {i}] /\ pc' = [pc EXCEPT ![t] = "idle"]
      /\ UNCHANGED <<closed, available, mu>>
  BY <1>i DEF RP!AcquireSection, RP!Goto
<1>1. i \in RP!Free
  BY <1>i, <1>s, FreeIdxFree
<1>2. i \in RP!Slots /\ ~in_use[i] /\ \A u \in Clients : i \notin holds[u]
  BY <1>1 DEF PoolIInv, RP!Free
<1>3. RP!Free' = RP!Free \ {i}
  BY <1>s, <1>2 DEF RP!Free
<1>4. InTransit' = InTransit \ {t} /\ t \in InTransit
  BY <1>s DEF InTransit
<1>5. Cardinality(RP!Free \ {i}) = Cardinality(RP!Free) - 1
  BY <1>1, FS_RemoveElement, Zenon
<1>6. Cardinality(InTransit \ {t}) = Cardinality(InTransit) - 1
  BY <1>4, FS_RemoveElement, Zenon
<1>7. available' + Cardinality(InTransit') = Cardinality(RP!Free')
  BY <1>s, <1>3, <1>4, <1>5, <1>6
<1>8. RP!PermitsMatchFree'
  BY <1>7, PoolSizes DEF RP!PermitsMatchFree, InTransit
<1>9. RP!TypeOK'
  BY <1>s, <1>2 DEF PoolIInv, RP!TypeOK
<1>10. RP!ExclusiveUse'
  BY <1>s, <1>2 DEF PoolIInv, RP!ExclusiveUse
<1>11. ASSUME NEW r \in RP!Slots PROVE in_use'[r] <=> \E u \in Clients : r \in holds'[u]
  <2>1. CASE r = i
    BY <2>1, <1>s, <1>2
  <2>2. CASE r # i
    BY <2>2, <1>s, <1>2 DEF PoolIInv
  <2> QED
    BY <2>1, <2>2
<1>12. RP!Slots' = RP!Slots
  BY DEF RP!Slots
<1> QED
  BY <1>s, <1>8, <1>9, <1>10, <1>11, <1>12 DEF PoolIInv

\* The critical section of rp_release gives an entry back before its permit.
LEMMA ReleaseStep ==
  ASSUME PoolIInv, NEW t \in Clients, NEW i \in RP!Slots, RP!ReleaseSection(t, i)
  PROVE  PoolIInv'
<1> USE PoolFacts, PoolSets
<1>s. /\ pc[t] = "idle" /\ i \in holds[t] /\ in_use' = [in_use EXCEPT ![i] = FALSE]
      /\ holds' = [holds EXCEPT ![t] = @ \ {i}] /\ pc' = [pc EXCEPT ![t] = "post"]
      /\ UNCHANGED <<closed, available, mu>>
  BY DEF RP!ReleaseSection, RP!Goto
<1>1. in_use[i] /\ \A u \in Clients : u # t => i \notin holds[u]
  BY <1>s DEF PoolIInv, RP!ExclusiveUse
<1>2. RP!Free' = RP!Free \cup {i} /\ i \notin RP!Free
  BY <1>s, <1>1 DEF RP!Free
<1>3. InTransit' = InTransit \cup {t} /\ t \notin InTransit
  BY <1>s DEF InTransit
<1>4. Cardinality(RP!Free \cup {i}) = Cardinality(RP!Free) + 1
  BY <1>2, SizeChange
<1>5. Cardinality(InTransit \cup {t}) = Cardinality(InTransit) + 1
  BY <1>3, SizeChange
<1>6. available' + Cardinality(InTransit') = Cardinality(RP!Free')
  BY <1>s, <1>2, <1>3, <1>4, <1>5
<1>7. RP!PermitsMatchFree'
  BY <1>6, PoolSizes DEF RP!PermitsMatchFree, InTransit
<1>8. RP!TypeOK'
  BY <1>s DEF PoolIInv, RP!TypeOK
<1>9. RP!ExclusiveUse'
  BY <1>s DEF PoolIInv, RP!ExclusiveUse
<1>10. ASSUME NEW r \in RP!Slots PROVE in_use'[r] <=> \E u \in Clients : r \in holds'[u]
  <2>1. CASE r = i
    BY <2>1, <1>s, <1>1
  <2>2. CASE r # i
    BY <2>2, <1>s DEF PoolIInv
  <2> QED
    BY <2>1, <2>2
<1>11. RP!Slots' = RP!Slots
  BY DEF RP!Slots
<1> QED
  BY <1>s, <1>7, <1>8, <1>9, <1>10, <1>11 DEF PoolIInv

\* The pool starts with a permit for each entry.
LEMMA PoolInit == RP!Init => PoolIInv
<1> SUFFICES ASSUME RP!Init PROVE PoolIInv
  OBVIOUS
<1>1. RP!TypeOK
  BY PoolConstants, Zenon DEF RP!Init, RP!TypeOK
<1>2. RP!Free = 0 .. Cap - 1 /\ InTransit = {}
  BY DEF RP!Init, RP!Free, RP!Slots, InTransit
<1>3. Cardinality(RP!Free) = Cap /\ Cardinality(InTransit) = 0
  BY <1>2, PoolConstants, FS_Interval, FS_EmptySet
<1>4. available = Cap
  BY DEF RP!Init
<1>5. available + Cardinality(InTransit) = Cardinality(RP!Free)
  BY <1>3, <1>4, PoolConstants
<1>6. RP!PermitsMatchFree
  BY <1>5, PoolSizes DEF RP!PermitsMatchFree, InTransit
<1> QED
  BY <1>1, <1>6 DEF RP!Init, PoolIInv, RP!ExclusiveUse

\* Every step of the clients preserves the invariant of the pool.
LEMMA PoolInvariant == PoolIInv /\ [RP!CarefulNext]_(RP!vars) => PoolIInv'
<1> SUFFICES ASSUME PoolIInv, [RP!CarefulNext]_(RP!vars) PROVE PoolIInv'
  OBVIOUS
<1>1. ASSUME NEW t \in Clients, RP!CallAcquire(t) PROVE PoolIInv'
  BY <1>1, PermitStep DEF RP!CallAcquire, RP!table
<1>2. ASSUME NEW t \in Clients, RP!SemWait(t) PROVE PoolIInv'
  BY <1>2, PermitStep DEF RP!SemWait, RP!table
<1>3. ASSUME NEW t \in Clients, RP!AcquireSection(t) PROVE PoolIInv'
  <2>1. CASE closed
    BY <1>3, <2>1, PermitStep DEF RP!AcquireSection
  <2> QED
    BY <1>3, <2>1, AcquireStep
<1>4. ASSUME NEW t \in Clients, RP!Repost(t) \/ RP!Post(t) PROVE PoolIInv'
  BY <1>4, PermitStep DEF RP!Repost, RP!Post, RP!table
<1>5. ASSUME RP!Close \/ UNCHANGED RP!vars PROVE PoolIInv'
  <2>1. UNCHANGED <<in_use, available, mu, pc, holds>> /\ closed' \in BOOLEAN
    BY <1>5, Zenon DEF RP!Close, RP!vars, RP!table, PoolIInv, RP!TypeOK
  <2>2. RP!TypeOK'
    BY <2>1 DEF PoolIInv, RP!TypeOK
  <2> QED
    BY <2>1, <2>2 DEF PoolIInv, RP!PermitsMatchFree, RP!Free, RP!ExclusiveUse
<1> QED
  BY <1>1, <1>2, <1>3, <1>4, <1>5, ReleaseStep DEF RP!CarefulNext, RP!Calls, RP!Running

ST == INSTANCE StatTable WITH Threads <- Users
ASSUME StatTableAssumption == ST!TableAssumption

\* The statistics table: the lock is held by those inside the loops, for reading
\* or for writing; what a loop has passed is copied, or zero.
Copying == {t \in Users : pc[t] \in {"snapshot", "copied"}}
Resetting == {t \in Users : pc[t] = "reset"}
TableLock == /\ readers = Copying /\ writer = Resetting
             /\ writer # {} => readers = {} /\ \E t \in Users : writer = {t}
TablePassed ==
  \A t \in Users :
    /\ pc[t] = "snapshot" => k[t] < STAT_COUNT
    /\ pc[t] = "copied" => k[t] = STAT_COUNT
    /\ t \in Copying => \A j \in ST!Idx : j < k[t] => out[t][j] = counters[j]
    /\ t \in Resetting => \A j \in ST!Idx : j < k[t] => counters[j] = 0
TableIInv == ST!TypeOK /\ TableLock /\ TablePassed /\ ST!Saturates

\* The table starts with every counter at 0 and nobody inside.
LEMMA TableInit ==
  ASSUME ST!TableAssumption, ST!Init
  PROVE  TableIInv
<1>1. 0 \in 0 .. MAX /\ 0 \in 0 .. STAT_COUNT /\ 0 \in 0 .. MaxAdds /\ ST!Zero \in [ST!Idx -> 0 .. MAX]
  BY DEF ST!TableAssumption, ST!Zero
<1>2. ST!TypeOK
  BY <1>1 DEF ST!Init, ST!TypeOK, ST!Calls, ST!Zero
<1>3. Copying = {} /\ Resetting = {}
  BY DEF ST!Init, Copying, Resetting
<1>4. TableLock /\ TablePassed
  BY <1>3 DEF ST!Init, TableLock, TablePassed, Copying
<1>5. ST!Saturates
  BY DEF ST!Init, ST!Saturates, ST!Zero, ST!TableAssumption
<1> QED
  BY <1>2, <1>4, <1>5 DEF TableIInv

\* What the types say of each field.
LEMMA TableTypes ==
  ASSUME ST!TableAssumption, ST!TypeOK
  PROVE  /\ STAT_COUNT \in Nat /\ MAX \in Nat /\ MaxAdds \in Nat /\ Deltas \subseteq 0 .. MAX
         /\ counters \in [ST!Idx -> 0 .. MAX] /\ total \in [ST!Idx -> Nat] /\ adds \in 0 .. MaxAdds
         /\ pc \in [Users -> ST!Calls] /\ k \in [Users -> 0 .. STAT_COUNT]
         /\ out \in [Users -> [ST!Idx -> 0 .. MAX]]
         /\ readers \subseteq Users /\ writer \subseteq Users
  BY DEF ST!TableAssumption, ST!TypeOK

\* A step of stats_snapshot that enters, copies a counter or leaves.
LEMMA SnapshotStep ==
  ASSUME ST!TableAssumption, TableIInv, NEW t \in Users,
         ST!StartSnapshot(t) \/ ST!Copy(t) \/ ST!EndSnapshot(t)
  PROVE  TableIInv'
<1>t. /\ STAT_COUNT \in Nat /\ MAX \in Nat /\ MaxAdds \in Nat /\ Deltas \subseteq 0 .. MAX
      /\ counters \in [ST!Idx -> 0 .. MAX] /\ total \in [ST!Idx -> Nat] /\ adds \in 0 .. MaxAdds
      /\ pc \in [Users -> ST!Calls] /\ k \in [Users -> 0 .. STAT_COUNT]
      /\ out \in [Users -> [ST!Idx -> 0 .. MAX]]
      /\ readers \subseteq Users /\ writer \subseteq Users
  BY TableTypes DEF TableIInv
<1> USE <1>t DEF TableIInv
<1>1. CASE ST!StartSnapshot(t)
  <2>s. /\ pc[t] = "idle" /\ writer = {} /\ readers' = readers \cup {t} /\ writer' = writer
        /\ pc' = [pc EXCEPT ![t] = "snapshot"] /\ k' = [k EXCEPT ![t] = 0]
        /\ out' = [out EXCEPT ![t] = ST!Zero] /\ UNCHANGED <<counters, total, adds>>
    BY <1>1 DEF ST!StartSnapshot, ST!SnapshotLock, ST!RdLock, ST!history
  <2>z. ST!Zero \in [ST!Idx -> 0 .. MAX] /\ 0 \in 0 .. STAT_COUNT /\ 0 < STAT_COUNT
    BY DEF ST!Zero, ST!TableAssumption
  <2>1. ST!TypeOK'
    BY <2>s, <2>z DEF ST!TypeOK, ST!Calls
  <2>2. TableLock'
    BY <2>s DEF TableLock, Copying, Resetting
  <2>3. TablePassed'
    <3>1. pc'[t] = "snapshot" /\ k'[t] = 0 /\ \A j \in ST!Idx : ~(j < 0)
      BY <2>s DEF ST!Idx
    <3>2. \A u \in Users : u # t => pc'[u] = pc[u] /\ k'[u] = k[u] /\ out'[u] = out[u]
      BY <2>s
    <3> QED
      BY <3>1, <3>2, <2>s, <2>z DEF TablePassed, Copying, Resetting
  <2> QED
    BY <2>s, <2>1, <2>2, <2>3 DEF ST!Saturates
<1>2. CASE ST!Copy(t)
  <2>s. /\ pc[t] = "snapshot" /\ k[t] < STAT_COUNT
        /\ out' = [out EXCEPT ![t][k[t]] = counters[k[t]]] /\ k' = [k EXCEPT ![t] = k[t] + 1]
        /\ pc' = [pc EXCEPT ![t] = IF k[t] + 1 = STAT_COUNT THEN "copied" ELSE "snapshot"]
        /\ UNCHANGED <<counters, readers, writer, total, adds>>
    BY <1>2 DEF ST!Copy, ST!history
  <2>z. k[t] \in ST!Idx /\ counters[k[t]] \in 0 .. MAX /\ k[t] + 1 \in 0 .. STAT_COUNT
    <3>1. k[t] \in Nat /\ STAT_COUNT \in Nat /\ k[t] < STAT_COUNT
      BY <2>s
    <3>2. k[t] \in ST!Idx /\ k[t] + 1 \in 0 .. STAT_COUNT
      BY ONLY <3>1 DEF ST!Idx
    <3> QED
      BY <3>2
  <2>1. ST!TypeOK'
    BY <2>s, <2>z DEF ST!TypeOK, ST!Calls
  <2>2. TableLock'
    BY <2>s DEF TableLock, Copying, Resetting
  <2>p. /\ t \in Users
        /\ \A j \in ST!Idx : j < k[t] => out[t][j] = counters[j]
    BY <2>s DEF TablePassed, Copying
  <2>3. ASSUME NEW j \in ST!Idx, j < k[t] + 1 PROVE out'[t][j] = counters[j]
    <3>1. out'[t] = [out[t] EXCEPT ![k[t]] = counters[k[t]]] /\ out[t] \in [ST!Idx -> 0 .. MAX]
      BY ONLY <2>s, <2>p, <1>t
    <3>2. j = k[t] \/ j < k[t]
      BY ONLY <2>3, <2>z DEF ST!Idx
    <3> QED
      BY ONLY <3>1, <3>2, <2>p, <2>z, <2>3
  <2>4. TablePassed'
    <3>1. /\ k'[t] = k[t] + 1 /\ counters' = counters
          /\ pc'[t] = IF k[t] + 1 = STAT_COUNT THEN "copied" ELSE "snapshot"
      BY ONLY <2>s, <2>p, <1>t
    <3>2. k[t] + 1 # STAT_COUNT => k[t] + 1 < STAT_COUNT
      BY ONLY <2>z, <1>t
    <3>3. \A j \in ST!Idx : j < k'[t] => out'[t][j] = counters'[j]
      BY ONLY <3>1, <2>3
    <3>4. /\ pc'[t] = "snapshot" => k'[t] < STAT_COUNT
          /\ pc'[t] = "copied" => k'[t] = STAT_COUNT
          /\ pc'[t] # "reset"
      BY ONLY <3>1, <3>2
    <3> SUFFICES ASSUME NEW u \in Users
                 PROVE  /\ pc'[u] = "snapshot" => k'[u] < STAT_COUNT
                        /\ pc'[u] = "copied" => k'[u] = STAT_COUNT
                        /\ pc'[u] \in {"snapshot", "copied"} => \A j \in ST!Idx : j < k'[u] => out'[u][j] = counters'[j]
                        /\ pc'[u] = "reset" => \A j \in ST!Idx : j < k'[u] => counters'[j] = 0
      BY Zenon DEF TablePassed, Copying, Resetting
    <3>5. CASE u = t
      BY ONLY <3>5, <3>3, <3>4
    <3>6. CASE u # t
      <4>1. pc'[u] = pc[u] /\ k'[u] = k[u] /\ out'[u] = out[u] /\ counters' = counters
        BY <3>6, <2>s
      <4>2. /\ pc[u] = "snapshot" => k[u] < STAT_COUNT
            /\ pc[u] = "copied" => k[u] = STAT_COUNT
            /\ pc[u] \in {"snapshot", "copied"} => \A j \in ST!Idx : j < k[u] => out[u][j] = counters[j]
            /\ pc[u] = "reset" => \A j \in ST!Idx : j < k[u] => counters[j] = 0
        BY DEF TablePassed, Copying, Resetting
      <4> QED
        BY ONLY <4>1, <4>2
    <3> QED
      BY ONLY <3>5, <3>6, Zenon
  <2> QED
    BY <2>s, <2>1, <2>2, <2>4 DEF ST!Saturates
<1>3. CASE ST!EndSnapshot(t)
  <2>s. /\ pc[t] = "copied" /\ readers' = readers \ {t} /\ writer' = writer \ {t}
        /\ pc' = [pc EXCEPT ![t] = "idle"] /\ k' = [k EXCEPT ![t] = 0]
        /\ UNCHANGED <<counters, out, total, adds>>
    BY <1>3 DEF ST!EndSnapshot, ST!Unlock, ST!history
  <2>1. ST!TypeOK'
    BY <2>s DEF ST!TypeOK, ST!Calls
  <2>2. TableLock'
    BY <2>s DEF TableLock, Copying, Resetting
  <2>3. TablePassed'
    BY <2>s DEF TablePassed, Copying, Resetting
  <2> QED
    BY <2>s, <2>1, <2>2, <2>3 DEF ST!Saturates
<1> QED
  BY <1>1, <1>2, <1>3

\* A step of stats_reset_all that enters, clears a counter or leaves.
LEMMA ResetStep ==
  ASSUME ST!TableAssumption, TableIInv, NEW t \in Users,
         ST!StartReset(t) \/ ST!Clear(t) \/ ST!EndReset(t)
  PROVE  TableIInv'
<1>t. /\ STAT_COUNT \in Nat /\ MAX \in Nat /\ MaxAdds \in Nat /\ Deltas \subseteq 0 .. MAX
      /\ counters \in [ST!Idx -> 0 .. MAX] /\ total \in [ST!Idx -> Nat] /\ adds \in 0 .. MaxAdds
      /\ pc \in [Users -> ST!Calls] /\ k \in [Users -> 0 .. STAT_COUNT]
      /\ out \in [Users -> [ST!Idx -> 0 .. MAX]]
      /\ readers \subseteq Users /\ writer \subseteq Users
  BY TableTypes DEF TableIInv
<1> USE <1>t DEF TableIInv
<1>1. CASE ST!StartReset(t)
  <2>s. /\ pc[t] = "idle" /\ writer = {} /\ readers = {} /\ writer' = {t} /\ readers' = readers
        /\ pc' = [pc EXCEPT ![t] = "reset"] /\ k' = [k EXCEPT ![t] = 0]
        /\ UNCHANGED <<counters, out, total, adds>>
    BY <1>1 DEF ST!StartReset, ST!WrLock, ST!history
  <2>1. ST!TypeOK'
    BY <2>s DEF ST!TypeOK, ST!Calls
  <2>2. TableLock'
    BY <2>s DEF TableLock, Copying, Resetting
  <2>3. TablePassed'
    BY <2>s, SMTT(20) DEF TablePassed, Copying, Resetting, ST!Idx
  <2> QED
    BY <2>s, <2>1, <2>2, <2>3 DEF ST!Saturates
<1>2. CASE ST!Clear(t)
  <2>s. /\ pc[t] = "reset" /\ k[t] # STAT_COUNT
        /\ counters' = [counters EXCEPT ![k[t]] = 0] /\ total' = [total EXCEPT ![k[t]] = 0]
        /\ k' = [k EXCEPT ![t] = k[t] + 1]
        /\ UNCHANGED <<readers, writer, pc, out, adds>>
    BY <1>2 DEF ST!Clear, ST!Last
  <2>z. k[t] \in ST!Idx /\ 0 \in 0 .. MAX /\ k[t] + 1 \in 0 .. STAT_COUNT
    <3>1. k[t] \in 0 .. STAT_COUNT /\ STAT_COUNT \in Nat /\ MAX \in Nat /\ k[t] # STAT_COUNT
      BY <2>s
    <3> QED
      BY ONLY <3>1 DEF ST!Idx
  <2>1. ST!TypeOK'
    BY <2>s, <2>z, Zenon DEF ST!TypeOK
  <2>2. TableLock'
    BY <2>s DEF TableLock, Copying, Resetting
  <2>a. t \in writer /\ readers = {} /\ \A u \in Users : u \in writer => u = t
    BY <2>s DEF TableLock, Resetting
  <2>b. \A u \in Users : u \notin Copying' /\ (u \in Resetting' => u = t)
    BY <2>a, <2>2, <2>s DEF TableLock
  <2>3. TablePassed'
    <3>1. ASSUME NEW j \in ST!Idx, j < k[t] + 1 PROVE counters'[j] = 0
      BY <2>s, <2>z, <3>1, SMTT(20) DEF TablePassed, Resetting, ST!Idx
    <3>2. ASSUME NEW u \in Users PROVE pc'[u] \notin {"snapshot", "copied"}
      BY <2>b DEF Copying
    <3> QED
      BY <2>b, <2>s, <3>1, <3>2 DEF TablePassed
  <2>4. ST!Saturates'
    BY <2>s, <2>z DEF ST!Saturates
  <2> QED
    BY <2>1, <2>2, <2>3, <2>4
<1>3. CASE ST!EndReset(t)
  <2>s. /\ pc[t] = "reset" /\ readers' = readers \ {t} /\ writer' = writer \ {t}
        /\ pc' = [pc EXCEPT ![t] = "idle"] /\ k' = [k EXCEPT ![t] = 0]
        /\ UNCHANGED <<counters, out, total, adds>>
    BY <1>3 DEF ST!EndReset, ST!Unlock, ST!history
  <2>1. ST!TypeOK'
    BY <2>s DEF ST!TypeOK, ST!Calls
  <2>2. TableLock'
    BY <2>s DEF TableLock, Copying, Resetting
  <2>3. TablePassed'
    BY <2>s DEF TablePassed, Copying, Resetting
  <2> QED
    BY <2>s, <2>1, <2>2, <2>3 DEF ST!Saturates
<1> QED
  BY <1>1, <1>2, <1>3

\* stats_read copies a counter, stats_add changes one while nobody is inside.
LEMMA ReadAddStep ==
  ASSUME ST!TableAssumption, TableIInv, NEW t \in Users, NEW j \in ST!Idx,
         ST!Read(t, j) \/ \E delta \in Deltas : ST!Add(t, j, delta)
  PROVE  TableIInv'
<1>t. /\ STAT_COUNT \in Nat /\ MAX \in Nat /\ MaxAdds \in Nat /\ Deltas \subseteq 0 .. MAX
      /\ counters \in [ST!Idx -> 0 .. MAX] /\ total \in [ST!Idx -> Nat] /\ adds \in 0 .. MaxAdds
      /\ pc \in [Users -> ST!Calls] /\ k \in [Users -> 0 .. STAT_COUNT]
      /\ out \in [Users -> [ST!Idx -> 0 .. MAX]]
      /\ readers \subseteq Users /\ writer \subseteq Users
  BY TableTypes DEF TableIInv
<1> USE <1>t DEF TableIInv
<1>1. CASE ST!Read(t, j)
  <2>s. /\ pc[t] = "idle" /\ out' = [out EXCEPT ![t] = [ST!Zero EXCEPT ![j] = counters[j]]]
        /\ UNCHANGED <<counters, readers, writer, pc, k, total, adds>>
    BY <1>1 DEF ST!Read, ST!history
  <2>z. [ST!Zero EXCEPT ![j] = counters[j]] \in [ST!Idx -> 0 .. MAX]
    BY DEF ST!Zero
  <2>1. ST!TypeOK'
    BY <2>s, <2>z, Zenon DEF ST!TypeOK
  <2>2. TableLock'
    BY <2>s DEF TableLock, Copying, Resetting
  <2>3. TablePassed'
    BY <2>s DEF TablePassed, Copying, Resetting
  <2> QED
    BY <2>s, <2>1, <2>2, <2>3 DEF ST!Saturates
<1>2. ASSUME NEW delta \in Deltas, ST!Add(t, j, delta) PROVE TableIInv'
  <2>s. /\ writer = {} /\ readers = {} /\ adds < MaxAdds
        /\ counters' = [counters EXCEPT ![j] = ST!Sum(counters[j], delta)]
        /\ total' = [total EXCEPT ![j] = total[j] + delta] /\ adds' = adds + 1
        /\ UNCHANGED <<readers, writer, pc, k, out>>
    BY <1>2 DEF ST!Add
  <2>z. /\ delta \in Nat /\ delta <= MAX /\ counters[j] \in 0 .. MAX
        /\ ST!Sum(counters[j], delta) \in 0 .. MAX
    BY DEF ST!Sum
  <2>1. ST!TypeOK'
    <3>1. counters' \in [ST!Idx -> 0 .. MAX] /\ total' \in [ST!Idx -> Nat]
      BY <2>s, <2>z, SMTT(20)
    <3>2. adds' \in 0 .. MaxAdds
      BY <2>s
    <3> QED
      BY <3>1, <3>2, <2>s DEF ST!TypeOK
  <2>2. TableLock'
    BY <2>s DEF TableLock, Copying, Resetting
  <2>3. \A u \in Users : u \notin Copying' /\ u \notin Resetting'
    BY <2>s, <2>2 DEF TableLock
  <2>4. TablePassed'
    BY <2>3, Zenon DEF TablePassed, Copying
  <2>5. ST!Saturates'
    <3>1. ST!Sum(counters[j], delta) = IF total[j] + delta > MAX THEN MAX ELSE total[j] + delta
      BY <2>z DEF ST!Sum, ST!Saturates
    <3> QED
      BY <2>s, <3>1 DEF ST!Saturates
  <2> QED
    BY <2>1, <2>2, <2>4, <2>5
<1> QED
  BY <1>1, <1>2

\* Every step preserves the invariant of the table.
LEMMA TableStep ==
  ASSUME ST!TableAssumption, TableIInv, [ST!Next]_(ST!vars)
  PROVE  TableIInv'
<1>1. CASE UNCHANGED ST!vars
  BY <1>1 DEF ST!vars, ST!history, TableIInv, ST!TypeOK, TableLock, TablePassed, Copying, Resetting, ST!Saturates
<1> QED
  BY <1>1, SnapshotStep, ResetStep, ReadAddStep DEF ST!Next

\* A finished copy is the whole table as it stands, and while a reset has the
\* lock nobody else is in the table, until every counter is at 0.
LEMMA TableFacts ==
  ASSUME ST!TableAssumption, TableIInv
  PROVE  ST!SnapshotConsistent /\ ST!Saturates /\ ([ST!Next]_(ST!vars) => ST!ResetUnseen)
<1>t. /\ STAT_COUNT \in Nat /\ MAX \in Nat /\ MaxAdds \in Nat /\ Deltas \subseteq 0 .. MAX
      /\ counters \in [ST!Idx -> 0 .. MAX] /\ total \in [ST!Idx -> Nat] /\ adds \in 0 .. MaxAdds
      /\ pc \in [Users -> ST!Calls] /\ k \in [Users -> 0 .. STAT_COUNT]
      /\ out \in [Users -> [ST!Idx -> 0 .. MAX]]
      /\ readers \subseteq Users /\ writer \subseteq Users
  BY TableTypes DEF TableIInv
<1> USE <1>t DEF TableIInv
<1>1. ASSUME NEW t \in Users, pc[t] = "copied" PROVE out[t] = counters
  <2>1. k[t] = STAT_COUNT /\ \A j \in ST!Idx : j < k[t] => out[t][j] = counters[j]
    BY <1>1 DEF TablePassed, Copying
  <2>2. \A j \in ST!Idx : out[t][j] = counters[j]
    BY <2>1 DEF ST!Idx
  <2> QED
    BY <2>2
<1>2. ASSUME [ST!Next]_(ST!vars), NEW t \in Users, pc[t] = "reset", pc'[t] # "reset"
      PROVE  counters = ST!Zero
  <2>1. ST!EndReset(t)
    BY <1>2 DEF ST!Next, ST!vars, ST!StartSnapshot, ST!Copy, ST!EndSnapshot, ST!StartReset, ST!Clear, ST!EndReset, ST!Read, ST!Add
  <2>2. k[t] = STAT_COUNT /\ \A j \in ST!Idx : j < k[t] => counters[j] = 0
    BY <2>1 DEF ST!EndReset, ST!Last, TablePassed, Resetting
  <2>3. \A j \in ST!Idx : counters[j] = 0
    BY <2>2 DEF ST!Idx
  <2> QED
    BY <2>3 DEF ST!Zero
<1>3. ASSUME [ST!Next]_(ST!vars), NEW t \in Users, pc[t] = "reset"
      PROVE  out' = out /\ adds' = adds
  <2>1. writer # {} /\ readers = {}
    BY <1>3 DEF TableLock, Resetting
  <2>2. \A u \in Users : pc[u] # "snapshot"
    BY <2>1 DEF TableLock, Copying
  <2>3. ASSUME NEW u \in Users, ST!StartSnapshot(u) PROVE FALSE
    BY <2>1, <2>3 DEF ST!StartSnapshot, ST!SnapshotLock, ST!RdLock
  <2>4. ASSUME NEW u \in Users, NEW j \in ST!Idx, ST!Read(u, j) PROVE FALSE
    BY <2>1, <2>4 DEF ST!Read
  <2>5. ASSUME NEW u \in Users, NEW j \in ST!Idx, NEW delta \in Deltas, ST!Add(u, j, delta)
        PROVE  FALSE
    BY <2>1, <2>5 DEF ST!Add
  <2>6. ASSUME NEW u \in Users,
               ST!Copy(u) \/ ST!EndSnapshot(u) \/ ST!StartReset(u) \/ ST!Clear(u) \/ ST!EndReset(u)
        PROVE  out' = out /\ adds' = adds
    BY <2>2, <2>6
       DEF ST!Copy, ST!EndSnapshot, ST!StartReset, ST!Clear, ST!EndReset, ST!history
  <2>7. CASE UNCHANGED ST!vars
    BY <2>7 DEF ST!vars, ST!history
  <2> QED
    BY <1>3, <2>3, <2>4, <2>5, <2>6, <2>7 DEF ST!Next
<1> QED
  BY <1>1, <1>2, <1>3 DEF ST!SnapshotConsistent, ST!ResetUnseen

RL == INSTANCE RdWrLock WITH Threads <- Clients
ASSUME RdWrLockAssumption == RL!LockAssumption

Locations == {"idle", "wait_rd", "woken_rd", "reading", "wait_wr", "woken_wr", "writing"}
Reading == RL!At("reading")
Writing == RL!At("writing")

\* The read-write lock: its property is inductive, given where a thread can be.
LockIInv == /\ pc \in [Clients -> Locations] /\ locked \in BOOLEAN
            /\ num_readers \in Nat /\ RL!WriterAlone

\* The instance of FiniteSets inside the component is the one used here.
LEMMA LockSizes == \A S : RL!Cardinality(S) = Cardinality(S) /\ (RL!IsFiniteSet(S) <=> IsFiniteSet(S))
  BY DEF RL!Cardinality, Cardinality, RL!IsFiniteSet, IsFiniteSet

\* The invariant in terms of the two sets.
LEMMA LockMeans ==
  ASSUME RL!LockAssumption
  PROVE  /\ IsFiniteSet(Reading) /\ Cardinality(Reading) \in Nat
         /\ IsFiniteSet(Writing) /\ Cardinality(Writing) \in Nat
         /\ RL!WriterAlone <=> /\ Cardinality(Writing) <= 1 /\ (Writing # {} => Reading = {})
                            /\ num_readers = Cardinality(Reading)
                            /\ (locked <=> Reading # {} \/ Writing # {})
<1>1. IsFiniteSet(Reading) /\ IsFiniteSet(Writing)
  <2>1. IsFiniteSet(Clients)
    BY LockSizes, Zenon DEF RL!LockAssumption
  <2> QED
    BY <2>1, FS_Subset DEF Reading, Writing, RL!At
<1>2. Cardinality(Reading) \in Nat /\ Cardinality(Writing) \in Nat
  BY <1>1, FS_CardinalityType
<1> QED
  BY <1>1, <1>2, LockSizes DEF RL!WriterAlone, Reading, Writing

\* Nobody has the lock at first.
LEMMA LockInit == ASSUME RL!LockAssumption, RL!Init PROVE LockIInv
<1>1. Reading = {} /\ Writing = {}
  BY DEF RL!Init, Reading, Writing, RL!At
<1>2. Cardinality(Reading) = 0 /\ Cardinality(Writing) = 0
  BY <1>1, FS_EmptySet
<1>3. RL!WriterAlone
  BY <1>1, <1>2, LockMeans DEF RL!Init
<1> QED
  BY <1>3, Zenon DEF RL!Init, LockIInv, Locations

\* A step after which the same threads read and write.
LEMMA LockSame ==
  ASSUME RL!LockAssumption, LockIInv, Reading' = Reading, Writing' = Writing,
         pc' \in [Clients -> Locations], UNCHANGED <<num_readers, locked>>
  PROVE  LockIInv'
  BY DEF LockIInv, RL!WriterAlone, Reading, Writing

\* A thread that waits or is woken neither reads nor writes.
LEMMA LockWait ==
  ASSUME RL!LockAssumption, LockIInv, NEW t \in Clients, NEW l \in Locations \ {"reading", "writing"},
         pc[t] \notin {"reading", "writing"}, RL!Goto(t, l), UNCHANGED <<num_readers, locked>>
  PROVE  LockIInv'
<1>1. pc' \in [Clients -> Locations] /\ Reading' = Reading /\ Writing' = Writing
  BY DEF LockIInv, RL!Goto, Reading, Writing, RL!At
<1> QED
  BY <1>1, LockSame

\* A reader joins others, or takes a free lock.
LEMMA LockRead ==
  ASSUME RL!LockAssumption, LockIInv, NEW t \in Clients, pc[t] \notin {"reading", "writing"},
         RL!Goto(t, "reading"), num_readers' = num_readers + 1,
         \/ num_readers > 0 /\ locked' = locked
         \/ ~locked /\ locked' = TRUE
  PROVE  LockIInv'
<1>1. /\ pc' \in [Clients -> Locations] /\ Reading' = Reading \cup {t} /\ Writing' = Writing
      /\ t \notin Reading
  BY DEF LockIInv, RL!Goto, Reading, Writing, RL!At, Locations
<1>2. Cardinality(Reading \cup {t}) = Cardinality(Reading) + 1
  BY <1>1, LockMeans, SizeChange
<1>3. Cardinality(Reading) # 0 => Reading # {}
  BY FS_EmptySet
<1>4. Writing = {}
  BY <1>3, LockMeans DEF LockIInv
<1>5. locked' = TRUE
  BY <1>3, LockMeans DEF LockIInv
<1>6. RL!WriterAlone'
  <2>1. Cardinality(Writing') <= 1
    BY <1>1, LockMeans DEF LockIInv
  <2>2. num_readers' = Cardinality(Reading')
    BY <1>1, <1>2, LockMeans DEF LockIInv
  <2> QED
    BY <2>1, <2>2, <1>1, <1>4, <1>5, LockSizes DEF RL!WriterAlone, Reading, Writing
<1> QED
  BY <1>1, <1>5, <1>6 DEF LockIInv

\* A writer takes a free lock.
LEMMA LockWrite ==
  ASSUME RL!LockAssumption, LockIInv, NEW t \in Clients, pc[t] \notin {"reading", "writing"},
         RL!Goto(t, "writing"), ~locked, locked' = TRUE, num_readers' = num_readers
  PROVE  LockIInv'
<1>1. Reading = {} /\ Writing = {}
  BY LockMeans DEF LockIInv
<1>2. /\ pc' \in [Clients -> Locations] /\ Reading' = Reading /\ Writing' = Writing \cup {t}
  BY DEF LockIInv, RL!Goto, Reading, Writing, RL!At, Locations
<1>3. Writing' = {t} /\ Cardinality({t}) = 1
  BY <1>1, <1>2, FS_Singleton
<1>4. RL!WriterAlone'
  <2>1. num_readers' = Cardinality(Reading')
    BY <1>2, LockMeans DEF LockIInv
  <2>2. Cardinality(Writing') = 1 /\ Reading' = {} /\ Writing' # {}
    BY <1>1, <1>2, <1>3
  <2> QED
    BY <2>1, <2>2, LockSizes DEF RL!WriterAlone, Reading, Writing
<1> QED
  BY <1>2, <1>4 DEF LockIInv

\* Whoever has the lock gives it back.
LEMMA LockRelease ==
  ASSUME RL!LockAssumption, LockIInv, NEW t \in Clients, RL!Release(t)
  PROVE  LockIInv'
<1>1. PICK W \in SUBSET RL!Waiting :
        pc' = [u \in Clients |-> IF u = t THEN "idle"
                                 ELSE IF u \in W THEN RL!WokenFrom(pc[u]) ELSE pc[u]]
  BY DEF RL!Release
<1>2. /\ pc' \in [Clients -> Locations] /\ Reading' = Reading \ {t} /\ Writing' = Writing \ {t}
  BY <1>1 DEF LockIInv, Reading, Writing, RL!At, RL!Waiting, RL!WokenFrom, Locations
<1>3. CASE pc[t] = "reading"
  <2>1. t \in Reading /\ Writing = {} /\ t \notin Writing
    BY <1>3, LockMeans DEF LockIInv, Reading, RL!At
  <2>2. IsFiniteSet(Reading \ {t}) /\ Cardinality(Reading \ {t}) = Cardinality(Reading) - 1
    BY <2>1, LockMeans, FS_RemoveElement
  <2>3. Cardinality(Reading \ {t}) = 0 <=> Reading \ {t} = {}
    BY <2>2, FS_EmptySet, Zenon
  <2>4. Cardinality(Reading \ {t}) \in Nat
    BY <2>2, FS_CardinalityType
  <2>5. /\ num_readers' = Cardinality(Reading \ {t})
        /\ locked' = (num_readers' > 0)
    BY <1>3, <2>2, LockMeans DEF LockIInv, RL!Release
  <2>6. locked' <=> Reading \ {t} # {}
    <3>1. locked' <=> num_readers' > 0
      BY <2>5, Zenon
    <3>2. num_readers' > 0 <=> Reading \ {t} # {}
      BY <2>3, <2>4, <2>5
    <3> QED
      BY <3>1, <3>2, Zenon
  <2>7. Cardinality(Writing') <= 1 /\ Writing' = {}
    BY <1>2, <2>1, LockMeans DEF LockIInv
  <2>8. RL!WriterAlone'
    BY <1>2, <2>5, <2>6, <2>7, LockSizes DEF RL!WriterAlone, Reading, Writing
  <2>9. locked' \in BOOLEAN
    BY DEF RL!Release
  <2> QED
    BY <1>2, <2>4, <2>5, <2>8, <2>9 DEF LockIInv
<1>4. CASE pc[t] = "writing"
  <2>1. t \in Writing /\ Reading = {}
    BY <1>4, LockMeans DEF LockIInv, Writing, RL!At
  <2>2. Cardinality(Writing \ {t}) = Cardinality(Writing) - 1 /\ IsFiniteSet(Writing \ {t})
    BY <2>1, LockMeans, FS_RemoveElement
  <2>3. Cardinality(Writing \ {t}) \in Nat
    BY <2>2, FS_CardinalityType
  <2>4. Cardinality(Writing \ {t}) = 0
    BY <2>2, <2>3, LockMeans DEF LockIInv
  <2>5. Writing \ {t} = {}
    BY <2>2, <2>4, FS_EmptySet
  <2>6. num_readers' = 0 /\ Cardinality(Reading) = 0
    BY <1>4, <2>1, LockMeans, FS_EmptySet DEF LockIInv, RL!Release
  <2>7. locked' = FALSE
    <3>1. ~(num_readers' > 0)
      BY <2>6
    <3>2. locked' <=> num_readers' > 0
      BY Zenon DEF RL!Release
    <3>3. locked' \in BOOLEAN
      BY DEF RL!Release
    <3> QED
      BY <3>1, <3>2, <3>3, Zenon
  <2>8. RL!WriterAlone'
    BY <1>2, <2>1, <2>4, <2>5, <2>6, <2>7, LockSizes, SMTT(20) DEF RL!WriterAlone, Reading, Writing
  <2> QED
    BY <1>2, <2>6, <2>7, <2>8, Zenon DEF LockIInv
<1> QED
  BY <1>3, <1>4 DEF RL!Release

\* Every step preserves the invariant of the lock.
LEMMA LockStep ==
  ASSUME RL!LockAssumption, LockIInv, [RL!Next]_(RL!vars)
  PROVE  LockIInv'
<1>1. ASSUME NEW t \in Clients, RL!rdlock(t) PROVE LockIInv'
  BY <1>1, LockRead, LockWait, Zenon DEF RL!rdlock, RL!Joins, Locations
<1>2. ASSUME NEW t \in Clients, RL!wrlock(t) PROVE LockIInv'
  BY <1>2, LockWrite, LockWait, Zenon DEF RL!wrlock, Locations
<1>3. ASSUME NEW t \in Clients, RL!SpuriousWakeup(t) PROVE LockIInv'
  BY <1>3, LockWait DEF RL!SpuriousWakeup, RL!Waiting, RL!At, RL!WokenFrom, Locations
<1>4. CASE UNCHANGED RL!vars
  BY <1>4, LockSame DEF RL!vars, LockIInv, Reading, Writing, RL!At
<1> QED
  BY <1>1, <1>2, <1>3, <1>4, LockRelease DEF RL!Next

RG == INSTANCE ResetGuard

\* The reset guard: inflight counts the commands that run, and a pending reset
\* has set the state that refuses new ones.
GuardIInv == /\ IsFiniteSet(running) /\ inflight = Cardinality(running)
             /\ reset = "pending" => state = "RESETTING"

\* The guard starts with nothing in flight.
LEMMA GuardInit == ASSUME RG!Init PROVE GuardIInv
  BY FS_EmptySet DEF RG!Init, GuardIInv

\* A submission, a completion and a reset keep the count exact.
LEMMA GuardStep ==
  ASSUME GuardIInv, [RG!Next]_(RG!vars)
  PROVE  GuardIInv'
<1>1. ASSUME NEW c \in Commands, RG!try_submit_command(c) PROVE GuardIInv'
  <2>1. IsFiniteSet(running \cup {c}) /\ Cardinality(running \cup {c}) = Cardinality(running) + 1
    BY <1>1, SizeChange, FS_AddElement DEF GuardIInv, RG!try_submit_command
  <2> QED
    BY <1>1, <2>1 DEF GuardIInv, RG!try_submit_command, RG!Submitted
<1>2. ASSUME NEW c \in Commands, RG!command_completed(c) PROVE GuardIInv'
  <2>1. IsFiniteSet(running \ {c}) /\ Cardinality(running \ {c}) = Cardinality(running) - 1
    BY <1>2, FS_RemoveElement DEF GuardIInv, RG!command_completed
  <2> QED
    BY <1>2, <2>1 DEF GuardIInv, RG!command_completed
<1>3. CASE RG!begin_reset \/ UNCHANGED RG!vars
  BY <1>3 DEF GuardIInv, RG!begin_reset, RG!vars
<1> QED
  BY <1>1, <1>2, <1>3 DEF RG!Next, RG!Calls

\* So a reset goes ahead, at once or after it was held back, only when nothing
\* is in flight.
LEMMA GuardFacts ==
  ASSUME GuardIInv, [RG!Next]_(RG!vars)
  PROVE  RG!NoResetUnderCommand /\ RG!NoneAcceptedMeanwhile
<1>1. RG!NoResetUnderCommand
  <2> SUFFICES ASSUME reset # "granted", reset' = "granted" PROVE running' = {}
    BY DEF RG!NoResetUnderCommand
  <2>1. inflight' = 0
    BY DEF RG!Next, RG!Calls, RG!try_submit_command, RG!command_completed, RG!begin_reset, RG!Drained, RG!vars
  <2>2. IsFiniteSet(running') /\ inflight' = Cardinality(running')
    BY GuardStep DEF GuardIInv
  <2> QED
    BY <2>1, <2>2, FS_EmptySet
<1>2. RG!NoneAcceptedMeanwhile
  BY DEF GuardIInv, RG!NoneAcceptedMeanwhile, RG!Next, RG!Calls, RG!try_submit_command, RG!command_completed,
         RG!begin_reset, RG!Accepts, RG!vars
<1> QED
  BY <1>1, <1>2

TP == INSTANCE ThreadPool WITH Submitters <- Users, Workers <- Servers
ASSUME ThreadPoolAssumption == TP!PoolAssumption
BQ == INSTANCE BoundedQueue WITH Producers <- Users, Consumers <- Servers,
      Values <- {"value"}
=============================================================================
