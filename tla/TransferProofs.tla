--------------------------- MODULE TransferProofs ---------------------------
(***************************************************************************)
(* Proofs about Transfer for every set of threads and every finite set of  *)
(* counters, whatever their ids and addresses.  The mutexes a thread holds *)
(* are those its location says, and the second mutex of a transfer ranks   *)
(* above the first: a thread that waits for another waits for a mutex of   *)
(* lower rank than the one the other waits for.                            *)
(* The first lemmas are about sums over a finite set, which Conserved      *)
(* speaks of: a sum changes by what one of its terms changes.              *)
(***************************************************************************)
EXTENDS Transfer, ProofLemmas

\* The index that SumFunction takes first, one step of its recursion, what it is
\* to solve the recursion for the subsets of S, and the solution it uses.
Pick(s) == CHOOSE x \in s : TRUE
SumBody(f, g, s) == IF s = {} THEN 0 ELSE f[Pick(s)] + g[s \ {Pick(s)}]
Solves(f, g, S) == g = [s \in SUBSET S |-> SumBody(f, g, s)]
Partial(f, S) == CHOOSE g : Solves(f, g, S)

\* Among some subsets of a finite set there is one with none of them inside.
LEMMA MinimalSubset ==
  ASSUME NEW S, IsFiniteSet(S), NEW B, B \subseteq SUBSET S, B # {}
  PROVE  \E T \in B : \A U \in B : U \subseteq T => U = T
<1>1. IsWellFoundedOn(StrictSubsetOrdering(S), FiniteSubsetsOf(S))
  BY FS_StrictSubsetOrderingWellFounded
<1>2. FiniteSubsetsOf(S) = SUBSET S
  BY FS_FiniteSubsetsOfFinite
<1>3. \E T \in B : \A U \in B : ~(<<U, T>> \in StrictSubsetOrdering(S))
  BY <1>1, <1>2, WFMin
<1> QED
  BY <1>3 DEF StrictSubsetOrdering

\* SumFunctionOnSet is the solution of the recursion, at the whole set.
LEMMA SumIsPartial ==
  ASSUME NEW f, NEW S
  PROVE  SumFunctionOnSet(f, S) = Partial(f, S)[S]
  BY DEF SumFunctionOnSet, FoldFunctionOnSet, MapThenFoldSet, Partial, Solves, SumBody, Pick

\* Two solutions of the recursion agree wherever both are defined.
LEMMA PartialAgree ==
  ASSUME NEW f, NEW S, IsFiniteSet(S), NEW T \in SUBSET S, NEW g, NEW h,
         Solves(f, g, S), Solves(f, h, T)
  PROVE  \A s \in SUBSET T : g[s] = h[s]
<1> DEFINE B == {s \in SUBSET T : g[s] # h[s]}
<1> SUFFICES ASSUME B # {} PROVE FALSE
  OBVIOUS
<1>1. PICK s \in B : \A u \in B : u \subseteq s => u = s
  <2>1. B \subseteq SUBSET S
    OBVIOUS
  <2> HIDE DEF B
  <2> QED
    BY <2>1, MinimalSubset
<1>2. g[s] = SumBody(f, g, s) /\ h[s] = SumBody(f, h, s)
  BY DEF Solves
<1>3. s # {}
  BY <1>2 DEF SumBody
<1>4. Pick(s) \in s
  BY <1>3 DEF Pick
<1>5. g[s \ {Pick(s)}] = h[s \ {Pick(s)}]
  <2>1. s \ {Pick(s)} \in SUBSET T /\ s \ {Pick(s)} # s
    BY <1>4
  <2> QED
    BY <2>1, <1>1
<1> QED
  BY <1>2, <1>5 DEF SumBody

\* The recursion has a solution on the subsets of a finite set.
LEMMA PartialExists ==
  ASSUME NEW f, NEW S, IsFiniteSet(S)
  PROVE  Solves(f, Partial(f, S), S)
<1> DEFINE B == {T \in SUBSET S : ~ \E g : Solves(f, g, T)}
<1> SUFFICES B = {}
  BY DEF Partial
<1> SUFFICES ASSUME B # {} PROVE FALSE
  OBVIOUS
<1>1. PICK T \in B : \A U \in B : U \subseteq T => U = T
  <2>1. B \subseteq SUBSET S
    OBVIOUS
  <2> HIDE DEF B
  <2> QED
    BY <2>1, MinimalSubset
<1>2. ASSUME NEW U \in SUBSET T, U # T PROVE Solves(f, Partial(f, U), U)
  <2>1. U \notin B /\ U \in SUBSET S
    BY <1>1, <1>2
  <2>2. \E g : Solves(f, g, U)
    BY <2>1
  <2> QED
    BY <2>2 DEF Partial
<1> DEFINE Rest(s) == s \ {Pick(s)}
           h == [s \in SUBSET T |-> IF s = {} THEN 0 ELSE f[Pick(s)] + Partial(f, Rest(s))[Rest(s)]]
<1>3. ASSUME NEW s \in SUBSET T, s # {} PROVE h[Rest(s)] = Partial(f, Rest(s))[Rest(s)]
  <2> DEFINE u == Rest(s)
  <2>1. Pick(s) \in s
    BY <1>3 DEF Pick
  <2>2. u \in SUBSET T /\ u # T
    BY <2>1
  <2>3. Solves(f, Partial(f, u), u)
    BY <1>2, <2>2
  <2>4. Partial(f, u)[u] = SumBody(f, Partial(f, u), u)
    <3> HIDE DEF u
    <3> QED BY <2>3 DEF Solves
  <2>5. CASE u = {}
    BY <2>4, <2>5, <2>2 DEF SumBody
  <2>6. CASE u # {}
    <3>1. Pick(u) \in u
      BY <2>6 DEF Pick
    <3>2. Rest(u) \in SUBSET u /\ Rest(u) \in SUBSET T /\ Rest(u) # T
      BY <3>1, <2>2
    <3>3. Solves(f, Partial(f, Rest(u)), Rest(u))
      BY <3>2, <1>2
    <3>4. IsFiniteSet(u)
      BY <2>2, FS_Subset
    <3>5. Partial(f, u)[Rest(u)] = Partial(f, Rest(u))[Rest(u)]
      <4> HIDE DEF u
      <4>1. Rest(u) \in SUBSET Rest(u)
        OBVIOUS
      <4> HIDE DEF Rest
      <4> QED
        BY <4>1, <2>3, <3>2, <3>3, <3>4, PartialAgree
    <3>6. h[u] = f[Pick(u)] + Partial(f, Rest(u))[Rest(u)]
      BY <2>2, <2>6
    <3>7. Partial(f, u)[u] = f[Pick(u)] + Partial(f, u)[Rest(u)]
      BY <2>4, <2>6 DEF SumBody
    <3> QED
      BY <3>5, <3>6, <3>7
  <2> QED
    BY <2>5, <2>6
<1>4. Solves(f, h, T)
  <2>1. ASSUME NEW s \in SUBSET T PROVE h[s] = SumBody(f, h, s)
    <3>1. CASE s = {}
      BY <3>1 DEF SumBody
    <3>2. CASE s # {}
      BY <3>2, <1>3 DEF SumBody
    <3> QED
      BY <3>1, <3>2
  <2>2. h = [s \in SUBSET T |-> h[s]]
    OBVIOUS
  <2> HIDE DEF h
  <2> QED
    BY <2>1, <2>2 DEF Solves
<1> QED
  BY <1>1, <1>4

\* The sum over no index.
LEMMA SumEmpty ==
  ASSUME NEW f
  PROVE  SumFunctionOnSet(f, {}) = 0
<1>1. Solves(f, Partial(f, {}), {})
  BY PartialExists, FS_EmptySet
<1>2. Partial(f, {})[{}] = SumBody(f, Partial(f, {}), {})
  BY <1>1 DEF Solves
<1> QED
  BY <1>2, SumIsPartial DEF SumBody

\* The sum adds the value at the index it picks to the sum over the others.
LEMMA SumPick ==
  ASSUME NEW f, NEW S, IsFiniteSet(S), S # {}
  PROVE  Pick(S) \in S /\ SumFunctionOnSet(f, S) = f[Pick(S)] + SumFunctionOnSet(f, S \ {Pick(S)})
<1> DEFINE R == S \ {Pick(S)}
<1>0. Pick(S) \in S
  BY DEF Pick
<1>1. R \in SUBSET S /\ R \in SUBSET R /\ S \in SUBSET S
  OBVIOUS
<1>2. IsFiniteSet(R)
  BY <1>1, FS_Subset
<1>3. Solves(f, Partial(f, S), S) /\ Solves(f, Partial(f, R), R)
  BY <1>2, PartialExists
<1>4. Partial(f, S)[R] = Partial(f, R)[R]
  <2> HIDE DEF R
  <2> QED
    BY <1>1, <1>3, PartialAgree
<1>5. Partial(f, S)[S] = SumBody(f, Partial(f, S), S)
  BY <1>3, <1>1 DEF Solves
<1> QED
  BY <1>0, <1>4, <1>5, SumIsPartial DEF SumBody

\* A sum of integers is an integer.
LEMMA SumInt ==
  ASSUME NEW S, IsFiniteSet(S), NEW f, \A x \in S : f[x] \in Int
  PROVE  SumFunctionOnSet(f, S) \in Int
<1> DEFINE B == {T \in SUBSET S : SumFunctionOnSet(f, T) \notin Int}
<1> SUFFICES ASSUME B # {} PROVE FALSE
  OBVIOUS
<1>1. PICK T \in B : \A U \in B : U \subseteq T => U = T
  <2>1. B \subseteq SUBSET S
    OBVIOUS
  <2> HIDE DEF B
  <2> QED
    BY <2>1, MinimalSubset
<1>2. T # {}
  <2>1. SumFunctionOnSet(f, {}) \in Int
    BY SumEmpty
  <2> QED
    BY <2>1
<1>3. IsFiniteSet(T)
  BY FS_Subset
<1>4. Pick(T) \in T /\ SumFunctionOnSet(f, T) = f[Pick(T)] + SumFunctionOnSet(f, T \ {Pick(T)})
  BY <1>2, <1>3, SumPick
<1>5. SumFunctionOnSet(f, T \ {Pick(T)}) \in Int
  BY <1>1, <1>4
<1> QED
  BY <1>4, <1>5, <1>1

\* Any index may be taken out of the sum first.
LEMMA SumRemove ==
  ASSUME NEW S, IsFiniteSet(S), NEW f, \A x \in S : f[x] \in Int, NEW x \in S
  PROVE  SumFunctionOnSet(f, S) = f[x] + SumFunctionOnSet(f, S \ {x})
<1> DEFINE Sum(T) == SumFunctionOnSet(f, T)
           B == {T \in SUBSET S : \E y \in T : Sum(T) # f[y] + Sum(T \ {y})}
<1> SUFFICES ASSUME B # {} PROVE FALSE
  OBVIOUS
<1>1. PICK T \in B : \A U \in B : U \subseteq T => U = T
  <2>1. B \subseteq SUBSET S
    OBVIOUS
  <2> HIDE DEF B
  <2> QED
    BY <2>1, MinimalSubset
<1>2. PICK y \in T : Sum(T) # f[y] + Sum(T \ {y})
  OBVIOUS
<1>3. IsFiniteSet(T)
  BY FS_Subset
<1> DEFINE p == Pick(T)
<1>4. p \in T /\ Sum(T) = f[p] + Sum(T \ {p})
  BY <1>2, <1>3, SumPick
<1>5. p # y
  BY <1>2, <1>4
<1> HIDE DEF p
<1>6. Sum(T \ {p}) = f[y] + Sum((T \ {p}) \ {y})
  BY <1>1, <1>4, <1>5, ZenonT(30)
<1>7. Sum(T \ {y}) = f[p] + Sum((T \ {y}) \ {p})
  BY <1>1, <1>2, <1>4, <1>5
<1>8. (T \ {p}) \ {y} = (T \ {y}) \ {p}
  OBVIOUS
<1>9. IsFiniteSet((T \ {y}) \ {p})
  BY <1>3, FS_RemoveElement
<1>10. Sum((T \ {y}) \ {p}) \in Int
  BY <1>9, SumInt
<1>11. f[y] \in Int /\ f[p] \in Int
  BY <1>2, <1>4
<1> DEFINE z == SumFunctionOnSet(f, (T \ {y}) \ {p})
<1>12. SumFunctionOnSet(f, T) = f[p] + (f[y] + z) /\ SumFunctionOnSet(f, T \ {y}) = f[p] + z
  BY <1>4, <1>6, <1>7, <1>8
<1>13. SumFunctionOnSet(f, T) # f[y] + (f[p] + z)
  BY <1>2, <1>12
<1>14. z \in Int
  BY <1>10
<1> HIDE DEF z
<1> QED
  BY <1>11, <1>12, <1>13, <1>14

\* The sum depends only on the values at the indices.
LEMMA SumSame ==
  ASSUME NEW S, IsFiniteSet(S), NEW f, NEW g, \A x \in S : f[x] = g[x]
  PROVE  SumFunctionOnSet(f, S) = SumFunctionOnSet(g, S)
<1> DEFINE B == {T \in SUBSET S : SumFunctionOnSet(f, T) # SumFunctionOnSet(g, T)}
<1> SUFFICES ASSUME B # {} PROVE FALSE
  OBVIOUS
<1>1. PICK T \in B : \A U \in B : U \subseteq T => U = T
  <2>1. B \subseteq SUBSET S
    OBVIOUS
  <2> HIDE DEF B
  <2> QED
    BY <2>1, MinimalSubset
<1>2. T # {}
  BY <1>1, SumEmpty
<1>3. IsFiniteSet(T)
  BY FS_Subset
<1>4. /\ Pick(T) \in T
      /\ SumFunctionOnSet(f, T) = f[Pick(T)] + SumFunctionOnSet(f, T \ {Pick(T)})
      /\ SumFunctionOnSet(g, T) = g[Pick(T)] + SumFunctionOnSet(g, T \ {Pick(T)})
  BY <1>2, <1>3, SumPick
<1>5. SumFunctionOnSet(f, T \ {Pick(T)}) = SumFunctionOnSet(g, T \ {Pick(T)})
  BY <1>1, <1>4
<1> QED
  BY <1>4, <1>5, <1>1

\* Changing one value changes the sum by the difference.
LEMMA SumUpdate ==
  ASSUME NEW S, IsFiniteSet(S), NEW f \in [S -> Int], NEW x \in S, NEW v \in Int
  PROVE  /\ SumFunction(f) \in Int
         /\ SumFunction([f EXCEPT ![x] = v]) = SumFunction(f) - f[x] + v
<1> DEFINE g == [f EXCEPT ![x] = v]
<1>1. g \in [S -> Int] /\ g[x] = v /\ \A y \in S \ {x} : g[y] = f[y]
  OBVIOUS
<1>2. IsFiniteSet(S \ {x})
  BY FS_RemoveElement
<1>3. SumFunctionOnSet(f, S) = f[x] + SumFunctionOnSet(f, S \ {x})
  BY SumRemove
<1> HIDE DEF g
<1>4. SumFunctionOnSet(g, S) = v + SumFunctionOnSet(g, S \ {x})
  BY <1>1, SumRemove
<1>5. SumFunctionOnSet(f, S \ {x}) = SumFunctionOnSet(g, S \ {x})
  BY <1>1, <1>2, SumSame
<1>6. SumFunctionOnSet(f, S \ {x}) \in Int /\ SumFunctionOnSet(f, S) \in Int
  BY <1>2, SumInt
<1>7. SumFunction(f) = SumFunctionOnSet(f, S) /\ SumFunction(g) = SumFunctionOnSet(g, S)
  BY <1>1 DEF SumFunction
<1> QED
  BY <1>3, <1>4, <1>5, <1>6, <1>7 DEF g

\* The mutexes that thread t holds, by its location.
Holds(t) == {c \in {First(t)} : pc[t] \in {"lock_2", "body", "unlock_2", "unlock_1"}}
            \cup {c \in {Second(t)} : pc[t] \in {"body", "unlock_2"}}

OwnersMatch == \A t \in Threads, c \in Counters : owner[c] = t <=> c \in Holds(t)

IInv == TypeOK /\ OwnersMatch /\ Conserved

\* The order of locking: by id, then by address.
Rank(c) == Id[c] * AddrSpace + Addr[c]

\* The mutex that a thread at one of the two locks asks for.
Wanted(t) == IF pc[t] = "lock_1" THEN First(t) ELSE Second(t)
-----------------------------------------------------------------------------
\* The two mutexes of a transfer are those of its two counters.
LEMMA FirstSecond ==
  ASSUME TypeOK, NEW t \in Threads
  PROVE  /\ First(t) \in Counters /\ Second(t) \in Counters
         /\ pc[t] # "idle" => First(t) # Second(t)
  BY DEF TypeOK, First, Second

\* First and Second depend on the arguments of the transfer alone.
LEMMA SameArgs ==
  ASSUME NEW t, from'[t] = from[t], to'[t] = to[t]
  PROVE  First(t)' = First(t) /\ Second(t)' = Second(t)
  BY DEF First, Second

\* Every step keeps the state well-formed.
LEMMA TypeStep == TypeOK /\ [Next]_vars => TypeOK'
<1> SUFFICES ASSUME TypeOK, [Next]_vars PROVE TypeOK'
  OBVIOUS
<1>1. ASSUME NEW t \in Threads, NEW f \in Counters, NEW o \in Counters, NEW a \in Amounts,
             Call(t, f, o, a)
      PROVE  TypeOK'
  BY <1>1 DEF TypeOK, Call, Accepted
<1>2. ASSUME NEW t \in Threads, NEW c \in Counters, NEW l \in {"lock_1", "lock_2"},
             NEW m \in {"lock_2", "body"}, Lock(t, c, l, m)
      PROVE  TypeOK'
  BY <1>2 DEF TypeOK, Lock, args
<1>3. ASSUME NEW t \in Threads, NEW c \in Counters, NEW l \in {"unlock_1", "unlock_2"},
             NEW m \in {"unlock_1", "idle"}, Unlock(t, c, l, m)
      PROVE  TypeOK'
  BY <1>3 DEF TypeOK, Unlock, args
<1>4. ASSUME NEW t \in Threads, Body(t) PROVE TypeOK'
  <2>1. value' \in [Counters -> Int]
    <3>1. /\ value \in [Counters -> Int] /\ from[t] \in Counters /\ to[t] \in Counters
          /\ from[t] # to[t] /\ amount[t] \in Nat
      BY <1>4, ValueAssumption DEF TypeOK, Body
    <3> QED
      BY <1>4, <3>1 DEF Body, Moved
  <2> QED
    BY <1>4, <2>1 DEF TypeOK, Body, args
<1>5. CASE UNCHANGED vars
  BY <1>5 DEF TypeOK, vars, args
<1> QED
  BY <1>1, <1>2, <1>3, <1>4, <1>5, FirstSecond DEF Next, Step

\* Every step that changes an owner is one of the thread that owns or gets the
\* mutex, at the location that says so.
LEMMA OwnerStep == TypeOK /\ OwnersMatch /\ [Next]_vars => OwnersMatch'
<1> SUFFICES ASSUME TypeOK, OwnersMatch, [Next]_vars, NEW u \in Threads, NEW d \in Counters
             PROVE  (owner[d] = u <=> d \in Holds(u))'
  BY DEF OwnersMatch
<1>t. /\ owner \in [Counters -> Threads \cup {"free"}]
      /\ pc \in [Threads -> {"idle", "lock_1", "lock_2", "body", "unlock_2", "unlock_1"}]
      /\ from \in [Threads -> Counters] /\ to \in [Threads -> Counters]
  BY DEF TypeOK
<1>o. owner[d] = u <=> d \in Holds(u)
  BY DEF OwnersMatch
<1>f. u # "free"
  BY ThreadAssumption
<1>1. ASSUME pc'[u] = pc[u], UNCHANGED args, owner'[d] = u <=> owner[d] = u
      PROVE  (owner[d] = u <=> d \in Holds(u))'
  BY <1>1, <1>o, SameArgs DEF Holds, args
<1>2. ASSUME NEW t \in Threads, NEW f \in Counters, NEW o \in Counters, NEW a \in Amounts,
             Call(t, f, o, a)
      PROVE  (owner[d] = u <=> d \in Holds(u))'
  <2>1. CASE u = t
    BY <1>2, <2>1, <1>o, <1>t DEF Call, Holds
  <2>2. CASE u # t
    BY <1>2, <2>2, <1>o, <1>t, SameArgs DEF Call, Holds
  <2> QED
    BY <2>1, <2>2
<1>3. ASSUME NEW t \in Threads, t # u, NEW c \in Counters, NEW l, NEW m,
             Lock(t, c, l, m) \/ (c \in Holds(t) /\ Unlock(t, c, l, m))
      PROVE  (owner[d] = u <=> d \in Holds(u))'
  <2>1. owner[c] # u
    BY <1>3, <1>f DEF Lock, OwnersMatch
  <2>2. owner'[d] = u <=> owner[d] = u
    BY <1>3, <2>1, <1>f, <1>t DEF Lock, Unlock
  <2> QED
    BY <1>1, <1>3, <2>2, <1>t DEF Lock, Unlock
<1>4. ASSUME Lock(u, First(u), "lock_1", "lock_2") PROVE (owner[d] = u <=> d \in Holds(u))'
  BY <1>4, <1>o, <1>f, <1>t, SameArgs, FirstSecond DEF Lock, Holds, args
<1>5. ASSUME Lock(u, Second(u), "lock_2", "body") PROVE (owner[d] = u <=> d \in Holds(u))'
  BY <1>5, <1>o, <1>f, <1>t, SameArgs, FirstSecond DEF Lock, Holds, args
<1>6. ASSUME Unlock(u, Second(u), "unlock_2", "unlock_1") PROVE (owner[d] = u <=> d \in Holds(u))'
  BY <1>6, <1>o, <1>f, <1>t, SameArgs, FirstSecond DEF Unlock, Holds, args
<1>7. ASSUME Unlock(u, First(u), "unlock_1", "idle") PROVE (owner[d] = u <=> d \in Holds(u))'
  BY <1>7, <1>o, <1>f, <1>t, SameArgs, FirstSecond DEF Unlock, Holds, args
<1>8. ASSUME NEW t \in Threads, Body(t) PROVE (owner[d] = u <=> d \in Holds(u))'
  BY <1>8, <1>o, <1>t, SameArgs DEF Body, Holds, args
<1>9. ASSUME NEW t \in Threads, t # u, Step(t) PROVE (owner[d] = u <=> d \in Holds(u))'
  <2>1. First(t) \in Counters /\ Second(t) \in Counters
    BY FirstSecond
  <2>2. pc[t] = "unlock_2" => Second(t) \in Holds(t)
    BY DEF Holds
  <2>3. pc[t] = "unlock_1" => First(t) \in Holds(t)
    BY DEF Holds
  <2> QED
    BY <1>9, <1>3, <1>8, <2>1, <2>2, <2>3 DEF Step, Unlock
<1>10. CASE UNCHANGED vars
  BY <1>10, <1>1 DEF vars
<1> QED
  BY <1>2, <1>4, <1>5, <1>6, <1>7, <1>8, <1>9, <1>10 DEF Next, Step

\* A transfer takes from one counter what it gives to the other, and no more
\* than is there.
LEMMA ConservedStep == TypeOK /\ Conserved /\ [Next]_vars => Conserved'
<1> SUFFICES ASSUME TypeOK, Conserved, [Next]_vars PROVE Conserved'
  OBVIOUS
<1>1. CASE UNCHANGED value
  BY <1>1 DEF Conserved
<1>2. ASSUME NEW t \in Threads, Body(t), Enough(t), value' = Moved(t) PROVE Conserved'
  <2> DEFINE f == from[t]
             o == to[t]
             a == amount[t]
             v == [value EXCEPT ![f] = value[f] - a]
  <2>1. f \in Counters /\ o \in Counters /\ f # o /\ a \in Nat /\ value \in [Counters -> Int]
    BY <1>2, ValueAssumption DEF TypeOK, Body
  <2>2. v \in [Counters -> Int] /\ v[o] = value[o]
    BY <2>1
  <2>3. value' = [v EXCEPT ![o] = v[o] + a]
    BY <1>2, <2>1 DEF Moved
  <2>4. value[f] >= a
    BY <1>2 DEF Enough
  <2>5. \A c \in Counters : value'[c] >= 0
    BY <2>1, <2>2, <2>3, <2>4 DEF Conserved
  <2>6. value[f] - a \in Int /\ v[o] + a \in Int
    BY <2>1
  <2>7. SumFunction(value) \in Int /\ SumFunction(v) = SumFunction(value) - value[f] + (value[f] - a)
    <3>1. \A x \in Counters, w \in Int :
            /\ SumFunction(value) \in Int
            /\ SumFunction([value EXCEPT ![x] = w]) = SumFunction(value) - value[x] + w
      BY <2>1, FiniteAssumption, SumUpdate
    <3> QED
      BY <2>1, <2>6, <3>1
  <2> HIDE DEF v
  <2>8. SumFunction(v) \in Int /\ SumFunction(value') = SumFunction(v) - v[o] + (v[o] + a)
    <3>1. \A x \in Counters, w \in Int :
            /\ SumFunction(v) \in Int
            /\ SumFunction([v EXCEPT ![x] = w]) = SumFunction(v) - v[x] + w
      BY <2>2, FiniteAssumption, SumUpdate
    <3> QED
      BY <2>1, <2>3, <2>6, <3>1
  <2>9. SumFunction(value') = SumFunction(value)
    BY <2>1, <2>2, <2>7, <2>8
  <2> QED
    BY <2>5, <2>9 DEF Conserved
<1> QED
  BY <1>1, <1>2 DEF Next, Step, Call, Lock, Unlock, Body, vars

\* A larger id ranks higher whatever the addresses, and of equal ids the larger
\* address does.
LEMMA RankOrder ==
  ASSUME NEW c \in Counters, NEW d \in Counters, Id[c] < Id[d] \/ (Id[c] = Id[d] /\ Addr[c] < Addr[d])
  PROVE  Rank(c) < Rank(d)
<1>1. /\ Id[c] \in Nat /\ Id[d] \in Nat /\ Addr[c] \in Nat /\ Addr[d] \in Nat /\ AddrSpace \in Nat
      /\ Addr[c] < AddrSpace
  BY CounterAssumption
<1>2. \A i, j, k \in Nat : i < j => i * k + k <= j * k
  OBVIOUS
<1>3. \A i, k \in Nat : i * k \in Nat
  OBVIOUS
<1>4. CASE Id[c] < Id[d]
  <2>1. Id[c] * AddrSpace + AddrSpace <= Id[d] * AddrSpace
    BY <1>1, <1>2, <1>4
  <2>2. Id[c] * AddrSpace \in Nat /\ Id[d] * AddrSpace \in Nat
    BY <1>1, <1>3
  <2> QED
    BY <1>1, <2>1, <2>2 DEF Rank
<1>5. CASE Id[c] = Id[d] /\ Addr[c] < Addr[d]
  BY <1>1, <1>3, <1>5 DEF Rank
<1> QED
  BY <1>4, <1>5

\* Ranks are natural numbers, and there are not infinitely many.
LEMMA RankBound ==
  ASSUME NEW c \in Counters
  PROVE  Rank(c) \in Nat /\ MaxId * AddrSpace + AddrSpace \in Nat
         /\ Rank(c) <= MaxId * AddrSpace + AddrSpace
<1>1. /\ Id[c] \in Nat /\ Addr[c] \in Nat /\ AddrSpace \in Nat /\ MaxId \in Nat
      /\ Addr[c] < AddrSpace /\ Id[c] <= MaxId
  BY CounterAssumption
<1>2. \A i, j, k \in Nat : i <= j => i * k <= j * k
  OBVIOUS
<1>3. \A i, k \in Nat : i * k \in Nat
  OBVIOUS
<1>4. /\ Id[c] * AddrSpace <= MaxId * AddrSpace
      /\ Id[c] * AddrSpace \in Nat /\ MaxId * AddrSpace \in Nat
  BY <1>1, <1>2, <1>3
<1> QED
  BY <1>1, <1>4 DEF Rank

\* A transfer locks the counter of lower rank first.
LEMMA FirstBelow ==
  ASSUME TypeOK, NEW t \in Threads, pc[t] # "idle"
  PROVE  Rank(First(t)) < Rank(Second(t))
<1>1. from[t] \in Counters /\ to[t] \in Counters /\ from[t] # to[t]
  BY DEF TypeOK
<1>2. \A c \in Counters : Id[c] \in Int /\ Addr[c] \in Int
  BY CounterAssumption
<1>3. Addr[from[t]] # Addr[to[t]]
  BY <1>1, CounterAssumption
<1>4. \/ Id[First(t)] < Id[Second(t)]
      \/ Id[First(t)] = Id[Second(t)] /\ Addr[First(t)] < Addr[Second(t)]
  BY <1>1, <1>2, <1>3, SMTT(20) DEF First, Second
<1> QED
  BY <1>4, RankOrder, FirstSecond

\* One who is waited for, and waits, waits for a mutex of higher rank.
LEMMA WaitsHigher ==
  ASSUME TypeOK, OwnersMatch, NEW t \in Threads, NEW u \in Threads, NEW w \in Threads,
         WaitsFor(t, u), WaitsFor(u, w)
  PROVE  Rank(Wanted(t)) < Rank(Wanted(u))
<1>1. Wanted(t) \in Counters /\ owner[Wanted(t)] = u
  BY FirstSecond DEF WaitsFor, Wanted
<1>2. Wanted(t) \in Holds(u)
  BY <1>1 DEF OwnersMatch
<1>3. pc[u] = "lock_2" /\ Wanted(t) = First(u)
  BY <1>2 DEF WaitsFor, Holds
<1>4. Wanted(u) = Second(u)
  BY <1>3 DEF Wanted
<1> QED
  BY <1>3, <1>4, FirstBelow

\* In every set of threads one waits for none of the others: the one that asks
\* for the mutex of the highest rank.
LEMMA NoCycle ==
  ASSUME TypeOK, OwnersMatch, NEW S \in SUBSET Threads, S # {}
  PROVE  \E t \in S : \A u \in S : ~WaitsFor(t, u)
<1> SUFFICES ASSUME \A t \in S : \E u \in S : WaitsFor(t, u) PROVE FALSE
  OBVIOUS
<1> DEFINE Bound == MaxId * AddrSpace + AddrSpace
           Gap(t) == Bound - Rank(Wanted(t))
           T == {Gap(t) : t \in S}
<1>1. \A t \in S : Wanted(t) \in Counters
  BY FirstSecond DEF Wanted
<1>2. \A t \in S : Gap(t) \in Nat
  <2> SUFFICES ASSUME NEW t \in S PROVE Gap(t) \in Nat
    OBVIOUS
  <2>1. Rank(Wanted(t)) \in Nat /\ Bound \in Nat /\ Rank(Wanted(t)) <= Bound
    BY <1>1, RankBound
  <2> HIDE DEF Bound
  <2> QED
    BY <2>1
<1>3. T \in SUBSET Nat /\ T # {}
  BY <1>2
<1>4. \E n \in T : \A m \in T : n <= m
  <2> HIDE DEF T
  <2> QED
    BY <1>3, LeastNat
<1>5. PICK t \in S : \A u \in S : Gap(t) <= Gap(u)
  BY <1>4
<1>6. PICK u \in S : WaitsFor(t, u)
  OBVIOUS
<1>7. PICK w \in S : WaitsFor(u, w)
  OBVIOUS
<1>8. Rank(Wanted(t)) < Rank(Wanted(u))
  BY <1>6, <1>7, WaitsHigher
<1>9. Rank(Wanted(t)) \in Nat /\ Rank(Wanted(u)) \in Nat /\ Bound \in Nat
  BY <1>1, RankBound
<1>10. Bound - Rank(Wanted(t)) <= Bound - Rank(Wanted(u))
  BY <1>5
<1> HIDE DEF Bound
<1> QED
  BY <1>8, <1>9, <1>10
-----------------------------------------------------------------------------
\* Nobody holds a mutex at the start.
LEMMA InitIInv == Init => IInv
<1> SUFFICES ASSUME Init PROVE IInv
  OBVIOUS
<1>1. TypeOK
  BY ValueAssumption DEF Init, TypeOK
<1>2. OwnersMatch
  BY ThreadAssumption DEF Init, OwnersMatch, Holds
<1>3. Conserved
  BY ValueAssumption DEF Init, Conserved
<1> QED
  BY <1>1, <1>2, <1>3 DEF IInv

\* The inductive invariant holds in every reachable state.
LEMMA IInvHolds == Spec => []IInv
<1>1. IInv /\ [Next]_vars => IInv'
  BY TypeStep, OwnerStep, ConservedStep DEF IInv
<1> QED
  BY InitIInv, <1>1, PTL DEF Spec

\* The state of the transfers stays well-formed; above all a transfer under way
\* is between two different counters.
THEOREM TypeCorrect == Spec => []TypeOK
  BY IInvHolds, PTL DEF IInv

\* Locking by id and then by address never leaves a set of threads waiting for
\* each other, and every return path unlocks, for any number of threads and
\* counters and whatever ids they share.
THEOREM CircularWaitFree == Spec => []NoCircularWait
<1>1. IInv => NoCircularWait
  <2> SUFFICES ASSUME IInv PROVE NoCircularWait
    OBVIOUS
  <2>1. \A S \in SUBSET Threads : S # {} => \E t \in S : \A u \in S : ~WaitsFor(t, u)
    BY NoCycle DEF IInv
  <2>2. \A t \in Threads, c \in Counters : pc[t] = "idle" => owner[c] # t
    BY DEF IInv, OwnersMatch, Holds
  <2> QED
    BY <2>1, <2>2 DEF NoCircularWait
<1> QED
  BY <1>1, IInvHolds, PTL

\* Two threads in the critical section work on different counters, so that the
\* reads and writes of lines 61 to 68 may be taken as one step.
DisjointBodies ==
  \A t, u \in Threads : t # u /\ pc[t] = "body" /\ pc[u] = "body"
                         => {from[t], to[t]} \cap {from[u], to[u]} = {}

\* The locks of a transfer exclude every other transfer with a counter of it.
THEOREM BodiesDisjoint == Spec => []DisjointBodies
<1>1. IInv => DisjointBodies
  <2> SUFFICES ASSUME IInv, NEW t \in Threads, NEW u \in Threads, t # u,
                      pc[t] = "body", pc[u] = "body", NEW c,
                      c \in {from[t], to[t]}, c \in {from[u], to[u]}
               PROVE  FALSE
    BY DEF DisjointBodies
  <2>1. c \in Counters
    BY DEF IInv, TypeOK
  <2>2. c \in Holds(t) /\ c \in Holds(u)
    BY DEF Holds, First, Second
  <2> QED
    BY <2>1, <2>2 DEF IInv, OwnersMatch
<1> QED
  BY <1>1, IInvHolds, PTL

\* The total of the counters never changes and none is overdrawn, however the
\* transfers interleave.
THEOREM TotalConserved == Spec => []Conserved
  BY IInvHolds, PTL DEF IInv
=============================================================================
