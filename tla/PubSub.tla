------------------------------- MODULE PubSub -------------------------------
(***************************************************************************)
(* thread_safe_pub_sub_dispatcher.c: a table of subscribers behind a       *)
(* mutex.  publish copies the matching callbacks with the mutex held and   *)
(* calls them, one a step, without it; a callback may call the dispatcher  *)
(* in turn.  Callback and context of a subscriber are one model value.     *)
(***************************************************************************)
EXTENDS Integers, Sequences, Functions

CONSTANTS Threads, Callbacks, Topics, MAX_SUBS,
          MaxEvents,         \* bound on the calls of publish
          NoThread

DispatcherAssumption ==
  /\ MAX_SUBS \in Nat /\ MaxEvents \in Nat /\ NoThread \notin Threads
  /\ Topics # {} /\ Callbacks # {}

Slots == 1 .. MAX_SUBS

VARIABLES subs,              \* the table
          mu,                \* who holds the mutex
          stack,             \* per thread: its calls of publish, innermost first
          events, ret

vars == <<subs, mu, stack, events, ret>>
Subscriber == [active : BOOLEAN, topic : Topics, cb : Callbacks]
\* A call of publish: where it is, the copies it has still to call, by the slots
\* they come from, and, as history, the matching slots that have been active ever
\* since it began and whose callback it has not called.
Call == [topic : Topics, at : {"lock", "copied", "calls"}, owed : SUBSET Slots,
         cbs : UNION {[S -> Callbacks] : S \in SUBSET Slots}]

TypeOK == /\ subs \in [Slots -> Subscriber] /\ mu \in Threads \cup {NoThread}
          /\ stack \in [Threads -> Seq(Call)] /\ events \in 0 .. MaxEvents
          /\ ret \in {"0", "-2"}

\* The table starts cleared: topic and callback of an inactive slot are unused.
Blank == [active |-> FALSE, topic |-> CHOOSE t \in Topics : TRUE,
          cb |-> CHOOSE c \in Callbacks : TRUE]
Init == /\ subs = [s \in Slots |-> Blank] /\ mu = NoThread
        /\ stack = [t \in Threads |-> <<>>] /\ events = 0 /\ ret = "0"

\* A thread calls the dispatcher from outside, or from a callback it runs.
InCallback(t) == stack[t] # <<>> /\ Head(stack[t]).at = "calls"
CanCall(t) == stack[t] = <<>> \/ InCallback(t)
Matching(topic) == {s \in Slots : subs[s].active /\ subs[s].topic = topic}

TableFull == "-2"            \* subscribe: no free slot
\* subscribe takes the first slot that is not active.
FirstFree(s) == ~subs[s].active /\ \A r \in 1 .. s - 1 : subs[r].active
subscribe(t, topic, c) ==
  /\ CanCall(t) /\ mu = NoThread
  /\ \/ \E s \in Slots :
          /\ FirstFree(s) /\ ret' = "0"
          /\ subs' = [subs EXCEPT ![s] = [active |-> TRUE, topic |-> topic, cb |-> c]]
     \/ /\ \A s \in Slots : subs[s].active
        /\ ret' = TableFull /\ UNCHANGED subs
  /\ UNCHANGED <<mu, stack, events>>

\* unsubscribe clears every slot of the callback, of whatever topic.
unsubscribe(t, c) ==
  LET gone == {s \in Slots : subs[s].active /\ subs[s].cb = c}
      Lapse(call) == [call EXCEPT !.owed = @ \ gone] IN
  /\ CanCall(t) /\ mu = NoThread
  /\ ret' = IF gone # {} THEN "0" ELSE "-2"
  /\ subs' = [s \in Slots |-> IF s \in gone THEN [subs[s] EXCEPT !.active = FALSE] ELSE subs[s]]
  /\ stack' = [u \in Threads |-> [n \in DOMAIN stack[u] |-> Lapse(stack[u][n])]]
  /\ UNCHANGED <<mu, events>>

publish(t, topic) ==
  /\ CanCall(t) /\ events < MaxEvents /\ events' = events + 1
  /\ stack' = [stack EXCEPT ![t] = <<[topic |-> topic, at |-> "lock", owed |-> Matching(topic),
                                      cbs |-> <<>>]>> \o @]
  /\ UNCHANGED <<subs, mu, ret>>

\* The mutex once the callbacks are copied.
Unlocked(t) == NoThread
MutantLastSlot == MAX_SUBS - 1
LastSlot == MAX_SUBS
Matches(topic) == [s \in Matching(topic) \cap 1 .. LastSlot |-> subs[s].cb]
CopyMatching(t) ==
  LET call == Head(stack[t]) IN
  /\ stack[t] # <<>> /\ call.at = "lock" /\ mu = NoThread
  /\ stack' = [stack EXCEPT ![t][1] = [call EXCEPT !.at = "copied", !.cbs = Matches(call.topic)]]
  /\ mu' = Unlocked(t)
  /\ UNCHANGED <<subs, events, ret>>
\* The next of the copies, in the order of the slots.
Invoke(t) ==
  LET call == Head(stack[t]) IN
  /\ stack[t] # <<>>
  /\ \E s \in DOMAIN call.cbs :
       /\ \A r \in DOMAIN call.cbs : s <= r
       /\ stack' = [stack EXCEPT ![t][1] =
            [call EXCEPT !.at = "calls", !.cbs = Restrict(@, DOMAIN @ \ {s}),
                         !.owed = IF subs[s].cb = call.cbs[s] THEN @ \ {s} ELSE @]]
  /\ UNCHANGED <<subs, mu, events, ret>>
Done(call) == call.at # "lock" /\ DOMAIN call.cbs = {}
Return(t) ==
  /\ stack[t] # <<>> /\ Done(Head(stack[t]))
  /\ stack' = [stack EXCEPT ![t] = Tail(@)]
  /\ mu' = (IF mu = t THEN NoThread ELSE mu) /\ ret' = "0"
  /\ UNCHANGED <<subs, events>>

Step(t) == CopyMatching(t) \/ Invoke(t) \/ Return(t)
Calls == \E t \in Threads :
           \/ \E topic \in Topics : publish(t, topic)
           \/ \E c \in Callbacks : unsubscribe(t, c) \/ \E topic \in Topics : subscribe(t, topic, c)
Next == Calls \/ \E t \in Threads : Step(t)
Spec == Init /\ [][Next]_vars
\* Threads keep running, and a callback returns in the end.
FairSpec == Spec /\ \A t \in Threads : WF_vars(Step(t))
-----------------------------------------------------------------------------
\* "publish calls every active matching subscriber": whoever subscribes or
\* unsubscribes meanwhile, a publish that returns has called the callback of
\* every subscription that was active all through it.
NoneMissed == \A t \in Threads : \A n \in DOMAIN stack[t] :
                Done(stack[t][n]) => stack[t][n].owed = {}

\* subscribe overwrites no subscription: one ends by unsubscribe only.
NoneOverwritten == \A s \in Slots :
  subs[s].active /\ subs'[s].active => subs'[s] = subs[s]

\* "Do not hold d->mu while invoking callbacks": a call from a callback is
\* never locked out by the publish that runs it.
CallbacksMayCall == \A t \in Threads : InCallback(t) => mu # t
=============================================================================
