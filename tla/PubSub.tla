------------------------------- MODULE PubSub -------------------------------
(***************************************************************************)
(* The PubSub of packages/effect/src/internal/pubsub.ts: fibers publish,    *)
(* every subscription sees what was published while it was subscribed, and   *)
(* a strategy says what happens when the slowest one is too far behind.     *)
(*                                                                         *)
(* A client is a fiber that performs one operation, in the synchronous steps *)
(* of the code.  A subscription is subscribed and left by the fiber that     *)
(* owns its scope.  Each step ends with the loops that match waiting takers, *)
(* values and waiting publishers; `calls` is the stack of their calls.       *)
(***************************************************************************)
EXTENDS AtomicPubSub, SequencesExt, Filter

CONSTANTS Client,
          Hub,             \* the PubSub itself, among those who have been polled
          Program,         \* what each client may do: a set of operations
          Kind,            \* the <<strategy, capacity>> a PubSub may have
          Interruptible,   \* the clients that somebody may interrupt
          Leaving          \* the subscriptions whose owner may leave on its own

(* An operation, the subscription it is about, and how many values.          *)
Operation == [op : {"publish", "publishAll", "unsafeOffer", "taking", "between", "shutdown"},
              on : Subscription, lo : Nat, hi : Nat]

ASSUME ProgramAssumption ==
  /\ Program \in [Client -> SUBSET Operation]
  /\ \A c \in Client : \A o \in Program[c] : o.op \in {"publish", "unsafeOffer"} => o.lo = 1
ASSUME KindAssumption ==
  Kind \subseteq {"backPressure", "dropping", "sliding"} \X (Nat \ {0}) \cup {<<"dropping", Unbounded>>}
ASSUME ClientAssumption == Interruptible \subseteq Client
ASSUME SubscriptionAssumption == Leaving \subseteq Subscription /\ Hub \notin Subscription

VARIABLES
  strategy, ring,
  publishers,     \* BackPressureStrategy.publishers
  pollers,        \* of each subscription
  subscribers,    \* the subscriptions somebody may be waiting on, in order
  phase,          \* of each subscription
  isShutdown, hook, scopeOpen,
  closing,        \* children of the closed scope: yet to be closed, and being closed
  polled,         \* Deferreds a shutdown has yet to interrupt
  calls,          \* the loops under way, innermost first
  pc, doing,      \* step of each client, and what is left of its operation
  rest,           \* values of a publisher that did not fit
  deferred,       \* the Deferred a client made last
  interrupted,    \* an interruption is in the fiber's inbox
  log, seen       \* history: what was stored and for whom, what each subscription read

values   == <<ring, log, seen>>
waiting  == <<publishers, pollers, subscribers, deferred>>
hub      == <<isShutdown, hook, scopeOpen, closing>>
scopes   == <<phase, polled>>
programs == <<doing, rest, interrupted>>
vars == <<strategy, values, waiting, hub, scopes, calls, pc, programs>>

Value == Client \X Nat
Label == {"publish", "publishAll", "unsafeOffer", "taking", "between", "shutdown",
          "surplus", "joining", "waiting", "cancelling", "hook", "scope", "children", "freeing",
          "accepted", "refused", "taken", "stopped", "closed"}

TypeOK ==
  /\ publishers \in Seq(Value)
  /\ pollers \in [Subscription -> Seq(Client)]
  /\ subscribers \in Seq(Subscription)
  /\ phase \in [Subscription -> {"out", "joining", "active", "leaving", "freeing", "ending", "gone"}]
  /\ isShutdown \in BOOLEAN /\ hook \in BOOLEAN /\ scopeOpen \in BOOLEAN
  /\ closing \in [todo : SUBSET Subscription, now : SUBSET Subscription]
  /\ polled \in [Subscription \cup {Hub} -> SUBSET Client]
  /\ calls \in Seq(Subscription \cup {Hub})
  /\ pc \in [Client -> Label]
  /\ doing \in [Client -> Operation]
  /\ rest \in [Client -> Seq(Value)]
  /\ deferred \in [Client -> {"none", "pending", "done", "interrupted"}]
  /\ interrupted \in [Client -> BOOLEAN]
  /\ log \in Seq([value : Value, audience : SUBSET Subscription])
  /\ seen \in [Subscription -> Seq(Value)]

Init ==
  /\ \E kind \in Kind : strategy = kind[1] /\ ring = EmptyRing(kind[2])
  /\ publishers = <<>> /\ subscribers = <<>> /\ calls = <<>> /\ log = <<>>
  /\ pollers = [s \in Subscription |-> <<>>]
  /\ seen = [s \in Subscription |-> <<>>]
  /\ phase = [s \in Subscription |-> "out"]
  /\ isShutdown = FALSE /\ hook = FALSE /\ scopeOpen = TRUE
  /\ closing = [todo |-> {}, now |-> {}]
  /\ polled = [p \in Subscription \cup {Hub} |-> {}]
  /\ doing \in {program \in [Client -> UNION {Program[c] : c \in Client}] :
                  \A c \in Client : program[c] \in Program[c]}
  /\ pc = [c \in Client |-> doing[c].op]
  /\ rest = [c \in Client |-> <<>>]
  /\ deferred = [c \in Client |-> "none"]
  /\ interrupted = [c \in Client |-> FALSE]

-----------------------------------------------------------------------------
Idle == calls = <<>>
At(c, label) == Idle /\ pc[c] = label /\ ~interrupted[c]
Goto(c, label) == pc' = [pc EXCEPT ![c] = label]

(* The Dequeue is in somebody's hands; its shutdownFlag is set.              *)
Given(s) == phase[s] \notin {"out", "joining"}
Shut(s) == phase[s] \in {"freeing", "ending", "gone"}

Settle(S, how) ==
  deferred' = [c \in Client |-> IF c \in S /\ deferred[c] = "pending" THEN how ELSE deferred[c]]

(* The values vs, as far as r2 has stored them, go into the history.         *)
Stores(r2, vs) ==
  /\ ring' = r2
  /\ log' = log \o [k \in 1..(r2.pub - ring.pub) |->
                      [value |-> vs[k], audience |-> ring.subscribed]]

(* poll, pollUpTo: subscription s reads n values.                            *)
Reads(s, n) ==
  /\ ring' = Release(ring, s, n)
  /\ seen' = [seen EXCEPT ![s] = @ \o NextValues(ring, s, n)]

(* What is left of a line without one of it.                                *)
Dropped(line, x) == Keep(line, ToSet(line) \ {x})

(* Only BackPressureStrategy has publishers to look for.                     *)
OnEmptySpace == IF strategy = "backPressure" THEN <<Hub>> ELSE <<>>

-----------------------------------------------------------------------------
(* The loops.  A subscription on `calls` stands for unsafeCompletePollers of *)
(* it, Hub for unsafeOnPubSubEmptySpace; unsafeCompleteSubscribers calls the *)
(* first for every subscription in subscribers.                             *)

CompletePollers(s) ==
  /\ IF Unread(ring, s) > 0 /\ pollers[s] # <<>>
       THEN /\ Reads(s, 1)
            /\ pollers' = [pollers EXCEPT ![s] = Tail(@)]
            /\ Settle({Head(pollers[s])}, "done")
            /\ calls' = OnEmptySpace \o calls
            /\ UNCHANGED subscribers
       ELSE /\ subscribers' = IF Unread(ring, s) > 0 THEN Dropped(subscribers, s) ELSE subscribers
            /\ calls' = Tail(calls)
            /\ UNCHANGED <<ring, seen, pollers, deferred>>
  /\ UNCHANGED <<publishers, log>>

(* The last value of a publisher completes its Deferred.                     *)
IsLast(v) == v[2] = doing[v[1]].lo

OnPubSubEmptySpace ==
  /\ IF publishers # <<>> /\ ~IsFull(ring)
       THEN /\ Stores(Publish(ring, Head(publishers)), <<Head(publishers)>>)
            /\ publishers' = Tail(publishers)
            /\ Settle(IF IsLast(Head(publishers)) THEN {Head(publishers)[1]} ELSE {}, "done")
            /\ calls' = subscribers \o calls
       ELSE /\ calls' = Tail(calls)
            /\ UNCHANGED <<ring, log, publishers, deferred>>
  /\ UNCHANGED <<seen, pollers, subscribers>>

Loop ==
  /\ ~Idle
  /\ \/ Head(calls) = Hub /\ OnPubSubEmptySpace
     \/ Head(calls) # Hub /\ CompletePollers(Head(calls))
  /\ UNCHANGED <<strategy, hub, scopes, pc, programs>>

-----------------------------------------------------------------------------
(* publish, unsafeOffer, publishAll.                                        *)

Values(c) == [k \in 1..doing[c].lo |-> <<c, k>>]

(* Who published something tells the subscribers.                           *)
Published(c, r2) ==
  /\ Stores(r2, Values(c))
  /\ calls' = subscribers

PublishOne(c) ==
  /\ \E op \in {"publish", "unsafeOffer"} : At(c, op)
  /\ CASE isShutdown -> /\ Goto(c, IF pc[c] = "publish" THEN "stopped" ELSE "refused")
                        /\ UNCHANGED <<ring, log, calls, rest>>
       [] ~isShutdown /\ ~IsFull(ring) -> /\ Published(c, Publish(ring, <<c, 1>>))
                                          /\ Goto(c, "accepted")
                                          /\ UNCHANGED rest
       [] ~isShutdown /\ IsFull(ring) ->
            /\ Goto(c, IF pc[c] = "unsafeOffer" \/ strategy = "dropping" THEN "refused"
                                                                        ELSE "surplus")
            /\ rest' = [rest EXCEPT ![c] = Values(c)]
            /\ UNCHANGED <<ring, log, calls>>
  /\ UNCHANGED <<strategy, seen, waiting, hub, scopes, doing, interrupted>>

PublishMany(c) ==
  /\ At(c, "publishAll")
  /\ IF isShutdown
       THEN Goto(c, "stopped") /\ UNCHANGED <<ring, log, calls, rest>>
       ELSE LET surplus == After(Values(c), Fitting(ring, Len(Values(c))))
            IN /\ Published(c, PublishAll(ring, Values(c)))
               /\ rest' = [rest EXCEPT ![c] = surplus]
               /\ Goto(c, IF surplus = <<>> THEN "accepted"
                          ELSE IF strategy = "dropping" THEN "refused" ELSE "surplus")
  /\ UNCHANGED <<strategy, seen, waiting, hub, scopes, doing, interrupted>>

(* SlidingStrategy.handleSurplus: each value makes its own room.             *)
SlideIn(r, vs) ==
  LET slid[n \in 0..Len(vs)] ==
        IF n = 0 THEN r ELSE Publish(DropOldest(slid[n - 1]), vs[n])
  IN slid[Len(vs)]

Slide(c) ==
  /\ At(c, "surplus")
  /\ strategy = "sliding"
  /\ Stores(SlideIn(ring, rest[c]), rest[c])
  /\ calls' = subscribers
  /\ Goto(c, "accepted")
  /\ UNCHANGED <<strategy, seen, waiting, hub, scopes, programs>>

(* Seeded bug: a publisher that found no room does not look again.           *)
LookNoMore == <<>>

(* A publisher that is about to wait looks again for room.                   *)
LookAgain == <<Hub>> \o subscribers

(* BackPressureStrategy.handleSurplus.                                      *)
Suspend(c) ==
  /\ At(c, "surplus")
  /\ strategy = "backPressure"
  /\ publishers' = publishers \o rest[c]
  /\ deferred' = [deferred EXCEPT ![c] = "pending"]
  /\ calls' = LookAgain
  /\ Goto(c, IF isShutdown THEN "cancelling" ELSE "waiting")
  /\ UNCHANGED <<strategy, values, pollers, subscribers, hub, scopes, programs>>

-----------------------------------------------------------------------------
(* take, takeUpTo, takeAll, takeBetween of a subscription.                   *)

(* What remains to be done after n values.                                  *)
Got(c, n, next) ==
  /\ doing' = [doing EXCEPT ![c].lo = IF @ > n THEN @ - n ELSE 0,
                            ![c].hi = IF @ > n THEN @ - n ELSE 0]
  /\ Goto(c, IF doing[c].lo > n THEN next ELSE "taken")

(* How many values an operation may read at once: none past other takers.    *)
Available(s) == IF pollers[s] = <<>> THEN Unread(ring, s) ELSE 0

Take(c) ==
  /\ At(c, "taking")
  /\ LET s == doing[c].on
     IN /\ Given(s)
        /\ IF ~Shut(s) /\ Available(s) > 0
             THEN Reads(s, 1) /\ calls' = OnEmptySpace /\ Got(c, 1, "between")
             ELSE /\ Goto(c, IF Shut(s) THEN "stopped" ELSE "joining")
                  /\ UNCHANGED <<ring, seen, calls, doing>>
  /\ UNCHANGED <<strategy, log, waiting, hub, scopes, rest, interrupted>>

(* takeBetween: takeUpTo(hi), then takes for what is missing.                *)
TakeBetween(c) ==
  /\ At(c, "between")
  /\ LET s == doing[c].on
         n == Least(doing[c].hi, Available(s))
     IN /\ Given(s)
        /\ IF doing[c].hi < doing[c].lo \/ Shut(s)
             THEN /\ Goto(c, IF doing[c].hi < doing[c].lo THEN "taken" ELSE "stopped")
                  /\ UNCHANGED <<ring, seen, calls, doing>>
             ELSE Reads(s, n) /\ calls' = OnEmptySpace /\ Got(c, n, "taking")
  /\ UNCHANGED <<strategy, log, waiting, hub, scopes, rest, interrupted>>

(* addSubscribers.                                                          *)
Added(s) == IF s \in ToSet(subscribers) THEN subscribers ELSE Append(subscribers, s)

(* Seeded bug: a taker about to wait does not see the shutdown.               *)
NotStopped(s) == "waiting"

StopOrWait(s) == IF Shut(s) THEN "cancelling" ELSE "waiting"

(* The taker is among the pollers before it looks again.                     *)
Join(c) ==
  /\ At(c, "joining")
  /\ LET s == doing[c].on
     IN /\ pollers' = [pollers EXCEPT ![s] = Append(@, c)]
        /\ subscribers' = Added(s)
        /\ calls' = <<s>>
        /\ Goto(c, StopOrWait(s))
  /\ deferred' = [deferred EXCEPT ![c] = "pending"]
  /\ UNCHANGED <<strategy, values, publishers, hub, scopes, programs>>

-----------------------------------------------------------------------------
(* Waiting for a Deferred, and the finalizer of an interrupted wait.         *)

Publishes(c) == rest[c] # <<>>

Resume(c) ==
  /\ At(c, "waiting")
  /\ \/ deferred[c] = "interrupted" /\ Goto(c, "cancelling") /\ UNCHANGED doing
     \/ deferred[c] = "done" /\ Publishes(c) /\ Goto(c, "accepted") /\ UNCHANGED doing
     \/ deferred[c] = "done" /\ ~Publishes(c) /\ Got(c, 1, "between")
  /\ UNCHANGED <<strategy, values, waiting, hub, scopes, calls, rest, interrupted>>

Steps == {"surplus", "taking", "between", "joining", "waiting"}

Interrupt(c) ==
  /\ Idle
  /\ c \in Interruptible
  /\ pc[c] \in Steps
  /\ interrupted' = [interrupted EXCEPT ![c] = TRUE]
  /\ UNCHANGED <<strategy, values, waiting, hub, scopes, calls, pc, doing, rest>>

Stop(c) ==
  /\ Idle
  /\ interrupted[c]
  /\ pc[c] \in Steps
  /\ Goto(c, IF pc[c] = "waiting" THEN "cancelling" ELSE "stopped")
  /\ UNCHANGED <<strategy, values, waiting, hub, scopes, calls, programs>>

Cancel(c) ==
  /\ Idle
  /\ pc[c] = "cancelling"
  /\ pollers' = [s \in Subscription |-> Dropped(pollers[s], c)]
  /\ publishers' = Keep(publishers, {v \in ToSet(publishers) : v[1] # c})
  /\ Goto(c, "stopped")
  /\ UNCHANGED <<strategy, values, subscribers, deferred, hub, scopes, calls, programs>>

-----------------------------------------------------------------------------
(* The life of a subscription.                                              *)

Phase(s, next) == phase' = [phase EXCEPT ![s] = next]

(* subscribe is not interruptible, and not one step: the subscription reads  *)
(* on before the scope of the PubSub knows of it.                           *)
Subscribe(s) ==
  /\ Idle
  /\ phase[s] = "out"
  /\ ring' = Subscribed(ring, s)
  /\ Phase(s, "joining")
  /\ UNCHANGED <<strategy, log, seen, waiting, hub, polled, calls, pc, programs>>

(* addFinalizer: that of a closed scope runs at once.                        *)
AddFinalizer(s) ==
  /\ Idle
  /\ phase[s] = "joining"
  /\ Phase(s, IF scopeOpen THEN "active" ELSE "freeing")
  /\ UNCHANGED <<strategy, values, waiting, hub, polled, calls, pc, programs>>

(* The scope of the fiber that subscribed is closed.                         *)
Leave(s) ==
  /\ Idle
  /\ s \in Leaving
  /\ phase[s] = "active"
  /\ Phase(s, "leaving")
  /\ UNCHANGED <<strategy, values, waiting, hub, polled, calls, pc, programs>>

(* SubscriptionImpl.shutdown.                                               *)
ShutSubscription(s) ==
  /\ Idle
  /\ phase[s] = "leaving"
  /\ Phase(s, "freeing")
  /\ polled' = [polled EXCEPT ![s] = ToSet(pollers[s])]
  /\ pollers' = [pollers EXCEPT ![s] = <<>>]
  /\ UNCHANGED <<strategy, values, publishers, subscribers, deferred, hub, calls, pc, programs>>

FreeTakers(s) ==
  /\ Idle
  /\ phase[s] = "freeing"
  /\ Phase(s, "ending")
  /\ Settle(polled[s], "interrupted")
  /\ polled' = [polled EXCEPT ![s] = {}]
  /\ UNCHANGED <<strategy, values, publishers, pollers, subscribers, hub, calls, pc, programs>>

Unsubscribe(s) ==
  /\ Idle
  /\ phase[s] = "ending"
  /\ Phase(s, "gone")
  /\ ring' = Unsubscribed(ring, s)
  /\ subscribers' = Dropped(subscribers, s)
  /\ calls' = OnEmptySpace
  /\ UNCHANGED <<strategy, log, seen, publishers, pollers, deferred, hub, polled, pc, programs>>

-----------------------------------------------------------------------------
(* shutdown of the PubSub, which is not interruptible.                       *)

Shutdown(c) ==
  /\ At(c, "shutdown")
  /\ isShutdown' = TRUE
  /\ Goto(c, "hook")
  /\ UNCHANGED <<strategy, values, waiting, hook, scopeOpen, closing, scopes, calls, programs>>

CompleteHook(c) ==
  /\ At(c, "hook")
  /\ hook' = TRUE
  /\ Goto(c, IF hook THEN "closed" ELSE "scope")
  /\ UNCHANGED <<strategy, values, waiting, isShutdown, scopeOpen, closing, scopes, calls, programs>>

CloseScope(c) ==
  /\ At(c, "scope")
  /\ scopeOpen' = FALSE
  /\ closing' = [closing EXCEPT !.todo = {s \in Subscription : phase[s] = "active"}]
  /\ Goto(c, "children")
  /\ UNCHANGED <<strategy, values, waiting, isShutdown, hook, scopes, calls, programs>>

NoChildOpen == \A s \in closing.now : phase[s] = "gone"

(* The children one after the other; one that its fiber has closed is done.  *)
CloseChild(c) ==
  /\ At(c, "children")
  /\ NoChildOpen
  /\ \E s \in closing.todo :
       /\ closing' = [todo |-> closing.todo \ {s},
                      now |-> IF phase[s] = "active" THEN {s} ELSE {}]
       /\ IF phase[s] = "active" THEN Phase(s, "leaving") ELSE UNCHANGED phase
  /\ UNCHANGED <<strategy, values, waiting, isShutdown, hook, scopeOpen, polled, calls, pc, programs>>

(* strategy.shutdown.                                                       *)
ShutdownStrategy(c) ==
  /\ At(c, "children")
  /\ NoChildOpen /\ closing.todo = {}
  /\ polled' = [polled EXCEPT ![Hub] = {v[1] : v \in {u \in ToSet(publishers) : IsLast(u)}}]
  /\ publishers' = <<>>
  /\ Goto(c, "freeing")
  /\ UNCHANGED <<strategy, values, pollers, subscribers, deferred, hub, phase, calls, programs>>

FreePublishers(c) ==
  /\ At(c, "freeing")
  /\ Settle(polled[Hub], "interrupted")
  /\ polled' = [polled EXCEPT ![Hub] = {}]
  /\ Goto(c, "closed")
  /\ UNCHANGED <<strategy, values, publishers, pollers, subscribers, hub, phase, calls, programs>>

-----------------------------------------------------------------------------
ClientStep(c) ==
  \/ PublishOne(c) \/ PublishMany(c) \/ Slide(c) \/ Suspend(c)
  \/ Take(c) \/ TakeBetween(c) \/ Join(c) \/ Resume(c) \/ Stop(c) \/ Cancel(c)
  \/ Shutdown(c) \/ CompleteHook(c) \/ CloseScope(c) \/ CloseChild(c)
  \/ ShutdownStrategy(c) \/ FreePublishers(c)

Closing(s) == ShutSubscription(s) \/ FreeTakers(s) \/ Unsubscribe(s)

Next ==
  \/ Loop
  \/ \E c \in Client : ClientStep(c) \/ Interrupt(c)
  \/ \E s \in Subscription : Subscribe(s) \/ AddFinalizer(s) \/ Leave(s) \/ Closing(s)

Spec == Init /\ [][Next]_vars

(* A synchronous step is finished once begun, and fibers go on; a fiber need *)
(* not subscribe, nor leave.                                                *)
FairSpec ==
  /\ Spec
  /\ WF_vars(Loop)
  /\ \A c \in Client : WF_vars(ClientStep(c))
  /\ \A s \in Subscription : WF_vars(AddFinalizer(s) \/ Closing(s))

-----------------------------------------------------------------------------
Pending(s) == NextValues(ring, s, Unread(ring, s))

(* What was stored while s was subscribed.                                  *)
Addressed(s) ==
  LET mine == Keep(log, {e \in ToSet(log) : s \in e.audience})
  IN [k \in DOMAIN mine |-> mine[k].value]

(* Every subscriber sees, in order and each once, all that was published      *)
(* while it was subscribed: what it has read and what the slots hold for it  *)
(* is what was stored for it, except for values that slid away.             *)
EverySubscriberSeesAll ==
  \A s \in ring.subscribed :
    LET read == seen[s] \o Pending(s)
    IN /\ IsInjective(read)
       /\ read = Keep(Addressed(s), ToSet(read))
       /\ strategy # "sliding" => read = Addressed(s)

(* Nobody waits in vain: between two steps no taker of a subscription waits  *)
(* while there is a value for it, and no publisher while there is room.      *)
NobodyWaitsInVain ==
  Idle =>
    /\ \A s \in Subscription : pollers[s] # <<>> => Unread(ring, s) = 0
    /\ publishers # <<>> => IsFull(ring)

(* "The PubSub will retain messages until they have been taken by all         *)
(* subscribers" (PubSub.bounded), and no longer: the fullest it can be is     *)
(* what its slowest subscriber has yet to read.                             *)
RetainedForSomebody ==
  ~IsEmpty(ring) => \E s \in ring.subscribed : Unread(ring, s) = SizeOf(ring)

(* The same, as long as nothing was ever stored for nobody.                  *)
RetainedIfAddressed ==
  (\A k \in DOMAIN log : log[k].audience # {}) => RetainedForSomebody

(* "Interrupts any fibers that are suspended on `offer` or `take`": when the *)
(* PubSub is shut down, its publishers and all takers of its subscriptions   *)
(* are resumed.                                                             *)
ShutdownFrees == \A c \in Client : isShutdown /\ pc[c] = "waiting" ~> pc[c] # "waiting"
=============================================================================
