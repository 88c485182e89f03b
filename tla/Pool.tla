-------------------------------- MODULE Pool --------------------------------
(***************************************************************************)
(* The Pool of packages/effect/src/internal/pool.ts: up to max items, made   *)
(* by a creator that may fail, lent to scoped effects, replaced when they    *)
(* are invalid, and released when the pool is shut down.                    *)
(*                                                                         *)
(* Everybody who works on a pool is a fiber with a list of steps `todo`,      *)
(* each one synchronous; between two of them any other fiber may run.  An    *)
(* operation whose effect no other fiber can see is taken with the one after *)
(* it: creators and finalizers have run when their step is taken.  The queue *)
(* of items is a sequence and the fibers waiting for one: Queue.tla models   *)
(* it in its own steps.                                                     *)
(***************************************************************************)
EXTENDS Integers, Sequences, FiniteSets

CONSTANTS Client,       \* the fibers of `get`, and of the finalizers it leaves
          Starter,      \* the fiber of initialize
          Shrinker,     \* the fiber of the strategy
          Closer,       \* the fiber that closes the scope of the pool
          Item,
          Failed,       \* the result of a creator that failed
          Sizes,        \* the ranges [min, max] a pool may have
          MaxDoubts     \* bound: how many times an item is invalidated

Fiber == Client \cup {Starter, Shrinker, Closer}

ASSUME FiberAssumption ==
  Client \cap {Starter, Shrinker, Closer} = {} /\ Cardinality({Starter, Shrinker, Closer}) = 3
ASSUME SizesAssumption ==
  Sizes \subseteq [min : Nat, max : Nat] /\ \A r \in Sizes : r.min <= r.max

(* A creator makes an item that is not in use: there are enough names for    *)
(* them.                                                                    *)
ASSUME ItemAssumption ==
  /\ Failed \notin Item
  /\ IsFiniteSet(Item) => \A r \in Sizes : r.max <= Cardinality(Item)

VARIABLES
  range, size, free,
  items, takers,        \* the queue: attempts in it, fibers waiting for one
  queueDown,            \* the queue is shut down
  invalidated, isShuttingDown,
  todo,                 \* of each fiber: the steps before it
  hand,                 \* of each fiber: the attempt it works on
  open,                 \* items whose scope is open
  doubts                \* invalidations so far

state == <<size, free>>
queue == <<items, takers, queueDown>>
vars == <<range, state, queue, invalidated, isShuttingDown, todo, hand, open, doubts>>

Step == {"acquire", "reserve", "take", "inspect", "hold", "allocate", "offer", "ask",
         "shut", "drain", "close", "trim", "replace", "discard", "seed", "shutdown", "leave"}

TypeOK ==
  /\ range \in Sizes
  /\ size \in Int /\ free \in Int
  /\ items \in Seq(Item \cup {Failed}) /\ takers \in Seq(Fiber)
  /\ queueDown \in BOOLEAN /\ isShuttingDown \in BOOLEAN
  /\ doubts \in 0..MaxDoubts
  /\ invalidated \subseteq Item /\ open \subseteq Item
  /\ todo \in [Fiber -> Seq(Step)]
  /\ hand \in [Fiber -> Item \cup {Failed}]

Init ==
  /\ range \in Sizes
  /\ size = 0 /\ free = 0
  /\ items = <<>> /\ takers = <<>> /\ queueDown = FALSE
  /\ invalidated = {} /\ isShuttingDown = FALSE /\ open = {}
  /\ doubts = 0
  /\ hand = [f \in Fiber |-> Failed]
  /\ todo = [f \in Fiber |-> CASE f = Starter -> [k \in 1..range.min |-> "seed"]
                               [] f = Closer -> <<"shutdown", "leave">>
                               [] f = Shrinker -> <<>>
                               [] f \in Client -> <<"acquire">>]

At(f, step) == todo[f] # <<>> /\ Head(todo[f]) = step /\ f \notin {takers[k] : k \in DOMAIN takers}
InStep(steps) == {f \in Fiber : todo[f] # <<>> /\ Head(todo[f]) \in steps}
Becomes(f, steps) == todo' = [todo EXCEPT ![f] = steps \o Tail(@)]
Ends(f) == todo' = [todo EXCEPT ![f] = <<>>]

-----------------------------------------------------------------------------
(* get, whose fiber the interruption of its caller only reaches while it     *)
(* creates an item: `disconnect`.                                           *)

Acquire(f) ==
  /\ At(f, "acquire")
  /\ IF isShuttingDown THEN Ends(f) ELSE Becomes(f, <<"reserve">>)
  /\ UNCHANGED <<range, state, queue, invalidated, isShuttingDown, hand, open, doubts>>

(* Seeded bug: one item more than max.                                      *)
OverFull == size > range.max

Full == size >= range.max

Reserve(f) ==
  /\ At(f, "reserve")
  /\ CASE free > 0 \/ Full ->
            /\ Becomes(f, <<"take", "inspect">>)
            /\ free' = free - 1 /\ UNCHANGED size
       [] free <= 0 /\ ~Full /\ size >= 0 ->
            /\ Becomes(f, <<"allocate", "ask", "acquire">>)
            /\ size' = size + 1 /\ free' = free + 1
       [] free <= 0 /\ ~Full /\ size < 0 -> Ends(f) /\ UNCHANGED state
  /\ UNCHANGED <<range, queue, invalidated, isShuttingDown, hand, open, doubts>>

Invalid(f) == hand[f] \in invalidated

Inspect(f) ==
  /\ At(f, "inspect")
  /\ Becomes(f, IF Invalid(f) THEN <<"replace", "acquire">> ELSE <<"hold">>)
  /\ UNCHANGED <<range, state, queue, invalidated, isShuttingDown, hand, open, doubts>>

(* The finalizer of get: when the scope closes, at once after a failure.     *)
Release(f) ==
  /\ At(f, "hold")
  /\ IF hand[f] = Failed \/ Invalid(f)
       THEN Becomes(f, <<"replace">>) /\ UNCHANGED free
       ELSE Becomes(f, <<"offer", "ask">>) /\ free' = free + 1
  /\ UNCHANGED <<range, size, queue, invalidated, isShuttingDown, hand, open, doubts>>

Invalidate(i) ==
  /\ i \in open \ invalidated
  /\ doubts < MaxDoubts /\ doubts' = doubts + 1
  /\ invalidated' = invalidated \cup {i}
  /\ UNCHANGED <<range, state, queue, isShuttingDown, todo, hand, open>>

-----------------------------------------------------------------------------
(* allocate, by whoever found that an item is missing.                       *)

(* queue.offer: to the fiber that has waited longest.                        *)
Offers(f, attempt) ==
  IF queueDown THEN Ends(f) /\ UNCHANGED <<items, takers, hand>>
  ELSE IF takers # <<>>
    THEN /\ hand' = [hand EXCEPT ![f] = Failed, ![Head(takers)] = attempt]
         /\ todo' = [todo EXCEPT ![Head(takers)] = Tail(@), ![f] = Tail(@)]
         /\ takers' = Tail(takers)
         /\ UNCHANGED items
    ELSE /\ Len(items) < range.max
         /\ items' = Append(items, attempt)
         /\ hand' = [hand EXCEPT ![f] = Failed]
         /\ Becomes(f, <<>>)
         /\ UNCHANGED takers

Offer(f) ==
  /\ At(f, "offer")
  /\ Offers(f, hand[f])
  /\ UNCHANGED <<range, state, queueDown, invalidated, isShuttingDown, open, doubts>>

(* The creator may fail, also because it is interrupted; an item it makes    *)
(* is not equal to any before it, whatever was said of one of its name.      *)
Allocate(f) ==
  /\ At(f, "allocate")
  /\ \/ Offers(f, Failed) /\ UNCHANGED <<open, invalidated>>
     \/ LET new == CHOOSE i \in Item : i \notin open
        IN /\ Offers(f, new)
           /\ open' = open \cup {new}
           /\ invalidated' = invalidated \ {new}
  /\ UNCHANGED <<range, state, queueDown, isShuttingDown, doubts>>

(* Seeded bug: an item brought back after the shutdown stays.                *)
LeaveIt == <<>>

(* Whoever brings an item takes it out again if the pool is shutting down.   *)
TakeOut == IF isShuttingDown THEN <<"shut">> ELSE <<>>

Ask(f) ==
  /\ At(f, "ask")
  /\ Becomes(f, TakeOut)
  /\ UNCHANGED <<range, state, queue, invalidated, isShuttingDown, hand, open, doubts>>

-----------------------------------------------------------------------------
(* Taking an attempt out of the queue: get, getAndShutdown and shrink.       *)

(* What an interrupted take leaves to do: only getAndShutdown goes on.       *)
AfterInterrupt(steps) == IF Head(steps) = "drain" THEN SubSeq(steps, 4, Len(steps)) ELSE <<>>

Take(f) ==
  /\ \E step \in {"take", "drain", "trim"} : At(f, step)
  /\ CASE queueDown -> /\ todo' = [todo EXCEPT ![f] = AfterInterrupt(@)]
                       /\ UNCHANGED <<items, takers, hand>>
       [] ~queueDown /\ items # <<>> -> /\ hand' = [hand EXCEPT ![f] = Head(items)]
                                        /\ items' = Tail(items)
                                        /\ Becomes(f, <<>>)
                                        /\ UNCHANGED takers
       [] ~queueDown /\ items = <<>> -> /\ takers' = Append(takers, f)
                                        /\ UNCHANGED <<items, todo, hand>>
  /\ UNCHANGED <<range, state, queueDown, invalidated, isShuttingDown, open, doubts>>

Finalizes(f) ==
  /\ open' = open \ {hand[f]}
  /\ invalidated' = invalidated \ {hand[f]}
  /\ hand' = [hand EXCEPT ![f] = Failed]

(* Seeded bug: the attempt that replaces a lost one is not counted as free.  *)
UncountedFree == free

(* The item that replaces a lost one will be free.                          *)
OneMoreFree == free + 1

(* finalizeInvalid, and the release of a failed attempt: the place of an      *)
(* attempt that is gone is filled again below min.                          *)
Replace(f) ==
  /\ At(f, "replace")
  /\ Finalizes(f)
  /\ IF size <= range.min
       THEN Becomes(f, <<"allocate", "ask">>) /\ free' = OneMoreFree /\ UNCHANGED size
       ELSE Becomes(f, <<>>) /\ size' = size - 1 /\ UNCHANGED free
  /\ UNCHANGED <<range, queue, isShuttingDown, doubts>>

(* shrink and getAndShutdown fill it with nothing.                           *)
Discard(f) ==
  /\ At(f, "discard")
  /\ Finalizes(f)
  /\ size' = size - 1
  /\ Becomes(f, <<>>)
  /\ UNCHANGED <<range, free, queue, isShuttingDown, doubts>>

-----------------------------------------------------------------------------
Seed(f) ==
  /\ At(f, "seed")
  /\ IF size < range.min /\ size >= 0
       THEN Becomes(f, <<"allocate", "ask">>) /\ size' = size + 1 /\ free' = free + 1
       ELSE Becomes(f, <<>>) /\ UNCHANGED state
  /\ UNCHANGED <<range, queue, invalidated, isShuttingDown, hand, open, doubts>>

(* TimeToLiveStrategy finds an excess whose time is over.  A pool of fixed   *)
(* size has none.                                                           *)
Shrink ==
  /\ todo[Shrinker] = <<>> /\ todo[Closer] # <<>>
  /\ size > range.min /\ free > 0
  /\ free' = free - 1
  /\ todo' = [todo EXCEPT ![Shrinker] = <<"trim", "discard">>]
  /\ UNCHANGED <<range, size, queue, invalidated, isShuttingDown, hand, open, doubts>>

Shutdown ==
  /\ At(Closer, "shutdown")
  /\ isShuttingDown' = TRUE
  /\ Becomes(Closer, <<"shut">>)
  /\ UNCHANGED <<range, state, queue, invalidated, hand, open, doubts>>

(* getAndShutdown.                                                          *)
Shut(f) ==
  /\ At(f, "shut")
  /\ CASE free > 0 -> /\ Becomes(f, <<"drain", "discard", "shut">>)
                      /\ free' = free - 1 /\ UNCHANGED size
       [] free <= 0 /\ size > 0 -> Becomes(f, <<>>) /\ UNCHANGED state
       [] free <= 0 /\ size <= 0 -> Becomes(f, <<"close">>) /\ size' = size - 1 /\ UNCHANGED free
  /\ UNCHANGED <<range, queue, invalidated, isShuttingDown, hand, open, doubts>>

(* queue.shutdown interrupts whoever waits for an item.                      *)
Close(f) ==
  /\ At(f, "close")
  /\ queueDown' = TRUE
  /\ takers' = <<>>
  /\ todo' = [g \in Fiber |-> IF g = f THEN Tail(todo[f])
                              ELSE IF \E k \in DOMAIN takers : takers[k] = g
                                THEN AfterInterrupt(todo[g]) ELSE todo[g]]
  /\ UNCHANGED <<range, state, items, invalidated, isShuttingDown, hand, open, doubts>>

(* awaitShutdown; Starter and Shrinker are interrupted once they have done    *)
(* what is not interruptible.                                               *)
Leave ==
  /\ At(Closer, "leave")
  /\ queueDown
  /\ InStep(Step \ {"seed"}) \cap {Starter, Shrinker} = {}
  /\ todo' = [todo EXCEPT ![Starter] = <<>>, ![Closer] = <<>>]
  /\ UNCHANGED <<range, state, queue, invalidated, isShuttingDown, hand, open, doubts>>

-----------------------------------------------------------------------------
StepOf(f) ==
  \/ Acquire(f) \/ Reserve(f) \/ Inspect(f) \/ Release(f)
  \/ Allocate(f) \/ Offer(f) \/ Ask(f) \/ Take(f)
  \/ Replace(f) \/ Discard(f) \/ Seed(f) \/ Shut(f) \/ Close(f)

Next ==
  \/ \E f \in Fiber : StepOf(f)
  \/ \E i \in Item : Invalidate(i)
  \/ Shrink \/ Shutdown \/ Leave

Spec == Init /\ [][Next]_vars

(* Fibers go on: a creator ends, and who holds an item gives it back.  Nobody *)
(* has to get or invalidate one, nor to close the pool.                      *)
FairSpec == Spec /\ (\A f \in Fiber : WF_vars(StepOf(f))) /\ WF_vars(Leave)

-----------------------------------------------------------------------------
(* size counts the attempts in the queue and those somebody is about to make, *)
(* holds or has yet to replace; free counts those in the queue or on their   *)
(* way to it, less those somebody is about to take.                         *)
Counted ==
  size >= 0 =>
    /\ size = Len(items) + Cardinality(InStep({"inspect", "hold", "replace", "discard",
                                               "allocate", "offer"}))
    /\ free = Len(items) + Cardinality(InStep({"allocate", "offer"}))
                         - Cardinality(InStep({"take", "drain", "trim"}))

(* Somebody has each item, and nobody else: it is in the queue, or in one     *)
(* hand.  There are never more than max, and none when the pool has closed.  *)
Queued(i) == {k \in DOMAIN items : items[k] = i}
Holding == InStep({"inspect", "hold", "offer", "replace", "discard"})
Owners(i) == ({"queue"} \X Queued(i)) \cup ({"hand"} \X {f \in Holding : hand[f] = i})
EveryItemHasAnOwner ==
  /\ \A i \in Item : Cardinality(Owners(i)) = IF i \in open THEN 1 ELSE 0
  /\ Cardinality(open) <= range.max
  /\ todo[Closer] = <<>> => open = {}

Accounting == Counted /\ EveryItemHasAnOwner

(* What a pool of fixed size comes to, however many creators fail and items    *)
(* are invalidated: who asked for an item has had one, or was told why not,    *)
(* and if the pool is shut down that has ended too, and with it all that were  *)
(* waiting.  (An elastic pool does not.)                                     *)
Served ==
  range.min = range.max =>
    \A f \in Fiber : f \in Client \/ isShuttingDown => todo[f] = <<>>
=============================================================================
