------------------------------- MODULE Queue -------------------------------
(***************************************************************************)
(* The asynchronous queue of packages/effect/src/internal/queue.ts, with    *)
(* its three strategies, and the Deferred (core.ts) its fibers wait on.     *)
(*                                                                         *)
(* Each client is a fiber that performs one operation.  An operation is a   *)
(* few synchronous steps; between two of them other fibers run, and the     *)
(* fiber may be interrupted.  A synchronous step ends with the two mutually  *)
(* recursive loops that match takers, items and putters: `calls` is the     *)
(* stack of their calls, and while it is not empty they hold the thread.    *)
(***************************************************************************)
EXTENDS Naturals, Sequences, SequencesExt, Filter

CONSTANTS Client,
          Program,         \* what each client may do: a set of <<operation, lo, hi>>
          Strategy,        \* the strategies a queue may have
          Capacity,        \* the capacities a queue may have
          Interruptible    \* the clients that somebody may interrupt

Operation == {"offer", "unsafeOffer", "taking", "between", "shutdown"}

ASSUME ProgramAssumption == Program \in [Client -> SUBSET (Operation \X Nat \X Nat)]
ASSUME StrategyAssumption == Strategy \subseteq {"backPressure", "dropping", "sliding"}
ASSUME CapacityAssumption == Capacity \subseteq Nat
ASSUME ClientAssumption == Interruptible \subseteq Client

VARIABLES
  strategy, capacity,
  items,          \* the backing queue
  putters,        \* BackPressureStrategy.putters
  takers,
  isShutdown,     \* shutdownFlag
  hook,           \* shutdownHook is done
  calls,          \* the loops under way, innermost first
  pc, lo, hi,     \* operation and step of each client, and its bounds
  rest,           \* values of an offer that did not fit
  deferred,       \* the Deferred a client made last
  polled,         \* Deferreds a shutdown has yet to interrupt
  interrupted,    \* an interruption is in the fiber's inbox
  handed          \* history: the values given to takers, in order

buffers == <<items, putters, takers>>
closing == <<isShutdown, hook, polled>>
bounds  == <<lo, hi, rest>>
kind    == <<strategy, capacity>>
vars == <<kind, buffers, closing, calls, pc, bounds, deferred, interrupted, handed>>

(* <<c, k>> is the k-th of the lo[c] values that client c offers.            *)
Value == Client \X Nat
Label == Operation \cup {"surplus", "polling", "joining", "waiting", "cancelling",
                         "hook", "freeingTakers", "freeingPutters",
                         "accepted", "refused", "taken", "stopped", "closed"}

TypeOK ==
  /\ strategy \in Strategy /\ capacity \in Capacity
  /\ items \in Seq(Value) /\ Len(items) <= capacity
  /\ putters \in Seq(Value)
  /\ takers \in Seq(Client)
  /\ isShutdown \in BOOLEAN /\ hook \in BOOLEAN
  /\ calls \in Seq({"complete", "space"})
  /\ pc \in [Client -> Label]
  /\ lo \in [Client -> Nat] /\ hi \in [Client -> Nat]
  /\ rest \in [Client -> Seq(Value)]
  /\ deferred \in [Client -> {"none", "pending", "done", "interrupted"}]
  /\ polled \in [Client -> Seq(Client)]
  /\ interrupted \in [Client -> BOOLEAN]
  /\ handed \in Seq(Value)

Init ==
  /\ strategy \in Strategy /\ capacity \in Capacity
  /\ items = <<>> /\ putters = <<>> /\ takers = <<>>
  /\ isShutdown = FALSE /\ hook = FALSE
  /\ calls = <<>>
  /\ \E program \in [Client -> UNION {Program[c] : c \in Client}] :
       /\ \A c \in Client : program[c] \in Program[c]
       /\ pc = [c \in Client |-> program[c][1]]
       /\ lo = [c \in Client |-> program[c][2]]
       /\ hi = [c \in Client |-> program[c][3]]
  /\ rest = [c \in Client |-> <<>>]
  /\ deferred = [c \in Client |-> "none"]
  /\ polled = [c \in Client |-> <<>>]
  /\ interrupted = [c \in Client |-> FALSE]
  /\ handed = <<>>

-----------------------------------------------------------------------------
Idle == calls = <<>>
At(c, label) == Idle /\ pc[c] = label /\ ~interrupted[c]
Goto(c, label) == pc' = [pc EXCEPT ![c] = label]
First(s, n) == SubSeq(s, 1, n)
After(s, n) == SubSeq(s, n + 1, Len(s))
Least(m, n) == IF m <= n THEN m ELSE n
Room == capacity - Len(items)

(* unsafeCompleteDeferred, deferredInterruptWith: a Deferred is done once.   *)
Settle(S, how) ==
  deferred' = [c \in Client |-> IF c \in S /\ deferred[c] = "pending" THEN how ELSE deferred[c]]

(* Seeded bug: the first of the values tells the putter that all are in.     *)
IsAny(v) == TRUE

(* Only the last value of an offer completes its Deferred.                  *)
IsLast(v) == v[2] = lo[v[1]]

Putter(v) == IF IsLast(v) THEN {v[1]} ELSE {}

-----------------------------------------------------------------------------
(* The loops.                                                               *)

(* unsafeCompleteTakers: the first item to the first taker.                  *)
HandOver ==
  /\ items # <<>>
  /\ takers # <<>>
  /\ items' = Tail(items)
  /\ takers' = Tail(takers)
  /\ handed' = Append(handed, Head(items))
  /\ Settle({Head(takers)}, "done")
  /\ calls' = <<"space">> \o calls
  /\ UNCHANGED putters

(* onCompleteTakersWithEmptyQueue: a putter's value straight to a taker.     *)
Pair ==
  /\ items = <<>>
  /\ takers # <<>>
  /\ putters # <<>>
  /\ takers' = Tail(takers)
  /\ putters' = Tail(putters)
  /\ handed' = Append(handed, Head(putters))
  /\ Settle({Head(takers)} \cup Putter(Head(putters)), "done")
  /\ UNCHANGED <<items, calls>>

(* unsafeOnQueueEmptySpace: a putter's value into the backing queue.         *)
Refill ==
  /\ putters # <<>>
  /\ Room > 0
  /\ items' = Append(items, Head(putters))
  /\ putters' = Tail(putters)
  /\ Settle(Putter(Head(putters)), "done")
  /\ calls' = <<"complete">> \o calls
  /\ UNCHANGED <<takers, handed>>

CompleteDone == takers = <<>> \/ (items = <<>> /\ putters = <<>>)
SpaceDone == putters = <<>> \/ Room = 0

Return == calls' = Tail(calls) /\ UNCHANGED <<buffers, deferred, handed>>

Loop ==
  /\ ~Idle
  /\ \/ Head(calls) = "complete" /\ (HandOver \/ Pair \/ (CompleteDone /\ Return))
     \/ Head(calls) = "space" /\ (Refill \/ (SpaceDone /\ Return))
  /\ UNCHANGED <<kind, closing, pc, bounds, interrupted>>

-----------------------------------------------------------------------------
(* offer, offerAll, unsafeOffer.                                            *)

(* How many of n values the backing queue accepts (MutableQueue.offerAll).   *)
Fitting(n) == Least(n, Room)

Values(c) == [k \in 1..lo[c] |-> <<c, k>>]

(* How many of n values go straight to takers: those of an empty queue.      *)
Direct(n) == IF items = <<>> THEN Least(Len(takers), n) ELSE 0

(* What the takers do not get goes to the backing queue; the answer of the   *)
(* operation, if it is not yet known, is a matter of the strategy.          *)
Offer(c) ==
  /\ \E op \in {"offer", "unsafeOffer"} : At(c, op)
  /\ IF isShutdown
       THEN /\ Goto(c, IF pc[c] = "offer" THEN "stopped" ELSE "refused")
            /\ UNCHANGED <<buffers, calls, rest, deferred, handed>>
       ELSE LET direct == Direct(lo[c])
                others == After(Values(c), direct)
                fitting == Fitting(Len(others))
                surplus == After(others, fitting)
            IN /\ takers' = After(takers, direct)
               /\ handed' = handed \o First(Values(c), direct)
               /\ Settle(ToSet(First(takers, direct)), "done")
               /\ items' = items \o First(others, fitting)
               /\ rest' = [rest EXCEPT ![c] = surplus]
               /\ calls' = IF others = <<>> THEN <<>> ELSE <<"complete">>
               /\ Goto(c, IF surplus = <<>> THEN "accepted"
                          ELSE IF pc[c] = "unsafeOffer" \/ strategy = "dropping"
                          THEN "refused" ELSE "surplus")
               /\ UNCHANGED putters
  /\ UNCHANGED <<kind, closing, lo, hi, interrupted>>

(* SlidingStrategy.handleSurplus: each value pushes out one, if there is one. *)
Slide(c) ==
  /\ At(c, "surplus")
  /\ strategy = "sliding"
  /\ LET all == items \o rest[c]
         kept == IF items = <<>> THEN Least(1, capacity) ELSE Len(items)
     IN items' = After(all, Len(all) - kept)
  /\ calls' = <<"complete">>
  /\ Goto(c, "accepted")
  /\ UNCHANGED <<kind, putters, takers, closing, bounds, deferred, interrupted, handed>>

(* Seeded bug: an offer that found the queue full does not look again.       *)
LookNoMore == <<>>

(* What an operation that is about to wait does first: look again.          *)
LookAgain == <<"space", "complete">>

(* Seeded bug: an operation that is about to wait does not see the shutdown. *)
NotStopped == "waiting"

StopOrWait == IF isShutdown THEN "cancelling" ELSE "waiting"

(* BackPressureStrategy.handleSurplus.                                      *)
Suspend(c) ==
  /\ At(c, "surplus")
  /\ strategy = "backPressure"
  /\ putters' = putters \o rest[c]
  /\ deferred' = [deferred EXCEPT ![c] = "pending"]
  /\ calls' = LookAgain
  /\ Goto(c, StopOrWait)
  /\ UNCHANGED <<kind, items, takers, closing, bounds, interrupted, handed>>

-----------------------------------------------------------------------------
(* take, takeBetween; takeUpTo(n) is takeBetween(0, n).                      *)

(* What remains to be done after n values.                                  *)
Got(c, n, next) ==
  /\ lo' = [lo EXCEPT ![c] = IF @ > n THEN @ - n ELSE 0]
  /\ hi' = [hi EXCEPT ![c] = IF @ > n THEN @ - n ELSE 0]
  /\ Goto(c, IF lo[c] > n THEN next ELSE "taken")

Take(c) ==
  /\ At(c, "taking")
  /\ IF isShutdown \/ items = <<>>
       THEN /\ Goto(c, IF isShutdown THEN "stopped" ELSE "joining")
            /\ UNCHANGED <<items, calls, lo, hi, handed>>
       ELSE /\ items' = Tail(items)
            /\ handed' = Append(handed, Head(items))
            /\ calls' = <<"space">>
            /\ Got(c, 1, "between")
  /\ UNCHANGED <<kind, putters, takers, closing, rest, deferred, interrupted>>

(* The taker is among the takers before it looks again.                      *)
Join(c) ==
  /\ At(c, "joining")
  /\ takers' = Append(takers, c)
  /\ deferred' = [deferred EXCEPT ![c] = "pending"]
  /\ calls' = <<"complete">>
  /\ Goto(c, StopOrWait)
  /\ UNCHANGED <<kind, items, putters, closing, bounds, interrupted, handed>>

(* takeBetween: nothing if the bounds leave nothing, else takeUpTo(hi).      *)
TakeBetween(c) ==
  /\ At(c, "between")
  /\ Goto(c, IF hi[c] < lo[c] THEN "taken" ELSE IF isShutdown THEN "stopped" ELSE "polling")
  /\ UNCHANGED <<kind, buffers, closing, calls, bounds, deferred, interrupted, handed>>

(* Seeded bug: the values come out of pollUpTo the wrong way round.          *)
LastFirst(n) == Reverse(First(items, n))

PollUpTo(n) == First(items, n)

Poll(c) ==
  /\ At(c, "polling")
  /\ LET n == Least(hi[c], Len(items))
     IN /\ handed' = handed \o PollUpTo(n)
        /\ items' = After(items, n)
        /\ Got(c, n, "taking")
  /\ calls' = <<"space">>
  /\ UNCHANGED <<kind, putters, takers, closing, rest, deferred, interrupted>>

-----------------------------------------------------------------------------
(* Waiting for a Deferred, and the finalizer of an interrupted wait.         *)

Offers(c) == rest[c] # <<>>

Resume(c) ==
  /\ At(c, "waiting")
  /\ \/ deferred[c] = "interrupted" /\ Goto(c, "cancelling") /\ UNCHANGED <<lo, hi>>
     \/ deferred[c] = "done" /\ Offers(c) /\ Goto(c, "accepted") /\ UNCHANGED <<lo, hi>>
     \/ deferred[c] = "done" /\ ~Offers(c) /\ Got(c, 1, "between")
  /\ UNCHANGED <<kind, buffers, closing, calls, rest, deferred, interrupted, handed>>

Steps == {"surplus", "taking", "between", "polling", "joining", "waiting"}

Interrupt(c) ==
  /\ Idle
  /\ c \in Interruptible
  /\ pc[c] \in Steps
  /\ interrupted' = [interrupted EXCEPT ![c] = TRUE]
  /\ UNCHANGED <<kind, buffers, closing, calls, pc, bounds, deferred, handed>>

Stop(c) ==
  /\ Idle
  /\ interrupted[c]
  /\ pc[c] \in Steps
  /\ Goto(c, IF pc[c] = "waiting" THEN "cancelling" ELSE "stopped")
  /\ UNCHANGED <<kind, buffers, closing, calls, bounds, deferred, interrupted, handed>>

RemoveTaker(c) == Keep(takers, Client \ {c})

Cancel(c) ==
  /\ Idle
  /\ pc[c] = "cancelling"
  /\ takers' = RemoveTaker(c)
  /\ putters' = Keep(putters, {v \in Value : v[1] # c})
  /\ Goto(c, "stopped")
  /\ UNCHANGED <<kind, items, closing, calls, bounds, deferred, interrupted, handed>>

-----------------------------------------------------------------------------
(* shutdown, which is not interruptible.                                    *)

Shutdown(c) ==
  /\ At(c, "shutdown")
  /\ isShutdown' = TRUE
  /\ polled' = [polled EXCEPT ![c] = takers]
  /\ takers' = <<>>
  /\ Goto(c, "hook")
  /\ UNCHANGED <<kind, items, putters, hook, calls, bounds, deferred, interrupted, handed>>

(* Only the shutdown that completes the hook frees those who wait.           *)
CompleteHook(c) ==
  /\ At(c, "hook")
  /\ hook' = TRUE
  /\ Goto(c, IF hook THEN "closed" ELSE "freeingTakers")
  /\ UNCHANGED <<kind, buffers, isShutdown, polled, calls, bounds, deferred, interrupted, handed>>

(* forEachConcurrentDiscard: the Deferreds are interrupted in any order.     *)
Free(c) ==
  /\ \E label \in {"freeingTakers", "freeingPutters"} : At(c, label)
  /\ \E i \in DOMAIN polled[c] :
       /\ polled' = [polled EXCEPT ![c] = RemoveAt(@, i)]
       /\ Settle({polled[c][i]}, "interrupted")
  /\ UNCHANGED <<kind, buffers, isShutdown, hook, calls, pc, bounds, interrupted, handed>>

(* strategy.shutdown.                                                       *)
ShutdownStrategy(c) ==
  /\ At(c, "freeingTakers")
  /\ polled[c] = <<>>
  /\ LET last == Keep(putters, {v \in Value : IsLast(v)})
     IN polled' = [polled EXCEPT ![c] = [i \in DOMAIN last |-> last[i][1]]]
  /\ putters' = <<>>
  /\ Goto(c, "freeingPutters")
  /\ UNCHANGED <<kind, items, takers, isShutdown, hook, calls, bounds, deferred, interrupted, handed>>

Closed(c) ==
  /\ At(c, "freeingPutters")
  /\ polled[c] = <<>>
  /\ Goto(c, "closed")
  /\ UNCHANGED <<kind, buffers, closing, calls, bounds, deferred, interrupted, handed>>

-----------------------------------------------------------------------------
Step(c) ==
  \/ Offer(c) \/ Slide(c) \/ Suspend(c)
  \/ Take(c) \/ Join(c) \/ TakeBetween(c) \/ Poll(c)
  \/ Resume(c) \/ Stop(c) \/ Cancel(c)
  \/ Shutdown(c) \/ CompleteHook(c) \/ Free(c) \/ ShutdownStrategy(c) \/ Closed(c)

Next ==
  \/ Loop
  \/ \E c \in Client : Step(c) \/ Interrupt(c)

Spec == Init /\ [][Next]_vars

(* A synchronous step is finished once begun, and every fiber goes on.       *)
FairSpec == Spec /\ WF_vars(Loop) /\ \A c \in Client : WF_vars(Step(c))

-----------------------------------------------------------------------------
Listed(c) == c \in ToSet(takers) \/ \E v \in ToSet(putters) : v[1] = c

(* Who waits can be found, and whoever is found still waits: until the       *)
(* shutdown a fiber waiting for its Deferred is among the takers or putters, *)
(* and no fiber that gave up is left there to swallow a value.              *)
WaitingRoom ==
  \A c \in Client :
    /\ pc[c] = "waiting" /\ deferred[c] = "pending" /\ ~isShutdown => Listed(c)
    /\ Listed(c) => pc[c] \in {"waiting", "cancelling"}

(* Nobody waits in vain: between two steps there is no taker while there is  *)
(* a value, and no putter while there is room, whatever happened between    *)
(* the moment an operation found that it had to wait and the wait.  And the  *)
(* takers and putters are those who wait.                                   *)
NobodyWaitsInVain ==
  /\ Idle =>
       /\ takers # <<>> => items = <<>> /\ putters = <<>>
       /\ putters # <<>> => Room = 0
  /\ WaitingRoom

(* The answer of an offer is true: the values of one that was accepted are   *)
(* in the queue or were handed to a taker (a sliding queue may have dropped  *)
(* them since), and the last value of one that was refused is not.          *)
Arrived == ToSet(items) \cup ToSet(handed)
AnswersAreTrue ==
  \A c \in Client :
    /\ pc[c] = "accepted" /\ strategy # "sliding" => ToSet(Values(c)) \subseteq Arrived
    /\ pc[c] = "refused" => <<c, lo[c]>> \notin Arrived

(* First in, first out, with the putters behind the items: values are handed *)
(* in the order in which they came in, each at most once, and an offer that  *)
(* goes straight to a taker, past both buffers, overtakes nobody.           *)
Stream == handed \o items \o putters
FirstInFirstOut ==
  [][/\ IsPrefix(handed, handed')
     /\ IsPrefix(Keep(Stream, ToSet(Stream')), Stream')
     /\ IsInjective(Stream')]_vars

(* "Interrupts any fibers that are suspended on `offer` or `take`" (Queue.ts): *)
(* after a shutdown nobody waits for ever.                                  *)
ShutdownFrees == \A c \in Client : isShutdown /\ pc[c] = "waiting" ~> pc[c] # "waiting"
=============================================================================
