----------------------------- MODULE RateLimiter -----------------------------
(***************************************************************************)
(* The rate limiters of packages/effect/src/internal/rateLimiter.ts: a        *)
(* semaphore of tokens that callers take and do not give back, and a fiber    *)
(* that refills it, woken by them through a second semaphore, the latch.      *)
(***************************************************************************)
EXTENDS Integers, Sequences, FiniteSets, Filter

CONSTANTS
  Client, Costs,    \* each calls once; the functions that give the costs
  Limit, Interruptible,
  MaxSurplus        \* bound: tokens beyond Limit

VARIABLES
  algorithm, cost,
  taken, waiters,   \* of the semaphore
  wakes,            \* its wake tasks that the scheduler has
  signals,          \* free permits of the latch
  refill,           \* step of the fiber that refills
  pc,               \* "granted": the tokens are taken, the fiber does not know
  before,           \* clients that were so when the sleep began
  lagged, leaked    \* history: one was so for a whole sleep; one was interrupted then

constants == <<algorithm, cost>>
semaphore == <<taken, waiters, wakes>>
history == <<before, lagged, leaked>>
vars == <<constants, semaphore, signals, refill, pc, history>>

TypeOK ==
  /\ algorithm \in {"token-bucket", "fixed-window"} /\ cost \in Costs
  /\ taken \in -MaxSurplus..Limit /\ waiters \in Seq(Client) /\ wakes \in Nat
  /\ signals \in Nat
  /\ refill \in {"takes", "waits", "sleeps", "drains", "gives"}
  /\ pc \in [Client -> {"idle", "waiting", "granted", "called", "cut"}]
  /\ before \subseteq Client /\ lagged \in BOOLEAN /\ leaked \in BOOLEAN

Init ==
  /\ algorithm \in {"token-bucket", "fixed-window"} /\ cost \in Costs
  /\ taken = 0 /\ waiters = <<>> /\ wakes = 0
  /\ signals = 0 /\ refill = "takes"
  /\ pc = [c \in Client |-> "idle"]
  /\ before = {} /\ lagged = FALSE /\ leaked = FALSE

Granted == {c \in Client : pc[c] = "granted"}
free == Limit - taken

-----------------------------------------------------------------------------
(* semaphore.take(cost), at once or as a waiter.                             *)
Take(c) ==
  /\ pc[c] = "idle"
  /\ IF free < cost[c]
       THEN /\ waiters' = Append(waiters, c)
            /\ pc' = [pc EXCEPT ![c] = "waiting"]
            /\ UNCHANGED taken
       ELSE /\ taken' = taken + cost[c]
            /\ pc' = [pc EXCEPT ![c] = "granted"]
            /\ UNCHANGED waiters
  /\ UNCHANGED <<constants, wakes, signals, refill, history>>

(* A wake task offers the tokens to the waiters in turn: what is left after n   *)
(* of them, and who has had theirs.                                         *)
Offer(left, c) ==
  IF left.free > 0 /\ left.free >= cost[c]
    THEN [free |-> left.free - cost[c], to |-> left.to \cup {c}]
    ELSE left
Offered[n \in 0..Len(waiters)] ==
  IF n = 0 THEN [free |-> free, to |-> {}] ELSE Offer(Offered[n - 1], waiters[n])

RunWake ==
  /\ wakes > 0 /\ wakes' = wakes - 1
  /\ LET end == Offered[Len(waiters)]
     IN /\ taken' = Limit - end.free
        /\ waiters' = Keep(waiters, Client \ end.to)
        /\ pc' = [c \in Client |-> IF c \in end.to THEN "granted" ELSE pc[c]]
  /\ UNCHANGED <<constants, signals, refill, history>>

(* The caller goes on: latch.release(1), then the effect.                    *)
Call(c) ==
  /\ pc[c] = "granted"
  /\ pc' = [pc EXCEPT ![c] = "called"]
  /\ signals' = signals + 1
  /\ UNCHANGED <<constants, semaphore, refill, history>>

(* Only semaphore.take is interruptible, with the gap after it.               *)
Interrupt(c) ==
  /\ c \in Interruptible /\ pc[c] \in {"idle", "waiting", "granted"}
  /\ pc' = [pc EXCEPT ![c] = "cut"]
  /\ waiters' = Keep(waiters, Client \ {c})
  /\ leaked' = (leaked \/ pc[c] = "granted")
  /\ UNCHANGED <<constants, taken, wakes, signals, refill, before, lagged>>

-----------------------------------------------------------------------------
(* The fiber that refills.                                                  *)

Sleep == refill' = "sleeps" /\ before' = Granted

(* latch.take(1), at once or when somebody calls.                            *)
Listen ==
  /\ refill \in {"takes", "waits"}
  /\ IF signals > 0 THEN Sleep /\ signals' = signals - 1
                    ELSE refill = "takes" /\ refill' = "waits" /\ UNCHANGED <<signals, before>>
  /\ UNCHANGED <<constants, semaphore, pc, lagged, leaked>>

Awake ==
  /\ refill = "sleeps" /\ refill' = "drains"
  /\ lagged' = (lagged \/ before \cap Granted # {})
  /\ before' = {}
  /\ UNCHANGED <<constants, semaphore, signals, pc, leaked>>

(* Seeded bug: the calls made during the sleep are not forgotten.             *)
Kept == signals

Drained == 0

(* latch.releaseAll.                                                        *)
Drain ==
  /\ refill = "drains" /\ refill' = "gives"
  /\ signals' = Drained
  /\ UNCHANGED <<constants, semaphore, pc, history>>

UpdateTaken(n) ==
  /\ taken' = n
  /\ wakes' = IF waiters # <<>> THEN wakes + 1 ELSE wakes

(* semaphore.release(1), until the bucket is full; or semaphore.releaseAll.    *)
Give ==
  /\ refill = "gives"
  /\ IF algorithm = "fixed-window"
       THEN UpdateTaken(0) /\ refill' = "takes" /\ UNCHANGED before
       ELSE /\ taken > -MaxSurplus /\ UpdateTaken(taken - 1)
            /\ IF taken' = 0 THEN refill' = "takes" /\ UNCHANGED before ELSE Sleep
  /\ UNCHANGED <<constants, waiters, signals, pc, lagged, leaked>>

-----------------------------------------------------------------------------
Refill == Listen \/ Awake \/ Drain \/ Give
ClientStep(c) == Take(c) \/ Call(c)
Next == Refill \/ RunWake \/ \E c \in Client : ClientStep(c) \/ Interrupt(c)

Spec == Init /\ [][Next]_vars

(* Fibers and wake tasks go on, and sleeps end.                              *)
FairSpec == Spec /\ WF_vars(Refill) /\ WF_vars(RunWake) /\ \A c \in Client : WF_vars(ClientStep(c))

-----------------------------------------------------------------------------
(* There are never more tokens than Limit, unless a caller that had its tokens *)
(* did not go on for a whole sleep, after which the bucket overflows.         *)
NeverTooMany == lagged \/ taken >= 0

(* A fiber that refills rests only when there is nothing to refill, unless a   *)
(* caller was interrupted before it could call it.                           *)
NothingToRefill ==
  refill = "waits" /\ signals = 0 /\ Granted = {} => taken = 0 \/ leaked

TokensReturn == NeverTooMany /\ NothingToRefill

(* Whoever asks is let through, unless such a caller took what was left: then  *)
(* the others wait for tokens and the fiber that refills for a call.          *)
Stuck ==
  /\ leaked /\ refill = "waits" /\ signals = 0
  /\ \A c \in Client : pc[c] \in {"waiting", "called", "cut"}
Served == Stuck \/ \A c \in Client : pc[c] \in {"called", "cut"}
EverybodyServed == <>Served
=============================================================================
