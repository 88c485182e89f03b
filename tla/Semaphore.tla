----------------------------- MODULE Semaphore -----------------------------
(***************************************************************************)
(* The semaphore of packages/effect/src/internal/effect/circular.ts, used   *)
(* by one fiber per client as withPermits does.                            *)
(*                                                                         *)
(* A fiber that finds too few permits leaves an observer among the waiters.  *)
(* Whoever gives permits back schedules a task that offers them to every     *)
(* waiter in turn, on one thread.  The observer takes the permits in the    *)
(* name of its fiber, which learns of it later, from its inbox; meanwhile   *)
(* it may be interrupted, and newcomers may take permits at once.           *)
(***************************************************************************)
EXTENDS Integers, Sequences, FiniteSets, SequencesExt

CONSTANTS Client,
          Permits,
          Needs,           \* the numbers of permits clients ask for
          Interruptible,   \* the clients that somebody may interrupt
          MaxWakes         \* bound: wake tasks releaseAll may leave pending

ASSUME PermitsAssumption == Permits \in Nat /\ MaxWakes \in Nat
ASSUME NeedsAssumption == Needs \subseteq Nat
ASSUME ClientAssumption == Interruptible \subseteq Client

VARIABLES
  taken,
  waiters,       \* the observers, in the order of the Set
  wakes,         \* wake tasks given to the scheduler
  waking,        \* observers left of the wake task that holds the thread
  pc, need,      \* where each fiber is and how many permits it asks for
  interrupted,   \* an interruption is in its inbox
  holding,       \* history: permits taken for a client and not given back
  released       \* history: somebody called releaseAll

vars == <<taken, waiters, wakes, waking, pc, need, interrupted, holding, released>>

TypeOK ==
  /\ taken \in Int
  /\ waiters \in Seq(Client)
  /\ wakes \in Nat
  /\ waking \in Seq(Client)
  /\ pc \in [Client -> {"idle", "waiting", "granted", "using", "ended"}]
  /\ need \in [Client -> Needs]
  /\ interrupted \in [Client -> BOOLEAN]
  /\ holding \in SUBSET Client
  /\ released \in BOOLEAN
  /\ IsInjective(waiters)
  /\ ToSet(waiters) = {c \in Client : pc[c] = "waiting"}

Init ==
  /\ taken = 0
  /\ waiters = <<>>
  /\ wakes = 0
  /\ waking = <<>>
  /\ pc = [c \in Client |-> "idle"]
  /\ need \in [Client -> Needs]
  /\ interrupted = [c \in Client |-> FALSE]
  /\ holding = {}
  /\ released = FALSE

-----------------------------------------------------------------------------
free == Permits - taken
Idle == waking = <<>>

(* Seeded bug: an observer does not look whether the permits are there.      *)
FitsAny(c) == free > 0

Fits(c) == free >= need[c]

(* waiters.delete(observer).                                                *)
Delete(c) ==
  IF c \in ToSet(waiters)
    THEN RemoveAt(waiters, CHOOSE i \in DOMAIN waiters : waiters[i] = c)
    ELSE waiters

(* The permits are taken in the name of c, and it is told.                   *)
Grant(c) ==
  /\ taken' = taken + need[c]
  /\ holding' = holding \cup {c}
  /\ pc' = [pc EXCEPT ![c] = "granted"]

(* take: at once, whoever waits, or later.                                  *)
Take(c) ==
  /\ Idle
  /\ pc[c] = "idle"
  /\ IF free < need[c]
       THEN /\ waiters' = Append(waiters, c)
            /\ pc' = [pc EXCEPT ![c] = "waiting"]
            /\ UNCHANGED <<taken, holding>>
       ELSE /\ Grant(c)
            /\ UNCHANGED waiters
  /\ UNCHANGED <<wakes, waking, need, interrupted, released>>

(* Seeded bug: the task is scheduled only for several waiters.               *)
SeveralWait == Len(waiters) > 1

SomebodyWaits == waiters # <<>>

(* updateTaken: the waiters are told in a task of the scheduler.             *)
UpdateTaken(n) ==
  /\ taken' = n
  /\ wakes' = IF SomebodyWaits THEN wakes + 1 ELSE wakes

(* withPermits: the effect is over, or interrupted; its permits are released.*)
Release(c) ==
  /\ Idle
  /\ pc[c] = "using"
  /\ UpdateTaken(taken - need[c])
  /\ holding' = holding \ {c}
  /\ pc' = [pc EXCEPT ![c] = "ended"]
  /\ UNCHANGED <<waiters, waking, need, interrupted, released>>

ReleaseAll ==
  /\ Idle
  /\ wakes < MaxWakes
  /\ UpdateTaken(0)
  /\ released' = TRUE
  /\ UNCHANGED <<waiters, waking, pc, need, interrupted, holding>>

(* The scheduler runs a wake task.                                          *)
RunWake ==
  /\ Idle
  /\ wakes > 0
  /\ wakes' = wakes - 1
  /\ waking' = waiters
  /\ UNCHANGED <<taken, waiters, pc, need, interrupted, holding, released>>

(* Seeded bug: the waiters behind one that does not fit are not told.        *)
NoneAfter == IF Fits(Head(waking)) THEN Tail(waking) ELSE <<>>

RestAfter == Tail(waking)

(* The observer of the next waiter, while there are permits left.           *)
Wake ==
  /\ waking # <<>>
  /\ LET c == Head(waking)
     IN CASE free <= 0 -> /\ waking' = <<>>
                          /\ UNCHANGED <<taken, waiters, pc, holding>>
          [] free > 0 /\ Fits(c) -> /\ Grant(c)
                                    /\ waiters' = Delete(c)
                                    /\ waking' = RestAfter
          [] OTHER -> /\ waking' = RestAfter
                      /\ UNCHANGED <<taken, waiters, pc, holding>>
  /\ UNCHANGED <<wakes, need, interrupted, released>>

(* The fiber reads its inbox: it runs the effect, or it stops, and then      *)
(* nobody knows of the permits taken for it.                                *)
Resume(c) ==
  /\ Idle
  /\ pc[c] = "granted"
  /\ pc' = [pc EXCEPT ![c] = IF interrupted[c] THEN "ended" ELSE "using"]
  /\ UNCHANGED <<taken, waiters, wakes, waking, need, interrupted, holding, released>>

(* The finalizer of take: a waiter that was interrupted is forgotten.       *)
Cancel(c) ==
  /\ Idle
  /\ pc[c] = "waiting"
  /\ interrupted[c]
  /\ waiters' = Delete(c)
  /\ pc' = [pc EXCEPT ![c] = "ended"]
  /\ UNCHANGED <<taken, wakes, waking, need, interrupted, holding, released>>

Interrupt(c) ==
  /\ Idle
  /\ c \in Interruptible
  /\ pc[c] \in {"waiting", "granted"}
  /\ ~interrupted[c]
  /\ interrupted' = [interrupted EXCEPT ![c] = TRUE]
  /\ UNCHANGED <<taken, waiters, wakes, waking, pc, need, holding, released>>

Step(c) == Release(c) \/ Resume(c) \/ Cancel(c)

Next ==
  \/ \E c \in Client : Take(c) \/ Step(c) \/ Interrupt(c)
  \/ ReleaseAll \/ RunWake \/ Wake

Spec == Init /\ [][Next]_vars

(* Fibers read their inboxes and effects end; schedulers run their tasks.    *)
FairSpec == Spec /\ (\A c \in Client : WF_vars(Step(c))) /\ WF_vars(RunWake \/ Wake)

-----------------------------------------------------------------------------
(* A waiter for which there are permits is about to be told: a wake task is  *)
(* scheduled or has still to come to it.  "large semaphore takes don't block *)
(* smaller takes" (CHANGELOG.md): wherever it stands among the waiters.      *)
NoLostWakeup ==
  \A c \in Client :
    pc[c] = "waiting" /\ Fits(c) => wakes > 0 \/ c \in ToSet(waking)

(* The permits that the clients in S ask for, one by one.                    *)
Slips(S) == UNION {{c} \X (1..need[c]) : c \in S}
Asked(S) == Cardinality(Slips(S))

(* Until somebody calls releaseAll, the effects that run at a time hold no   *)
(* more than the permits there are, and every permit taken is somebody's.    *)
NeverOversubscribed ==
  ~released =>
    /\ Asked({c \in Client : pc[c] = "using"}) <= Permits
    /\ taken = Asked(holding)

(* Effect.withPermits: "run the effect and release the permits when         *)
(* finished": a client that is done holds no permits.                       *)
PermitsReturned == \A c \in Client : pc[c] = "ended" => c \notin holding

(* Somebody who asks for no more permits than there are gets them, if        *)
(* everybody gives them back.                                               *)
EverybodyServed ==
  \A c \in Client :
    pc[c] = "waiting" /\ need[c] <= Permits ~> pc[c] # "waiting" \/ ~PermitsReturned
=============================================================================
