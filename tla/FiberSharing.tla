---------------------------- MODULE FiberSharing ----------------------------
(***************************************************************************)
(* What fibers share and hand to each other: Cache, MemoMap, Scope, ScopedRef, *)
(* SubscriptionRef, Handoff, AsyncInput, RateLimiter and TestClock.  They share *)
(* no state, so in a behaviour one of them runs and the others are at rest.   *)
(***************************************************************************)
EXTENDS Integers, Sequences, FiniteSets

CONSTANTS
  Asker,                \* who asks a cache, gives and takes by a handoff
  Stoppable,            \* the fibers that somebody may interrupt
  Nobody,
  CacheKey, CacheJobs, Perishable, Capacity, Absent,    \* of Cache
  Caller,                \* of MemoMap, RateLimiter and ScopedRef
  Parent, Width, Finalizers,                            \* of Scope
  HandoffJobs,
  Consumer, MaxElements,                                \* of AsyncInput
  Costs, Limit, MaxSurplus,                             \* of RateLimiter
  Initial,                                              \* of ScopedRef
  Updater, Subscriber,                                  \* of SubscriptionRef
  Sleeper, Naps, Adjuster, Jumps                        \* of TestClock

(* The names of those who ask are neither "none" nor Nobody.                  *)
ASSUME AskerAssumption == "none" \notin Asker /\ Nobody \notin Asker

VARIABLES
  runs,         \* which component
  map, keys, job, asks, found, deferred, answer, expired, abandoned, outdated, barred,
  entry, at, of, built, observers, inner, scope, duties, cutAt, tooLate,
  open, fork, finalizers, pending, active, closer, caller, home, life,
  plan, ref, turn, announced, accepted, step, awaits, got, cutOff,
  tag, consumers, round, notified, given, does, owes, seen, producer, listens, hands,
  emitted, torn,
  algorithm, cost, spent, line, bells, signals, refill, place, before, lagged, leaked,
  current, resources, lock, sets, owner, final, told, lost, late, broken,
  value, holder, phase, read, subscribed, queue, saw, halted, did, skipped,
  instant, sleeps, naps, stage, due, jumps, adjusts, goal, rouses, crossed

cache == <<map, keys, job, asks, found, deferred, answer, expired, abandoned, outdated, barred>>
memo == <<entry, at, of, built, observers, inner, scope, duties, cutAt, tooLate>>
scopes == <<open, fork, finalizers, pending, active, closer, caller, home, life>>
handoff == <<plan, ref, turn, announced, accepted, step, awaits, got, cutOff>>
input == <<tag, consumers, round, notified, given, does, owes, seen, producer, listens,
           hands, emitted, torn>>
limiter == <<algorithm, cost, spent, line, bells, signals, refill, place, before,
             lagged, leaked>>
scoped == <<current, resources, lock, sets, owner, final, told, lost, late, broken>>
subscription == <<value, holder, phase, read, subscribed, queue, saw, halted, did, skipped>>
clock == <<instant, sleeps, naps, stage, due, jumps, adjusts, goal, rouses, crossed>>
refs == <<scoped, subscription>>
shared == <<runs, cache, memo, scopes, handoff, input, limiter, refs, clock>>

-----------------------------------------------------------------------------
C == INSTANCE Cache WITH
       Client <- Asker, Key <- CacheKey, Jobs <- CacheJobs, Interruptible <- Stoppable,
       pc <- asks

(* What they do are operations of the component; who needs tokens needs one at   *)
(* least (a call for none would wake the fiber that refills for nothing); the    *)
(* value that a reference is made with is not one that is set.                 *)
ASSUME CallerAssumption == IsFiniteSet(Caller) /\ Nobody \notin Caller /\ Initial \notin Caller
ASSUME CacheAssumption == CacheJobs \subseteq [Asker -> C!Operations \X CacheKey]
ASSUME HandoffAssumption == HandoffJobs \subseteq [Asker -> {"offer", "take", "poll"}]
ASSUME CostAssumption == Limit \in Nat /\ Costs \subseteq [Caller -> Nat \ {0}]
ASSUME ScopeAssumption ==
  /\ IsFiniteSet(DOMAIN Parent) /\ {"root", "none"} \cap DOMAIN Parent = {}
  /\ \A c \in DOMAIN Parent : Parent[c] \in {"root"} \cup DOMAIN Parent
  /\ Finalizers \in Nat
ASSUME SubscriptionAssumption ==
  /\ Updater \cap Subscriber = {} /\ Nobody \notin Updater \cup Subscriber
ASSUME ClockAssumption ==
  /\ Naps \subseteq [Sleeper -> Seq(Nat)]
  /\ Jumps \subseteq [Adjuster -> Seq({"adjust", "setTime"} \X Nat)]

CacheRests ==
  /\ map = [k \in CacheKey |-> Absent] /\ keys = <<>>
  /\ job = (CHOOSE j \in CacheJobs : TRUE) /\ asks = [x \in Asker |-> "ended"]
  /\ found = [x \in Asker |-> Absent] /\ answer = [x \in Asker |-> "none"]
  /\ deferred = [x \in Asker |-> "pending"] /\ barred = [x \in Asker |-> {}]
  /\ expired = {} /\ abandoned = {} /\ outdated = {}

L == INSTANCE MemoMap WITH User <- Caller, pc <- at, deferred <- built

MemoRests ==
  /\ entry = Nobody /\ tooLate = {}
  /\ at = [u \in Caller |-> "ended"] /\ of = [u \in Caller |-> Nobody]
  /\ built = [u \in Caller |-> "pending"] /\ observers = [u \in Caller |-> 0]
  /\ inner = [u \in Caller |-> "none"] /\ cutAt = [u \in Caller |-> "nowhere"]
  /\ scope = [u \in Caller |-> [exited |-> TRUE, finalizers |-> <<>>]]
  /\ duties = [r \in L!Runner |-> <<>>]

S == INSTANCE Scope WITH state <- open

ScopesRest ==
  /\ open = [s \in S!Scope |-> "exited"] /\ fork = [s \in S!Child |-> "forked"]
  /\ finalizers = [s \in S!Scope |-> <<>>] /\ pending = [s \in S!Scope |-> <<>>]
  /\ active = [s \in S!Scope |-> {}] /\ closer = [s \in S!Scope |-> "nobody"]
  /\ caller = [s \in S!Scope |-> "returned"]
  /\ home = [u \in S!User |-> "none"] /\ life = [u \in S!User |-> "ran"]

H == INSTANCE Handoff WITH
       Client <- Asker, Jobs <- HandoffJobs, job <- plan, pc <- step, cut <- cutOff

HandoffRests ==
  /\ plan = (CHOOSE p \in HandoffJobs : TRUE) /\ ref = Nobody /\ turn = 0
  /\ announced = {} /\ accepted = {} /\ cutOff = {}
  /\ step = [x \in Asker |-> "empty"] /\ got = [x \in Asker |-> Nobody]
  /\ awaits = [x \in Asker |-> H!Nothing]

I == INSTANCE AsyncInput WITH pc <- does, cut <- torn

InputRests ==
  /\ tag = "done" /\ consumers = <<>> /\ round = 0 /\ notified = {}
  /\ given = [x \in Consumer |-> I!Pending] /\ does = [x \in Consumer |-> "over"]
  /\ owes = [x \in Consumer |-> 0] /\ seen = [x \in Consumer |-> <<>>]
  /\ producer = "over" /\ listens = 0 /\ hands = <<>> /\ emitted = 0 /\ torn = FALSE

T == INSTANCE RateLimiter WITH
       Client <- Caller, Interruptible <- Stoppable, taken <- spent, waiters <- line,
       wakes <- bells, pc <- place

LimiterRests ==
  /\ algorithm = "fixed-window" /\ cost = CHOOSE n \in Costs : TRUE
  /\ spent = 0 /\ line = <<>> /\ bells = 0 /\ signals = 0 /\ refill = "waits"
  /\ place = [u \in Caller |-> "called"]
  /\ before = {} /\ lagged = FALSE /\ leaked = FALSE

(* These two are at rest as long as nobody uses them.                        *)
R == INSTANCE ScopedRef WITH
       Setter <- Caller, First <- Initial, Interruptible <- Stoppable,
       scope <- resources, pc <- sets, last <- final, cut <- told, leaked <- lost

U == INSTANCE SubscriptionRef WITH
       Interruptible <- Stoppable,
       lock <- holder, pc <- phase, active <- subscribed, seen <- saw, cut <- halted

K == INSTANCE TestClock WITH
       pc <- stage, step <- adjusts, wakes <- rouses

ClockRests ==
  /\ instant = 0 /\ sleeps = <<>> /\ crossed = FALSE
  /\ naps = [x \in Sleeper |-> <<>>] /\ jumps = [x \in Adjuster |-> <<>>]
  /\ stage = [x \in Sleeper |-> "ended"] /\ due = [x \in Sleeper |-> 0]
  /\ adjusts = [x \in Adjuster |-> "idle"] /\ goal = [x \in Adjuster |-> K!Unknown]
  /\ rouses = [x \in Adjuster |-> CHOOSE s \in Sleeper : TRUE]

-----------------------------------------------------------------------------
SharedInit ==
  /\ runs \in {"cache", "memo", "scopes", "handoff", "input", "limiter",
               "scopedRef", "subscriptionRef", "clock"}
  /\ R!Init /\ U!Init
  /\ IF runs = "cache" THEN C!Init ELSE CacheRests
  /\ IF runs = "memo" THEN L!Init ELSE MemoRests
  /\ IF runs = "scopes" THEN S!Init ELSE ScopesRest
  /\ IF runs = "handoff" THEN H!Init ELSE HandoffRests
  /\ IF runs = "input" THEN I!Init ELSE InputRests
  /\ IF runs = "limiter" THEN T!Init ELSE LimiterRests
  /\ IF runs = "clock" THEN K!Init ELSE ClockRests

InCache == UNCHANGED <<runs, memo, scopes, handoff, input, limiter, refs, clock>>
InMemo == UNCHANGED <<runs, cache, scopes, handoff, input, limiter, refs, clock>>
InScopes == UNCHANGED <<runs, cache, memo, handoff, input, limiter, refs, clock>>
InHandoff == UNCHANGED <<runs, cache, memo, scopes, input, limiter, refs, clock>>
InInput == UNCHANGED <<runs, cache, memo, scopes, handoff, limiter, refs, clock>>
InLimiter == UNCHANGED <<runs, cache, memo, scopes, handoff, input, refs, clock>>
Others == UNCHANGED <<runs, cache, memo, scopes, handoff, input, limiter>>
InScoped == Others /\ UNCHANGED <<subscription, clock>>
InSubscription == Others /\ UNCHANGED <<scoped, clock>>
InClock == Others /\ UNCHANGED refs

SharedNext ==
  \/ runs = "cache" /\ C!Next /\ InCache
  \/ runs = "memo" /\ L!Next /\ InMemo
  \/ runs = "scopes" /\ S!Next /\ InScopes
  \/ runs = "handoff" /\ H!Next /\ InHandoff
  \/ runs = "input" /\ I!Next /\ InInput
  \/ runs = "limiter" /\ T!Next /\ InLimiter
  \/ runs = "scopedRef" /\ R!Next /\ InScoped
  \/ runs = "subscriptionRef" /\ U!Next /\ InSubscription
  \/ runs = "clock" /\ K!Next /\ InClock

SharedSpec == SharedInit /\ [][SharedNext]_shared

(* The fairness of each of them: of a fiber that goes on, in whichever; of who *)
(* serves the others, that is whoever closes scopes, the drainer, the fiber    *)
(* that refills and its wake tasks; and the upstream ends.                    *)
GoesOn(f) ==
  \/ runs = "cache" /\ f \in Asker /\ C!ClientStep(f) /\ InCache
  \/ runs = "memo" /\ f \in Caller /\ (L!UserStep(f) \/ L!Finalize(<<"user", f>>)) /\ InMemo
  \/ runs = "input" /\ f \in Consumer /\ I!ConsumerStep(f) /\ InInput
  \/ runs = "limiter" /\ f \in Caller /\ T!ClientStep(f) /\ InLimiter
  \/ runs = "subscriptionRef" /\ U!Step(f) /\ InSubscription
  \/ runs = "clock" /\ f \in Sleeper /\ K!SleeperStep(f) /\ InClock
  \/ runs = "clock" /\ f \in Adjuster /\ K!AdjusterStep(f) /\ InClock
Closes(f) == runs = "memo" /\ L!Finalize(<<"closer", f>>) /\ InMemo
Serves ==
  \/ runs = "scopes" /\ S!Goes /\ InScopes
  \/ runs = "input" /\ I!ProducerStep /\ InInput
  \/ runs = "limiter" /\ T!Refill /\ InLimiter

SharedFairSpec ==
  /\ SharedSpec
  /\ \A f \in Asker \cup Caller \cup Consumer \cup Updater \cup Subscriber \cup Sleeper \cup Adjuster :
       WF_shared(GoesOn(f))
  /\ \A f \in Caller : WF_shared(Closes(f))
  /\ WF_shared(Serves)
  /\ WF_shared(runs = "limiter" /\ T!RunWake /\ InLimiter)
  /\ SF_shared(runs = "input" /\ I!Ends /\ InInput)

-----------------------------------------------------------------------------
(* Nobody is given what the cache had had when the key was last invalidated    *)
(* before it asked.                                                         *)
NoStaleAnswer == C!NoStaleAnswer

(* A memoised layer stays open for whoever it counted.                        *)
UsedIsOpenIfCounted == L!UsedIsOpenIfCounted

(* No finalizer is forgotten or runs out of turn; a reference to a value that   *)
(* has resources has those of one value.                                     *)
FinalizersRun == S!FinalizersRun /\ R!RefIsHeld

(* Values, elements and changes come to who is to have them, once.             *)
HandedOver == H!HandedOver /\ I!FedInOrder /\ U!Changes

(* Tokens and time neither multiply nor get lost.                            *)
TimersAreTrue == T!TokensReturn /\ K!TimeIsKept

EverybodyAnswered ==
  <>(C!Answered /\ I!Fed /\ T!Served /\ K!Woken /\ (runs = "subscriptionRef" => U!Informed))
ReleasedInTheEnd == []<>(L!Released /\ S!Settled)
=============================================================================
