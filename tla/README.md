# A verification of the Effect runtime

TLA+ models of the concurrent core of Effect (`packages/effect`): what a fiber
is, how fibers are scheduled, how they interrupt and await each other, the
primitives that programs are synchronised with, and the resources and caches
that are built on them. TLC checks the models on small instances, TLAPS proves
the properties that matter most for every size.

Everything in `packages/effect` runs on one JavaScript thread, so nothing here
is about memory models. What is hard is that *everything else interleaves*:
the thread leaves a fiber at any operation, every wake-up is a message read
later, every callback can come late, twice or never, and an interruption can
arrive between any two of those.

    FiberRuntime  --implements-->  StructuredConcurrency
    STM           --implements-->  AtomicMemory
    Queue, Semaphore                 what fibers wait on
    PubSub        --built over-->  AtomicPubSub
    Pool, Request                    items lent, and requests batched, for all
                                       who ask (PoolRequest, MCPoolRequest)
    Scheduler, ForEach, Race,        who runs, forks, races and keeps fibers
      RaceAll, FiberMap                (FiberTasks, MCTasks)
    Cache, MemoMap, Scope,           what fibers share and hand to each other
      ScopedRef, SubscriptionRef,      (FiberSharing, MCSharing)
      Handoff, AsyncInput,
      RateLimiter, TestClock

## 1. Inventory

| Component (source under `packages/effect/src`) | State | Operations | What is hard | Properties |
|---|---|---|---|---|
| Fiber runtime: `internal/fiberRuntime.ts`, `fiberMessage.ts`, `fiberScope.ts`, `runtime.ts`, the primitives of `core.ts` | inbox, `_running`, stack, runtime flags, interrupted cause, `_asyncInterruptor`, children, observers, exit | start, drain, run loop, fork, await, interrupt, async callbacks, onExit, exit | messages that arrive at any operation, late and repeated callbacks, winding children down while messages still arrive | one continuation per fiber, no stranded message, nothing runs after an interruption, finalizers run once, children end first |
| Scheduler: `Scheduler.ts` | buckets, `running`, the callback given to the platform, depth | scheduleTask, starve, starveInternal | tasks that schedule tasks, a task that throws | one driver, nobody overtaken, every task runs |
| STM: `internal/stm` | TRefs with their todos, journals, transaction states, tasks | first attempt, registration, retried attempts, interruption | attempts between a check and a wait, todos that outlive their transaction | atomicity, no lost wake-up |
| Semaphore: `internal/effect/circular.ts` | taken, waiters, wake tasks | take, release, releaseAll, withPermits | permits taken for a fiber that does not know it yet | never oversubscribed, no lost wake-up, permits come back |
| Deferred: `internal/core.ts` | pending joiners, or done | await, complete, cancel | joiners that are interrupted while it completes | each joiner resumed once (the same protocol as `fiber.await`, checked in FiberRuntime) |
| Queue: `internal/queue.ts` | buffer, takers, putters, strategy, shutdown | offer, take, takeAll, shutdown | takers and putters matched in a loop; interrupted takers; shutdown | FIFO, no idle taker while there are values, nothing lost |
| PubSub: `internal/pubsub.ts` | ring of slots with subscriber counts, subscriptions, strategy | publish, subscribe, take, unsubscribe, shutdown | subscriptions behind the publisher, sliding, reuse of slots | every subscriber sees what was published since it subscribed, in order |
| Scope, ReleaseMap: `internal/fiberRuntime.ts`, `core.ts` | finalizers by key, or closed with an exit | add, remove, close, fork | finalizers added and scopes forked while it closes; a child closed by somebody else meanwhile; a close that is interrupted | each finalizer runs once, in the order of the strategy; a close returns when all have run |
| forEachConcurrent: `internal/fiberRuntime.ts` | the items left, the worker fibers, results, the residual queue | hand out, push a result, interrupt the rest, resume the caller | results, failures and interruptions that cross | no worker survives, the result is that of the items, it ends when something fails |
| Pool: `internal/pool.ts` | `size`, `free`, a queue of items, invalidated items | get, release, allocate, invalidate, shrink, shut down | counts adjusted around creators that fail or end after a shutdown | counts agree with the items, each item has one owner, a pool of fixed size serves everybody |
| Cache: `internal/cache.ts` | MapValues by key, the keys in order of access | get, getOption, refresh, set, invalidate, eviction, expiry | lookups that end after their key was invalidated, replaced or evicted | no stale answer, everybody is answered |
| MemoMap: `internal/layer.ts` | the entry of a layer, its Deferred, its observers, scopes | build, share, release | observers counted while builds race finalizers | a layer in use is open, and closed in the end |
| FiberMap: `FiberMap.ts` | fibers by key, their observers | set, remove, clear, run | a replaced fiber that ends late; fibers set during a clear | the latest fiber is kept, no fiber is let go uninterrupted |
| race, raceFirst, timeout, raceAll: `internal/fiberRuntime.ts`, `effect/circular.ts` | racers and their exits, `raceIndicator`, or a Deferred with a count of failures | start, complete, interrupt the losers, give up | both end before the parent moves; a failure that must not end the race; a parent interrupted half way | the first success wins, no loser is left, it ends when it is decided |
| RateLimiter: `internal/rateLimiter.ts` | tokens (a semaphore), calls (a second one, the latch), the fiber that refills | take, call, sleep, refill | calls made during a refill; a caller that is slow or interrupted between its tokens and its call | tokens neither multiply nor get lost, everybody is let through |
| Request batching: `internal/query.ts`, `request.ts`, `fiberRuntime.ts` | entries by request, each with a Deferred and a count of listeners; blocks and their resolvers | ask, block, share, complete, interrupt, invalidate | listeners that come and go before the resolver is watched; sharers of a request whose maker was interrupted | listeners are counted, a request has one pending entry, nobody fails for another, all are answered |
| Channel, the hand-over between fibers: `internal/stream/handoff.ts`, `internal/channel/singleProducerAsyncInput.ts`, the drainer of `channelExecutor.ts` | a Ref, and a Deferred for who waits for its next state | offer, take, poll; emit, done, error, awaitRead, takeWith | waits decided before the state changed, notifications an operation late | each value is taken once and in order, nobody waits for what has happened |
| ScopedRef: `internal/scopedRef.ts` | a Ref with a value and its scope, a lock | set, get, close | sets that fail or are interrupted between the old resources and the new ones, a finalizer that does not take the lock | one value has resources, none has when it is closed |
| SubscriptionRef: `internal/subscriptionRef.ts` | a Ref, a PubSub, a lock | modify, changes | setting and publishing, reading and subscribing are two steps each | no update lost, every change seen once, in order |
| TestClock: `TestClock.ts` | the instant, the sleeps | sleep, adjust, setTime | whoever is woken may sleep again before the next is | sleepers wake in order and on time, and none is forgotten |
| raceWith with callbacks of the caller, disconnect, FiberSet, KeyedPool, ScopedCache | fibers, counters and maps of pending work | as above | as above | planned |
| Fiber refs, patches, schedules, clocks | pure values | fork/join, diff/patch, step | algebraic laws | patch(diff(a, b), a) = b |
| The rest of Channel, Stream, Sink | a second interpreter with its own stack and finalizers | run, close, interrupt upstream | finalizers of an input closed early | later work |
| Data structures, Config, Logger, Metric, Tracer, Schema, Platform, RPC, CLI, Printer, Typeclass | sequential, or outside the runtime | | | not modelled |

How they interact: a fiber's `tell` puts a message in an inbox and a `run` task
in a **scheduler**; the task drains the inbox and runs the loop. Whatever
blocks a fiber (Deferred, Queue, PubSub, Pool, Cache, Semaphore, STM) is an `async` operation: it
keeps a callback, calls it later, and leaves a canceler that runs if the fiber
is interrupted. Calling the callback is again a `tell`, so between the moment
something is done *for* a fiber and the moment the fiber *learns* of it there is
always a gap, in which it may be interrupted. Most hazards in `PROJECT.json`
are about that gap.

## 2. Modules

### FiberRuntime

One instance of a fiber's variables per fiber; `thread` is the JavaScript call
stack, whose top is the fiber that moves. `pc` says which loop of the code it is
in:

| `pc` | code |
|---|---|
| `out` | off the thread; its inbox waits for a `run` task |
| `drain` | `drainQueueOnCurrentThread` and `evaluateMessageWhileSuspended` |
| `loop` | top of `runLoop`: messages (`drainQueueWhileRunning`), then yield or go on |
| `op` | about to execute the primitive `cur` |
| `exit` | `evaluateEffect` got an exit from `runLoop` |
| `leave` | `evaluateEffect` is over: back to the drain, or out of `start` |

The program a fiber evaluates is not given: the effect `any` stands for every
effect a user can write, and an action per primitive (`UserSucceed`, `UserFork`,
`UserAwait`, `UserFlags`, ...) chooses what it turns out to be. Everything the
library itself then does is explicit: the bracket of `onExit`
(`OpOnExit`, `OpGuard`, `OpRestore`), the frames of the stack and which of them a
success or a failure skips, `RevertFlags`, the loop that awaits children. The
`stack` holds frames, `asyncs` one record per asynchronous operation started
(`registered`: started and not yet waiting, `armed`: its callback is expected,
`called`: `alreadyCalled`). Callbacks from outside (`ExternalCallback`) may come
at any time, twice, or never.

`opened` and `ran` (finalizers), `scope` (the parent a fiber was forked in) are
history variables. Programs and the outside world share a budget of operations,
`fuel`, because a program can go on for ever.

*StructuredConcurrency* is the promise, without inboxes or loops: a fiber
begins once, in the global scope or that of a living fiber, and ends once, with
an exit that never changes, when no fiber forked in its scope is alive.

### Scheduler

`buckets` is `PriorityBuckets`; `callbacks` the `starveInternal` calls that were
given to the platform, with their depth; `batch` the tasks left of the buckets
being run. `ScheduleTask` is enabled while a task holds the thread, or when
nobody does. `Throw` is a task that throws: it leaves `starveInternal` half
way.

### STM

A transaction's body runs to its end in one step (`STMDriver.run`), so it is one
operator, the constant `Run(program, store)`, with the references it touches,
its writes and its exit. Two assumptions say what the journal guarantees: a
transaction writes only what it touches, and what it does depends only on that.
The protocol around it is explicit: `Begin` (`tryCommitSync`), `Register` (the
asynchronous operation starts), `RunTask` and `ExecTodo` (the loop of
`execTodos`, one todo at a time, on one thread), `Stop` (the handler of
`unsafeAtomically` after an interruption). A transaction is committed in an
interruptible region, as `commit` does unless its caller masks it.

*AtomicMemory* is the promise: a transaction takes effect at most once, whole,
as if alone, and never if it failed or was interrupted.

### Semaphore

One fiber per client uses `withPermits`. A waiter's observer takes the permits
(`Wake`, one observer at a time, on one thread), and the client is `granted`
until it reads its inbox (`Resume`). `Interrupt` puts an interruption in the
inbox before that. `holding` is the history of
the permits taken in whose name, `released` says whether `releaseAll` was called,
after which permits are given back twice.

### Queue

One fiber per client performs one operation, in the synchronous steps of the
code: `Offer`, then if the value did not fit `Slide` or `Suspend`; `Take`, then
`Join` to wait; `TakeBetween` and `Poll`, then takes for what is missing
(`takeUpTo(n)` is `between` 0 and n, `takeN(n)` between n and n, `takeAll` and
`poll` are `takeUpTo`); `Shutdown`, `CompleteHook`, `Free`, `ShutdownStrategy`.
Between two steps other fibers run and an interruption may come, and an
interrupted wait runs its finalizer, `Cancel`, a step later. Each step ends with
the loops that match takers, items and putters. They call each other, so
`calls` is their call stack, `HandOver`, `Pair` and `Refill` are one iteration
each, and while it is not empty nothing else moves. A client's `deferred` is the
Deferred it made last. `handed` is the history of the values given to takers. Whoever is removed from a
line is filtered out of it (`Keep`, of the module `Filter`, for `Chunk.filter`).

### PubSub, over AtomicPubSub

*AtomicPubSub* is the data below: one record for the five classes of
`AtomicPubSub` in the code (`Arb`, `Pow2`, `Single` and `Unbounded`, whose
differences are `Single(r)`, `AsksFirst(r)` and the capacity `Unbounded`). A
value has an absolute index, a slot, and the count of the subscriptions that
have yet to read it; a subscription has an index that may fall behind what has
slid away (`Position`). A bounded ring has a slot per unit of capacity, and the linked
list of an unbounded one a node, thus a slot, for every index published (`Slots`).

*PubSub* is the protocol around it, in the form of the queue: clients that
publish or take in synchronous steps, and a stack `calls` of the loops
`unsafeCompletePollers` and `unsafeOnPubSubEmptySpace`. A subscription has a
`phase`: it reads from the first step of `subscribe` on (`joining`), the scope
of the PubSub knows it a step later (`active`), and it is left in three steps
(`leaving`, `freeing`, `ending`), by its owner or as a child of the PubSub's
scope. `Shutdown`, `CompleteHook`, `CloseScope`, `CloseChild`,
`ShutdownStrategy`, `FreePublishers` are the steps of a shutdown. `log` is the
history of what was stored and for whom, `seen` of what each subscription read.

### Pool

Everybody who works on a pool is a fiber with a list of steps `todo`: `get`
begins as `<<"acquire">>`, becomes `take` and `inspect` or `allocate`, `ask` and
`acquire` again, as `Reserve` decides from `size` and `free`. `hand` is the
attempt a fiber works on. The queue is a sequence of attempts and the fibers
waiting for one, taken atomically, because Queue models it in its own steps.
`Starter` is the fiber of `initialize`, `Shrinker` that of the strategy,
`Closer` closes the pool.

### Request

A *slot* is one request of one fiber (`plan`); the slots of a fiber are asked for
in one batch, until each goes on `alone`. An entry of the cache is named by the slot
that made it, whose `count` is `listeners.count` and whose `handle` the Deferred.
The entries a batch made form a block, named by its `leader`: `proc` is the
fiber of the resolver, `watch` the step of the daemon that runs it
(`invokeWithInterrupt`): fork, register, listen, interrupt, complete the rest, or
nothing any more when the registration has thrown (`thrown`, section 4).
The resolver completes what it likes, ends, dies, or goes on for ever. `gone`
and `abandoned` are history, for section 4.

### Cache and MemoMap

In *Cache* a client stands for the Deferred of its lookup and for the value it
looks up or sets. `map` has the MapValues (`Pending`, `Complete`,
`Refreshing`) and `keys` the KeySet, a sequence of MapKeys, which are objects and
therefore differ for a pending entry and the value that replaces it. Time is
the action `Expire`. `outdated` and `barred` are history: the values that may
not be returned any more, and to whom.

In *MemoMap*, one layer: a user asks for it in a scope of its own; the user who
builds it stands for its entry, Deferred, count of observers and inner scope.
`duties` are the finalizers a fiber has yet to run, whether that of a user
whose scope was already closed or that of whoever closes it. The last observer
counts down (`Release`) and closes the inner scope in a step of its own
(`CloseInner`), between which others may join (`Releasing`). `tooLate` and
`cutAt` are history, for the cases of section 4.

### Scope

A scope, with any tree of scopes forked from it (`Parent`) and a width for each:
1 for `sequential`, n for `parallelN`. Closing takes all finalizers
(`pending`) and begins as many at a time as the width allows (`active`). A fork
adds a finalizer to the parent (`Closes`), then one to the child that takes this
out again (`Forgets`); both are steps of the forking fiber. `life` is that of
a user's finalizer: one that comes when the scope is closed runs at once, in the
fiber that adds it.

### Handoff and AsyncInput

Both are a `Ref` whose states carry Deferreds, changed in one step by `Ref.modify`,
which returns the effect of the next steps: completing somebody's Deferred,
then waiting for one of a state that may be over by then. A Deferred is named by
what it announces: the round of an empty state, or whose value was taken.
*AsyncInput* has the consumers (`takeWith`, in a loop) and the drainer, which
awaits a reader, runs the upstream, and gives on the element, the end or
the error.

### RateLimiter

Both algorithms (`algorithm`). A caller takes its `cost` from the semaphore, is
`granted` until it goes on, calls (`latch.release(1)`) and keeps its tokens. The
fiber that refills listens to the latch, sleeps, drains the latch and gives back
one token or all. `lagged` and `leaked` are history, for section 4.

### ScopedRef and SubscriptionRef

A *ScopedRef* has a lock (that of a SynchronizedRef; the gap in which a permit is
lost is Semaphore's, and left out here) and a scope per value; each setter sets a
value of its own. Closing the old scope, making the new one and acquiring in it are
uninterruptible; `Store` comes after, and `Stop` may come before it. `ReadLast` and
`CloseLast` are the finalizer. `leaked`, `late` and `broken` are history.

In a *SubscriptionRef* every update adds one to what its fiber read, so that updates
that cross are lost. A subscriber reads, subscribes, unlocks and then takes from the
PubSub, here a queue per subscription (PubSub models the rest). `skipped` is history.

### TestClock

Sleepers have naps to take one after the other, adjusters jumps to make (`adjust`
by, `setTime` to). A run waits until all sleepers wait (`AwaitSuspended`), wakes the
first whose time has come, and begins again with the same `goal`. The snapshots by
which the code finds out that nothing runs, which take real time, are this one
guard. `crossed` is the history of two runs at once.

### ForEach and FiberMap

*ForEach* is `forEachConcurrentDiscard`: the caller (`parent`), the fiber it
forks (`processing`), and the workers, which take an item, push a result, take
the next one or leave. The last result calls the callback of `processing`; a
failure or an interruption drops what nobody has taken and interrupts who
works. A worker's body is any effect.

*FiberMap* keeps a fiber's life as three values (FiberRuntime models it), and
everything else of the module: the observer of each fiber under each key, who
has been interrupted, who is about to be, and the loop of `clear`.

### Race and RaceAll

*Race* is `raceFibersWith` with the callbacks that `race` and `timeoutTo` give
it (`kind`), which differ in `AfterWin`: `race` goes on to `join` the other
fiber when the first has failed, `timeoutTo` interrupts it. A racer inherits
the flags of the parent (`masked`); the sleep of a timeout is interruptible and
belongs to the global scope (`Sleeps`). `winner` is who set `raceIndicator`,
`finished` the history of the ends. The parent's own end (`WindDown`, `Exit`) is
modelled because it is what it has to reach when it is interrupted.

*RaceAll* has the racers, an arbiter per racer, the Deferred `done` and the
counter `fails`. Arbiters and an interrupted caller interrupt racers one after
the other, each awaited before the next (`victims`, `Tell`, `Await`).

### Compositions

`FiberTasks`, `FiberSharing` and `PoolRequest` (with their constants in `MCTasks`,
`MCSharing` and `MCPoolRequest`) hold components that share no state: in
a behaviour one of them runs (in the latter two, the one that `runs` names) and the
others are at rest, so that a run explores the sum of their states, and never
their product. Each keeps its own Init, Next and fairness. Where two of them
promise the same, one property states it of both (`HandedOver`,
`EverybodyAnswered`, `ReleasedInTheEnd`, `ResultIsTrue`, `DecidedEnds`,
`EverybodyServed`); in a behaviour of the one, the part of the other holds.

### Proof modules

`FiberRuntimeProofs` (types, mailboxes, interruption, whom a fiber knows; then
continuations, finalizers, scopes, the refinement);
`QueueProofs`, `STMProofs`; `PoolProofs`, of PoolRequest: the pool, then requests;
`PubSubProofs`, first of the ring
(AtomicPubSub), then of the protocol; `TaskProofs`, of FiberTasks: the scheduler, then
FiberMap, ForEach, Race and RaceAll, each with an invariant of its own, of which
the one of the composition is the conjunction;
`SharingProofs`, of the semaphore and of FiberSharing: Cache, MemoMap, Handoff,
AsyncInput, SubscriptionRef, RateLimiter, TestClock, Scope and ScopedRef, each with an
invariant that holds when it runs, and rest otherwise;
`SequenceLemmas`, on which the proofs about lines of waiters rest.

## 3. What the runs check

| Run | Instance | Shows |
|---|---|---|
| `fiber_safety` | three fibers, five operations, yielding at any primitive; 1,490,000 states | one continuation per fiber, and `_asyncInterruptor` never outlives its operation; no stranded message; an interrupted fiber executes nothing but its failure; finalizers run once; children end first |
| `fiber_temporal` | two fibers, four operations | the runtime implements StructuredConcurrency; inboxes drain, interrupted fibers end, awaiters are resumed |
| `stm` | three transactions over two references, programs that increment, move or wait, wait for both, fail after a wait; 559,000 states | no lost wake-up; AtomicMemory is implemented; whoever can go on is tried again; interrupted transactions end |
| `semaphore` | four clients of one to three permits out of two, two of which may be interrupted, and `releaseAll`; 945,000 states | never oversubscribed, unless by `releaseAll`; no lost wake-up; everybody is served, unless permits were lost to an interruption |
| `queue` | three clients of any operation, one of which may shut the queue down, any strategy, capacities zero to two, interrupted anywhere; 724,000 states | nobody waits in vain; who waits is listed and who gave up is not; answers of offers are true; first in, first out; a shutdown frees everybody |
| `pubsub` | two subscriptions that come and go, three clients that publish, publish two at once, take, take one or two, shut down; back pressure, dropping and sliding, a ring of two, a single slot and no bound; 400,000 states | every subscriber sees what was published for it, in order and once; nobody waits in vain; nothing is retained that nobody has to read; a shutdown frees everybody |
| `pool_request` | Pool: two getters, items between 1 and 1, 0 and 1, 1 and 2, creators that fail, one invalidation, a shutdown at any time. Request: three slots, of two fibers that ask for two requests and share one, or of three that ask for the same; one is interrupted, the resolver ends, dies or goes on. 628,000 states | the counts are those of the items; every item has one owner and none is open at the end. Listeners are counted, a request has one pending entry, nobody fails because somebody else was interrupted. A pool of fixed size serves everybody and its shutdown ends; every request is answered unless its resolver died, goes on or ended before it was watched, and no resolver works for nobody |
| `tasks` | Scheduler: four tasks, three priorities, a timer after two microtasks. ForEach: four items, one to four workers, failures and interruption. Race: a race and a timeout. RaceAll: three racers. FiberMap: two fibers, two keys. 352,000 states | one driver; nobody is overtaken; every task runs. No worker is left when `forEach` is over; its result is that of its items; a failure ends it. Races are won by the first success, interrupt their losers and end. The map has the latest fiber of a key, and lets no living fiber go |
| `sharing` | Cache: two keys, room for one, four clients of every operation, values that expire, interruptions. MemoMap: three users. Scope: a root, a child, a grandchild that closes two at a time, two finalizers. Handoff: two offers, a take and one operation more. AsyncInput: two consumers of up to three elements and an end. RateLimiter: two tokens, three callers, both algorithms. ScopedRef: three setters. SubscriptionRef: two updaters, two subscribers. TestClock: two sleepers, two adjusters. 279,000 states | nobody is given a value older than an invalidation. Who uses a layer has it, if it was counted before the count came down to nothing. No finalizer is forgotten, runs before a later one, or after the close returned. A value is handed to one taker, in order, and nobody waits for what has happened. Tokens neither multiply nor get lost. Resources of a replaced value are closed; changes are seen in order; test time passes only while all sleep. Every cache client, consumer, caller, subscriber and sleeper is answered; layers and scopes are released in the end |
| `stm_retry`, `semaphore_leak`, `queue_two_shutdowns` | two or three parties | **violated**, see section 4 |

Every module states its type invariant `TypeOK`. Those of FiberRuntime, STM,
Scheduler and Semaphore follow from the theorems of section 5 or are conjuncts of
their invariants; TLC accepts all of them on the instances above (add
`INVARIANT TypeOK`, or `C!TypeOK` and so on in the compositions).

**Bounds, and why they are enough.** *Fiber runtime.* The interactions of the
code are between one fiber and one other party (its parent, its child, the one
it awaits, the scheduler, a callback), and two fibers give all of them; three
give the nesting: a grandchild being wound down by a child that is being wound
down. Two do for the temporal run: each of its properties is about a fiber
and one that it waits for. Five operations cover each protocol from beginning to end: fork, onExit,
asynchronous operation, interruption, callback. The budget only counts the
operations that add something (forks, frames, asynchronous operations,
interruptions); succeeding, failing, draining and unwinding are free.
*Scheduler.* Four tasks and two microtasks per timer reach the timer and leave a
task behind it. *STM.* Two references are what it takes for a transaction to be
in two sets of todos of which one is emptied; three transactions are two
waiters and one that wakes them. *Semaphore.* A request larger than what is
free, one behind it that fits, a holder and a newcomer; for `semaphore_leak`, a holder
and two who may be interrupted and come when they have to wait (`LateSpec`). *Queue.* Somebody who
waits, somebody who comes between the look and the wait, and one more who leaves
or shuts down; offers and takes of two values cross the capacity both ways.
*PubSub.* Two subscriptions are what it takes for a slot to be read by one and not
by the other, one of which can leave early; a ring of two wraps around with
three values; the operations of a client are chosen so that each strategy meets
a full ring. A sliding PubSub of capacity one is left out (section 4). *Pool.* One
holder and one who waits; a third item replaces one of two. *ForEach.* Four
items give every relation of items to workers: one worker, some left when two
have taken theirs, none left. *RaceAll.* One racer wins, one is being
interrupted, one has its turn to come. *FiberMap.* A fiber under two keys, two under one
key. *Request.* A block of two
requests of which one is shared, and a maker with two sharers, both of whom ask
again when it was not completed. *Scope.* A scope between a parent and a child,
and one that runs two finalizers at a time. *Handoff.* One who
gives, one whose turn is next, one who takes, and one more of any kind.
*AsyncInput.* Of two consumers one is served and one waits; three elements
let a consumer overtake another and come back. *RateLimiter.* A caller that
needs all the tokens and one that needs a part; `MaxSurplus` only bounds the
overflow of section 4. *ScopedRef.* One value replaced, one being acquired, one that
waits. *SubscriptionRef.* Two updates that cross, two subscribers that come
before, between or after. *TestClock.* Two sleepers that end at the same time or
in either order, and sleep again before the second is woken. *Cache.* A lookup, a refresh or a `set`, an invalidation and one more
reader, on a key that another can evict. *MemoMap.* A builder, one who
shares, and one who comes when the layer is forgotten and builds it again.
`CHECK_DEADLOCK FALSE`: all these systems may come to rest, when their programs
are over or wait for something nobody delivers; what must not stop is stated as
a liveness property.

**Fairness.** `WF` on a fiber's step on the thread: JavaScript runs a synchronous
step to its end. `WF` on `run`, `starveInternal` and wake tasks: the platform
runs the microtasks and timers it was given, and Scheduler's `EveryTaskRuns`
shows that its tasks then run. `WF` on a semaphore client: it reads its inbox (the
`InboxDrains` of FiberRuntime) and its effect ends, a condition on programs
under which alone anybody can be served. `WF` on the loops of a queue and on its
clients, for the same reasons, as on those of a PubSub (whose subscriptions
are also left once that has begun). `WF` on the fibers of a pool: a creator ends
and a holder gives back; on the clients of a cache and a MemoMap: lookups and
builds end and finalizers run; on the finalizers of a scope; on a slot and on the
daemon that runs a block, but not on the resolver; on the consumers and the
drainer of an AsyncInput, and `SF` on the end of its upstream, which may emit first
but ends; on the callers, the wake tasks and the refilling fiber of a rate
limiter, whose sleeps end; on those who update, subscribe, sleep or move the test clock, which
ask again until all are suspended; on the caller, the processing fiber and the workers
of `forEach`, and on the parents, racers and arbiters of a race, where a body
ends if it is interrupted and need not otherwise (a sleep ends in any case).
Nobody has to subscribe, to leave, to close a scope or a pool. Nothing is assumed of callbacks,
interruptions, new operations or new transactions.

## 4. Disagreements found

* **STM.retry after a write** (`stm_retry`). `tryCommit`
  (`internal/stm/core.ts:247`) commits the journal of an attempt whatever its
  exit, where `tryCommitSync` (line 308) commits only a success. Reading a
  reference marks its entry changed, so the journal is never read-only. A
  transaction that writes and then retries commits those writes when it is
  registered and again with every further attempt, whereas `STM.ts:1673` says
  "Abort and retry the whole transaction". The other STM results hold for programs
  that write nothing before they retry (`RetriesWriteNothing`) or fail
  (`FailuresWriteNothing`), the hypotheses of the theorems.
* **Permits lost to an interruption** (`semaphore_leak`). The wake task's
  observer takes the permits in the name of a waiting fiber. In the trace that fiber's
  interruption is in its inbox, not yet read, when the holder releases and the wake
  task comes to the observer: `restore(this.take(n))` fails and the continuation that
  would release the permits is never reached. The canceler only deletes the observer.
  It is the same when the interruption comes after the grant, also after one that was
  made at once, if the fiber yields before it goes on.
* **Two shutdowns of a queue** (`queue_two_shutdowns`). `shutdown` polls the takers
  when it is evaluated and interrupts them only if it then completes
  `shutdownHook` (`whenEffect` runs its condition first). If another fiber's
  shutdown completes it in between, with no takers left to interrupt, those
  polled by the first wait for ever; `Queue.ts:488` says "Interrupts any fibers
  that are suspended on `offer` or `take`."

The models also show the following, which no run states as a violation; where a
property of a run is conditional, this is the reason.

* **A sliding queue that is not full.** The offer that found the queue full slides
  an operation later, without looking again (`internal/queue.ts:700`): a take
  in between makes room, and a value is dropped all the same.
* **PubSub.** `publishAll` of a bounded ring, unlike `publish`, does not ask whether
  anybody is subscribed: values are stored with a count of zero, and fill the
  ring until somebody subscribes and leaves again or they slide away
  (`RetainedIfAddressed`). In a single slot, a slide leaves the index
  of a subscription two behind.
* **Pool.** In a pool that may be empty, or elastic, a getter can wait for ever
  after a creator has failed, and a shutdown with it: what is missing is only
  made again below `min` (`Served` is about pools of fixed size).
* **MemoMap.** A joiner that awaited the Deferred is counted a step later; if the
  builder's scope is closed in between, the layer is released before, and it uses
  a closed one. The finalizer, too, counts down (`ref.modify`, `internal/layer.ts:245`) in
  one operation and closes the inner scope in the next (line 247), without looking again:
  a joiner counted in between, while the scope is still open, has it closed under it
  (`tooLate` has both; `UsedIsOpen` without that condition is violated). An
  interruption between memoising and building leaves a Deferred nobody completes,
  one between counting and registering leaks an observer (`Spared`).
* **Cache.** The keys of a pending entry and of its value are different objects, so
  the order of eviction is not that of the accesses, and an entry may be evicted
  while it is looked up; a `set` and a late lookup do not track an access, so a
  map may exceed its capacity. An interruption between the entry and its lookup leaves
  a Deferred nobody completes (`abandoned`).
* **forEachConcurrentDiscard.** With fewer fibers than items, a failure met while
  items are left is pushed twice: the caller goes on while one worker is left
  (`Repeated`), and the failure is reported twice; with one fiber, `n = 1`, the
  count can never be reached, and the caller waits for ever. A caller that is
  interrupted where it cannot be, before it forks the processing fiber, interrupts
  the workers before they exist (`tooSoon`).
* **raceFibersWith.** The racers are made children of the parent in one operation and
  started in the next. A parent that is interrupted in between starts neither, and
  its end waits for both: fibers that were never started have no operation an
  interruption could resume (`tooSoon`; without that exception `RaceEnds` is
  violated). The sleep of a timeout is a fiber of the global scope: it outlives an
  interrupted parent until it has slept. `raceAll` interrupts losers one after the
  other, each awaited before the next is told, and its racers are interruptible
  even where its caller is not.
* **FiberMap.** Fibers that are set while `clear` waits are dropped without an
  interruption when it empties the map; a fiber whose remover is interrupted between
  the removal and the interruption goes on (`escaped`).
* **Request batching.** Somebody who shares a request and is interrupted while it
  waits stays counted (`internal/query.ts:71` has no finalizer), as does a maker
  interrupted before it waits: the resolver is not interrupted when nobody is left
  (`gone`). A maker interrupted between its entry and its block leaves a Deferred
  nobody completes (`abandoned`). If the resolver dies, the requests it left are
  not completed (`internal/fiberRuntime.ts:3387` is skipped) and their askers wait for
  ever. So they do if it has ended, in any way, before the daemon observes it:
  `addObserver` (line 3369) then calls the observer at once, which uses `cleanup` before
  its `const` (line 3373) is initialised, the registration throws, and what the resolver
  left is not completed (`watch = "thrown"`; `Resolved` excuses it). One that ends without completing them interrupts the askers, where
  `RequestResolver.ts:46` says "Failure to do so will cause a query to die with
  a `QueryFailure` when run."
* **Scope.** A close that is interrupted between two finalizers does not run the rest,
  and the scope is closed (`lost`). Whoever closes a parent does not wait for a child
  that somebody else is closing.
* **Handoff, AsyncInput.** A client that is interrupted between changing the `Ref` and
  completing the Deferred of the other side leaves the other side waiting (`cut`).
  `done`, `emit` and `error` in an empty state wait for a reader and then drop what they
  were given; they are right only behind the drainer, which awaits a reader first.
* **RateLimiter.** A caller that has its tokens and does not go on for a whole sleep is
  refilled before it calls, and again after: more tokens than the limit are given
  in one interval (`lagged`; `NeverTooMany` without it is violated). One interrupted in
  that gap leaves tokens that nobody refills, until somebody calls; if all are
  gone so, nobody can (`leaked`, `Stuck`).
* **ScopedRef.** A setter that is interrupted when its acquire is done stores nothing:
  the new resources stay open for ever (`leaked`), and the reference keeps a value
  whose scope is closed (`broken`), as it does when the acquire fails. `ScopedRef.ts:86`
  says that `set` does not return "until either the reference is successfully changed to
  the new value, with old resources released, or until the attempt to acquire a new
  value fails". The finalizer reads the reference without the lock: a value stored after
  that is never released (`late`).
* **SubscriptionRef.** An updater interrupted between setting and publishing leaves the
  subscribers with the old value (`skipped`).
* **TestClock.** Two fibers that move the clock at once can wake a sleeper at a time that
  is not its own, and move time back (`crossed`; `OnTime` without it is violated).

## 5. What is proved

Every theorem is for arbitrary constants: any number of fibers, tasks,
transactions or clients, any programs, any bound.

| Theorem | Module | Rests on |
|---|---|---|
| `TypeCorrect` (FiberRuntime) | FiberRuntimeProofs | `TypeInv`: TypeOK is not inductive, since `SetExit` stores whatever the loop ended with; `ExitShape` adds that a fiber at `exit` holds an exit |
| `NothingStranded`, `FewDrains` | FiberRuntimeProofs | `MailboxInv`, which counts the drains scheduled for a fiber in each place it can be. On the thread, it depends on whether `run` or `start` is the caller; off it, `_running` and the inbox decide. `OnThread` ties these places to the call stack |
| `InterruptedStops` | FiberRuntimeProofs | `InterruptInv`: the same known at the top of the loop, where it has to survive messages and yields, and nobody interrupted before it exists |
| `KnownCorrect` | FiberRuntimeProofs | `KnownInv`: whoever is named in an inbox, a stack, a list of children or an effect has been created; fibers that do not exist have an empty inbox |
| `OneContinuation`, `ContCorrect` | FiberRuntimeProofs | `ContInv`: a fiber runs, or one message will resume it, or one callback will, or it has not begun or is done; and a wait that a frame still goes on with is the last one registered, below frames that only end or yield, so that no effect of the user comes before it |
| `FinalizersRunExactlyOnce` | FiberRuntimeProofs | `FinalInv`: the finalizers installed are those run and those on the stack, and each of these stands where interruption is off (`Masked`), whatever RevertFlags frames are met on the way down; otherwise an interrupted fiber would drop it |
| `ParentsOutliveChildren`, `LifeCorrect` | FiberRuntimeProofs | `LifeInv`: a living child is in the list of its parent, in a message to it, or awaited by it (`Family`); a fiber that winds down has nothing but the loop on its stack (`WindOf`), and children left only while that loop is there (`LoopOf`); an observer names the wait it ends (`ObsOf`). It needs `ContInv`, since a parent resumed twice would stop waiting |
| `LifetimesImplemented` | FiberRuntimeProofs | each action begins a fiber, ends one or stutters, by `LifeInv` and `KnownInv` |
| `OneDriverAlways` | TaskProofs | the types of the variables that drive it |
| `NobodyIsOvertaken` (Scheduler), an action property | TaskProofs | `LineInv`: the labels of the buckets rise and a task's priority is at least its bucket's label, so that the bucket a task joins is the last one with a label not above its priority (`OneBucket`), and all that wait behind it are of greater priority; a batch is the buckets flattened (`FlattenKeepsOrder`), and older than all that is scheduled while it runs |
| `TypeCorrect` (STM), `WakeupsKept` | STMProofs | `WaitInv`: a waiting transaction that is in no task would retry and is in the todos of *every* reference its attempt touches, so whoever changes one finds it; `StateInv` ties the state to the place of the fiber |
| `AtomicMemoryImplemented` | STMProofs | each action is a `Commit`, an `Abort` or a stutter; `StateInv` |
| `NoWakeupLost` (Semaphore) | SharingProofs | `WakeInv`: the loop of the wake task ends when nothing is free, which is right because a waiter needs at least one permit, because permits taken never exceed those there are |
| `PermitsRespected` (Semaphore) | SharingProofs | `HoldInv`: permits taken are those of the holders, counted as a set of slips; a waiter stands in line once, so nobody is granted permits twice |
| `NobodyIsForgotten` (Queue) | QueueProofs | `QueueInv`: takers stand beside values, or putters beside room, only while the loop that pairs them is on the stack (`LoopInv`); lines hold everybody once and in order (`LineInv`), and exactly those who wait (`WaitInv`) |
| `AnswersStayTrue` (Queue) | QueueProofs | `AnswerInv`: until an offer is answered its values are with the client, in the line, in the queue or with takers, and the last one tells which |
| `OrderIsKept` (Queue), an action property | QueueProofs | `StreamInv`: nothing is twice in `handed \o items \o putters`, and what a client has yet to send in is not there; a step cuts the stream, and puts the parts kept together in the same order |
| `FibersTracked` (FiberMap) | TaskProofs | `TrackInv`: a fiber put last under a key has begun and is observed there, so neither its beginning nor its end goes unnoticed |
| `ResultsAreTrue` (ForEach) | TaskProofs | `LoopEach`: results pushed, workers alive and items left make up the target, but for those counted twice (`Balance`); each item is in one place, but for one of a worker that failed and is leaving (`OnceEach`); while nobody is interrupted no item is lost (`Covered`). A success that was reported before an interruption stays true because then nobody was left (`NothingAfterSuccess`) |
| `ResultsAreTrue` (Race, RaceAll) | TaskProofs | `RaceInv`: the winner is the first in the history, and a sleep fails only when the other has won, so that a timeout fails only with its effect. `RaceAllInv`: the counter is the number of racers whose failure no arbiter has counted, less one (`Counter`), and whoever is still alive when a value is decided has been interrupted or is on the list of the arbiter that sweeps |
| `AccountsAgree` (Pool) | PoolProofs | `PoolInv`: who takes an attempt is then one who holds it, by the shape of what each fiber has yet to do (`FlowInv`); who waits is such a taker, once (`TakerInv`); a size below zero means that nothing is left (`ShutInv`), and the fiber that closes the pool ends only then (`CloserInv`); an attempt is in one place (`OwnInv`), so that a creator finds a name that is not in use |
| `RequestsAreShared` (Request) | PoolProofs | `RequestInv`: an entry is a slot that listens to itself, and whoever asks again does so only when its entry is no longer pending (`EntryState`); when an entry is interrupted, either its resolver has ended without it or whoever made it has gone (`LedBy`); a resolver is told to stop when all who made the entries of its block have gone (`BlockState`), which the count shows because it is the number of listeners and of those who left without saying so (`Tallied`) |
| `TypeCorrect`, `NothingIsKeptForNobody` (PubSub) | PubSubProofs | `RingInv`: the count in a slot is the number of subscriptions that have not come past its value, and the values there are fit the slots, so that two of them never share one; an operation is several of these at once (a slide is repeated until all fits). `LogInv`: the history is as long as the indices say, and once nothing was stored for nobody, somebody has yet to read the oldest value (`Retains`) |
| `NoWaitInVain` (PubSub) | PubSubProofs | `LoopInv`: a taker stands beside a value, or a publisher beside room, only while the loop that pairs them is on the stack; a subscription on which somebody waits is among the subscribers the loop goes through; nobody waits on one that nobody has been given yet |
| `SubscribersSeeAll` (PubSub) | PubSubProofs | `SeenInv`: what a subscription has read stands in the history at rising places (`ReadsOn`), all of those from where it subscribed to its index, unless values slid away; `Holds`: a slot that somebody has yet to read has what was stored at its index; `ValueInv`: no value is published twice, since those in the history, those of waiting publishers and those yet to be sent in differ |
| `NeverStale` (Cache) | SharingProofs | `CacheInv`: a MapValue names who looks the value up, and whose value it is; neither is outdated while the map has it (`Current`), nor was when a client found it (`FoundThen`); and only who has written its value can be outdated (`Wrote`), so that nothing outdated is ever written |
| `CountedIsOpen` (MemoMap) | SharingProofs | `MemoInv`: `observers` is the number of users that have yet to count down, with a finalizer in their scope or in what somebody runs, that are about to register one, or were interrupted in that gap (`Holders`); each has at most one to run, in one place (`Duty`). While somebody who was counted in time is among them, the layer is open and nobody is about to close it (`Kept`), since whoever counts down last leaves nobody |
| `DeliveredOnce` (Handoff, AsyncInput, SubscriptionRef) | SharingProofs | `HandoffInv`: an offer that is not put in yet is nobody's (`Fresh`), and one that is gone was told of, or somebody is about to (`Told`). `InputInv`: an element is in what one consumer has seen or was given, or is the last and with the drainer (`InputFeeds`); who waits is known to the state or the drainer (`InputAsks`); a `notifyProducer` that is done, or about to be, is of a round that has its reader (`Past`). `SubscriptionInv`: whoever reads, sets, publishes or subscribes has the lock; a stream is its first value and all later ones but those in the `Gap` |
| `TimersTrue` (RateLimiter, TestClock) | SharingProofs | `LimiterInv`: of the tokens taken, one each is with a caller that has yet to call, in the latch as a signal, or with the fiber that refills (`TokensOwed`), as long as nobody idles with one. `ClockInv`: a sleeper is among the sleeps or with the one that is about to wake it, once, and at the end it asked for (`SleepersWait`); unless two of them run at once, the clock is at the end of the last nap of whoever runs (`ClockStands`) |
| `FinalizersAllRun` (Scope, ScopedRef) | SharingProofs | `ScopeInv`: a finalizer that has not begun is in its scope, or in what whoever closes it took (`LifeState`), where those of users rise in an open scope and fall in a closed one (`ScopeShape`); a fork is in its parent until one of the two is closed, and a scope that its parent closes is over before that goes on (`ForkState`); two calls of close reach nothing in common, so that an interruption of one does not cut short the other (`ReachApart`). `RefInv`: whoever holds the lock has, step by step, the old resources, none, or its own (`HeldSo`) |

Assumptions on constants: fibers are not `NoFiber`, bounds are naturals,
`RunAssumption` and `LocalAssumption` for STM programs (above), needs are
naturals; a forEach has items and a raceAll effects (`if (target === 0)`, and a defect), and
the limits of a forEach are positive. Of the pool: a range has its minimum first (a pool with more to begin with
than it may have is not what `Pool.ts:88` describes), its three own fibers and its
clients differ, and there are names for as many items as it may have, because items that
a creator makes are different objects. Of FiberSharing: what the clients do is an
operation of the component; an updater is no subscriber, and nobody is `Nobody`; a rate
limiter has costs of at least one (with a cost of zero a caller would wake the fiber that
refills when nothing is missing), and naps and jumps are naturals; parents of scopes are
scopes, and the first value of a ScopedRef is not one that a setter has. Of requests: there are finitely many slots, none
of which is `Nobody`, and a plan gives each of them a request. Of the PubSub: capacities are positive, `publish` and `unsafeOffer`
carry one value, only a dropping PubSub is unbounded (`unbounded` is made that way), and, as a
hypothesis of each theorem (`NoSlidingSlot`), a sliding one is not of capacity one: there
`BoundedPubSubSingle` loses track of what a subscription has read (section 4). The theorems on STM wake-ups and refinement have
`RetriesWriteNothing` (and `FailuresWriteNothing`) as hypotheses, without which
they do not hold (section 4).

**How recursion is proved about.** `Keep` (the filter of a sequence, in the module
`Filter`) is a recursive function. That its value at n follows from the one at n - 1
is proved from the well-foundedness of the naturals, and what holds of all its
values by an induction stated as a fact on a *set* of naturals (`CountUp` in
SequenceLemmas), which needs no operator as a parameter. The wake task of a
rate limiter (`Offered`) and `FlattenSeq`, with which the scheduler makes a batch of its
buckets, are treated in the same way. The same filter written
with SelectSeq would be opaque to the prover; Queue uses `Keep` for that reason.

**Only model-checked.** Liveness: the prover has no ENABLED, so that what is to happen under
fairness stays with TLC (`InboxDrains`, `InterruptEnds`, `AwaitersResume`, `WaitersServed`,
`InterruptedEnds`, `EverybodyServed`, `ShutdownFrees`, `EverybodyAnswered`, `ReleasedInTheEnd`,
`EveryTaskRuns`, `DecidedEnds`). Every other property that a passing run checks is also the
statement of a theorem. `FewDrains`, the types,
`KnownCorrect`, `ContCorrect` and `LifeCorrect` are proved and are not properties of a run.

## 6. Not modelled

In the fiber runtime: `forkWithScopeOverride` and transplanting, `inheritAll` and
fiber refs, `OnStep`, supervisors, metrics, tracing,
a defect thrown inside synchronous code (it becomes a `die`, like a failure),
`runSync`'s private scheduler. In the scheduler: the schedulers driven by hand
and the matrix. In the queue and the PubSub: `awaitShutdown` and the sizes, which
only read, and Deferreds with several joiners. In STM: the interpreter of a body
(`Run`) and the transactional collections, which are programs of it. In the pool:
the strategies, but for what they do to it; the environment of its creator.
In `forEach`: batching (`processAll`), a function that throws. In the cache:
`invalidateWhen`, the statistics, the clock. In FiberMap: the signatures around
`run`; FiberSet is the same without keys. Of the races: `raceWith` with callbacks of
the caller, `disconnect`, `inheritAll`. Of scopes: `releaseMapReplace`, `releaseMapRemove` and
`releaseMapGet`, finalizers that fail. Of requests: the merging of blocks, which
is pure, several resolvers in one block, `fromRequest` without the cache, where
nothing is shared. Of the TestClock: `save`, interrupted sleepers, the warnings. Of
references: the operations that are `modifyEffect` with a given function.

Of the source files few lines are mapped: of some 190,000 lines, most are the public
API with its documentation (`Effect.ts`, `Stream.ts`, ...), sequential libraries
(the persistent collections, Schema, Config, Printer, Typeclass, the CLI), bindings
(Platform, RPC, OpenTelemetry) and combinators defined from the ones modelled
here. What interleaves is in `internal/`, and there the models cover what the table of
section 1 names. Channel and Stream are a second interpreter of some 10,000 lines
whose concurrency (`mergeAll`, `buffer`, `broadcast`) is made of the fibers, queues and
PubSubs above; the hand-overs between a producer and a consumer
(`channel/singleProducerAsyncInput.ts`, `stream/handoff.ts`) are protocols of
their own, and modelled.

## 7. Plan

1. Done: FiberRuntime with StructuredConcurrency; Scheduler; STM with
   AtomicMemory; Semaphore; Queue; PubSub over AtomicPubSub; Pool; Cache; MemoMap;
   forEachConcurrentDiscard; race, timeout and raceAll; FiberMap; Scope; Handoff and
   AsyncInput of Stream and Channel; RateLimiter; request batching; ScopedRef and
   SubscriptionRef; TestClock.
2. **Deferred** with several joiners.
3. **KeyedPool** and **ScopedCache**, on Pool and Cache; **FiberSet**.
4. Runs are dear (minutes each): a component gets one for all that holds of it, and
   small components that share no state get one together, as in MCTasks.
5. Pure algorithms: bucket insertion, patches of fiber refs and runtime flags,
   against reference definitions.
6. Proofs. Done: all safety properties of the fiber runtime with its refinement, of the
   semaphore, the queue, the pool, FiberMap, forEach and the races; the PubSub; wake-ups and the refinement of STM;
   the scheduler; Cache, MemoMap, the hand-overs, RateLimiter,
   TestClock, Scope and ScopedRef; requests. Next: that each small component implements
   what it promises, as an abstract specification of its own.

## 8. Running

    tlc -config FiberSafety.cfg MCFiberRuntime
    tlapm FiberRuntimeProofs.tla

`PROJECT.json` lists the runs, the lines each definition models, the seeded bug
that each property catches (the operators commented *Seeded bug*), the hazards
and the theorems.
