---------------------------- MODULE FiberRuntime ----------------------------
(***************************************************************************)
(* The fiber runtime of Effect: packages/effect/src/internal/fiberRuntime  *)
(* and the parts of core.ts, runtime.ts and fiberScope.ts it needs.        *)
(*                                                                         *)
(* A fiber is an actor.  It owns an inbox (`_queue`), is drained by `run`  *)
(* tasks that a scheduler executes one at a time on the only JavaScript    *)
(* thread, and evaluates an effect with an explicit stack of               *)
(* continuations.  The program a fiber evaluates is unknown: the effect    *)
(* "any" stands for every effect a user can write, and each step chooses   *)
(* the next primitive.  One state of the module is the state between two   *)
(* iterations of a loop of the code; the thread runs to completion, so     *)
(* only the current fiber moves until it returns.                          *)
(***************************************************************************)
EXTENDS Naturals, Sequences, FiniteSets

CONSTANTS Fiber,                \* the fibers that may be created
          NoFiber,              \* no fiber: idle thread, global scope
          MaxFuel,              \* bound: how many non-trivial operations the
                                \* programs and the outside world perform
          CooperativeYielding   \* the RuntimeFlags.CooperativeYielding flag

ASSUME FiberAssumption == NoFiber \notin Fiber
ASSUME FuelAssumption == MaxFuel \in Nat
ASSUME FlagAssumption == CooperativeYielding \in BOOLEAN

VARIABLES
  queue, running, tasks,          \* _queue, _running, scheduled `run` tasks
  thread,                         \* the JavaScript call stack (top first)
  pc, caller,                     \* where each fiber is, who called evaluateEffect
  cur, stack,                     \* effect being evaluated, _stack (top first)
  interruption, windDown,         \* the two flags `interruptible` looks at
  interrupted,                    \* currentInterruptedCause is not empty
  interruptor, asyncs,            \* _asyncInterruptor, callbacks handed out
  children, winding, observers,   \* _children, iterator being awaited, _observers
  exit,                           \* _exitValue
  scope,                          \* history: the parent the fiber was forked in
  opened, ran,                    \* history: finalizers installed and run
  fuel

mailbox  == <<queue, running, tasks>>
control  == <<thread, pc, caller>>
flags    == <<interruption, windDown>>
family   == <<children, winding, observers>>
history  == <<scope, opened, ran>>
vars == <<mailbox, control, cur, stack, flags, interrupted, interruptor,
          asyncs, family, exit, history, fuel>>

-----------------------------------------------------------------------------
(* Effects.  A cause is the set of the kinds of failure it contains.        *)

Causes == SUBSET {"fail", "int"}
AnyEffect == [k |-> "any"]
Succ      == [k |-> "succ"]
Yield     == [k |-> "yield"]
Wind      == [k |-> "wind"]
Failed(c) == [k |-> "fail", cause |-> c]
Async(i)  == [k |-> "async", i |-> i]
OnExit(job)      == [k |-> "onExit", job |-> job]
Guard(job, to)   == [k |-> "guard", job |-> job, to |-> to]
Restore(job, to) == [k |-> "restore", job |-> job, to |-> to]

(* What `onExit` brackets: a user's effect with its finalizer, or the wait   *)
(* for fiber `of` through callback `i` with its canceler.                   *)
UserJob == [of |-> NoFiber, i |-> 0]
Job == {UserJob} \cup [of : Fiber, i : Nat]
Body(job) == IF job = UserJob THEN AnyEffect ELSE Async(job.i)

Effect == [k : {"any", "succ", "yield", "wind"}]
            \cup [k : {"fail"}, cause : Causes]
            \cup [k : {"async"}, i : Nat]
            \cup [k : {"onExit"}, job : Job]
            \cup [k : {"guard", "restore"}, job : Job, to : BOOLEAN]

IsFailure(e) == e.k = "fail"
Outcome == {Succ} \cup {Failed(c) : c \in Causes}     \* an Exit
Resumable == {AnyEffect} \cup Outcome
InterruptCause == Failed({"int"})

(* Continuations.  "both" is OnSuccessAndFailure with user handlers, "final" *)
(* the one `onExit` installs, "result" the one around a finalizer that runs  *)
(* after a failure, "cont" an OnSuccess that ignores the value.              *)
Frame == [k : {"succ", "failure", "both", "windLoop"}]
           \cup [k : {"revert"}, to : BOOLEAN]
           \cup [k : {"final"}, job : Job]
           \cup [k : {"cont"}, eff : Effect]
           \cup [k : {"result"}, eff : {Failed(c) : c \in Causes}]

Simple(kind) == [k |-> kind]
Revert(to)   == [k |-> "revert", to |-> to]
Final(job)   == [k |-> "final", job |-> job]
Cont(e)      == [k |-> "cont", eff |-> e]
Result(e)    == [k |-> "result", eff |-> e]
SkippedBySuccess == {"failure"}
SkippedByFailure == {"succ", "cont", "windLoop"}

(* Messages of an inbox.  The last three are the `stateful` ones.           *)
InterruptSignal == [k |-> "interrupt"]
YieldNow        == [k |-> "yield"]
Resume(e)       == [k |-> "resume", eff |-> e]
AddChild(c)     == [k |-> "addChild", child |-> c]
Observe(w)      == [k |-> "observe", who |-> w]
Unobserve(w)    == [k |-> "unobserve", who |-> w]

Waiter  == Fiber \X Nat     \* <<f, i>>: callback i of f; <<p, 0>>: removeChild of p
Stateful == [k : {"addChild"}, child : Fiber]
              \cup [k : {"observe", "unobserve"}, who : Waiter]
Message == [k : {"interrupt", "yield"}] \cup [k : {"resume"}, eff : Resumable] \cup Stateful

NotDone == [k |-> "notDone"]
AsyncState == [st : {"registered", "pending", "armed", "called"},
               of : Fiber \cup {NoFiber}]

(* Where a fiber is: not created, off the thread, in drainQueueOnCurrentThread, *)
(* at the top of runLoop, before a primitive, after runLoop, after evaluateEffect. *)
Label == {"unborn", "out", "drain", "loop", "op", "exit", "leave"}

TypeOK ==
  /\ queue \in [Fiber -> Seq(Message)]
  /\ running \in [Fiber -> BOOLEAN]
  /\ tasks \in [Fiber -> Nat]
  /\ thread \in Seq(Fiber)
  /\ pc \in [Fiber -> Label]
  /\ caller \in [Fiber -> {"run", "start"}]
  /\ cur \in [Fiber -> Effect]
  /\ stack \in [Fiber -> Seq(Frame)]
  /\ interruption \in [Fiber -> BOOLEAN]
  /\ windDown \in [Fiber -> BOOLEAN]
  /\ interrupted \in [Fiber -> BOOLEAN]
  /\ interruptor \in [Fiber -> Nat]
  /\ asyncs \in [Fiber -> Seq(AsyncState)]
  /\ children \in [Fiber -> SUBSET Fiber]
  /\ winding \in [Fiber -> SUBSET Fiber]
  /\ observers \in [Fiber -> SUBSET Waiter]
  /\ exit \in [Fiber -> Outcome \cup {NotDone}]
  /\ scope \in [Fiber -> Fiber \cup {NoFiber}]
  /\ opened \in [Fiber -> Nat]
  /\ ran \in [Fiber -> Nat]
  /\ fuel \in 0..MaxFuel

Init ==
  /\ queue = [f \in Fiber |-> <<>>]
  /\ running = [f \in Fiber |-> FALSE]
  /\ tasks = [f \in Fiber |-> 0]
  /\ thread = <<>>
  /\ pc = [f \in Fiber |-> "unborn"]
  /\ caller = [f \in Fiber |-> "run"]
  /\ cur = [f \in Fiber |-> AnyEffect]
  /\ stack = [f \in Fiber |-> <<>>]
  /\ interruption = [f \in Fiber |-> TRUE]
  /\ windDown = [f \in Fiber |-> FALSE]
  /\ interrupted = [f \in Fiber |-> FALSE]
  /\ interruptor = [f \in Fiber |-> 0]
  /\ asyncs = [f \in Fiber |-> <<>>]
  /\ children = [f \in Fiber |-> {}]
  /\ winding = [f \in Fiber |-> {}]
  /\ observers = [f \in Fiber |-> {}]
  /\ exit = [f \in Fiber |-> NotDone]
  /\ scope = [f \in Fiber |-> NoFiber]
  /\ opened = [f \in Fiber |-> 0]
  /\ ran = [f \in Fiber |-> 0]
  /\ fuel = MaxFuel

-----------------------------------------------------------------------------
(* Inboxes.                                                                 *)

(* `tell`, for every message one step sends: append, and schedule a drain   *)
(* for a fiber that is not running.  q is the inboxes before the sends.     *)
Deliver(q, msgs) ==
  /\ queue' = [g \in Fiber |-> q[g] \o msgs[g]]
  /\ running' = [g \in Fiber |-> running[g] \/ msgs[g] # <<>>]
  /\ tasks' = [g \in Fiber |-> IF msgs[g] # <<>> /\ ~running[g]
                                 THEN tasks[g] + 1 ELSE tasks[g]]

NoMail == [g \in Fiber |-> <<>>]
To(g, m) == [NoMail EXCEPT ![g] = <<m>>]
ToEach(S, m) == [g \in Fiber |-> IF g \in S THEN <<m>> ELSE <<>>]

(* Calling the callbacks in S: the guard `alreadyCalled` of initiateAsync,   *)
(* and the pendingEffect of core.async for one not yet armed.               *)
(* Seeded bug: the guard alreadyCalled is never set.                        *)
NeverCalled(a) == IF a.st = "registered" THEN [a EXCEPT !.st = "pending"] ELSE a

Fired(a) == CASE a.st = "registered" -> [a EXCEPT !.st = "pending"]
              [] a.st = "armed"      -> [a EXCEPT !.st = "called"]
              [] OTHER               -> a

Fire(S) == asyncs' = [g \in Fiber |-> [i \in DOMAIN asyncs[g] |->
             IF <<g, i>> \in S THEN Fired(asyncs[g][i]) ELSE asyncs[g][i]]]

Armed(g, i) == i \in DOMAIN asyncs[g] /\ asyncs[g][i].st = "armed"

Resumed(S, e) ==
  [g \in Fiber |-> IF \E w \in S : w[1] = g /\ Armed(g, w[2])
                     THEN <<Resume(e)>> ELSE <<>>]

Interruptible(f) == interruption[f] /\ ~windDown[f]
MustStop(f) == Interruptible(f) /\ interrupted[f]

(* The state of every action below that leaves the run loop alone.          *)
Evaluation == <<cur, stack, interruption>>
Goto(f, label) == pc' = [pc EXCEPT ![f] = label]
Loop(f, e) == cur' = [cur EXCEPT ![f] = e] /\ Goto(f, "loop")
Push(f, frame) == stack' = [stack EXCEPT ![f] = <<frame>> \o @]
Pop(f) == stack' = [stack EXCEPT ![f] = Tail(@)]
Idle == thread = <<>>
At(f, label) == ~Idle /\ Head(thread) = f /\ pc[f] = label
OpAt(f, kind) == At(f, "op") /\ cur[f].k = kind
Popped(f) == [queue EXCEPT ![f] = Tail(@)]
Burn == fuel > 0 /\ fuel' = fuel - 1
Born(f) == pc[f] # "unborn"

-----------------------------------------------------------------------------
(* Entering and leaving the thread.                                         *)

(* A scheduler executes a `run` task.                                       *)
RunTask(f) ==
  /\ Idle
  /\ tasks[f] > 0
  /\ tasks' = [tasks EXCEPT ![f] = @ - 1]
  /\ thread' = <<f>>
  /\ caller' = [caller EXCEPT ![f] = "run"]
  /\ Goto(f, "drain")
  /\ UNCHANGED <<queue, running, Evaluation, windDown, interrupted, interruptor,
                 asyncs, family, exit, history, fuel>>

(* Seeded bug: a resumption does not look at the interruption.              *)
EvaluateAsGiven(f, e) == Loop(f, e)

(* evaluateEffect: an interrupted fiber fails instead of resuming.          *)
Evaluate(f, e) == Loop(f, IF MustStop(f) THEN InterruptCause ELSE e)

(* runtime.unsafeFork with `start`: a root fiber runs at once, from the idle *)
(* thread or inside a synchronous step of the current fiber.                *)
Start(f) ==
  /\ pc[f] = "unborn"
  /\ ~running[f]
  /\ IF Idle
       THEN Evaluate(f, AnyEffect)
       ELSE LET h == Head(thread)
            IN /\ OpAt(h, "any")
               /\ Goto(f, "loop")
               /\ cur' = [cur EXCEPT ![f] = AnyEffect, ![h] = Succ]
  /\ Burn
  /\ running' = [running EXCEPT ![f] = TRUE]
  /\ thread' = <<f>> \o thread
  /\ caller' = [caller EXCEPT ![f] = "start"]
  /\ UNCHANGED <<queue, tasks, stack, flags, interrupted, interruptor, asyncs,
                 family, exit, history>>

(* runtime.unsafeFork with `immediate: false`, and startFork.               *)
StartLater(f) ==
  /\ Idle
  /\ pc[f] = "unborn"
  /\ Burn
  /\ Goto(f, "out")
  /\ Deliver(queue, To(f, Resume(AnyEffect)))
  /\ UNCHANGED <<thread, caller, Evaluation, windDown, interrupted,
                 interruptor, asyncs, family, exit, history>>

(* Seeded bug: `start` forgets the messages that arrived meanwhile.         *)
NothingLeft(f) == 0

(* The drain that `start` schedules in its `finally`.                       *)
LeftOver(f) == IF queue[f] # <<>> THEN 1 ELSE 0

(* evaluateEffect returns: to the drain, or out of `start`, which schedules  *)
(* a drain for a non-empty inbox but leaves _running false.                 *)
Return(f) ==
  /\ At(f, "leave")
  /\ IF caller[f] = "run"
       THEN Goto(f, "drain") /\ UNCHANGED <<running, tasks, thread>>
       ELSE /\ Goto(f, "out")
            /\ running' = [running EXCEPT ![f] = FALSE]
            /\ tasks' = [tasks EXCEPT ![f] = @ + LeftOver(f)]
            /\ thread' = Tail(thread)
  /\ UNCHANGED <<queue, caller, Evaluation, windDown, interrupted, interruptor,
                 asyncs, family, exit, history, fuel>>

-----------------------------------------------------------------------------
(* drainQueueOnCurrentThread and evaluateMessageWhileSuspended.             *)

Next1(f, label, kind) ==
  /\ At(f, label)
  /\ queue[f] # <<>>
  /\ Head(queue[f]).k = kind

(* The inbox is empty: the drain gives the thread back.                     *)
DrainDone(f) ==
  /\ At(f, "drain")
  /\ queue[f] = <<>>
  /\ running' = [running EXCEPT ![f] = FALSE]
  /\ thread' = Tail(thread)
  /\ Goto(f, "out")
  /\ UNCHANGED <<queue, tasks, caller, Evaluation, windDown, interrupted,
                 interruptor, asyncs, family, exit, history, fuel>>

(* YieldNow ends the drain; what is left in the inbox is drained later.     *)
DrainYield(f) ==
  /\ Next1(f, "drain", "yield")
  /\ queue' = Popped(f)
  /\ LET more == Tail(queue[f]) # <<>>
     IN /\ running' = [running EXCEPT ![f] = more]
        /\ tasks' = [tasks EXCEPT ![f] = @ + IF more THEN 1 ELSE 0]
  /\ thread' = Tail(thread)
  /\ Goto(f, "out")
  /\ UNCHANGED <<caller, Evaluation, windDown, interrupted, interruptor,
                 asyncs, family, exit, history, fuel>>

DropInterruptor(f) == interruptor' = [interruptor EXCEPT ![f] = 0]

(* An interrupt reaches a suspended fiber: its children are told, and the    *)
(* asynchronous operation it waits for is resumed with the interruption.    *)
DrainInterrupt(f) ==
  /\ Next1(f, "drain", "interrupt")
  /\ interrupted' = [interrupted EXCEPT ![f] = TRUE]
  /\ DropInterruptor(f)
  /\ LET callback == {<<f, interruptor[f]>>}
         woken == Resumed(callback, InterruptCause)
         told == ToEach(children[f], InterruptSignal)
     IN /\ Fire(callback)
        /\ Deliver(Popped(f), [g \in Fiber |-> told[g] \o woken[g]])
  /\ UNCHANGED <<control, Evaluation, windDown, family, exit, history, fuel>>

DrainResume(f) ==
  /\ Next1(f, "drain", "resume")
  /\ queue' = Popped(f)
  /\ DropInterruptor(f)
  /\ Evaluate(f, Head(queue[f]).eff)
  /\ UNCHANGED <<running, tasks, thread, caller, stack, flags, interrupted,
                 asyncs, family, exit, history, fuel>>

(* Seeded bug: an observer of a finished fiber is only recorded.            *)
NeverAtOnce(f, m) == FALSE

(* addObserver of a fiber that is done calls the observer.                  *)
AtOnce(f, m) == m.k = "observe" /\ exit[f] # NotDone

(* The `stateful` messages: Local.add's addChild, and await's add and remove *)
(* of an observer.  An observer of a finished fiber is called at once.      *)
Handle(f, m) ==
  LET addsChild == m.k = "addChild" /\ exit[m.child] = NotDone
      adds == m.k = "observe" /\ exit[f] = NotDone
      fires == IF AtOnce(f, m) THEN {m.who} ELSE {}
  IN /\ children' = [children EXCEPT ![f] = IF addsChild THEN @ \cup {m.child} ELSE @]
     /\ observers' = [g \in Fiber |->
          CASE addsChild /\ g = m.child     -> observers[g] \cup {<<f, 0>>}
            [] adds /\ g = f                -> observers[g] \cup {m.who}
            [] m.k = "unobserve" /\ g = f   -> observers[g] \ {m.who}
            [] OTHER                        -> observers[g]]
     /\ Fire(fires)
     /\ Deliver(Popped(f), Resumed(fires, Succ))
     /\ UNCHANGED winding

Stateful1(f, label) ==
  /\ \/ Next1(f, label, "addChild")
     \/ Next1(f, label, "observe")
     \/ Next1(f, label, "unobserve")
  /\ Handle(f, Head(queue[f]))
  /\ UNCHANGED <<control, Evaluation, windDown, interrupted, interruptor, exit,
                 history, fuel>>

DrainStateful(f) == Stateful1(f, "drain")

-----------------------------------------------------------------------------
(* The run loop: drainQueueWhileRunning, then one primitive.                *)

LoopInterrupt(f) ==
  /\ Next1(f, "loop", "interrupt")
  /\ interrupted' = [interrupted EXCEPT ![f] = TRUE]
  /\ cur' = [cur EXCEPT ![f] = IF Interruptible(f) THEN InterruptCause ELSE @]
  /\ Deliver(Popped(f), ToEach(children[f], InterruptSignal))
  /\ UNCHANGED <<control, stack, flags, interruptor, asyncs, family, exit,
                 history, fuel>>

LoopStateful(f) == Stateful1(f, "loop")

BeginOp(f) ==
  /\ At(f, "loop")
  /\ queue[f] = <<>>
  /\ Goto(f, "op")
  /\ UNCHANGED <<mailbox, thread, caller, Evaluation, windDown, interrupted,
                 interruptor, asyncs, family, exit, history, fuel>>

(* The scheduler's shouldYield: yield first, then continue with the effect.  *)
(* The yield carries a priority, so it is bracketed by acquireUseRelease,    *)
(* whose `restore` fails at once in an interrupted fiber.                   *)
Preempt(f) ==
  /\ At(f, "loop")
  /\ queue[f] = <<>>
  /\ Burn
  /\ Push(f, Cont(cur[f]))
  /\ cur' = [cur EXCEPT ![f] = IF MustStop(f) THEN InterruptCause ELSE Yield]
  /\ Goto(f, "op")
  /\ UNCHANGED <<mailbox, thread, caller, flags, interrupted, interruptor,
                 asyncs, family, exit, history>>

(* What most primitives leave alone.                                        *)
Pure == UNCHANGED <<mailbox, thread, caller, windDown, interrupted,
                    interruptor, asyncs, family, exit>>

-----------------------------------------------------------------------------
(* The primitives a user's effect can start with.                           *)

UserSucceed(f) ==
  /\ OpAt(f, "any")
  /\ Loop(f, Succ)
  /\ Pure /\ UNCHANGED <<stack, interruption, history, fuel>>

UserFail(f) ==
  /\ OpAt(f, "any")
  /\ Loop(f, Failed({"fail"}))
  /\ Pure /\ UNCHANGED <<stack, interruption, history, fuel>>

(* flatMap, catchAll, matchCauseEffect: push the continuation.              *)
UserFrame(f, kind) ==
  /\ OpAt(f, "any")
  /\ Burn
  /\ Push(f, Simple(kind))
  /\ Loop(f, AnyEffect)
  /\ Pure /\ UNCHANGED <<interruption, history>>

(* Seeded bug: the update is not undone and interrupts after, not before.   *)
UpdateFlagsForGood(f, to, body) ==
  /\ interruption' = [interruption EXCEPT ![f] = to]
  /\ Loop(f, IF to /\ interrupted[f] THEN InterruptCause ELSE body)
  /\ UNCHANGED stack

(* OP_UPDATE_RUNTIME_FLAGS with a body: short-circuit an interruption, else  *)
(* change the flag and push its revert.                                     *)
UpdateFlags(f, to, body) ==
  IF to /\ ~windDown[f] /\ interrupted[f]
    THEN Loop(f, InterruptCause) /\ UNCHANGED <<stack, interruption>>
    ELSE /\ interruption' = [interruption EXCEPT ![f] = to]
         /\ Push(f, Revert(interruption[f]))
         /\ Loop(f, body)

UserFlags(f, to) ==
  /\ OpAt(f, "any")
  /\ Burn
  /\ UpdateFlags(f, to, AnyEffect)
  /\ Pure /\ UNCHANGED history

(* onExit(self, cleanup): ensuring, acquireRelease, onInterrupt...          *)
UserOnExit(f) ==
  /\ OpAt(f, "any")
  /\ Burn
  /\ Loop(f, OnExit(UserJob))
  /\ Pure /\ UNCHANGED <<stack, interruption, history>>

UserYield(f) ==
  /\ OpAt(f, "any")
  /\ Burn
  /\ Loop(f, Yield)
  /\ Pure /\ UNCHANGED <<stack, interruption, history>>

(* core.async: `register` runs now and may call back synchronously; the      *)
(* primitive OP_ASYNC comes afterwards.                                     *)
UserAsync(f, st) ==
  /\ OpAt(f, "any")
  /\ Burn
  /\ asyncs' = [asyncs EXCEPT ![f] = Append(@, [st |-> st, of |-> NoFiber])]
  /\ Loop(f, Async(Len(asyncs[f]) + 1))
  /\ UNCHANGED <<mailbox, thread, caller, stack, flags, interrupted,
                 interruptor, family, exit, history>>

(* fiber.await: register the observer, then wait under its canceler.        *)
Await(f, g, e) ==
  /\ asyncs' = [asyncs EXCEPT ![f] = Append(@, [st |-> "registered", of |-> g])]
  /\ Deliver(queue, To(g, Observe(<<f, Len(asyncs[f]) + 1>>)))
  /\ Loop(f, e)

AwaitJob(f, g) == OnExit([of |-> g, i |-> Len(asyncs[f]) + 1])

UserAwait(f, g) ==
  /\ OpAt(f, "any")
  /\ Born(g)
  /\ Burn
  /\ Await(f, g, AwaitJob(f, g))
  /\ UNCHANGED <<thread, caller, stack, flags, interrupted, interruptor,
                 family, exit, history>>

(* fork and forkDaemon: make a fiber with the parent's flags, add it to the  *)
(* parent's scope by a message to the parent, and resume it.                *)
UserFork(f, c, daemon) ==
  /\ OpAt(f, "any")
  /\ pc[c] = "unborn"
  /\ Burn
  /\ interruption' = [interruption EXCEPT ![c] = interruption[f]]
  /\ windDown' = [windDown EXCEPT ![c] = windDown[f]]
  /\ scope' = [scope EXCEPT ![c] = IF daemon THEN NoFiber ELSE f]
  /\ Deliver(queue, [g \in Fiber |->
       CASE g = c              -> <<Resume(AnyEffect)>>
         [] g = f /\ ~daemon   -> <<AddChild(c)>>
         [] OTHER              -> <<>>])
  /\ pc' = [pc EXCEPT ![c] = "out", ![f] = "loop"]
  /\ cur' = [cur EXCEPT ![f] = Succ]
  /\ UNCHANGED <<thread, caller, stack, interrupted, interruptor, asyncs,
                 family, exit, opened, ran>>

(* OP_SYNC meets its continuation without returning to the loop.            *)
SyncDone(f) == cur' = [cur EXCEPT ![f] = Succ]

(* interruptAsFork.                                                         *)
UserInterrupt(f, g) ==
  /\ OpAt(f, "any")
  /\ Born(g)
  /\ Burn
  /\ Deliver(queue, To(g, InterruptSignal))
  /\ SyncDone(f)
  /\ UNCHANGED <<control, stack, flags, interrupted, interruptor,
                 asyncs, family, exit, history>>

(* A running fiber completes what another one waits for.                    *)
UserCallback(f, g, i) ==
  /\ OpAt(f, "any")
  /\ asyncs[g][i].of = NoFiber
  /\ Burn
  /\ Fire({<<g, i>>})
  /\ Deliver(queue, Resumed({<<g, i>>}, AnyEffect))
  /\ SyncDone(f)
  /\ UNCHANGED <<control, stack, flags, interrupted, interruptor,
                 family, exit, history>>

-----------------------------------------------------------------------------
(* The primitives of onExit, of core.async and of the wind-down.            *)

(* uninterruptibleMask: the body learns what to restore.                    *)
OpOnExit(f) ==
  /\ OpAt(f, "onExit")
  /\ UpdateFlags(f, FALSE, Guard(cur[f].job, interruption[f]))
  /\ Pure /\ UNCHANGED <<history, fuel>>

(* matchCauseEffect(restore(self), ...): the finalizer is now installed.    *)
OpGuard(f) ==
  /\ OpAt(f, "guard")
  /\ Push(f, Final(cur[f].job))
  /\ opened' = [opened EXCEPT ![f] = @ + IF cur[f].job = UserJob THEN 1 ELSE 0]
  /\ Loop(f, Restore(cur[f].job, cur[f].to))
  /\ Pure /\ UNCHANGED <<interruption, scope, ran, fuel>>

OpRestore(f) ==
  /\ OpAt(f, "restore")
  /\ UpdateFlags(f, cur[f].to, Body(cur[f].job))
  /\ Pure /\ UNCHANGED <<history, fuel>>

(* Seeded bug: an asynchronous operation cannot be interrupted.             *)
NoInterruptor(f, i) == interruptor[f]

(* Only an operation of an interruptible region can be interrupted.         *)
NewInterruptor(f, i) == IF Interruptible(f) THEN i ELSE interruptor[f]

(* OP_ASYNC and initiateAsync: arm the callback and leave the run loop.  A   *)
(* call that came first is answered at once.                                *)
OpAsync(f) ==
  /\ OpAt(f, "async")
  /\ LET i == cur[f].i
         early == asyncs[f][i].st = "pending"
     IN /\ asyncs' = [asyncs EXCEPT ![f][i].st = IF early THEN "called" ELSE "armed"]
        /\ interruptor' = [interruptor EXCEPT ![f] = NewInterruptor(f, i)]
        /\ Deliver(queue, IF ~early THEN NoMail
                          ELSE To(f, Resume(IF asyncs[f][i].of = NoFiber
                                              THEN AnyEffect ELSE Succ)))
  /\ Goto(f, "leave")
  /\ UNCHANGED <<thread, caller, Evaluation, windDown, interrupted, family,
                 exit, history, fuel>>

(* A fiber that yielded continues with exitUnit.                            *)
AfterYield(f) == Succ

(* OP_YIELD and evaluateEffect: two messages to oneself.                    *)
OpYield(f) ==
  /\ OpAt(f, "yield")
  /\ IF CooperativeYielding
       THEN /\ Goto(f, "leave")
            /\ Deliver(queue, [NoMail EXCEPT ![f] = <<YieldNow, Resume(AfterYield(f))>>])
            /\ UNCHANGED cur
       ELSE Loop(f, Succ) /\ UNCHANGED mailbox
  /\ UNCHANGED <<thread, caller, stack, flags, interrupted, interruptor,
                 asyncs, family, exit, history, fuel>>

(* The while loop of interruptAllChildren: await the next child.            *)
OpWind(f) ==
  /\ OpAt(f, "wind")
  /\ IF winding[f] = {}
       THEN Loop(f, Succ) /\ UNCHANGED <<mailbox, asyncs, winding, stack>>
       ELSE \E c \in winding[f] :
              /\ winding' = [winding EXCEPT ![f] = @ \ {c}]
              /\ Push(f, Simple("windLoop"))
              /\ Await(f, c, AwaitJob(f, c))
  /\ UNCHANGED <<thread, caller, flags, interrupted, interruptor, children,
                 observers, exit, history, fuel>>

-----------------------------------------------------------------------------
(* Success and failure meet the next continuation.                          *)

Top(f) == Head(stack[f])
Meets(f, kind) == OpAt(f, kind) /\ stack[f] # <<>>

(* getNextSuccessCont and getNextFailCont skip what does not apply, without  *)
(* returning to the loop.                                                   *)
SkipFrame(f) ==
  /\ \/ Meets(f, "succ") /\ Top(f).k \in SkippedBySuccess
     \/ Meets(f, "fail") /\ Top(f).k \in SkippedByFailure
  /\ Pop(f)
  /\ Pure /\ UNCHANGED <<pc, cur, interruption, history, fuel>>

(* contOpSuccess for the handlers.                                          *)
SuccessHandler(f) ==
  /\ Meets(f, "succ")
  /\ \/ Top(f).k \in {"succ", "both"} /\ Loop(f, AnyEffect)
     \/ Top(f).k \in {"cont", "result"} /\ Loop(f, Top(f).eff)
     \/ Top(f).k = "windLoop" /\ Loop(f, Wind)
  /\ Pop(f)
  /\ Pure /\ UNCHANGED <<interruption, history, fuel>>

(* OP_FAILURE: a handler runs unless the fiber is being interrupted here.   *)
FailureHandler(f) ==
  /\ Meets(f, "fail")
  /\ Top(f).k \in {"failure", "both", "result"}
  /\ LET cause == cur[f].cause
     IN Loop(f, CASE MustStop(f)            -> Failed(cause \ {"fail"})
                  [] ~MustStop(f) /\ Top(f).k = "result"
                                            -> Failed(Top(f).eff.cause \cup cause)
                  [] OTHER                  -> AnyEffect)
  /\ Pop(f)
  /\ Pure /\ UNCHANGED <<interruption, history, fuel>>

(* RevertFlags, on the way of a success and of a failure.                   *)
RevertFrame(f) ==
  /\ \/ Meets(f, "succ")
     \/ Meets(f, "fail")
  /\ Top(f).k = "revert"
  /\ interruption' = [interruption EXCEPT ![f] = Top(f).to]
  /\ LET stop == Top(f).to /\ ~windDown[f] /\ interrupted[f]
     IN Loop(f, CASE stop /\ IsFailure(cur[f]) -> Failed(cur[f].cause \cup {"int"})
                  [] stop /\ ~IsFailure(cur[f]) -> InterruptCause
                  [] OTHER                     -> cur[f])
  /\ Pop(f)
  /\ Pure /\ UNCHANGED <<history, fuel>>

(* The continuation of onExit around a user's effect: run the finalizer,     *)
(* then go on with the exit it was given.                                   *)
UserFinalizer(f) ==
  /\ \/ Meets(f, "succ")
     \/ Meets(f, "fail")
  /\ Top(f) = Final(UserJob)
  /\ IF MustStop(f) /\ IsFailure(cur[f])
       THEN /\ Loop(f, Failed(cur[f].cause \ {"fail"}))
            /\ Pop(f)
            /\ UNCHANGED ran
       ELSE /\ stack' = [stack EXCEPT ![f] =
                 <<IF IsFailure(cur[f]) THEN Result(cur[f]) ELSE Cont(cur[f])>> \o Tail(@)]
            /\ ran' = [ran EXCEPT ![f] = @ + 1]
            /\ Loop(f, AnyEffect)
  /\ Pure /\ UNCHANGED <<interruption, scope, opened, fuel>>

(* The continuation of onInterrupt around an await: an interruption (and     *)
(* nothing else) removes the observer.                                      *)
AwaitCanceler(f) ==
  /\ \/ Meets(f, "succ")
     \/ Meets(f, "fail")
  /\ Top(f).k = "final"
  /\ Top(f).job # UserJob
  /\ LET job == Top(f).job
         skipped == MustStop(f) /\ IsFailure(cur[f])
         cancels == ~skipped /\ IsFailure(cur[f]) /\ cur[f].cause \subseteq {"int"}
     IN /\ Loop(f, IF skipped THEN Failed(cur[f].cause \ {"fail"}) ELSE cur[f])
        /\ Deliver(queue, IF cancels THEN To(job.of, Unobserve(<<f, job.i>>))
                          ELSE NoMail)
  /\ Pop(f)
  /\ UNCHANGED <<thread, caller, flags, interrupted, interruptor, asyncs,
                 family, exit, history, fuel>>

(* No continuation is left: runLoop returns an exit.                        *)
EndLoop(f) ==
  /\ \/ OpAt(f, "succ")
     \/ OpAt(f, "fail")
  /\ stack[f] = <<>>
  /\ Goto(f, "exit")
  /\ Pure /\ UNCHANGED <<cur, stack, interruption, history, fuel>>

-----------------------------------------------------------------------------
(* evaluateEffect with an exit.                                             *)

(* Messages, possibly sent by the last operation, are still to be processed. *)
HasMessages(f) == queue[f] # <<>>

(* Seeded bug: the children are interrupted but not awaited.                *)
AwaitsNobody(f) == {}

(* The iterator interruptAllChildren takes before it forgets the children.   *)
ToAwait(f) == children[f]

(* interruptAllChildren: interrupt and await the children first.            *)
WindDownChildren(f) ==
  /\ At(f, "exit")
  /\ children[f] # {}
  /\ windDown' = [windDown EXCEPT ![f] = TRUE]
  /\ Deliver(queue, ToEach(children[f], InterruptSignal))
  /\ winding' = [winding EXCEPT ![f] = ToAwait(f)]
  /\ children' = [children EXCEPT ![f] = {}]
  /\ Push(f, Cont(cur[f]))
  /\ Loop(f, Wind)
  /\ UNCHANGED <<thread, caller, interruption, interrupted, interruptor,
                 asyncs, observers, exit, history, fuel>>

(* Those messages first: a resume message to oneself brings the exit back.  *)
ExitLater(f) ==
  /\ At(f, "exit")
  /\ children[f] = {}
  /\ HasMessages(f)
  /\ windDown' = [windDown EXCEPT ![f] = TRUE]
  /\ Deliver(queue, To(f, Resume(cur[f])))
  /\ Goto(f, "leave")
  /\ UNCHANGED <<thread, caller, Evaluation, interrupted, interruptor,
                 asyncs, family, exit, history, fuel>>

(* setExitValue: the end of the fiber.  Every observer is called.           *)
SetExit(f) ==
  /\ At(f, "exit")
  /\ children[f] = {}
  /\ ~HasMessages(f)
  /\ windDown' = [windDown EXCEPT ![f] = TRUE]
  /\ exit' = [exit EXCEPT ![f] = cur[f]]
  /\ children' = [p \in Fiber |-> IF <<p, 0>> \in observers[f]
                                    THEN children[p] \ {f} ELSE children[p]]
  /\ Fire(observers[f])
  /\ Deliver(queue, Resumed(observers[f], Succ))
  /\ Goto(f, "leave")
  /\ UNCHANGED <<thread, caller, Evaluation, interrupted, interruptor,
                 winding, observers, history, fuel>>

-----------------------------------------------------------------------------
(* The outside world, when the thread is idle: a callback of an asynchronous *)
(* operation, possibly more than once, and the interruption of a fiber.     *)

ExternalCallback(f, i) ==
  /\ Idle
  /\ asyncs[f][i].of = NoFiber
  /\ Fire({<<f, i>>})
  /\ Deliver(queue, Resumed({<<f, i>>}, AnyEffect))
  /\ UNCHANGED <<control, Evaluation, windDown, interrupted, interruptor, family,
                 exit, history, fuel>>

ExternalInterrupt(f) ==
  /\ Idle
  /\ Born(f)
  /\ Burn
  /\ Deliver(queue, To(f, InterruptSignal))
  /\ UNCHANGED <<control, Evaluation, windDown, interrupted, interruptor, asyncs,
                 family, exit, history>>

-----------------------------------------------------------------------------
UserOp(f) ==
  \/ UserSucceed(f) \/ UserFail(f) \/ UserOnExit(f) \/ UserYield(f)
  \/ \E kind \in {"succ", "failure", "both"} : UserFrame(f, kind)
  \/ \E to \in BOOLEAN : UserFlags(f, to)
  \/ \E st \in {"registered", "pending"} : UserAsync(f, st)
  \/ \E g \in Fiber : UserAwait(f, g) \/ UserInterrupt(f, g)
  \/ \E c \in Fiber, daemon \in BOOLEAN : UserFork(f, c, daemon)
  \/ \E g \in Fiber : \E i \in DOMAIN asyncs[g] : UserCallback(f, g, i)

Primitive(f) ==
  \/ OpOnExit(f) \/ OpGuard(f) \/ OpRestore(f) \/ OpAsync(f) \/ OpYield(f)
  \/ OpWind(f) \/ SkipFrame(f) \/ SuccessHandler(f) \/ FailureHandler(f)
  \/ RevertFrame(f) \/ UserFinalizer(f) \/ AwaitCanceler(f) \/ EndLoop(f)

(* What the thread does while a fiber holds it.                             *)
Step(f) ==
  \/ DrainDone(f) \/ DrainYield(f) \/ DrainInterrupt(f) \/ DrainResume(f)
  \/ DrainStateful(f)
  \/ LoopInterrupt(f) \/ LoopStateful(f) \/ BeginOp(f) \/ Preempt(f)
  \/ UserOp(f) \/ Primitive(f)
  \/ WindDownChildren(f) \/ ExitLater(f) \/ SetExit(f) \/ Return(f)

Outside ==
  \/ \E f \in Fiber : Start(f) \/ StartLater(f) \/ ExternalInterrupt(f)
  \/ \E f \in Fiber : \E i \in DOMAIN asyncs[f] : ExternalCallback(f, i)

Next ==
  \/ Outside
  \/ \E f \in Fiber : RunTask(f) \/ Step(f)

Spec == Init /\ [][Next]_vars

(* A synchronous step is finished once begun, and a scheduler executes every *)
(* task it was given.  Nothing forces the outside world to call back.       *)
Fairness == \A f \in Fiber : WF_vars(Step(f)) /\ WF_vars(RunTask(f))
FairSpec == Spec /\ Fairness

-----------------------------------------------------------------------------
(* Safety.                                                                  *)

Evaluating(f) == pc[f] \in {"loop", "op", "exit"}
ResumePlaces(f) == {j \in DOMAIN queue[f] : queue[f][j].k = "resume"}
ArmedAsyncs(f) == {i \in DOMAIN asyncs[f] : asyncs[f][i].st = "armed"}
Done(f) == exit[f] # NotDone

(* _asyncInterruptor is the callback of the operation the fiber waits for,   *)
(* or null: it never points to an operation the fiber has left behind.      *)
InterruptorIsCurrent ==
  \A f \in Fiber :
    interruptor[f] # 0 =>
      /\ ~Evaluating(f)
      /\ interruptor[f] = Len(asyncs[f])

(* A living fiber has exactly one continuation: its run loop is active, or   *)
(* one resume message is in its inbox, or one callback is waiting to be      *)
(* called; a finished fiber has none.  This is what `alreadyCalled` and the  *)
(* asyncInterruptor protocol are for, and why the error "It is illegal to   *)
(* have multiple concurrent run loops in a single fiber" is never thrown.   *)
SingleContinuation ==
  /\ \A f \in Fiber :
       Cardinality(ResumePlaces(f)) + Cardinality(ArmedAsyncs(f))
         + (IF Evaluating(f) THEN 1 ELSE 0)
         = IF Born(f) /\ ~Done(f) THEN 1 ELSE 0
  /\ InterruptorIsCurrent

(* A message in the inbox of a fiber that does not hold the thread is never  *)
(* stranded: a drain is scheduled for it.  `start` leaves _running false     *)
(* with messages waiting, and a duplicate drain may find it false as well.  *)
NoStrandedMessage ==
  \A f \in Fiber :
    pc[f] \in {"unborn", "out"} =>
      /\ queue[f] # <<>> => tasks[f] > 0
      /\ running[f] => tasks[f] > 0

(* Once an interruption has been processed, a fiber in an interruptible      *)
(* region executes no effect but the failure, however it got there: resumed, *)
(* out of an uninterruptible region, or in the middle of its run loop.      *)
InterruptedRunsNothing ==
  \A f \in Fiber : pc[f] = "op" /\ MustStop(f) => IsFailure(cur[f])

(* Every finalizer that onExit installed has run exactly once or is still on *)
(* the stack; none is left when the fiber ends.                             *)
FinalizersRunOnce ==
  \A f \in Fiber :
    /\ opened[f] = ran[f] + Cardinality({j \in DOMAIN stack[f] : stack[f][j] = Final(UserJob)})
    /\ Done(f) => opened[f] = ran[f]

(* Structured concurrency: when a fiber is done, so is every fiber that was  *)
(* forked in its scope, even one forked by its last operation.              *)
ChildrenEndFirst ==
  \A c \in Fiber :
    /\ scope[c] # NoFiber
    /\ Done(scope[c])
    => Done(c)

(* A fiber never accumulates drains: at most one besides the one that its     *)
(* inbox needs, left over when `start` returned with messages waiting.      *)
DrainsBounded == \A f \in Fiber : tasks[f] <= 2

-----------------------------------------------------------------------------
(* Refinement: inboxes, drains and run loops forgotten, the runtime          *)
(* implements structured concurrency.                                       *)
Lifetimes == INSTANCE StructuredConcurrency WITH
  Exit    <- Outcome,
  alive   <- {f \in Fiber : Born(f) /\ ~Done(f)},
  parent  <- scope,
  outcome <- exit

(* Fibers begin and end as StructuredConcurrency allows, however messages    *)
(* and run loops interleave.                                                *)
StructuredLifetimes == Lifetimes!Spec

-----------------------------------------------------------------------------
(* Liveness.                                                                *)

(* Every message told to a fiber is eventually processed.                   *)
InboxDrains == \A f \in Fiber : queue[f] # <<>> ~> queue[f] = <<>>

WaitsUninterruptibly(f) ==
  pc[f] = "out" /\ queue[f] = <<>> /\ ArmedAsyncs(f) # {} /\ ~Interruptible(f)

(* An interrupted fiber ends, unless it waits in an uninterruptible region   *)
(* (or for its children) for something that nobody need deliver.            *)
InterruptEnds == \A f \in Fiber : interrupted[f] ~> Done(f) \/ WaitsUninterruptibly(f)

(* Whoever awaits a fiber that ends is resumed.                             *)
AwaitersResume ==
  \A f, g \in Fiber :
    (\E i \in ArmedAsyncs(f) : asyncs[f][i].of = g) /\ Done(g)
      ~> ~\E i \in ArmedAsyncs(f) : asyncs[f][i].of = g
=============================================================================
