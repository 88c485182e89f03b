------------------------- MODULE FiberRuntimeProofs -------------------------
(***************************************************************************)
(* The fiber runtime, for any number of fibers: every variable keeps its   *)
(* type, no message is stranded in an inbox, an interrupted fiber runs      *)
(* nothing, and whom a fiber knows of exists.  Then the lives of fibers: a   *)
(* fiber has one continuation, finalizers run once, and a fiber outlives     *)
(* every fiber forked in its scope; each of the three rests on the ones      *)
(* before it.                                                              *)
(*                                                                         *)
(* TypeOK is not inductive: the run loop ends with whatever effect meets an *)
(* empty stack, and setExitValue stores it, so TypeInv adds ExitShape: the  *)
(* effect of a fiber that has left its loop is an exit.  One lemma per      *)
(* action, grouped as in Next.                                             *)
(***************************************************************************)
EXTENDS FiberRuntime, SequenceTheorems, FiniteSetTheorems, TLAPS

(* Every primitive that the constructors of core.ts build is an effect.      *)
LEMMA EffectTypes ==
  /\ AnyEffect \in Effect /\ Succ \in Effect /\ Yield \in Effect /\ Wind \in Effect
  /\ \A c \in Causes : Failed(c) \in Effect
  /\ \A i \in Nat : Async(i) \in Effect
  /\ \A job \in Job : OnExit(job) \in Effect
  /\ \A job \in Job, to \in BOOLEAN : Guard(job, to) \in Effect /\ Restore(job, to) \in Effect
  /\ Resumable \subseteq Effect
BY DEF AnyEffect, Succ, Yield, Wind, Failed, Async, OnExit, Guard, Restore, Effect, Resumable, Outcome

(* The exits are the success and the failures, and an exit may resume a      *)
(* fiber.                                                                    *)
LEMMA OutcomeTypes ==
  /\ Succ \in Outcome /\ \A c \in Causes : Failed(c) \in Outcome
  /\ Outcome \subseteq Resumable /\ AnyEffect \in Resumable
  /\ InterruptCause \in Outcome
<1>1. {"int"} \in Causes
  BY DEF Causes
<1>. QED BY <1>1 DEF Resumable, Outcome, InterruptCause

(* What each kind of effect carries.                                         *)
LEMMA EffectFields ==
  ASSUME NEW e \in Effect
  PROVE  /\ e.k = "fail" => e.cause \in Causes /\ e \in Outcome
         /\ e.k = "succ" => e \in Outcome
         /\ e.k = "async" => e.i \in Nat
         /\ e.k = "onExit" => e.job \in Job
         /\ e.k \in {"guard", "restore"} => e.job \in Job /\ e.to \in BOOLEAN
BY DEF Effect, Outcome, Succ, Failed

(* Every frame that a primitive pushes is a frame of the stack.              *)
LEMMA FrameTypes ==
  /\ \A kind \in {"succ", "failure", "both", "windLoop"} : Simple(kind) \in Frame
  /\ \A to \in BOOLEAN : Revert(to) \in Frame
  /\ \A job \in Job : Final(job) \in Frame
  /\ \A e \in Effect : Cont(e) \in Frame
  /\ \A e \in Effect : e.k = "fail" => Result(e) \in Frame
BY EffectFields DEF Simple, Revert, Final, Cont, Result, Frame, Effect, Failed

(* What each kind of frame carries.                                          *)
LEMMA FrameFields ==
  ASSUME NEW r \in Frame
  PROVE  /\ r.k = "revert" => r.to \in BOOLEAN
         /\ r.k = "final" => r.job \in Job
         /\ r.k = "cont" => r.eff \in Effect
         /\ r.k = "result" => r.eff \in Effect /\ r.eff.cause \in Causes
BY EffectTypes DEF Frame, Failed

(* Every message that fiberMessage.ts builds is a message.                   *)
LEMMA MessageTypes ==
  /\ InterruptSignal \in Message /\ YieldNow \in Message
  /\ \A e \in Resumable : Resume(e) \in Message
  /\ \A c \in Fiber : AddChild(c) \in Message
  /\ \A w \in Waiter : Observe(w) \in Message /\ Unobserve(w) \in Message
BY DEF InterruptSignal, YieldNow, Resume, AddChild, Observe, Unobserve, Message, Stateful

(* What each kind of message carries.                                        *)
LEMMA MessageFields ==
  ASSUME NEW x \in Message
  PROVE  /\ x.k = "resume" => x.eff \in Resumable
         /\ x.k = "addChild" => x.child \in Fiber
         /\ x.k \in {"observe", "unobserve"} => x.who \in Waiter
BY DEF Message, Stateful

Mail == [Fiber -> Seq(Message)]

(* The three ways a step addresses messages give a family of sequences of    *)
(* messages.                                                                 *)
LEMMA MailTypes ==
  /\ NoMail \in Mail
  /\ \A g \in Fiber, x \in Message : To(g, x) \in Mail
  /\ \A S \in SUBSET Fiber, x \in Message : ToEach(S, x) \in Mail
  /\ \A S, e : e \in Resumable => Resumed(S, e) \in Mail
<1>1. \A x \in Message : <<x>> \in Seq(Message)
  OBVIOUS
<1>2. <<>> \in Seq(Message)
  OBVIOUS
<1>3. NoMail \in Mail
  BY <1>2 DEF NoMail, Mail
<1>4. \A g \in Fiber, x \in Message : To(g, x) \in Mail
  BY <1>1, <1>3 DEF To, Mail
<1>5. \A S \in SUBSET Fiber, x \in Message : ToEach(S, x) \in Mail
  BY <1>1, <1>2 DEF ToEach, Mail
<1>6. ASSUME NEW S, NEW e \in Resumable
      PROVE  Resumed(S, e) \in Mail
  <2>1. <<Resume(e)>> \in Seq(Message)
    BY <1>1, MessageTypes
  <2>. QED BY <1>2, <2>1 DEF Resumed, Mail
<1>. QED BY <1>3, <1>4, <1>5, <1>6

(* Telling fibers keeps the queues, the _running flags and the counts of     *)
(* drain tasks what they are.                                                *)
LEMMA DeliverType ==
  ASSUME NEW q \in Mail, NEW msgs \in Mail, Deliver(q, msgs),
         running \in [Fiber -> BOOLEAN], tasks \in [Fiber -> Nat]
  PROVE  queue' \in Mail /\ running' \in [Fiber -> BOOLEAN] /\ tasks' \in [Fiber -> Nat]
BY DEF Deliver, Mail

(* Calling callbacks keeps the asynchronous operations what they are.        *)
LEMMA FireType ==
  ASSUME NEW S, Fire(S), asyncs \in [Fiber -> Seq(AsyncState)]
  PROVE  asyncs' \in [Fiber -> Seq(AsyncState)]
<1>1. \A a \in AsyncState : Fired(a) \in AsyncState
  BY DEF Fired, AsyncState
<1>2. ASSUME NEW g \in Fiber
      PROVE  [i \in DOMAIN asyncs[g] |-> IF <<g, i>> \in S THEN Fired(asyncs[g][i])
                                         ELSE asyncs[g][i]] \in Seq(AsyncState)
  <2>1. asyncs[g] \in Seq(AsyncState) /\ Len(asyncs[g]) \in Nat
        /\ DOMAIN asyncs[g] = 1..Len(asyncs[g])
    OBVIOUS
  <2>2. \A i \in DOMAIN asyncs[g] : asyncs[g][i] \in AsyncState
    BY <2>1
  <2>. DEFINE s == [i \in DOMAIN asyncs[g] |-> IF <<g, i>> \in S THEN Fired(asyncs[g][i])
                                               ELSE asyncs[g][i]]
  <2>3. s \in [1..Len(asyncs[g]) -> AsyncState]
    BY <1>1, <2>1, <2>2
  <2>. HIDE DEF s
  <2>4. s \in Seq(AsyncState)
    BY <2>1, <2>3, SeqDef
  <2>. QED BY <2>4 DEF s
<1>. QED BY <1>2, Zenon DEF Fire

(* Taking up a primitive leaves an effect in cur and a label in pc.          *)
LEMMA LoopType ==
  ASSUME TypeOK, NEW f \in Fiber, NEW e \in Effect, Loop(f, e)
  PROVE  cur' \in [Fiber -> Effect]
         /\ pc' \in [Fiber -> Label]
BY DEF TypeOK, Loop, Goto, Label

(* Going to a label leaves a label in pc.                                    *)
LEMMA GotoType ==
  ASSUME TypeOK, NEW f \in Fiber,
         NEW label \in {"out", "drain", "loop", "op", "exit", "leave"}, Goto(f, label)
  PROVE  pc' \in [Fiber -> Label]
BY DEF TypeOK, Goto, Label

(* Pushing a frame leaves a stack of frames.                                 *)
LEMMA PushType ==
  ASSUME TypeOK, NEW f \in Fiber, NEW r \in Frame, Push(f, r)
  PROVE  stack' \in [Fiber -> Seq(Frame)]
BY DEF TypeOK, Push

(* Popping leaves a stack of frames, and what is popped is a frame.          *)
LEMMA PopType ==
  ASSUME TypeOK, NEW f \in Fiber, stack[f] # <<>>, Pop(f)
  PROVE  /\ stack' \in [Fiber -> Seq(Frame)]
         /\ Top(f) \in Frame
BY DEF TypeOK, Pop, Top

(* Taking the first message leaves queues of messages, and what is taken is  *)
(* a message.                                                                *)
LEMMA PoppedType ==
  ASSUME TypeOK, NEW f \in Fiber, queue[f] # <<>>
  PROVE  /\ Popped(f) \in Mail
         /\ Head(queue[f]) \in Message
BY DEF TypeOK, Popped, Mail

(* Beginning an evaluation leaves an effect in cur and a label in pc.        *)
LEMMA EvaluateType ==
  ASSUME TypeOK, NEW f \in Fiber, NEW e \in Effect, Evaluate(f, e)
  PROVE  cur' \in [Fiber -> Effect]
         /\ pc' \in [Fiber -> Label]
<1>1. InterruptCause \in Effect
  BY EffectTypes DEF InterruptCause, Causes
<1>. QED BY <1>1, LoopType DEF Evaluate

(* Updating the interruption flag keeps the types of all that it writes.     *)
LEMMA UpdateFlagsType ==
  ASSUME TypeOK, NEW f \in Fiber, NEW to \in BOOLEAN, NEW body \in Effect,
         UpdateFlags(f, to, body)
  PROVE  /\ cur' \in [Fiber -> Effect]
         /\ pc' \in [Fiber -> Label]
         /\ stack' \in [Fiber -> Seq(Frame)]
         /\ interruption' \in [Fiber -> BOOLEAN]
<1>1. InterruptCause \in Effect
  BY EffectTypes DEF InterruptCause, Causes
<1>2. Revert(interruption[f]) \in Frame
  BY FrameTypes DEF TypeOK
<1>3. CASE to /\ ~windDown[f] /\ interrupted[f]
  BY <1>1, <1>3, LoopType DEF UpdateFlags, TypeOK
<1>4. CASE ~(to /\ ~windDown[f] /\ interrupted[f])
  <2>1. Push(f, Revert(interruption[f])) /\ Loop(f, body)
        /\ interruption' = [interruption EXCEPT ![f] = to]
    BY <1>4 DEF UpdateFlags
  <2>. QED BY <1>2, <2>1, PushType, LoopType DEF TypeOK
<1>. QED BY <1>3, <1>4

(* The budget of user operations stays within its bound.                     *)
LEMMA BurnType ==
  ASSUME TypeOK, Burn
  PROVE  fuel' \in 0..MaxFuel
BY FuelAssumption DEF TypeOK, Burn

-----------------------------------------------------------------------------
(* The actions, one by one.                                                 *)

LEMMA TypeInit == Init => TypeOK
BY FuelAssumption, EffectTypes DEF Init, TypeOK, Label

(* The fiber that acts is the one on top of the call stack, and what is      *)
(* under it are fibers.                                                      *)
LEMMA AtThread ==
  ASSUME TypeOK, NEW f \in Fiber, NEW label, At(f, label)
  PROVE  /\ thread # <<>> /\ Head(thread) = f /\ pc[f] = label
         /\ Tail(thread) \in Seq(Fiber)
BY DEF TypeOK, At, Idle

(* Entering and leaving the call stack keeps the types.                      *)
LEMMA TypeThread ==
  ASSUME TypeOK, NEW f \in Fiber,
         RunTask(f) \/ Start(f) \/ StartLater(f) \/ Return(f)
  PROVE  TypeOK'
<1>1. CASE RunTask(f)
  <2>1. tasks' \in [Fiber -> Nat]
    BY <1>1 DEF RunTask, TypeOK
  <2>2. pc' \in [Fiber -> Label]
    BY <1>1, GotoType DEF RunTask
  <2>. QED BY <1>1, <2>1, <2>2 DEF TypeOK, RunTask, Evaluation, family, history
<1>2. CASE Start(f)
  <2>1. thread' \in Seq(Fiber) /\ running' \in [Fiber -> BOOLEAN]
    BY <1>2 DEF Start, TypeOK
  <2>2. CASE Idle
    <3>1. cur' \in [Fiber -> Effect] /\ pc' \in [Fiber -> Label]
      BY <1>2, <2>2, EvaluateType, EffectTypes DEF Start
    <3>. QED BY <1>2, <2>1, <3>1, BurnType DEF TypeOK, Start, flags, family, history
  <2>3. CASE ~Idle
    <3>1. Head(thread) \in Fiber
      BY <2>3 DEF TypeOK, Idle
    <3>2. cur' = [cur EXCEPT ![f] = AnyEffect, ![Head(thread)] = Succ] /\ Goto(f, "loop")
      BY <1>2, <2>3 DEF Start
    <3>3. cur' \in [Fiber -> Effect]
      BY <3>1, <3>2, EffectTypes DEF TypeOK
    <3>4. pc' \in [Fiber -> Label]
      BY <3>2, GotoType
    <3>. QED BY <1>2, <2>1, <3>3, <3>4, BurnType DEF TypeOK, Start, flags, family, history
  <2>. QED BY <2>2, <2>3
<1>3. CASE StartLater(f)
  <2>1. queue \in Mail
    BY DEF TypeOK, Mail
  <2>3. To(f, Resume(AnyEffect)) \in Mail
    BY MessageTypes, MailTypes, OutcomeTypes
  <2>2. queue' \in Mail /\ running' \in [Fiber -> BOOLEAN] /\ tasks' \in [Fiber -> Nat]
    BY <1>3, <2>1, <2>3, DeliverType DEF StartLater, TypeOK
  <2>4. pc' \in [Fiber -> Label]
    BY <1>3, GotoType DEF StartLater
  <2>. QED BY <1>3, <2>2, <2>4, BurnType DEF TypeOK, StartLater, Evaluation, family, history, Mail
<1>4. CASE Return(f)
  <2>1. pc' \in [Fiber -> Label]
    BY <1>4, GotoType DEF Return
  <2>2. running' \in [Fiber -> BOOLEAN] /\ thread' \in Seq(Fiber)
    BY <1>4, AtThread DEF TypeOK, Return
  <2>4. LeftOver(f) \in Nat
    BY DEF LeftOver
  <2>3. tasks' \in [Fiber -> Nat]
    <3>1. tasks' = tasks \/ tasks' = [tasks EXCEPT ![f] = @ + LeftOver(f)]
      BY <1>4 DEF Return
    <3>2. tasks \in [Fiber -> Nat] /\ tasks[f] + LeftOver(f) \in Nat
      BY <2>4 DEF TypeOK
    <3>. QED BY <3>1, <3>2
  <2>. QED BY <1>4, <2>1, <2>2, <2>3 DEF TypeOK, Return, Evaluation, family, history
<1>. QED BY <1>1, <1>2, <1>3, <1>4

(* Calling callbacks while messages are told keeps the types of what both    *)
(* write.                                                                    *)
LEMMA CallbackType ==
  ASSUME TypeOK, NEW S, NEW e \in Resumable, NEW q \in Mail, NEW told \in Mail, Fire(S),
         Deliver(q, [g \in Fiber |-> told[g] \o Resumed(S, e)[g]])
  PROVE  /\ queue' \in Mail /\ running' \in [Fiber -> BOOLEAN] /\ tasks' \in [Fiber -> Nat]
         /\ asyncs' \in [Fiber -> Seq(AsyncState)]
<1>1. Resumed(S, e) \in Mail
  BY MailTypes
<1>2. [g \in Fiber |-> told[g] \o Resumed(S, e)[g]] \in Mail
  BY <1>1 DEF Mail
<1>. QED BY <1>2, DeliverType, FireType DEF TypeOK

(* The steps that drain a queue on the current thread keep the types.        *)
LEMMA TypeDrain ==
  ASSUME TypeOK, NEW f \in Fiber,
         DrainDone(f) \/ DrainYield(f) \/ DrainInterrupt(f) \/ DrainResume(f)
  PROVE  TypeOK'
<1>1. CASE DrainDone(f)
  <2>1. pc' \in [Fiber -> Label]
    BY <1>1, GotoType DEF DrainDone
  <2>2. thread' \in Seq(Fiber)
    BY <1>1, AtThread DEF DrainDone
  <2>. QED BY <1>1, <2>1, <2>2 DEF TypeOK, DrainDone, Evaluation, family, history
<1>2. CASE DrainYield(f)
  <2>1. pc' \in [Fiber -> Label]
    BY <1>2, GotoType DEF DrainYield
  <2>2. queue' \in Mail
    BY <1>2, PoppedType DEF DrainYield, Next1
  <2>3. running' \in [Fiber -> BOOLEAN] /\ tasks' \in [Fiber -> Nat]
    BY <1>2 DEF TypeOK, DrainYield
  <2>4. thread' \in Seq(Fiber)
    BY <1>2, AtThread DEF DrainYield, Next1
  <2>. QED BY <1>2, <2>1, <2>2, <2>3, <2>4 DEF TypeOK, DrainYield, Evaluation, family, history, Mail
<1>3. CASE DrainInterrupt(f)
  <2>. DEFINE S == {<<f, interruptor[f]>>}
              told == ToEach(children[f], InterruptSignal)
  <2>1. told \in Mail
    BY MailTypes, MessageTypes DEF TypeOK
  <2>2. Popped(f) \in Mail
    BY <1>3, PoppedType DEF DrainInterrupt, Next1
  <2>3. InterruptCause \in Resumable
    BY OutcomeTypes
  <2>4. Fire(S) /\ Deliver(Popped(f), [g \in Fiber |-> told[g] \o Resumed(S, InterruptCause)[g]])
    BY <1>3 DEF DrainInterrupt
  <2>5. queue' \in Mail /\ running' \in [Fiber -> BOOLEAN] /\ tasks' \in [Fiber -> Nat]
        /\ asyncs' \in [Fiber -> Seq(AsyncState)]
    BY <2>1, <2>2, <2>3, <2>4, CallbackType
  <2>6. interrupted' \in [Fiber -> BOOLEAN] /\ interruptor' \in [Fiber -> Nat]
    BY <1>3 DEF TypeOK, DrainInterrupt, DropInterruptor
  <2>. QED BY <1>3, <2>5, <2>6 DEF TypeOK, DrainInterrupt, control, Evaluation, family, history, Mail
<1>4. CASE DrainResume(f)
  <2>1. Popped(f) \in Mail /\ Head(queue[f]).eff \in Resumable
    BY <1>4, PoppedType, MessageFields DEF DrainResume, Next1
  <2>2. cur' \in [Fiber -> Effect] /\ pc' \in [Fiber -> Label]
    BY <1>4, <2>1, EvaluateType, EffectTypes DEF DrainResume
  <2>3. interruptor' \in [Fiber -> Nat]
    BY <1>4 DEF TypeOK, DrainResume, DropInterruptor
  <2>. QED BY <1>4, <2>1, <2>2, <2>3 DEF TypeOK, DrainResume, flags, family, history, Mail
<1>. QED BY <1>1, <1>2, <1>3, <1>4

(* Processing a message while running keeps the types.                       *)
LEMMA TypeStateful ==
  ASSUME TypeOK, NEW f \in Fiber, NEW label, Stateful1(f, label)
  PROVE  TypeOK'
<1>. DEFINE x == Head(queue[f])
            fires == IF AtOnce(f, x) THEN {x.who} ELSE {}
<1>1. queue[f] # <<>> /\ x.k \in {"addChild", "observe", "unobserve"}
  BY DEF Stateful1, Next1
<1>2. Popped(f) \in Mail /\ x \in Message
  BY <1>1, PoppedType
<1>3. (x.k = "addChild" => x.child \in Fiber) /\ (x.k # "addChild" => x.who \in Waiter)
  BY <1>1, <1>2, MessageFields
<1>4. Handle(f, x)
  BY DEF Stateful1
<1>5. children' \in [Fiber -> SUBSET Fiber]
  BY <1>3, <1>4 DEF Handle, TypeOK
<1>6. observers' \in [Fiber -> SUBSET Waiter]
  <2>1. <<f, 0>> \in Waiter
    BY DEF Waiter
  <2>2. observers \in [Fiber -> SUBSET Waiter]
    BY DEF TypeOK
  <2>. HIDE DEF x
  <2>. QED BY <1>1, <1>3, <1>4, <2>1, <2>2, Zenon DEF Handle
<1>7. Fire(fires) /\ Deliver(Popped(f), Resumed(fires, Succ))
  BY <1>4 DEF Handle
<1>8. asyncs' \in [Fiber -> Seq(AsyncState)]
  BY <1>7, FireType DEF TypeOK
<1>9. Resumed(fires, Succ) \in Mail
  BY MailTypes, OutcomeTypes
<1>10. queue' \in Mail /\ running' \in [Fiber -> BOOLEAN] /\ tasks' \in [Fiber -> Nat]
  BY <1>2, <1>7, <1>9, DeliverType DEF TypeOK
<1>11. UNCHANGED winding
  BY <1>4 DEF Handle
<1>. QED BY <1>5, <1>6, <1>8, <1>10, <1>11
     DEF TypeOK, Stateful1, control, Evaluation, history, Mail

(* A step that tells nobody keeps the types when the six variables it may    *)
(* write keep theirs.                                                        *)
LEMMA PureType ==
  ASSUME TypeOK, Pure,
         cur' \in [Fiber -> Effect], pc' \in [Fiber -> Label],
         stack' \in [Fiber -> Seq(Frame)], interruption' \in [Fiber -> BOOLEAN],
         scope' = scope, opened' \in [Fiber -> Nat], ran' \in [Fiber -> Nat],
         fuel' \in 0..MaxFuel
  PROVE  TypeOK'
BY DEF TypeOK, Pure, mailbox, family

(* The head of the run loop keeps the types.                                 *)
LEMMA TypeLoop ==
  ASSUME TypeOK, NEW f \in Fiber,
         LoopInterrupt(f) \/ BeginOp(f) \/ Preempt(f)
  PROVE  TypeOK'
<1>1. CASE LoopInterrupt(f)
  <2>1. Popped(f) \in Mail
    BY <1>1, PoppedType DEF LoopInterrupt, Next1
  <2>2. ToEach(children[f], InterruptSignal) \in Mail
    BY MailTypes, MessageTypes DEF TypeOK
  <2>3. queue' \in Mail /\ running' \in [Fiber -> BOOLEAN] /\ tasks' \in [Fiber -> Nat]
    BY <1>1, <2>1, <2>2, DeliverType DEF LoopInterrupt, TypeOK
  <2>4. cur' \in [Fiber -> Effect] /\ interrupted' \in [Fiber -> BOOLEAN]
    BY <1>1, OutcomeTypes, EffectTypes DEF LoopInterrupt, TypeOK
  <2>. QED BY <1>1, <2>3, <2>4
       DEF TypeOK, LoopInterrupt, control, flags, family, history, Mail
<1>2. CASE BeginOp(f)
  <2>1. pc' \in [Fiber -> Label]
    BY <1>2, GotoType DEF BeginOp
  <2>. QED BY <1>2, <2>1 DEF TypeOK, BeginOp, mailbox, Evaluation, family, history
<1>3. CASE Preempt(f)
  <2>1. pc' \in [Fiber -> Label]
    BY <1>3, GotoType DEF Preempt
  <2>2. stack' \in [Fiber -> Seq(Frame)]
    BY <1>3, PushType, FrameTypes DEF Preempt, TypeOK
  <2>3. cur' \in [Fiber -> Effect]
    BY <1>3, OutcomeTypes, EffectTypes DEF Preempt, TypeOK
  <2>. QED BY <1>3, <2>1, <2>2, <2>3, BurnType
       DEF TypeOK, Preempt, mailbox, flags, family, history
<1>. QED BY <1>1, <1>2, <1>3

(* The finalizers are jobs, and the body of a job is an effect.              *)
LEMMA JobTypes ==
  /\ UserJob \in Job
  /\ \A g \in Fiber, i \in Nat : [of |-> g, i |-> i] \in Job
  /\ \A job \in Job : Body(job) \in Effect
  /\ \A job \in Job : job # UserJob => job.of \in Fiber /\ job.i \in Nat
BY EffectTypes DEF UserJob, Job, Body

(* The user operations that tell nobody keep the types.                      *)
LEMMA TypeUserPure ==
  ASSUME TypeOK, NEW f \in Fiber, NEW kind \in {"succ", "failure", "both"}, NEW to \in BOOLEAN,
         \/ UserSucceed(f) \/ UserFail(f) \/ UserFrame(f, kind) \/ UserFlags(f, to)
         \/ UserOnExit(f) \/ UserYield(f)
  PROVE  TypeOK'
<1>. USE DEF history
<1>0. /\ stack \in [Fiber -> Seq(Frame)] /\ interruption \in [Fiber -> BOOLEAN]
      /\ opened \in [Fiber -> Nat] /\ ran \in [Fiber -> Nat] /\ fuel \in 0..MaxFuel
  BY DEF TypeOK
<1>1. CASE UserSucceed(f)
  BY <1>0, <1>1, LoopType, EffectTypes, PureType DEF UserSucceed
<1>2. CASE UserFail(f)
  <2>1. Failed({"fail"}) \in Effect
    BY EffectTypes DEF Causes
  <2>. QED BY <1>0, <1>2, <2>1, LoopType, PureType DEF UserFail
<1>3. CASE UserFrame(f, kind)
  <2>1. stack' \in [Fiber -> Seq(Frame)]
    BY <1>3, FrameTypes, PushType DEF UserFrame
  <2>. QED BY <1>0, <1>3, <2>1, LoopType, EffectTypes, BurnType, PureType DEF UserFrame
<1>4. CASE UserFlags(f, to)
  <2>1. UpdateFlags(f, to, AnyEffect) /\ Pure /\ Burn /\ UNCHANGED history
    BY <1>4 DEF UserFlags
  <2>2. /\ cur' \in [Fiber -> Effect] /\ pc' \in [Fiber -> Label]
        /\ stack' \in [Fiber -> Seq(Frame)] /\ interruption' \in [Fiber -> BOOLEAN]
    BY <2>1, EffectTypes, UpdateFlagsType
  <2>. QED BY <1>0, <2>1, <2>2, BurnType, PureType
<1>5. CASE UserOnExit(f)
  <2>1. OnExit(UserJob) \in Effect
    BY EffectTypes, JobTypes
  <2>. QED BY <1>0, <1>5, <2>1, LoopType, BurnType, PureType DEF UserOnExit
<1>6. CASE UserYield(f)
  BY <1>0, <1>6, LoopType, EffectTypes, BurnType, PureType DEF UserYield
<1>. QED BY <1>1, <1>2, <1>3, <1>4, <1>5, <1>6

(* Starting to await a fiber keeps the types of all that it writes.          *)
LEMMA AwaitType ==
  ASSUME TypeOK, NEW f \in Fiber, NEW g \in Fiber, Await(f, g, AwaitJob(f, g))
  PROVE  /\ asyncs' \in [Fiber -> Seq(AsyncState)]
         /\ queue' \in Mail /\ running' \in [Fiber -> BOOLEAN] /\ tasks' \in [Fiber -> Nat]
         /\ cur' \in [Fiber -> Effect] /\ pc' \in [Fiber -> Label]
<1>1. asyncs[f] \in Seq(AsyncState) /\ Len(asyncs[f]) + 1 \in Nat
  BY DEF TypeOK
<1>2. [st |-> "registered", of |-> g] \in AsyncState
  BY DEF AsyncState
<1>3. asyncs' \in [Fiber -> Seq(AsyncState)]
  BY <1>1, <1>2 DEF Await, TypeOK
<1>4. <<f, Len(asyncs[f]) + 1>> \in Waiter
  BY <1>1 DEF Waiter
<1>5. To(g, Observe(<<f, Len(asyncs[f]) + 1>>)) \in Mail
  BY <1>4, MessageTypes, MailTypes
<1>6. queue' \in Mail /\ running' \in [Fiber -> BOOLEAN] /\ tasks' \in [Fiber -> Nat]
  BY <1>5, DeliverType DEF Await, TypeOK, Mail
<1>7. AwaitJob(f, g) \in Effect
  BY <1>1, JobTypes, EffectTypes DEF AwaitJob
<1>. QED BY <1>3, <1>6, <1>7, LoopType DEF Await

(* The user operations that tell fibers keep the types.                      *)
LEMMA TypeUserMail ==
  ASSUME TypeOK, NEW f \in Fiber, NEW g \in Fiber, NEW daemon \in BOOLEAN,
         NEW st \in {"registered", "pending"}, NEW i,
         \/ UserAsync(f, st) \/ UserAwait(f, g) \/ UserInterrupt(f, g)
         \/ UserFork(f, g, daemon) \/ UserCallback(f, g, i)
  PROVE  TypeOK'
<1>0. queue \in Mail
  BY DEF TypeOK, Mail
<1>1. CASE UserAsync(f, st)
  <2>1. asyncs[f] \in Seq(AsyncState) /\ Len(asyncs[f]) + 1 \in Nat
    BY DEF TypeOK
  <2>2. [st |-> st, of |-> NoFiber] \in AsyncState
    BY DEF AsyncState
  <2>3. asyncs' \in [Fiber -> Seq(AsyncState)]
    BY <1>1, <2>1, <2>2 DEF UserAsync, TypeOK
  <2>4. cur' \in [Fiber -> Effect] /\ pc' \in [Fiber -> Label]
    BY <1>1, <2>1, EffectTypes, LoopType DEF UserAsync
  <2>. QED BY <1>1, <2>3, <2>4, BurnType
       DEF TypeOK, UserAsync, mailbox, flags, family, history
<1>2. CASE UserAwait(f, g)
  <2>1. Await(f, g, AwaitJob(f, g)) /\ Burn
    BY <1>2 DEF UserAwait
  <2>. QED BY <1>2, <2>1, AwaitType, BurnType
       DEF TypeOK, UserAwait, flags, family, history, Mail
<1>3. CASE UserInterrupt(f, g)
  <2>1. To(g, InterruptSignal) \in Mail
    BY MessageTypes, MailTypes
  <2>2. queue' \in Mail /\ running' \in [Fiber -> BOOLEAN] /\ tasks' \in [Fiber -> Nat]
    BY <1>0, <1>3, <2>1, DeliverType DEF UserInterrupt, TypeOK
  <2>3. cur' \in [Fiber -> Effect]
    BY <1>3, EffectTypes DEF UserInterrupt, SyncDone, TypeOK
  <2>. QED BY <1>3, <2>2, <2>3, BurnType
       DEF TypeOK, UserInterrupt, control, flags, family, history, Mail
<1>4. CASE UserFork(f, g, daemon)
  <2>. DEFINE msgs == [h \in Fiber |-> CASE h = g             -> <<Resume(AnyEffect)>>
                                         [] h = f /\ ~daemon  -> <<AddChild(g)>>
                                         [] OTHER             -> <<>>]
  <2>1. Resume(AnyEffect) \in Message /\ AddChild(g) \in Message
    BY MessageTypes, OutcomeTypes
  <2>2. msgs \in Mail
    BY <2>1 DEF Mail
  <2>3. Deliver(queue, msgs)
    BY <1>4 DEF UserFork
  <2>4. queue' \in Mail /\ running' \in [Fiber -> BOOLEAN] /\ tasks' \in [Fiber -> Nat]
    BY <1>0, <2>2, <2>3, DeliverType DEF TypeOK
  <2>5. cur' \in [Fiber -> Effect] /\ pc' \in [Fiber -> Label]
    BY <1>4, EffectTypes DEF UserFork, TypeOK, Label
  <2>6. /\ interruption' \in [Fiber -> BOOLEAN] /\ windDown' \in [Fiber -> BOOLEAN]
        /\ scope' \in [Fiber -> Fiber \cup {NoFiber}]
    BY <1>4 DEF UserFork, TypeOK
  <2>. QED BY <1>4, <2>4, <2>5, <2>6, BurnType DEF TypeOK, UserFork, family, Mail
<1>5. CASE UserCallback(f, g, i)
  <2>1. Resumed({<<g, i>>}, AnyEffect) \in Mail
    BY MailTypes, OutcomeTypes
  <2>2. queue' \in Mail /\ running' \in [Fiber -> BOOLEAN] /\ tasks' \in [Fiber -> Nat]
    BY <1>0, <1>5, <2>1, DeliverType DEF UserCallback, TypeOK
  <2>3. asyncs' \in [Fiber -> Seq(AsyncState)]
    BY <1>5, FireType DEF UserCallback, TypeOK
  <2>4. cur' \in [Fiber -> Effect]
    BY <1>5, EffectTypes DEF UserCallback, SyncDone, TypeOK
  <2>. QED BY <1>5, <2>2, <2>3, <2>4, BurnType
       DEF TypeOK, UserCallback, control, flags, family, history, Mail
<1>. QED BY <1>1, <1>2, <1>3, <1>4, <1>5

(* Causes are closed under what the run loop does to them: parallel          *)
(* composition, stripping failures, adding an interruption.                  *)
LEMMA CausesClosed ==
  ASSUME NEW c \in Causes, NEW d \in Causes
  PROVE  c \cup d \in Causes /\ c \ {"fail"} \in Causes /\ c \cup {"int"} \in Causes
BY DEF Causes

(* The three primitives of a bracket keep the types.                         *)
LEMMA TypeBracket ==
  ASSUME TypeOK, NEW f \in Fiber, OpOnExit(f) \/ OpGuard(f) \/ OpRestore(f)
  PROVE  TypeOK'
<1>. USE DEF history
<1>0. /\ stack \in [Fiber -> Seq(Frame)] /\ interruption \in [Fiber -> BOOLEAN]
      /\ opened \in [Fiber -> Nat] /\ ran \in [Fiber -> Nat] /\ fuel \in 0..MaxFuel
      /\ cur[f] \in Effect
  BY DEF TypeOK
<1>1. CASE OpOnExit(f)
  <2>1. Guard(cur[f].job, interruption[f]) \in Effect
    BY <1>0, <1>1, EffectFields, EffectTypes DEF OpOnExit, OpAt
  <2>. QED BY <1>0, <1>1, <2>1, UpdateFlagsType, PureType DEF OpOnExit
<1>2. CASE OpGuard(f)
  <2>1. cur[f].job \in Job /\ cur[f].to \in BOOLEAN
    BY <1>0, <1>2, EffectFields DEF OpGuard, OpAt
  <2>2. Restore(cur[f].job, cur[f].to) \in Effect /\ Final(cur[f].job) \in Frame
    BY <2>1, EffectTypes, FrameTypes
  <2>3. opened' \in [Fiber -> Nat]
    BY <1>0, <1>2 DEF OpGuard
  <2>4. stack' \in [Fiber -> Seq(Frame)]
    BY <1>2, <2>2, PushType DEF OpGuard
  <2>5. cur' \in [Fiber -> Effect] /\ pc' \in [Fiber -> Label]
    BY <1>2, <2>2, LoopType DEF OpGuard
  <2>. QED BY <1>0, <1>2, <2>3, <2>4, <2>5, PureType DEF OpGuard
<1>3. CASE OpRestore(f)
  <2>1. cur[f].job \in Job /\ cur[f].to \in BOOLEAN
    BY <1>0, <1>3, EffectFields DEF OpRestore, OpAt
  <2>2. Body(cur[f].job) \in Effect
    BY <2>1, JobTypes
  <2>. QED BY <1>0, <1>3, <2>1, <2>2, UpdateFlagsType, PureType DEF OpRestore
<1>. QED BY <1>1, <1>2, <1>3

(* Async, yieldNow and the loop over the children keep the types.            *)
LEMMA TypeSuspend ==
  ASSUME TypeOK, NEW f \in Fiber, OpAsync(f) \/ OpYield(f) \/ OpWind(f)
  PROVE  TypeOK'
<1>0. queue \in Mail /\ cur[f] \in Effect
  BY DEF TypeOK, Mail
<1>1. CASE OpAsync(f)
  <2>. DEFINE i == cur[f].i
              early == asyncs[f][i].st = "pending"
              msgs == IF ~early THEN NoMail
                      ELSE To(f, Resume(IF asyncs[f][i].of = NoFiber THEN AnyEffect ELSE Succ))
  <2>1. i \in Nat
    BY <1>0, <1>1, EffectFields DEF OpAsync, OpAt
  <2>2. msgs \in Mail
    BY MailTypes, MessageTypes, OutcomeTypes
  <2>3. Deliver(queue, msgs)
    BY <1>1 DEF OpAsync
  <2>4. queue' \in Mail /\ running' \in [Fiber -> BOOLEAN] /\ tasks' \in [Fiber -> Nat]
    BY <1>0, <2>2, <2>3, DeliverType DEF TypeOK
  <2>5. asyncs' \in [Fiber -> Seq(AsyncState)]
    <3>1. asyncs' = [asyncs EXCEPT ![f][i].st = IF early THEN "called" ELSE "armed"]
      BY <1>1 DEF OpAsync
    <3>2. \A a \in AsyncState, s \in {"called", "armed"} : [a EXCEPT !.st = s] \in AsyncState
      BY DEF AsyncState
    <3>3. asyncs[f] \in Seq(AsyncState)
      BY DEF TypeOK
    <3>. DEFINE s == IF early THEN "called" ELSE "armed"
    <3>4. [asyncs[f] EXCEPT ![i].st = s] \in Seq(AsyncState)
      <4>1. s \in {"called", "armed"}
        OBVIOUS
      <4>2. \A j \in DOMAIN asyncs[f] : asyncs[f][j] \in AsyncState
        BY <3>3
      <4>. HIDE DEF s, early
      <4>3. CASE i \in DOMAIN asyncs[f]
        <5>1. [asyncs[f][i] EXCEPT !.st = s] \in AsyncState
          BY <3>2, <4>1, <4>2, <4>3
        <5>. QED BY <3>3, <4>3, <5>1
      <4>4. CASE i \notin DOMAIN asyncs[f]
        <5>1. PICK n \in Nat : asyncs[f] \in [1..n -> AsyncState]
          BY <3>3, SeqDef
        <5>2. [asyncs[f] EXCEPT ![i].st = s] = asyncs[f]
          BY <4>4, <5>1, Zenon
        <5>. QED BY <3>3, <5>2
      <4>. QED BY <4>3, <4>4
    <3>. QED BY <3>1, <3>4 DEF TypeOK
  <2>6. pc' \in [Fiber -> Label]
    BY <1>1, GotoType DEF OpAsync
  <2>7. interruptor' \in [Fiber -> Nat]
    BY <1>1, <2>1 DEF OpAsync, NewInterruptor, TypeOK
  <2>. QED BY <1>1, <2>4, <2>5, <2>6, <2>7
       DEF TypeOK, OpAsync, Evaluation, family, history, Mail
<1>2. CASE OpYield(f)
  <2>. DEFINE msgs == [NoMail EXCEPT ![f] = <<YieldNow, Resume(AfterYield(f))>>]
  <2>1. YieldNow \in Message /\ Resume(AfterYield(f)) \in Message
    BY MessageTypes, OutcomeTypes DEF AfterYield
  <2>2. msgs \in Mail
    BY <2>1, MailTypes DEF Mail
  <2>3. CASE CooperativeYielding
    <3>1. Deliver(queue, msgs) /\ Goto(f, "leave") /\ UNCHANGED cur
      BY <1>2, <2>3 DEF OpYield
    <3>2. queue' \in Mail /\ running' \in [Fiber -> BOOLEAN] /\ tasks' \in [Fiber -> Nat]
      BY <1>0, <2>2, <3>1, DeliverType DEF TypeOK
    <3>3. pc' \in [Fiber -> Label]
      BY <3>1, GotoType
    <3>. QED BY <1>2, <3>1, <3>2, <3>3 DEF TypeOK, OpYield, flags, family, history, Mail
  <2>4. CASE ~CooperativeYielding
    <3>1. Loop(f, Succ) /\ UNCHANGED mailbox
      BY <1>2, <2>4 DEF OpYield
    <3>2. cur' \in [Fiber -> Effect] /\ pc' \in [Fiber -> Label]
      BY <3>1, LoopType, EffectTypes
    <3>. QED BY <1>2, <3>1, <3>2 DEF TypeOK, OpYield, mailbox, flags, family, history
  <2>. QED BY <2>3, <2>4
<1>3. CASE OpWind(f)
  <2>1. CASE winding[f] = {}
    <3>1. Loop(f, Succ) /\ UNCHANGED <<mailbox, asyncs, winding, stack>>
      BY <1>3, <2>1 DEF OpWind
    <3>2. cur' \in [Fiber -> Effect] /\ pc' \in [Fiber -> Label]
      BY <3>1, LoopType, EffectTypes
    <3>. QED BY <1>3, <3>1, <3>2 DEF TypeOK, OpWind, mailbox, flags, history
  <2>2. CASE winding[f] # {}
    <3>1. PICK c \in winding[f] :
            /\ winding' = [winding EXCEPT ![f] = @ \ {c}]
            /\ Push(f, Simple("windLoop"))
            /\ Await(f, c, AwaitJob(f, c))
      BY <1>3, <2>2 DEF OpWind
    <3>2. c \in Fiber /\ winding' \in [Fiber -> SUBSET Fiber]
      BY <3>1 DEF TypeOK
    <3>3. stack' \in [Fiber -> Seq(Frame)]
      BY <3>1, FrameTypes, PushType
    <3>4. /\ asyncs' \in [Fiber -> Seq(AsyncState)]
          /\ queue' \in Mail /\ running' \in [Fiber -> BOOLEAN] /\ tasks' \in [Fiber -> Nat]
          /\ cur' \in [Fiber -> Effect] /\ pc' \in [Fiber -> Label]
      BY <3>1, <3>2, AwaitType
    <3>. QED BY <1>3, <3>2, <3>3, <3>4 DEF TypeOK, OpWind, flags, history, Mail
  <2>. QED BY <2>1, <2>2
<1>. QED BY <1>1, <1>2, <1>3

(* Unwinding one frame, or ending the loop with an empty stack, keeps the    *)
(* types.                                                                    *)
LEMMA TypeFrames ==
  ASSUME TypeOK, NEW f \in Fiber,
         \/ SkipFrame(f) \/ SuccessHandler(f) \/ FailureHandler(f) \/ RevertFrame(f)
         \/ UserFinalizer(f) \/ EndLoop(f)
  PROVE  TypeOK'
<1>. USE DEF history
<1>0. /\ stack \in [Fiber -> Seq(Frame)] /\ interruption \in [Fiber -> BOOLEAN]
      /\ opened \in [Fiber -> Nat] /\ ran \in [Fiber -> Nat] /\ fuel \in 0..MaxFuel
      /\ cur \in [Fiber -> Effect] /\ pc \in [Fiber -> Label] /\ cur[f] \in Effect
  BY DEF TypeOK
<1>1. CASE SkipFrame(f)
  BY <1>0, <1>1, PopType, PureType DEF SkipFrame, Meets
<1>2. CASE SuccessHandler(f)
  <2>1. stack' \in [Fiber -> Seq(Frame)] /\ Top(f) \in Frame
    BY <1>2, PopType DEF SuccessHandler, Meets
  <2>2. cur' \in [Fiber -> Effect] /\ pc' \in [Fiber -> Label]
    BY <1>2, <2>1, FrameFields, LoopType, EffectTypes DEF SuccessHandler
  <2>. QED BY <1>0, <1>2, <2>1, <2>2, PureType DEF SuccessHandler
<1>3. CASE FailureHandler(f)
  <2>. DEFINE next == CASE MustStop(f) -> Failed(cur[f].cause \ {"fail"})
                        [] ~MustStop(f) /\ Top(f).k = "result"
                                       -> Failed(Top(f).eff.cause \cup cur[f].cause)
                        [] OTHER       -> AnyEffect
  <2>1. stack' \in [Fiber -> Seq(Frame)] /\ Top(f) \in Frame
    BY <1>3, PopType DEF FailureHandler, Meets
  <2>2. cur[f].cause \in Causes
    BY <1>0, <1>3, EffectFields DEF FailureHandler, Meets, OpAt
  <2>3. Failed(cur[f].cause \ {"fail"}) \in Effect
    BY <2>2, CausesClosed, EffectTypes
  <2>4. Top(f).k = "result" => Failed(Top(f).eff.cause \cup cur[f].cause) \in Effect
    BY <2>1, <2>2, FrameFields, CausesClosed, EffectTypes
  <2>5. next \in Effect
    BY <2>3, <2>4, EffectTypes
  <2>6. Loop(f, next)
    BY <1>3 DEF FailureHandler
  <2>7. cur' \in [Fiber -> Effect] /\ pc' \in [Fiber -> Label]
    BY <2>5, <2>6, LoopType
  <2>. QED BY <1>0, <1>3, <2>1, <2>7, PureType DEF FailureHandler
<1>4. CASE RevertFrame(f)
  <2>1. stack' \in [Fiber -> Seq(Frame)] /\ Top(f) \in Frame
    BY <1>4, PopType DEF RevertFrame, Meets
  <2>2. Top(f).to \in BOOLEAN
    BY <1>4, <2>1, FrameFields DEF RevertFrame
  <2>3. interruption' \in [Fiber -> BOOLEAN]
    BY <1>0, <1>4, <2>2 DEF RevertFrame
  <2>4. cur[f].k = "fail" => Failed(cur[f].cause \cup {"int"}) \in Effect
    BY <1>0, EffectFields, CausesClosed, EffectTypes
  <2>5. InterruptCause \in Effect
    BY OutcomeTypes, EffectTypes
  <2>6. \E e \in Effect : Loop(f, e)
    BY <1>0, <1>4, <2>4, <2>5 DEF RevertFrame, IsFailure
  <2>7. cur' \in [Fiber -> Effect] /\ pc' \in [Fiber -> Label]
    BY <2>6, LoopType
  <2>. QED BY <1>0, <1>4, <2>1, <2>3, <2>7, PureType DEF RevertFrame
<1>5. CASE UserFinalizer(f)
  <2>1. stack[f] # <<>> /\ (cur[f].k = "fail" \/ cur[f].k = "succ")
    BY <1>5 DEF UserFinalizer, Meets, OpAt
  <2>2. CASE MustStop(f) /\ IsFailure(cur[f])
    <3>1. Loop(f, Failed(cur[f].cause \ {"fail"})) /\ Pop(f) /\ UNCHANGED ran
      BY <1>5, <2>2 DEF UserFinalizer
    <3>2. Failed(cur[f].cause \ {"fail"}) \in Effect
      BY <1>0, <2>2, EffectFields, CausesClosed, EffectTypes DEF IsFailure
    <3>3. cur' \in [Fiber -> Effect] /\ pc' \in [Fiber -> Label]
      BY <3>1, <3>2, LoopType
    <3>4. stack' \in [Fiber -> Seq(Frame)]
      BY <2>1, <3>1, PopType
    <3>. QED BY <1>0, <1>5, <3>1, <3>3, <3>4, PureType DEF UserFinalizer
  <2>3. CASE ~(MustStop(f) /\ IsFailure(cur[f]))
    <3>. DEFINE r == IF IsFailure(cur[f]) THEN Result(cur[f]) ELSE Cont(cur[f])
    <3>1. Loop(f, AnyEffect) /\ stack' = [stack EXCEPT ![f] = <<r>> \o Tail(@)]
          /\ ran' = [ran EXCEPT ![f] = @ + 1]
      BY <1>5, <2>3 DEF UserFinalizer
    <3>2. r \in Frame
      BY <1>0, FrameTypes DEF IsFailure
    <3>3. Tail(stack[f]) \in Seq(Frame)
      BY <1>0, <2>1
    <3>. HIDE DEF r
    <3>4. stack' \in [Fiber -> Seq(Frame)] /\ ran' \in [Fiber -> Nat]
      BY <1>0, <3>1, <3>2, <3>3
    <3>5. cur' \in [Fiber -> Effect] /\ pc' \in [Fiber -> Label]
      BY <3>1, LoopType, EffectTypes
    <3>. QED BY <1>0, <1>5, <3>4, <3>5, PureType DEF UserFinalizer
  <2>. QED BY <2>2, <2>3
<1>6. CASE EndLoop(f)
  BY <1>0, <1>6, GotoType, PureType DEF EndLoop
<1>. QED BY <1>1, <1>2, <1>3, <1>4, <1>5, <1>6

(* The canceler of an await keeps the types.                                 *)
LEMMA TypeCanceler ==
  ASSUME TypeOK, NEW f \in Fiber, AwaitCanceler(f)
  PROVE  TypeOK'
<1>. DEFINE job == Top(f).job
            skipped == MustStop(f) /\ IsFailure(cur[f])
            cancels == ~skipped /\ IsFailure(cur[f]) /\ cur[f].cause \subseteq {"int"}
            msgs == IF cancels THEN To(job.of, Unobserve(<<f, job.i>>)) ELSE NoMail
            e == IF skipped THEN Failed(cur[f].cause \ {"fail"}) ELSE cur[f]
<1>1. stack' \in [Fiber -> Seq(Frame)] /\ Top(f) \in Frame
  BY PopType DEF AwaitCanceler, Meets
<1>2. job \in Job /\ Top(f).k = "final" /\ job # UserJob
  BY <1>1, FrameFields DEF AwaitCanceler
<1>3. job.of \in Fiber /\ <<f, job.i>> \in Waiter
  BY <1>2, JobTypes DEF Waiter
<1>4. cur[f] \in Effect /\ (IsFailure(cur[f]) => cur[f].cause \in Causes)
  BY EffectFields DEF TypeOK, IsFailure
<1>5. e \in Effect
  BY <1>4, CausesClosed, EffectTypes
<1>6. msgs \in Mail
  BY <1>3, MessageTypes, MailTypes
<1>7. Loop(f, e) /\ Deliver(queue, msgs)
  BY DEF AwaitCanceler
<1>. HIDE DEF e, msgs
<1>8. cur' \in [Fiber -> Effect] /\ pc' \in [Fiber -> Label]
  BY <1>5, <1>7, LoopType
<1>9. queue' \in Mail /\ running' \in [Fiber -> BOOLEAN] /\ tasks' \in [Fiber -> Nat]
  BY <1>6, <1>7, DeliverType DEF TypeOK, Mail
<1>. QED BY <1>1, <1>8, <1>9 DEF TypeOK, AwaitCanceler, flags, family, history, Mail

(* Ending an evaluation with an exit keeps the types.                        *)
LEMMA TypeExit ==
  ASSUME TypeOK, NEW f \in Fiber,
         \/ (WindDownChildren(f) \/ ExitLater(f) \/ SetExit(f)) /\ cur[f] \in Outcome
  PROVE  TypeOK'
<1>0. queue \in Mail /\ cur[f] \in Outcome /\ windDown \in [Fiber -> BOOLEAN]
  BY DEF TypeOK, Mail
<1>1. CASE WindDownChildren(f)
  <2>1. ToEach(children[f], InterruptSignal) \in Mail
    BY MailTypes, MessageTypes DEF TypeOK
  <2>2. queue' \in Mail /\ running' \in [Fiber -> BOOLEAN] /\ tasks' \in [Fiber -> Nat]
    BY <1>0, <1>1, <2>1, DeliverType DEF WindDownChildren, TypeOK
  <2>3. stack' \in [Fiber -> Seq(Frame)]
    BY <1>1, FrameTypes, PushType DEF WindDownChildren, TypeOK
  <2>4. cur' \in [Fiber -> Effect] /\ pc' \in [Fiber -> Label]
    BY <1>1, EffectTypes, LoopType DEF WindDownChildren
  <2>5. /\ children' \in [Fiber -> SUBSET Fiber] /\ winding' \in [Fiber -> SUBSET Fiber]
        /\ windDown' \in [Fiber -> BOOLEAN]
    BY <1>1 DEF WindDownChildren, ToAwait, TypeOK
  <2>. QED BY <1>1, <2>2, <2>3, <2>4, <2>5 DEF TypeOK, WindDownChildren, history, Mail
<1>2. CASE ExitLater(f)
  <2>1. To(f, Resume(cur[f])) \in Mail
    BY <1>0, MailTypes, MessageTypes, OutcomeTypes
  <2>2. queue' \in Mail /\ running' \in [Fiber -> BOOLEAN] /\ tasks' \in [Fiber -> Nat]
    BY <1>0, <1>2, <2>1, DeliverType DEF ExitLater, TypeOK
  <2>3. pc' \in [Fiber -> Label] /\ windDown' \in [Fiber -> BOOLEAN]
    BY <1>0, <1>2, GotoType DEF ExitLater
  <2>. QED BY <1>2, <2>2, <2>3 DEF TypeOK, ExitLater, Evaluation, family, history, Mail
<1>3. CASE SetExit(f)
  <2>1. Resumed(observers[f], Succ) \in Mail
    BY MailTypes, OutcomeTypes
  <2>2. queue' \in Mail /\ running' \in [Fiber -> BOOLEAN] /\ tasks' \in [Fiber -> Nat]
    BY <1>0, <1>3, <2>1, DeliverType DEF SetExit, TypeOK
  <2>3. pc' \in [Fiber -> Label] /\ windDown' \in [Fiber -> BOOLEAN]
    BY <1>0, <1>3, GotoType DEF SetExit
  <2>4. asyncs' \in [Fiber -> Seq(AsyncState)]
    BY <1>3, FireType DEF SetExit, TypeOK
  <2>5. exit' \in [Fiber -> Outcome \cup {NotDone}]
    BY <1>0, <1>3 DEF SetExit, TypeOK
  <2>6. children' \in [Fiber -> SUBSET Fiber]
    BY <1>3 DEF SetExit, TypeOK
  <2>. QED BY <1>3, <2>2, <2>3, <2>4, <2>5, <2>6
       DEF TypeOK, SetExit, Evaluation, history, Mail
<1>. QED BY <1>1, <1>2, <1>3

(* An interruption or a callback from outside any fiber keeps the types.     *)
LEMMA TypeOutside ==
  ASSUME TypeOK, NEW f \in Fiber,
         ExternalInterrupt(f) \/ \E i \in DOMAIN asyncs[f] : ExternalCallback(f, i)
  PROVE  TypeOK'
<1>0. queue \in Mail
  BY DEF TypeOK, Mail
<1>1. CASE ExternalInterrupt(f)
  <2>1. To(f, InterruptSignal) \in Mail
    BY MailTypes, MessageTypes
  <2>2. queue' \in Mail /\ running' \in [Fiber -> BOOLEAN] /\ tasks' \in [Fiber -> Nat]
    BY <1>0, <1>1, <2>1, DeliverType DEF ExternalInterrupt, TypeOK
  <2>. QED BY <1>1, <2>2, BurnType
       DEF TypeOK, ExternalInterrupt, control, Evaluation, family, history, Mail
<1>2. ASSUME NEW i \in DOMAIN asyncs[f], ExternalCallback(f, i)
      PROVE  TypeOK'
  <2>1. Resumed({<<f, i>>}, AnyEffect) \in Mail
    BY MailTypes, OutcomeTypes
  <2>2. queue' \in Mail /\ running' \in [Fiber -> BOOLEAN] /\ tasks' \in [Fiber -> Nat]
    BY <1>0, <1>2, <2>1, DeliverType DEF ExternalCallback, TypeOK
  <2>3. asyncs' \in [Fiber -> Seq(AsyncState)]
    BY <1>2, FireType DEF ExternalCallback, TypeOK
  <2>. QED BY <1>2, <2>2, <2>3
       DEF TypeOK, ExternalCallback, control, Evaluation, family, history, Mail
<1>. QED BY <1>1, <1>2

-----------------------------------------------------------------------------
(* runLoop only returns exits: with that, the type invariant is inductive.  *)
ExitShape == \A f \in Fiber : pc[f] = "exit" => cur[f].k \in {"succ", "fail"}

TypeInv == TypeOK /\ ExitShape

(* A fiber at the end of its evaluation holds an exit.                       *)
LEMMA ExitIsOutcome ==
  ASSUME TypeInv, NEW f \in Fiber, pc[f] = "exit"
  PROVE  cur[f] \in Outcome
BY EffectFields DEF TypeInv, TypeOK, ExitShape

(* Every step keeps the types.                                               *)
LEMMA TypeNext == TypeInv /\ [Next]_vars => TypeOK'
<1>. SUFFICES ASSUME TypeInv, [Next]_vars PROVE TypeOK'
  OBVIOUS
<1>0. TypeOK
  BY DEF TypeInv
<1>1. CASE UNCHANGED vars
  BY <1>0, <1>1 DEF TypeOK, vars, mailbox, control, flags, family, history
<1>2. CASE Outside
  BY <1>0, <1>2, TypeThread, TypeOutside DEF Outside
<1>3. ASSUME NEW f \in Fiber, RunTask(f) PROVE TypeOK'
  BY <1>0, <1>3, TypeThread
<1>4. ASSUME NEW f \in Fiber, Step(f) PROVE TypeOK'
  <2>1. CASE DrainDone(f) \/ DrainYield(f) \/ DrainInterrupt(f) \/ DrainResume(f)
    BY <1>0, <2>1, TypeDrain
  <2>2. CASE DrainStateful(f) \/ LoopStateful(f)
    BY <1>0, <2>2, TypeStateful DEF DrainStateful, LoopStateful
  <2>3. CASE LoopInterrupt(f) \/ BeginOp(f) \/ Preempt(f)
    BY <1>0, <2>3, TypeLoop
  <2>4. CASE UserOp(f)
    BY <1>0, <2>4, TypeUserPure, TypeUserMail DEF UserOp
  <2>5. CASE Primitive(f)
    BY <1>0, <2>5, TypeBracket, TypeSuspend, TypeFrames, TypeCanceler DEF Primitive
  <2>6. CASE WindDownChildren(f) \/ ExitLater(f) \/ SetExit(f)
    <3>1. pc[f] = "exit"
      BY <2>6 DEF WindDownChildren, ExitLater, SetExit, At
    <3>. QED BY <1>0, <2>6, <3>1, ExitIsOutcome, TypeExit
  <2>7. CASE Return(f)
    BY <1>0, <2>7, TypeThread
  <2>. QED BY <1>4, <2>1, <2>2, <2>3, <2>4, <2>5, <2>6, <2>7 DEF Step
<1>. QED BY <1>1, <1>2, <1>3, <1>4 DEF Next

(* A step that puts no fiber after runLoop, and leaves the effect of those   *)
(* that are there, keeps ExitShape.                                         *)
NoNewExit == \A g \in Fiber : pc'[g] = "exit" => pc[g] = "exit" /\ cur'[g] = cur[g]

(* Entering and leaving the call stack brings no fiber to the end of its     *)
(* evaluation.                                                               *)
LEMMA ShapeThread ==
  ASSUME TypeOK, NEW f \in Fiber,
         RunTask(f) \/ Start(f) \/ StartLater(f) \/ Return(f)
  PROVE  NoNewExit
<1>1. CASE Start(f)
  <2>1. pc' = [pc EXCEPT ![f] = "loop"]
    BY <1>1 DEF Start, Evaluate, Loop, Goto
  <2>2. CASE Idle
    BY <1>1, <2>1, <2>2 DEF TypeOK, NoNewExit, Start, Evaluate, Loop
  <2>3. CASE ~Idle
    <3>1. pc[Head(thread)] = "op" /\ cur' = [cur EXCEPT ![f] = AnyEffect, ![Head(thread)] = Succ]
      BY <1>1, <2>3 DEF Start, OpAt, At
    <3>. QED BY <2>1, <3>1 DEF TypeOK, NoNewExit
  <2>. QED BY <2>2, <2>3
<1>2. CASE RunTask(f) \/ StartLater(f) \/ Return(f)
  BY <1>2 DEF TypeOK, NoNewExit, RunTask, StartLater, Return, Goto, Evaluation
<1>. QED BY <1>1, <1>2

(* Nor does a step that handles messages or takes up a primitive.            *)
LEMMA ShapeDrain ==
  ASSUME TypeOK, NEW f \in Fiber, NEW label,
         \/ DrainDone(f) \/ DrainYield(f) \/ DrainInterrupt(f) \/ DrainResume(f)
         \/ Stateful1(f, label) \/ LoopInterrupt(f) \/ BeginOp(f) \/ Preempt(f)
  PROVE  NoNewExit
<1>1. CASE DrainResume(f)
  BY <1>1 DEF TypeOK, NoNewExit, DrainResume, Evaluate, Loop, Goto
<1>2. CASE DrainDone(f) \/ DrainYield(f) \/ DrainInterrupt(f) \/ Stateful1(f, label)
  BY <1>2 DEF TypeOK, NoNewExit, DrainDone, DrainYield, DrainInterrupt, Stateful1,
              Goto, Evaluation, control
<1>3. CASE LoopInterrupt(f) \/ BeginOp(f) \/ Preempt(f)
  BY <1>3 DEF TypeOK, NoNewExit, LoopInterrupt, BeginOp, Preempt, Next1, At, Goto,
              Evaluation, control
<1>. QED BY <1>1, <1>2, <1>3

(* Nor does a user operation.                                                *)
LEMMA ShapeUser ==
  ASSUME TypeOK, NEW f \in Fiber, UserOp(f)
  PROVE  NoNewExit
<1>1. CASE UserSucceed(f) \/ UserFail(f) \/ UserOnExit(f) \/ UserYield(f)
  BY <1>1 DEF TypeOK, NoNewExit, UserSucceed, UserFail, UserOnExit, UserYield, Loop, Goto
<1>2. ASSUME NEW kind, UserFrame(f, kind) PROVE NoNewExit
  BY <1>2 DEF TypeOK, NoNewExit, UserFrame, Loop, Goto
<1>3. ASSUME NEW to, UserFlags(f, to) PROVE NoNewExit
  BY <1>3 DEF TypeOK, NoNewExit, UserFlags, UpdateFlags, Loop, Goto
<1>4. ASSUME NEW st, UserAsync(f, st) PROVE NoNewExit
  BY <1>4 DEF TypeOK, NoNewExit, UserAsync, Loop, Goto
<1>5. ASSUME NEW g, UserAwait(f, g) PROVE NoNewExit
  BY <1>5 DEF TypeOK, NoNewExit, UserAwait, Await, Loop, Goto
<1>6. ASSUME NEW g, UserInterrupt(f, g) PROVE NoNewExit
  BY <1>6 DEF TypeOK, NoNewExit, UserInterrupt, SyncDone, OpAt, At, control
<1>7. ASSUME NEW c \in Fiber, NEW daemon, UserFork(f, c, daemon) PROVE NoNewExit
  BY <1>7 DEF TypeOK, NoNewExit, UserFork
<1>8. ASSUME NEW g, NEW i, UserCallback(f, g, i) PROVE NoNewExit
  BY <1>8 DEF TypeOK, NoNewExit, UserCallback, SyncDone, OpAt, At, control
<1>. QED BY <1>1, <1>2, <1>3, <1>4, <1>5, <1>6, <1>7, <1>8 DEF UserOp

(* Nor does a primitive, unless it finds the stack empty.                    *)
LEMMA ShapePrimitive ==
  ASSUME TypeOK, NEW f \in Fiber, Primitive(f), ~EndLoop(f)
  PROVE  NoNewExit
<1>1. CASE OpOnExit(f) \/ OpGuard(f) \/ OpRestore(f)
  BY <1>1 DEF TypeOK, NoNewExit, OpOnExit, OpGuard, OpRestore, UpdateFlags, Loop, Goto
<1>2. CASE OpAsync(f) \/ OpYield(f)
  BY <1>2 DEF TypeOK, NoNewExit, OpAsync, OpYield, Loop, Goto, Evaluation
<1>3. CASE OpWind(f)
  BY <1>3 DEF TypeOK, NoNewExit, OpWind, Await, Loop, Goto
<1>4. CASE SkipFrame(f)
  BY <1>4 DEF TypeOK, NoNewExit, SkipFrame
<1>5. CASE SuccessHandler(f)
  BY <1>5 DEF TypeOK, NoNewExit, SuccessHandler, Loop, Goto
<1>6. CASE FailureHandler(f) \/ RevertFrame(f)
  BY <1>6 DEF TypeOK, NoNewExit, FailureHandler, RevertFrame, Loop, Goto
<1>7. CASE UserFinalizer(f) \/ AwaitCanceler(f)
  BY <1>7 DEF TypeOK, NoNewExit, UserFinalizer, AwaitCanceler, Loop, Goto
<1>. QED BY <1>1, <1>2, <1>3, <1>4, <1>5, <1>6, <1>7 DEF Primitive

(* Nor do the steps that end an evaluation: they leave that label.           *)
LEMMA ShapeExit ==
  ASSUME TypeOK, NEW f \in Fiber, WindDownChildren(f) \/ ExitLater(f) \/ SetExit(f)
  PROVE  NoNewExit
BY DEF TypeOK, NoNewExit, WindDownChildren, ExitLater, SetExit, Loop, Goto, Evaluation

(* Every step keeps: a fiber at the end of its evaluation holds an exit.     *)
LEMMA ShapeNext == TypeInv /\ [Next]_vars => ExitShape'
<1>. SUFFICES ASSUME TypeInv, [Next]_vars PROVE ExitShape'
  OBVIOUS
<1>0. TypeOK /\ ExitShape
  BY DEF TypeInv
<1>1. CASE NoNewExit
  BY <1>0, <1>1 DEF NoNewExit, ExitShape
<1>2. CASE UNCHANGED vars
  BY <1>0, <1>2 DEF ExitShape, vars, control
<1>3. CASE Outside
  <2>1. CASE \E f \in Fiber : Start(f) \/ StartLater(f)
    BY <1>0, <1>1, <2>1, ShapeThread
  <2>2. CASE \E f \in Fiber : ExternalInterrupt(f) \/ \E i \in DOMAIN asyncs[f] : ExternalCallback(f, i)
    BY <1>0, <2>2 DEF ExitShape, ExternalInterrupt, ExternalCallback, control, Evaluation
  <2>. QED BY <1>3, <2>1, <2>2 DEF Outside
<1>4. ASSUME NEW f \in Fiber, RunTask(f) PROVE ExitShape'
  BY <1>0, <1>1, <1>4, ShapeThread
<1>5. ASSUME NEW f \in Fiber, Step(f) PROVE ExitShape'
  <2>1. CASE EndLoop(f)
    BY <1>0, <2>1 DEF TypeOK, ExitShape, EndLoop, OpAt, Goto
  <2>2. CASE ~EndLoop(f)
    BY <1>0, <1>1, <1>5, <2>2, ShapeThread, ShapeDrain, ShapeUser, ShapePrimitive, ShapeExit
       DEF Step, DrainStateful, LoopStateful
  <2>. QED BY <2>1, <2>2
<1>. QED BY <1>2, <1>3, <1>4, <1>5 DEF Next

(* Every variable keeps its type: the inboxes hold only known messages, the  *)
(* stacks only known frames, and a fiber's exit is a success or a failure.   *)
THEOREM TypeCorrect == Spec => []TypeOK
<1>1. Init => TypeInv
  BY TypeInit DEF TypeInv, ExitShape, Init
<1>2. TypeInv /\ [Next]_vars => TypeInv'
  BY TypeNext, ShapeNext DEF TypeInv
<1>3. TypeInv => TypeOK
  BY DEF TypeInv
<1>. QED BY <1>1, <1>2, <1>3, PTL DEF Spec

-----------------------------------------------------------------------------
(***************************************************************************)
(* No message is stranded in an inbox.           *)
(*                                                                         *)
(* NoStrandedMessage alone is not inductive: it says nothing of a fiber    *)
(* that holds the thread, and a drain that ends must leave at most what    *)
(* the invariant allows off the thread.  MailboxOf counts the scheduled    *)
(* drains in every place a fiber can be, and OnThread ties those places to *)
(* the JavaScript call stack, so that an idle thread means nobody is on it. *)
(***************************************************************************)

On(g) == pc[g] \notin {"unborn", "out"}

OnThread == \A g \in Fiber : On(g) => \E j \in DOMAIN thread : thread[j] = g

Waits(g) == queue[g] # <<>> \/ running[g]

MailboxOf(g) ==
  /\ pc[g] = "unborn" =>
       /\ tasks[g] <= 1
       /\ Waits(g) => tasks[g] > 0
       /\ ~running[g] => tasks[g] = 0
  /\ pc[g] = "out" =>
       /\ tasks[g] <= 2
       /\ Waits(g) => tasks[g] > 0
       /\ ~running[g] => tasks[g] <= 1
  /\ On(g) /\ caller[g] = "run" =>
       /\ tasks[g] <= 1
       /\ ~running[g] => tasks[g] = 0
  /\ On(g) /\ caller[g] = "start" => running[g] /\ tasks[g] = 0

MailboxInv == OnThread /\ \A g \in Fiber : MailboxOf(g)

-----------------------------------------------------------------------------
(* What a step does to one fiber's place, apart from its inbox.             *)
SamePlace(g) ==
  /\ caller'[g] = caller[g]
  /\ \/ pc'[g] = pc[g]
     \/ On(g) /\ pc'[g] \notin {"unborn", "out"}

SamePlaces == thread' = thread /\ \A g \in Fiber : SamePlace(g)

(* A step that moves nobody on or off the call stack keeps OnThread.         *)
LEMMA OnThreadKept ==
  ASSUME OnThread, SamePlaces
  PROVE  OnThread'
BY DEF OnThread, SamePlaces, SamePlace, On

(* A step that takes nothing from an inbox off the thread, and sends nothing. *)
LEMMA Silent ==
  ASSUME MailboxInv, SamePlaces, running' = running, tasks' = tasks,
         \A g \in Fiber : queue'[g] = queue[g] \/ On(g)
  PROVE  MailboxInv'
<1>1. OnThread'
  BY OnThreadKept DEF MailboxInv
<1>2. ASSUME NEW g \in Fiber
      PROVE  MailboxOf(g)'
  BY <1>2 DEF MailboxInv, MailboxOf, SamePlaces, SamePlace, On, Waits
<1>. QED BY <1>1, <1>2 DEF MailboxInv

(* One fiber, when messages are told to any of them: it stays where it is,   *)
(* or it is created with a first message.                                   *)
LEMMA Told ==
  ASSUME TypeOK, NEW q, NEW msgs, Deliver(q, msgs), NEW g \in Fiber, MailboxOf(g),
         q[g] = queue[g] \/ On(g),
         \/ SamePlace(g)
         \/ pc[g] = "unborn" /\ pc'[g] = "out" /\ msgs[g] # <<>>
  PROVE  MailboxOf(g)'
<1>1. /\ queue'[g] = q[g] \o msgs[g]
      /\ running'[g] = (running[g] \/ msgs[g] # <<>>)
      /\ tasks'[g] = IF msgs[g] # <<>> /\ ~running[g] THEN tasks[g] + 1 ELSE tasks[g]
  BY DEF Deliver
<1>2. running[g] \in BOOLEAN /\ tasks[g] \in Nat /\ caller[g] \in {"run", "start"}
  BY DEF TypeOK
<1>3. queue[g] = <<>> /\ msgs[g] = <<>> /\ ~On(g) => queue'[g] = <<>>
  BY <1>1
<1>4. CASE msgs[g] = <<>>
  <2>1. running'[g] = running[g] /\ tasks'[g] = tasks[g]
    BY <1>1, <1>2, <1>4
  <2>2. SamePlace(g)
    BY <1>4
  <2>. QED BY <1>3, <1>4, <2>1, <2>2 DEF MailboxOf, SamePlace, On, Waits
<1>5. CASE msgs[g] # <<>>
  <2>1. running'[g] /\ tasks'[g] = IF running[g] THEN tasks[g] ELSE tasks[g] + 1
    BY <1>1, <1>2, <1>5
  <2>2. CASE pc[g] = "unborn"
    BY <1>2, <2>1, <2>2 DEF MailboxOf, SamePlace, On, Waits
  <2>3. CASE pc[g] = "out"
    BY <1>2, <2>1, <2>3 DEF MailboxOf, SamePlace, On, Waits
  <2>4. CASE On(g)
    BY <1>2, <2>1, <2>4 DEF MailboxOf, SamePlace, On, Waits
  <2>. QED BY <2>2, <2>3, <2>4 DEF On
<1>. QED BY <1>4, <1>5

(* A step that only tells fibers, and takes messages only from fibers on     *)
(* the call stack, loses no mailbox: telling one that is not running         *)
(* schedules its drain.                                                      *)
LEMMA AllTold ==
  ASSUME TypeOK, MailboxInv, SamePlaces, NEW q, NEW msgs, Deliver(q, msgs),
         \A g \in Fiber : q[g] = queue[g] \/ On(g)
  PROVE  MailboxInv'
<1>1. OnThread'
  BY OnThreadKept DEF MailboxInv
<1>2. ASSUME NEW g \in Fiber
      PROVE  MailboxOf(g)'
  BY <1>2, Told DEF MailboxInv, SamePlaces
<1>. QED BY <1>1, <1>2 DEF MailboxInv

(* A fiber that holds the thread: it is on it, and the others may wait.      *)
LEMMA Holds ==
  ASSUME TypeOK, NEW f \in Fiber, NEW label \in Label \ {"unborn", "out"}, At(f, label)
  PROVE  /\ On(f)
         /\ \A g \in Fiber : Popped(f)[g] = queue[g] \/ On(g)
BY DEF At, On, Popped, TypeOK

(* Staying on the thread, at another place.                                 *)
LEMMA Moves ==
  ASSUME TypeOK, NEW f \in Fiber, On(f), thread' = thread, caller' = caller,
         \/ \E label \in Label \ {"unborn", "out"} : Goto(f, label)
         \/ \E e : Loop(f, e)
         \/ pc' = pc
  PROVE  SamePlaces
BY DEF SamePlaces, SamePlace, On, Goto, Loop, TypeOK

(* The fiber on top of the thread gives it back.                            *)
LEMMA GivesBack ==
  ASSUME TypeOK, OnThread, NEW f \in Fiber, NEW label, At(f, label),
         thread' = Tail(thread), pc' = [pc EXCEPT ![f] = "out"]
  PROVE  OnThread'
<1>1. thread \in Seq(Fiber) /\ thread # <<>> /\ thread[1] = f
  <2>1. thread \in Seq(Fiber)
    BY DEF TypeOK
  <2>2. thread # <<>> /\ Head(thread) = f
    BY AtThread
  <2>. QED BY <2>1, <2>2
<1>2. ASSUME NEW g \in Fiber, On(g)'
      PROVE  \E j \in DOMAIN thread' : thread'[j] = g
  <2>1. On(g) /\ g # f
    BY <1>2 DEF On, TypeOK
  <2>2. PICK j \in DOMAIN thread : thread[j] = g
    BY <2>1 DEF OnThread
  <2>3. j \in 2..Len(thread)
    BY <1>1, <2>1, <2>2
  <2>4. j - 1 \in DOMAIN Tail(thread) /\ Tail(thread)[j - 1] = g
    BY <1>1, <2>2, <2>3
  <2>. QED BY <2>4
<1>. QED BY <1>2 DEF OnThread

-----------------------------------------------------------------------------
(* The actions, one by one.                                                 *)

LEMMA MailboxInit == Init => MailboxInv
BY DEF Init, MailboxInv, OnThread, MailboxOf, On, Waits

(* Taking a drain task from the scheduler: the fiber drained is on the call  *)
(* stack, which is what its other task was for.                              *)
LEMMA MailboxRunTask ==
  ASSUME TypeOK, MailboxInv, NEW f \in Fiber, RunTask(f)
  PROVE  MailboxInv'
<1>1. thread' = <<f>> /\ pc' = [pc EXCEPT ![f] = "drain"]
      /\ caller' = [caller EXCEPT ![f] = "run"] /\ tasks' = [tasks EXCEPT ![f] = @ - 1]
      /\ queue' = queue /\ running' = running /\ tasks[f] > 0
  BY DEF RunTask, Goto
<1>2. \A g \in Fiber : ~On(g)
  BY DEF RunTask, Idle, MailboxInv, OnThread
<1>3. OnThread'
  BY <1>1, <1>2 DEF OnThread, On, TypeOK
<1>4. MailboxOf(f)'
  <2>1. tasks[f] \in Nat /\ tasks'[f] = tasks[f] - 1 /\ queue'[f] = queue[f]
        /\ running'[f] = running[f] /\ pc'[f] = "drain" /\ caller'[f] = "run"
    BY <1>1 DEF TypeOK
  <2>2. pc[f] = "unborn" \/ pc[f] = "out"
    BY <1>2 DEF On
  <2>3. MailboxOf(f)
    BY DEF MailboxInv
  <2>4. tasks[f] <= 2 /\ (~running[f] => tasks[f] <= 1)
    BY <2>1, <2>2, <2>3 DEF MailboxOf
  <2>5. tasks'[f] <= 1 /\ (~running'[f] => tasks'[f] = 0)
    BY <1>1, <2>1, <2>4
  <2>. QED BY <2>1, <2>5 DEF MailboxOf, On
<1>5. ASSUME NEW g \in Fiber, g # f
      PROVE  MailboxOf(g)'
  BY <1>1, <1>2, <1>5 DEF MailboxInv, MailboxOf, On, Waits, TypeOK
<1>. QED BY <1>3, <1>4, <1>5 DEF MailboxInv

(* Starting a fiber at once puts it on the call stack, so whatever it is     *)
(* told waits there.                                                         *)
LEMMA MailboxStart ==
  ASSUME TypeOK, MailboxInv, NEW f \in Fiber, Start(f)
  PROVE  MailboxInv'
<1>1. thread' = <<f>> \o thread /\ pc' = [pc EXCEPT ![f] = "loop"]
      /\ caller' = [caller EXCEPT ![f] = "start"] /\ tasks' = tasks
      /\ queue' = queue /\ running' = [running EXCEPT ![f] = TRUE]
      /\ pc[f] = "unborn" /\ ~running[f]
  BY DEF Start, Evaluate, Loop, Goto
<1>2. ASSUME NEW g \in Fiber, On(g)'
      PROVE  \E j \in DOMAIN thread' : thread'[j] = g
  <2>1. thread \in Seq(Fiber)
    BY DEF TypeOK
  <2>2. CASE g = f
    <3>1. 1 \in DOMAIN thread' /\ thread'[1] = f
      BY <1>1, <2>1
    <3>. QED BY <2>2, <3>1
  <2>3. CASE g # f
    <3>1. On(g)
      BY <1>1, <1>2, <2>3 DEF On, TypeOK
    <3>2. PICK j \in DOMAIN thread : thread[j] = g
      BY <3>1 DEF MailboxInv, OnThread
    <3>3. j + 1 \in DOMAIN thread' /\ thread'[j + 1] = g
      BY <1>1, <2>1, <3>2
    <3>. QED BY <3>3
  <2>. QED BY <2>2, <2>3
<1>3. MailboxOf(f)'
  BY <1>1 DEF MailboxInv, MailboxOf, On, Waits, TypeOK
<1>4. ASSUME NEW g \in Fiber, g # f
      PROVE  MailboxOf(g)'
  BY <1>1, <1>4 DEF MailboxInv, MailboxOf, On, Waits, TypeOK
<1>. QED BY <1>2, <1>3, <1>4 DEF MailboxInv, OnThread

(* Leaving the call stack: the fiber looks at its queue once more after it   *)
(* has cleared _running.                                                     *)
LEMMA MailboxReturn ==
  ASSUME TypeOK, MailboxInv, NEW f \in Fiber, Return(f)
  PROVE  MailboxInv'
<1>1. At(f, "leave") /\ On(f) /\ caller' = caller /\ queue' = queue
  BY DEF Return, At, On
<1>2. CASE caller[f] = "run"
  <2>1. SamePlaces
    BY <1>1, <1>2, Moves DEF Return, Label
  <2>. QED BY <1>1, <1>2, <2>1, Silent DEF Return
<1>3. CASE caller[f] # "run"
  <2>1. pc' = [pc EXCEPT ![f] = "out"] /\ running' = [running EXCEPT ![f] = FALSE]
        /\ tasks' = [tasks EXCEPT ![f] = @ + LeftOver(f)] /\ thread' = Tail(thread)
    BY <1>3 DEF Return, Goto
  <2>2. OnThread'
    BY <1>1, <2>1, GivesBack DEF MailboxInv
  <2>3. caller[f] = "start"
    BY <1>3 DEF TypeOK
  <2>4. MailboxOf(f)'
    BY <1>1, <2>1, <2>3 DEF MailboxInv, MailboxOf, On, Waits, TypeOK, LeftOver
  <2>5. ASSUME NEW g \in Fiber, g # f
        PROVE  MailboxOf(g)'
    BY <1>1, <2>1, <2>5 DEF MailboxInv, MailboxOf, On, Waits, TypeOK
  <2>. QED BY <2>2, <2>4, <2>5 DEF MailboxInv
<1>. QED BY <1>2, <1>3

(* A drain that ends with an empty queue, or that stops at a yield and       *)
(* schedules the rest.                                                       *)
LEMMA MailboxDrainEnds ==
  ASSUME TypeOK, MailboxInv, NEW f \in Fiber, DrainDone(f) \/ DrainYield(f)
  PROVE  MailboxInv'
<1>0. At(f, "drain")
  BY DEF DrainDone, DrainYield, Next1
<1>1. thread' = Tail(thread) /\ caller' = caller /\ pc' = [pc EXCEPT ![f] = "out"]
  BY DEF DrainDone, DrainYield, Goto
<1>2. OnThread'
  BY <1>0, <1>1, GivesBack DEF MailboxInv
<1>3. On(f)
  BY <1>0 DEF At, On
<1>4. tasks[f] \in Nat /\ tasks[f] <= 1 /\ caller[f] \in {"run", "start"}
  BY <1>3 DEF MailboxInv, MailboxOf, TypeOK
<1>5. CASE DrainDone(f)
  <2>1. MailboxOf(f)'
    BY <1>1, <1>4, <1>5 DEF DrainDone, MailboxOf, On, Waits, TypeOK
  <2>2. ASSUME NEW g \in Fiber, g # f
        PROVE  MailboxOf(g)'
    BY <1>1, <1>5, <2>2 DEF DrainDone, MailboxInv, MailboxOf, On, Waits, TypeOK
  <2>. QED BY <1>2, <2>1, <2>2 DEF MailboxInv
<1>6. CASE DrainYield(f)
  <2>. DEFINE more == Tail(queue[f]) # <<>>
              extra == IF more THEN 1 ELSE 0
  <2>0. queue' = [queue EXCEPT ![f] = Tail(@)] /\ running' = [running EXCEPT ![f] = more]
        /\ tasks' = [tasks EXCEPT ![f] = @ + extra]
    BY <1>6 DEF DrainYield, Popped
  <2>1. MailboxOf(f)'
    <3>1. queue'[f] = Tail(queue[f]) /\ running'[f] = more /\ pc'[f] = "out"
          /\ tasks'[f] = tasks[f] + extra
      <4>. HIDE DEF more, extra
      <4>. QED BY <1>1, <2>0 DEF TypeOK
    <3>2. extra \in {0, 1} /\ (more <=> extra = 1)
      OBVIOUS
    <3>3. tasks'[f] <= 2 /\ (more => tasks'[f] > 0) /\ (~more => tasks'[f] <= 1)
      <4>. HIDE DEF more, extra
      <4>. QED BY <1>4, <3>1, <3>2
    <3>. QED BY <3>1, <3>3 DEF MailboxOf, On, Waits
  <2>2. ASSUME NEW g \in Fiber, g # f
        PROVE  MailboxOf(g)'
    BY <1>1, <2>0, <2>2 DEF MailboxInv, MailboxOf, On, Waits, TypeOK
  <2>. QED BY <1>2, <2>1, <2>2 DEF MailboxInv
<1>. QED BY <1>5, <1>6

(* The steps of a fiber that stays on the thread and tells messages.        *)
LEMMA MailboxMessages ==
  ASSUME TypeOK, MailboxInv, NEW f \in Fiber,
         \/ DrainInterrupt(f) \/ DrainStateful(f) \/ LoopStateful(f) \/ LoopInterrupt(f)
         \/ DrainResume(f)
  PROVE  MailboxInv'
<1>1. At(f, "drain") \/ At(f, "loop")
  BY DEF DrainInterrupt, DrainStateful, LoopStateful, LoopInterrupt, DrainResume, Stateful1, Next1
<1>2. On(f) /\ \A g \in Fiber : Popped(f)[g] = queue[g] \/ On(g)
  BY <1>1, Holds DEF Label
<1>3. CASE DrainResume(f)
  <2>1. SamePlaces
    BY <1>2, <1>3, Moves DEF DrainResume, Evaluate
  <2>. QED BY <1>2, <1>3, <2>1, Silent DEF DrainResume
<1>4. CASE DrainInterrupt(f)
  <2>1. SamePlaces
    BY <1>2, <1>4, Moves DEF DrainInterrupt, control
  <2>. QED BY <1>2, <1>4, <2>1, AllTold DEF DrainInterrupt
<1>5. ASSUME NEW label, Stateful1(f, label)
      PROVE  MailboxInv'
  <2>1. SamePlaces
    BY <1>2, <1>5, Moves DEF Stateful1, control
  <2>. QED BY <1>2, <1>5, <2>1, AllTold DEF Stateful1, Handle
<1>6. CASE LoopInterrupt(f)
  <2>1. SamePlaces
    BY <1>2, <1>6, Moves DEF LoopInterrupt, control
  <2>. QED BY <1>2, <1>6, <2>1, AllTold DEF LoopInterrupt
<1>. QED BY <1>3, <1>4, <1>5, <1>6 DEF DrainStateful, LoopStateful

(* Taking up a primitive tells nobody and takes no message.                  *)
LEMMA MailboxLoop ==
  ASSUME TypeOK, MailboxInv, NEW f \in Fiber, BeginOp(f) \/ Preempt(f)
  PROVE  MailboxInv'
<1>1. On(f)
  BY DEF BeginOp, Preempt, At, On
<1>2. SamePlaces
  BY <1>1, Moves DEF BeginOp, Preempt, Label
<1>. QED BY <1>2, Silent DEF BeginOp, Preempt, mailbox

(* A user operation tells its messages and stays on the call stack.          *)
LEMMA MailboxUser ==
  ASSUME TypeOK, MailboxInv, NEW f \in Fiber, UserOp(f)
  PROVE  MailboxInv'
<1>1. On(f)
  BY DEF UserOp, UserSucceed, UserFail, UserOnExit, UserYield, UserFrame, UserFlags,
         UserAsync, UserAwait, UserInterrupt, UserFork, UserCallback, OpAt, At, On
<1>2. CASE UserSucceed(f) \/ UserFail(f) \/ UserOnExit(f) \/ UserYield(f)
  BY <1>1, <1>2, Moves, Silent
     DEF UserSucceed, UserFail, UserOnExit, UserYield, Pure, mailbox
<1>3. ASSUME NEW kind, UserFrame(f, kind) PROVE MailboxInv'
  BY <1>1, <1>3, Moves, Silent DEF UserFrame, Pure, mailbox
<1>4. ASSUME NEW to, UserFlags(f, to) PROVE MailboxInv'
  BY <1>1, <1>4, Moves, Silent DEF UserFlags, UpdateFlags, Pure, mailbox
<1>5. ASSUME NEW st, UserAsync(f, st) PROVE MailboxInv'
  BY <1>1, <1>5, Moves, Silent DEF UserAsync, mailbox
<1>6. ASSUME NEW g, UserAwait(f, g) PROVE MailboxInv'
  <2>1. SamePlaces
    BY <1>1, <1>6, Moves DEF UserAwait, Await
  <2>. QED BY <1>6, <2>1, AllTold DEF UserAwait, Await
<1>7. ASSUME NEW g, UserInterrupt(f, g) PROVE MailboxInv'
  <2>1. SamePlaces
    BY <1>1, <1>7, Moves DEF UserInterrupt, control
  <2>. QED BY <1>7, <2>1, AllTold DEF UserInterrupt
<1>8. ASSUME NEW c \in Fiber, NEW daemon, UserFork(f, c, daemon) PROVE MailboxInv'
  <2>. DEFINE msgs == [g \in Fiber |-> CASE g = c            -> <<Resume(AnyEffect)>>
                                         [] g = f /\ ~daemon -> <<AddChild(c)>>
                                         [] OTHER            -> <<>>]
  <2>1. /\ pc' = [pc EXCEPT ![c] = "out", ![f] = "loop"] /\ pc[c] = "unborn"
        /\ thread' = thread /\ caller' = caller
    BY <1>8 DEF UserFork
  <2>2. c # f /\ msgs[c] # <<>>
    BY <1>1, <2>1 DEF On
  <2>3. Deliver(queue, msgs)
    BY <1>8 DEF UserFork
  <2>. HIDE DEF msgs
  <2>4. OnThread'
    BY <1>1, <2>1, <2>2 DEF MailboxInv, OnThread, On, TypeOK
  <2>5. ASSUME NEW g \in Fiber
        PROVE  MailboxOf(g)'
    <3>1. SamePlace(g) \/ (g = c /\ pc'[g] = "out")
      BY <1>1, <2>1, <2>2 DEF SamePlace, On, TypeOK
    <3>. QED BY <2>1, <2>2, <2>3, <3>1, Told DEF MailboxInv
  <2>. QED BY <2>4, <2>5 DEF MailboxInv
<1>9. ASSUME NEW g, NEW i, UserCallback(f, g, i) PROVE MailboxInv'
  <2>1. SamePlaces
    BY <1>1, <1>9, Moves DEF UserCallback, control
  <2>. QED BY <1>9, <2>1, AllTold DEF UserCallback
<1>. QED BY <1>2, <1>3, <1>4, <1>5, <1>6, <1>7, <1>8, <1>9 DEF UserOp

(* So does a primitive.                                                      *)
LEMMA MailboxPrimitive ==
  ASSUME TypeOK, MailboxInv, NEW f \in Fiber, Primitive(f)
  PROVE  MailboxInv'
<1>1. On(f)
  BY DEF Primitive, OpOnExit, OpGuard, OpRestore, OpAsync, OpYield, OpWind, SkipFrame,
         SuccessHandler, FailureHandler, RevertFrame, UserFinalizer, AwaitCanceler,
         EndLoop, Meets, OpAt, At, On
<1>2. CASE OpOnExit(f) \/ OpGuard(f) \/ OpRestore(f)
  BY <1>1, <1>2, Moves, Silent DEF OpOnExit, OpGuard, OpRestore, UpdateFlags, Pure, mailbox
<1>3. CASE OpAsync(f)
  <2>1. SamePlaces
    BY <1>1, <1>3, Moves DEF OpAsync, Label
  <2>. QED BY <1>3, <2>1, AllTold DEF OpAsync
<1>4. CASE OpYield(f)
  <2>1. SamePlaces
    BY <1>1, <1>4, Moves DEF OpYield, Label
  <2>. QED BY <1>4, <2>1, AllTold, Silent DEF OpYield, mailbox
<1>5. CASE OpWind(f)
  <2>1. SamePlaces
    BY <1>1, <1>5, Moves DEF OpWind, Await
  <2>. QED BY <1>5, <2>1, AllTold, Silent DEF OpWind, Await, mailbox
<1>6. CASE SkipFrame(f) \/ EndLoop(f)
  BY <1>1, <1>6, Moves, Silent DEF SkipFrame, EndLoop, Pure, mailbox, Label
<1>7. CASE SuccessHandler(f) \/ FailureHandler(f)
  BY <1>1, <1>7, Moves, Silent DEF SuccessHandler, FailureHandler, Pure, mailbox
<1>8. CASE RevertFrame(f) \/ UserFinalizer(f)
  BY <1>1, <1>8, Moves, Silent DEF RevertFrame, UserFinalizer, Pure, mailbox
<1>9. CASE AwaitCanceler(f)
  <2>1. SamePlaces
    BY <1>1, <1>9, Moves DEF AwaitCanceler
  <2>. QED BY <1>9, <2>1, AllTold DEF AwaitCanceler
<1>. QED BY <1>2, <1>3, <1>4, <1>5, <1>6, <1>7, <1>8, <1>9 DEF Primitive

(* So does the end of an evaluation; a fiber that goes back to its queue is  *)
(* still on the call stack.                                                  *)
LEMMA MailboxExit ==
  ASSUME TypeOK, MailboxInv, NEW f \in Fiber,
         WindDownChildren(f) \/ ExitLater(f) \/ SetExit(f)
  PROVE  MailboxInv'
<1>1. On(f)
  BY DEF WindDownChildren, ExitLater, SetExit, At, On
<1>2. SamePlaces
  BY <1>1, Moves DEF WindDownChildren, ExitLater, SetExit, Label
<1>. QED BY <1>2, AllTold DEF WindDownChildren, ExitLater, SetExit

(* What happens outside any fiber only tells messages, or begins a fiber     *)
(* with a drain scheduled.                                                   *)
LEMMA MailboxOutside ==
  ASSUME TypeOK, MailboxInv, NEW f \in Fiber,
         \/ StartLater(f) \/ ExternalInterrupt(f)
         \/ \E i \in DOMAIN asyncs[f] : ExternalCallback(f, i)
  PROVE  MailboxInv'
<1>1. CASE StartLater(f)
  <2>1. pc' = [pc EXCEPT ![f] = "out"] /\ pc[f] = "unborn" /\ thread' = thread
        /\ caller' = caller /\ Deliver(queue, To(f, Resume(AnyEffect)))
    BY <1>1 DEF StartLater, Goto
  <2>2. OnThread'
    BY <2>1 DEF MailboxInv, OnThread, On, TypeOK
  <2>3. To(f, Resume(AnyEffect))[f] # <<>>
    BY DEF To, NoMail
  <2>4. ASSUME NEW g \in Fiber
        PROVE  MailboxOf(g)'
    <3>1. SamePlace(g) \/ (g = f /\ pc'[g] = "out")
      BY <2>1 DEF SamePlace, TypeOK
    <3>. QED BY <2>1, <2>3, <3>1, Told DEF MailboxInv
  <2>. QED BY <2>2, <2>4 DEF MailboxInv
<1>2. ASSUME control' = control
      PROVE  SamePlaces
  BY <1>2 DEF control, SamePlaces, SamePlace
<1>3. CASE ExternalInterrupt(f)
  BY <1>2, <1>3, AllTold DEF ExternalInterrupt
<1>4. ASSUME NEW i, ExternalCallback(f, i) PROVE MailboxInv'
  BY <1>2, <1>4, AllTold DEF ExternalCallback
<1>. QED BY <1>1, <1>3, <1>4

(* Every step keeps it: a fiber with mail is on the call stack or has a      *)
(* drain scheduled.                                                          *)
LEMMA MailboxNext == TypeOK /\ MailboxInv /\ [Next]_vars => MailboxInv'
<1>. SUFFICES ASSUME TypeOK, MailboxInv, [Next]_vars PROVE MailboxInv'
  OBVIOUS
<1>1. CASE UNCHANGED vars
  BY <1>1, Silent DEF vars, mailbox, control, SamePlaces, SamePlace
<1>2. CASE Outside
  BY <1>2, MailboxStart, MailboxOutside DEF Outside
<1>3. ASSUME NEW f \in Fiber, RunTask(f) PROVE MailboxInv'
  BY <1>3, MailboxRunTask
<1>4. ASSUME NEW f \in Fiber, Step(f) PROVE MailboxInv'
  BY <1>4, MailboxDrainEnds, MailboxMessages, MailboxLoop, MailboxUser, MailboxPrimitive,
     MailboxExit, MailboxReturn DEF Step
<1>. QED BY <1>1, <1>2, <1>3, <1>4 DEF Next

(* The strengthened invariant: in every place a fiber can be, the drains      *)
(* scheduled for it are those that its inbox and _running call for.         *)
THEOREM MailboxCorrect == Spec => []MailboxInv
<1>1. Init => MailboxInv
  BY MailboxInit
<1>2. TypeOK /\ MailboxInv /\ [Next]_vars => MailboxInv'
  BY MailboxNext
<1>. QED BY <1>1, <1>2, TypeCorrect, PTL DEF Spec

(* A fiber off the thread with messages in its inbox, or one that believes   *)
(* it is running, has a drain scheduled: nothing told to it is forgotten.   *)
THEOREM NothingStranded == Spec => []NoStrandedMessage
<1>1. MailboxInv => NoStrandedMessage
  BY DEF MailboxInv, MailboxOf, NoStrandedMessage, Waits
<1>. QED BY <1>1, MailboxCorrect, PTL

(* A fiber never has more than two drains scheduled, whoever tells it what.  *)
THEOREM FewDrains == Spec => []DrainsBounded
<1>1. TypeOK /\ MailboxInv => DrainsBounded
  <2>. SUFFICES ASSUME TypeOK, MailboxInv, NEW f \in Fiber PROVE tasks[f] <= 2
    BY DEF DrainsBounded
  <2>1. tasks[f] \in Nat /\ caller[f] \in {"run", "start"}
    BY DEF TypeOK
  <2>2. MailboxOf(f)
    BY DEF MailboxInv
  <2>3. CASE On(f)
    <3>1. tasks[f] <= 1 \/ tasks[f] = 0
      BY <2>1, <2>2, <2>3 DEF MailboxOf
    <3>. QED BY <2>1, <3>1
  <2>4. CASE ~On(f)
    <3>1. tasks[f] <= 1 \/ tasks[f] <= 2
      BY <2>2, <2>4 DEF MailboxOf, On
    <3>. QED BY <2>1, <3>1
  <2>. QED BY <2>3, <2>4
<1>. QED BY <1>1, MailboxCorrect, TypeCorrect, PTL

-----------------------------------------------------------------------------
(***************************************************************************)
(* An interrupted fiber runs nothing.            *)
(*                                                                         *)
(* InterruptedRunsNothing speaks of a fiber about to execute a primitive.  *)
(* It is inductive once the same is known at the top of the run loop, and  *)
(* once a fiber that does not exist yet is known not to be interrupted.    *)
(***************************************************************************)

StopsAt(g) ==
  /\ pc[g] \in {"loop", "op"} /\ MustStop(g) => IsFailure(cur[g])
  /\ pc[g] = "unborn" => ~interrupted[g]

InterruptInv == \A g \in Fiber : StopsAt(g)

(* What a step does to a fiber it is not about.                             *)
SameRun(g) ==
  /\ pc'[g] = pc[g] /\ cur'[g] = cur[g]
  /\ interruption'[g] = interruption[g] /\ windDown'[g] = windDown[g]
  /\ interrupted'[g] = interrupted[g]

(* A fiber of whose run nothing changes still stops at its interruption.     *)
LEMMA Undisturbed ==
  ASSUME NEW g \in Fiber, StopsAt(g), SameRun(g)
  PROVE  StopsAt(g)'
BY DEF StopsAt, SameRun, MustStop, Interruptible, IsFailure

(* A fiber that is neither looping nor executing a primitive stops nothing.  *)
LEMMA StopsElsewhere ==
  ASSUME NEW g \in Fiber, StopsAt(g),
         pc'[g] \in {"out", "drain", "exit", "leave"}
  PROVE  StopsAt(g)'
BY DEF StopsAt

(* A fiber that loops on with its flags.                                    *)
LEMMA StopsLater ==
  ASSUME NEW g \in Fiber, StopsAt(g), pc'[g] \in {"loop", "op"},
         interruption'[g] = interruption[g], windDown'[g] = windDown[g],
         interrupted'[g] = interrupted[g],
         MustStop(g) => IsFailure(cur'[g])
  PROVE  StopsAt(g)'
BY DEF StopsAt, MustStop, Interruptible, IsFailure

-----------------------------------------------------------------------------
(* The actions, one by one.                                                 *)

LEMMA InterruptThread ==
  ASSUME TypeOK, InterruptInv, NEW f \in Fiber, NEW g \in Fiber,
         RunTask(f) \/ Start(f) \/ StartLater(f) \/ Return(f)
  PROVE  StopsAt(g)'
<1>0. StopsAt(g)
  BY DEF InterruptInv
<1>1. CASE RunTask(f) \/ StartLater(f) \/ Return(f)
  <2>1. SameRun(g) \/ pc'[g] \in {"out", "drain"}
    BY <1>1 DEF RunTask, StartLater, Return, Goto, Evaluation, SameRun, TypeOK
  <2>. QED BY <1>0, <2>1, Undisturbed, StopsElsewhere
<1>2. CASE Start(f)
  <2>0. pc[f] = "unborn" /\ UNCHANGED <<interruption, windDown, interrupted>>
    BY <1>2 DEF Start, flags
  <2>1. ~interrupted[f]
    BY <2>0 DEF InterruptInv, StopsAt
  <2>2. CASE Idle
    BY <1>0, <1>2, <2>0, <2>1, <2>2
       DEF Start, Evaluate, Loop, Goto, MustStop, StopsAt, Interruptible, TypeOK
  <2>3. CASE ~Idle
    <3>. DEFINE h == Head(thread)
    <3>1. h \in Fiber /\ pc[h] = "op" /\ ~IsFailure(cur[h])
          /\ pc' = [pc EXCEPT ![f] = "loop"] /\ cur' = [cur EXCEPT ![f] = AnyEffect, ![h] = Succ]
      <4>1. thread \in Seq(Fiber) /\ thread # <<>>
        BY <2>3 DEF TypeOK, Idle
      <4>2. h \in Fiber
        BY <4>1
      <4>3. OpAt(h, "any") /\ Goto(f, "loop") /\ cur' = [cur EXCEPT ![f] = AnyEffect, ![h] = Succ]
        BY <1>2, <2>3 DEF Start
      <4>. QED BY <4>2, <4>3 DEF OpAt, At, Goto, IsFailure
    <3>2. ~MustStop(h)
      BY <3>1 DEF InterruptInv, StopsAt
    <3>. HIDE DEF h
    <3>3. CASE g = f
      BY <1>0, <2>0, <2>1, <3>1, <3>3 DEF StopsAt, MustStop, TypeOK
    <3>4. CASE g = h /\ g # f
      BY <1>0, <2>0, <3>1, <3>2, <3>4, StopsLater DEF TypeOK
    <3>5. CASE g # h /\ g # f
      BY <1>0, <2>0, <3>1, <3>5, Undisturbed DEF SameRun, TypeOK
    <3>. QED BY <3>3, <3>4, <3>5
  <2>. QED BY <2>2, <2>3
<1>. QED BY <1>1, <1>2

(* Handling a message keeps StopsAt: the signal itself turns an              *)
(* interruptible run into the interruption.                                  *)
LEMMA InterruptDrain ==
  ASSUME TypeOK, InterruptInv, NEW f \in Fiber, NEW g \in Fiber, NEW label,
         \/ DrainDone(f) \/ DrainYield(f) \/ DrainInterrupt(f) \/ DrainResume(f)
         \/ Stateful1(f, label)
  PROVE  StopsAt(g)'
<1>0. StopsAt(g)
  BY DEF InterruptInv
<1>1. CASE DrainDone(f) \/ DrainYield(f) \/ Stateful1(f, label)
  <2>1. SameRun(g) \/ pc'[g] \in {"out", "drain"}
    BY <1>1 DEF DrainDone, DrainYield, Stateful1, Goto, Evaluation, control, SameRun, TypeOK
  <2>. QED BY <1>0, <2>1, Undisturbed, StopsElsewhere
<1>2. CASE DrainInterrupt(f)
  <2>1. SameRun(g) \/ pc'[g] \in {"out", "drain"}
    BY <1>2 DEF DrainInterrupt, Next1, At, Evaluation, control, SameRun, TypeOK
  <2>. QED BY <1>0, <2>1, Undisturbed, StopsElsewhere
<1>3. CASE DrainResume(f)
  <2>1. /\ cur' = [cur EXCEPT ![f] = IF MustStop(f) THEN InterruptCause ELSE Head(queue[f]).eff]
        /\ pc' = [pc EXCEPT ![f] = "loop"] /\ UNCHANGED <<interruption, windDown, interrupted>>
    BY <1>3 DEF DrainResume, Evaluate, Loop, Goto, flags
  <2>2. CASE g = f
    BY <1>0, <2>1, <2>2, StopsLater DEF TypeOK, InterruptCause, Failed, IsFailure
  <2>3. CASE g # f
    BY <1>0, <2>1, <2>3, Undisturbed DEF SameRun, TypeOK
  <2>. QED BY <2>2, <2>3
<1>. QED BY <1>1, <1>2, <1>3

(* Taking up a primitive keeps StopsAt.                                      *)
LEMMA InterruptLoop ==
  ASSUME TypeOK, InterruptInv, NEW f \in Fiber, NEW g \in Fiber,
         LoopInterrupt(f) \/ BeginOp(f) \/ Preempt(f)
  PROVE  StopsAt(g)'
<1>0. StopsAt(g)
  BY DEF InterruptInv
<1>1. CASE LoopInterrupt(f)
  BY <1>0, <1>1
     DEF LoopInterrupt, Next1, At, StopsAt, MustStop, Interruptible, IsFailure,
         InterruptCause, Failed, control, flags, TypeOK
<1>2. CASE BeginOp(f)
  BY <1>0, <1>2
     DEF BeginOp, At, Goto, StopsAt, MustStop, Interruptible, IsFailure, Evaluation, TypeOK
<1>3. CASE Preempt(f)
  BY <1>0, <1>3
     DEF Preempt, At, Goto, StopsAt, MustStop, Interruptible, IsFailure, InterruptCause,
         Failed, flags, TypeOK
<1>. QED BY <1>1, <1>2, <1>3

(* A primitive other than a failure is executed by a fiber that need not     *)
(* stop, so whatever it loops on with is allowed.                           *)
LEMMA FreeToRun ==
  ASSUME InterruptInv, NEW f \in Fiber, pc[f] = "op", ~IsFailure(cur[f])
  PROVE  ~MustStop(f)
BY DEF InterruptInv, StopsAt

(* A change of flags with UpdateFlags short-circuits the interruption.      *)
LEMMA FlagsStop ==
  ASSUME TypeOK, NEW f \in Fiber, NEW g \in Fiber, StopsAt(g),
         NEW to \in BOOLEAN, NEW body, UpdateFlags(f, to, body),
         UNCHANGED <<windDown, interrupted>>, pc[f] = "op"
  PROVE  StopsAt(g)'
BY DEF UpdateFlags, Loop, Goto, StopsAt, MustStop, Interruptible, IsFailure,
       InterruptCause, Failed, TypeOK

(* A user operation keeps StopsAt: it is taken only by a run that nothing    *)
(* interrupts.                                                               *)
LEMMA InterruptUser ==
  ASSUME TypeOK, InterruptInv, NEW f \in Fiber, NEW g \in Fiber, UserOp(f)
  PROVE  StopsAt(g)'
<1>0. StopsAt(g)
  BY DEF InterruptInv
<1>1. pc[f] = "op" /\ ~IsFailure(cur[f])
  BY DEF UserOp, UserSucceed, UserFail, UserOnExit, UserYield, UserFrame, UserFlags,
         UserAsync, UserAwait, UserInterrupt, UserFork, UserCallback, OpAt, At, IsFailure
<1>2. ~MustStop(f)
  BY <1>1, FreeToRun
<1>3. ASSUME UNCHANGED <<interruption, windDown, interrupted>>,
             (\E e : Loop(f, e)) \/ (SyncDone(f) /\ pc' = pc)
      PROVE  StopsAt(g)'
  <2>1. CASE g = f
    BY <1>0, <1>1, <1>2, <1>3, <2>1, StopsLater DEF Loop, Goto, SyncDone, TypeOK
  <2>2. CASE g # f
    BY <1>0, <1>3, <2>2, Undisturbed DEF SameRun, Loop, Goto, SyncDone, TypeOK
  <2>. QED BY <2>1, <2>2
<1>4. CASE UserSucceed(f) \/ UserFail(f) \/ UserOnExit(f) \/ UserYield(f)
  BY <1>3, <1>4 DEF UserSucceed, UserFail, UserOnExit, UserYield, Pure
<1>5. ASSUME NEW kind, UserFrame(f, kind) PROVE StopsAt(g)'
  BY <1>3, <1>5 DEF UserFrame, Pure
<1>6. ASSUME NEW to \in BOOLEAN, UserFlags(f, to) PROVE StopsAt(g)'
  BY <1>0, <1>1, <1>6, FlagsStop DEF UserFlags, Pure
<1>7. ASSUME NEW st, UserAsync(f, st) PROVE StopsAt(g)'
  BY <1>3, <1>7 DEF UserAsync, flags
<1>8. ASSUME NEW x, UserAwait(f, x) PROVE StopsAt(g)'
  BY <1>3, <1>8 DEF UserAwait, Await, flags
<1>9. ASSUME NEW x, UserInterrupt(f, x) PROVE StopsAt(g)'
  BY <1>3, <1>9 DEF UserInterrupt, flags, control
<1>10. ASSUME NEW x, NEW i, UserCallback(f, x, i) PROVE StopsAt(g)'
  BY <1>3, <1>10 DEF UserCallback, flags, control
<1>11. ASSUME NEW c \in Fiber, NEW daemon, UserFork(f, c, daemon) PROVE StopsAt(g)'
  <2>1. /\ pc[c] = "unborn" /\ pc' = [pc EXCEPT ![c] = "out", ![f] = "loop"]
        /\ cur' = [cur EXCEPT ![f] = Succ] /\ interrupted' = interrupted
        /\ interruption' = [interruption EXCEPT ![c] = interruption[f]]
        /\ windDown' = [windDown EXCEPT ![c] = windDown[f]]
    BY <1>11 DEF UserFork
  <2>2. CASE g = c
    BY <1>0, <1>1, <2>1, <2>2, StopsElsewhere DEF TypeOK
  <2>3. CASE g = f /\ g # c
    BY <1>0, <1>2, <2>1, <2>3, StopsLater DEF TypeOK
  <2>4. CASE g # f /\ g # c
    BY <1>0, <2>1, <2>4, Undisturbed DEF SameRun, TypeOK
  <2>. QED BY <2>2, <2>3, <2>4
<1>. QED BY <1>4, <1>5, <1>6, <1>7, <1>8, <1>9, <1>10, <1>11 DEF UserOp

(* A primitive keeps StopsAt: one that makes the run interruptible again     *)
(* looks at the pending interruption.                                        *)
LEMMA InterruptPrimitive ==
  ASSUME TypeOK, InterruptInv, NEW f \in Fiber, NEW g \in Fiber, Primitive(f)
  PROVE  StopsAt(g)'
<1>0. StopsAt(g)
  BY DEF InterruptInv
<1>1. pc[f] = "op"
  BY DEF Primitive, OpOnExit, OpGuard, OpRestore, OpAsync, OpYield, OpWind, SkipFrame,
         SuccessHandler, FailureHandler, RevertFrame, UserFinalizer, AwaitCanceler,
         EndLoop, Meets, OpAt, At
<1>2. ASSUME UNCHANGED <<interruption, windDown, interrupted>>, NEW e, Loop(f, e),
             MustStop(f) => IsFailure(e)
      PROVE  StopsAt(g)'
  <2>1. CASE g = f
    BY <1>0, <1>2, <2>1, StopsLater DEF Loop, Goto, TypeOK
  <2>2. CASE g # f
    BY <1>0, <1>2, <2>2, Undisturbed DEF SameRun, Loop, Goto, TypeOK
  <2>. QED BY <2>1, <2>2
<1>3. CASE OpOnExit(f) \/ OpRestore(f)
  <2>1. OpRestore(f) => cur[f].to \in BOOLEAN
    BY EffectFields DEF OpRestore, OpAt, TypeOK
  <2>. QED BY <1>0, <1>1, <1>3, <2>1, FlagsStop DEF OpOnExit, OpRestore, Pure
<1>4. CASE OpGuard(f) \/ OpWind(f) \/ SuccessHandler(f) \/ OpYield(f)
  <2>1. ~IsFailure(cur[f])
    BY <1>4 DEF OpGuard, OpWind, SuccessHandler, OpYield, Meets, OpAt, IsFailure
  <2>2. ~MustStop(f)
    BY <1>1, <2>1, FreeToRun
  <2>3. CASE OpYield(f) /\ CooperativeYielding
    <3>1. SameRun(g) \/ pc'[g] = "leave"
      BY <2>3 DEF OpYield, Goto, flags, SameRun, TypeOK
    <3>. QED BY <1>0, <3>1, Undisturbed, StopsElsewhere
  <2>4. CASE ~(OpYield(f) /\ CooperativeYielding)
    BY <1>2, <1>4, <2>2, <2>4
       DEF OpGuard, OpWind, Await, SuccessHandler, OpYield, Pure, flags
  <2>. QED BY <2>3, <2>4
<1>5. CASE OpAsync(f) \/ EndLoop(f)
  <2>1. SameRun(g) \/ pc'[g] \in {"leave", "exit"}
    BY <1>5 DEF OpAsync, EndLoop, Goto, Pure, Evaluation, SameRun, TypeOK
  <2>. QED BY <1>0, <2>1, Undisturbed, StopsElsewhere
<1>6. CASE SkipFrame(f)
  <2>1. SameRun(g)
    BY <1>6 DEF SkipFrame, Pure, SameRun
  <2>. QED BY <1>0, <2>1, Undisturbed
<1>7. CASE FailureHandler(f)
  BY <1>2, <1>7 DEF FailureHandler, Pure, IsFailure, Failed
<1>8. CASE RevertFrame(f)
  <2>1. Top(f).to \in BOOLEAN
    BY <1>8, FrameFields DEF RevertFrame, Meets, Top, TypeOK
  <2>. DEFINE stop == Top(f).to /\ ~windDown[f] /\ interrupted[f]
              e == CASE stop /\ IsFailure(cur[f]) -> Failed(cur[f].cause \cup {"int"})
                     [] stop /\ ~IsFailure(cur[f]) -> InterruptCause
                     [] OTHER                     -> cur[f]
  <2>2. /\ Loop(f, e) /\ interruption' = [interruption EXCEPT ![f] = Top(f).to]
        /\ UNCHANGED <<windDown, interrupted>>
    BY <1>8 DEF RevertFrame, Pure
  <2>3. stop => IsFailure(e)
    BY DEF IsFailure, InterruptCause, Failed
  <2>. HIDE DEF e
  <2>4. CASE g = f
    BY <2>1, <2>2, <2>3, <2>4, <1>0
       DEF Loop, Goto, StopsAt, MustStop, Interruptible, IsFailure, TypeOK
  <2>5. CASE g # f
    BY <1>0, <2>2, <2>5, Undisturbed DEF SameRun, Loop, Goto, TypeOK
  <2>. QED BY <2>4, <2>5
<1>9. CASE UserFinalizer(f)
  <2>1. IsFailure(cur[f]) \/ ~MustStop(f)
    BY <1>1, FreeToRun
  <2>. QED BY <1>2, <1>9, <2>1 DEF UserFinalizer, Pure, IsFailure, Failed
<1>10. CASE AwaitCanceler(f)
  <2>1. IsFailure(cur[f]) \/ ~MustStop(f)
    BY <1>1, FreeToRun
  <2>. QED BY <1>2, <1>10, <2>1 DEF AwaitCanceler, flags, IsFailure, Failed
<1>. QED BY <1>3, <1>4, <1>5, <1>6, <1>7, <1>8, <1>9, <1>10 DEF Primitive

(* The end of an evaluation keeps StopsAt.                                   *)
LEMMA InterruptExit ==
  ASSUME TypeOK, InterruptInv, NEW f \in Fiber, NEW g \in Fiber,
         WindDownChildren(f) \/ ExitLater(f) \/ SetExit(f)
  PROVE  StopsAt(g)'
<1>0. StopsAt(g)
  BY DEF InterruptInv
<1>1. CASE ExitLater(f) \/ SetExit(f)
  <2>1. SameRun(g) \/ pc'[g] = "leave"
    BY <1>1 DEF ExitLater, SetExit, Goto, Evaluation, SameRun, TypeOK
  <2>. QED BY <1>0, <2>1, Undisturbed, StopsElsewhere
<1>2. CASE WindDownChildren(f)
  <2>1. /\ windDown' = [windDown EXCEPT ![f] = TRUE] /\ Loop(f, Wind)
        /\ UNCHANGED <<interruption, interrupted>>
    BY <1>2 DEF WindDownChildren
  <2>2. CASE g = f
    BY <1>0, <2>1, <2>2 DEF Loop, Goto, StopsAt, MustStop, Interruptible, TypeOK
  <2>3. CASE g # f
    BY <1>0, <2>1, <2>3, Undisturbed DEF SameRun, Loop, Goto, TypeOK
  <2>. QED BY <2>2, <2>3
<1>. QED BY <1>1, <1>2

(* Every step keeps StopsAt of every fiber.                                  *)
LEMMA InterruptNext == TypeOK /\ InterruptInv /\ [Next]_vars => InterruptInv'
<1>. SUFFICES ASSUME TypeOK, InterruptInv, [Next]_vars, NEW g \in Fiber PROVE StopsAt(g)'
  BY DEF InterruptInv
<1>0. StopsAt(g)
  BY DEF InterruptInv
<1>1. CASE UNCHANGED vars
  BY <1>0, <1>1, Undisturbed DEF vars, control, flags, SameRun
<1>2. CASE Outside
  <2>1. CASE \E f \in Fiber : Start(f) \/ StartLater(f)
    BY <2>1, InterruptThread
  <2>2. CASE \E f \in Fiber : ExternalInterrupt(f) \/ \E i \in DOMAIN asyncs[f] : ExternalCallback(f, i)
    BY <1>0, <2>2, Undisturbed
       DEF ExternalInterrupt, ExternalCallback, control, Evaluation, SameRun
  <2>. QED BY <1>2, <2>1, <2>2 DEF Outside
<1>3. ASSUME NEW f \in Fiber, RunTask(f) PROVE StopsAt(g)'
  BY <1>3, InterruptThread
<1>4. ASSUME NEW f \in Fiber, Step(f) PROVE StopsAt(g)'
  BY <1>4, InterruptThread, InterruptDrain, InterruptLoop, InterruptUser, InterruptPrimitive,
     InterruptExit DEF Step, DrainStateful, LoopStateful
<1>. QED BY <1>1, <1>2, <1>3, <1>4 DEF Next

(* Once an interruption has been processed, a fiber whose region can be      *)
(* interrupted executes no primitive but the failure, for any fibers,        *)
(* programs and schedule.                                                   *)
THEOREM InterruptedStops == Spec => []InterruptedRunsNothing
<1>1. Init => InterruptInv
  BY DEF Init, InterruptInv, StopsAt
<1>2. TypeOK /\ InterruptInv /\ [Next]_vars => InterruptInv'
  BY InterruptNext
<1>3. InterruptInv => InterruptedRunsNothing
  BY DEF InterruptInv, StopsAt, InterruptedRunsNothing
<1>. QED BY <1>1, <1>2, <1>3, TypeCorrect, PTL DEF Spec

-----------------------------------------------------------------------------
(***************************************************************************)
(* Whom a fiber knows.                                                     *)
(*                                                                         *)
(* A fiber is only told of, awaits, interrupts and has as a child what was  *)
(* forked.  That is not inductive for one place alone: a name moves between *)
(* an inbox, an effect, the frames of a stack, the observers and _children, *)
(* so KnownInv says it of all of them at once.                             *)
(***************************************************************************)

(* Sequences: where the elements of a longer or a shorter one come from.    *)
LEMMA Pushed ==
  ASSUME NEW S, NEW s \in Seq(S), NEW r \in S
  PROVE  /\ <<r>> \o s \in Seq(S) /\ Len(<<r>> \o s) = Len(s) + 1
         /\ Head(<<r>> \o s) = r /\ (<<r>> \o s)[1] = r /\ Tail(<<r>> \o s) = s
         /\ \A j \in DOMAIN (<<r>> \o s) :
              j = 1 \/ (j - 1 \in DOMAIN s /\ (<<r>> \o s)[j] = s[j - 1])
         /\ \A j \in DOMAIN s : j + 1 \in DOMAIN (<<r>> \o s) /\ (<<r>> \o s)[j + 1] = s[j]
<1>1. <<r>> \in Seq(S) /\ Len(<<r>>) = 1 /\ <<r>>[1] = r
  OBVIOUS
<1>2. /\ <<r>> \o s \in Seq(S) /\ Len(<<r>> \o s) = Len(s) + 1
      /\ \A i \in 1..Len(s) + 1 : (<<r>> \o s)[i] = IF i <= 1 THEN <<r>>[i] ELSE s[i - 1]
  BY <1>1, ConcatProperties
<1>3. Head(<<r>> \o s) = r /\ Tail(<<r>> \o s) = s
  BY <1>1
<1>. QED BY <1>1, <1>2, <1>3

(* The tail of a sequence is the sequence moved one place forward.           *)
LEMMA Popping ==
  ASSUME NEW S, NEW s \in Seq(S), s # <<>>
  PROVE  /\ Tail(s) \in Seq(S) /\ Len(Tail(s)) = Len(s) - 1
         /\ Head(s) \in S /\ 1 \in DOMAIN s /\ Head(s) = s[1]
         /\ \A j \in DOMAIN Tail(s) : j + 1 \in DOMAIN s /\ Tail(s)[j] = s[j + 1]
         /\ \A j \in DOMAIN s : j = 1 \/ (j - 1 \in DOMAIN Tail(s) /\ Tail(s)[j - 1] = s[j])
<1>1. Len(s) \in Nat /\ Len(s) > 0 /\ DOMAIN s = 1..Len(s)
  OBVIOUS
<1>2. Tail(s) \in Seq(S) /\ Len(Tail(s)) = Len(s) - 1 /\ Head(s) = s[1] /\ Head(s) \in S
      /\ \A j \in 1..Len(s) - 1 : Tail(s)[j] = s[j + 1]
  OBVIOUS
<1>. QED BY <1>1, <1>2

(* The elements of a concatenation are those of the first sequence, then     *)
(* those of the second.                                                      *)
LEMMA Appended ==
  ASSUME NEW S, NEW a \in Seq(S), NEW b \in Seq(S)
  PROVE  /\ a \o b \in Seq(S) /\ Len(a \o b) = Len(a) + Len(b)
         /\ \A j \in DOMAIN (a \o b) :
              \/ j \in DOMAIN a /\ (a \o b)[j] = a[j]
              \/ j - Len(a) \in DOMAIN b /\ (a \o b)[j] = b[j - Len(a)]
         /\ \A j \in DOMAIN a : j \in DOMAIN (a \o b) /\ (a \o b)[j] = a[j]
         /\ \A j \in DOMAIN b : Len(a) + j \in DOMAIN (a \o b) /\ (a \o b)[Len(a) + j] = b[j]
<1>1. a \o b \in Seq(S) /\ Len(a \o b) = Len(a) + Len(b)
      /\ \A i \in 1..Len(a) + Len(b) : (a \o b)[i] = IF i <= Len(a) THEN a[i] ELSE b[i - Len(a)]
  BY ConcatProperties
<1>2. Len(a) \in Nat /\ Len(b) \in Nat /\ DOMAIN a = 1..Len(a) /\ DOMAIN b = 1..Len(b)
      /\ DOMAIN (a \o b) = 1..Len(a) + Len(b)
  BY <1>1
<1>3. ASSUME NEW j \in DOMAIN b
      PROVE  Len(a) + j \in DOMAIN (a \o b) /\ (a \o b)[Len(a) + j] = b[j]
  <2>1. Len(a) + j \in 1..Len(a) + Len(b) /\ ~(Len(a) + j <= Len(a)) /\ Len(a) + j - Len(a) = j
    BY <1>2
  <2>. QED BY <1>1, <1>2, <2>1
<1>. QED BY <1>1, <1>2, <1>3

(* Concatenations of sequences of at most one element.                       *)
LEMMA Short ==
  ASSUME NEW S, NEW a \in S, NEW b \in S
  PROVE  /\ <<>> \o <<>> = <<>> /\ <<a>> \o <<>> = <<a>> /\ <<>> \o <<b>> = <<b>>
         /\ <<a>> \o <<b>> = <<a, b>>
<1>1. /\ <<>> \in Seq(S) /\ <<a>> \in Seq(S) /\ <<b>> \in Seq(S) /\ <<a, b>> \in Seq(S)
      /\ Len(<<a>>) = 1 /\ Len(<<b>>) = 1 /\ Len(<<a, b>>) = 2
      /\ <<a>>[1] = a /\ <<b>>[1] = b /\ <<a, b>>[1] = a /\ <<a, b>>[2] = b
  OBVIOUS
<1>2. <<>> \o <<>> = <<>> /\ <<a>> \o <<>> = <<a>> /\ <<>> \o <<b>> = <<b>>
  BY <1>1, ConcatEmptySeq
<1>3. <<a>> \o <<b>> = <<a, b>>
  <2>. DEFINE c == <<a>> \o <<b>>
  <2>1. /\ c \in Seq(S) /\ Len(c) = 2
        /\ \A i \in 1..2 : c[i] = IF i <= 1 THEN <<a>>[i] ELSE <<b>>[i - 1]
    BY <1>1, ConcatProperties
  <2>2. c[1] = a /\ c[2] = b
    BY <1>1, <2>1
  <2>. HIDE DEF c
  <2>3. \A i \in 1..Len(c) : c[i] = <<a, b>>[i]
    BY <1>1, <2>1, <2>2
  <2>4. c = <<a, b>>
    BY <1>1, <2>1, <2>3, SeqEqual
  <2>. QED BY <2>4 DEF c
<1>. QED BY <1>2, <1>3

(* Calling callbacks arms none, and creates none.                           *)
LEMMA FireShape ==
  ASSUME TypeOK, NEW S, Fire(S), NEW g \in Fiber
  PROVE  /\ asyncs'[g] \in Seq(AsyncState) /\ Len(asyncs'[g]) = Len(asyncs[g])
         /\ DOMAIN asyncs'[g] = DOMAIN asyncs[g]
         /\ \A i \in DOMAIN asyncs[g] :
              asyncs'[g][i] = IF <<g, i>> \in S THEN Fired(asyncs[g][i]) ELSE asyncs[g][i]
<1>1. asyncs'[g] \in Seq(AsyncState) /\ asyncs[g] \in Seq(AsyncState)
  BY FireType DEF TypeOK
<1>2. asyncs'[g] = [i \in DOMAIN asyncs[g] |-> IF <<g, i>> \in S THEN Fired(asyncs[g][i])
                                               ELSE asyncs[g][i]]
  BY Zenon DEF Fire
<1>3. /\ DOMAIN asyncs'[g] = DOMAIN asyncs[g]
      /\ \A i \in DOMAIN asyncs[g] :
              asyncs'[g][i] = IF <<g, i>> \in S THEN Fired(asyncs[g][i]) ELSE asyncs[g][i]
  BY <1>2, Zenon
<1>4. Len(asyncs'[g]) = Len(asyncs[g])
  BY <1>1, <1>3
<1>. QED BY <1>1, <1>3, <1>4

-----------------------------------------------------------------------------
(* A fiber once created stays created.                                      *)
Aged == \A x \in Fiber : Born(x) => pc'[x] # "unborn"

(* A step that leaves every pc, or sends one fiber to a label other than     *)
(* unborn, unbegins nobody.                                                  *)
LEMMA AgesTo ==
  ASSUME TypeOK, NEW f \in Fiber,
         \/ \E label \in Label \ {"unborn"} : Goto(f, label)
         \/ \E e : Loop(f, e)
         \/ pc' = pc
  PROVE  Aged
BY DEF Aged, Born, Goto, Loop, TypeOK

(* No step makes a fiber unborn again.                                       *)
LEMMA Ages ==
  ASSUME TypeOK, [Next]_vars
  PROVE  Aged
<1>. USE DEF Label
<1>1. CASE UNCHANGED vars
  BY <1>1 DEF vars, control, Aged, Born
<1>2. ASSUME NEW f \in Fiber,
             \/ Start(f) \/ StartLater(f) \/ ExternalInterrupt(f)
             \/ \E i \in DOMAIN asyncs[f] : ExternalCallback(f, i)
      PROVE  Aged
  BY <1>2, AgesTo DEF Start, Evaluate, Loop, StartLater, ExternalInterrupt, ExternalCallback, control
<1>3. ASSUME NEW f \in Fiber,
             \/ RunTask(f) \/ Return(f) \/ DrainDone(f) \/ DrainYield(f) \/ DrainInterrupt(f)
             \/ DrainResume(f) \/ DrainStateful(f) \/ LoopStateful(f)
      PROVE  Aged
  BY <1>3, AgesTo DEF RunTask, Return, DrainDone, DrainYield, DrainInterrupt, DrainResume,
     Evaluate, DrainStateful, LoopStateful, Stateful1, control
<1>4. ASSUME NEW f \in Fiber,
             \/ LoopInterrupt(f) \/ BeginOp(f) \/ Preempt(f)
             \/ WindDownChildren(f) \/ ExitLater(f) \/ SetExit(f)
      PROVE  Aged
  BY <1>4, AgesTo DEF LoopInterrupt, BeginOp, Preempt, WindDownChildren, ExitLater, SetExit, control
<1>5. ASSUME NEW f \in Fiber, UserOp(f)
      PROVE  Aged
  <2>1. ASSUME NEW c, NEW daemon, UserFork(f, c, daemon) PROVE Aged
    BY <2>1 DEF UserFork, Aged, Born, TypeOK
  <2>2. ASSUME NEW to, UserFlags(f, to) PROVE Aged
    BY <2>2, AgesTo DEF UserFlags, UpdateFlags
  <2>3. ASSUME \A c, daemon : ~UserFork(f, c, daemon), \A to : ~UserFlags(f, to) PROVE Aged
    BY <1>5, <2>3, AgesTo
       DEF UserOp, UserSucceed, UserFail, UserOnExit, UserYield, UserFrame,
           UserAsync, UserAwait, Await, UserInterrupt, UserCallback, control
  <2>. QED BY <2>1, <2>2, <2>3
<1>6. ASSUME NEW f \in Fiber, Primitive(f)
      PROVE  Aged
  <2>1. CASE OpOnExit(f) \/ OpGuard(f) \/ OpRestore(f) \/ OpAsync(f) \/ OpYield(f) \/ OpWind(f)
    BY <2>1, AgesTo DEF OpOnExit, OpGuard, OpRestore, UpdateFlags, OpAsync, OpYield, OpWind, Await
  <2>2. CASE SkipFrame(f) \/ SuccessHandler(f) \/ FailureHandler(f) \/ EndLoop(f)
    BY <2>2, AgesTo DEF SkipFrame, SuccessHandler, FailureHandler, EndLoop
  <2>3. CASE RevertFrame(f) \/ UserFinalizer(f) \/ AwaitCanceler(f)
    BY <2>3, AgesTo DEF RevertFrame, UserFinalizer, AwaitCanceler
  <2>. QED BY <1>6, <2>1, <2>2, <2>3 DEF Primitive
<1>. QED BY <1>1, <1>2, <1>3, <1>4, <1>5, <1>6 DEF Next, Outside, Step

-----------------------------------------------------------------------------
(* Whom a fiber knows: its children, those it awaits, those it was told of.  *)
Peers(e) ==
  IF e.k \in {"onExit", "guard", "restore"} /\ e.job # UserJob THEN {e.job.of} ELSE {}

FramePeers(r) ==
  CASE r.k = "final" -> IF r.job # UserJob THEN {r.job.of} ELSE {}
    [] r.k = "cont"  -> Peers(r.eff)
    [] OTHER         -> {}

Known(x) == x \in Fiber /\ Born(x)
Lives(x) == x \in Fiber /\ pc'[x] # "unborn"     \* known after the step

KnownMail(g) ==
  /\ pc[g] = "unborn" => queue[g] = <<>> /\ tasks[g] = 0 /\ Len(asyncs[g]) = 0
  /\ \A j \in DOMAIN queue[g] : queue[g][j].k = "addChild" => Known(queue[g][j].child)

KnownBody(g) ==
  /\ \A x \in children[g] \cup winding[g] \cup Peers(cur[g]) : Known(x)
  /\ \A j \in DOMAIN stack[g] : \A x \in FramePeers(stack[g][j]) : Known(x)

KnownInv == \A g \in Fiber : KnownMail(g) /\ KnownBody(g)

(* Messages that only fibers already created get, and that only name such.  *)
LEMMA MailKnown ==
  ASSUME TypeOK, Aged, NEW g \in Fiber, KnownMail(g), Len(asyncs'[g]) = Len(asyncs[g]) \/ Born(g),
         NEW q \in Mail, NEW msgs \in Mail, Deliver(q, msgs),
         q[g] = queue[g] \/ (q[g] = Tail(queue[g]) /\ queue[g] # <<>>),
         msgs[g] # <<>> => pc'[g] # "unborn",
         \A j \in DOMAIN msgs[g] : msgs[g][j].k = "addChild" => Lives(msgs[g][j].child)
  PROVE  KnownMail(g)'
<1>1. queue'[g] = q[g] \o msgs[g]
      /\ tasks'[g] = IF msgs[g] # <<>> /\ ~running[g] THEN tasks[g] + 1 ELSE tasks[g]
  BY DEF Deliver
<1>2. q[g] \in Seq(Message) /\ msgs[g] \in Seq(Message) /\ queue[g] \in Seq(Message)
  BY DEF Mail, TypeOK
<1>3. pc'[g] = "unborn" => queue'[g] = <<>> /\ tasks'[g] = 0 /\ Len(asyncs'[g]) = 0
  <2>. SUFFICES ASSUME pc'[g] = "unborn" PROVE queue'[g] = <<>> /\ tasks'[g] = 0 /\ Len(asyncs'[g]) = 0
    OBVIOUS
  <2>1. pc[g] = "unborn"
    BY DEF Aged, Born
  <2>2. queue[g] = <<>> /\ tasks[g] = 0 /\ Len(asyncs[g]) = 0 /\ msgs[g] = <<>> /\ q[g] = <<>>
    BY <2>1 DEF KnownMail
  <2>. QED BY <1>1, <2>1, <2>2 DEF Born
<1>4. ASSUME NEW j \in DOMAIN queue[g], queue[g][j].k = "addChild"
      PROVE  Lives(queue[g][j].child)
  BY <1>4 DEF KnownMail, Known, Lives, Aged, Born
<1>5. ASSUME NEW j \in DOMAIN q[g], q[g][j].k = "addChild"
      PROVE  Lives(q[g][j].child)
  <2>1. CASE q[g] = queue[g]
    BY <1>4, <1>5, <2>1
  <2>2. CASE q[g] = Tail(queue[g]) /\ queue[g] # <<>>
    <3>1. j + 1 \in DOMAIN queue[g] /\ q[g][j] = queue[g][j + 1]
      BY <1>2, <2>2, Popping
    <3>. QED BY <1>4, <1>5, <3>1
  <2>. QED BY <2>1, <2>2
<1>6. ASSUME NEW j \in DOMAIN queue'[g], queue'[g][j].k = "addChild"
      PROVE  Lives(queue'[g][j].child)
  <2>1. \/ j \in DOMAIN q[g] /\ queue'[g][j] = q[g][j]
        \/ j - Len(q[g]) \in DOMAIN msgs[g] /\ queue'[g][j] = msgs[g][j - Len(q[g])]
    <3>. DEFINE a == q[g]
                b == msgs[g]
    <3>1. a \in Seq(Message) /\ b \in Seq(Message) /\ queue'[g] = a \o b
      BY <1>1, <1>2
    <3>. HIDE DEF a, b
    <3>2. \A k \in DOMAIN (a \o b) :
            \/ k \in DOMAIN a /\ (a \o b)[k] = a[k]
            \/ k - Len(a) \in DOMAIN b /\ (a \o b)[k] = b[k - Len(a)]
      BY <3>1, Appended
    <3>3. \/ j \in DOMAIN a /\ queue'[g][j] = a[j]
          \/ j - Len(a) \in DOMAIN b /\ queue'[g][j] = b[j - Len(a)]
      BY <1>6, <3>1, <3>2, Zenon
    <3>. QED BY <3>3 DEF a, b
  <2>. QED BY <1>5, <1>6, <2>1
<1>. QED BY <1>3, <1>6 DEF KnownMail, Known, Lives, Born

(* Nothing was told.                                                        *)
LEMMA MailKept ==
  ASSUME TypeOK, Aged, NEW g \in Fiber, KnownMail(g), Len(asyncs'[g]) = Len(asyncs[g]) \/ Born(g),
         queue'[g] = queue[g] \/ (queue'[g] = Tail(queue[g]) /\ queue[g] # <<>>),
         tasks'[g] = tasks[g] \/ Born(g)
  PROVE  KnownMail(g)'
<1>1. pc'[g] = "unborn" => pc[g] = "unborn"
  BY DEF Aged, Born
<1>2. ASSUME NEW j \in DOMAIN queue[g], queue[g][j].k = "addChild"
      PROVE  Lives(queue[g][j].child)
  BY <1>2 DEF KnownMail, Known, Lives, Aged, Born
<1>3. CASE queue'[g] = queue[g]
  BY <1>1, <1>2, <1>3 DEF KnownMail, Known, Lives, Born
<1>4. CASE queue'[g] = Tail(queue[g]) /\ queue[g] # <<>>
  <2>1. queue[g] \in Seq(Message)
    BY DEF TypeOK
  <2>2. ASSUME NEW j \in DOMAIN queue'[g], queue'[g][j].k = "addChild"
        PROVE  Lives(queue'[g][j].child)
    BY <1>2, <1>4, <2>1, <2>2, Popping
  <2>. QED BY <1>1, <1>4, <2>2 DEF KnownMail, Known, Lives, Born
<1>. QED BY <1>3, <1>4

(* A fiber whose children, wind-down and frames bring in nobody new still    *)
(* knows only fibers that have begun.                                        *)
LEMMA BodyKept ==
  ASSUME TypeOK, Aged, NEW g \in Fiber, KnownBody(g),
         \A x \in children'[g] : x \in children[g] \/ Lives(x), winding'[g] \subseteq winding[g],
         \A x \in Peers(cur'[g]) : x \in Peers(cur[g]), stack'[g] = stack[g]
  PROVE  KnownBody(g)'
BY DEF KnownBody, Known, Lives, Aged, Born

(* The effect and the stack of the fiber that makes the step.               *)
LEMMA BodyMoved ==
  ASSUME TypeOK, Aged, NEW g \in Fiber, KnownBody(g),
         \A x \in children'[g] \cup winding'[g] : x \in children[g] \cup winding[g],
         \A x \in Peers(cur'[g]) : Known(x), NEW s \in Seq(Frame), NEW r \in Frame,
         \A x \in FramePeers(r) : Known(x),
         s = stack[g] \/ (s = Tail(stack[g]) /\ stack[g] # <<>>),
         stack'[g] = s \/ stack'[g] = <<r>> \o s
  PROVE  KnownBody(g)'
<1>1. stack[g] \in Seq(Frame)
  BY DEF TypeOK
<1>2. ASSUME NEW j \in DOMAIN s PROVE \E k \in DOMAIN stack[g] : s[j] = stack[g][k]
  <2>1. CASE s = stack[g]
    BY <2>1
  <2>2. CASE s = Tail(stack[g]) /\ stack[g] # <<>>
    <3>1. \A k \in DOMAIN Tail(stack[g]) :
            k + 1 \in DOMAIN stack[g] /\ Tail(stack[g])[k] = stack[g][k + 1]
      BY <1>1, <2>2, Popping
    <3>. QED BY <2>2, <3>1
  <2>. QED BY <2>1, <2>2
<1>3. ASSUME NEW j \in DOMAIN stack'[g], NEW x \in FramePeers(stack'[g][j]) PROVE Known(x)
  <2>1. stack'[g][j] = r \/ \E k \in DOMAIN s : stack'[g][j] = s[k]
    BY Pushed, SMTT(30)
  <2>2. stack'[g][j] = r \/ \E k \in DOMAIN stack[g] : stack'[g][j] = stack[g][k]
    BY <1>2, <2>1
  <2>. QED BY <1>3, <2>2 DEF KnownBody
<1>4. \A x : Known(x) => Known(x)'
  BY DEF Known, Aged, Born
<1>. QED BY <1>3, <1>4 DEF KnownBody

-----------------------------------------------------------------------------
(* A step of one fiber leaves the run loops of the others alone.            *)
Untouched(g) ==
  /\ cur'[g] = cur[g] /\ stack'[g] = stack[g] /\ interruptor'[g] = interruptor[g]
  /\ winding'[g] = winding[g] /\ children'[g] \subseteq children[g]
  /\ opened'[g] = opened[g] /\ ran'[g] = ran[g]

(* Handling messages, taking up a primitive and ending an evaluation write   *)
(* nothing of another fiber's run.                                           *)
LEMMA AloneDrain ==
  ASSUME TypeOK, NEW f \in Fiber, NEW g \in Fiber, g # f, NEW label,
         \/ RunTask(f) \/ Return(f) \/ DrainDone(f) \/ DrainYield(f) \/ DrainInterrupt(f)
         \/ DrainResume(f) \/ Stateful1(f, label)
         \/ LoopInterrupt(f) \/ BeginOp(f) \/ Preempt(f)
         \/ WindDownChildren(f) \/ ExitLater(f) \/ SetExit(f)
  PROVE  Untouched(g)
<1>1. CASE RunTask(f) \/ Return(f) \/ DrainDone(f) \/ DrainYield(f) \/ BeginOp(f)
  BY <1>1 DEF RunTask, Return, DrainDone, DrainYield, BeginOp, Untouched, Evaluation, family, history
<1>2. CASE DrainInterrupt(f) \/ DrainResume(f)
  BY <1>2 DEF DrainInterrupt, DrainResume, DropInterruptor, Evaluate, Loop, Untouched, Evaluation,
              family, history, TypeOK
<1>3. CASE Stateful1(f, label)
  <2>1. children'[g] = children[g]
    BY <1>3 DEF Stateful1, Handle, TypeOK
  <2>. QED BY <1>3, <2>1 DEF Stateful1, Handle, Untouched, Evaluation, history
<1>4. CASE LoopInterrupt(f) \/ Preempt(f)
  BY <1>4 DEF LoopInterrupt, Preempt, Push, Untouched, family, history, TypeOK
<1>5. CASE WindDownChildren(f) \/ ExitLater(f)
  BY <1>5, SMTT(30) DEF WindDownChildren, ExitLater, Push, Loop, Untouched, Evaluation, family, history, TypeOK
<1>6. CASE SetExit(f)
  <2>1. children'[g] \subseteq children[g]
    BY <1>6 DEF SetExit
  <2>. QED BY <1>6, <2>1 DEF SetExit, Untouched, Evaluation, history
<1>. QED BY <1>1, <1>2, <1>3, <1>4, <1>5, <1>6

(* Nor does a user operation.                                                *)
LEMMA AloneUser ==
  ASSUME TypeOK, NEW f \in Fiber, NEW g \in Fiber, g # f, UserOp(f)
  PROVE  Untouched(g)
<1>1. CASE UserSucceed(f) \/ UserFail(f) \/ UserOnExit(f) \/ UserYield(f)
  BY <1>1 DEF UserSucceed, UserFail, UserOnExit, UserYield, Loop, Pure, Untouched, family, history,
              TypeOK
<1>2. ASSUME NEW kind, UserFrame(f, kind) PROVE Untouched(g)
  BY <1>2 DEF UserFrame, Push, Loop, Pure, Untouched, family, history, TypeOK
<1>3. ASSUME NEW to, UserFlags(f, to) PROVE Untouched(g)
  BY <1>3, SMTT(30) DEF UserFlags, UpdateFlags, Push, Loop, Pure, Untouched, family, history, TypeOK
<1>4. ASSUME NEW st, UserAsync(f, st) PROVE Untouched(g)
  BY <1>4 DEF UserAsync, Loop, Untouched, family, history, TypeOK
<1>5. ASSUME NEW h, UserAwait(f, h) PROVE Untouched(g)
  BY <1>5 DEF UserAwait, Await, Loop, Untouched, family, history, TypeOK
<1>6. ASSUME NEW h, UserInterrupt(f, h) PROVE Untouched(g)
  BY <1>6 DEF UserInterrupt, SyncDone, Untouched, family, history, TypeOK
<1>7. ASSUME NEW c, NEW daemon, UserFork(f, c, daemon) PROVE Untouched(g)
  BY <1>7 DEF UserFork, Untouched, family, TypeOK
<1>8. ASSUME NEW h, NEW i, UserCallback(f, h, i) PROVE Untouched(g)
  BY <1>8 DEF UserCallback, SyncDone, Untouched, family, history, TypeOK
<1>. QED BY <1>1, <1>2, <1>3, <1>4, <1>5, <1>6, <1>7, <1>8 DEF UserOp

(* Nor does a primitive.                                                     *)
LEMMA AlonePrimitive ==
  ASSUME TypeOK, NEW f \in Fiber, NEW g \in Fiber, g # f, Primitive(f)
  PROVE  Untouched(g)
<1>1. CASE OpOnExit(f) \/ OpGuard(f) \/ OpRestore(f)
  BY <1>1, SMTT(30) DEF OpOnExit, OpGuard, OpRestore, UpdateFlags, Push, Loop, Pure, Untouched, family,
              history, TypeOK
<1>2. CASE OpAsync(f) \/ OpYield(f)
  BY <1>2 DEF OpAsync, OpYield, Loop, Evaluation, Untouched, family, history, TypeOK
<1>3. CASE OpWind(f)
  <2>1. winding'[g] = winding[g] /\ stack'[g] = stack[g] /\ cur'[g] = cur[g]
    <3>1. CASE winding[f] = {}
      BY <1>3, <3>1 DEF OpWind, Loop, TypeOK
    <3>2. CASE winding[f] # {}
      <4>1. PICK c : /\ winding' = [winding EXCEPT ![f] = @ \ {c}]
                     /\ Push(f, Simple("windLoop")) /\ Await(f, c, AwaitJob(f, c))
        BY <1>3, <3>2 DEF OpWind
      <4>. QED BY <4>1 DEF Await, Push, Loop, TypeOK
    <3>. QED BY <3>1, <3>2
  <2>. QED BY <1>3, <2>1 DEF OpWind, Untouched, history
<1>4. CASE SkipFrame(f) \/ SuccessHandler(f) \/ FailureHandler(f) \/ EndLoop(f)
  BY <1>4 DEF SkipFrame, SuccessHandler, FailureHandler, EndLoop, Pop, Loop, Pure, Untouched,
              family, history, TypeOK
<1>5. CASE RevertFrame(f) \/ AwaitCanceler(f)
  BY <1>5 DEF RevertFrame, AwaitCanceler, Pop, Loop, Pure, Untouched, family, history, TypeOK
<1>6. CASE UserFinalizer(f)
  BY <1>6 DEF UserFinalizer, Pop, Loop, Pure, Untouched, family, history, TypeOK
<1>. QED BY <1>1, <1>2, <1>3, <1>4, <1>5, <1>6 DEF Primitive

(* Only `start` inside a step touches two: the fiber it runs has no state.   *)
LEMMA Alone ==
  ASSUME TypeOK, NEW f \in Fiber, NEW g \in Fiber, g # f, RunTask(f) \/ Step(f)
  PROVE  Untouched(g)
BY AloneDrain, AloneUser, AlonePrimitive DEF Step, DrainStateful, LoopStateful

-----------------------------------------------------------------------------
(* What the sends of the module put in one inbox.                           *)
LEMMA LetterTo ==
  ASSUME NEW g \in Fiber, NEW h \in Fiber, NEW m
  PROVE  To(h, m)[g] = IF g = h THEN <<m>> ELSE <<>>
BY DEF NoMail, To

(* What ToEach addresses to one fiber.                                       *)
LEMMA LetterEach ==
  ASSUME NEW g \in Fiber, NEW S, NEW m
  PROVE  ToEach(S, m)[g] = IF g \in S THEN <<m>> ELSE <<>>
BY DEF ToEach

(* What Resumed addresses to one fiber.                                      *)
LEMMA LetterResumed ==
  ASSUME NEW g \in Fiber, NEW S, NEW e
  PROVE  Resumed(S, e)[g] = IF \E w \in S : w[1] = g /\ Armed(g, w[2]) THEN <<Resume(e)>> ELSE <<>>
BY Zenon DEF Resumed

(* Whoever waits for a callback exists.                                     *)
LEMMA ArmedIsBorn ==
  ASSUME TypeOK, NEW g \in Fiber, KnownMail(g), NEW S, NEW e, Resumed(S, e)[g] # <<>>
  PROVE  Born(g)
<1>0. Resumed(S, e)[g] = IF \E w \in S : w[1] = g /\ Armed(g, w[2]) THEN <<Resume(e)>> ELSE <<>>
  BY LetterResumed, Zenon
<1>1. PICK w \in S : Armed(g, w[2])
  BY <1>0
<1>2. asyncs[g] \in Seq(AsyncState) /\ Len(asyncs[g]) # 0
  BY <1>1 DEF Armed, TypeOK
<1>. QED BY <1>2 DEF KnownMail, Born

(* One message to one fiber that exists.                                    *)
LEMMA TellsOne ==
  ASSUME TypeOK, Aged, NEW g \in Fiber, KnownMail(g), Len(asyncs'[g]) = Len(asyncs[g]) \/ Born(g),
         NEW h \in Fiber, NEW m \in Message, Deliver(queue, To(h, m)), Lives(h), m.k # "addChild"
  PROVE  KnownMail(g)'
<1>1. To(h, m) \in Mail /\ queue \in Mail
  BY MailTypes DEF TypeOK, Mail
<1>2. To(h, m)[g] = IF g = h THEN <<m>> ELSE <<>>
  BY LetterTo
<1>3. To(h, m)[g] # <<>> => pc'[g] # "unborn"
  BY <1>2 DEF Lives
<1>4. \A j \in DOMAIN To(h, m)[g] : To(h, m)[g][j] = m
  BY <1>2
<1>. QED BY <1>1, <1>3, <1>4, MailKnown

(* The same message to the children, and nothing else.                      *)
LEMMA TellsEach ==
  ASSUME TypeOK, Aged, NEW g \in Fiber, KnownMail(g), asyncs' = asyncs,
         NEW f \in Fiber, \A x \in children[f] : Known(x),
         NEW q \in Mail, q[g] = queue[g] \/ (q[g] = Tail(queue[g]) /\ queue[g] # <<>>),
         Deliver(q, ToEach(children[f], InterruptSignal))
  PROVE  KnownMail(g)'
<1>. DEFINE msgs == ToEach(children[f], InterruptSignal)
<1>1. msgs \in Mail
  BY MailTypes, MessageTypes DEF TypeOK
<1>2. msgs[g] = IF g \in children[f] THEN <<InterruptSignal>> ELSE <<>>
  BY LetterEach, Zenon
<1>3. msgs[g] # <<>> => pc'[g] # "unborn"
  BY <1>2 DEF Known, Aged
<1>4. \A j \in DOMAIN msgs[g] : msgs[g][j].k = "interrupt"
  BY <1>2 DEF InterruptSignal
<1>. HIDE DEF msgs
<1>5. \A j \in DOMAIN msgs[g] : msgs[g][j].k = "addChild" => Lives(msgs[g][j].child)
  BY <1>4
<1>6. Deliver(q, msgs)
  BY DEF msgs
<1>. QED BY <1>1, <1>3, <1>5, <1>6, MailKnown

(* Callbacks are called.                                                    *)
LEMMA Wakes ==
  ASSUME TypeOK, Aged, NEW g \in Fiber, KnownMail(g), NEW S, Fire(S), NEW e \in Resumable,
         NEW q \in Mail, q[g] = queue[g] \/ (q[g] = Tail(queue[g]) /\ queue[g] # <<>>),
         Deliver(q, Resumed(S, e))
  PROVE  KnownMail(g)'
<1>. DEFINE msgs == Resumed(S, e)
<1>1. msgs \in Mail /\ Len(asyncs'[g]) = Len(asyncs[g])
  BY MailTypes, FireShape
<1>2. msgs[g] # <<>> => pc'[g] # "unborn"
  BY ArmedIsBorn DEF Aged
<1>3. \A j \in DOMAIN msgs[g] : msgs[g][j].k = "resume"
  <2>1. msgs[g] = <<>> \/ msgs[g] = <<Resume(e)>>
    BY LetterResumed, Zenon
  <2>. HIDE DEF msgs
  <2>. QED BY <2>1 DEF Resume
<1>. HIDE DEF msgs
<1>4. \A j \in DOMAIN msgs[g] : msgs[g][j].k = "addChild" => Lives(msgs[g][j].child)
  BY <1>3
<1>5. Deliver(q, msgs)
  BY DEF msgs
<1>. QED BY <1>1, <1>2, <1>4, <1>5, MailKnown

-----------------------------------------------------------------------------
(* The actions, one by one.                                                 *)
LEMMA KnownThread ==
  ASSUME TypeOK, KnownInv, Aged, NEW f \in Fiber, NEW g \in Fiber,
         RunTask(f) \/ Start(f) \/ StartLater(f) \/ Return(f)
  PROVE  KnownMail(g)' /\ KnownBody(g)'
<1>0. KnownMail(g) /\ KnownBody(g) /\ KnownMail(f)
  BY DEF KnownInv
<1>1. CASE RunTask(f) \/ Return(f)
  <2>1. Born(f)
    BY <1>0, <1>1 DEF RunTask, Return, At, KnownMail, Born
  <2>2. tasks'[g] = tasks[g] \/ Born(g)
    BY <1>1, <2>1 DEF RunTask, Return, TypeOK
  <2>3. KnownMail(g)'
    BY <1>0, <1>1, <2>2, MailKept DEF RunTask, Return
  <2>4. KnownBody(g)'
    BY <1>0, <1>1, BodyKept DEF RunTask, Return, Evaluation, family
  <2>. QED BY <2>3, <2>4
<1>2. CASE Start(f)
  <2>1. KnownMail(g)'
    BY <1>0, <1>2, MailKept DEF Start
  <2>2. \A x \in Peers(cur'[g]) : x \in Peers(cur[g])
    <3>1. Peers(AnyEffect) = {} /\ Peers(Succ) = {} /\ Peers(InterruptCause) = {}
      BY DEF Peers, AnyEffect, Succ, InterruptCause, Failed
    <3>2. CASE Idle
      BY <1>2, <3>1, <3>2 DEF Start, Evaluate, Loop, TypeOK
    <3>3. CASE ~Idle
      <4>1. cur' = [cur EXCEPT ![f] = AnyEffect, ![Head(thread)] = Succ]
        BY <1>2, <3>3 DEF Start
      <4>2. cur'[g] = cur[g] \/ cur'[g] = AnyEffect \/ cur'[g] = Succ
        BY <4>1 DEF TypeOK
      <4>. QED BY <3>1, <4>2
    <3>. QED BY <3>2, <3>3
  <2>3. KnownBody(g)'
    BY <1>0, <1>2, <2>2, BodyKept DEF Start, family
  <2>. QED BY <2>1, <2>3
<1>3. CASE StartLater(f)
  <2>1. Lives(f)
    BY <1>3 DEF StartLater, Goto, Lives, TypeOK
  <2>2. Resume(AnyEffect) \in Message /\ Resume(AnyEffect).k # "addChild"
    BY MessageTypes, OutcomeTypes DEF Resume
  <2>3. KnownMail(g)'
    BY <1>0, <1>3, <2>1, <2>2, TellsOne DEF StartLater
  <2>4. KnownBody(g)'
    BY <1>0, <1>3, BodyKept DEF StartLater, Evaluation, family
  <2>. QED BY <2>3, <2>4
<1>. QED BY <1>1, <1>2, <1>3

(* The steps of a drain bring nobody unborn into a mailbox or a run.         *)
LEMMA KnownDrain ==
  ASSUME TypeOK, KnownInv, Aged, NEW f \in Fiber, NEW g \in Fiber,
         DrainDone(f) \/ DrainYield(f) \/ DrainInterrupt(f) \/ DrainResume(f)
  PROVE  KnownMail(g)' /\ KnownBody(g)'
<1>0. KnownMail(g) /\ KnownBody(g) /\ KnownBody(f) /\ Born(f)
  BY DEF KnownInv, DrainDone, DrainYield, DrainInterrupt, DrainResume, Next1, At, Born
<1>1. CASE DrainDone(f)
  BY <1>0, <1>1, MailKept, BodyKept DEF DrainDone, Evaluation, family
<1>2. CASE DrainYield(f)
  <2>1. queue'[g] = queue[g] \/ (queue'[g] = Tail(queue[g]) /\ queue[g] # <<>>)
    BY <1>2 DEF DrainYield, Next1, Popped, TypeOK
  <2>2. tasks'[g] = tasks[g] \/ Born(g)
    BY <1>0, <1>2 DEF DrainYield, TypeOK
  <2>. QED BY <1>0, <1>2, <2>1, <2>2, MailKept, BodyKept DEF DrainYield, Evaluation, family
<1>3. CASE DrainInterrupt(f)
  <2>. DEFINE S == {<<f, interruptor[f]>>}
              told == ToEach(children[f], InterruptSignal)
              woken == Resumed(S, InterruptCause)
              msgs == [x \in Fiber |-> told[x] \o woken[x]]
  <2>1. Fire(S) /\ Deliver(Popped(f), msgs) /\ queue[f] # <<>>
    BY <1>3 DEF DrainInterrupt, Next1
  <2>2. told \in Mail /\ woken \in Mail /\ Popped(f) \in Mail
    BY <2>1, MailTypes, MessageTypes, OutcomeTypes, PoppedType DEF TypeOK
  <2>3. told[g] = IF g \in children[f] THEN <<InterruptSignal>> ELSE <<>>
    BY LetterEach, Zenon
  <2>4. woken[g] = <<>> \/ woken[g] = <<Resume(InterruptCause)>>
    BY LetterResumed, Zenon
  <2>5. woken[g] # <<>> => Born(g)
    BY <1>0, ArmedIsBorn
  <2>6. told[g] # <<>> => Born(g)
    BY <1>0, <2>3 DEF KnownBody, Known
  <2>7. Len(asyncs'[g]) = Len(asyncs[g])
    BY <2>1, FireShape
  <2>8. Popped(f)[g] = queue[g] \/ (Popped(f)[g] = Tail(queue[g]) /\ queue[g] # <<>>)
    BY <2>1 DEF Popped, TypeOK
  <2>. HIDE DEF told, woken, S
  <2>9. msgs \in Mail /\ msgs[g] = told[g] \o woken[g]
    BY <2>2 DEF Mail
  <2>. HIDE DEF msgs
  <2>10. msgs[g] # <<>> => pc'[g] # "unborn"
    BY <2>3, <2>4, <2>5, <2>6, <2>9 DEF Aged
  <2>11. \/ msgs[g] = <<>> \/ msgs[g] = <<InterruptSignal>> \/ msgs[g] = <<Resume(InterruptCause)>>
         \/ msgs[g] = <<InterruptSignal, Resume(InterruptCause)>>
    <3>. DEFINE a == InterruptSignal
                b == Resume(InterruptCause)
    <3>1. a \in Message /\ b \in Message
      BY MessageTypes, OutcomeTypes
    <3>. HIDE DEF a, b
    <3>2. /\ <<>> \o <<>> = <<>> /\ <<a>> \o <<>> = <<a>> /\ <<>> \o <<b>> = <<b>>
          /\ <<a>> \o <<b>> = <<a, b>>
      BY <3>1, Short
    <3>3. (told[g] = <<>> \/ told[g] = <<a>>) /\ (woken[g] = <<>> \/ woken[g] = <<b>>)
      BY <2>3, <2>4 DEF a, b
    <3>4. msgs[g] = <<>> \/ msgs[g] = <<a>> \/ msgs[g] = <<b>> \/ msgs[g] = <<a, b>>
      BY <2>9, <3>2, <3>3, Zenon
    <3>. QED BY <3>4 DEF a, b
  <2>12. \A j \in DOMAIN msgs[g] : msgs[g][j].k # "addChild"
    BY <2>11 DEF InterruptSignal, Resume
  <2>13. KnownMail(g)'
    BY <1>0, <2>1, <2>2, <2>7, <2>8, <2>9, <2>10, <2>12, MailKnown
  <2>14. KnownBody(g)'
    BY <1>0, <1>3, BodyKept DEF DrainInterrupt, Evaluation, family
  <2>. QED BY <2>13, <2>14
<1>4. CASE DrainResume(f)
  <2>1. queue'[g] = queue[g] \/ (queue'[g] = Tail(queue[g]) /\ queue[g] # <<>>)
    BY <1>4 DEF DrainResume, Next1, Popped, TypeOK
  <2>2. \A x \in Peers(cur'[g]) : x \in Peers(cur[g])
    <3>1. Head(queue[f]).eff \in Resumable
      BY <1>4, PoppedType, MessageFields DEF DrainResume, Next1
    <3>2. cur' = [cur EXCEPT ![f] = IF MustStop(f) THEN InterruptCause ELSE Head(queue[f]).eff]
      BY <1>4 DEF DrainResume, Evaluate, Loop
    <3>3. cur'[g] = cur[g] \/ cur'[g] \in Resumable
      BY <3>1, <3>2, OutcomeTypes DEF TypeOK
    <3>. QED BY <3>3 DEF Peers, Resumable, Outcome, AnyEffect, Succ, Failed
  <2>. QED BY <1>0, <1>4, <2>1, <2>2, MailKept, BodyKept DEF DrainResume, family
<1>. QED BY <1>1, <1>2, <1>3, <1>4

(* Nor does a message processed while running: a child it adds was in the    *)
(* message.                                                                  *)
LEMMA KnownStateful ==
  ASSUME TypeOK, KnownInv, Aged, NEW f \in Fiber, NEW g \in Fiber, NEW label,
         Stateful1(f, label)
  PROVE  KnownMail(g)' /\ KnownBody(g)'
<1>0. KnownMail(g) /\ KnownBody(g) /\ KnownMail(f)
  BY DEF KnownInv
<1>. DEFINE x == Head(queue[f])
            S == IF AtOnce(f, x) THEN {x.who} ELSE {}
<1>1. queue[f] # <<>> /\ Handle(f, x)
  BY DEF Stateful1, Next1
<1>2. Popped(f)[g] = queue[g] \/ (Popped(f)[g] = Tail(queue[g]) /\ queue[g] # <<>>)
  BY <1>1 DEF Popped, TypeOK
<1>3. KnownMail(g)'
  <2>1. Fire(S) /\ Deliver(Popped(f), Resumed(S, Succ))
    BY <1>1 DEF Handle
  <2>2. Popped(f) \in Mail /\ Succ \in Resumable
    BY <1>1, PoppedType, OutcomeTypes
  <2>. HIDE DEF S
  <2>. QED BY <1>0, <1>2, <2>1, <2>2, Wakes
<1>4. \A y \in children'[g] : y \in children[g] \/ Lives(y)
  <2>1. queue[f] \in Seq(Message)
    BY DEF TypeOK
  <2>2. 1 \in DOMAIN queue[f] /\ x = queue[f][1]
    BY <1>1, <2>1, Popping
  <2>3. x.k = "addChild" => Lives(x.child)
    BY <1>0, <2>2 DEF KnownMail, Known, Lives, Aged
  <2>4. \A y \in children'[g] : y \in children[g] \/ (x.k = "addChild" /\ y = x.child)
    BY <1>1 DEF Handle, TypeOK
  <2>. QED BY <2>3, <2>4
<1>5. KnownBody(g)'
  <2>1. UNCHANGED <<cur, stack, winding>>
    BY <1>1 DEF Stateful1, Evaluation, Handle
  <2>. QED BY <1>0, <1>4, <2>1, BodyKept
<1>. QED BY <1>3, <1>5

(* Only the awaits, their cancelers and the frames that hold them name       *)
(* other fibers.                                                             *)
LEMMA NoPeers ==
  /\ Peers(AnyEffect) = {} /\ Peers(Succ) = {} /\ Peers(Yield) = {} /\ Peers(Wind) = {}
  /\ Peers(InterruptCause) = {} /\ \A c : Peers(Failed(c)) = {} /\ \A i : Peers(Async(i)) = {}
  /\ Peers(OnExit(UserJob)) = {}
  /\ \A job, to : Peers(Guard(job, to)) = Peers(OnExit(job))
                  /\ Peers(Restore(job, to)) = Peers(OnExit(job))
                  /\ FramePeers(Final(job)) = Peers(OnExit(job))
                  /\ Peers(Body(job)) = {}
  /\ \A kind \in {"succ", "failure", "both", "windLoop"} : FramePeers(Simple(kind)) = {}
  /\ \A to : FramePeers(Revert(to)) = {}
  /\ \A e : FramePeers(Cont(e)) = Peers(e) /\ FramePeers(Result(e)) = {}
  /\ \A e : e.k \in {"any", "succ", "fail", "yield", "wind", "async"} => Peers(e) = {}
BY DEF Peers, FramePeers, AnyEffect, Succ, Yield, Wind, InterruptCause, Failed, Async, OnExit, Guard,
       Restore, Final, Body, Simple, Revert, Cont, Result

(* The fiber that makes the step goes on with an effect that names nobody    *)
(* new; its stack is as it was or has one frame more.                       *)
LEMMA BodyGoes ==
  ASSUME TypeOK, Aged, NEW f \in Fiber, KnownBody(f), UNCHANGED <<children, winding>>,
         \A x \in Peers(cur'[f]) : Known(x),
         \/ stack'[f] = stack[f]
         \/ \E r \in Frame : /\ \A x \in FramePeers(r) : Known(x)
                             /\ stack'[f] = <<r>> \o stack[f]
  PROVE  KnownBody(f)'
<1>1. stack[f] \in Seq(Frame) /\ Simple("both") \in Frame /\ FramePeers(Simple("both")) = {}
  BY FrameTypes, NoPeers DEF TypeOK
<1>. QED BY <1>1, BodyMoved

(* A step of a fiber leaves what another fiber knows as it was.              *)
LEMMA BodyAlone ==
  ASSUME TypeOK, Aged, NEW f \in Fiber, NEW g \in Fiber, KnownBody(g), Step(f),
         g # f \/ KnownBody(f)'
  PROVE  KnownBody(g)'
<1>1. CASE g # f
  <2>1. Untouched(g)
    BY <1>1, Alone
  <2>. QED BY <2>1, BodyKept DEF Untouched
<1>. QED BY <1>1

(* Taking up a primitive names nobody new.                                   *)
LEMMA KnownLoop ==
  ASSUME TypeOK, KnownInv, Aged, NEW f \in Fiber, NEW g \in Fiber,
         LoopInterrupt(f) \/ BeginOp(f) \/ Preempt(f)
  PROVE  KnownMail(g)' /\ KnownBody(g)'
<1>0. KnownMail(g) /\ KnownBody(g) /\ KnownBody(f)
  BY DEF KnownInv
<1>1. CASE LoopInterrupt(f)
  <2>1. queue[f] # <<>> /\ Popped(f) \in Mail
    BY <1>1, PoppedType DEF LoopInterrupt, Next1
  <2>2. Popped(f)[g] = queue[g] \/ (Popped(f)[g] = Tail(queue[g]) /\ queue[g] # <<>>)
    BY <2>1 DEF Popped, TypeOK
  <2>3. KnownMail(g)'
    BY <1>0, <1>1, <2>1, <2>2, TellsEach DEF LoopInterrupt, KnownBody
  <2>4. \A x \in Peers(cur'[g]) : x \in Peers(cur[g])
    BY <1>1, NoPeers DEF LoopInterrupt, TypeOK
  <2>. QED BY <1>0, <1>1, <2>3, <2>4, BodyKept DEF LoopInterrupt, family
<1>2. CASE BeginOp(f)
  BY <1>0, <1>2, MailKept, BodyKept DEF BeginOp, mailbox, Evaluation, family
<1>3. CASE Preempt(f)
  <2>1. KnownMail(g)'
    BY <1>0, <1>3, MailKept DEF Preempt, mailbox
  <2>2. KnownBody(f)'
    <3>1. Cont(cur[f]) \in Frame /\ stack'[f] = <<Cont(cur[f])>> \o stack[f] /\ stack[f] \in Seq(Frame)
      BY <1>3, FrameTypes DEF Preempt, Push, TypeOK
    <3>2. \A x \in Peers(cur'[f]) \cup FramePeers(Cont(cur[f])) : Known(x)
      BY <1>0, <1>3, NoPeers DEF Preempt, KnownBody, TypeOK
    <3>. QED BY <1>0, <1>3, <3>1, <3>2, BodyGoes DEF Preempt, family
  <2>. QED BY <1>0, <1>3, <2>1, <2>2, BodyAlone DEF Step
<1>. QED BY <1>1, <1>2, <1>3

(* A user operation names only fibers that have begun, and the one a fork    *)
(* has just begun.                                                           *)
LEMMA KnownUser ==
  ASSUME TypeOK, KnownInv, Aged, NEW f \in Fiber, NEW g \in Fiber, UserOp(f)
  PROVE  KnownMail(g)' /\ KnownBody(g)'
<1>0. KnownMail(g) /\ KnownBody(g) /\ KnownBody(f)
  BY DEF KnownInv
<1>b. ASSUME KnownBody(f)' PROVE KnownBody(g)'
  BY <1>0, <1>b, BodyAlone DEF Step
<1>c. Born(f)
  BY DEF UserOp, UserSucceed, UserFail, UserOnExit, UserYield, UserFrame, UserFlags,
         UserAsync, UserAwait, UserInterrupt, UserFork, UserCallback, OpAt, At, Born
<1>1. CASE UserSucceed(f) \/ UserFail(f) \/ UserOnExit(f) \/ UserYield(f)
  <2>1. KnownMail(g)'
    BY <1>0, <1>1, MailKept DEF UserSucceed, UserFail, UserOnExit, UserYield, Pure, mailbox
  <2>2. KnownBody(f)'
    <3>1. Peers(cur'[f]) = {}
      BY <1>1, NoPeers DEF UserSucceed, UserFail, UserOnExit, UserYield, Loop, TypeOK
    <3>. QED BY <1>0, <1>1, <3>1, BodyGoes
             DEF UserSucceed, UserFail, UserOnExit, UserYield, Pure, family
  <2>. QED BY <1>b, <2>1, <2>2
<1>2. ASSUME NEW kind \in {"succ", "failure", "both"}, UserFrame(f, kind)
      PROVE  KnownMail(g)' /\ KnownBody(g)'
  <2>1. KnownMail(g)'
    BY <1>0, <1>2, MailKept DEF UserFrame, Pure, mailbox
  <2>2. Simple(kind) \in Frame /\ FramePeers(Simple(kind)) = {}
    BY FrameTypes, NoPeers
  <2>3. stack'[f] = <<Simple(kind)>> \o stack[f] /\ cur'[f] = AnyEffect
    BY <1>2 DEF UserFrame, Push, Loop, TypeOK
  <2>4. KnownBody(f)'
    BY <1>0, <1>2, <2>2, <2>3, NoPeers, BodyGoes DEF UserFrame, Pure, family
  <2>. QED BY <1>b, <2>1, <2>4
<1>3. ASSUME NEW to, UserFlags(f, to) PROVE KnownMail(g)' /\ KnownBody(g)'
  <2>1. KnownMail(g)'
    BY <1>0, <1>3, MailKept DEF UserFlags, Pure, mailbox
  <2>2. Revert(interruption[f]) \in Frame /\ FramePeers(Revert(interruption[f])) = {}
    BY FrameTypes, NoPeers DEF TypeOK
  <2>3. (stack'[f] = stack[f] \/ stack'[f] = <<Revert(interruption[f])>> \o stack[f])
        /\ (cur'[f] = AnyEffect \/ cur'[f] = InterruptCause)
    BY <1>3, SMTT(30) DEF UserFlags, UpdateFlags, Push, Loop, TypeOK
  <2>4. KnownBody(f)'
    BY <1>0, <1>3, <2>2, <2>3, NoPeers, BodyGoes DEF UserFlags, Pure, family
  <2>. QED BY <1>b, <2>1, <2>4
<1>4. ASSUME NEW st, UserAsync(f, st) PROVE KnownMail(g)' /\ KnownBody(g)'
  <2>1. KnownMail(g)'
    <3>1. Len(asyncs'[g]) = Len(asyncs[g]) \/ Born(g)
      BY <1>4, <1>c DEF UserAsync, TypeOK
    <3>. QED BY <1>0, <1>4, <3>1, MailKept DEF UserAsync, mailbox
  <2>2. KnownBody(f)'
    BY <1>0, <1>4, NoPeers, BodyGoes DEF UserAsync, Loop, family, TypeOK
  <2>. QED BY <1>b, <2>1, <2>2
<1>5. ASSUME NEW h \in Fiber, UserAwait(f, h) PROVE KnownMail(g)' /\ KnownBody(g)'
  <2>1. Known(h) /\ Lives(h)
    BY <1>5 DEF UserAwait, Known, Lives, Aged
  <2>. DEFINE w == <<f, Len(asyncs[f]) + 1>>
  <2>2. Observe(w) \in Message /\ Observe(w).k # "addChild"
    <3>1. Len(asyncs[f]) + 1 \in Nat
      BY DEF TypeOK
    <3>2. w \in Waiter
      BY <3>1 DEF Waiter
    <3>. QED BY <3>2, MessageTypes DEF Observe
  <2>3. KnownMail(g)'
    <3>1. Len(asyncs'[g]) = Len(asyncs[g]) \/ Born(g)
      BY <1>5, <1>c DEF UserAwait, Await, TypeOK
    <3>2. Deliver(queue, To(h, Observe(w)))
      BY <1>5 DEF UserAwait, Await
    <3>. HIDE DEF w
    <3>. QED BY <1>0, <2>1, <2>2, <3>1, <3>2, TellsOne
  <2>4. cur'[f] = AwaitJob(f, h) /\ Peers(AwaitJob(f, h)) \subseteq {h}
    BY <1>5 DEF UserAwait, Await, Loop, AwaitJob, OnExit, Peers, TypeOK
  <2>5. KnownBody(f)'
    BY <1>0, <1>5, <2>1, <2>4, BodyGoes DEF UserAwait, family
  <2>. QED BY <1>b, <2>3, <2>5
<1>6. ASSUME NEW h \in Fiber, UserInterrupt(f, h) PROVE KnownMail(g)' /\ KnownBody(g)'
  <2>1. Lives(h) /\ InterruptSignal \in Message /\ InterruptSignal.k # "addChild"
    BY <1>6, MessageTypes DEF UserInterrupt, Lives, Aged, InterruptSignal
  <2>2. KnownMail(g)'
    BY <1>0, <1>6, <2>1, TellsOne DEF UserInterrupt
  <2>3. KnownBody(f)'
    BY <1>0, <1>6, NoPeers, BodyGoes DEF UserInterrupt, SyncDone, family, TypeOK
  <2>. QED BY <1>b, <2>2, <2>3
<1>7. ASSUME NEW c \in Fiber, NEW daemon, UserFork(f, c, daemon)
      PROVE  KnownMail(g)' /\ KnownBody(g)'
  <2>. DEFINE msgs == [x \in Fiber |-> CASE x = c            -> <<Resume(AnyEffect)>>
                                         [] x = f /\ ~daemon -> <<AddChild(c)>>
                                         [] OTHER            -> <<>>]
  <2>1. Deliver(queue, msgs) /\ pc' = [pc EXCEPT ![c] = "out", ![f] = "loop"]
    BY <1>7 DEF UserFork
  <2>2. Lives(c) /\ Lives(f)
    BY <2>1 DEF Lives, TypeOK
  <2>3. Resume(AnyEffect) \in Message /\ AddChild(c) \in Message
    BY MessageTypes, OutcomeTypes
  <2>4. msgs \in Mail /\ queue \in Mail
    BY <2>3 DEF Mail, TypeOK
  <2>5. msgs[g] = <<>> \/ (g = c /\ msgs[g] = <<Resume(AnyEffect)>>)
        \/ (g = f /\ msgs[g] = <<AddChild(c)>>)
    OBVIOUS
  <2>. HIDE DEF msgs
  <2>6. msgs[g] # <<>> => pc'[g] # "unborn"
    BY <2>2, <2>5 DEF Lives
  <2>7. \A j \in DOMAIN msgs[g] : msgs[g][j].k = "addChild" => Lives(msgs[g][j].child)
    BY <2>2, <2>5 DEF Resume, AddChild
  <2>8. KnownMail(g)'
    BY <1>0, <1>7, <2>1, <2>4, <2>6, <2>7, MailKnown DEF UserFork
  <2>9. KnownBody(f)'
    BY <1>0, <1>7, NoPeers, BodyGoes DEF UserFork, family, TypeOK
  <2>. QED BY <1>b, <2>8, <2>9
<1>8. ASSUME NEW h, NEW i, UserCallback(f, h, i) PROVE KnownMail(g)' /\ KnownBody(g)'
  <2>1. queue \in Mail /\ AnyEffect \in Resumable
    BY OutcomeTypes DEF TypeOK, Mail
  <2>2. KnownMail(g)'
    BY <1>0, <1>8, <2>1, Wakes DEF UserCallback
  <2>3. KnownBody(f)'
    BY <1>0, <1>8, NoPeers, BodyGoes DEF UserCallback, SyncDone, family, TypeOK
  <2>. QED BY <1>b, <2>2, <2>3
<1>. QED BY <1>1, <1>2, <1>3, <1>4, <1>5, <1>6, <1>7, <1>8 DEF UserOp

(* One frame is taken from the stack, or replaced by another.               *)
LEMMA BodyPops ==
  ASSUME TypeOK, Aged, NEW f \in Fiber, KnownBody(f), UNCHANGED <<children, winding>>,
         stack[f] # <<>>, \A x \in Peers(cur'[f]) : Known(x),
         \/ stack'[f] = Tail(stack[f])
         \/ \E r \in Frame : FramePeers(r) = {} /\ stack'[f] = <<r>> \o Tail(stack[f])
  PROVE  KnownBody(f)'
<1>1. Tail(stack[f]) \in Seq(Frame) /\ Simple("both") \in Frame /\ FramePeers(Simple("both")) = {}
  BY FrameTypes, NoPeers DEF TypeOK
<1>2. PICK r \in Frame : /\ FramePeers(r) = {}
                         /\ \/ stack'[f] = Tail(stack[f])
                            \/ stack'[f] = <<r>> \o Tail(stack[f])
  BY <1>1
<1>. QED BY <1>1, <1>2, BodyMoved

(* Bracketing names only fibers the effect already named.                    *)
LEMMA KnownBracket ==
  ASSUME TypeOK, KnownInv, Aged, NEW f \in Fiber, NEW g \in Fiber,
         OpOnExit(f) \/ OpGuard(f) \/ OpRestore(f)
  PROVE  KnownMail(g)' /\ KnownBody(g)'
<1>0. KnownMail(g) /\ KnownBody(g) /\ KnownBody(f) /\ cur[f] \in Effect
  BY DEF KnownInv, TypeOK
<1>1. KnownMail(g)'
  BY <1>0, MailKept DEF OpOnExit, OpGuard, OpRestore, Pure, mailbox
<1>2. UNCHANGED <<children, winding>>
  BY DEF OpOnExit, OpGuard, OpRestore, Pure, family
<1>. DEFINE undo == Revert(interruption[f])
<1>3. undo \in Frame /\ FramePeers(undo) = {}
  BY FrameTypes, NoPeers DEF TypeOK
<1>4. ASSUME NEW to, NEW body, UpdateFlags(f, to, body)
      PROVE  /\ stack'[f] = stack[f] \/ stack'[f] = <<undo>> \o stack[f]
             /\ cur'[f] = body \/ cur'[f] = InterruptCause
  BY <1>4, SMTT(30) DEF UpdateFlags, Push, Loop, TypeOK
<1>. HIDE DEF undo
<1>5. KnownBody(f)'
  <2>1. CASE OpOnExit(f)
    <3>1. \A x \in Peers(cur'[f]) : x \in Peers(cur[f])
      <4>1. cur'[f] = Guard(cur[f].job, interruption[f]) \/ cur'[f] = InterruptCause
        BY <1>4, <2>1 DEF OpOnExit
      <4>2. Peers(Guard(cur[f].job, interruption[f])) = Peers(cur[f])
        BY <2>1 DEF OpOnExit, OpAt, Peers, Guard
      <4>. QED BY <4>1, <4>2, NoPeers
    <3>2. stack'[f] = stack[f] \/ stack'[f] = <<undo>> \o stack[f]
      BY <1>4, <2>1 DEF OpOnExit
    <3>. QED BY <1>0, <1>2, <1>3, <3>1, <3>2, BodyGoes DEF KnownBody
  <2>2. CASE OpGuard(f)
    <3>1. cur'[f] = Restore(cur[f].job, cur[f].to) /\ stack'[f] = <<Final(cur[f].job)>> \o stack[f]
      BY <2>2 DEF OpGuard, Push, Loop, TypeOK
    <3>2. Peers(cur'[f]) = Peers(cur[f]) /\ FramePeers(Final(cur[f].job)) = Peers(cur[f])
      BY <2>2, <3>1 DEF OpGuard, OpAt, Peers, FramePeers, Final, Restore
    <3>3. Final(cur[f].job) \in Frame
      BY <1>0, <2>2, EffectFields, FrameTypes DEF OpGuard, OpAt
    <3>. QED BY <1>0, <1>2, <3>1, <3>2, <3>3, BodyGoes DEF KnownBody
  <2>3. CASE OpRestore(f)
    <3>1. /\ stack'[f] = stack[f] \/ stack'[f] = <<undo>> \o stack[f]
          /\ cur'[f] = Body(cur[f].job) \/ cur'[f] = InterruptCause
      BY <1>4, <2>3 DEF OpRestore
    <3>. QED BY <1>0, <1>2, <1>3, <3>1, NoPeers, BodyGoes
  <2>. QED BY <2>1, <2>2, <2>3
<1>. QED BY <1>0, <1>1, <1>5, BodyAlone DEF Step, Primitive

(* Suspending names only fibers the effect already named; the loop over the  *)
(* children awaits one of them.                                              *)
LEMMA KnownSuspend ==
  ASSUME TypeOK, KnownInv, Aged, NEW f \in Fiber, NEW g \in Fiber,
         OpAsync(f) \/ OpYield(f) \/ OpWind(f)
  PROVE  KnownMail(g)' /\ KnownBody(g)'
<1>0. KnownMail(g) /\ KnownBody(g) /\ KnownBody(f)
  BY DEF KnownInv
<1>1. Born(f) /\ Lives(f)
  BY DEF OpAsync, OpYield, OpWind, OpAt, At, Born, Aged, Lives
<1>b. ASSUME KnownBody(f)' PROVE KnownBody(g)'
  BY <1>0, <1>b, BodyAlone DEF Step, Primitive
<1>2. CASE OpAsync(f)
  <2>1. KnownBody(f)'
    BY <1>0, <1>2, BodyKept DEF OpAsync, Evaluation, family
  <2>. DEFINE e == IF asyncs[f][cur[f].i].of = NoFiber THEN AnyEffect ELSE Succ
  <2>2. Deliver(queue, NoMail) \/ Deliver(queue, To(f, Resume(e)))
    BY <1>2 DEF OpAsync
  <2>3. Resume(e) \in Message /\ Resume(e).k # "addChild"
    BY MessageTypes, OutcomeTypes DEF Resume
  <2>. HIDE DEF e
  <2>4. Len(asyncs'[g]) = Len(asyncs[g]) \/ Born(g)
    BY <1>1, <1>2 DEF OpAsync, TypeOK
  <2>5. CASE Deliver(queue, NoMail)
    <3>1. queue'[g] = queue[g] \o <<>> /\ tasks'[g] = tasks[g] /\ queue[g] \in Seq(Message)
      BY <2>5 DEF Deliver, NoMail, TypeOK
    <3>2. queue'[g] = queue[g]
      BY <3>1, ConcatEmptySeq
    <3>. QED BY <1>0, <1>b, <2>1, <2>4, <3>1, <3>2, MailKept
  <2>6. CASE Deliver(queue, To(f, Resume(e)))
    BY <1>0, <1>1, <1>b, <2>1, <2>3, <2>4, <2>6, TellsOne
  <2>. QED BY <2>2, <2>5, <2>6
<1>3. CASE OpYield(f)
  <2>1. cur'[f] = cur[f] \/ cur'[f] = Succ
    BY <1>3 DEF OpYield, Loop, TypeOK
  <2>2. KnownBody(f)'
    <3>1. \A x \in Peers(cur'[f]) : Known(x)
      BY <1>0, <2>1, NoPeers DEF KnownBody
    <3>. QED BY <1>0, <1>3, <3>1, BodyGoes DEF OpYield, family
  <2>3. CASE CooperativeYielding
    <3>. DEFINE msgs == [NoMail EXCEPT ![f] = <<YieldNow, Resume(AfterYield(f))>>]
    <3>1. Deliver(queue, msgs) /\ asyncs' = asyncs
      BY <1>3, <2>3 DEF OpYield
    <3>2. YieldNow \in Message /\ Resume(AfterYield(f)) \in Message
      BY MessageTypes, OutcomeTypes DEF AfterYield
    <3>3. msgs \in Mail
      BY <3>2, MailTypes DEF Mail
    <3>8. queue \in Mail
      BY DEF Mail, TypeOK
    <3>4. msgs[g] = <<>> \/ (g = f /\ msgs[g] = <<YieldNow, Resume(AfterYield(f))>>)
      BY DEF NoMail
    <3>. HIDE DEF msgs
    <3>5. \A j \in DOMAIN msgs[g] : msgs[g][j].k # "addChild"
      BY <3>4 DEF YieldNow, Resume
    <3>6. msgs[g] # <<>> => pc'[g] # "unborn"
      BY <1>1, <3>4 DEF Lives
    <3>7. KnownMail(g)'
      BY <1>0, <3>1, <3>3, <3>5, <3>6, <3>8, MailKnown
    <3>. QED BY <1>b, <2>2, <3>7
  <2>4. CASE ~CooperativeYielding
    <3>1. UNCHANGED mailbox /\ asyncs' = asyncs
      BY <1>3, <2>4 DEF OpYield
    <3>2. KnownMail(g)'
      BY <1>0, <3>1, MailKept DEF mailbox
    <3>. QED BY <1>b, <2>2, <3>2
  <2>. QED BY <2>3, <2>4
<1>4. CASE OpWind(f)
  <2>1. CASE winding[f] = {}
    <3>1. Loop(f, Succ) /\ UNCHANGED <<mailbox, asyncs, winding, stack, children>>
      BY <1>4, <2>1 DEF OpWind
    <3>2. KnownMail(g)'
      BY <1>0, <3>1, MailKept DEF mailbox
    <3>3. KnownBody(f)'
      BY <1>0, <3>1, NoPeers, BodyGoes DEF Loop, TypeOK
    <3>. QED BY <1>b, <3>2, <3>3
  <2>2. CASE winding[f] # {}
    <3>1. PICK c \in winding[f] :
            /\ winding' = [winding EXCEPT ![f] = @ \ {c}]
            /\ Push(f, Simple("windLoop"))
            /\ Await(f, c, AwaitJob(f, c))
      BY <1>4, <2>2 DEF OpWind
    <3>2. Known(c) /\ Lives(c) /\ c \in Fiber
      BY <1>0, <3>1 DEF KnownBody, Known, Lives, Aged
    <3>. DEFINE w == <<f, Len(asyncs[f]) + 1>>
    <3>3. Observe(w) \in Message /\ Observe(w).k # "addChild"
      <4>1. Len(asyncs[f]) + 1 \in Nat
        BY DEF TypeOK
      <4>2. w \in Waiter
        BY <4>1 DEF Waiter
      <4>. QED BY <4>2, MessageTypes DEF Observe
    <3>4. KnownMail(g)'
      <4>1. Len(asyncs'[g]) = Len(asyncs[g]) \/ Born(g)
        BY <1>1, <3>1 DEF Await, TypeOK
      <4>2. Deliver(queue, To(c, Observe(w)))
        BY <3>1 DEF Await
      <4>. HIDE DEF w
      <4>. QED BY <1>0, <3>2, <3>3, <4>1, <4>2, TellsOne
    <3>5. KnownBody(f)'
      <4>1. cur'[f] = AwaitJob(f, c) /\ Peers(AwaitJob(f, c)) \subseteq {c}
        BY <3>1 DEF Await, Loop, AwaitJob, OnExit, Peers, TypeOK
      <4>2. stack'[f] = <<Simple("windLoop")>> \o stack[f] /\ winding'[f] \subseteq winding[f]
        BY <3>1 DEF Push, TypeOK
      <4>3. Simple("windLoop") \in Frame /\ FramePeers(Simple("windLoop")) = {} /\ children' = children
            /\ stack[f] \in Seq(Frame)
        BY <1>4, FrameTypes, NoPeers DEF OpWind, TypeOK
      <4>. QED BY <1>0, <3>2, <4>1, <4>2, <4>3, BodyMoved
    <3>. QED BY <1>b, <3>4, <3>5
  <2>. QED BY <2>1, <2>2
<1>. QED BY <1>2, <1>3, <1>4

(* Unwinding a frame names only fibers the frame already named.              *)
LEMMA KnownFrames ==
  ASSUME TypeOK, KnownInv, Aged, NEW f \in Fiber, NEW g \in Fiber,
         \/ SkipFrame(f) \/ SuccessHandler(f) \/ FailureHandler(f) \/ RevertFrame(f)
         \/ UserFinalizer(f) \/ EndLoop(f)
  PROVE  KnownMail(g)' /\ KnownBody(g)'
<1>0. KnownMail(g) /\ KnownBody(g) /\ KnownBody(f)
  BY DEF KnownInv
<1>1. Pure
  BY DEF SkipFrame, SuccessHandler, FailureHandler, RevertFrame, UserFinalizer, EndLoop
<1>2. KnownMail(g)' /\ UNCHANGED <<children, winding>>
  BY <1>0, <1>1, MailKept DEF Pure, mailbox, family
<1>b. ASSUME KnownBody(f)' PROVE KnownBody(g)'
  <2>1. Step(f)
    BY DEF Step, Primitive
  <2>. QED BY <1>0, <1>b, <2>1, BodyAlone
<1>3. CASE EndLoop(f)
  BY <1>0, <1>2, <1>3, <1>b, BodyGoes DEF EndLoop, KnownBody
<1>4. CASE ~EndLoop(f)
  <2>1. stack[f] # <<>> /\ stack[f] \in Seq(Frame) /\ cur[f].k \in {"succ", "fail"}
    BY <1>4 DEF SkipFrame, SuccessHandler, FailureHandler, RevertFrame, UserFinalizer, Meets, OpAt, TypeOK
  <2>2. Peers(cur[f]) = {}
    BY <2>1, NoPeers
  <2>3. Top(f) = stack[f][1] /\ 1 \in DOMAIN stack[f]
    BY <2>1, Popping DEF Top
  <2>4. \A x \in FramePeers(Top(f)) : Known(x)
    BY <1>0, <2>3 DEF KnownBody
  <2>5. CASE SkipFrame(f)
    BY <1>0, <1>2, <1>b, <2>1, <2>2, <2>5, BodyPops DEF SkipFrame, Pop, TypeOK
  <2>6. CASE SuccessHandler(f)
    <3>1. stack'[f] = Tail(stack[f])
      BY <2>6 DEF SuccessHandler, Pop, TypeOK
    <3>2. \A x \in Peers(cur'[f]) : Known(x)
      <4>1. CASE Top(f).k \in {"succ", "both", "windLoop"}
        BY <2>6, <4>1, NoPeers DEF SuccessHandler, Loop, TypeOK
      <4>2. CASE Top(f).k = "cont"
        BY <2>4, <2>6, <4>2 DEF SuccessHandler, Loop, TypeOK, FramePeers
      <4>3. CASE Top(f).k = "result"
        <5>1. cur'[f] = Top(f).eff
          BY <2>6, <4>3 DEF SuccessHandler, Loop, TypeOK
        <5>2. Top(f) \in Frame
          BY <2>1, <2>3
        <5>3. Top(f).eff.k = "fail"
          BY <4>3, <5>2 DEF Frame, Failed
        <5>. QED BY <5>1, <5>3, NoPeers
      <4>. QED BY <2>6, <4>1, <4>2, <4>3 DEF SuccessHandler
    <3>. QED BY <1>0, <1>2, <1>b, <2>1, <3>1, <3>2, BodyPops
  <2>7. CASE FailureHandler(f)
    <3>1. stack'[f] = Tail(stack[f])
      BY <2>7 DEF FailureHandler, Pop, TypeOK
    <3>2. cur'[f] = AnyEffect \/ \E c : cur'[f] = Failed(c)
      BY <2>7 DEF FailureHandler, Loop, TypeOK
    <3>3. Peers(cur'[f]) = {}
      BY <3>2, NoPeers
    <3>. QED BY <1>0, <1>2, <1>b, <2>1, <3>1, <3>3, BodyPops
  <2>8. CASE RevertFrame(f)
    <3>1. stack'[f] = Tail(stack[f])
      BY <2>8 DEF RevertFrame, Pop, TypeOK
    <3>2. cur'[f] = cur[f] \/ \E c : cur'[f] = Failed(c)
      BY <2>8 DEF RevertFrame, Loop, InterruptCause, TypeOK
    <3>3. Peers(cur'[f]) = {}
      BY <2>2, <3>2, NoPeers
    <3>. QED BY <1>0, <1>2, <1>b, <2>1, <3>1, <3>3, BodyPops
  <2>9. CASE UserFinalizer(f)
    <3>. DEFINE r == IF IsFailure(cur[f]) THEN Result(cur[f]) ELSE Cont(cur[f])
    <3>1. stack'[f] = Tail(stack[f]) \/ stack'[f] = <<r>> \o Tail(stack[f])
      BY <2>9 DEF UserFinalizer, Pop, TypeOK
    <3>2. cur'[f] = AnyEffect \/ \E c : cur'[f] = Failed(c)
      BY <2>9 DEF UserFinalizer, Loop, TypeOK
    <3>3. r \in Frame /\ FramePeers(r) = {}
      BY <2>2, FrameTypes, NoPeers DEF IsFailure, TypeOK
    <3>. HIDE DEF r
    <3>4. Peers(cur'[f]) = {}
      BY <3>2, NoPeers
    <3>. QED BY <1>0, <1>2, <1>b, <2>1, <3>1, <3>3, <3>4, BodyPops
  <2>. QED BY <1>4, <2>5, <2>6, <2>7, <2>8, <2>9
<1>. QED BY <1>3, <1>4

(* The canceler of an await names the fiber that was awaited.                *)
LEMMA KnownCanceler ==
  ASSUME TypeOK, KnownInv, Aged, NEW f \in Fiber, NEW g \in Fiber, AwaitCanceler(f)
  PROVE  KnownMail(g)' /\ KnownBody(g)'
<1>0. KnownMail(g) /\ KnownBody(g) /\ KnownBody(f)
  BY DEF KnownInv
<1>. DEFINE job == Top(f).job
            m == Unobserve(<<f, job.i>>)
<1>1. stack[f] # <<>> /\ stack[f] \in Seq(Frame) /\ Top(f).k = "final" /\ job # UserJob
  BY DEF AwaitCanceler, Meets, TypeOK
<1>2. Top(f) = stack[f][1] /\ 1 \in DOMAIN stack[f] /\ Top(f) \in Frame
  BY <1>1, Popping DEF Top
<1>3. job.of \in Fiber /\ job.i \in Nat
  BY <1>1, <1>2, FrameFields, JobTypes
<1>4. Known(job.of)
  BY <1>0, <1>1, <1>2 DEF KnownBody, FramePeers
<1>5. m \in Message /\ m.k # "addChild" /\ Lives(job.of)
  <2>1. <<f, job.i>> \in Waiter
    BY <1>3 DEF Waiter
  <2>. QED BY <1>4, <2>1, MessageTypes DEF Unobserve, Known, Lives, Aged
<1>6. Deliver(queue, NoMail) \/ Deliver(queue, To(job.of, m))
  BY DEF AwaitCanceler
<1>7. stack'[f] = Tail(stack[f]) /\ UNCHANGED <<asyncs, children, winding>>
  BY DEF AwaitCanceler, Pop, family, TypeOK
<1>8. Peers(cur'[f]) = {}
  <2>1. cur[f].k \in {"succ", "fail"}
    BY DEF AwaitCanceler, Meets, OpAt
  <2>2. cur'[f] = cur[f] \/ \E c : cur'[f] = Failed(c)
    BY DEF AwaitCanceler, Loop, TypeOK
  <2>. QED BY <2>1, <2>2, NoPeers
<1>. HIDE DEF job, m
<1>9. KnownMail(g)'
  <2>1. CASE Deliver(queue, NoMail)
    <3>1. queue'[g] = queue[g] \o <<>> /\ tasks'[g] = tasks[g] /\ queue[g] \in Seq(Message)
      BY <2>1 DEF Deliver, NoMail, TypeOK
    <3>2. queue'[g] = queue[g]
      BY <3>1, ConcatEmptySeq
    <3>. QED BY <1>0, <1>7, <3>1, <3>2, MailKept
  <2>2. CASE Deliver(queue, To(job.of, m))
    BY <1>0, <1>3, <1>5, <1>7, <2>2, TellsOne
  <2>. QED BY <1>6, <2>1, <2>2
<1>10. KnownBody(f)'
  BY <1>0, <1>1, <1>7, <1>8, BodyPops
<1>11. Step(f)
  BY DEF Step, Primitive
<1>. QED BY <1>0, <1>9, <1>10, <1>11, BodyAlone

(* Ending an evaluation interrupts the children and answers the observers:   *)
(* all known before.                                                         *)
LEMMA KnownExit ==
  ASSUME TypeInv, KnownInv, Aged, NEW f \in Fiber, NEW g \in Fiber,
         WindDownChildren(f) \/ ExitLater(f) \/ SetExit(f)
  PROVE  KnownMail(g)' /\ KnownBody(g)'
<1>0. KnownMail(g) /\ KnownBody(g) /\ KnownBody(f) /\ TypeOK
  BY DEF KnownInv, TypeInv
<1>1. pc[f] = "exit" /\ Lives(f) /\ Step(f)
  BY DEF WindDownChildren, ExitLater, SetExit, At, Lives, Aged, Born, Step
<1>2. cur[f] \in Outcome /\ queue \in Mail
  BY <1>0, <1>1, ExitIsOutcome DEF TypeOK, Mail
<1>b. ASSUME KnownBody(f)' PROVE KnownBody(g)'
  BY <1>0, <1>1, <1>b, BodyAlone
<1>3. CASE WindDownChildren(f)
  <2>1. KnownMail(g)'
    BY <1>0, <1>2, <1>3, TellsEach DEF WindDownChildren, KnownBody
  <2>2. KnownBody(f)'
    <3>1. /\ stack'[f] = <<Cont(cur[f])>> \o stack[f] /\ cur'[f] = Wind /\ stack[f] \in Seq(Frame)
          /\ children'[f] = {} /\ winding'[f] = children[f]
      BY <1>0, <1>3 DEF WindDownChildren, ToAwait, Push, Loop, TypeOK
    <3>2. Cont(cur[f]) \in Frame /\ FramePeers(Cont(cur[f])) = Peers(cur[f]) /\ Peers(Wind) = {}
      BY <1>2, FrameTypes, OutcomeTypes, EffectTypes, NoPeers
    <3>. QED BY <1>0, <3>1, <3>2, BodyMoved DEF KnownBody
  <2>. QED BY <1>b, <2>1, <2>2
<1>4. CASE ExitLater(f)
  <2>1. Resume(cur[f]) \in Message /\ Resume(cur[f]).k # "addChild"
    BY <1>2, MessageTypes, OutcomeTypes DEF Resume
  <2>2. KnownMail(g)'
    BY <1>0, <1>1, <1>4, <2>1, TellsOne DEF ExitLater
  <2>3. KnownBody(f)'
    BY <1>0, <1>4, BodyKept DEF ExitLater, Evaluation, family
  <2>. QED BY <1>b, <2>2, <2>3
<1>5. CASE SetExit(f)
  <2>1. KnownMail(g)'
    BY <1>0, <1>2, <1>5, Wakes, OutcomeTypes DEF SetExit
  <2>2. children'[f] \subseteq children[f]
    BY <1>5 DEF SetExit
  <2>3. KnownBody(f)'
    BY <1>0, <1>5, <2>2, BodyKept DEF SetExit, Evaluation
  <2>. QED BY <1>b, <2>1, <2>3
<1>. QED BY <1>3, <1>4, <1>5

(* What happens outside any fiber names only fibers that have begun.         *)
LEMMA KnownOutside ==
  ASSUME TypeOK, KnownInv, Aged, NEW f \in Fiber, NEW g \in Fiber,
         ExternalInterrupt(f) \/ \E i \in DOMAIN asyncs[f] : ExternalCallback(f, i)
  PROVE  KnownMail(g)' /\ KnownBody(g)'
<1>0. KnownMail(g) /\ KnownBody(g) /\ queue \in Mail
  BY DEF KnownInv, TypeOK, Mail
<1>1. KnownBody(g)'
  BY <1>0, BodyKept DEF ExternalInterrupt, ExternalCallback, Evaluation, family
<1>2. CASE ExternalInterrupt(f)
  <2>1. Lives(f) /\ InterruptSignal \in Message /\ InterruptSignal.k # "addChild"
    BY <1>2, MessageTypes DEF ExternalInterrupt, Lives, Aged, InterruptSignal
  <2>. QED BY <1>0, <1>1, <1>2, <2>1, TellsOne DEF ExternalInterrupt
<1>3. ASSUME NEW i, ExternalCallback(f, i) PROVE KnownMail(g)'
  BY <1>0, <1>3, Wakes, OutcomeTypes DEF ExternalCallback
<1>. QED BY <1>1, <1>2, <1>3

(* Every step keeps it: whoever a mailbox or a run names has begun.          *)
LEMMA KnownNext == TypeInv /\ KnownInv /\ [Next]_vars => KnownInv'
<1>. SUFFICES ASSUME TypeInv, KnownInv, [Next]_vars, NEW g \in Fiber
              PROVE  KnownMail(g)' /\ KnownBody(g)'
  BY DEF KnownInv
<1>0. TypeOK /\ Aged /\ KnownMail(g) /\ KnownBody(g)
  BY Ages DEF TypeInv, KnownInv
<1>1. CASE UNCHANGED vars
  BY <1>0, <1>1, MailKept, BodyKept DEF vars, mailbox, family
<1>2. CASE Outside
  BY <1>0, <1>2, KnownThread, KnownOutside DEF Outside
<1>3. ASSUME NEW f \in Fiber, RunTask(f) PROVE KnownMail(g)' /\ KnownBody(g)'
  BY <1>0, <1>3, KnownThread
<1>4. ASSUME NEW f \in Fiber, Step(f) PROVE KnownMail(g)' /\ KnownBody(g)'
  <2>1. CASE Primitive(f)
    BY <1>0, <2>1, KnownBracket, KnownSuspend, KnownFrames, KnownCanceler DEF Primitive
  <2>2. CASE WindDownChildren(f) \/ ExitLater(f) \/ SetExit(f)
    BY <1>0, <2>2, KnownExit
  <2>3. CASE DrainStateful(f) \/ LoopStateful(f)
    BY <1>0, <2>3, KnownStateful DEF DrainStateful, LoopStateful
  <2>. QED BY <1>0, <1>4, <2>1, <2>2, <2>3, KnownThread, KnownDrain, KnownLoop, KnownUser DEF Step
<1>. QED BY <1>1, <1>2, <1>3, <1>4 DEF Next

(* With the type invariant, whom a fiber knows is an invariant: nobody is   *)
(* told, interrupted or awaited who does not exist.                         *)
THEOREM KnownCorrect == Spec => [](TypeInv /\ KnownInv)
<1>1. Init => TypeInv /\ KnownInv
  <2>1. Init => TypeInv
    BY TypeInit DEF TypeInv, ExitShape, Init
  <2>2. Init => KnownInv
    BY NoPeers DEF Init, KnownInv, KnownMail, KnownBody
  <2>. QED BY <2>1, <2>2
<1>2. TypeInv /\ KnownInv /\ [Next]_vars => (TypeInv /\ KnownInv)'
  BY TypeNext, ShapeNext, KnownNext DEF TypeInv
<1>. QED BY <1>1, <1>2, PTL DEF Spec

(***************************************************************************)
(* A fiber has one continuation.                                           *)
(*                                                                         *)
(* What a run checks, that a fiber is resumed by one message or one callback *)
(* at a time, depends on how it came to be suspended.  ContOf says which of *)
(* four ways a fiber is in: it runs (Runs), a message will resume it        *)
(* (Resumes), a callback will (Awaits), or it has not begun or is done      *)
(* (Absent).  A frame, or an effect about to be executed, that goes on with *)
(* a wait names the last operation that was registered (Current), and only  *)
(* frames that end or yield stand above such a frame (StackOK), so that no  *)
(* effect of the user runs before it.                                      *)
(***************************************************************************)

(* Effects that do nothing but end or yield; effects that name a callback.  *)
Passive == {Yield} \cup Outcome

Refs(e) ==
  CASE e.k = "async" -> {e.i}
    [] e.k \in {"onExit", "guard", "restore"} /\ e.job # UserJob -> {e.job.i}
    [] OTHER -> {}

Current(n, e) == \A i \in Refs(e) : i = n /\ n > 0

(* Exits and yields are passive, and effects without a callback refer to no  *)
(* asynchronous operation.                                                   *)
LEMMA PassiveKinds ==
  /\ \A e \in Passive : e.k \in {"yield", "succ", "fail"}
  /\ \A e \in Outcome : e \in Passive /\ Refs(e) = {}
  /\ Yield \in Passive /\ InterruptCause \in Passive /\ Succ \in Passive
  /\ \A e : e.k \in {"any", "succ", "fail", "yield", "wind"} => Refs(e) = {}
  /\ \A c \in Causes : Failed(c) \in Passive
<1>1. \A e \in Outcome : e.k \in {"succ", "fail"}
  BY DEF Outcome, Succ, Failed
<1>2. \A e : e.k \in {"any", "succ", "fail", "yield", "wind"} => Refs(e) = {}
  BY DEF Refs
<1>3. \A c \in Causes : Failed(c) \in Outcome
  BY OutcomeTypes
<1>. QED BY <1>1, <1>2, <1>3, OutcomeTypes DEF Passive, Yield

(* A frame that goes on with a wait already registered stands below frames   *)
(* that only end or yield: no user's effect runs before it.                 *)
PassiveFrame(r) == r.k = "cont" /\ r.eff \in Passive
Pending(r) == r.k = "cont" /\ Refs(r.eff) # {}
Clean(s) == \A j \in DOMAIN s : ~Pending(s[j])
StackOK(s, n) ==
  \A j \in DOMAIN s : Pending(s[j]) =>
    Current(n, s[j].eff) /\ \A k \in 1..(j - 1) : PassiveFrame(s[k])

NoResume(q) == \A j \in DOMAIN q : q[j].k # "resume"
OneResume(q, E) ==
  \E j \in DOMAIN q : /\ q[j].k = "resume" /\ q[j].eff \in E
                      /\ \A k \in DOMAIN q : k # j => q[k].k # "resume"
NoneArmed(a) == \A i \in DOMAIN a : a[i].st # "armed"
LastArmed(a) == /\ a # <<>> /\ a[Len(a)].st = "armed"
                /\ \A i \in DOMAIN a : a[i].st = "armed" => i = Len(a)

(* The four ways to be of a fiber: it runs, a message or a callback will     *)
(* resume it, or it has not begun or is done.                               *)
Off(g) == pc[g] \in {"out", "drain", "leave"}
May(g) == IF Clean(stack[g]) THEN Resumable ELSE Passive
Runs(g) == Evaluating(g) /\ ~Done(g) /\ NoResume(queue[g]) /\ NoneArmed(asyncs[g])
Resumes(g) == Off(g) /\ ~Done(g) /\ OneResume(queue[g], May(g)) /\ NoneArmed(asyncs[g])
Awaits(g) == /\ Off(g) /\ ~Done(g) /\ NoResume(queue[g]) /\ LastArmed(asyncs[g])
             /\ cur[g] = Async(Len(asyncs[g]))
Absent(g) == /\ pc[g] = "unborn" \/ (Off(g) /\ Done(g))
             /\ NoResume(queue[g]) /\ NoneArmed(asyncs[g])

ContOf(g) ==
  /\ Runs(g) \/ Resumes(g) \/ Awaits(g) \/ Absent(g)
  /\ interruptor[g] # 0 => Off(g) /\ interruptor[g] = Len(asyncs[g])
  /\ Current(Len(asyncs[g]), cur[g])
  /\ StackOK(stack[g], Len(asyncs[g]))
  /\ Clean(stack[g]) \/ cur[g] \in Passive
  /\ pc[g] \in {"unborn", "exit"} \/ Done(g) => stack[g] = <<>>
  /\ pc[g] = "unborn" => ~Done(g)

ContInv == \A g \in Fiber : ContOf(g)

-----------------------------------------------------------------------------
(* Resume messages in longer and shorter inboxes.                           *)
LEMMA ResumeJoin ==
  ASSUME NEW S, NEW a \in Seq(S), NEW b \in Seq(S)
  PROVE  /\ NoResume(a) /\ NoResume(b) => NoResume(a \o b)
         /\ \A E : OneResume(a, E) /\ NoResume(b) => OneResume(a \o b, E)
         /\ \A E : NoResume(a) /\ OneResume(b, E) => OneResume(a \o b, E)
<1>. DEFINE c == a \o b
<1>1. /\ \A j \in DOMAIN c : \/ j \in DOMAIN a /\ c[j] = a[j]
                             \/ j - Len(a) \in DOMAIN b /\ c[j] = b[j - Len(a)]
      /\ \A j \in DOMAIN a : j \in DOMAIN c /\ c[j] = a[j]
      /\ \A j \in DOMAIN b : Len(a) + j \in DOMAIN c /\ c[Len(a) + j] = b[j]
  BY Appended
<1>0. DOMAIN c = 1..Len(c) /\ Len(c) \in Nat /\ Len(a) \in Nat /\ DOMAIN a = 1..Len(a)
      /\ DOMAIN b = 1..Len(b) /\ Len(b) \in Nat
  <2>1. c \in Seq(S)
    BY Appended
  <2>. HIDE DEF c
  <2>. QED BY <2>1
<1>. HIDE DEF c
<1>2. NoResume(a) /\ NoResume(b) => NoResume(c)
  BY <1>1 DEF NoResume
<1>3. ASSUME NEW E, OneResume(a, E), NoResume(b) PROVE OneResume(c, E)
  <2>1. PICK j \in DOMAIN a : /\ a[j].k = "resume" /\ a[j].eff \in E
                              /\ \A k \in DOMAIN a : k # j => a[k].k # "resume"
    BY <1>3 DEF OneResume
  <2>2. j \in DOMAIN c /\ c[j] = a[j]
    BY <1>1
  <2>3. \A k \in DOMAIN c : k # j => c[k].k # "resume"
    BY <1>1, <1>3, <2>1 DEF NoResume
  <2>. QED BY <2>1, <2>2, <2>3 DEF OneResume
<1>4. ASSUME NEW E, NoResume(a), OneResume(b, E) PROVE OneResume(c, E)
  <2>1. PICK j \in DOMAIN b : /\ b[j].k = "resume" /\ b[j].eff \in E
                              /\ \A k \in DOMAIN b : k # j => b[k].k # "resume"
    BY <1>4 DEF OneResume
  <2>2. Len(a) + j \in DOMAIN c /\ c[Len(a) + j] = b[j]
    BY <1>1
  <2>3. ASSUME NEW k \in DOMAIN c, k # Len(a) + j PROVE c[k].k # "resume"
    <3>1. CASE k \in DOMAIN a /\ c[k] = a[k]
      BY <1>4, <3>1 DEF NoResume
    <3>2. CASE k - Len(a) \in DOMAIN b /\ c[k] = b[k - Len(a)]
      <4>1. k - Len(a) # j
        BY <1>0, <2>3
      <4>. QED BY <2>1, <3>2, <4>1
    <3>. QED BY <1>1, <3>1, <3>2
  <2>. QED BY <2>1, <2>2, <2>3 DEF OneResume
<1>. QED BY <1>2, <1>3, <1>4 DEF c

(* What is left to resume with after the first message is taken.             *)
LEMMA ResumeTail ==
  ASSUME NEW S, NEW s \in Seq(S), s # <<>>
  PROVE  /\ NoResume(s) => NoResume(Tail(s)) /\ Head(s).k # "resume"
         /\ \A E : OneResume(s, E) /\ Head(s).k # "resume" => OneResume(Tail(s), E)
         /\ \A E : OneResume(s, E) /\ Head(s).k = "resume" => NoResume(Tail(s)) /\ Head(s).eff \in E
<1>. DEFINE t == Tail(s)
<1>1. /\ Head(s) \in S /\ 1 \in DOMAIN s /\ Head(s) = s[1]
      /\ \A j \in DOMAIN t : j + 1 \in DOMAIN s /\ t[j] = s[j + 1]
      /\ \A j \in DOMAIN s : j = 1 \/ (j - 1 \in DOMAIN t /\ t[j - 1] = s[j])
  BY Popping
<1>2. DOMAIN t \subseteq Nat \ {0} /\ DOMAIN s \subseteq Nat \ {0}
  OBVIOUS
<1>. HIDE DEF t
<1>3. NoResume(s) => NoResume(t) /\ Head(s).k # "resume"
  BY <1>1 DEF NoResume
<1>4. ASSUME NEW E, OneResume(s, E), Head(s).k # "resume" PROVE OneResume(t, E)
  <2>1. PICK j \in DOMAIN s : /\ s[j].k = "resume" /\ s[j].eff \in E
                              /\ \A k \in DOMAIN s : k # j => s[k].k # "resume"
    BY <1>4 DEF OneResume
  <2>2. j - 1 \in DOMAIN t /\ t[j - 1] = s[j]
    BY <1>1, <1>4, <2>1
  <2>3. ASSUME NEW k \in DOMAIN t, k # j - 1 PROVE t[k].k # "resume"
    <3>1. k + 1 # j
      BY <1>2, <2>3
    <3>. QED BY <1>1, <2>1, <3>1
  <2>. QED BY <2>1, <2>2, <2>3 DEF OneResume
<1>5. ASSUME NEW E, OneResume(s, E), Head(s).k = "resume" PROVE NoResume(t) /\ Head(s).eff \in E
  <2>1. PICK j \in DOMAIN s : /\ s[j].k = "resume" /\ s[j].eff \in E
                              /\ \A k \in DOMAIN s : k # j => s[k].k # "resume"
    BY <1>5 DEF OneResume
  <2>2. j = 1
    BY <1>1, <1>5, <2>1
  <2>3. ASSUME NEW k \in DOMAIN t PROVE t[k].k # "resume"
    <3>1. k + 1 # 1
      BY <1>2
    <3>. QED BY <1>1, <2>1, <2>2, <3>1
  <2>. QED BY <1>1, <2>1, <2>2, <2>3 DEF NoResume
<1>. QED BY <1>3, <1>4, <1>5 DEF t

(* Mailboxes with no resumption, and those with the one just told.           *)
LEMMA ResumeShort ==
  /\ NoResume(<<>>)
  /\ \A m : m.k # "resume" => NoResume(<<m>>)
  /\ \A E, e : e \in E => OneResume(<<Resume(e)>>, E)
  /\ \A E, e : e \in E => OneResume(<<YieldNow, Resume(e)>>, E)
BY DEF NoResume, OneResume, Resume, YieldNow

-----------------------------------------------------------------------------
(* Stacks.                                                                  *)
LEMMA CleanOK ==
  ASSUME NEW s, NEW n, Clean(s)
  PROVE  StackOK(s, n)
BY DEF Clean, StackOK

(* Pushing a frame that holds no pending effect keeps the stack clean.       *)
LEMMA PushClean ==
  ASSUME NEW S, NEW s \in Seq(S), NEW r \in S, Clean(s), ~Pending(r)
  PROVE  Clean(<<r>> \o s)
BY Pushed DEF Clean

(* Pushing a frame keeps the order of pending and passive frames that        *)
(* StackOK requires.                                                         *)
LEMMA PushOK ==
  ASSUME NEW S, NEW s \in Seq(S), NEW r \in S, NEW n, StackOK(s, n),
         Pending(r) => Current(n, r.eff), Clean(s) \/ PassiveFrame(r)
  PROVE  StackOK(<<r>> \o s, n)
<1>. DEFINE t == <<r>> \o s
<1>1. /\ t[1] = r
      /\ \A j \in DOMAIN t : j = 1 \/ (j - 1 \in DOMAIN s /\ t[j] = s[j - 1])
      /\ t \in Seq(S)
  BY Pushed
<1>. HIDE DEF t
<1>2. DOMAIN t = 1..Len(t) /\ Len(t) \in Nat
  BY <1>1
<1>3. ASSUME NEW j \in DOMAIN t, Pending(t[j])
      PROVE  Current(n, t[j].eff) /\ \A k \in 1..(j - 1) : PassiveFrame(t[k])
  <2>1. CASE j = 1
    BY <1>1, <1>3, <2>1
  <2>2. CASE j # 1
    <3>1. j - 1 \in DOMAIN s /\ t[j] = s[j - 1]
      BY <1>1, <2>2
    <3>2. Current(n, s[j - 1].eff) /\ \A k \in 1..(j - 1 - 1) : PassiveFrame(s[k])
      BY <1>3, <3>1 DEF StackOK
    <3>3. PassiveFrame(r)
      BY <1>3, <3>1 DEF Clean
    <3>4. ASSUME NEW k \in 1..(j - 1), k # 1 PROVE PassiveFrame(t[k])
      <4>1. k \in DOMAIN t /\ k - 1 \in 1..(j - 1 - 1)
        BY <1>2, <3>4
      <4>. QED BY <1>1, <3>2, <3>4, <4>1
    <3>. QED BY <1>1, <3>1, <3>2, <3>3, <3>4
  <2>. QED BY <2>1, <2>2
<1>. QED BY <1>3 DEF StackOK, t

(* Popping a frame keeps that order, and tells what the frame may hold.      *)
LEMMA PopOK ==
  ASSUME NEW S, NEW s \in Seq(S), s # <<>>, NEW n, StackOK(s, n)
  PROVE  /\ StackOK(Tail(s), n)
         /\ ~PassiveFrame(Head(s)) => Clean(Tail(s))
         /\ Pending(Head(s)) => Current(n, Head(s).eff)
<1>. DEFINE t == Tail(s)
<1>1. /\ Head(s) \in S /\ 1 \in DOMAIN s /\ Head(s) = s[1]
      /\ \A j \in DOMAIN t : j + 1 \in DOMAIN s /\ t[j] = s[j + 1]
  BY Popping
<1>2. DOMAIN t \subseteq Nat \ {0} /\ DOMAIN s \subseteq Nat \ {0}
      /\ DOMAIN t = 1..Len(t) /\ Len(t) \in Nat
  OBVIOUS
<1>. HIDE DEF t
<1>3. ASSUME NEW j \in DOMAIN t, Pending(t[j])
      PROVE  /\ Current(n, t[j].eff) /\ PassiveFrame(Head(s))
             /\ \A k \in 1..(j - 1) : PassiveFrame(t[k])
  <2>0. j + 1 \in DOMAIN s /\ t[j] = s[j + 1] /\ Pending(s[j + 1])
    <3>1. j + 1 \in DOMAIN s /\ t[j] = s[j + 1]
      BY <1>1
    <3>. QED BY <1>3, <3>1
  <2>1. /\ Current(n, s[j + 1].eff) /\ \A k \in 1..(j + 1 - 1) : PassiveFrame(s[k])
    BY <2>0 DEF StackOK
  <2>2. PassiveFrame(s[1])
    BY <1>2, <2>1
  <2>3. ASSUME NEW k \in 1..(j - 1) PROVE PassiveFrame(t[k])
    <3>1. k \in DOMAIN t /\ k + 1 \in 1..(j + 1 - 1)
      BY <1>2, <2>3
    <3>. QED BY <1>1, <2>1, <3>1
  <2>. QED BY <1>1, <2>0, <2>1, <2>2, <2>3
<1>4. StackOK(t, n)
  BY <1>3 DEF StackOK
<1>5. ~PassiveFrame(Head(s)) => Clean(t)
  BY <1>3 DEF Clean
<1>6. Pending(Head(s)) => Current(n, Head(s).eff)
  BY <1>1 DEF StackOK
<1>. QED BY <1>4, <1>5, <1>6 DEF t

-----------------------------------------------------------------------------
(* What a step may add to an inbox: no resumption, or the one resumption of  *)
(* the callback that was waiting.                                           *)
Hears(g, q) ==
  /\ Len(asyncs'[g]) = Len(asyncs[g])
  /\ \/ /\ NoResume(q) => NoResume(queue'[g])
        /\ \A E : OneResume(q, E) => OneResume(queue'[g], E)
        /\ NoneArmed(asyncs[g]) => NoneArmed(asyncs'[g])
        /\ LastArmed(asyncs[g]) => LastArmed(asyncs'[g])
     \/ /\ LastArmed(asyncs[g]) /\ NoneArmed(asyncs'[g])
        /\ NoResume(q) => OneResume(queue'[g], Resumable)

(* Either nothing in the inbox or a callback concerns the resumption.       *)
LEMMA HearsNothing ==
  ASSUME NEW g \in Fiber, queue'[g] = queue[g], asyncs'[g] = asyncs[g]
  PROVE  Hears(g, queue[g])
BY DEF Hears

(* A fiber that is told something other than a resumption hears nothing      *)
(* that could resume it.                                                     *)
LEMMA HearsMail ==
  ASSUME NEW g \in Fiber, NEW q \in Seq(Message), NEW m \in Seq(Message), queue'[g] = q \o m,
         NoResume(m), asyncs'[g] = asyncs[g]
  PROVE  Hears(g, q)
BY ResumeJoin DEF Hears

(* Calling callbacks: a fiber that waits gets exactly one resumption.       *)
LEMMA Firing ==
  ASSUME TypeOK, NEW g \in Fiber, NEW S, Fire(S), NEW e \in Resumable,
         \A w \in S : w = <<w[1], w[2]>>
  PROVE  /\ Len(asyncs'[g]) = Len(asyncs[g])
         /\ NoneArmed(asyncs[g]) => NoneArmed(asyncs'[g]) /\ Resumed(S, e)[g] = <<>>
         /\ LastArmed(asyncs[g]) =>
              \/ LastArmed(asyncs'[g]) /\ Resumed(S, e)[g] = <<>>
              \/ NoneArmed(asyncs'[g]) /\ Resumed(S, e)[g] = <<Resume(e)>>
<1>1. /\ Len(asyncs'[g]) = Len(asyncs[g]) /\ DOMAIN asyncs'[g] = DOMAIN asyncs[g]
      /\ \A i \in DOMAIN asyncs[g] :
              asyncs'[g][i] = IF <<g, i>> \in S THEN Fired(asyncs[g][i]) ELSE asyncs[g][i]
      /\ asyncs'[g] \in Seq(AsyncState)
  BY FireShape
<1>2. \A i \in DOMAIN asyncs[g] : asyncs[g][i] \in AsyncState
  BY DEF TypeOK
<1>3. \A a \in AsyncState : /\ a.st = "armed" => Fired(a).st # "armed"
                            /\ a.st # "armed" => Fired(a).st # "armed"
  BY DEF Fired, AsyncState
<1>4. Resumed(S, e)[g] = IF \E w \in S : w[1] = g /\ Armed(g, w[2]) THEN <<Resume(e)>> ELSE <<>>
  BY LetterResumed, Zenon
<1>5. ASSUME NoneArmed(asyncs[g]) PROVE NoneArmed(asyncs'[g]) /\ Resumed(S, e)[g] = <<>>
  <2>1. \A i : ~Armed(g, i)
    BY <1>5 DEF NoneArmed, Armed
  <2>2. NoneArmed(asyncs'[g])
    BY <1>1, <1>2, <1>3, <1>5 DEF NoneArmed
  <2>. QED BY <1>4, <2>1, <2>2
<1>6. ASSUME LastArmed(asyncs[g])
      PROVE  \/ LastArmed(asyncs'[g]) /\ Resumed(S, e)[g] = <<>>
             \/ NoneArmed(asyncs'[g]) /\ Resumed(S, e)[g] = <<Resume(e)>>
  <2>. DEFINE n == Len(asyncs[g])
  <2>1. n \in DOMAIN asyncs[g] /\ \A i \in DOMAIN asyncs[g] : asyncs[g][i].st = "armed" => i = n
    BY <1>6 DEF LastArmed, TypeOK
  <2>2. \A i \in DOMAIN asyncs[g] : i # n => asyncs'[g][i].st # "armed"
    BY <1>1, <1>2, <1>3, <2>1
  <2>3. CASE <<g, n>> \in S
    <3>1. NoneArmed(asyncs'[g])
      BY <1>1, <1>2, <1>3, <1>6, <2>1, <2>2, <2>3 DEF NoneArmed, LastArmed
    <3>2. Armed(g, n)
      BY <1>6, <2>1 DEF Armed, LastArmed
    <3>3. \E w \in S : w[1] = g /\ Armed(g, w[2])
      <4>1. <<g, n>>[1] = g /\ <<g, n>>[2] = n
        OBVIOUS
      <4>. QED BY <2>3, <3>2, <4>1
    <3>. QED BY <1>4, <3>1, <3>3
  <2>4. CASE <<g, n>> \notin S
    <3>1. asyncs'[g][n] = asyncs[g][n]
      BY <1>1, <2>1, <2>4
    <3>2. LastArmed(asyncs'[g])
      BY <1>1, <1>6, <2>1, <2>2, <3>1 DEF LastArmed
    <3>3. ~\E w \in S : w[1] = g /\ Armed(g, w[2])
      <4>1. SUFFICES ASSUME NEW w \in S, w[1] = g, Armed(g, w[2]) PROVE FALSE
        OBVIOUS
      <4>2. w[2] = n
        BY <2>1, <4>1 DEF Armed
      <4>3. w = <<g, n>>
        BY <4>1, <4>2
      <4>. QED BY <2>4, <4>1, <4>3
    <3>. QED BY <1>4, <3>2, <3>3
  <2>. QED BY <2>3, <2>4
<1>. QED BY <1>1, <1>5, <1>6

(* A fiber whose callback is called hears at most one resumption, from the   *)
(* one operation that was still armed.                                       *)
LEMMA HearsFire ==
  ASSUME TypeOK, NEW g \in Fiber, NEW S, Fire(S), NEW e \in Resumable,
         \A w \in S : w = <<w[1], w[2]>>, NEW q \in Seq(Message), NEW m \in Seq(Message), NoResume(m),
         queue'[g] = q \o (m \o Resumed(S, e)[g]), NoneArmed(asyncs[g]) \/ LastArmed(asyncs[g])
  PROVE  Hears(g, q)
<1>. DEFINE r == Resumed(S, e)[g]
<1>1. Resume(e) \in Message /\ <<Resume(e)>> \in Seq(Message)
  BY MessageTypes
<1>2. /\ Len(asyncs'[g]) = Len(asyncs[g])
      /\ NoneArmed(asyncs[g]) => NoneArmed(asyncs'[g]) /\ r = <<>>
      /\ LastArmed(asyncs[g]) => \/ LastArmed(asyncs'[g]) /\ r = <<>>
                                 \/ NoneArmed(asyncs'[g]) /\ r = <<Resume(e)>>
  BY Firing
<1>. HIDE DEF r
<1>3. CASE r = <<>>
  <2>1. m \o r = m
    BY <1>3
  <2>2. queue'[g] = q \o m
    BY <2>1 DEF r
  <2>3. NoResume(q) => NoResume(queue'[g])
    BY <2>2, ResumeJoin
  <2>4. \A E : OneResume(q, E) => OneResume(queue'[g], E)
    BY <2>2, ResumeJoin
  <2>. QED BY <1>2, <1>3, <2>3, <2>4 DEF Hears
<1>4. CASE r # <<>>
  <2>1. LastArmed(asyncs[g]) /\ NoneArmed(asyncs'[g]) /\ r = <<Resume(e)>>
    BY <1>2, <1>4
  <2>2. r \in Seq(Message) /\ m \o r \in Seq(Message)
    BY <1>1, <2>1
  <2>3. OneResume(r, Resumable)
    BY <2>1, ResumeShort
  <2>4. OneResume(m \o r, Resumable)
    BY <2>2, <2>3, ResumeJoin
  <2>5. NoResume(q) => OneResume(q \o (m \o r), Resumable)
    BY <2>2, <2>4, ResumeJoin
  <2>6. queue'[g] = q \o (m \o r)
    BY DEF r
  <2>. QED BY <1>2, <2>1, <2>5, <2>6 DEF Hears
<1>. QED BY <1>3, <1>4

(* A fiber whose run loop stands still: it hears its messages, and may take   *)
(* one that is no resumption.                                               *)
LEMMA Listens ==
  ASSUME TypeOK, NEW g \in Fiber, ContOf(g),
         UNCHANGED <<cur[g], stack[g], exit[g]>>, interruptor'[g] \in {interruptor[g], 0},
         \/ pc'[g] = pc[g]
         \/ Off(g) /\ pc'[g] \in {"out", "drain", "leave"}
         \/ pc[g] \in {"loop", "op"} /\ pc'[g] \in {"loop", "op"},
         \/ Hears(g, queue[g])
         \/ queue[g] # <<>> /\ Head(queue[g]).k # "resume" /\ Hears(g, Tail(queue[g]))
  PROVE  ContOf(g)'
<1>1. queue[g] \in Seq(Message)
  BY DEF TypeOK
<1>2. PICK q : /\ Hears(g, q)
               /\ NoResume(queue[g]) => NoResume(q)
               /\ \A E : OneResume(queue[g], E) => OneResume(q, E)
  BY <1>1, ResumeTail
<1>3. Off(g)' <=> Off(g)
  BY DEF Off
<1>4. Evaluating(g)' <=> Evaluating(g)
  BY DEF Off, Evaluating
<1>5. Done(g)' <=> Done(g)
  BY DEF Done
<1>6. (pc'[g] = "unborn" <=> pc[g] = "unborn") /\ (pc'[g] = "exit" <=> pc[g] = "exit")
  BY DEF Off
<1>7. May(g)' = May(g)
  BY DEF May
<1>8. Len(asyncs'[g]) = Len(asyncs[g])
  BY <1>2 DEF Hears
<1>9. Runs(g)' \/ Resumes(g)' \/ Awaits(g)' \/ Absent(g)'
  <2>0. ASSUME NoneArmed(asyncs[g])
        PROVE  /\ NoneArmed(asyncs'[g])
               /\ NoResume(q) => NoResume(queue'[g])
               /\ \A E : OneResume(q, E) => OneResume(queue'[g], E)
    <3>1. ~LastArmed(asyncs[g])
      BY <2>0 DEF LastArmed, NoneArmed, TypeOK
    <3>. QED BY <1>2, <2>0, <3>1 DEF Hears
  <2>1. CASE Runs(g)
    <3>1. NoResume(queue'[g]) /\ NoneArmed(asyncs'[g])
      BY <1>2, <2>0, <2>1 DEF Runs
    <3>. QED BY <1>4, <1>5, <2>1, <3>1 DEF Runs
  <2>2. CASE Resumes(g)
    <3>1. OneResume(queue'[g], May(g)) /\ NoneArmed(asyncs'[g])
      BY <1>2, <2>0, <2>2 DEF Resumes
    <3>. QED BY <1>3, <1>5, <1>7, <2>2, <3>1 DEF Resumes
  <2>3. CASE Awaits(g)
    <3>1. cur[g] \notin Passive
      BY <2>3, PassiveKinds DEF Awaits, Async
    <3>2. May(g)' = Resumable
      BY <1>7, <3>1 DEF May, ContOf
    <3>3. Off(g)' /\ ~Done(g)' /\ NoResume(q) /\ LastArmed(asyncs[g])
      BY <1>2, <1>3, <1>5, <2>3 DEF Awaits
    <3>4. cur'[g] = Async(Len(asyncs'[g]))
      BY <1>8, <2>3 DEF Awaits
    <3>5. \/ NoResume(queue'[g]) /\ LastArmed(asyncs'[g])
          \/ OneResume(queue'[g], Resumable) /\ NoneArmed(asyncs'[g])
      BY <1>2, <3>3 DEF Hears
    <3>. QED BY <3>2, <3>3, <3>4, <3>5 DEF Awaits, Resumes
  <2>4. CASE Absent(g)
    <3>1. NoResume(queue'[g]) /\ NoneArmed(asyncs'[g])
      BY <1>2, <2>0, <2>4 DEF Absent
    <3>. QED BY <1>3, <1>5, <1>6, <2>4, <3>1 DEF Absent
  <2>. QED BY <2>1, <2>2, <2>3, <2>4 DEF ContOf
<1>. QED BY <1>3, <1>5, <1>6, <1>8, <1>9 DEF ContOf

(* The run loop goes on with another effect or another stack.               *)
LEMMA Goes ==
  ASSUME TypeOK, NEW f \in Fiber, ContOf(f), Evaluating(f),
         pc'[f] \in {"loop", "op"} \/ (pc'[f] = "exit" /\ stack'[f] = <<>>),
         exit'[f] = exit[f], interruptor'[f] = interruptor[f],
         NoResume(queue'[f]), NoneArmed(asyncs'[f]),
         Current(Len(asyncs'[f]), cur'[f]), StackOK(stack'[f], Len(asyncs'[f])),
         Clean(stack'[f]) \/ cur'[f] \in Passive
  PROVE  ContOf(f)'
<1>1. Runs(f) /\ ~Off(f) /\ interruptor[f] = 0
  BY DEF ContOf, Resumes, Awaits, Absent, Evaluating, Off
<1>2. Runs(f)' /\ ~Done(f)'
  BY <1>1 DEF Runs, Evaluating, Done
<1>. QED BY <1>1, <1>2 DEF ContOf

-----------------------------------------------------------------------------
(* What the sends of the module are to the one who hears them.              *)
LEMMA HearsTo ==
  ASSUME NEW g \in Fiber, NEW q \in Mail, NEW h \in Fiber, NEW m \in Message, m.k # "resume",
         Deliver(q, To(h, m)), asyncs'[g] = asyncs[g]
  PROVE  Hears(g, q[g])
<1>. DEFINE t == To(h, m)[g]
<1>1. t = <<m>> \/ t = <<>>
  BY LetterTo
<1>2. queue'[g] = q[g] \o t /\ q[g] \in Seq(Message)
  BY DEF Deliver, Mail
<1>. HIDE DEF t
<1>a. <<m>> \in Seq(Message) /\ <<>> \in Seq(Message) /\ NoResume(<<m>>) /\ NoResume(<<>>)
  BY ResumeShort
<1>3. NoResume(t) /\ t \in Seq(Message)
  BY <1>1, <1>a
<1>. QED BY <1>2, <1>3, HearsMail

(* Telling the interruption signal resumes nobody.                           *)
LEMMA HearsEach ==
  ASSUME NEW g \in Fiber, NEW q \in Mail, NEW S,
         Deliver(q, ToEach(S, InterruptSignal)), asyncs'[g] = asyncs[g]
  PROVE  Hears(g, q[g])
<1>. DEFINE t == ToEach(S, InterruptSignal)[g]
<1>1. t = <<InterruptSignal>> \/ t = <<>>
  BY LetterEach, Zenon
<1>2. queue'[g] = q[g] \o t /\ q[g] \in Seq(Message)
  BY DEF Deliver, Mail
<1>. HIDE DEF t
<1>3. InterruptSignal \in Message /\ InterruptSignal.k # "resume"
  BY MessageTypes DEF InterruptSignal
<1>a. /\ <<InterruptSignal>> \in Seq(Message) /\ <<>> \in Seq(Message)
      /\ NoResume(<<InterruptSignal>>) /\ NoResume(<<>>)
  BY <1>3, ResumeShort
<1>4. NoResume(t) /\ t \in Seq(Message)
  BY <1>1, <1>a
<1>. QED BY <1>2, <1>4, HearsMail

(* Calling callbacks resumes each fiber at most once.                        *)
LEMMA HearsCall ==
  ASSUME TypeOK, NEW g \in Fiber, NEW q \in Mail, NEW S, Fire(S), NEW e \in Resumable,
         \A w \in S : w = <<w[1], w[2]>>, Deliver(q, Resumed(S, e)),
         NoneArmed(asyncs[g]) \/ LastArmed(asyncs[g])
  PROVE  Hears(g, q[g])
<1>. DEFINE r == Resumed(S, e)[g]
<1>1. queue'[g] = q[g] \o r /\ q[g] \in Seq(Message)
  BY DEF Deliver, Mail
<1>2. r \in Seq(Message)
  BY MailTypes DEF Mail
<1>. HIDE DEF r
<1>3. <<>> \in Seq(Message) /\ NoResume(<<>>) /\ <<>> \o r = r
  BY <1>2, ResumeShort, ConcatEmptySeq
<1>4. queue'[g] = q[g] \o (<<>> \o r)
  BY <1>1, <1>3
<1>. QED BY <1>1, <1>3, <1>4, HearsFire DEF r

(* At most the last asynchronous operation of a fiber is still armed.        *)
LEMMA ArmedOrNot ==
  ASSUME NEW g \in Fiber, ContOf(g)
  PROVE  NoneArmed(asyncs[g]) \/ LastArmed(asyncs[g])
BY DEF ContOf, Runs, Resumes, Awaits, Absent

(* The others stay where they are; only a fiber that is forked moves.       *)
Stays(g) == pc'[g] = pc[g] /\ exit'[g] = exit[g]

(* A step of one fiber leaves the run of another where it is.                *)
LEMMA Elsewhere ==
  ASSUME TypeOK, NEW f \in Fiber, NEW g \in Fiber, g # f, RunTask(f) \/ Step(f),
         \A daemon : ~UserFork(f, g, daemon)
  PROVE  Stays(g)
<1>. USE DEF TypeOK, Stays
<1>1. CASE RunTask(f) \/ Return(f) \/ DrainDone(f) \/ DrainYield(f) \/ BeginOp(f)
  BY <1>1 DEF RunTask, Return, DrainDone, DrainYield, BeginOp, Goto
<1>2. CASE DrainInterrupt(f) \/ DrainResume(f) \/ DrainStateful(f) \/ LoopStateful(f)
  BY <1>2 DEF DrainInterrupt, DrainResume, Evaluate, Loop, Goto, DrainStateful, LoopStateful,
              Stateful1, control
<1>3. CASE LoopInterrupt(f) \/ Preempt(f) \/ WindDownChildren(f) \/ ExitLater(f) \/ SetExit(f)
  BY <1>3 DEF LoopInterrupt, Preempt, WindDownChildren, ExitLater, SetExit, Loop, Goto, control
<1>4. CASE UserOp(f)
  <2>1. ASSUME NEW to, UserFlags(f, to) PROVE Stays(g)
    BY <2>1 DEF UserFlags, UpdateFlags, Pure, Loop, Goto
  <2>2. ASSUME NEW c \in Fiber, NEW daemon, UserFork(f, c, daemon) PROVE Stays(g)
    <3>1. c # g
      BY <2>2
    <3>. QED BY <2>2, <3>1 DEF UserFork
  <2>3. CASE UserSucceed(f) \/ UserFail(f) \/ UserOnExit(f) \/ UserYield(f)
    BY <2>3 DEF UserSucceed, UserFail, UserOnExit, UserYield, Pure, Loop, Goto
  <2>4. ASSUME NEW kind, NEW st, NEW h, UserFrame(f, kind) \/ UserAsync(f, st) \/ UserAwait(f, h)
        PROVE  Stays(g)
    BY <2>4 DEF UserFrame, UserAsync, UserAwait, Await, Pure, Loop, Goto
  <2>5. ASSUME NEW h, NEW i, UserInterrupt(f, h) \/ UserCallback(f, h, i) PROVE Stays(g)
    BY <2>5 DEF UserInterrupt, UserCallback, control
  <2>. QED BY <1>4, <2>1, <2>2, <2>3, <2>4, <2>5 DEF UserOp
<1>5. CASE Primitive(f)
  <2>1. CASE OpOnExit(f) \/ OpGuard(f) \/ OpRestore(f)
    BY <2>1 DEF OpOnExit, OpGuard, OpRestore, UpdateFlags, Pure, Loop, Goto
  <2>2. CASE OpAsync(f) \/ OpYield(f) \/ OpWind(f)
    BY <2>2 DEF OpAsync, OpYield, OpWind, Await, Loop, Goto
  <2>3. CASE SkipFrame(f) \/ SuccessHandler(f) \/ FailureHandler(f) \/ EndLoop(f)
    BY <2>3 DEF SkipFrame, SuccessHandler, FailureHandler, EndLoop, Pure, Loop, Goto
  <2>4. CASE RevertFrame(f) \/ UserFinalizer(f) \/ AwaitCanceler(f)
    BY <2>4 DEF RevertFrame, UserFinalizer, AwaitCanceler, Pure, Loop, Goto
  <2>. QED BY <1>5, <2>1, <2>2, <2>3, <2>4 DEF Primitive
<1>. QED BY <1>1, <1>2, <1>3, <1>4, <1>5 DEF Step

(* A fiber that only hears keeps its one continuation.                       *)
LEMMA Bystands ==
  ASSUME TypeOK, NEW f \in Fiber, NEW g \in Fiber, g # f, RunTask(f) \/ Step(f),
         \A daemon : ~UserFork(f, g, daemon), ContOf(g), Hears(g, queue[g])
  PROVE  ContOf(g)'
<1>1. Untouched(g) /\ Stays(g)
  BY Alone, Elsewhere
<1>. QED BY <1>1, Listens DEF Untouched, Stays

-----------------------------------------------------------------------------
(* The actions, one by one.  First those that leave every run loop alone.    *)
LEMMA ContStill ==
  ASSUME TypeOK, MailboxInv, KnownInv, NEW f \in Fiber, NEW g \in Fiber, ContOf(g),
         RunTask(f) \/ Return(f) \/ DrainDone(f) \/ DrainYield(f) \/ BeginOp(f)
  PROVE  ContOf(g)'
<1>1. UNCHANGED <<cur, stack, exit, interruptor, asyncs>>
  BY DEF RunTask, Return, DrainDone, DrainYield, BeginOp, Evaluation
<1>2. \/ Hears(g, queue[g])
      \/ queue[g] # <<>> /\ Head(queue[g]).k # "resume" /\ Hears(g, Tail(queue[g]))
  <2>1. CASE ~DrainYield(f) \/ g # f
    <3>1. queue'[g] = queue[g]
      BY <2>1 DEF RunTask, Return, DrainDone, DrainYield, BeginOp, mailbox, Popped, TypeOK
    <3>. QED BY <1>1, <3>1, HearsNothing
  <2>2. CASE DrainYield(f) /\ g = f
    <3>1. queue[g] # <<>> /\ Head(queue[g]).k # "resume" /\ queue'[g] = Tail(queue[g])
      BY <2>2 DEF DrainYield, Next1, Popped, TypeOK
    <3>. QED BY <1>1, <3>1 DEF Hears
  <2>. QED BY <2>1, <2>2
<1>3. \/ pc'[g] = pc[g]
      \/ Off(g) /\ pc'[g] \in {"out", "drain", "leave"}
      \/ pc[g] \in {"loop", "op"} /\ pc'[g] \in {"loop", "op"}
  <2>1. CASE RunTask(f)
    <3>1. pc[f] # "unborn"
      BY <2>1 DEF RunTask, KnownInv, KnownMail
    <3>2. ~On(f)
      BY <2>1 DEF RunTask, Idle, MailboxInv, OnThread
    <3>3. Off(f)
      BY <3>1, <3>2 DEF Off, On
    <3>. QED BY <2>1, <3>3 DEF RunTask, Goto, TypeOK
  <2>2. CASE ~RunTask(f)
    BY <2>2 DEF Return, DrainDone, DrainYield, BeginOp, Next1, At, Goto, Off, TypeOK
  <2>. QED BY <2>1, <2>2
<1>. QED BY <1>1, <1>2, <1>3, Listens

(* A callback is called, an interrupt arrives.                              *)
LEMMA ContOutside ==
  ASSUME TypeOK, NEW f \in Fiber, NEW g \in Fiber, ContOf(g),
         ExternalInterrupt(f) \/ \E i \in DOMAIN asyncs[f] : ExternalCallback(f, i)
  PROVE  ContOf(g)'
<1>0. queue \in Mail
  BY DEF TypeOK, Mail
<1>1. UNCHANGED <<pc, cur, stack, exit, interruptor>>
  BY DEF ExternalInterrupt, ExternalCallback, Evaluation, control
<1>2. CASE ExternalInterrupt(f)
  <2>1. InterruptSignal \in Message /\ InterruptSignal.k # "resume"
    BY MessageTypes DEF InterruptSignal
  <2>2. Hears(g, queue[g])
    BY <1>0, <1>2, <2>1, HearsTo DEF ExternalInterrupt
  <2>. QED BY <1>1, <2>2, Listens
<1>3. ASSUME NEW i, ExternalCallback(f, i) PROVE ContOf(g)'
  <2>1. NoneArmed(asyncs[g]) \/ LastArmed(asyncs[g])
    BY ArmedOrNot
  <2>2. Hears(g, queue[g])
    BY <1>0, <1>3, <2>1, HearsCall, OutcomeTypes DEF ExternalCallback
  <2>. QED BY <1>1, <2>2, Listens
<1>. QED BY <1>2, <1>3

(* An interrupt or a stateful message leaves the inbox of a suspended fiber. *)
LEMMA ContDrain ==
  ASSUME TypeOK, NEW f \in Fiber, NEW g \in Fiber, ContOf(g),
         DrainInterrupt(f) \/ DrainStateful(f) \/ LoopStateful(f)
  PROVE  ContOf(g)'
<1>0. NoneArmed(asyncs[g]) \/ LastArmed(asyncs[g])
  BY ArmedOrNot
<1>1. /\ UNCHANGED <<pc, cur, stack, exit>> /\ interruptor'[g] \in {interruptor[g], 0}
      /\ queue[f] # <<>> /\ Head(queue[f]).k # "resume"
  BY DEF DrainInterrupt, DrainStateful, LoopStateful, Stateful1, Next1, Evaluation, control,
         DropInterruptor, TypeOK
<1>2. /\ Popped(f) \in Mail
      /\ Popped(f)[g] = IF g = f THEN Tail(queue[g]) ELSE queue[g]
  BY <1>1, PoppedType DEF Popped, TypeOK
<1>3. Hears(g, Popped(f)[g])
  <2>1. CASE DrainInterrupt(f)
    <3>. DEFINE S == {<<f, interruptor[f]>>}
                told == ToEach(children[f], InterruptSignal)[g]
    <3>1. Fire(S) /\ Deliver(Popped(f), [x \in Fiber |-> ToEach(children[f], InterruptSignal)[x]
                                                       \o Resumed(S, InterruptCause)[x]])
      BY <2>1 DEF DrainInterrupt
    <3>2. queue'[g] = Popped(f)[g] \o (told \o Resumed(S, InterruptCause)[g])
      BY <3>1 DEF Deliver
    <3>3. \A w \in S : w = <<w[1], w[2]>>
      OBVIOUS
    <3>4. told = <<InterruptSignal>> \/ told = <<>>
      BY LetterEach, Zenon
    <3>. HIDE DEF S, told
    <3>5. told \in Seq(Message) /\ NoResume(told)
      <4>1. /\ <<InterruptSignal>> \in Seq(Message) /\ <<>> \in Seq(Message)
            /\ NoResume(<<InterruptSignal>>) /\ NoResume(<<>>)
        BY MessageTypes, ResumeShort DEF InterruptSignal
      <4>. QED BY <3>4, <4>1
    <3>6. Popped(f)[g] \in Seq(Message) /\ InterruptCause \in Resumable
      BY <1>2, OutcomeTypes DEF Mail
    <3>. QED BY <1>0, <3>1, <3>2, <3>3, <3>5, <3>6, HearsFire
  <2>2. CASE DrainStateful(f) \/ LoopStateful(f)
    <3>. DEFINE x == Head(queue[f])
                S == IF AtOnce(f, x) THEN {x.who} ELSE {}
    <3>1. Fire(S) /\ Deliver(Popped(f), Resumed(S, Succ))
      BY <2>2 DEF DrainStateful, LoopStateful, Stateful1, Handle
    <3>2. \A w \in S : w = <<w[1], w[2]>>
      <4>1. x \in Message
        BY <1>1, PoppedType
      <4>2. x.k = "observe" => x.who \in Waiter
        BY <4>1, MessageFields
      <4>. QED BY <4>2 DEF AtOnce, Waiter
    <3>. HIDE DEF S
    <3>. QED BY <1>0, <1>2, <3>1, <3>2, OutcomeTypes, HearsCall
  <2>. QED BY <2>1, <2>2
<1>. QED BY <1>1, <1>2, <1>3, Listens

(* A fiber that evaluates: nothing else can resume it.                      *)
LEMMA Evaluates ==
  ASSUME NEW f \in Fiber, ContOf(f), Evaluating(f)
  PROVE  /\ NoResume(queue[f]) /\ NoneArmed(asyncs[f]) /\ ~Done(f) /\ interruptor[f] = 0
         /\ cur[f] \notin Passive => Clean(stack[f])
         /\ Current(Len(asyncs[f]), cur[f]) /\ StackOK(stack[f], Len(asyncs[f]))
         /\ pc[f] = "exit" => stack[f] = <<>>
BY DEF ContOf, Runs, Resumes, Awaits, Absent, Evaluating, Off

(* A fiber is created.                                                      *)
LEMMA Begins ==
  ASSUME TypeOK, NEW g \in Fiber, ContOf(g), pc[g] = "unborn", pc'[g] = "out",
         queue'[g] = queue[g] \o <<Resume(AnyEffect)>>,
         UNCHANGED <<cur[g], stack[g], exit[g], asyncs[g], interruptor[g]>>
  PROVE  ContOf(g)'
<1>1. NoResume(queue[g]) /\ NoneArmed(asyncs[g]) /\ interruptor[g] = 0 /\ ~Done(g) /\ stack[g] = <<>>
  BY DEF ContOf, Runs, Resumes, Awaits, Absent, Evaluating, Off
<1>. DEFINE m == <<Resume(AnyEffect)>>
<1>2. m \in Seq(Message) /\ OneResume(m, Resumable) /\ queue[g] \in Seq(Message)
  BY MessageTypes, OutcomeTypes, ResumeShort DEF TypeOK
<1>. HIDE DEF m
<1>3. OneResume(queue[g] \o m, Resumable)
  BY <1>1, <1>2, ResumeJoin
<1>4. OneResume(queue'[g], Resumable)
  BY <1>3 DEF m
<1>5. Clean(stack'[g]) /\ StackOK(stack'[g], Len(asyncs'[g])) /\ ~Done(g)'
  BY <1>1 DEF Clean, StackOK, Done
<1>6. Resumes(g)'
  BY <1>1, <1>4, <1>5 DEF Resumes, Off, May
<1>7. Current(Len(asyncs'[g]), cur'[g])
  BY DEF ContOf
<1>. QED BY <1>1, <1>5, <1>6, <1>7 DEF ContOf, Off

(* `start` and fork.                                                        *)
LEMMA ContStart ==
  ASSUME TypeOK, MailboxInv, NEW f \in Fiber, NEW g \in Fiber, ContOf(g), Start(f)
  PROVE  ContOf(g)'
<1>0. UNCHANGED <<queue, stack, exit, asyncs, interruptor>> /\ pc[f] = "unborn"
  BY DEF Start
<1>1. CASE g = f
  <2>1. NoResume(queue[g]) /\ NoneArmed(asyncs[g]) /\ interruptor[g] = 0 /\ ~Done(g) /\ stack[g] = <<>>
    BY <1>0, <1>1 DEF ContOf, Runs, Resumes, Awaits, Absent, Evaluating, Off
  <2>2. pc'[g] = "loop" /\ (cur'[g] = AnyEffect \/ cur'[g] = InterruptCause)
    <3>1. CASE Idle
      BY <1>1, <3>1 DEF Start, Evaluate, Loop, Goto, TypeOK
    <3>2. CASE ~Idle
      <4>1. Head(thread) # f
        BY <1>0, <3>2 DEF Start, OpAt, At
      <4>. QED BY <1>1, <3>2, <4>1 DEF Start, Goto, TypeOK
    <3>. QED BY <3>1, <3>2
  <2>3. Current(Len(asyncs'[g]), cur'[g])
    BY <2>2 DEF Current, Refs, AnyEffect, InterruptCause, Failed
  <2>4. Clean(stack'[g]) /\ StackOK(stack'[g], Len(asyncs'[g])) /\ ~Done(g)'
    BY <1>0, <2>1 DEF Clean, StackOK, Done
  <2>5. Runs(g)'
    BY <1>0, <2>1, <2>2, <2>4 DEF Runs, Evaluating
  <2>. QED BY <1>0, <2>1, <2>2, <2>3, <2>4, <2>5 DEF ContOf
<1>2. CASE g # f /\ (Idle \/ g # Head(thread))
  <2>1. pc'[g] = pc[g] /\ cur'[g] = cur[g]
    BY <1>2 DEF Start, Evaluate, Loop, Goto, TypeOK
  <2>2. Hears(g, queue[g])
    BY <1>0, HearsNothing
  <2>. QED BY <1>0, <2>1, <2>2, Listens
<1>3. CASE g # f /\ ~Idle /\ g = Head(thread)
  <2>2. pc[g] = "op" /\ pc'[g] = "op" /\ cur'[g] = Succ
    BY <1>3 DEF Start, OpAt, At, Goto, TypeOK
  <2>3. Evaluating(g)
    BY <2>2 DEF Evaluating
  <2>4. Current(Len(asyncs'[g]), cur'[g]) /\ cur'[g] \in Passive
    BY <2>2, PassiveKinds DEF Current, Refs, Succ
  <2>. QED BY <1>0, <2>2, <2>3, <2>4, Evaluates, Goes
<1>. QED BY <1>1, <1>2, <1>3

(* A fiber that begins has one continuation: its first resumption in the     *)
(* mailbox.                                                                  *)
LEMMA ContBegin ==
  ASSUME TypeOK, NEW f \in Fiber, NEW g \in Fiber, ContOf(g),
         StartLater(f) \/ \E c \in Fiber, daemon \in BOOLEAN : UserFork(f, c, daemon)
  PROVE  ContOf(g)'
<1>0. queue[g] \in Seq(Message) /\ queue \in Mail
  BY DEF TypeOK, Mail
<1>1. CASE StartLater(f)
  <2>1. UNCHANGED <<cur, stack, exit, asyncs, interruptor>>
    BY <1>1 DEF StartLater, Evaluation
  <2>2. queue'[g] = queue[g] \o IF g = f THEN <<Resume(AnyEffect)>> ELSE <<>>
    BY <1>1 DEF StartLater, Deliver, To, NoMail
  <2>3. CASE g = f
    BY <1>1, <2>1, <2>2, <2>3, Begins DEF StartLater, Goto, TypeOK
  <2>4. CASE g # f
    <3>1. queue'[g] = queue[g] /\ pc'[g] = pc[g]
      BY <1>0, <1>1, <2>2, <2>4, ConcatEmptySeq DEF StartLater, Goto, TypeOK
    <3>. QED BY <2>1, <3>1, HearsNothing, Listens
  <2>. QED BY <2>3, <2>4
<1>2. ASSUME NEW c \in Fiber, NEW daemon \in BOOLEAN, UserFork(f, c, daemon) PROVE ContOf(g)'
  <2>1. UNCHANGED <<stack, exit, asyncs, interruptor>> /\ c # f /\ pc[c] = "unborn" /\ pc[f] = "op"
    BY <1>2 DEF UserFork, OpAt, At
  <2>2. queue'[g] = queue[g] \o CASE g = c            -> <<Resume(AnyEffect)>>
                                  [] g = f /\ ~daemon -> <<AddChild(c)>>
                                  [] OTHER            -> <<>>
    BY <1>2 DEF UserFork, Deliver
  <2>3. CASE g = c
    <3>1. pc[g] = "unborn" /\ pc'[g] = "out" /\ cur'[g] = cur[g]
      BY <1>2, <2>1, <2>3 DEF UserFork, TypeOK
    <3>2. queue'[g] = queue[g] \o <<Resume(AnyEffect)>>
      BY <2>1, <2>2, <2>3
    <3>. QED BY <2>1, <2>3, <3>1, <3>2, Begins
  <2>4. CASE g # c
    <3>. DEFINE m == IF g = f /\ ~daemon THEN <<AddChild(c)>> ELSE <<>>
    <3>1. queue'[g] = queue[g] \o m
      BY <2>2, <2>4
    <3>2. AddChild(c) \in Message /\ AddChild(c).k # "resume"
      BY MessageTypes DEF AddChild
    <3>3. m \in Seq(Message) /\ NoResume(m)
      BY <3>2, ResumeShort
    <3>. HIDE DEF m
    <3>4. Hears(g, queue[g])
      BY <1>0, <2>1, <3>1, <3>3, HearsMail
    <3>5. CASE g # f
      <4>1. pc'[g] = pc[g] /\ cur'[g] = cur[g]
        BY <1>2, <2>4, <3>5 DEF UserFork, TypeOK
      <4>. QED BY <2>1, <3>4, <4>1, Listens
    <3>6. CASE g = f
      <4>1. pc'[g] = "loop" /\ cur'[g] = Succ /\ Evaluating(g)
        BY <1>2, <2>1, <2>4, <3>6 DEF UserFork, Evaluating, TypeOK
      <4>2. Current(Len(asyncs'[g]), cur'[g]) /\ cur'[g] \in Passive
        BY <4>1, PassiveKinds DEF Current, Refs, Succ
      <4>3. NoResume(queue'[g])
        BY <1>0, <3>1, <3>3, <4>1, Evaluates, ResumeJoin
      <4>. QED BY <2>1, <4>1, <4>2, <4>3, Evaluates, Goes
    <3>. QED BY <3>5, <3>6
  <2>. QED BY <2>3, <2>4
<1>. QED BY <1>1, <1>2

(* A resume message is taken: the run loop begins again.                    *)
LEMMA ContResume ==
  ASSUME TypeOK, NEW f \in Fiber, NEW g \in Fiber, ContOf(g), DrainResume(f)
  PROVE  ContOf(g)'
<1>1. CASE g # f
  <2>1. queue'[g] = queue[g] /\ asyncs'[g] = asyncs[g]
    BY <1>1 DEF DrainResume, Popped, TypeOK
  <2>2. RunTask(f) \/ Step(f)
    BY DEF Step
  <2>3. \A daemon : ~UserFork(f, g, daemon)
    BY DEF DrainResume, Next1, UserFork, OpAt, At
  <2>. QED BY <1>1, <2>1, <2>2, <2>3, HearsNothing, Bystands
<1>2. CASE g = f
  <2>. DEFINE x == Head(queue[f])
  <2>1. /\ queue[f] # <<>> /\ queue[f] \in Seq(Message) /\ x.k = "resume" /\ pc[f] = "drain"
        /\ queue'[f] = Tail(queue[f]) /\ interruptor'[f] = 0 /\ pc'[f] = "loop"
        /\ UNCHANGED <<stack, asyncs, exit>>
        /\ cur'[f] = x.eff \/ cur'[f] = InterruptCause
    BY DEF DrainResume, Next1, At, Popped, DropInterruptor, Evaluate, Loop, Goto, TypeOK
  <2>2. ~NoResume(queue[f])
    BY <2>1, ResumeTail
  <2>3. Resumes(f)
    BY <1>2, <2>2 DEF ContOf, Runs, Awaits, Absent
  <2>4. NoResume(queue'[f]) /\ x.eff \in May(f)
    BY <2>1, <2>3, ResumeTail DEF Resumes
  <2>5. x.eff \in Resumable
    BY <2>1, PoppedType, MessageFields
  <2>. HIDE DEF x
  <2>6. Clean(stack[f]) \/ cur'[f] \in Passive
    BY <2>1, <2>4, PassiveKinds DEF May
  <2>7. cur'[f].k \in {"any", "succ", "fail"}
    BY <2>1, <2>5 DEF Resumable, Outcome, AnyEffect, Succ, Failed, InterruptCause
  <2>8. Current(Len(asyncs'[f]), cur'[f])
    BY <2>7, PassiveKinds DEF Current
  <2>9. Runs(f)'
    BY <2>1, <2>3, <2>4 DEF Runs, Resumes, Evaluating, Done
  <2>10. StackOK(stack'[f], Len(asyncs'[f])) /\ (Clean(stack'[f]) \/ cur'[f] \in Passive) /\ ~Done(f)'
    BY <1>2, <2>1, <2>3, <2>6 DEF ContOf, Resumes, Done
  <2>. QED BY <1>2, <2>1, <2>8, <2>9, <2>10 DEF ContOf
<1>. QED BY <1>1, <1>2

(* The interrupt and the scheduler in the middle of the run loop.           *)
LEMMA ContLoop ==
  ASSUME TypeOK, NEW f \in Fiber, NEW g \in Fiber, ContOf(g), LoopInterrupt(f) \/ Preempt(f)
  PROVE  ContOf(g)'
<1>0. UNCHANGED <<asyncs, exit, interruptor>> /\ pc[f] = "loop" /\ Step(f) /\ queue \in Mail
  BY DEF LoopInterrupt, Preempt, Next1, At, Step, TypeOK, Mail
<1>. DEFINE q == IF LoopInterrupt(f) THEN Popped(f) ELSE queue
<1>1. q \in Mail /\ (LoopInterrupt(f) => queue[f] # <<>> /\ Head(queue[f]).k # "resume")
  BY <1>0, PoppedType DEF LoopInterrupt, Next1
<1>2. q[g] = IF LoopInterrupt(f) /\ g = f THEN Tail(queue[g]) ELSE queue[g]
  BY DEF Popped, TypeOK
<1>3. Hears(g, q[g])
  <2>1. CASE LoopInterrupt(f)
    BY <1>0, <1>1, <2>1, HearsEach DEF LoopInterrupt
  <2>2. CASE ~LoopInterrupt(f)
    BY <1>0, <1>2, <2>2, HearsNothing DEF Preempt, mailbox
  <2>. QED BY <2>1, <2>2
<1>. HIDE DEF q
<1>4. CASE g # f
  <2>1. \A daemon : ~UserFork(f, g, daemon)
    BY <1>0 DEF UserFork, OpAt, At
  <2>. QED BY <1>0, <1>2, <1>3, <1>4, <2>1, Bystands
<1>5. CASE g = f
  <2>1. Evaluating(f) /\ queue[f] \in Seq(Message)
    BY <1>0 DEF Evaluating, TypeOK
  <2>2. NoResume(q[f]) /\ ~LastArmed(asyncs[f])
    BY <1>1, <1>2, <1>5, <2>1, Evaluates, ResumeTail DEF NoneArmed, LastArmed, TypeOK
  <2>3. NoResume(queue'[f]) /\ NoneArmed(asyncs'[f])
    BY <1>3, <1>5, <2>1, <2>2, Evaluates DEF Hears
  <2>4. CASE LoopInterrupt(f)
    <3>1. stack'[f] = stack[f] /\ pc'[f] = "loop" /\ (cur'[f] = cur[f] \/ cur'[f] = InterruptCause)
      BY <1>0, <2>4 DEF LoopInterrupt, control, TypeOK
    <3>2. /\ Current(Len(asyncs'[f]), cur'[f]) /\ StackOK(stack'[f], Len(asyncs'[f]))
          /\ Clean(stack'[f]) \/ cur'[f] \in Passive
      BY <1>0, <1>5, <2>1, <3>1, Evaluates, PassiveKinds DEF Current, InterruptCause, Failed
    <3>. QED BY <1>0, <1>5, <2>1, <2>3, <3>1, <3>2, Goes
  <2>5. CASE Preempt(f)
    <3>1. stack'[f] = <<Cont(cur[f])>> \o stack[f] /\ pc'[f] = "op"
          /\ (cur'[f] = Yield \/ cur'[f] = InterruptCause)
      BY <2>5 DEF Preempt, Push, Goto, TypeOK
    <3>2. cur'[f] \in Passive /\ Current(Len(asyncs'[f]), cur'[f])
      BY <3>1, PassiveKinds DEF Current, InterruptCause, Failed, Yield
    <3>3. stack[f] \in Seq(Frame) /\ Cont(cur[f]) \in Frame
      BY FrameTypes DEF TypeOK
    <3>4. /\ Pending(Cont(cur[f])) => Current(Len(asyncs[f]), Cont(cur[f]).eff)
          /\ Clean(stack[f]) \/ PassiveFrame(Cont(cur[f]))
          /\ StackOK(stack[f], Len(asyncs[f]))
      BY <1>5, <2>1, Evaluates DEF PassiveFrame, Cont
    <3>5. StackOK(stack'[f], Len(asyncs'[f]))
      BY <1>0, <3>1, <3>3, <3>4, PushOK
    <3>. QED BY <1>0, <1>5, <2>1, <2>3, <3>1, <3>2, <3>5, Goes
  <2>. QED BY <2>4, <2>5
<1>. QED BY <1>4, <1>5

-----------------------------------------------------------------------------
(* A primitive that is not passive: the stack below it is clean, and stays   *)
(* so whatever frame is pushed.                                             *)
LEMMA GoesOn ==
  ASSUME TypeOK, NEW f \in Fiber, ContOf(f), Evaluating(f), pc'[f] \in {"loop", "op"},
         exit'[f] = exit[f], interruptor'[f] = interruptor[f], cur[f] \notin Passive,
         NoResume(queue'[f]), NoneArmed(asyncs'[f]), Current(Len(asyncs'[f]), cur'[f]),
         \/ stack'[f] = stack[f]
         \/ \E r \in Frame : ~Pending(r) /\ stack'[f] = <<r>> \o stack[f]
  PROVE  ContOf(f)'
<1>1. Clean(stack[f]) /\ stack[f] \in Seq(Frame)
  BY Evaluates DEF TypeOK
<1>2. Clean(stack'[f])
  BY <1>1, PushClean
<1>. QED BY <1>2, CleanOK, Goes

(* Nothing is told and no callback is touched.                              *)
LEMMA GoesAlone ==
  ASSUME TypeOK, NEW f \in Fiber, NEW g \in Fiber, ContOf(g), Step(f), Pure, pc[f] = "op",
         g # f \/ ContOf(f)', \A daemon : ~UserFork(f, g, daemon)
  PROVE  ContOf(g)'
<1>1. CASE g # f
  BY <1>1, HearsNothing, Bystands DEF Pure, mailbox
<1>. QED BY <1>1

(* The registration of a callback.                                          *)
LEMMA Registered ==
  ASSUME TypeOK, NEW f \in Fiber, NEW a, a.st # "armed", NoneArmed(asyncs[f]),
         asyncs' = [asyncs EXCEPT ![f] = Append(@, a)]
  PROVE  Len(asyncs'[f]) = Len(asyncs[f]) + 1 /\ NoneArmed(asyncs'[f])
<1>1. asyncs'[f] = Append(asyncs[f], a) /\ asyncs[f] \in Seq(AsyncState)
  BY DEF TypeOK
<1>2. \A s \in Seq(AsyncState) :
        Len(Append(s, a)) = Len(s) + 1 /\ DOMAIN Append(s, a) = 1..Len(s) + 1
        /\ \A i \in 1..Len(s) + 1 : Append(s, a)[i] = IF i = Len(s) + 1 THEN a ELSE s[i]
  OBVIOUS
<1>3. /\ Len(asyncs'[f]) = Len(asyncs[f]) + 1 /\ DOMAIN asyncs'[f] = 1..Len(asyncs[f]) + 1
      /\ \A i \in 1..Len(asyncs[f]) + 1 :
           asyncs'[f][i] = IF i = Len(asyncs[f]) + 1 THEN a ELSE asyncs[f][i]
  BY <1>1, <1>2
<1>4. Len(asyncs[f]) \in Nat /\ DOMAIN asyncs[f] = 1..Len(asyncs[f])
  BY <1>1
<1>5. ASSUME NEW i \in DOMAIN asyncs'[f] PROVE asyncs'[f][i].st # "armed"
  <2>1. i = Len(asyncs[f]) + 1 \/ i \in DOMAIN asyncs[f]
    BY <1>3, <1>4
  <2>. QED BY <1>3, <1>4, <2>1 DEF NoneArmed
<1>. QED BY <1>3, <1>5 DEF NoneArmed

(* await: an observer for the other fiber, a callback for this one.          *)
LEMMA ContAwait ==
  ASSUME TypeOK, NEW f \in Fiber, NEW g \in Fiber, NEW h \in Fiber, ContOf(g), Step(f), pc[f] = "op",
         Await(f, h, AwaitJob(f, h)), exit' = exit, interruptor' = interruptor,
         cur[f] \notin Passive, \A daemon : ~UserFork(f, g, daemon),
         \/ stack'[f] = stack[f]
         \/ \E r \in Frame : ~Pending(r) /\ stack'[f] = <<r>> \o stack[f]
  PROVE  ContOf(g)'
<1>. DEFINE m == Observe(<<f, Len(asyncs[f]) + 1>>)
            t == To(h, m)[g]
<1>1. m \in Message /\ m.k # "resume" /\ queue[g] \in Seq(Message)
  <2>1. Len(asyncs[f]) + 1 \in Nat
    BY DEF TypeOK
  <2>2. <<f, Len(asyncs[f]) + 1>> \in Waiter
    BY <2>1 DEF Waiter
  <2>. QED BY <2>2, MessageTypes DEF Observe, TypeOK
<1>2. queue'[g] = queue[g] \o t
  BY DEF Await, Deliver
<1>3. t = <<m>> \/ t = <<>>
  BY LetterTo
<1>a. asyncs' = [asyncs EXCEPT ![f] = Append(@, [st |-> "registered", of |-> h])]
      /\ cur'[f] = AwaitJob(f, h) /\ pc'[f] = "loop"
  BY DEF Await, Loop, Goto, TypeOK
<1>. HIDE DEF m, t
<1>4. t \in Seq(Message) /\ NoResume(t)
  <2>1. <<m>> \in Seq(Message) /\ <<>> \in Seq(Message) /\ NoResume(<<m>>) /\ NoResume(<<>>)
    BY <1>1, ResumeShort
  <2>. QED BY <1>3, <2>1
<1>5. CASE g # f
  <2>0. asyncs'[g] = asyncs[g]
    BY <1>5, <1>a DEF TypeOK
  <2>1. Hears(g, queue[g])
    BY <1>1, <1>2, <1>4, <2>0, HearsMail
  <2>. QED BY <1>5, <2>1, Bystands
<1>6. CASE g = f
  <2>1. Evaluating(f)
    BY DEF Evaluating
  <2>2. NoResume(queue'[f])
    BY <1>1, <1>2, <1>4, <1>6, <2>1, Evaluates, ResumeJoin
  <2>3. Len(asyncs'[f]) = Len(asyncs[f]) + 1 /\ NoneArmed(asyncs'[f])
    <3>. DEFINE a == [st |-> "registered", of |-> h]
    <3>1. a.st # "armed" /\ asyncs' = [asyncs EXCEPT ![f] = Append(@, a)]
      BY <1>a
    <3>. HIDE DEF a
    <3>2. NoneArmed(asyncs[f])
      BY <1>6, <2>1, Evaluates
    <3>. QED BY <3>1, <3>2, Registered
  <2>4. Current(Len(asyncs'[f]), cur'[f])
    <3>1. \A i \in Refs(cur'[f]) : i = Len(asyncs[f]) + 1
      BY <1>a DEF Refs, AwaitJob, OnExit
    <3>. QED BY <2>3, <3>1 DEF Current, TypeOK
  <2>. QED BY <1>6, <1>a, <2>1, <2>2, <2>3, <2>4, GoesOn
<1>. QED BY <1>5, <1>6

(* The effects a user's effect can begin with that send nothing.            *)
LEMMA ContUserPure ==
  ASSUME TypeOK, NEW f \in Fiber, NEW g \in Fiber, ContOf(g), UserOp(f), cur[f].k = "any", pc[f] = "op",
         NEW kind \in {"succ", "failure", "both"}, NEW to \in BOOLEAN,
         \/ UserSucceed(f) \/ UserFail(f) \/ UserOnExit(f) \/ UserYield(f)
         \/ UserFrame(f, kind) \/ UserFlags(f, to)
  PROVE  ContOf(g)'
<1>1. Pure /\ Step(f) /\ pc' = [pc EXCEPT ![f] = "loop"]
  BY DEF UserSucceed, UserFail, UserOnExit, UserYield, UserFrame, UserFlags, UpdateFlags, Loop,
         Goto, Step
<1>2. UNCHANGED <<queue, asyncs, exit, interruptor>> /\ pc'[f] = "loop"
  BY <1>1 DEF Pure, mailbox, TypeOK
<1>3. g # f => \A daemon : ~UserFork(f, g, daemon)
  BY <1>1 DEF UserFork, TypeOK
<1>4. \/ stack'[f] = stack[f]
      \/ \E r \in Frame : ~Pending(r) /\ stack'[f] = <<r>> \o stack[f]
  <2>1. CASE UserFrame(f, kind)
    <3>1. Simple(kind) \in Frame /\ ~Pending(Simple(kind))
      BY FrameTypes DEF Simple, Pending
    <3>. QED BY <2>1, <3>1 DEF UserFrame, Push, TypeOK
  <2>2. CASE UserFlags(f, to)
    <3>1. Revert(interruption[f]) \in Frame /\ ~Pending(Revert(interruption[f]))
      BY FrameTypes DEF Revert, Pending, TypeOK
    <3>. QED BY <2>2, <3>1 DEF UserFlags, UpdateFlags, Push, TypeOK
  <2>3. CASE UserSucceed(f) \/ UserFail(f) \/ UserOnExit(f) \/ UserYield(f)
    BY <2>3 DEF UserSucceed, UserFail, UserOnExit, UserYield
  <2>. QED BY <2>1, <2>2, <2>3
<1>5. Refs(cur'[f]) = {}
  <2>1. Refs(OnExit(UserJob)) = {}
    BY DEF Refs, OnExit
  <2>2. cur'[f] = OnExit(UserJob) \/ cur'[f].k \in {"any", "succ", "fail", "yield"}
    BY DEF UserSucceed, UserFail, UserOnExit, UserYield, UserFrame, UserFlags, UpdateFlags, Loop,
           TypeOK, AnyEffect, Succ, Failed, Yield, InterruptCause
  <2>. QED BY <2>1, <2>2, PassiveKinds
<1>6. CASE g = f
  <2>1. Evaluating(f) /\ cur[f] \notin Passive
    BY PassiveKinds DEF Evaluating
  <2>2. NoResume(queue'[f]) /\ NoneArmed(asyncs'[f]) /\ Current(Len(asyncs'[f]), cur'[f])
    BY <1>2, <1>5, <1>6, <2>1, Evaluates DEF Current
  <2>. QED BY <1>2, <1>4, <1>6, <2>1, <2>2, GoesOn
<1>7. CASE g # f
  BY <1>1, <1>3, <1>7, GoesAlone
<1>. QED BY <1>6, <1>7

(* Those that register, tell or call.                                       *)
LEMMA ContUserTells ==
  ASSUME TypeOK, NEW f \in Fiber, NEW g \in Fiber, ContOf(g), UserOp(f), cur[f].k = "any", pc[f] = "op",
         NEW st \in {"registered", "pending"}, NEW h \in Fiber, NEW i,
         UserAsync(f, st) \/ UserInterrupt(f, h) \/ UserCallback(f, h, i)
  PROVE  ContOf(g)'
<1>1. /\ Step(f) /\ (g # f => pc'[g] = pc[g]) /\ queue \in Mail /\ UNCHANGED <<stack, exit, interruptor>>
      /\ pc'[f] \in {"loop", "op"} /\ Evaluating(f) /\ cur[f] \notin Passive
  BY PassiveKinds DEF UserAsync, UserInterrupt, UserCallback, Loop, Goto, Step, TypeOK, Mail, control,
     Evaluating
<1>2. g # f => \A daemon : ~UserFork(f, g, daemon)
  BY <1>1 DEF UserFork, TypeOK
<1>3. g = f => NoResume(queue[f]) /\ NoneArmed(asyncs[f])
  BY <1>1, Evaluates
<1>4. CASE UserAsync(f, st)
  <2>. DEFINE a == [st |-> st, of |-> NoFiber]
  <2>1. asyncs' = [asyncs EXCEPT ![f] = Append(@, a)] /\ queue' = queue
        /\ cur'[f] = Async(Len(asyncs[f]) + 1)
    BY <1>4 DEF UserAsync, Loop, mailbox, TypeOK
  <2>2. a.st # "armed"
    OBVIOUS
  <2>. HIDE DEF a
  <2>3. CASE g # f
    <3>1. asyncs'[g] = asyncs[g]
      BY <2>1, <2>3
    <3>. QED BY <1>1, <1>2, <2>1, <2>3, <3>1, HearsNothing, Bystands
  <2>4. CASE g = f
    <3>1. Len(asyncs'[f]) = Len(asyncs[f]) + 1 /\ NoneArmed(asyncs'[f])
      BY <1>3, <2>1, <2>2, <2>4, Registered
    <3>2. Current(Len(asyncs'[f]), cur'[f])
      BY <2>1, <3>1 DEF Current, Refs, Async, TypeOK
    <3>. QED BY <1>1, <1>3, <2>1, <2>4, <3>1, <3>2, GoesOn
  <2>. QED BY <2>3, <2>4
<1>5. CASE UserInterrupt(f, h) \/ UserCallback(f, h, i)
  <2>1. cur'[f] = Succ /\ Refs(Succ) = {}
    <3>1. cur'[f] = Succ
      BY <1>5 DEF UserInterrupt, UserCallback, SyncDone, TypeOK
    <3>2. Refs(Succ) = {}
      BY PassiveKinds DEF Succ
    <3>. QED BY <3>1, <3>2
  <2>2. Hears(g, queue[g])
    <3>1. CASE UserInterrupt(f, h)
      <4>1. InterruptSignal \in Message /\ InterruptSignal.k # "resume"
        BY MessageTypes DEF InterruptSignal
      <4>. QED BY <1>1, <3>1, <4>1, HearsTo DEF UserInterrupt
    <3>2. CASE UserCallback(f, h, i)
      BY <1>1, <3>2, ArmedOrNot, HearsCall, OutcomeTypes DEF UserCallback
    <3>. QED BY <1>5, <3>1, <3>2
  <2>3. CASE g # f
    BY <1>1, <1>2, <2>2, <2>3, Bystands
  <2>4. CASE g = f
    <3>1. ~LastArmed(asyncs[f])
      BY <1>3, <2>4, SMTT(30) DEF NoneArmed, LastArmed, TypeOK
    <3>2. NoResume(queue'[f]) /\ NoneArmed(asyncs'[f])
      BY <1>3, <2>2, <2>4, <3>1 DEF Hears
    <3>. QED BY <1>1, <2>1, <2>4, <3>2, GoesOn DEF Current
  <2>. QED BY <2>3, <2>4
<1>. QED BY <1>4, <1>5

(* A user operation of any fiber keeps the one continuation of every fiber.  *)
LEMMA ContUser ==
  ASSUME TypeOK, NEW f \in Fiber, NEW g \in Fiber, ContOf(g), UserOp(f)
  PROVE  ContOf(g)'
<1>1. cur[f].k = "any" /\ pc[f] = "op" /\ cur[f] \notin Passive /\ Step(f)
  <2>1. cur[f].k = "any" /\ pc[f] = "op"
    BY DEF UserOp, UserSucceed, UserFail, UserOnExit, UserYield, UserFrame, UserFlags,
           UserAsync, UserAwait, UserInterrupt, UserFork, UserCallback, OpAt, At
  <2>. QED BY <2>1, PassiveKinds DEF Step
<1>2. ASSUME NEW h \in Fiber, UserAwait(f, h) PROVE ContOf(g)'
  <2>1. /\ stack' = stack /\ exit' = exit /\ interruptor' = interruptor
        /\ Await(f, h, AwaitJob(f, h)) /\ (g # f => pc'[g] = pc[g])
    BY <1>2 DEF UserAwait, Await, Loop, Goto, TypeOK
  <2>2. \A daemon : ~UserFork(f, g, daemon)
    BY <1>1, <2>1 DEF UserFork, TypeOK
  <2>. QED BY <1>1, <2>1, <2>2, ContAwait
<1>3. CASE \E c \in Fiber, daemon \in BOOLEAN : UserFork(f, c, daemon)
  BY <1>3, ContBegin
<1>4. CASE UserSucceed(f) \/ UserFail(f) \/ UserOnExit(f) \/ UserYield(f)
  BY <1>1, <1>4, ContUserPure
<1>5. ASSUME NEW kind \in {"succ", "failure", "both"}, UserFrame(f, kind) PROVE ContOf(g)'
  BY <1>1, <1>5, ContUserPure
<1>6. ASSUME NEW to \in BOOLEAN, UserFlags(f, to) PROVE ContOf(g)'
  BY <1>1, <1>6, ContUserPure
<1>7. ASSUME NEW st \in {"registered", "pending"}, UserAsync(f, st) PROVE ContOf(g)'
  BY <1>1, <1>7, ContUserTells
<1>8. ASSUME NEW h \in Fiber, UserInterrupt(f, h) PROVE ContOf(g)'
  BY <1>1, <1>8, ContUserTells
<1>9. ASSUME NEW h \in Fiber, NEW i \in DOMAIN asyncs[h], UserCallback(f, h, i) PROVE ContOf(g)'
  BY <1>1, <1>9, ContUserTells
<1>. QED BY <1>2, <1>3, <1>4, <1>5, <1>6, <1>7, <1>8, <1>9 DEF UserOp

(* onExit: uninterruptible, its continuation, the restored body.            *)
LEMMA ContBracket ==
  ASSUME TypeOK, NEW f \in Fiber, NEW g \in Fiber, ContOf(g),
         OpOnExit(f) \/ OpGuard(f) \/ OpRestore(f)
  PROVE  ContOf(g)'
<1>1. /\ Pure /\ Step(f) /\ pc' = [pc EXCEPT ![f] = "loop"] /\ pc[f] = "op" /\ Evaluating(f)
      /\ cur[f].k \in {"onExit", "guard", "restore"}
  BY DEF OpOnExit, OpGuard, OpRestore, UpdateFlags, OpAt, At, Loop, Goto, Step, Primitive, Evaluating
<1>2. UNCHANGED <<queue, asyncs, exit, interruptor>> /\ pc'[f] = "loop" /\ cur[f] \notin Passive
  BY <1>1, PassiveKinds DEF Pure, mailbox, TypeOK
<1>3. CASE g # f
  <2>1. \A daemon : ~UserFork(f, g, daemon)
    BY <1>1, <1>3 DEF UserFork, TypeOK
  <2>. QED BY <1>1, <1>3, <2>1, GoesAlone
<1>4. CASE g = f
  <2>. DEFINE undo == Revert(interruption[f])
  <2>1. undo \in Frame /\ ~Pending(undo)
    BY FrameTypes DEF Revert, Pending, TypeOK
  <2>2. ASSUME NEW to, NEW body, UpdateFlags(f, to, body)
        PROVE  /\ stack'[f] = stack[f] \/ stack'[f] = <<undo>> \o stack[f]
               /\ cur'[f] = body \/ cur'[f] = InterruptCause
    BY <2>2, SMTT(30) DEF UpdateFlags, Push, Loop, TypeOK
  <2>. HIDE DEF undo
  <2>3. \/ stack'[f] = stack[f]
        \/ \E r \in Frame : ~Pending(r) /\ stack'[f] = <<r>> \o stack[f]
    <3>1. CASE OpOnExit(f) \/ OpRestore(f)
      BY <2>1, <2>2, <3>1 DEF OpOnExit, OpRestore
    <3>2. CASE OpGuard(f)
      <4>1. stack'[f] = <<Final(cur[f].job)>> \o stack[f]
        BY <3>2 DEF OpGuard, Push, TypeOK
      <4>2. Final(cur[f].job) \in Frame /\ ~Pending(Final(cur[f].job))
        BY <1>1, EffectFields, FrameTypes DEF Final, Pending, TypeOK
      <4>. QED BY <4>1, <4>2
    <3>. QED BY <3>1, <3>2
  <2>4. Refs(cur'[f]) \subseteq Refs(cur[f])
    <3>1. Refs(InterruptCause) = {}
      BY PassiveKinds, OutcomeTypes
    <3>2. CASE OpOnExit(f)
      <4>1. Refs(Guard(cur[f].job, interruption[f])) = Refs(cur[f])
        BY <3>2 DEF OpOnExit, OpAt, Refs, Guard
      <4>. QED BY <2>2, <3>1, <3>2, <4>1 DEF OpOnExit
    <3>3. CASE OpGuard(f)
      <4>1. Refs(Restore(cur[f].job, cur[f].to)) = Refs(cur[f])
        BY <3>3 DEF OpGuard, OpAt, Refs, Restore
      <4>. QED BY <3>3, <4>1 DEF OpGuard, Loop, TypeOK
    <3>4. CASE OpRestore(f)
      <4>1. Refs(Body(cur[f].job)) = Refs(cur[f])
        BY <3>4 DEF OpRestore, OpAt, Refs, Body, AnyEffect, Async
      <4>. QED BY <2>2, <3>1, <3>4, <4>1 DEF OpRestore
    <3>. QED BY <3>2, <3>3, <3>4
  <2>5. NoResume(queue'[f]) /\ NoneArmed(asyncs'[f]) /\ Current(Len(asyncs'[f]), cur'[f])
    BY <1>1, <1>2, <1>4, <2>4, Evaluates DEF Current
  <2>. QED BY <1>1, <1>2, <1>4, <2>3, <2>5, GoesOn
<1>. QED BY <1>3, <1>4

(* A step that hands one message to the fiber itself, which suspends.        *)
LEMMA Suspends ==
  ASSUME TypeOK, NEW f \in Fiber, ContOf(f), Evaluating(f), pc'[f] = "leave",
         UNCHANGED <<cur[f], stack[f], exit[f], asyncs[f], interruptor[f]>>,
         NEW m \in Seq(Message), queue'[f] = queue[f] \o m, OneResume(m, Outcome)
  PROVE  ContOf(f)'
<1>1. /\ NoResume(queue[f]) /\ NoneArmed(asyncs[f]) /\ ~Done(f) /\ interruptor[f] = 0
      /\ queue[f] \in Seq(Message)
  BY Evaluates DEF TypeOK
<1>2. OneResume(m, Passive) /\ OneResume(m, Resumable)
  BY OutcomeTypes, PassiveKinds DEF OneResume
<1>3. OneResume(queue'[f], Passive) /\ OneResume(queue'[f], Resumable)
  BY <1>1, <1>2, ResumeJoin
<1>4. OneResume(queue'[f], May(f)') /\ Off(f)' /\ ~Done(f)'
  BY <1>1, <1>3 DEF May, Off, Done
<1>5. Resumes(f)'
  BY <1>1, <1>4 DEF Resumes
<1>. QED BY <1>1, <1>4, <1>5 DEF ContOf

(* A yield keeps it: the resumption told is the only one.                    *)
LEMMA ContYield ==
  ASSUME TypeOK, NEW f \in Fiber, NEW g \in Fiber, ContOf(g), OpYield(f)
  PROVE  ContOf(g)'
<1>1. /\ UNCHANGED <<stack, asyncs, exit, interruptor>> /\ pc[f] = "op" /\ Evaluating(f) /\ Step(f)
      /\ (g # f => pc'[g] = pc[g])
  BY DEF OpYield, OpAt, At, Evaluating, Step, Primitive, Loop, Goto, TypeOK
<1>2. g # f => \A daemon : ~UserFork(f, g, daemon)
  BY <1>1 DEF UserFork, TypeOK
<1>3. CASE CooperativeYielding
  <2>. DEFINE m == <<YieldNow, Resume(AfterYield(f))>>
  <2>1. /\ queue'[g] = queue[g] \o IF g = f THEN m ELSE <<>>
        /\ cur' = cur /\ pc' = [pc EXCEPT ![f] = "leave"]
    BY <1>3 DEF OpYield, Deliver, Goto, NoMail
  <2>2. m \in Seq(Message) /\ OneResume(m, Outcome)
    BY ResumeShort, MessageTypes, OutcomeTypes DEF AfterYield
  <2>. HIDE DEF m
  <2>3. CASE g = f
    <3>1. pc'[f] = "leave" /\ queue'[f] = queue[f] \o m
      BY <2>1, <2>3 DEF TypeOK
    <3>. QED BY <1>1, <2>1, <2>2, <2>3, <3>1, Suspends
  <2>4. CASE g # f
    <3>1. queue'[g] = queue[g]
      BY <2>1, <2>4, ConcatEmptySeq DEF TypeOK
    <3>. QED BY <1>1, <1>2, <2>4, <3>1, HearsNothing, Bystands
  <2>. QED BY <2>3, <2>4
<1>4. CASE ~CooperativeYielding
  <2>1. queue' = queue /\ pc'[f] = "loop" /\ cur'[f] = Succ
    BY <1>4 DEF OpYield, Loop, Goto, mailbox, TypeOK
  <2>2. CASE g # f
    BY <1>1, <1>2, <2>1, <2>2, HearsNothing, Bystands
  <2>3. CASE g = f
    <3>1. cur'[f] \in Passive /\ Refs(cur'[f]) = {}
      BY <2>1, PassiveKinds, OutcomeTypes
    <3>. QED BY <1>1, <2>1, <2>3, <3>1, Evaluates, Goes DEF Current
  <2>. QED BY <2>2, <2>3
<1>. QED BY <1>3, <1>4

(* OP_ASYNC: the callback registered last is armed, or has been called.      *)
LEMMA ContAsync ==
  ASSUME TypeOK, NEW f \in Fiber, NEW g \in Fiber, ContOf(g), OpAsync(f)
  PROVE  ContOf(g)'
<1>. DEFINE n == Len(asyncs[f])
            early == asyncs[f][cur[f].i].st = "pending"
            e == IF asyncs[f][cur[f].i].of = NoFiber THEN AnyEffect ELSE Succ
<1>1. /\ UNCHANGED <<cur, stack, exit>> /\ pc[f] = "op" /\ Evaluating(f) /\ Step(f)
      /\ (g # f => pc'[g] = pc[g]) /\ pc'[f] = "leave" /\ cur[f].k = "async"
      /\ cur[f] \in Effect /\ queue[g] \in Seq(Message)
      /\ asyncs' = [asyncs EXCEPT ![f][cur[f].i].st = IF early THEN "called" ELSE "armed"]
      /\ interruptor' = [interruptor EXCEPT ![f] = NewInterruptor(f, cur[f].i)]
      /\ Deliver(queue, IF ~early THEN NoMail ELSE To(f, Resume(e)))
  BY DEF OpAsync, OpAt, At, Evaluating, Step, Primitive, Goto, Evaluation, TypeOK
<1>2. e \in Resumable
  BY OutcomeTypes
<1>3. queue'[g] = queue[g] \o IF early /\ g = f THEN <<Resume(e)>> ELSE <<>>
  BY <1>1 DEF Deliver, To, NoMail
<1>4. CASE g # f
  <2>1. \A daemon : ~UserFork(f, g, daemon)
    BY <1>1, <1>4 DEF UserFork, TypeOK
  <2>2. queue'[g] = queue[g] /\ asyncs'[g] = asyncs[g]
    BY <1>1, <1>3, <1>4, ConcatEmptySeq DEF TypeOK
  <2>. QED BY <1>1, <1>4, <2>1, <2>2, HearsNothing, Bystands
<1>5. CASE g = f
  <2>1. cur[f].i = n /\ n > 0 /\ n \in Nat
    <3>1. Current(n, cur[f])
      BY <1>1, <1>5, Evaluates
    <3>2. cur[f].i \in Refs(cur[f])
      BY <1>1 DEF Refs
    <3>. QED BY <3>1, <3>2 DEF Current, TypeOK
  <2>2. cur[f] = Async(n)
    BY <1>1, <2>1 DEF Effect, Async
  <2>3. cur[f] \notin Passive
    BY <1>1, PassiveKinds
  <2>4. Clean(stack[f]) /\ NoResume(queue[f]) /\ NoneArmed(asyncs[f]) /\ ~Done(f) /\ interruptor[f] = 0
    BY <1>1, <1>5, <2>3, Evaluates
  <2>5. /\ asyncs'[f] \in Seq(AsyncState) /\ Len(asyncs'[f]) = n /\ DOMAIN asyncs'[f] = DOMAIN asyncs[f]
        /\ \A i \in DOMAIN asyncs[f] : asyncs'[f][i].st =
             IF i = n THEN (IF early THEN "called" ELSE "armed") ELSE asyncs[f][i].st
    <3>. DEFINE a == asyncs[f]
                v == IF early THEN "called" ELSE "armed"
    <3>1. a \in Seq(AsyncState) /\ n \in DOMAIN a /\ asyncs'[f] = [a EXCEPT ![n].st = v]
      BY <1>1, <2>1 DEF TypeOK
    <3>2. v \in {"called", "armed"} /\ a[n] \in AsyncState
      BY <3>1
    <3>. HIDE DEF v
    <3>3. [a[n] EXCEPT !.st = v] \in AsyncState /\ [a[n] EXCEPT !.st = v].st = v
      BY <3>2 DEF AsyncState
    <3>4. asyncs'[f] = [a EXCEPT ![n] = [a[n] EXCEPT !.st = v]]
      BY <3>1
    <3>5. /\ asyncs'[f] \in Seq(AsyncState) /\ Len(asyncs'[f]) = n /\ DOMAIN asyncs'[f] = DOMAIN a
          /\ \A i \in DOMAIN a : asyncs'[f][i].st = IF i = n THEN v ELSE a[i].st
      BY <3>1, <3>3, <3>4
    <3>. QED BY <3>5 DEF v
  <2>6. interruptor'[f] = 0 \/ interruptor'[f] = n
    BY <1>1, <2>1, <2>4 DEF NewInterruptor, TypeOK
  <2>7. /\ Off(f)' /\ ~Done(f)' /\ ~Evaluating(f)' /\ May(f)' = Resumable
    BY <1>1, <2>4 DEF Off, Done, Evaluating, May
  <2>8. ASSUME early PROVE Resumes(f)'
    <3>1. NoneArmed(asyncs'[f])
      BY <2>4, <2>5, <2>8 DEF NoneArmed
    <3>2. <<Resume(e)>> \in Seq(Message) /\ OneResume(<<Resume(e)>>, Resumable)
      BY <1>2, MessageTypes, ResumeShort
    <3>. DEFINE m == <<Resume(e)>>
    <3>3. queue'[f] = queue[f] \o m /\ queue[f] \in Seq(Message)
      BY <1>1, <1>3, <1>5, <2>8
    <3>4. m \in Seq(Message) /\ OneResume(m, Resumable)
      BY <3>2
    <3>. HIDE DEF m
    <3>5. OneResume(queue'[f], Resumable)
      BY <2>4, <3>3, <3>4, ResumeJoin
    <3>. QED BY <2>7, <3>1, <3>5 DEF Resumes
  <2>9. ASSUME ~early PROVE Awaits(f)'
    <3>1. LastArmed(asyncs'[f])
      BY <2>1, <2>4, <2>5, <2>9 DEF NoneArmed, LastArmed
    <3>2. queue'[f] = queue[f]
      BY <1>1, <1>3, <1>5, <2>9, ConcatEmptySeq
    <3>3. cur'[f] = Async(Len(asyncs'[f]))
      BY <1>1, <2>2, <2>5
    <3>. QED BY <2>4, <2>7, <3>1, <3>2, <3>3 DEF Awaits
  <2>10. Resumes(f)' \/ Awaits(f)'
    BY <2>8, <2>9
  <2>11. interruptor'[f] # 0 => interruptor'[f] = Len(asyncs'[f])
    BY <2>5, <2>6
  <2>12. Current(Len(asyncs'[f]), cur'[f]) /\ StackOK(stack'[f], Len(asyncs'[f])) /\ Clean(stack'[f])
    BY <1>1, <1>5, <2>4, <2>5, Evaluates
  <2>. QED BY <1>1, <1>5, <2>7, <2>10, <2>11, <2>12 DEF ContOf
<1>. QED BY <1>4, <1>5

(* The next child to await: the loop stays on the stack.                    *)
LEMMA ContWind ==
  ASSUME TypeOK, NEW f \in Fiber, NEW g \in Fiber, ContOf(g), OpWind(f)
  PROVE  ContOf(g)'
<1>1. /\ pc[f] = "op" /\ Evaluating(f) /\ Step(f) /\ cur[f] \notin Passive
      /\ exit' = exit /\ interruptor' = interruptor
  BY PassiveKinds DEF OpWind, OpAt, At, Evaluating, Step, Primitive
<1>2. CASE winding[f] = {}
  <2>1. Loop(f, Succ) /\ UNCHANGED <<queue, asyncs, stack>>
    BY <1>2 DEF OpWind, mailbox
  <2>2. pc'[f] = "loop" /\ cur'[f] = Succ /\ (g # f => pc'[g] = pc[g])
    BY <2>1 DEF Loop, Goto, TypeOK
  <2>3. CASE g # f
    <3>1. \A daemon : ~UserFork(f, g, daemon)
      BY <2>2, <2>3 DEF UserFork, TypeOK
    <3>. QED BY <1>1, <2>1, <2>3, <3>1, HearsNothing, Bystands
  <2>4. CASE g = f
    <3>1. Refs(cur'[f]) = {}
      BY <2>2, PassiveKinds, OutcomeTypes
    <3>. QED BY <1>1, <2>1, <2>2, <2>4, <3>1, Evaluates, GoesOn DEF Current
  <2>. QED BY <2>3, <2>4
<1>3. CASE winding[f] # {}
  <2>1. PICK c \in winding[f] : Push(f, Simple("windLoop")) /\ Await(f, c, AwaitJob(f, c))
    BY <1>3 DEF OpWind
  <2>2. c \in Fiber
    BY <2>1 DEF TypeOK
  <2>3. Simple("windLoop") \in Frame /\ ~Pending(Simple("windLoop"))
    BY FrameTypes DEF Simple, Pending
  <2>4. stack'[f] = <<Simple("windLoop")>> \o stack[f] /\ (g # f => pc'[g] = pc[g])
    BY <2>1 DEF Push, Await, Loop, Goto, TypeOK
  <2>5. \A daemon : ~UserFork(f, g, daemon)
    BY <1>1, <2>4 DEF UserFork, TypeOK
  <2>. QED BY <1>1, <2>1, <2>2, <2>3, <2>4, <2>5, ContAwait
<1>. QED BY <1>2, <1>3

(* A continuation is met.  What it leaves to evaluate is passive, or the     *)
(* frames below it are clean.                                               *)
LEMMA GoesBack ==
  ASSUME TypeOK, NEW f \in Fiber, ContOf(f), Evaluating(f), pc'[f] \in {"loop", "op"},
         exit'[f] = exit[f], interruptor'[f] = interruptor[f],
         NoResume(queue'[f]), asyncs'[f] = asyncs[f],
         stack[f] # <<>>, stack'[f] = Tail(stack[f]),
         \/ cur'[f] \in Outcome
         \/ ~PassiveFrame(Top(f)) /\ Refs(cur'[f]) = {}
         \/ Top(f).k = "cont" /\ cur'[f] = Top(f).eff
  PROVE  ContOf(f)'
<1>1. stack[f] \in Seq(Frame) /\ StackOK(stack[f], Len(asyncs[f])) /\ NoneArmed(asyncs[f])
  BY Evaluates DEF TypeOK
<1>2. /\ StackOK(stack'[f], Len(asyncs'[f]))
      /\ ~PassiveFrame(Top(f)) => Clean(stack'[f])
      /\ Pending(Top(f)) => Current(Len(asyncs'[f]), Top(f).eff)
  BY <1>1, PopOK DEF Top
<1>3. Current(Len(asyncs'[f]), cur'[f])
  BY <1>2, PassiveKinds DEF Current, Pending
<1>4. Clean(stack'[f]) \/ cur'[f] \in Passive
  BY <1>2, PassiveKinds DEF PassiveFrame
<1>. QED BY <1>1, <1>2, <1>3, <1>4, Goes

(* Unwinding a frame keeps it.                                               *)
LEMMA ContFrames ==
  ASSUME TypeOK, NEW f \in Fiber, NEW g \in Fiber, ContOf(g),
         \/ SkipFrame(f) \/ SuccessHandler(f) \/ FailureHandler(f) \/ RevertFrame(f)
         \/ UserFinalizer(f) \/ EndLoop(f)
  PROVE  ContOf(g)'
<1>1. /\ Pure /\ pc[f] = "op" /\ Evaluating(f) /\ Step(f) /\ (g # f => pc'[g] = pc[g])
      /\ cur[f].k \in {"succ", "fail"} /\ cur[f] \in Effect
      /\ UNCHANGED <<queue, asyncs, exit, interruptor>>
  BY DEF SkipFrame, SuccessHandler, FailureHandler, RevertFrame, UserFinalizer, EndLoop, Meets, OpAt,
         At, Evaluating, Step, Primitive, Pure, mailbox, Loop, Goto, TypeOK
<1>2. cur[f] \in Outcome /\ (cur[f].k = "fail" => cur[f].cause \in Causes)
  BY <1>1, EffectFields
<1>3. CASE g # f
  <2>1. \A daemon : ~UserFork(f, g, daemon)
    BY <1>1, <1>3 DEF UserFork, TypeOK
  <2>. QED BY <1>1, <1>3, <2>1, GoesAlone
<1>4. CASE g = f
  <2>0. NoResume(queue'[f])
    BY <1>1, <1>4, Evaluates
  <2>1. CASE EndLoop(f)
    <3>1. stack[f] = <<>> /\ pc'[f] = "exit" /\ stack'[f] = <<>> /\ cur'[f] = cur[f]
      BY <2>1 DEF EndLoop, Goto, TypeOK
    <3>. QED BY <1>1, <1>4, <2>0, <3>1, Evaluates, Goes DEF Clean
  <2>2. CASE ~EndLoop(f)
    <3>1. stack[f] # <<>> /\ stack[f] \in Seq(Frame) /\ Top(f) \in Frame
      BY <2>2, Popping DEF SkipFrame, SuccessHandler, FailureHandler, RevertFrame, UserFinalizer,
                           Meets, Top, TypeOK
    <3>2. pc'[f] \in {"loop", "op"}
      BY <1>1, <2>2 DEF SkipFrame, SuccessHandler, FailureHandler, RevertFrame, UserFinalizer, Loop,
                   Goto, TypeOK
    <3>3. CASE SkipFrame(f)
      <4>1. stack'[f] = Tail(stack[f]) /\ cur'[f] = cur[f]
        BY <3>3 DEF SkipFrame, Pop, TypeOK
      <4>. QED BY <1>1, <1>2, <1>4, <2>0, <3>1, <3>2, <4>1, GoesBack
    <3>4. CASE SuccessHandler(f)
      <4>1. stack'[f] = Tail(stack[f])
        BY <3>4 DEF SuccessHandler, Pop, TypeOK
      <4>2. CASE Top(f).k \in {"succ", "both", "windLoop"}
        <5>1. cur'[f] = AnyEffect \/ cur'[f] = Wind
          BY <3>4, <4>2 DEF SuccessHandler, Loop, TypeOK
        <5>2. Refs(cur'[f]) = {} /\ ~PassiveFrame(Top(f))
          BY <4>2, <5>1, PassiveKinds DEF PassiveFrame, AnyEffect, Wind
        <5>. QED BY <1>1, <1>4, <2>0, <3>1, <3>2, <4>1, <5>2, GoesBack
      <4>3. CASE Top(f).k = "cont"
        <5>1. cur'[f] = Top(f).eff
          BY <3>4, <4>3 DEF SuccessHandler, Loop, TypeOK
        <5>. QED BY <1>1, <1>4, <2>0, <3>1, <3>2, <4>1, <4>3, <5>1, GoesBack
      <4>4. CASE Top(f).k = "result"
        <5>1. cur'[f] = Top(f).eff
          BY <3>4, <4>4 DEF SuccessHandler, Loop, TypeOK
        <5>2. Top(f).eff \in Outcome
          BY <3>1, <4>4 DEF Frame, Outcome
        <5>. QED BY <1>1, <1>4, <2>0, <3>1, <3>2, <4>1, <5>1, <5>2, GoesBack
      <4>. QED BY <3>4, <4>2, <4>3, <4>4 DEF SuccessHandler
    <3>5. CASE FailureHandler(f)
      <4>1. stack'[f] = Tail(stack[f]) /\ Top(f).k \in {"failure", "both", "result"}
        BY <3>5 DEF FailureHandler, Pop, TypeOK
      <4>2. cur'[f] = AnyEffect \/ \E c \in Causes : cur'[f] = Failed(c)
        <5>1. cur[f].cause \in Causes
          BY <1>2, <3>5 DEF FailureHandler, Meets, OpAt
        <5>2. Top(f).k = "result" => Top(f).eff.cause \in Causes
          BY <3>1, FrameFields DEF Frame, Failed
        <5>3. /\ cur[f].cause \ {"fail"} \in Causes
              /\ Top(f).k = "result" => Top(f).eff.cause \cup cur[f].cause \in Causes
          BY <5>1, <5>2, CausesClosed
        <5>. QED BY <3>5, <5>3 DEF FailureHandler, Loop, TypeOK
      <4>3. Refs(AnyEffect) = {} /\ ~PassiveFrame(Top(f))
        BY <4>1, PassiveKinds DEF PassiveFrame, AnyEffect
      <4>4. cur'[f] \in Outcome \/ (~PassiveFrame(Top(f)) /\ Refs(cur'[f]) = {})
        BY <4>2, <4>3, OutcomeTypes
      <4>. QED BY <1>1, <1>4, <2>0, <3>1, <3>2, <4>1, <4>4, GoesBack
    <3>6. CASE RevertFrame(f)
      <4>1. stack'[f] = Tail(stack[f])
        BY <3>6 DEF RevertFrame, Pop, TypeOK
      <4>2. \/ cur'[f] = cur[f] \/ cur'[f] = InterruptCause
            \/ cur[f].k = "fail" /\ cur'[f] = Failed(cur[f].cause \cup {"int"})
        BY <3>6 DEF RevertFrame, Loop, IsFailure, TypeOK
      <4>3. cur'[f] \in Outcome
        BY <1>2, <4>2, OutcomeTypes, CausesClosed
      <4>. QED BY <1>1, <1>4, <2>0, <3>1, <3>2, <4>1, <4>3, GoesBack
    <3>7. CASE UserFinalizer(f)
      <4>1. Top(f).k = "final" /\ ~PassiveFrame(Top(f))
        BY <3>7 DEF UserFinalizer, Final, PassiveFrame
      <4>2. CASE MustStop(f) /\ IsFailure(cur[f])
        <5>1. stack'[f] = Tail(stack[f]) /\ cur'[f] = Failed(cur[f].cause \ {"fail"})
          BY <3>7, <4>2 DEF UserFinalizer, Pop, Loop, TypeOK
        <5>2. cur'[f] \in Outcome
          BY <1>2, <4>2, <5>1, CausesClosed, OutcomeTypes DEF IsFailure
        <5>. QED BY <1>1, <1>4, <2>0, <3>1, <3>2, <5>1, <5>2, GoesBack
      <4>3. CASE ~(MustStop(f) /\ IsFailure(cur[f]))
        <5>. DEFINE r == IF IsFailure(cur[f]) THEN Result(cur[f]) ELSE Cont(cur[f])
                    s == Tail(stack[f])
        <5>1. stack'[f] = <<r>> \o s /\ cur'[f] = AnyEffect
          BY <3>7, <4>3 DEF UserFinalizer, Loop, TypeOK
        <5>2. r \in Frame /\ ~Pending(r)
          BY <1>1, <1>2, FrameTypes, PassiveKinds DEF Pending, Result, Cont, IsFailure
        <5>3. Clean(s) /\ s \in Seq(Frame)
          BY <1>1, <1>4, <3>1, <4>1, Evaluates, PopOK DEF Top
        <5>. HIDE DEF r, s
        <5>4. Clean(stack'[f])
          BY <5>1, <5>2, <5>3, PushClean
        <5>5. Current(Len(asyncs'[f]), cur'[f])
          BY <5>1, PassiveKinds DEF Current, AnyEffect
        <5>6. StackOK(stack'[f], Len(asyncs'[f]))
          BY <5>4, CleanOK
        <5>. QED BY <1>1, <1>4, <2>0, <3>2, <5>4, <5>5, <5>6, Evaluates, Goes
      <4>. QED BY <4>2, <4>3
    <3>. QED BY <2>2, <3>3, <3>4, <3>5, <3>6, <3>7
  <2>. QED BY <2>1, <2>2
<1>. QED BY <1>3, <1>4

(* The canceler of an await keeps it.                                        *)
LEMMA ContCanceler ==
  ASSUME TypeOK, NEW f \in Fiber, NEW g \in Fiber, ContOf(g), AwaitCanceler(f)
  PROVE  ContOf(g)'
<1>. DEFINE job == Top(f).job
            m == Unobserve(<<f, job.i>>)
<1>1. /\ pc[f] = "op" /\ Evaluating(f) /\ Step(f) /\ (g # f => pc'[g] = pc[g]) /\ pc'[f] = "loop"
      /\ stack[f] # <<>> /\ stack[f] \in Seq(Frame) /\ Top(f).k = "final" /\ job # UserJob
      /\ cur[f].k \in {"succ", "fail"} /\ cur[f] \in Effect /\ stack'[f] = Tail(stack[f])
      /\ UNCHANGED <<asyncs, exit, interruptor>>
  BY DEF AwaitCanceler, Meets, OpAt, At, Evaluating, Step, Primitive, Pop, Loop, Goto, TypeOK
<1>2. cur[f] \in Outcome /\ (cur[f].k = "fail" => cur[f].cause \in Causes)
  BY <1>1, EffectFields
<1>3. Top(f) \in Frame
  BY <1>1, Popping DEF Top
<1>4. job.of \in Fiber /\ job.i \in Nat
  BY <1>1, <1>3, FrameFields, JobTypes
<1>5. m \in Message /\ m.k # "resume" /\ queue \in Mail
  <2>1. <<f, job.i>> \in Waiter
    BY <1>4 DEF Waiter
  <2>. QED BY <2>1, MessageTypes DEF Unobserve, TypeOK, Mail
<1>6. Deliver(queue, NoMail) \/ Deliver(queue, To(job.of, m))
  BY DEF AwaitCanceler
<1>7. cur'[f] \in Outcome
  <2>1. \/ cur'[f] = cur[f]
        \/ cur[f].k = "fail" /\ cur'[f] = Failed(cur[f].cause \ {"fail"})
    BY DEF AwaitCanceler, Loop, IsFailure, TypeOK
  <2>. QED BY <1>2, <2>1, CausesClosed, OutcomeTypes
<1>. HIDE DEF job, m
<1>8. Hears(g, queue[g])
  <2>1. CASE Deliver(queue, NoMail)
    <3>1. queue'[g] = queue[g] \o <<>>
      BY <2>1 DEF Deliver, NoMail
    <3>2. queue'[g] = queue[g]
      BY <1>5, <3>1, ConcatEmptySeq DEF Mail
    <3>. QED BY <1>1, <3>2, HearsNothing
  <2>2. CASE Deliver(queue, To(job.of, m))
    BY <1>1, <1>4, <1>5, <2>2, HearsTo
  <2>. QED BY <1>6, <2>1, <2>2
<1>9. CASE g # f
  <2>1. \A daemon : ~UserFork(f, g, daemon)
    BY <1>1, <1>9 DEF UserFork, TypeOK
  <2>. QED BY <1>1, <1>8, <1>9, <2>1, Bystands
<1>10. CASE g = f
  <2>1. NoResume(queue[f]) /\ ~LastArmed(asyncs[f])
    BY <1>1, <1>10, Evaluates DEF NoneArmed, LastArmed, TypeOK
  <2>2. NoResume(queue'[f])
    BY <1>8, <1>10, <2>1 DEF Hears
  <2>. QED BY <1>1, <1>7, <1>10, <2>2, GoesBack
<1>. QED BY <1>9, <1>10

(* evaluateEffect with an exit: wind the children down, come back later, or  *)
(* end.                                                                     *)
LEMMA ContExit ==
  ASSUME TypeInv, NEW f \in Fiber, NEW g \in Fiber, ContOf(g),
         WindDownChildren(f) \/ ExitLater(f) \/ SetExit(f)
  PROVE  ContOf(g)'
<1>0. TypeOK /\ queue \in Mail
  BY DEF TypeInv, TypeOK, Mail
<1>1. /\ pc[f] = "exit" /\ Evaluating(f) /\ Step(f) /\ interruptor' = interruptor
      /\ (g # f => pc'[g] = pc[g]) /\ cur[f] \in Outcome
  BY <1>0, ExitIsOutcome DEF WindDownChildren, ExitLater, SetExit, At, Evaluating, Step, Loop, Goto,
                             TypeOK
<1>2. \A daemon : ~UserFork(f, g, daemon)
  BY <1>1 DEF UserFork, OpAt, At
<1>3. g = f => stack[f] = <<>> /\ NoResume(queue[f]) /\ NoneArmed(asyncs[f]) /\ ~Done(f)
               /\ interruptor[f] = 0 /\ Current(Len(asyncs[f]), cur[f])
  BY <1>1, Evaluates
<1>4. CASE WindDownChildren(f)
  <2>1. Hears(g, queue[g])
    BY <1>0, <1>4, HearsEach DEF WindDownChildren
  <2>2. CASE g # f
    BY <1>0, <1>1, <1>2, <2>1, <2>2, Bystands
  <2>3. CASE g = f
    <3>1. stack'[f] = <<Cont(cur[f])>> \o <<>> /\ cur'[f] = Wind /\ pc'[f] = "loop" /\ UNCHANGED <<asyncs, exit>>
      BY <1>0, <1>3, <1>4, <2>3 DEF WindDownChildren, Push, Loop, Goto, TypeOK
    <3>2. Cont(cur[f]) \in Frame /\ <<>> \in Seq(Frame) /\ Clean(<<>>) /\ ~Pending(Cont(cur[f]))
      BY <1>1, FrameTypes, EffectTypes, PassiveKinds DEF Clean, Pending, Cont, Outcome
    <3>. DEFINE r == Cont(cur[f])
                s == <<>>
    <3>3. stack'[f] = <<r>> \o s /\ r \in Frame /\ s \in Seq(Frame) /\ Clean(s) /\ ~Pending(r)
      BY <3>1, <3>2
    <3>. HIDE DEF r, s
    <3>4. Clean(stack'[f])
      BY <3>3, PushClean
    <3>5. StackOK(stack'[f], Len(asyncs'[f]))
      BY <3>4, CleanOK
    <3>6. Current(Len(asyncs'[f]), cur'[f])
      BY <3>1, PassiveKinds DEF Current, Wind
    <3>7. NoResume(queue'[f])
      <4>1. ~LastArmed(asyncs[f])
        BY <1>0, <1>3, <2>3 DEF NoneArmed, LastArmed, TypeOK
      <4>. QED BY <1>3, <2>1, <2>3, <4>1 DEF Hears
    <3>. QED BY <1>0, <1>1, <1>3, <2>3, <3>1, <3>4, <3>5, <3>6, <3>7, Goes
  <2>. QED BY <2>2, <2>3
<1>5. CASE ExitLater(f)
  <2>. DEFINE m == <<Resume(cur[f])>>
  <2>1. /\ queue'[g] = queue[g] \o IF g = f THEN m ELSE <<>>
        /\ UNCHANGED <<cur, stack, asyncs, exit>> /\ pc'[f] = "leave"
    BY <1>0, <1>5 DEF ExitLater, Deliver, To, NoMail, Evaluation, Goto, TypeOK
  <2>2. m \in Seq(Message) /\ OneResume(m, Outcome)
    BY <1>1, MessageTypes, OutcomeTypes, ResumeShort
  <2>. HIDE DEF m
  <2>3. CASE g # f
    <3>1. queue'[g] = queue[g]
      BY <1>0, <2>1, <2>3, ConcatEmptySeq DEF Mail
    <3>. QED BY <1>0, <1>1, <1>2, <2>1, <2>3, <3>1, HearsNothing, Bystands
  <2>4. CASE g = f
    <3>1. queue'[f] = queue[f] \o m
      BY <2>1, <2>4
    <3>. QED BY <1>0, <1>1, <2>1, <2>2, <2>4, <3>1, Suspends
  <2>. QED BY <2>3, <2>4
<1>6. CASE SetExit(f)
  <2>1. /\ Fire(observers[f]) /\ Deliver(queue, Resumed(observers[f], Succ)) /\ UNCHANGED <<cur, stack>>
        /\ pc'[f] = "leave" /\ exit'[f] = cur[f]
    BY <1>0, <1>6 DEF SetExit, Evaluation, Goto, TypeOK
  <2>2. \A w \in observers[f] : w = <<w[1], w[2]>>
    <3>1. \A w \in Waiter : w = <<w[1], w[2]>>
      BY DEF Waiter
    <3>2. observers[f] \subseteq Waiter
      BY <1>0 DEF TypeOK
    <3>. QED BY <3>1, <3>2
  <2>3. Succ \in Resumable
    BY OutcomeTypes
  <2>4. CASE g # f
    <3>1. Hears(g, queue[g])
      BY <1>0, <2>1, <2>2, <2>3, ArmedOrNot, HearsCall
    <3>. QED BY <1>0, <1>1, <1>2, <2>4, <3>1, Bystands
  <2>5. CASE g = f
    <3>1. /\ NoneArmed(asyncs'[f]) /\ Resumed(observers[f], Succ)[f] = <<>>
          /\ Len(asyncs'[f]) = Len(asyncs[f])
      BY <1>0, <1>3, <2>1, <2>2, <2>3, <2>5, Firing
    <3>2. queue'[f] = queue[f] \o <<>>
      BY <2>1, <3>1 DEF Deliver
    <3>3. queue'[f] = queue[f]
      BY <1>0, <3>2, ConcatEmptySeq DEF Mail
    <3>4. Absent(f)'
      <4>1. cur[f] # NotDone
        BY <1>1 DEF Outcome, Succ, Failed, NotDone
      <4>. QED BY <1>3, <2>1, <2>5, <3>1, <3>3, <4>1 DEF Absent, Off, Done
    <3>5. StackOK(stack'[f], Len(asyncs'[f])) /\ Clean(stack'[f]) /\ stack'[f] = <<>>
      BY <1>3, <2>1, <2>5 DEF StackOK, Clean
    <3>6. Current(Len(asyncs'[f]), cur'[f]) /\ interruptor'[f] = 0
      BY <1>1, <1>3, <2>1, <2>5, <3>1
    <3>. QED BY <2>1, <2>5, <3>4, <3>5, <3>6 DEF ContOf
  <2>. QED BY <2>4, <2>5
<1>. QED BY <1>4, <1>5, <1>6

(* Initially every fiber has its one continuation.                           *)
LEMMA ContInit == Init => ContInv
<1>. SUFFICES ASSUME Init, NEW g \in Fiber PROVE ContOf(g)
  BY DEF ContInv
<1>1. Refs(AnyEffect) = {}
  BY PassiveKinds DEF AnyEffect
<1>2. /\ queue[g] = <<>> /\ asyncs[g] = <<>> /\ stack[g] = <<>> /\ cur[g] = AnyEffect
      /\ interruptor[g] = 0 /\ exit[g] = NotDone /\ pc[g] = "unborn"
  BY DEF Init
<1>. QED BY <1>1, <1>2
         DEF ContOf, Absent, NoResume, NoneArmed, Current, StackOK, Clean, Done

(* Every step keeps the one continuation of every fiber.                     *)
LEMMA ContNext == TypeInv /\ MailboxInv /\ KnownInv /\ ContInv /\ [Next]_vars => ContInv'
<1>. SUFFICES ASSUME TypeInv, MailboxInv, KnownInv, ContInv, [Next]_vars, NEW g \in Fiber
              PROVE  ContOf(g)'
  BY DEF ContInv
<1>0. TypeOK /\ ContOf(g)
  BY DEF TypeInv, ContInv
<1>1. CASE UNCHANGED vars
  BY <1>0, <1>1, HearsNothing, Listens DEF vars, mailbox, control
<1>2. CASE Outside
  BY <1>0, <1>2, ContStart, ContBegin, ContOutside DEF Outside
<1>3. ASSUME NEW f \in Fiber, RunTask(f) PROVE ContOf(g)'
  BY <1>0, <1>3, ContStill
<1>4. ASSUME NEW f \in Fiber, Step(f) PROVE ContOf(g)'
  <2>1. CASE Primitive(f)
    BY <1>0, <2>1, ContBracket, ContAsync, ContYield, ContWind, ContFrames, ContCanceler DEF Primitive
  <2>2. CASE WindDownChildren(f) \/ ExitLater(f) \/ SetExit(f)
    BY <1>0, <2>2, ContExit
  <2>3. CASE UserOp(f)
    BY <1>0, <2>3, ContUser
  <2>4. CASE DrainDone(f) \/ DrainYield(f) \/ BeginOp(f) \/ Return(f)
    BY <1>0, <2>4, ContStill
  <2>5. CASE DrainInterrupt(f) \/ DrainStateful(f) \/ LoopStateful(f)
    BY <1>0, <2>5, ContDrain
  <2>6. CASE DrainResume(f)
    BY <1>0, <2>6, ContResume
  <2>7. CASE LoopInterrupt(f) \/ Preempt(f)
    BY <1>0, <2>7, ContLoop
  <2>. QED BY <1>4, <2>1, <2>2, <2>3, <2>4, <2>5, <2>6, <2>7 DEF Step
<1>. QED BY <1>1, <1>2, <1>3, <1>4 DEF Next

(* The references of a fiber to its callbacks are an invariant, with those   *)
(* they rest on.                                                            *)
THEOREM ContCorrect == Spec => [](TypeInv /\ MailboxInv /\ KnownInv /\ ContInv)
<1>1. Init => TypeInv /\ MailboxInv /\ KnownInv /\ ContInv
  <2>1. Init => TypeInv
    BY TypeInit DEF TypeInv, ExitShape, Init
  <2>2. Init => KnownInv
    BY NoPeers DEF Init, KnownInv, KnownMail, KnownBody
  <2>. QED BY <2>1, <2>2, MailboxInit, ContInit
<1>2. (TypeInv /\ MailboxInv /\ KnownInv /\ ContInv) /\ [Next]_vars
        => (TypeInv /\ MailboxInv /\ KnownInv /\ ContInv)'
  BY TypeNext, ShapeNext, MailboxNext, KnownNext, ContNext DEF TypeInv
<1>. QED BY <1>1, <1>2, PTL DEF Spec

(* How many continuations a fiber has: the resume messages of its inbox, the *)
(* callbacks that wait to be called, and its run loop.                      *)
LEMMA CountsOne ==
  ASSUME TypeOK, ContInv
  PROVE  SingleContinuation
<1>1. InterruptorIsCurrent
  BY DEF ContInv, ContOf, InterruptorIsCurrent, Off, Evaluating
<1>2. ASSUME NEW f \in Fiber
      PROVE  Cardinality(ResumePlaces(f)) + Cardinality(ArmedAsyncs(f))
               + (IF Evaluating(f) THEN 1 ELSE 0)
               = IF Born(f) /\ ~Done(f) THEN 1 ELSE 0
  <2>0. ContOf(f)
    BY DEF ContInv
  <2>1. NoResume(queue[f]) => Cardinality(ResumePlaces(f)) = 0
    <3>1. NoResume(queue[f]) => ResumePlaces(f) = {}
      BY DEF NoResume, ResumePlaces
    <3>. QED BY <3>1, FS_EmptySet
  <2>2. NoneArmed(asyncs[f]) => Cardinality(ArmedAsyncs(f)) = 0
    <3>1. NoneArmed(asyncs[f]) => ArmedAsyncs(f) = {}
      BY DEF NoneArmed, ArmedAsyncs
    <3>. QED BY <3>1, FS_EmptySet
  <2>3. ASSUME NEW E, OneResume(queue[f], E) PROVE Cardinality(ResumePlaces(f)) = 1
    <3>1. PICK j \in DOMAIN queue[f] : /\ queue[f][j].k = "resume"
                                       /\ \A k \in DOMAIN queue[f] : k # j => queue[f][k].k # "resume"
      BY <2>3 DEF OneResume
    <3>2. ResumePlaces(f) = {j}
      BY <3>1 DEF ResumePlaces
    <3>. QED BY <3>2, FS_Singleton
  <2>4. ASSUME LastArmed(asyncs[f]) PROVE Cardinality(ArmedAsyncs(f)) = 1
    <3>1. ArmedAsyncs(f) = {Len(asyncs[f])}
      BY <2>4 DEF LastArmed, ArmedAsyncs, TypeOK
    <3>. QED BY <3>1, FS_Singleton
  <2>5. CASE Runs(f)
    <3>1. Evaluating(f) /\ Born(f) /\ ~Done(f)
      BY <2>5 DEF Runs, Evaluating, Born
    <3>. QED BY <2>1, <2>2, <2>5, <3>1 DEF Runs
  <2>6. CASE Resumes(f)
    <3>1. ~Evaluating(f) /\ Born(f) /\ ~Done(f)
      BY <2>6 DEF Resumes, Evaluating, Born, Off
    <3>2. Cardinality(ResumePlaces(f)) = 1
      BY <2>3, <2>6 DEF Resumes
    <3>. QED BY <2>2, <2>6, <3>1, <3>2 DEF Resumes
  <2>7. CASE Awaits(f)
    <3>1. ~Evaluating(f) /\ Born(f) /\ ~Done(f)
      BY <2>7 DEF Awaits, Evaluating, Born, Off
    <3>. QED BY <2>1, <2>4, <2>7, <3>1 DEF Awaits
  <2>8. CASE Absent(f)
    <3>1. ~Evaluating(f) /\ ~(Born(f) /\ ~Done(f))
      BY <2>8 DEF Absent, Evaluating, Born, Off
    <3>. QED BY <2>1, <2>2, <2>8, <3>1 DEF Absent
  <2>. QED BY <2>0, <2>5, <2>6, <2>7, <2>8 DEF ContOf
<1>. QED BY <1>1, <1>2 DEF SingleContinuation

(* A living fiber has exactly one continuation, a finished one has none: the *)
(* run loop is never entered twice, and no callback is left unanswered.      *)
THEOREM OneContinuation == Spec => []SingleContinuation
<1>1. TypeInv /\ ContInv => SingleContinuation
  BY CountsOne DEF TypeInv
<1>. QED BY <1>1, ContCorrect, PTL

-----------------------------------------------------------------------------
(***************************************************************************)
(* Finalizers run once, for any number of fibers.                          *)
(*                                                                         *)
(* The count alone is not inductive: an interrupted fiber drops the handlers *)
(* it meets when it may be interrupted, and would drop a finalizer as well.  *)
(* Masked says why it never does: every finalizer, and every effect about to *)
(* install one, stands where the interruption flag will be off, whatever     *)
(* RevertFlags frames are met on the way down to it.                        *)
(***************************************************************************)

Finals(s) == {j \in DOMAIN s : s[j] = Final(UserJob)}

(* A continuation that must not be met while the fiber can be interrupted.  *)
Needs(r) == r = Final(UserJob) \/ (r.k = "cont" /\ r.eff.k = "guard")

(* Frame k is the last RevertFlags met before frame j; 0 when there is none. *)
Nearest(s, k, j) ==
  /\ k = 0 \/ s[k].k = "revert"
  /\ \A i \in (k + 1)..(j - 1) : s[i].k # "revert"

FlagAt(s, b, k) == IF k = 0 THEN b ELSE s[k].to

Masked(s, b) ==
  \A j \in DOMAIN s : Needs(s[j]) =>
    \A k \in 0..(j - 1) : Nearest(s, k, j) => ~FlagAt(s, b, k)

FinalOf(g) ==
  /\ opened[g] = ran[g] + Cardinality(Finals(stack[g]))
  /\ Masked(stack[g], interruption[g])
  /\ cur[g].k = "guard" => ~interruption[g]
  /\ pc[g] = "unborn" => cur[g].k # "guard"

FinalInv == \A g \in Fiber : FinalOf(g)

-----------------------------------------------------------------------------
(* Pushing a frame: RevertFlags remembers the flag it replaces, another one  *)
(* must suit the flag as it is.                                             *)
LEMMA MaskPush ==
  ASSUME NEW S, NEW s \in Seq(S), NEW r \in S, NEW b, NEW c, Masked(s, b),
         IF r.k = "revert" THEN r.to = b ELSE c = b,
         Needs(r) => ~c
  PROVE  Masked(<<r>> \o s, c)
<1>. DEFINE t == <<r>> \o s
<1>1. /\ t[1] = r
      /\ \A j \in DOMAIN t : j = 1 \/ (j - 1 \in DOMAIN s /\ t[j] = s[j - 1])
      /\ \A j \in DOMAIN s : j + 1 \in DOMAIN t /\ t[j + 1] = s[j]
      /\ t \in Seq(S)
  BY Pushed
<1>. HIDE DEF t
<1>2. DOMAIN t = 1..Len(t) /\ Len(t) \in Nat /\ DOMAIN s = 1..Len(s) /\ Len(s) \in Nat
  BY <1>1
<1>3. ASSUME NEW j \in DOMAIN t, Needs(t[j]), NEW k \in 0..(j - 1), Nearest(t, k, j)
      PROVE  ~FlagAt(t, c, k)
  <2>1. CASE j = 1
    <3>1. k = 0
      BY <2>1
    <3>. QED BY <1>1, <1>3, <2>1, <3>1 DEF FlagAt
  <2>2. CASE j # 1
    <3>0. j \in Nat /\ k \in Nat
      BY <1>2
    <3>1. j - 1 \in DOMAIN s /\ Needs(s[j - 1])
      <4>1. j - 1 \in DOMAIN s /\ t[j] = s[j - 1]
        BY <1>1, <2>2
      <4>. QED BY <1>3, <4>1
    <3>2. \A m \in 0..(j - 1 - 1) : Nearest(s, m, j - 1) => ~FlagAt(s, b, m)
      BY <3>1 DEF Masked
    <3>3. \A i \in 1..(j - 1 - 1) : i \in DOMAIN s /\ s[i] = t[i + 1]
      BY <1>1, <1>2, <3>1
    <3>4. CASE k > 1
      <4>1. k - 1 \in 0..(j - 1 - 1) /\ k - 1 \in 1..(j - 1 - 1) /\ k - 1 + 1 = k
        BY <3>0, <3>4
      <4>2. s[k - 1] = t[k]
        BY <3>3, <4>1
      <4>3. \A i \in (k - 1 + 1)..(j - 1 - 1) : s[i].k # "revert"
        <5>1. TAKE i \in (k - 1 + 1)..(j - 1 - 1)
        <5>2. i \in 1..(j - 1 - 1) /\ i + 1 \in (k + 1)..(j - 1)
          BY <3>0, <3>4
        <5>3. t[i + 1].k # "revert"
          BY <1>3, <5>2 DEF Nearest
        <5>4. s[i] = t[i + 1]
          BY <3>3, <5>2
        <5>. QED BY <5>3, <5>4
      <4>4. t[k].k = "revert"
        BY <1>3, <3>4 DEF Nearest
      <4>5. Nearest(s, k - 1, j - 1)
        BY <4>2, <4>3, <4>4 DEF Nearest
      <4>6. ~FlagAt(s, b, k - 1)
        BY <3>2, <4>1, <4>5
      <4>. QED BY <3>0, <3>4, <4>2, <4>6 DEF FlagAt
    <3>5. CASE k <= 1
      <4>1. 0 \in 0..(j - 1 - 1)
        BY <3>0, <3>1, <1>2
      <4>2. \A i \in (0 + 1)..(j - 1 - 1) : s[i].k # "revert"
        <5>1. TAKE i \in (0 + 1)..(j - 1 - 1)
        <5>2. i \in 1..(j - 1 - 1) /\ i + 1 \in (k + 1)..(j - 1)
          BY <3>0, <3>5
        <5>3. t[i + 1].k # "revert"
          BY <1>3, <5>2 DEF Nearest
        <5>4. s[i] = t[i + 1]
          BY <3>3, <5>2
        <5>. QED BY <5>3, <5>4
      <4>3. ~b
        <5>1. Nearest(s, 0, j - 1)
          BY <4>2 DEF Nearest
        <5>. QED BY <3>2, <4>1, <5>1 DEF FlagAt
      <4>4. CASE k = 1
        <5>1. r.k = "revert"
          BY <1>1, <1>3, <4>4 DEF Nearest
        <5>. QED BY <1>1, <4>3, <4>4, <5>1 DEF FlagAt
      <4>5. CASE k = 0
        <5>1. 1 \in (k + 1)..(j - 1)
          BY <2>2, <3>0, <4>5, <1>2
        <5>2. r.k # "revert"
          BY <1>1, <1>3, <5>1 DEF Nearest
        <5>. QED BY <4>3, <4>5, <5>2 DEF FlagAt
      <4>. QED BY <3>0, <3>5, <4>4, <4>5
    <3>. QED BY <3>0, <3>4, <3>5
  <2>. QED BY <2>1, <2>2
<1>. QED BY <1>3 DEF Masked, t

(* Leaving a frame: RevertFlags restores the flag it remembers.             *)
LEMMA MaskPop ==
  ASSUME NEW S, NEW s \in Seq(S), s # <<>>, NEW b, Masked(s, b)
  PROVE  /\ Needs(Head(s)) => ~b
         /\ Masked(Tail(s), IF Head(s).k = "revert" THEN Head(s).to ELSE b)
<1>. DEFINE t == Tail(s)
            c == IF Head(s).k = "revert" THEN Head(s).to ELSE b
<1>1. /\ 1 \in DOMAIN s /\ Head(s) = s[1]
      /\ \A j \in DOMAIN t : j + 1 \in DOMAIN s /\ t[j] = s[j + 1]
      /\ \A j \in DOMAIN s : j = 1 \/ (j - 1 \in DOMAIN t /\ t[j - 1] = s[j])
  BY Popping
<1>2. t \in Seq(S)
  BY Popping
<1>. HIDE DEF t
<1>3. DOMAIN t = 1..Len(t) /\ Len(t) \in Nat /\ DOMAIN s = 1..Len(s) /\ Len(s) \in Nat
  BY <1>2
<1>4. Needs(Head(s)) => ~b
  <2>1. Nearest(s, 0, 1) /\ 0 \in 0..(1 - 1)
    BY DEF Nearest
  <2>2. Needs(s[1]) => ~FlagAt(s, b, 0)
    BY <1>1, <2>1 DEF Masked
  <2>. QED BY <1>1, <2>2 DEF FlagAt
<1>5. ASSUME NEW j \in DOMAIN t, Needs(t[j]), NEW k \in 0..(j - 1), Nearest(t, k, j)
      PROVE  ~FlagAt(t, c, k)
  <2>0. j \in Nat /\ k \in Nat
    BY <1>3
  <2>1. j + 1 \in DOMAIN s /\ Needs(s[j + 1])
    <3>1. j + 1 \in DOMAIN s /\ t[j] = s[j + 1]
      BY <1>1
    <3>. QED BY <1>5, <3>1
  <2>2. \A m \in 0..(j + 1 - 1) : Nearest(s, m, j + 1) => ~FlagAt(s, b, m)
    BY <2>1 DEF Masked
  <2>3. \A i \in 2..(j + 1 - 1) : i - 1 \in DOMAIN t /\ s[i] = t[i - 1]
    BY <1>1, <1>3
  <2>4. \A i \in (k + 1 + 1)..(j + 1 - 1) : s[i].k # "revert"
    <3>1. TAKE i \in (k + 1 + 1)..(j + 1 - 1)
    <3>2. i \in 2..(j + 1 - 1) /\ i - 1 \in (k + 1)..(j - 1)
      BY <2>0
    <3>3. t[i - 1].k # "revert"
      BY <1>5, <3>2 DEF Nearest
    <3>4. s[i] = t[i - 1]
      BY <2>3, <3>2
    <3>. QED BY <3>3, <3>4
  <2>5. CASE k = 0 /\ s[1].k # "revert"
    <3>1. \A i \in (0 + 1)..(j + 1 - 1) : s[i].k # "revert"
      <4>1. TAKE i \in (0 + 1)..(j + 1 - 1)
      <4>2. i = 1 \/ i \in (k + 1 + 1)..(j + 1 - 1)
        BY <2>0, <2>5
      <4>. QED BY <2>4, <2>5, <4>2
    <3>2. Nearest(s, 0, j + 1) /\ 0 \in 0..(j + 1 - 1)
      BY <2>0, <3>1 DEF Nearest
    <3>3. ~FlagAt(s, b, 0)
      BY <2>2, <3>2
    <3>. QED BY <1>1, <2>5, <3>3 DEF FlagAt
  <2>6. CASE k # 0 \/ s[1].k = "revert"
    <3>1. k + 1 \in 0..(j + 1 - 1)
      BY <2>0
    <3>2. s[k + 1].k = "revert"
      <4>1. CASE k = 0
        BY <2>6, <4>1
      <4>2. CASE k # 0
        <5>1. t[k].k = "revert" /\ k + 1 \in 2..(j + 1 - 1) /\ k + 1 - 1 = k
          BY <1>5, <2>0, <4>2 DEF Nearest
        <5>2. s[k + 1] = t[k + 1 - 1]
          BY <2>3, <5>1
        <5>. QED BY <5>1, <5>2
      <4>. QED BY <4>1, <4>2
    <3>3. Nearest(s, k + 1, j + 1)
      <4>1. k + 1 = 0 \/ s[k + 1].k = "revert"
        BY <3>2
      <4>2. \A i \in (k + 1 + 1)..(j + 1 - 1) : s[i].k # "revert"
        BY <2>4
      <4>. QED BY <4>1, <4>2, SMTT(30) DEF Nearest
    <3>4. ~FlagAt(s, b, k + 1)
      BY <2>2, <3>1, <3>3
    <3>5. ~s[k + 1].to
      BY <2>0, <3>4 DEF FlagAt
    <3>6. CASE k = 0
      BY <1>1, <2>6, <3>5, <3>6 DEF FlagAt
    <3>7. CASE k # 0
      <4>1. k + 1 \in 2..(j + 1 - 1) /\ k + 1 - 1 = k
        BY <2>0, <3>7
      <4>2. s[k + 1] = t[k + 1 - 1]
        BY <2>3, <4>1
      <4>. QED BY <3>5, <3>7, <4>1, <4>2 DEF FlagAt
    <3>. QED BY <3>6, <3>7
  <2>. QED BY <1>1, <2>5, <2>6
<1>6. Masked(t, c)
  BY <1>5 DEF Masked
<1>. QED BY <1>4, <1>6 DEF t

(* The finalizers of a longer and of a shorter stack.                       *)
LEMMA FinalsPush ==
  ASSUME NEW S, NEW s \in Seq(S), NEW r \in S
  PROVE  /\ Cardinality(Finals(s)) \in Nat
         /\ Cardinality(Finals(<<r>> \o s))
              = Cardinality(Finals(s)) + IF r = Final(UserJob) THEN 1 ELSE 0
<1>. DEFINE t == <<r>> \o s
            F == Finals(s)
            G == {j \in Finals(t) : j # 1}
<1>1. /\ t[1] = r
      /\ \A j \in DOMAIN t : j = 1 \/ (j - 1 \in DOMAIN s /\ t[j] = s[j - 1])
      /\ \A j \in DOMAIN s : j + 1 \in DOMAIN t /\ t[j + 1] = s[j]
      /\ t \in Seq(S) /\ Len(t) = Len(s) + 1
  BY Pushed
<1>. HIDE DEF t
<1>2. DOMAIN t = 1..Len(t) /\ Len(t) \in Nat /\ DOMAIN s = 1..Len(s) /\ Len(s) \in Nat
  BY <1>1
<1>3. IsFiniteSet(F) /\ Cardinality(F) \in Nat
  <2>1. F \subseteq 1..Len(s) /\ IsFiniteSet(1..Len(s))
    BY <1>2, FS_Interval DEF Finals
  <2>. QED BY <2>1, FS_Subset, FS_CardinalityType
<1>4. IsFiniteSet(G) /\ Cardinality(G) = Cardinality(F)
  <2>. DEFINE m == [j \in F |-> j + 1]
  <2>1. \A j \in F : j \in Nat /\ j >= 1 /\ j + 1 \in G
    <3>1. TAKE j \in F
    <3>2. j \in DOMAIN s /\ s[j] = Final(UserJob)
      BY DEF Finals
    <3>3. j + 1 \in DOMAIN t /\ t[j + 1] = s[j]
      BY <1>1, <3>2
    <3>4. j \in Nat /\ j >= 1 /\ j + 1 # 1
      BY <1>2, <3>2
    <3>. QED BY <3>2, <3>3, <3>4 DEF Finals
  <2>2. \A i \in G : i \in Int /\ i - 1 \in F
    <3>1. TAKE i \in G
    <3>2. i \in DOMAIN t /\ t[i] = Final(UserJob) /\ i # 1
      BY DEF Finals
    <3>3. i - 1 \in DOMAIN s /\ t[i] = s[i - 1]
      BY <1>1, <3>2
    <3>. QED BY <1>2, <3>2, <3>3 DEF Finals
  <2>. HIDE DEF F, G
  <2>3. m \in Bijection(F, G)
    <3>1. m \in [F -> G]
      BY <2>1
    <3>2. \A i, j \in F : m[i] = m[j] => i = j
      BY <2>1
    <3>3. \A i \in G : \E j \in F : m[j] = i
      <4>1. TAKE i \in G
      <4>2. i - 1 \in F /\ m[i - 1] = i
        BY <2>2
      <4>. QED BY <4>2
    <3>. QED BY <3>1, <3>2, <3>3 DEF Bijection, Injection, Surjection, IsInjective
  <2>4. ExistsBijection(F, G)
    BY <2>3 DEF ExistsBijection
  <2>. QED BY <1>3, <2>4, FS_Bijection
<1>5. CASE r = Final(UserJob)
  <2>1. Finals(t) = G \cup {1} /\ 1 \notin G
    <3>1. 1 \in Finals(t)
      BY <1>1, <1>2, <1>5 DEF Finals
    <3>. QED BY <3>1
  <2>. HIDE DEF G
  <2>2. Cardinality(Finals(t)) = Cardinality(G) + 1
    BY <1>4, <2>1, FS_AddElement
  <2>. QED BY <1>3, <1>4, <1>5, <2>2 DEF t
<1>6. CASE r # Final(UserJob)
  <2>1. Finals(t) = G
    <3>1. 1 \notin Finals(t)
      BY <1>1, <1>6 DEF Finals
    <3>. QED BY <3>1
  <2>. HIDE DEF G
  <2>. QED BY <1>3, <1>4, <1>6, <2>1 DEF t
<1>. QED BY <1>5, <1>6

(* Popping a frame removes one finalizer when that frame is one.             *)
LEMMA FinalsPop ==
  ASSUME NEW S, NEW s \in Seq(S), s # <<>>
  PROVE  /\ Cardinality(Finals(Tail(s))) \in Nat
         /\ Cardinality(Finals(s))
              = Cardinality(Finals(Tail(s))) + IF Head(s) = Final(UserJob) THEN 1 ELSE 0
<1>1. Tail(s) \in Seq(S) /\ Head(s) \in S
  BY Popping
<1>2. s = <<Head(s)>> \o Tail(s)
  OBVIOUS
<1>3. \A h \in S, t \in Seq(S) :
        /\ Cardinality(Finals(t)) \in Nat
        /\ Cardinality(Finals(<<h>> \o t))
              = Cardinality(Finals(t)) + IF h = Final(UserJob) THEN 1 ELSE 0
  BY FinalsPush
<1>. QED BY <1>1, <1>2, <1>3

-----------------------------------------------------------------------------
(* A fiber whose stack and flag stay as they are.                           *)
LEMMA FinalSame ==
  ASSUME Aged, NEW g \in Fiber, FinalOf(g),
         UNCHANGED <<stack[g], interruption[g], opened[g], ran[g]>>,
         cur'[g] = cur[g] \/ cur'[g].k # "guard"
  PROVE  FinalOf(g)'
<1>1. pc'[g] = "unborn" => pc[g] = "unborn"
  BY DEF Aged, Born
<1>2. Masked(stack[g], interruption[g])'
  BY DEF FinalOf
<1>. QED BY <1>1, <1>2 DEF FinalOf

(* A fiber that pushes a frame, and one that leaves one.                    *)
LEMMA FinalPushes ==
  ASSUME TypeOK, NEW f \in Fiber, FinalOf(f), pc'[f] # "unborn",
         NEW r \in Frame, stack'[f] = <<r>> \o stack[f], ran'[f] = ran[f],
         opened'[f] = opened[f] + (IF r = Final(UserJob) THEN 1 ELSE 0),
         IF r.k = "revert" THEN r.to = interruption[f] ELSE interruption'[f] = interruption[f],
         Needs(r) => ~interruption'[f],
         cur'[f].k = "guard" => ~interruption'[f]
  PROVE  FinalOf(f)'
<1>. DEFINE t == <<r>> \o stack[f]
<1>1. stack[f] \in Seq(Frame) /\ opened[f] \in Nat /\ ran[f] \in Nat
  BY DEF TypeOK
<1>2. Masked(t, interruption'[f])
  BY <1>1, MaskPush DEF FinalOf
<1>3. /\ Cardinality(Finals(stack[f])) \in Nat
      /\ Cardinality(Finals(t))
           = Cardinality(Finals(stack[f])) + IF r = Final(UserJob) THEN 1 ELSE 0
  BY <1>1, FinalsPush
<1>4. stack'[f] = t
  OBVIOUS
<1>. HIDE DEF t
<1>5. Masked(stack[f], interruption[f])' /\ Cardinality(Finals(stack[f]))' = Cardinality(Finals(t))
  BY <1>2, <1>4
<1>6. opened'[f] = ran'[f] + Cardinality(Finals(stack[f]))'
  BY <1>1, <1>3, <1>5 DEF FinalOf
<1>. QED BY <1>5, <1>6 DEF FinalOf

(* Popping a frame that is not a finalizer keeps the count of finalizers     *)
(* and the mask over them.                                                   *)
LEMMA FinalPops ==
  ASSUME TypeOK, NEW f \in Fiber, FinalOf(f), pc'[f] # "unborn", stack[f] # <<>>,
         stack'[f] = Tail(stack[f]), UNCHANGED <<opened[f], ran[f]>>,
         Head(stack[f]) # Final(UserJob),
         interruption'[f] = IF Head(stack[f]).k = "revert" THEN Head(stack[f]).to
                            ELSE interruption[f],
         cur'[f].k = "guard" => ~interruption'[f]
  PROVE  FinalOf(f)'
<1>1. stack[f] \in Seq(Frame) /\ opened[f] \in Nat /\ ran[f] \in Nat
  BY DEF TypeOK
<1>2. Masked(Tail(stack[f]), interruption'[f])
  BY <1>1, MaskPop DEF FinalOf
<1>3. /\ Cardinality(Finals(Tail(stack[f]))) \in Nat
      /\ Cardinality(Finals(stack[f])) = Cardinality(Finals(Tail(stack[f])))
  BY <1>1, FinalsPop
<1>4. Masked(stack[f], interruption[f])'
      /\ Cardinality(Finals(stack[f]))' = Cardinality(Finals(Tail(stack[f])))
  BY <1>2
<1>. QED BY <1>1, <1>3, <1>4 DEF FinalOf

(* The flag of the others; only a fork sets that of the fiber it creates.    *)
LEMMA FlagAlone ==
  ASSUME TypeOK, NEW f \in Fiber, NEW g \in Fiber, g # f, RunTask(f) \/ Step(f),
         \A daemon : ~UserFork(f, g, daemon)
  PROVE  interruption'[g] = interruption[g]
<1>. USE DEF TypeOK, flags, Evaluation
<1>1. CASE RunTask(f) \/ Return(f) \/ DrainDone(f) \/ DrainYield(f) \/ BeginOp(f)
  BY <1>1 DEF RunTask, Return, DrainDone, DrainYield, BeginOp
<1>2. CASE DrainInterrupt(f) \/ DrainResume(f) \/ DrainStateful(f) \/ LoopStateful(f)
  BY <1>2 DEF DrainInterrupt, DrainResume, DrainStateful, LoopStateful, Stateful1
<1>3. CASE LoopInterrupt(f) \/ Preempt(f) \/ WindDownChildren(f) \/ ExitLater(f) \/ SetExit(f)
  BY <1>3 DEF LoopInterrupt, Preempt, WindDownChildren, ExitLater, SetExit
<1>4. CASE UserOp(f)
  <2>1. ASSUME NEW to, UserFlags(f, to) PROVE interruption'[g] = interruption[g]
    BY <2>1 DEF UserFlags, UpdateFlags
  <2>2. ASSUME NEW c \in Fiber, NEW daemon, UserFork(f, c, daemon)
        PROVE  interruption'[g] = interruption[g]
    <3>1. c # g
      BY <2>2
    <3>. QED BY <2>2, <3>1 DEF UserFork
  <2>3. CASE UserSucceed(f) \/ UserFail(f) \/ UserOnExit(f) \/ UserYield(f)
    BY <2>3 DEF UserSucceed, UserFail, UserOnExit, UserYield
  <2>4. ASSUME NEW kind, NEW st, NEW h, UserFrame(f, kind) \/ UserAsync(f, st) \/ UserAwait(f, h)
        PROVE  interruption'[g] = interruption[g]
    BY <2>4 DEF UserFrame, UserAsync, UserAwait
  <2>5. ASSUME NEW h, NEW i, UserInterrupt(f, h) \/ UserCallback(f, h, i)
        PROVE  interruption'[g] = interruption[g]
    BY <2>5 DEF UserInterrupt, UserCallback
  <2>. QED BY <1>4, <2>1, <2>2, <2>3, <2>4, <2>5 DEF UserOp
<1>5. CASE Primitive(f)
  <2>1. CASE OpOnExit(f) \/ OpGuard(f) \/ OpRestore(f)
    BY <2>1 DEF OpOnExit, OpGuard, OpRestore, UpdateFlags
  <2>2. CASE OpAsync(f) \/ OpYield(f) \/ OpWind(f)
    BY <2>2 DEF OpAsync, OpYield, OpWind
  <2>3. CASE SkipFrame(f) \/ SuccessHandler(f) \/ FailureHandler(f) \/ EndLoop(f)
    BY <2>3 DEF SkipFrame, SuccessHandler, FailureHandler, EndLoop
  <2>4. CASE RevertFrame(f) \/ UserFinalizer(f) \/ AwaitCanceler(f)
    BY <2>4 DEF RevertFrame, UserFinalizer, AwaitCanceler
  <2>. QED BY <1>5, <2>1, <2>2, <2>3, <2>4 DEF Primitive
<1>. QED BY <1>1, <1>2, <1>3, <1>4, <1>5 DEF Step

(* A step of one fiber leaves the finalizers of another as they were.        *)
LEMMA FinalElsewhere ==
  ASSUME TypeOK, Aged, NEW f \in Fiber, NEW g \in Fiber, g # f, RunTask(f) \/ Step(f),
         ContOf(g), FinalOf(g)
  PROVE  FinalOf(g)'
<1>1. Untouched(g)
  BY Alone
<1>2. ASSUME NEW daemon, UserFork(f, g, daemon) PROVE FinalOf(g)'
  <2>1. pc[g] = "unborn" /\ stack[g] = <<>>
    BY <1>2 DEF UserFork, ContOf
  <2>2. Masked(stack[g], interruption[g])'
    BY <1>1, <2>1 DEF Masked, Untouched
  <2>. QED BY <1>1, <2>1, <2>2 DEF FinalOf, Untouched
<1>3. CASE \A daemon : ~UserFork(f, g, daemon)
  BY <1>1, <1>3, FlagAlone, FinalSame DEF Untouched
<1>. QED BY <1>2, <1>3

-----------------------------------------------------------------------------
(* The actions, one by one.  No effect but `guard` itself needs the flag.   *)
LEMMA OtherKinds ==
  /\ \A e \in Resumable : e.k # "guard"
  /\ InterruptCause.k # "guard" /\ Succ.k # "guard" /\ AnyEffect.k # "guard"
  /\ Wind.k # "guard" /\ Yield.k # "guard"
  /\ \A c : Failed(c).k # "guard"
  /\ \A i : Async(i).k # "guard"
  /\ \A job : OnExit(job).k # "guard" /\ Body(job).k # "guard"
  /\ \A job, to : Restore(job, to).k # "guard"
BY DEF Resumable, Outcome, InterruptCause, Succ, AnyEffect, Wind, Yield, Failed, Async, OnExit,
       Body, Restore

(* Drains, messages and ends leave the stack alone.                         *)
LEMMA FinalDrain ==
  ASSUME TypeOK, Aged, NEW f \in Fiber, FinalOf(f),
         \/ RunTask(f) \/ Return(f) \/ DrainDone(f) \/ DrainYield(f) \/ DrainInterrupt(f)
         \/ DrainResume(f) \/ DrainStateful(f) \/ LoopStateful(f) \/ LoopInterrupt(f) \/ BeginOp(f)
         \/ ExitLater(f) \/ SetExit(f)
  PROVE  FinalOf(f)'
<1>. USE DEF flags, Evaluation, history
<1>1. UNCHANGED <<stack[f], interruption[f], opened[f], ran[f]>>
  BY DEF RunTask, Return, DrainDone, DrainYield, DrainInterrupt, DrainResume, DrainStateful,
         LoopStateful, Stateful1, LoopInterrupt, BeginOp, ExitLater, SetExit
<1>2. CASE DrainResume(f)
  <2>1. queue[f] # <<>> /\ Head(queue[f]).k = "resume" /\ Head(queue[f]) \in Message
    BY <1>2, PoppedType DEF DrainResume, Next1
  <2>2. cur'[f] = InterruptCause \/ cur'[f] = Head(queue[f]).eff
    BY <1>2 DEF DrainResume, Evaluate, Loop, TypeOK
  <2>. QED BY <1>1, <2>1, <2>2, MessageFields, OtherKinds, FinalSame
<1>3. CASE LoopInterrupt(f)
  <2>1. cur'[f] = InterruptCause \/ cur'[f] = cur[f]
    BY <1>3 DEF LoopInterrupt, TypeOK
  <2>. QED BY <1>1, <2>1, OtherKinds, FinalSame
<1>4. CASE ~DrainResume(f) /\ ~LoopInterrupt(f)
  <2>1. cur'[f] = cur[f]
    BY <1>4 DEF RunTask, Return, DrainDone, DrainYield, DrainInterrupt, DrainStateful,
         LoopStateful, Stateful1, BeginOp, ExitLater, SetExit
  <2>. QED BY <1>1, <2>1, FinalSame
<1>. QED BY <1>2, <1>3, <1>4

(* A preemption and a wind-down keep the effect they delay for later.       *)
LEMMA FinalDelay ==
  ASSUME TypeOK, ExitShape, NEW f \in Fiber, FinalOf(f), Preempt(f) \/ WindDownChildren(f)
  PROVE  FinalOf(f)'
<1>. DEFINE r == Cont(cur[f])
<1>1. cur[f] \in Effect /\ r \in Frame
  BY FrameTypes DEF TypeOK
<1>2. /\ stack'[f] = <<r>> \o stack[f] /\ UNCHANGED <<opened[f], ran[f], interruption[f]>>
      /\ pc'[f] # "unborn" /\ cur'[f].k # "guard"
  BY OtherKinds, ZenonT(30) DEF Preempt, WindDownChildren, Push, Goto, Loop, flags, history, TypeOK
<1>3. r.k = "cont" /\ r.eff = cur[f] /\ r # Final(UserJob)
  BY DEF Cont, Final
<1>4. opened[f] \in Nat
  BY DEF TypeOK
<1>. HIDE DEF r
<1>5. Needs(r) => ~interruption'[f]
  BY <1>2, <1>3 DEF Needs, FinalOf
<1>. QED BY <1>1, <1>2, <1>3, <1>4, <1>5, FinalPushes

(* The primitives a user's effect starts with.                              *)
LEMMA FinalFlags ==
  ASSUME TypeOK, Aged, NEW f \in Fiber, FinalOf(f), NEW to \in BOOLEAN, NEW body,
         UpdateFlags(f, to, body), UNCHANGED <<opened, ran>>,
         body.k = "guard" => ~to
  PROVE  FinalOf(f)'
<1>1. CASE to /\ ~windDown[f] /\ interrupted[f]
  <2>1. cur'[f] = InterruptCause /\ UNCHANGED <<stack, interruption>>
    BY <1>1 DEF UpdateFlags, Loop, TypeOK
  <2>. QED BY <2>1, OtherKinds, FinalSame
<1>2. CASE ~(to /\ ~windDown[f] /\ interrupted[f])
  <2>. DEFINE r == Revert(interruption[f])
  <2>1. /\ stack'[f] = <<r>> \o stack[f] /\ interruption'[f] = to /\ cur'[f] = body
        /\ pc'[f] # "unborn"
    BY <1>2 DEF UpdateFlags, Push, Loop, Goto, TypeOK
  <2>2. r \in Frame /\ r.k = "revert" /\ r.to = interruption[f] /\ r # Final(UserJob) /\ ~Needs(r)
    BY FrameTypes DEF Revert, Final, Needs, TypeOK
  <2>3. opened[f] \in Nat
    BY DEF TypeOK
  <2>. HIDE DEF r
  <2>. QED BY <2>1, <2>2, <2>3, FinalPushes
<1>. QED BY <1>1, <1>2

(* A user operation keeps FinalOf: only opening a scope adds a finalizer,    *)
(* and counts it.                                                            *)
LEMMA FinalUser ==
  ASSUME TypeOK, Aged, NEW f \in Fiber, FinalOf(f), UserOp(f)
  PROVE  FinalOf(f)'
<1>. USE DEF flags, history
<1>1. CASE UserSucceed(f) \/ UserFail(f) \/ UserOnExit(f) \/ UserYield(f)
  <2>1. UNCHANGED <<stack[f], interruption[f], opened[f], ran[f]>>
    BY <1>1 DEF UserSucceed, UserFail, UserOnExit, UserYield
  <2>2. cur'[f].k # "guard"
    BY <1>1, OtherKinds DEF UserSucceed, UserFail, UserOnExit, UserYield, Loop, TypeOK
  <2>. QED BY <2>1, <2>2, FinalSame
<1>2. ASSUME NEW kind \in {"succ", "failure", "both"}, UserFrame(f, kind) PROVE FinalOf(f)'
  <2>. DEFINE r == Simple(kind)
  <2>1. /\ stack'[f] = <<r>> \o stack[f] /\ UNCHANGED <<interruption[f], opened[f], ran[f]>>
        /\ cur'[f].k # "guard" /\ pc'[f] # "unborn"
    BY <1>2, OtherKinds DEF UserFrame, Push, Loop, Goto, TypeOK
  <2>2. r \in Frame /\ r.k # "revert" /\ r # Final(UserJob) /\ ~Needs(r)
    BY FrameTypes DEF Simple, Final, Needs
  <2>3. opened[f] \in Nat
    BY DEF TypeOK
  <2>. HIDE DEF r
  <2>. QED BY <2>1, <2>2, <2>3, FinalPushes
<1>3. ASSUME NEW to \in BOOLEAN, UserFlags(f, to) PROVE FinalOf(f)'
  BY <1>3, OtherKinds, FinalFlags DEF UserFlags
<1>4. ASSUME NEW st, NEW h, UserAsync(f, st) \/ UserAwait(f, h) PROVE FinalOf(f)'
  <2>1. UNCHANGED <<stack[f], interruption[f], opened[f], ran[f]>>
    BY <1>4 DEF UserAsync, UserAwait
  <2>2. cur'[f].k # "guard"
    BY <1>4, OtherKinds DEF UserAsync, UserAwait, Await, AwaitJob, Loop, TypeOK
  <2>. QED BY <2>1, <2>2, FinalSame
<1>5. ASSUME NEW h, NEW i, UserInterrupt(f, h) \/ UserCallback(f, h, i) PROVE FinalOf(f)'
  <2>1. UNCHANGED <<stack[f], interruption[f], opened[f], ran[f]>>
    BY <1>5 DEF UserInterrupt, UserCallback
  <2>2. cur'[f].k # "guard"
    BY <1>5, OtherKinds DEF UserInterrupt, UserCallback, SyncDone, TypeOK
  <2>. QED BY <2>1, <2>2, FinalSame
<1>6. ASSUME NEW c \in Fiber, NEW daemon, UserFork(f, c, daemon) PROVE FinalOf(f)'
  <2>1. c # f
    BY <1>6 DEF UserFork, OpAt, At
  <2>2. UNCHANGED <<stack[f], interruption[f], opened[f], ran[f]>>
    BY <1>6, <2>1 DEF UserFork, TypeOK
  <2>3. cur'[f].k # "guard"
    BY <1>6, OtherKinds DEF UserFork, TypeOK
  <2>. QED BY <2>2, <2>3, FinalSame
<1>. QED BY <1>1, <1>2, <1>3, <1>4, <1>5, <1>6 DEF UserOp

(* onExit: mask, install, restore.                                          *)
LEMMA FinalBracket ==
  ASSUME TypeOK, Aged, NEW f \in Fiber, FinalOf(f), OpOnExit(f) \/ OpGuard(f) \/ OpRestore(f)
  PROVE  FinalOf(f)'
<1>0. cur[f] \in Effect
  BY DEF TypeOK
<1>1. CASE OpOnExit(f)
  <2>. DEFINE body == Guard(cur[f].job, interruption[f])
  <2>1. UpdateFlags(f, FALSE, body) /\ UNCHANGED <<opened, ran>>
    BY <1>1 DEF OpOnExit, history
  <2>. HIDE DEF body
  <2>. QED BY <2>1, FinalFlags
<1>2. CASE OpGuard(f)
  <2>. DEFINE r == Final(cur[f].job)
  <2>1. cur[f].k = "guard" /\ cur[f].job \in Job
    BY <1>0, <1>2, EffectFields DEF OpGuard, OpAt
  <2>2. /\ stack'[f] = <<r>> \o stack[f] /\ UNCHANGED <<interruption[f], ran[f]>>
        /\ opened'[f] = opened[f] + (IF cur[f].job = UserJob THEN 1 ELSE 0)
        /\ cur'[f].k # "guard" /\ pc'[f] # "unborn"
    BY <1>2, OtherKinds DEF OpGuard, Push, Loop, Goto, TypeOK
  <2>3. r \in Frame /\ r.k # "revert" /\ (r = Final(UserJob) <=> cur[f].job = UserJob)
    BY <2>1, FrameTypes DEF Final
  <2>4. ~interruption'[f]
    BY <2>1, <2>2 DEF FinalOf
  <2>. HIDE DEF r
  <2>. QED BY <2>2, <2>3, <2>4, FinalPushes
<1>3. CASE OpRestore(f)
  <2>. DEFINE body == Body(cur[f].job)
  <2>1. UpdateFlags(f, cur[f].to, body) /\ UNCHANGED <<opened, ran>> /\ cur[f].to \in BOOLEAN
    BY <1>0, <1>3, EffectFields DEF OpRestore, OpAt, history
  <2>2. body.k # "guard"
    BY OtherKinds
  <2>. HIDE DEF body
  <2>. QED BY <2>1, <2>2, FinalFlags
<1>. QED BY <1>1, <1>2, <1>3

(* Suspending, yielding, waiting for a child, leaving the run loop.          *)
LEMMA FinalSuspend ==
  ASSUME TypeOK, Aged, NEW f \in Fiber, FinalOf(f),
         OpAsync(f) \/ OpYield(f) \/ OpWind(f) \/ EndLoop(f)
  PROVE  FinalOf(f)'
<1>. USE DEF flags, history, Evaluation
<1>1. CASE OpAsync(f) \/ OpYield(f) \/ EndLoop(f)
  <2>1. UNCHANGED <<stack[f], interruption[f], opened[f], ran[f]>>
    BY <1>1 DEF OpAsync, OpYield, EndLoop
  <2>2. cur'[f] = cur[f] \/ cur'[f] = Succ
    BY <1>1 DEF OpAsync, OpYield, EndLoop, Loop, TypeOK
  <2>. QED BY <2>1, <2>2, OtherKinds, FinalSame
<1>2. CASE OpWind(f)
  <2>1. UNCHANGED <<interruption[f], opened[f], ran[f]>>
    BY <1>2 DEF OpWind
  <2>2. CASE winding[f] = {}
    <3>1. stack'[f] = stack[f] /\ cur'[f] = Succ
      BY <1>2, <2>2 DEF OpWind, Loop, TypeOK
    <3>. QED BY <2>1, <3>1, OtherKinds, FinalSame
  <2>3. CASE winding[f] # {}
    <3>. DEFINE r == Simple("windLoop")
    <3>1. PICK c : Push(f, r) /\ Await(f, c, AwaitJob(f, c))
      BY <1>2, <2>3 DEF OpWind
    <3>2. stack'[f] = <<r>> \o stack[f] /\ cur'[f].k # "guard" /\ pc'[f] # "unborn"
      BY <3>1, OtherKinds DEF Push, Await, AwaitJob, Loop, Goto, TypeOK
    <3>3. r \in Frame /\ r.k # "revert" /\ r # Final(UserJob) /\ ~Needs(r)
      BY FrameTypes DEF Simple, Final, Needs
    <3>4. opened[f] \in Nat
      BY DEF TypeOK
    <3>. HIDE DEF r
    <3>. QED BY <2>1, <3>2, <3>3, <3>4, FinalPushes
  <2>. QED BY <2>2, <2>3
<1>. QED BY <1>1, <1>2

(* Continuations that are not a user's finalizer.                           *)
LEMMA FinalFrames ==
  ASSUME TypeOK, Aged, NEW f \in Fiber, FinalOf(f),
         \/ SkipFrame(f) \/ SuccessHandler(f) \/ FailureHandler(f) \/ RevertFrame(f)
         \/ AwaitCanceler(f)
  PROVE  FinalOf(f)'
<1>. USE DEF flags, history
<1>1. /\ stack[f] # <<>> /\ cur[f].k \in {"succ", "fail"} /\ pc[f] = "op"
      /\ stack'[f] = Tail(stack[f]) /\ UNCHANGED <<opened[f], ran[f]>>
      /\ pc'[f] # "unborn"
  BY DEF SkipFrame, SuccessHandler, FailureHandler, RevertFrame, AwaitCanceler, Meets, OpAt, At,
         Pop, Loop, Goto, TypeOK
<1>2. Top(f) = Head(stack[f]) /\ Top(f) \in Frame
  BY <1>1, Popping DEF Top, TypeOK
<1>3. CASE SkipFrame(f)
  <2>1. /\ Top(f).k # "revert" /\ Top(f) # Final(UserJob) /\ UNCHANGED <<cur[f], interruption[f]>>
    BY <1>3 DEF SkipFrame, SkippedBySuccess, SkippedByFailure, Final
  <2>. QED BY <1>1, <1>2, <2>1, FinalPops
<1>4. CASE SuccessHandler(f)
  <2>1. Top(f).k # "revert" /\ Top(f) # Final(UserJob) /\ UNCHANGED interruption[f]
    BY <1>4 DEF SuccessHandler, Final
  <2>2. CASE Top(f).k \in {"cont", "result"}
    <3>1. cur'[f] = Top(f).eff
      BY <1>4, <2>2 DEF SuccessHandler, Loop, TypeOK
    <3>2. cur'[f].k = "guard" => ~interruption[f]
      <4>1. CASE Top(f).k = "cont"
        <5>1. Needs(Top(f)) => ~interruption[f]
          BY <1>1, <1>2, MaskPop DEF FinalOf, TypeOK
        <5>. QED BY <3>1, <4>1, <5>1 DEF Needs
      <4>2. CASE Top(f).k = "result"
        BY <1>2, <3>1, <4>2 DEF Frame, Failed
      <4>. QED BY <2>2, <4>1, <4>2
    <3>. QED BY <1>1, <1>2, <2>1, <3>2, FinalPops
  <2>3. CASE Top(f).k \notin {"cont", "result"}
    <3>1. cur'[f].k # "guard"
      BY <1>4, <2>3, OtherKinds DEF SuccessHandler, Loop, TypeOK
    <3>. QED BY <1>1, <1>2, <2>1, <3>1, FinalPops
  <2>. QED BY <2>2, <2>3
<1>5. CASE FailureHandler(f)
  <2>1. Top(f).k # "revert" /\ Top(f) # Final(UserJob) /\ UNCHANGED interruption[f]
    BY <1>5 DEF FailureHandler, Final
  <2>2. cur'[f].k # "guard"
    <3>1. \/ cur'[f] = AnyEffect \/ cur'[f] = Failed(cur[f].cause \ {"fail"})
          \/ cur'[f] = Failed(Top(f).eff.cause \cup cur[f].cause)
      BY <1>5 DEF FailureHandler, Loop, TypeOK
    <3>. QED BY <3>1, OtherKinds
  <2>. QED BY <1>1, <1>2, <2>1, <2>2, FinalPops
<1>6. CASE RevertFrame(f)
  <2>1. Top(f).k = "revert" /\ Top(f) # Final(UserJob) /\ interruption'[f] = Top(f).to
    BY <1>6 DEF RevertFrame, Final, TypeOK
  <2>2. cur'[f].k # "guard"
    <3>1. \/ cur'[f] = cur[f] \/ cur'[f] = InterruptCause
          \/ cur'[f] = Failed(cur[f].cause \cup {"int"})
      BY <1>6 DEF RevertFrame, Loop, TypeOK
    <3>. QED BY <1>1, <3>1, OtherKinds
  <2>. QED BY <1>1, <1>2, <2>1, <2>2, FinalPops
<1>7. CASE AwaitCanceler(f)
  <2>1. Top(f).k # "revert" /\ Top(f) # Final(UserJob) /\ UNCHANGED interruption[f]
    BY <1>7 DEF AwaitCanceler, Final
  <2>2. cur'[f].k # "guard"
    <3>1. cur'[f] = cur[f] \/ cur'[f] = Failed(cur[f].cause \ {"fail"})
      BY <1>7 DEF AwaitCanceler, Loop, TypeOK
    <3>. QED BY <1>1, <3>1, OtherKinds
  <2>. QED BY <1>1, <1>2, <2>1, <2>2, FinalPops
<1>. QED BY <1>3, <1>4, <1>5, <1>6, <1>7

(* A user's finalizer is met in a masked region: it runs, and is counted.    *)
LEMMA FinalRuns ==
  ASSUME TypeOK, Aged, NEW f \in Fiber, FinalOf(f), UserFinalizer(f)
  PROVE  FinalOf(f)'
<1>. DEFINE r == IF IsFailure(cur[f]) THEN Result(cur[f]) ELSE Cont(cur[f])
            s == Tail(stack[f])
<1>1. stack[f] # <<>> /\ stack[f] \in Seq(Frame) /\ Head(stack[f]) = Final(UserJob)
      /\ cur[f].k \in {"succ", "fail"} /\ cur[f] \in Effect
      /\ Head(stack[f]).k # "revert" /\ Needs(Head(stack[f]))
  BY DEF UserFinalizer, Meets, OpAt, Top, TypeOK, Needs, Final
<1>2. ~interruption[f] /\ Masked(s, interruption[f])
  BY <1>1, MaskPop DEF FinalOf
<1>3. /\ Cardinality(Finals(s)) \in Nat
      /\ Cardinality(Finals(stack[f])) = Cardinality(Finals(s)) + 1
  BY <1>1, FinalsPop
<1>4. ~MustStop(f)
  BY <1>2 DEF MustStop, Interruptible
<1>5. /\ stack'[f] = <<r>> \o s /\ ran'[f] = ran[f] + 1 /\ cur'[f] = AnyEffect
      /\ pc'[f] # "unborn" /\ UNCHANGED <<interruption[f], opened[f]>>
  BY <1>4 DEF UserFinalizer, Loop, Goto, TypeOK
<1>6. r \in Frame /\ r # Final(UserJob) /\ ~Needs(r) /\ r.k # "revert"
  BY <1>1, FrameTypes DEF Result, Cont, IsFailure, Final, Needs
<1>7. s \in Seq(Frame)
  BY <1>1
<1>. DEFINE t == <<r>> \o s
<1>8. stack'[f] = t
  BY <1>5
<1>. HIDE DEF r, s
<1>9. Masked(t, interruption[f]) /\ Cardinality(Finals(t)) = Cardinality(Finals(s))
  <2>1. Masked(t, interruption[f])
    BY <1>2, <1>6, <1>7, MaskPush
  <2>2. Cardinality(Finals(s)) \in Nat
        /\ Cardinality(Finals(t)) = Cardinality(Finals(s)) + IF r = Final(UserJob) THEN 1 ELSE 0
    BY <1>6, <1>7, FinalsPush
  <2>. QED BY <1>6, <2>1, <2>2
<1>. HIDE DEF t
<1>10. Masked(stack[f], interruption[f])' /\ Cardinality(Finals(stack[f]))' = Cardinality(Finals(t))
  BY <1>5, <1>8, <1>9
<1>11. opened'[f] = ran'[f] + Cardinality(Finals(stack[f]))'
  BY <1>3, <1>5, <1>9, <1>10 DEF FinalOf, TypeOK
<1>. QED BY <1>5, <1>10, <1>11, OtherKinds DEF FinalOf

(* The outside world.                                                       *)
LEMMA FinalOutside ==
  ASSUME TypeOK, Aged, NEW f \in Fiber, NEW g \in Fiber, FinalOf(g),
         \/ Start(f) \/ StartLater(f) \/ ExternalInterrupt(f)
         \/ \E i \in DOMAIN asyncs[f] : ExternalCallback(f, i)
  PROVE  FinalOf(g)'
<1>. USE DEF flags, history, Evaluation
<1>1. UNCHANGED <<stack[g], interruption[g], opened[g], ran[g]>>
  BY DEF Start, StartLater, ExternalInterrupt, ExternalCallback
<1>2. cur'[g] = cur[g] \/ cur'[g].k # "guard"
  <2>1. CASE Start(f)
    <3>1. CASE Idle
      BY <2>1, <3>1, OtherKinds DEF Start, Evaluate, Loop, TypeOK
    <3>2. CASE ~Idle
      BY <2>1, <3>2, OtherKinds DEF Start, TypeOK
    <3>. QED BY <3>1, <3>2
  <2>2. CASE ~Start(f)
    BY <2>2 DEF StartLater, ExternalInterrupt, ExternalCallback
  <2>. QED BY <2>1, <2>2
<1>. QED BY <1>1, <1>2, FinalSame

(* Every step keeps FinalOf of every fiber.                                  *)
LEMMA FinalNext == TypeInv /\ ContInv /\ FinalInv /\ [Next]_vars => FinalInv'
<1>. SUFFICES ASSUME TypeInv, ContInv, FinalInv, [Next]_vars, NEW g \in Fiber
              PROVE  FinalOf(g)'
  BY DEF FinalInv
<1>0. TypeOK /\ ExitShape /\ Aged /\ ContOf(g) /\ FinalOf(g)
  BY Ages DEF TypeInv, ContInv, FinalInv
<1>1. CASE UNCHANGED vars
  BY <1>0, <1>1, FinalSame DEF vars, flags, history
<1>2. CASE Outside
  BY <1>0, <1>2, FinalOutside DEF Outside
<1>3. ASSUME NEW f \in Fiber, RunTask(f) \/ Step(f), f # g PROVE FinalOf(g)'
  BY <1>0, <1>3, FinalElsewhere
<1>4. ASSUME RunTask(g) \/ Step(g) PROVE FinalOf(g)'
  <2>1. CASE Primitive(g)
    BY <1>0, <2>1, FinalBracket, FinalSuspend, FinalFrames, FinalRuns DEF Primitive
  <2>2. CASE Preempt(g) \/ WindDownChildren(g)
    BY <1>0, <2>2, FinalDelay
  <2>3. CASE UserOp(g)
    BY <1>0, <2>3, FinalUser
  <2>. QED BY <1>0, <1>4, <2>1, <2>2, <2>3, FinalDrain DEF Step
<1>. QED BY <1>1, <1>2, <1>3, <1>4 DEF Next

(* Whatever interrupts a fiber, and wherever: every finalizer that `onExit`  *)
(* installed has run exactly once or is still to be met, and none is left    *)
(* when the fiber has its exit.                                             *)
THEOREM FinalizersRunExactlyOnce == Spec => []FinalizersRunOnce
<1>1. Init => FinalInv
  <2>1. SUFFICES ASSUME Init, NEW g \in Fiber PROVE FinalOf(g)
    BY DEF FinalInv
  <2>2. stack[g] = <<>> /\ opened[g] = 0 /\ ran[g] = 0 /\ cur[g] = AnyEffect
    BY <2>1 DEF Init
  <2>3. Finals(stack[g]) = {} /\ Masked(stack[g], interruption[g])
    BY <2>2 DEF Finals, Masked
  <2>4. Cardinality(Finals(stack[g])) = 0
    BY <2>3, FS_EmptySet
  <2>. QED BY <2>2, <2>3, <2>4, OtherKinds DEF FinalOf
<1>2. TypeInv /\ ContInv /\ FinalInv /\ [Next]_vars => FinalInv'
  BY FinalNext
<1>3. TypeInv /\ ContInv /\ FinalInv => FinalizersRunOnce
  <2>. SUFFICES ASSUME TypeInv, ContInv, FinalInv, NEW f \in Fiber
                PROVE  /\ opened[f] = ran[f] + Cardinality({j \in DOMAIN stack[f] :
                                                              stack[f][j] = Final(UserJob)})
                       /\ Done(f) => opened[f] = ran[f]
    BY DEF FinalizersRunOnce
  <2>1. opened[f] = ran[f] + Cardinality(Finals(stack[f])) /\ ran[f] \in Nat
    BY DEF FinalInv, FinalOf, TypeInv, TypeOK
  <2>2. ASSUME Done(f) PROVE opened[f] = ran[f]
    <3>1. Finals(stack[f]) = {}
      BY <2>2 DEF ContInv, ContOf, Finals
    <3>2. Cardinality(Finals(stack[f])) = 0
      BY <3>1, FS_EmptySet
    <3>. QED BY <2>1, <3>2
  <2>. QED BY <2>1, <2>2 DEF Finals
<1>. QED BY <1>1, <1>2, <1>3, ContCorrect, PTL DEF Spec

-----------------------------------------------------------------------------
(***************************************************************************)
(* Structured concurrency, for any number of fibers: a fiber outlives every *)
(* fiber forked in its scope.                                              *)
(*                                                                         *)
(* The parent's only record of a child moves: an addChild message to itself, *)
(* its _children, the iterator of interruptAllChildren, and last the await  *)
(* it is blocked in.  Family says that a living child is always in one of   *)
(* these places.  For the last one the invariant must follow a fiber through *)
(* its wind-down: the program is over, what is on the stack are only the    *)
(* frames of the awaits, nothing can interrupt it, and no user's callback   *)
(* resumes it (WindOf); the loop over the children is not forgotten (LoopOf); *)
(* and an observer is only ever called for the fiber it observes (ObsOf).   *)
(***************************************************************************)

Rng(s) == {s[j] : j \in DOMAIN s}

(* The effects and frames of a fiber that winds down.                       *)
WindEffect(e) ==
  \/ e.k \in {"succ", "yield", "wind", "async"}
  \/ e.k \in {"onExit", "guard", "restore"} /\ e.job # UserJob

WindFrame(r) ==
  \/ r.k \in {"revert", "windLoop"}
  \/ r.k = "final" /\ r.job # UserJob
  \/ r.k = "cont" /\ WindEffect(r.eff)

(* At the bottom of its stack is the exit it will have.                     *)
LastFrame(r) == r.k = "cont" /\ r.eff \in Outcome

WindStack(s) ==
  s # <<>> => LastFrame(s[Len(s)]) /\ \A j \in 1..(Len(s) - 1) : WindFrame(s[j])

Fit(s, e) == IF s = <<>> THEN e \in Outcome ELSE WindEffect(e)
Brings(s, e) == IF s = <<>> THEN e \in Outcome ELSE e = Succ

(* A wait was registered and its OP_ASYNC is still to come.                 *)
Refers(p) == (Evaluating(p) /\ Refs(cur[p]) # {}) \/ ~Clean(stack[p])
Last(p) == asyncs[p][Len(asyncs[p])]

WindOf(p) == windDown[p] /\ ~Done(p) =>
  /\ interruptor[p] = 0
  /\ WindStack(stack[p])
  /\ Evaluating(p) => Fit(stack[p], cur[p])
  /\ \A x \in Rng(queue[p]) : x.k = "resume" => Brings(stack[p], x.eff)
  /\ Refers(p) \/ ~NoneArmed(asyncs[p]) => asyncs[p] # <<>> /\ Last(p).of # NoFiber

IsLoop(r) == r.k = "windLoop" \/ (r.k = "cont" /\ r.eff = Wind)

LoopOf(p) == winding[p] # {} =>
  /\ windDown[p]
  /\ \/ Evaluating(p) /\ cur[p] = Wind
     \/ \E r \in Rng(stack[p]) : IsLoop(r)

(* Callback w waits for the end of fiber g.                                 *)
Names(w, g) == w[2] \in DOMAIN asyncs[w[1]] /\ asyncs[w[1]][w[2]].of = g

ObsOf(g) ==
  /\ \A w \in observers[g] : w[2] # 0 => Names(w, g)
  /\ \A x \in Rng(queue[g]) : x.k = "observe" => Names(x.who, g)

Awaited(p, c) ==
  /\ windDown[p] /\ asyncs[p] # <<>> /\ Last(p).of = c
  /\ \/ Last(p).st = "registered" /\ Refers(p)
     \/ Last(p).st = "armed"

Family(p) == \A c \in Fiber : scope[c] = p /\ ~Done(c) =>
  /\ Born(p) /\ ~Done(p)
  /\ \/ c \in children[p] \cup winding[p]
     \/ AddChild(c) \in Rng(queue[p])
     \/ Awaited(p, c)

UnbornOf(g) == ~Born(g) => scope[g] = NoFiber /\ ~windDown[g]

LifeOf(g) == WindOf(g) /\ LoopOf(g) /\ ObsOf(g) /\ Family(g) /\ UnbornOf(g)
LifeInv == \A g \in Fiber : LifeOf(g)

-----------------------------------------------------------------------------
(* The elements of longer and shorter sequences.                            *)
LEMMA RngParts ==
  ASSUME NEW S
  PROVE  /\ \A a, b \in Seq(S) : Rng(a \o b) = Rng(a) \cup Rng(b)
         /\ \A s \in Seq(S), r \in S : Rng(<<r>> \o s) = {r} \cup Rng(s)
         /\ \A s \in Seq(S) : s # <<>> => Rng(s) = {Head(s)} \cup Rng(Tail(s))
<1>1. ASSUME NEW a \in Seq(S), NEW b \in Seq(S) PROVE Rng(a \o b) = Rng(a) \cup Rng(b)
  <2>. DEFINE c == a \o b
  <2>1. /\ \A j \in DOMAIN c : \/ j \in DOMAIN a /\ c[j] = a[j]
                               \/ j - Len(a) \in DOMAIN b /\ c[j] = b[j - Len(a)]
        /\ \A j \in DOMAIN a : j \in DOMAIN c /\ c[j] = a[j]
        /\ \A j \in DOMAIN b : Len(a) + j \in DOMAIN c /\ c[Len(a) + j] = b[j]
    BY Appended
  <2>. HIDE DEF c
  <2>2. ASSUME NEW x \in Rng(c) PROVE x \in Rng(a) \cup Rng(b)
    BY <2>1, <2>2 DEF Rng
  <2>3. ASSUME NEW x \in Rng(a) \cup Rng(b) PROVE x \in Rng(c)
    BY <2>1, <2>3 DEF Rng
  <2>4. Rng(c) = Rng(a) \cup Rng(b)
    BY <2>2, <2>3
  <2>. QED BY <2>4 DEF c
<1>2. ASSUME NEW s \in Seq(S), NEW r \in S PROVE Rng(<<r>> \o s) = {r} \cup Rng(s)
  <2>1. /\ \A j \in DOMAIN (<<r>> \o s) :
              j = 1 \/ (j - 1 \in DOMAIN s /\ (<<r>> \o s)[j] = s[j - 1])
        /\ \A j \in DOMAIN s : j + 1 \in DOMAIN (<<r>> \o s) /\ (<<r>> \o s)[j + 1] = s[j]
        /\ (<<r>> \o s)[1] = r /\ 1 \in DOMAIN (<<r>> \o s)
    <3>1. <<r>> \o s \in Seq(S) /\ Len(<<r>> \o s) = Len(s) + 1 /\ Len(s) \in Nat
      BY Pushed
    <3>. QED BY <3>1, Pushed
  <2>. DEFINE t == <<r>> \o s
  <2>2. /\ \A j \in DOMAIN t : j = 1 \/ (j - 1 \in DOMAIN s /\ t[j] = s[j - 1])
        /\ \A j \in DOMAIN s : j + 1 \in DOMAIN t /\ t[j + 1] = s[j]
        /\ t[1] = r /\ 1 \in DOMAIN t
    BY <2>1
  <2>. HIDE DEF t
  <2>3. ASSUME NEW x \in Rng(t) PROVE x \in {r} \cup Rng(s)
    BY <2>2, <2>3 DEF Rng
  <2>4. ASSUME NEW x \in {r} \cup Rng(s) PROVE x \in Rng(t)
    BY <2>2, <2>4 DEF Rng
  <2>5. Rng(t) = {r} \cup Rng(s)
    BY <2>3, <2>4
  <2>. QED BY <2>5 DEF t
<1>3. ASSUME NEW s \in Seq(S), s # <<>> PROVE Rng(s) = {Head(s)} \cup Rng(Tail(s))
  <2>. DEFINE t == Tail(s)
  <2>1. /\ 1 \in DOMAIN s /\ Head(s) = s[1]
        /\ \A j \in DOMAIN t : j + 1 \in DOMAIN s /\ t[j] = s[j + 1]
        /\ \A j \in DOMAIN s : j = 1 \/ (j - 1 \in DOMAIN t /\ t[j - 1] = s[j])
    BY <1>3, Popping
  <2>. HIDE DEF t
  <2>2. ASSUME NEW x \in Rng(s) PROVE x \in {Head(s)} \cup Rng(t)
    BY <2>1, <2>2 DEF Rng
  <2>3. ASSUME NEW x \in {Head(s)} \cup Rng(t) PROVE x \in Rng(s)
    BY <2>1, <2>3 DEF Rng
  <2>4. Rng(s) = {Head(s)} \cup Rng(t)
    BY <2>2, <2>3
  <2>. QED BY <2>4 DEF t
<1>. QED BY <1>1, <1>2, <1>3

(* The elements of the short sequences that steps tell.                      *)
LEMMA RngShort ==
  /\ Rng(<<>>) = {}
  /\ \A a : Rng(<<a>>) = {a}
  /\ \A a, b : Rng(<<a, b>>) = {a, b}
BY DEF Rng

(* What a delivery adds to an inbox.                                        *)
LEMMA RngDeliver ==
  ASSUME NEW g \in Fiber, NEW q \in Mail, NEW msgs \in Mail, Deliver(q, msgs)
  PROVE  Rng(queue'[g]) = Rng(q[g]) \cup Rng(msgs[g])
<1>1. queue'[g] = q[g] \o msgs[g] /\ q[g] \in Seq(Message) /\ msgs[g] \in Seq(Message)
  BY DEF Deliver, Mail
<1>. QED BY <1>1, RngParts

-----------------------------------------------------------------------------
(* Callbacks.  All that a step does to them, by whom it is done.            *)
Calls(f) ==
  \/ asyncs' = asyncs
  \/ \E a : asyncs' = [asyncs EXCEPT ![f] = Append(@, a)]
  \/ OpAsync(f)
  \/ DrainInterrupt(f) /\ Fire({<<f, interruptor[f]>>})
  \/ \E x \in Rng(queue[f]) : AtOnce(f, x) /\ Fire({x.who})
  \/ Fire({})
  \/ \E h, i : asyncs[h][i].of = NoFiber /\ Fire({<<h, i>>})
  \/ SetExit(f) /\ Fire(observers[f])

(* Every step is the call of some fiber, seen from the callbacks it may      *)
(* write.                                                                    *)
LEMMA Called ==
  ASSUME TypeOK, NEW f \in Fiber,
         \/ RunTask(f) \/ Step(f) \/ Start(f) \/ StartLater(f) \/ ExternalInterrupt(f)
         \/ \E i \in DOMAIN asyncs[f] : ExternalCallback(f, i)
  PROVE  Calls(f)
<1>1. CASE \/ RunTask(f) \/ Return(f) \/ DrainDone(f) \/ DrainYield(f) \/ BeginOp(f)
           \/ DrainResume(f) \/ LoopInterrupt(f) \/ Preempt(f)
           \/ Start(f) \/ StartLater(f) \/ ExternalInterrupt(f)
  BY <1>1 DEF RunTask, Return, DrainDone, DrainYield, BeginOp, DrainResume, LoopInterrupt, Preempt,
              Start, StartLater, ExternalInterrupt, Calls
<1>2. CASE DrainInterrupt(f)
  BY <1>2 DEF DrainInterrupt, Calls
<1>3. CASE DrainStateful(f) \/ LoopStateful(f)
  <2>. DEFINE x == Head(queue[f])
  <2>1. queue[f] # <<>> /\ Fire(IF AtOnce(f, x) THEN {x.who} ELSE {})
    BY <1>3 DEF DrainStateful, LoopStateful, Stateful1, Next1, Handle
  <2>2. x \in Rng(queue[f])
    BY <2>1, RngParts DEF TypeOK
  <2>3. CASE AtOnce(f, x)
    BY <2>1, <2>2, <2>3 DEF Calls
  <2>4. CASE ~AtOnce(f, x)
    BY <2>1, <2>4 DEF Calls
  <2>. QED BY <2>3, <2>4
<1>4. CASE UserOp(f)
  <2>1. ASSUME NEW kind, NEW to, UserSucceed(f) \/ UserFail(f) \/ UserOnExit(f) \/ UserYield(f)
               \/ UserFrame(f, kind) \/ UserFlags(f, to)
        PROVE  Calls(f)
    BY <2>1 DEF UserSucceed, UserFail, UserOnExit, UserYield, UserFrame, UserFlags, Pure, Calls
  <2>2. ASSUME NEW st, UserAsync(f, st) PROVE Calls(f)
    BY <2>2 DEF UserAsync, Calls
  <2>3. ASSUME NEW h, UserAwait(f, h) PROVE Calls(f)
    BY <2>3 DEF UserAwait, Await, Calls
  <2>4. ASSUME NEW h, NEW daemon, UserInterrupt(f, h) \/ UserFork(f, h, daemon) PROVE Calls(f)
    BY <2>4 DEF UserInterrupt, UserFork, Calls
  <2>5. ASSUME NEW h, NEW i, UserCallback(f, h, i) PROVE Calls(f)
    BY <2>5 DEF UserCallback, Calls
  <2>. QED BY <1>4, <2>1, <2>2, <2>3, <2>4, <2>5 DEF UserOp
<1>5. CASE Primitive(f)
  <2>1. CASE \/ OpOnExit(f) \/ OpGuard(f) \/ OpRestore(f) \/ SkipFrame(f) \/ SuccessHandler(f)
             \/ FailureHandler(f) \/ RevertFrame(f) \/ UserFinalizer(f) \/ EndLoop(f)
    BY <2>1 DEF OpOnExit, OpGuard, OpRestore, SkipFrame, SuccessHandler, FailureHandler, RevertFrame,
                UserFinalizer, EndLoop, Pure, Calls
  <2>2. CASE OpYield(f) \/ AwaitCanceler(f) \/ OpAsync(f)
    BY <2>2 DEF OpYield, AwaitCanceler, Calls
  <2>3. CASE OpWind(f)
    BY <2>3 DEF OpWind, Await, Calls
  <2>. QED BY <1>5, <2>1, <2>2, <2>3 DEF Primitive
<1>6. CASE WindDownChildren(f) \/ ExitLater(f) \/ SetExit(f)
  BY <1>6 DEF WindDownChildren, ExitLater, SetExit, Calls
<1>7. ASSUME NEW i, ExternalCallback(f, i) PROVE Calls(f)
  BY <1>7 DEF ExternalCallback, Calls
<1>. QED BY <1>1, <1>2, <1>3, <1>4, <1>5, <1>6, <1>7 DEF Step

(* A callback is never forgotten, nor what it waits for; and those of the    *)
(* others are only called.                                                  *)
Grown(g) == \A i \in DOMAIN asyncs[g] : i \in DOMAIN asyncs'[g] /\ asyncs'[g][i].of = asyncs[g][i].of
Steady(g) == Len(asyncs'[g]) = Len(asyncs[g]) /\ (NoneArmed(asyncs[g]) => NoneArmed(asyncs'[g]))

(* Calling callbacks adds no asynchronous operation and unfires none.        *)
LEMMA FireGrows ==
  ASSUME TypeOK, NEW S, Fire(S), NEW g \in Fiber
  PROVE  Grown(g) /\ Steady(g)
<1>1. /\ Len(asyncs'[g]) = Len(asyncs[g]) /\ DOMAIN asyncs'[g] = DOMAIN asyncs[g]
      /\ \A i \in DOMAIN asyncs[g] :
           asyncs'[g][i] = IF <<g, i>> \in S THEN Fired(asyncs[g][i]) ELSE asyncs[g][i]
  BY FireShape
<1>2. \A i \in DOMAIN asyncs[g] : asyncs[g][i] \in AsyncState
  BY DEF TypeOK
<1>3. \A a \in AsyncState : Fired(a).of = a.of /\ (a.st # "armed" => Fired(a).st # "armed")
  BY DEF Fired, AsyncState
<1>. QED BY <1>1, <1>2, <1>3 DEF Grown, Steady, NoneArmed

(* A step adds an asynchronous operation only to the fiber that takes it.    *)
LEMMA Grows ==
  ASSUME TypeOK, NEW f \in Fiber, Calls(f), NEW g \in Fiber
  PROVE  Grown(g) /\ (g # f => Steady(g))
<1>0. asyncs[g] \in Seq(AsyncState) /\ DOMAIN asyncs[g] = 1..Len(asyncs[g])
  BY DEF TypeOK
<1>1. CASE asyncs' = asyncs
  BY <1>1 DEF Grown, Steady
<1>2. ASSUME NEW a, asyncs' = [asyncs EXCEPT ![f] = Append(@, a)] PROVE Grown(g) /\ (g # f => Steady(g))
  <2>1. CASE g # f
    BY <1>2, <2>1 DEF Grown, Steady, TypeOK
  <2>2. CASE g = f
    <3>1. asyncs'[g] = Append(asyncs[g], a)
      BY <1>2, <2>2 DEF TypeOK
    <3>2. \A s \in Seq(AsyncState) : \A i \in DOMAIN s :
            i \in DOMAIN Append(s, a) /\ Append(s, a)[i] = s[i]
      OBVIOUS
    <3>. QED BY <1>0, <2>2, <3>1, <3>2 DEF Grown
  <2>. QED BY <2>1, <2>2
<1>3. CASE OpAsync(f)
  <2>1. asyncs' = [asyncs EXCEPT ![f][cur[f].i].st =
                     IF asyncs[f][cur[f].i].st = "pending" THEN "called" ELSE "armed"]
    BY <1>3 DEF OpAsync
  <2>2. CASE g # f
    BY <2>1, <2>2 DEF Grown, Steady, TypeOK
  <2>3. CASE g = f
    <3>1. \A i \in DOMAIN asyncs[g] : asyncs[g][i] \in AsyncState
      BY DEF TypeOK
    <3>. QED BY <1>0, <2>1, <2>3, <3>1 DEF Grown, TypeOK, AsyncState
  <2>. QED BY <2>2, <2>3
<1>4. ASSUME NEW S, Fire(S) PROVE Grown(g) /\ (g # f => Steady(g))
  BY <1>4, FireGrows
<1>. QED BY <1>1, <1>2, <1>3, <1>4 DEF Calls

-----------------------------------------------------------------------------
(* Inboxes.  A message stays until its fiber takes it; a message that is new *)
(* comes from one of a few places.                                          *)
Fresh(f, g, x) ==
  /\ x.k = "observe" => Names(x.who, g)'
  /\ x.k = "resume" =>
       \/ x.eff = Succ
       \/ ~Born(g)
       \/ \E i : Armed(g, i) /\ asyncs[g][i].of = NoFiber
       \/ g = f /\ \/ interruptor[f] # 0
                   \/ ExitLater(f) /\ x.eff = cur[f]
                   \/ OpAsync(f) /\ asyncs[f][cur[f].i].of = NoFiber

Takes(f) == queue[f] # <<>> /\ pc[f] \in {"drain", "loop"}

Mailed(f, g) ==
  /\ \A x \in Rng(queue[g]) : \/ x \in Rng(queue'[g])
                              \/ g = f /\ Takes(f) /\ x = Head(queue[f])
  /\ \A x \in Rng(queue'[g]) : x \in Rng(queue[g]) \/ Fresh(f, g, x)

(* A step that only tells adds to each mailbox what it tells.                *)
LEMMA Sends ==
  ASSUME TypeOK, NEW f \in Fiber, NEW g \in Fiber, NEW msgs \in Mail,
         Deliver(queue, msgs) \/ (Takes(f) /\ Deliver(Popped(f), msgs)),
         \A x \in Rng(msgs[g]) : Fresh(f, g, x)
  PROVE  Mailed(f, g)
<1>0. queue \in Mail
  BY DEF TypeOK, Mail
<1>1. CASE Deliver(queue, msgs)
  <2>1. Rng(queue'[g]) = Rng(queue[g]) \cup Rng(msgs[g])
    BY <1>0, <1>1, RngDeliver
  <2>. QED BY <2>1 DEF Mailed
<1>2. CASE Takes(f) /\ Deliver(Popped(f), msgs)
  <2>1. Popped(f) \in Mail
    BY <1>2, PoppedType DEF Takes
  <2>2. Rng(queue'[g]) = Rng(Popped(f)[g]) \cup Rng(msgs[g])
    BY <1>2, <2>1, RngDeliver
  <2>3. CASE g # f
    <3>1. Popped(f)[g] = queue[g]
      BY <2>3 DEF Popped, TypeOK
    <3>. QED BY <2>2, <3>1 DEF Mailed
  <2>4. CASE g = f
    <3>1. Popped(f)[g] = Tail(queue[f]) /\ queue[f] \in Seq(Message)
      BY <2>4 DEF Popped, TypeOK
    <3>2. Rng(queue[f]) = {Head(queue[f])} \cup Rng(Tail(queue[f]))
      BY <1>2, <3>1, RngParts DEF Takes
    <3>. QED BY <1>2, <2>2, <2>4, <3>1, <3>2 DEF Mailed
  <2>. QED BY <2>3, <2>4
<1>. QED BY <1>1, <1>2

(* Inboxes that nobody writes to.                                           *)
LEMMA Unsent ==
  ASSUME TypeOK, NEW f \in Fiber, NEW g \in Fiber,
         queue' = queue \/ (Takes(f) /\ queue' = Popped(f))
  PROVE  Mailed(f, g)
<1>1. CASE queue' = queue
  BY <1>1 DEF Mailed
<1>2. CASE Takes(f) /\ queue' = Popped(f) /\ g # f
  <2>1. queue'[g] = queue[g]
    BY <1>2 DEF Popped, TypeOK
  <2>. QED BY <2>1 DEF Mailed
<1>3. CASE Takes(f) /\ queue' = Popped(f) /\ g = f
  <2>1. queue'[g] = Tail(queue[f]) /\ queue[f] \in Seq(Message)
    BY <1>3 DEF Popped, TypeOK
  <2>2. Rng(queue[f]) = {Head(queue[f])} \cup Rng(Tail(queue[f]))
    BY <1>3, <2>1, RngParts DEF Takes
  <2>. QED BY <1>3, <2>1, <2>2 DEF Mailed
<1>. QED BY <1>1, <1>2, <1>3

(* The letters of one send.                                                 *)
LEMMA RngLetters ==
  ASSUME NEW g \in Fiber
  PROVE  /\ Rng(NoMail[g]) = {}
         /\ \A h \in Fiber : \A m : \A x \in Rng(To(h, m)[g]) : g = h /\ x = m
         /\ \A S, m : \A x \in Rng(ToEach(S, m)[g]) : x = m
         /\ \A S, e : \A x \in Rng(Resumed(S, e)[g]) :
              x = Resume(e) /\ \E w \in S : w[1] = g /\ Armed(g, w[2])
<1>1. Rng(NoMail[g]) = {}
  BY RngShort DEF NoMail
<1>2. ASSUME NEW h \in Fiber, NEW m, NEW x \in Rng(To(h, m)[g]) PROVE g = h /\ x = m
  <2>1. To(h, m)[g] = IF g = h THEN <<m>> ELSE <<>>
    BY LetterTo
  <2>. QED BY <1>2, <2>1, RngShort
<1>3. ASSUME NEW S, NEW m, NEW x \in Rng(ToEach(S, m)[g]) PROVE x = m
  <2>1. ToEach(S, m)[g] = IF g \in S THEN <<m>> ELSE <<>>
    BY LetterEach
  <2>. QED BY <1>3, <2>1, RngShort
<1>4. ASSUME NEW S, NEW e, NEW x \in Rng(Resumed(S, e)[g])
      PROVE  x = Resume(e) /\ \E w \in S : w[1] = g /\ Armed(g, w[2])
  <2>. DEFINE P == \E w \in S : w[1] = g /\ Armed(g, w[2])
              r == Resumed(S, e)[g]
  <2>1. r = IF P THEN <<Resume(e)>> ELSE <<>>
    BY LetterResumed, Zenon
  <2>2. x \in Rng(r)
    BY <1>4
  <2>. HIDE DEF P, r
  <2>3. x = Resume(e) /\ P
    BY <2>1, <2>2, RngShort
  <2>. QED BY <2>3 DEF P
<1>. QED BY <1>1, <1>2, <1>3, <1>4

(* Messages of the kinds nothing is said about.                             *)
LEMMA FreshKinds ==
  ASSUME NEW f, NEW g
  PROVE  /\ Fresh(f, g, InterruptSignal) /\ Fresh(f, g, YieldNow) /\ Fresh(f, g, Resume(Succ))
         /\ \A c : Fresh(f, g, AddChild(c))
         /\ \A w : Fresh(f, g, Unobserve(w))
         /\ \A w : Names(w, g)' => Fresh(f, g, Observe(w))
BY DEF Fresh, InterruptSignal, YieldNow, Resume, AddChild, Unobserve, Observe

(* Calling callbacks.                                                       *)
LEMMA SendsCalls ==
  ASSUME TypeOK, NEW f \in Fiber, NEW g \in Fiber, NEW S, NEW e \in Resumable,
         \/ Deliver(queue, Resumed(S, e))
         \/ Takes(f) /\ Deliver(Popped(f), Resumed(S, e)),
         e = Succ \/ \E h, i : S = {<<h, i>>} /\ asyncs[h][i].of = NoFiber
  PROVE  Mailed(f, g)
<1>. DEFINE msgs == Resumed(S, e)
<1>1. msgs \in Mail
  BY MailTypes
<1>2. ASSUME NEW x \in Rng(msgs[g]) PROVE Fresh(f, g, x)
  <2>1. x = Resume(e) /\ \E w \in S : w[1] = g /\ Armed(g, w[2])
    BY <1>2, RngLetters
  <2>2. CASE e = Succ
    BY <2>1, <2>2, FreshKinds
  <2>3. ASSUME NEW h, NEW i, S = {<<h, i>>}, asyncs[h][i].of = NoFiber PROVE Fresh(f, g, x)
    <3>1. h = g /\ Armed(g, i)
      BY <2>1, <2>3
    <3>. QED BY <2>1, <2>3, <3>1 DEF Fresh, Resume
  <2>. QED BY <2>2, <2>3
<1>. HIDE DEF msgs
<1>3. Deliver(queue, msgs) \/ (Takes(f) /\ Deliver(Popped(f), msgs))
  BY DEF msgs
<1>. QED BY <1>1, <1>2, <1>3, Sends

(* One letter.                                                              *)
LEMMA SendsOne ==
  ASSUME TypeOK, NEW f \in Fiber, NEW g \in Fiber, NEW h \in Fiber, NEW m \in Message,
         Deliver(queue, To(h, m)), g = h => Fresh(f, g, m)
  PROVE  Mailed(f, g)
<1>1. To(h, m) \in Mail
  BY MailTypes
<1>2. \A x \in Rng(To(h, m)[g]) : Fresh(f, g, x)
  BY RngLetters
<1>. QED BY <1>1, <1>2, Sends

(* await.                                                                   *)
LEMMA SendsAwait ==
  ASSUME TypeOK, NEW f \in Fiber, NEW g \in Fiber, NEW h \in Fiber, Await(f, h, AwaitJob(f, h))
  PROVE  Mailed(f, g)
<1>0. asyncs[f] \in Seq(AsyncState)
  BY DEF TypeOK
<1>1. Len(asyncs[f]) + 1 \in Nat
  BY <1>0
<1>2. PICK n \in Nat : n = Len(asyncs[f]) + 1
  BY <1>1
<1>3. asyncs'[f] = Append(asyncs[f], [st |-> "registered", of |-> h])
  BY DEF Await, TypeOK
<1>4. n \in DOMAIN asyncs'[f] /\ asyncs'[f][n].of = h
  BY <1>0, <1>2, <1>3
<1>5. PICK w \in Waiter : w = <<f, n>>
  BY DEF Waiter
<1>6. Names(w, h)'
  BY <1>4, <1>5 DEF Names
<1>7. Deliver(queue, To(h, Observe(w))) /\ Observe(w) \in Message
  BY <1>2, <1>5, MessageTypes DEF Await
<1>. QED BY <1>6, <1>7, FreshKinds, SendsOne

(* Every step.                                                              *)
LEMMA MailedLoop ==
  ASSUME TypeOK, NEW f \in Fiber, NEW g \in Fiber,
         \/ RunTask(f) \/ Return(f) \/ DrainDone(f) \/ DrainYield(f) \/ BeginOp(f) \/ DrainResume(f)
         \/ DrainInterrupt(f) \/ DrainStateful(f) \/ LoopStateful(f) \/ LoopInterrupt(f)
         \/ Preempt(f) \/ WindDownChildren(f) \/ SetExit(f) \/ Start(f)
  PROVE  Mailed(f, g)
<1>. USE DEF mailbox
<1>0. InterruptSignal \in Message
  BY MessageTypes
<1>1. CASE \/ RunTask(f) \/ Return(f) \/ DrainDone(f) \/ BeginOp(f) \/ Preempt(f) \/ Start(f)
  <2>1. queue' = queue
    BY <1>1 DEF RunTask, Return, DrainDone, BeginOp, Preempt, Start
  <2>. QED BY <2>1, Unsent
<1>2. CASE DrainYield(f) \/ DrainResume(f)
  <2>1. Takes(f) /\ queue' = Popped(f)
    BY <1>2 DEF DrainYield, DrainResume, Next1, At, Takes
  <2>. QED BY <2>1, Unsent
<1>3. CASE DrainInterrupt(f)
  <2>. DEFINE S == {<<f, interruptor[f]>>}
              told == ToEach(children[f], InterruptSignal)
              woken == Resumed(S, InterruptCause)
              msgs == [x \in Fiber |-> told[x] \o woken[x]]
  <2>1. Takes(f) /\ Deliver(Popped(f), msgs)
    BY <1>3 DEF DrainInterrupt, Next1, At, Takes
  <2>2. told \in Mail /\ woken \in Mail
    <3>1. children[f] \in SUBSET Fiber
      BY DEF TypeOK
    <3>. QED BY <1>0, <3>1, MailTypes, OutcomeTypes
  <2>3. ASSUME NEW x \in Rng(told[g]) PROVE Fresh(f, g, x)
    BY <2>3, RngLetters, FreshKinds
  <2>4. ASSUME NEW x \in Rng(woken[g]) PROVE Fresh(f, g, x)
    <3>1. x = Resume(InterruptCause) /\ g = f /\ Armed(f, interruptor[f])
      <4>1. x = Resume(InterruptCause) /\ \E w \in S : w[1] = g /\ Armed(g, w[2])
        BY <2>4, RngLetters
      <4>. QED BY <4>1
    <3>2. interruptor[f] # 0
      BY <3>1 DEF Armed, TypeOK
    <3>. QED BY <3>1, <3>2 DEF Fresh, Resume
  <2>. HIDE DEF told, woken
  <2>5. msgs \in Mail /\ Rng(msgs[g]) = Rng(told[g]) \cup Rng(woken[g])
    BY <2>2, RngParts DEF Mail
  <2>. HIDE DEF msgs
  <2>. QED BY <2>1, <2>3, <2>4, <2>5, Sends
<1>4. CASE DrainStateful(f) \/ LoopStateful(f)
  <2>. DEFINE S == IF AtOnce(f, Head(queue[f])) THEN {Head(queue[f]).who} ELSE {}
  <2>1. Takes(f) /\ Deliver(Popped(f), Resumed(S, Succ))
    BY <1>4 DEF DrainStateful, LoopStateful, Stateful1, Next1, At, Takes, Handle
  <2>. HIDE DEF S
  <2>. QED BY <2>1, OutcomeTypes, SendsCalls
<1>5. CASE LoopInterrupt(f) \/ WindDownChildren(f)
  <2>. DEFINE msgs == ToEach(children[f], InterruptSignal)
  <2>1. Deliver(queue, msgs) \/ (Takes(f) /\ Deliver(Popped(f), msgs))
    BY <1>5 DEF LoopInterrupt, WindDownChildren, Next1, At, Takes
  <2>2. msgs \in Mail
    <3>1. children[f] \in SUBSET Fiber
      BY DEF TypeOK
    <3>. QED BY <1>0, <3>1, MailTypes
  <2>3. ASSUME NEW x \in Rng(msgs[g]) PROVE Fresh(f, g, x)
    BY <2>3, RngLetters, FreshKinds
  <2>. HIDE DEF msgs
  <2>. QED BY <2>1, <2>2, <2>3, Sends
<1>6. CASE SetExit(f)
  <2>1. Deliver(queue, Resumed(observers[f], Succ))
    BY <1>6 DEF SetExit
  <2>. QED BY <2>1, OutcomeTypes, SendsCalls
<1>. QED BY <1>1, <1>2, <1>3, <1>4, <1>5, <1>6

(* What a user operation adds to and takes from a mailbox.                   *)
LEMMA MailedUser ==
  ASSUME TypeOK, NEW f \in Fiber, NEW g \in Fiber, UserOp(f)
  PROVE  Mailed(f, g)
<1>. USE DEF mailbox
<1>0. InterruptSignal \in Message
  BY MessageTypes
<1>1. ASSUME NEW kind, NEW to, NEW st, UserSucceed(f) \/ UserFail(f) \/ UserOnExit(f) \/ UserYield(f)
             \/ UserFrame(f, kind) \/ UserFlags(f, to) \/ UserAsync(f, st)
      PROVE  Mailed(f, g)
  <2>1. queue' = queue
    BY <1>1 DEF UserSucceed, UserFail, UserOnExit, UserYield, UserFrame, UserFlags, UserAsync, Pure
  <2>. QED BY <2>1, Unsent
<1>2. ASSUME NEW h \in Fiber, UserAwait(f, h) PROVE Mailed(f, g)
  BY <1>2, SendsAwait DEF UserAwait
<1>3. ASSUME NEW h \in Fiber, UserInterrupt(f, h) PROVE Mailed(f, g)
  BY <1>0, <1>3, FreshKinds, SendsOne DEF UserInterrupt
<1>4. ASSUME NEW c \in Fiber, NEW daemon \in BOOLEAN, UserFork(f, c, daemon) PROVE Mailed(f, g)
  <2>. DEFINE msgs == [h \in Fiber |-> CASE h = c              -> <<Resume(AnyEffect)>>
                                         [] h = f /\ ~daemon   -> <<AddChild(c)>>
                                         [] OTHER              -> <<>>]
  <2>1. Deliver(queue, msgs) /\ pc[c] = "unborn"
    BY <1>4 DEF UserFork
  <2>2. Resume(AnyEffect) \in Message /\ AddChild(c) \in Message
    BY MessageTypes, OutcomeTypes
  <2>3. msgs \in Mail
    BY <2>2 DEF Mail
  <2>4. \/ g = c /\ msgs[g] = <<Resume(AnyEffect)>>
        \/ msgs[g] = <<AddChild(c)>>
        \/ msgs[g] = <<>>
    OBVIOUS
  <2>5. g = c => Fresh(f, g, Resume(AnyEffect))
    BY <2>1 DEF Fresh, Resume, Born
  <2>. HIDE DEF msgs
  <2>6. \A x \in Rng(msgs[g]) : Fresh(f, g, x)
    <3>1. CASE g = c /\ msgs[g] = <<Resume(AnyEffect)>>
      <4>1. Rng(msgs[g]) = {Resume(AnyEffect)}
        BY <3>1, RngShort
      <4>. QED BY <2>5, <3>1, <4>1
    <3>2. CASE msgs[g] = <<AddChild(c)>>
      <4>1. Rng(msgs[g]) = {AddChild(c)}
        BY <3>2, RngShort
      <4>. QED BY <4>1, FreshKinds
    <3>3. CASE msgs[g] = <<>>
      BY <3>3, RngShort
    <3>. QED BY <2>4, <3>1, <3>2, <3>3
  <2>. QED BY <2>1, <2>3, <2>6, Sends
<1>5. ASSUME NEW h, NEW i, UserCallback(f, h, i) PROVE Mailed(f, g)
  BY <1>5, OutcomeTypes, SendsCalls DEF UserCallback
<1>. QED BY <1>1, <1>2, <1>3, <1>4, <1>5 DEF UserOp

(* What a primitive, or the end of an evaluation, adds to and takes from a   *)
(* mailbox.                                                                  *)
LEMMA MailedPrimitive ==
  ASSUME TypeOK, NEW f \in Fiber, NEW g \in Fiber, Primitive(f) \/ ExitLater(f), ExitShape
  PROVE  Mailed(f, g)
<1>. USE DEF mailbox
<1>1. CASE \/ OpOnExit(f) \/ OpGuard(f) \/ OpRestore(f) \/ SkipFrame(f) \/ SuccessHandler(f)
           \/ FailureHandler(f) \/ RevertFrame(f) \/ UserFinalizer(f) \/ EndLoop(f)
  <2>1. queue' = queue
    BY <1>1 DEF OpOnExit, OpGuard, OpRestore, SkipFrame, SuccessHandler, FailureHandler, RevertFrame,
                UserFinalizer, EndLoop, Pure
  <2>. QED BY <2>1, Unsent
<1>2. CASE OpAsync(f)
  <2>. DEFINE e == IF asyncs[f][cur[f].i].of = NoFiber THEN AnyEffect ELSE Succ
              msgs == IF ~(asyncs[f][cur[f].i].st = "pending") THEN NoMail ELSE To(f, Resume(e))
  <2>1. Deliver(queue, msgs)
    BY <1>2 DEF OpAsync
  <2>2. Resume(e) \in Message
    BY MessageTypes, OutcomeTypes
  <2>3. g = f => Fresh(f, g, Resume(e))
    BY <1>2 DEF Fresh, Resume
  <2>. HIDE DEF e
  <2>4. msgs \in Mail
    BY <2>2, MailTypes
  <2>5. \A x \in Rng(msgs[g]) : Fresh(f, g, x)
    BY <2>3, RngLetters
  <2>. HIDE DEF msgs
  <2>. QED BY <2>1, <2>4, <2>5, Sends
<1>3. CASE OpYield(f)
  <2>1. CASE queue' = queue
    BY <2>1, Unsent
  <2>2. CASE queue' # queue
    <3>. DEFINE two == <<YieldNow, Resume(Succ)>>
                msgs == [NoMail EXCEPT ![f] = two]
    <3>1. Deliver(queue, msgs)
      BY <1>3, <2>2 DEF OpYield, AfterYield
    <3>2. YieldNow \in Message /\ Resume(Succ) \in Message
      BY MessageTypes, OutcomeTypes
    <3>3. two \in Seq(Message) /\ \A x \in Rng(two) : Fresh(f, g, x)
      BY <3>2, RngShort, FreshKinds
    <3>. HIDE DEF two
    <3>4. msgs \in Mail /\ (msgs[g] = two \/ msgs[g] = NoMail[g])
      BY <3>3, MailTypes DEF Mail
    <3>. HIDE DEF msgs
    <3>5. \A x \in Rng(msgs[g]) : Fresh(f, g, x)
      BY <3>3, <3>4, RngLetters
    <3>. QED BY <3>1, <3>4, <3>5, Sends
  <2>. QED BY <2>1, <2>2
<1>4. CASE OpWind(f)
  <2>1. CASE winding[f] = {}
    BY <1>4, <2>1, Unsent DEF OpWind
  <2>2. CASE winding[f] # {}
    <3>1. PICK c \in winding[f] : Await(f, c, AwaitJob(f, c))
      BY <1>4, <2>2 DEF OpWind
    <3>2. c \in Fiber
      BY <3>1 DEF TypeOK
    <3>. QED BY <3>1, <3>2, SendsAwait
  <2>. QED BY <2>1, <2>2
<1>5. CASE AwaitCanceler(f)
  <2>1. Top(f) \in Frame /\ Top(f).k = "final" /\ Top(f).job # UserJob
    BY <1>5 DEF AwaitCanceler, Meets, Top, TypeOK
  <2>2. PICK h \in Fiber, i \in Nat : h = Top(f).job.of /\ i = Top(f).job.i
    BY <2>1, FrameFields, JobTypes
  <2>3. Unobserve(<<f, i>>) \in Message
    BY MessageTypes DEF Waiter
  <2>4. Deliver(queue, NoMail) \/ Deliver(queue, To(h, Unobserve(<<f, i>>)))
    BY <1>5, <2>2 DEF AwaitCanceler
  <2>5. CASE Deliver(queue, NoMail)
    BY <2>5, MailTypes, RngLetters, Sends
  <2>6. CASE Deliver(queue, To(h, Unobserve(<<f, i>>)))
    BY <2>3, <2>6, FreshKinds, SendsOne
  <2>. QED BY <2>4, <2>5, <2>6
<1>6. CASE ExitLater(f)
  <2>1. Deliver(queue, To(f, Resume(cur[f]))) /\ cur[f] \in Outcome
    BY <1>6, ExitIsOutcome DEF ExitLater, At, TypeInv
  <2>2. Resume(cur[f]) \in Message
    BY <2>1, OutcomeTypes, MessageTypes
  <2>3. g = f => Fresh(f, g, Resume(cur[f]))
    BY <1>6 DEF Fresh, Resume
  <2>. QED BY <2>1, <2>2, <2>3, SendsOne
<1>. QED BY <1>1, <1>2, <1>3, <1>4, <1>5, <1>6 DEF Primitive

(* What any step adds to and takes from a mailbox.                           *)
LEMMA MailedStep ==
  ASSUME TypeInv, NEW f \in Fiber, NEW g \in Fiber,
         \/ RunTask(f) \/ Step(f) \/ Start(f) \/ StartLater(f) \/ ExternalInterrupt(f)
         \/ \E i \in DOMAIN asyncs[f] : ExternalCallback(f, i)
  PROVE  Mailed(f, g)
<1>1. CASE StartLater(f)
  <2>1. Resume(AnyEffect) \in Message
    BY MessageTypes, OutcomeTypes
  <2>2. g = f => Fresh(f, g, Resume(AnyEffect))
    BY <1>1 DEF Fresh, Resume, StartLater, Born
  <2>. QED BY <1>1, <2>1, <2>2, SendsOne DEF StartLater, TypeInv
<1>2. CASE ExternalInterrupt(f)
  BY <1>2, MessageTypes, FreshKinds, SendsOne DEF ExternalInterrupt, TypeInv
<1>3. ASSUME NEW i, ExternalCallback(f, i) PROVE Mailed(f, g)
  BY <1>3, OutcomeTypes, SendsCalls DEF ExternalCallback, TypeInv
<1>. QED BY <1>1, <1>2, <1>3, MailedLoop, MailedUser, MailedPrimitive DEF Step, TypeInv

-----------------------------------------------------------------------------
(* Exits.  Only setExitValue sets one, to the outcome of the run loop.       *)
LEMMA ExitSet ==
  ASSUME TypeInv, NEW f \in Fiber, SetExit(f)
  PROVE  /\ exit' = [exit EXCEPT ![f] = cur[f]]
         /\ cur[f] \in Outcome /\ cur[f] # NotDone
         /\ Done(f)'
<1>1. exit' = [exit EXCEPT ![f] = cur[f]] /\ cur[f] \in Outcome
  BY ExitIsOutcome DEF SetExit, At
<1>2. cur[f] # NotDone
  BY <1>1 DEF Outcome, Succ, Failed, NotDone
<1>3. exit'[f] = cur[f]
  BY <1>1 DEF TypeInv, TypeOK
<1>. QED BY <1>1, <1>2, <1>3 DEF Done

(* Only SetExit sets an exit.                                                *)
LEMMA ExitKept ==
  ASSUME TypeOK, NEW f \in Fiber,
         \/ RunTask(f) \/ (Step(f) /\ ~SetExit(f)) \/ Start(f) \/ StartLater(f) \/ ExternalInterrupt(f)
         \/ \E i \in DOMAIN asyncs[f] : ExternalCallback(f, i)
  PROVE  exit' = exit
<1>1. CASE \/ RunTask(f) \/ Return(f) \/ DrainDone(f) \/ DrainYield(f) \/ BeginOp(f)
           \/ DrainResume(f) \/ LoopInterrupt(f) \/ Preempt(f) \/ DrainInterrupt(f)
           \/ DrainStateful(f) \/ LoopStateful(f) \/ WindDownChildren(f) \/ ExitLater(f)
           \/ Start(f) \/ StartLater(f) \/ ExternalInterrupt(f)
           \/ \E i \in DOMAIN asyncs[f] : ExternalCallback(f, i)
  BY <1>1 DEF RunTask, Return, DrainDone, DrainYield, BeginOp, DrainResume, LoopInterrupt, Preempt,
              DrainInterrupt, DrainStateful, LoopStateful, Stateful1, WindDownChildren, ExitLater,
              Start, StartLater, ExternalInterrupt, ExternalCallback
<1>2. CASE UserOp(f)
  <2>1. ASSUME NEW kind, NEW to, NEW st, NEW h, NEW daemon, NEW i,
               \/ UserSucceed(f) \/ UserFail(f) \/ UserOnExit(f) \/ UserYield(f)
               \/ UserFrame(f, kind) \/ UserFlags(f, to) \/ UserAsync(f, st) \/ UserAwait(f, h)
               \/ UserInterrupt(f, h) \/ UserFork(f, h, daemon) \/ UserCallback(f, h, i)
        PROVE  exit' = exit
    BY <2>1 DEF UserSucceed, UserFail, UserOnExit, UserYield, UserFrame, UserFlags, UserAsync,
                UserAwait, UserInterrupt, UserFork, UserCallback, Pure
  <2>. QED BY <1>2, <2>1 DEF UserOp
<1>3. CASE Primitive(f)
  BY <1>3 DEF Primitive, OpOnExit, OpGuard, OpRestore, OpAsync, OpYield, OpWind, SkipFrame,
              SuccessHandler, FailureHandler, RevertFrame, UserFinalizer, AwaitCanceler, EndLoop, Pure
<1>. QED BY <1>1, <1>2, <1>3 DEF Step

(* A fiber that has ended stays so, and the only step that ends one is its   *)
(* own SetExit.                                                              *)
LEMMA DoneStays ==
  ASSUME TypeInv, NEW f \in Fiber, NEW c \in Fiber,
         \/ RunTask(f) \/ Step(f) \/ Start(f) \/ StartLater(f) \/ ExternalInterrupt(f)
         \/ \E i \in DOMAIN asyncs[f] : ExternalCallback(f, i)
  PROVE  /\ Done(c) => Done(c)'
         /\ Done(c)' => Done(c) \/ (SetExit(f) /\ c = f)
<1>1. CASE SetExit(f)
  BY <1>1, ExitSet DEF Done, TypeInv, TypeOK
<1>2. CASE ~SetExit(f)
  <2>1. exit' = exit
    BY <1>2, ExitKept DEF TypeInv
  <2>. QED BY <2>1 DEF Done
<1>. QED BY <1>1, <1>2

-----------------------------------------------------------------------------
(* Observers.                                                               *)
LEMMA Observing ==
  ASSUME TypeOK, NEW f \in Fiber, NEW g \in Fiber,
         \/ RunTask(f) \/ Step(f) \/ Start(f) \/ StartLater(f) \/ ExternalInterrupt(f)
         \/ \E i \in DOMAIN asyncs[f] : ExternalCallback(f, i)
  PROVE  \A w \in observers'[g] : \/ w \in observers[g] \/ w[2] = 0
                                  \/ \E x \in Rng(queue[g]) : x.k = "observe" /\ w = x.who
<1>. USE DEF family
<1>1. CASE DrainStateful(f) \/ LoopStateful(f)
  <2>1. queue[f] # <<>> /\ Handle(f, Head(queue[f]))
    BY <1>1 DEF DrainStateful, LoopStateful, Stateful1, Next1
  <2>2. PICK x : x = Head(queue[f])
    OBVIOUS
  <2>3. x \in Rng(queue[f])
    BY <2>1, <2>2, RngParts DEF TypeOK
  <2>. DEFINE addsChild == x.k = "addChild" /\ exit[x.child] = NotDone
              adds == x.k = "observe" /\ exit[f] = NotDone
  <2>4. observers'[g] = CASE addsChild /\ g = x.child   -> observers[g] \cup {<<f, 0>>}
                          [] adds /\ g = f              -> observers[g] \cup {x.who}
                          [] x.k = "unobserve" /\ g = f -> observers[g] \ {x.who}
                          [] OTHER                      -> observers[g]
    BY <2>1, <2>2 DEF Handle
  <2>5. ASSUME NEW w \in observers'[g], w \notin observers[g]
        PROVE  w = <<f, 0>> \/ (adds /\ g = f /\ w = x.who)
    BY <2>4, <2>5
  <2>. QED BY <2>3, <2>5
<1>2. CASE observers' = observers
  BY <1>2
<1>3. CASE UserOp(f)
  <2>1. ASSUME NEW kind, NEW to, NEW st, NEW h, NEW daemon, NEW i,
               \/ UserSucceed(f) \/ UserFail(f) \/ UserOnExit(f) \/ UserYield(f)
               \/ UserFrame(f, kind) \/ UserFlags(f, to) \/ UserAsync(f, st) \/ UserAwait(f, h)
               \/ UserInterrupt(f, h) \/ UserFork(f, h, daemon) \/ UserCallback(f, h, i)
        PROVE  observers' = observers
    BY <2>1 DEF UserSucceed, UserFail, UserOnExit, UserYield, UserFrame, UserFlags, UserAsync,
                UserAwait, UserInterrupt, UserFork, UserCallback, Pure
  <2>. QED BY <1>2, <1>3, <2>1 DEF UserOp
<1>4. CASE Primitive(f)
  <2>1. observers' = observers
    BY <1>4 DEF Primitive, OpOnExit, OpGuard, OpRestore, OpAsync, OpYield, OpWind, SkipFrame,
              SuccessHandler, FailureHandler, RevertFrame, UserFinalizer, AwaitCanceler, EndLoop, Pure
  <2>. QED BY <1>2, <2>1
<1>5. CASE \/ RunTask(f) \/ Return(f) \/ DrainDone(f) \/ DrainYield(f) \/ BeginOp(f)
           \/ DrainResume(f) \/ LoopInterrupt(f) \/ Preempt(f) \/ DrainInterrupt(f)
           \/ WindDownChildren(f) \/ ExitLater(f) \/ SetExit(f)
           \/ Start(f) \/ StartLater(f) \/ ExternalInterrupt(f)
           \/ \E i \in DOMAIN asyncs[f] : ExternalCallback(f, i)
  <2>1. observers' = observers
    BY <1>5 DEF RunTask, Return, DrainDone, DrainYield, BeginOp, DrainResume, LoopInterrupt, Preempt,
              DrainInterrupt, WindDownChildren, ExitLater, SetExit,
              Start, StartLater, ExternalInterrupt, ExternalCallback
  <2>. QED BY <1>2, <2>1
<1>. QED BY <1>1, <1>3, <1>4, <1>5 DEF Step

(* Every observer of a fiber, and every one about to be added, waits for it. *)
LEMMA ObsStep ==
  ASSUME TypeInv, NEW f \in Fiber, NEW g \in Fiber, ObsOf(g),
         \/ RunTask(f) \/ Step(f) \/ Start(f) \/ StartLater(f) \/ ExternalInterrupt(f)
         \/ \E i \in DOMAIN asyncs[f] : ExternalCallback(f, i)
  PROVE  ObsOf(g)'
<1>0. TypeOK
  BY DEF TypeInv
<1>1. \A h \in Fiber : Grown(h)
  BY <1>0, Called, Grows
<1>2. \A w \in Waiter : Names(w, g) => Names(w, g)'
  BY <1>1 DEF Names, Grown, Waiter
<1>3. \A x \in Rng(queue[g]) : x.k = "observe" => x.who \in Waiter /\ Names(x.who, g)
  <2>1. \A x \in Rng(queue[g]) : x \in Message
    BY <1>0 DEF Rng, TypeOK
  <2>. QED BY <2>1, MessageFields DEF ObsOf
<1>4. ASSUME NEW w \in observers'[g], w[2] # 0 PROVE Names(w, g)'
  <2>1. CASE w \in observers[g]
    <3>1. w \in Waiter
      BY <1>0, <2>1 DEF TypeOK
    <3>. QED BY <1>2, <1>4, <2>1, <3>1 DEF ObsOf
  <2>2. ASSUME NEW x \in Rng(queue[g]), x.k = "observe", w = x.who PROVE Names(w, g)'
    BY <1>2, <1>3, <2>2
  <2>. QED BY <1>0, <1>4, <2>1, <2>2, Observing
<1>5. ASSUME NEW x \in Rng(queue'[g]), x.k = "observe" PROVE Names(x.who, g)'
  <2>1. x \in Rng(queue[g]) \/ Fresh(f, g, x)
    BY <1>5, MailedStep DEF Mailed
  <2>2. CASE x \in Rng(queue[g])
    BY <1>2, <1>3, <1>5, <2>2
  <2>3. CASE Fresh(f, g, x)
    BY <1>5, <2>3 DEF Fresh
  <2>. QED BY <2>1, <2>2, <2>3
<1>. QED BY <1>4, <1>5 DEF ObsOf

(* A callback that waits for a fiber is answered when that fiber is done; or *)
(* its own fiber arms it, or is interrupted while it waits.                 *)
LEMMA Answers ==
  ASSUME TypeInv, NEW f \in Fiber, \A h \in Fiber : ObsOf(h),
         \/ RunTask(f) \/ Step(f) \/ Start(f) \/ StartLater(f) \/ ExternalInterrupt(f)
         \/ \E i \in DOMAIN asyncs[f] : ExternalCallback(f, i),
         NEW g \in Fiber, NEW i \in DOMAIN asyncs[g], NEW c \in Fiber, asyncs[g][i].of = c, ~Done(c)',
         g # f \/ (i # interruptor[f] /\ ~OpAsync(f))
  PROVE  asyncs'[g][i] = asyncs[g][i]
<1>0. TypeOK
  BY DEF TypeInv
<1>1. Calls(f)
  BY <1>0, Called
<1>2. ASSUME NEW S, Fire(S), <<g, i>> \notin S PROVE asyncs'[g][i] = asyncs[g][i]
  BY <1>0, <1>2, FireShape
<1>3. c # NoFiber
  BY FiberAssumption
<1>4. CASE asyncs' = asyncs
  BY <1>4
<1>5. ASSUME NEW a, asyncs' = [asyncs EXCEPT ![f] = Append(@, a)] PROVE asyncs'[g][i] = asyncs[g][i]
  <2>1. asyncs[g] \in Seq(AsyncState)
    BY <1>0 DEF TypeOK
  <2>2. \A s \in Seq(AsyncState) : \A j \in DOMAIN s : Append(s, a)[j] = s[j]
    OBVIOUS
  <2>3. asyncs'[g] = asyncs[g] \/ asyncs'[g] = Append(asyncs[g], a)
    BY <1>0, <1>5 DEF TypeOK
  <2>. QED BY <2>1, <2>2, <2>3
<1>6. CASE OpAsync(f)
  <2>1. g # f
    BY <1>6
  <2>2. asyncs'[g] = asyncs[g]
    BY <1>0, <1>6, <2>1 DEF OpAsync, TypeOK
  <2>. QED BY <2>2
<1>7. CASE DrainInterrupt(f) /\ Fire({<<f, interruptor[f]>>})
  <2>1. <<g, i>> \notin {<<f, interruptor[f]>>}
    BY <1>7 DEF DrainInterrupt, Next1, OpAsync, OpAt, At
  <2>. QED BY <1>2, <1>7, <2>1
<1>8. ASSUME NEW x \in Rng(queue[f]), AtOnce(f, x), Fire({x.who}) PROVE asyncs'[g][i] = asyncs[g][i]
  <2>1. Names(x.who, f) /\ Done(f)
    BY <1>8 DEF ObsOf, AtOnce, Done
  <2>2. x.who # <<g, i>>
    <3>1. SUFFICES ASSUME x.who = <<g, i>> PROVE FALSE
      OBVIOUS
    <3>2. c = f
      BY <2>1, <3>1 DEF Names
    <3>3. Done(f)'
      BY <2>1, DoneStays
    <3>. QED BY <3>2, <3>3
  <2>. QED BY <1>2, <1>8, <2>2
<1>9. CASE Fire({})
  BY <1>2, <1>9
<1>10. ASSUME NEW h, NEW j, asyncs[h][j].of = NoFiber, Fire({<<h, j>>})
       PROVE  asyncs'[g][i] = asyncs[g][i]
  <2>1. <<g, i>> \notin {<<h, j>>}
    BY <1>3, <1>10
  <2>. QED BY <1>2, <1>10, <2>1
<1>11. CASE SetExit(f) /\ Fire(observers[f])
  <2>1. <<g, i>> \notin observers[f]
    <3>1. SUFFICES ASSUME <<g, i>> \in observers[f] PROVE FALSE
      OBVIOUS
    <3>2. i # 0
      <4>1. asyncs[g] \in Seq(AsyncState)
        BY <1>0 DEF TypeOK
      <4>. QED BY <4>1
    <3>3. Names(<<g, i>>, f)
      BY <3>1, <3>2 DEF ObsOf
    <3>4. c = f
      BY <3>3 DEF Names
    <3>. QED BY <1>11, <3>4, ExitSet
  <2>. QED BY <1>2, <1>11, <2>1
<1>. QED BY <1>1, <1>4, <1>5, <1>6, <1>7, <1>8, <1>9, <1>10, <1>11 DEF Calls

-----------------------------------------------------------------------------
(* The flag of the wind-down, the scope and the children.                   *)
LEMMA WindDownSet ==
  ASSUME TypeOK, NEW f \in Fiber, NEW g \in Fiber,
         \/ RunTask(f) \/ Step(f) \/ Start(f) \/ StartLater(f) \/ ExternalInterrupt(f)
         \/ \E i \in DOMAIN asyncs[f] : ExternalCallback(f, i)
  PROVE  \/ windDown'[g] = windDown[g] /\ scope'[g] = scope[g]
         \/ g = f /\ (WindDownChildren(f) \/ ExitLater(f) \/ SetExit(f)) /\ scope'[g] = scope[g]
         \/ \E daemon \in BOOLEAN : UserFork(f, g, daemon)
<1>. USE DEF flags, history, Evaluation
<1>1. CASE \/ RunTask(f) \/ Return(f) \/ DrainDone(f) \/ DrainYield(f) \/ BeginOp(f)
           \/ DrainResume(f) \/ LoopInterrupt(f) \/ Preempt(f) \/ DrainInterrupt(f)
           \/ DrainStateful(f) \/ LoopStateful(f)
           \/ Start(f) \/ StartLater(f) \/ ExternalInterrupt(f)
           \/ \E i \in DOMAIN asyncs[f] : ExternalCallback(f, i)
  BY <1>1 DEF RunTask, Return, DrainDone, DrainYield, BeginOp, DrainResume, LoopInterrupt, Preempt,
              DrainInterrupt, DrainStateful, LoopStateful, Stateful1,
              Start, StartLater, ExternalInterrupt, ExternalCallback
<1>2. CASE UserOp(f)
  <2>1. ASSUME NEW kind, NEW to, NEW st, NEW h, NEW i,
               \/ UserSucceed(f) \/ UserFail(f) \/ UserOnExit(f) \/ UserYield(f)
               \/ UserFrame(f, kind) \/ UserFlags(f, to) \/ UserAsync(f, st) \/ UserAwait(f, h)
               \/ UserInterrupt(f, h) \/ UserCallback(f, h, i)
        PROVE  windDown'[g] = windDown[g] /\ scope'[g] = scope[g]
    BY <2>1 DEF UserSucceed, UserFail, UserOnExit, UserYield, UserFrame, UserFlags, UserAsync,
                UserAwait, UserInterrupt, UserCallback, Pure
  <2>2. ASSUME NEW c \in Fiber, NEW daemon \in BOOLEAN, UserFork(f, c, daemon), c # g
        PROVE  windDown'[g] = windDown[g] /\ scope'[g] = scope[g]
    BY <2>2 DEF UserFork, TypeOK
  <2>. QED BY <1>2, <2>1, <2>2 DEF UserOp
<1>3. CASE Primitive(f)
  BY <1>3 DEF Primitive, OpOnExit, OpGuard, OpRestore, OpAsync, OpYield, OpWind, SkipFrame,
              SuccessHandler, FailureHandler, RevertFrame, UserFinalizer, AwaitCanceler, EndLoop, Pure
<1>4. CASE WindDownChildren(f) \/ ExitLater(f) \/ SetExit(f)
  BY <1>4 DEF WindDownChildren, ExitLater, SetExit, TypeOK
<1>. QED BY <1>1, <1>2, <1>3, <1>4 DEF Step

(* A step other than the start of the wind-down removes from the children    *)
(* only those that have ended.                                               *)
LEMMA ChildrenKept ==
  ASSUME TypeInv, NEW f \in Fiber, NEW g \in Fiber,
         \/ RunTask(f) \/ Step(f) \/ Start(f) \/ StartLater(f) \/ ExternalInterrupt(f)
         \/ \E i \in DOMAIN asyncs[f] : ExternalCallback(f, i),
         g # f \/ ~WindDownChildren(f)
  PROVE  \A c \in children[g] : c \in children'[g] \/ Done(c)'
<1>. USE DEF family
<1>0. TypeOK
  BY DEF TypeInv
<1>1. CASE \/ RunTask(f) \/ Return(f) \/ DrainDone(f) \/ DrainYield(f) \/ BeginOp(f)
           \/ DrainResume(f) \/ LoopInterrupt(f) \/ Preempt(f) \/ DrainInterrupt(f) \/ ExitLater(f)
           \/ Start(f) \/ StartLater(f) \/ ExternalInterrupt(f)
           \/ \E i \in DOMAIN asyncs[f] : ExternalCallback(f, i)
  BY <1>1 DEF RunTask, Return, DrainDone, DrainYield, BeginOp, DrainResume, LoopInterrupt, Preempt,
              DrainInterrupt, ExitLater, Start, StartLater, ExternalInterrupt, ExternalCallback
<1>2. CASE DrainStateful(f) \/ LoopStateful(f)
  <2>1. PICK x, b : children' = [children EXCEPT ![f] = IF b THEN @ \cup {x.child} ELSE @]
    BY <1>2 DEF DrainStateful, LoopStateful, Stateful1, Handle
  <2>2. children[g] \subseteq children'[g]
    BY <1>0, <2>1 DEF TypeOK
  <2>. QED BY <2>2
<1>3. CASE UserOp(f)
  <2>1. ASSUME NEW kind, NEW to, NEW st, NEW h, NEW i, NEW daemon,
               \/ UserSucceed(f) \/ UserFail(f) \/ UserOnExit(f) \/ UserYield(f)
               \/ UserFrame(f, kind) \/ UserFlags(f, to) \/ UserAsync(f, st) \/ UserAwait(f, h)
               \/ UserInterrupt(f, h) \/ UserFork(f, h, daemon) \/ UserCallback(f, h, i)
        PROVE  children' = children
    BY <2>1 DEF UserSucceed, UserFail, UserOnExit, UserYield, UserFrame, UserFlags, UserAsync,
                UserAwait, UserInterrupt, UserFork, UserCallback, Pure
  <2>. QED BY <1>3, <2>1 DEF UserOp
<1>4. CASE Primitive(f)
  BY <1>4 DEF Primitive, OpOnExit, OpGuard, OpRestore, OpAsync, OpYield, OpWind, SkipFrame,
              SuccessHandler, FailureHandler, RevertFrame, UserFinalizer, AwaitCanceler, EndLoop, Pure
<1>5. CASE WindDownChildren(f)
  BY <1>0, <1>5 DEF WindDownChildren, TypeOK
<1>6. CASE SetExit(f)
  <2>1. Done(f)'
    BY <1>6, ExitSet
  <2>. QED BY <1>6, <2>1 DEF SetExit
<1>. QED BY <1>1, <1>2, <1>3, <1>4, <1>5, <1>6 DEF Step

-----------------------------------------------------------------------------
(* Stacks of a fiber that winds down.                                       *)
LEMMA CleanRng ==
  ASSUME NEW s
  PROVE  Clean(s) <=> \A r \in Rng(s) : ~Pending(r)
BY DEF Clean, Rng

(* Pushing a frame keeps the shape of the stack of a wind-down.              *)
LEMMA WindPush ==
  ASSUME NEW s \in Seq(Frame), NEW r \in Frame, WindStack(s),
         IF s = <<>> THEN LastFrame(r) ELSE WindFrame(r)
  PROVE  /\ WindStack(<<r>> \o s) /\ <<r>> \o s # <<>>
         /\ Clean(<<r>> \o s) <=> Clean(s) /\ ~Pending(r)
<1>. DEFINE t == <<r>> \o s
<1>1. /\ t[1] = r /\ Len(t) = Len(s) + 1
      /\ \A j \in DOMAIN t : j = 1 \/ (j - 1 \in DOMAIN s /\ t[j] = s[j - 1])
      /\ t \in Seq(Frame)
  BY Pushed
<1>2. Rng(t) = {r} \cup Rng(s)
  BY RngParts
<1>. HIDE DEF t
<1>3. /\ DOMAIN t = 1..Len(t) /\ DOMAIN s = 1..Len(s) /\ Len(s) \in Nat /\ Len(t) \in Nat
      /\ t # <<>> /\ (s = <<>> <=> Len(s) = 0)
  BY <1>1
<1>4. LastFrame(t[Len(t)])
  <2>1. CASE s = <<>>
    BY <1>1, <1>3, <2>1
  <2>2. CASE s # <<>>
    <3>1. Len(t) \in DOMAIN t /\ Len(t) # 1 /\ Len(t) - 1 = Len(s)
      BY <1>1, <1>3, <2>2
    <3>2. t[Len(t)] = s[Len(s)]
      BY <1>1, <3>1
    <3>. QED BY <2>2, <3>2 DEF WindStack
  <2>. QED BY <2>1, <2>2
<1>5. ASSUME NEW j \in 1..(Len(t) - 1) PROVE WindFrame(t[j])
  <2>1. s # <<>> /\ j \in DOMAIN t
    BY <1>1, <1>3
  <2>2. CASE j = 1
    BY <1>1, <2>1, <2>2
  <2>3. CASE j # 1
    <3>1. j - 1 \in 1..(Len(s) - 1) /\ t[j] = s[j - 1]
      BY <1>1, <1>3, <2>1, <2>3
    <3>. QED BY <2>1, <3>1 DEF WindStack
  <2>. QED BY <2>2, <2>3
<1>6. Clean(t) <=> Clean(s) /\ ~Pending(r)
  BY <1>2, CleanRng
<1>. QED BY <1>3, <1>4, <1>5, <1>6 DEF WindStack, t

(* Popping a frame keeps that shape, and tells which frame it was.           *)
LEMMA WindPop ==
  ASSUME NEW s \in Seq(Frame), s # <<>>, WindStack(s)
  PROVE  /\ WindStack(Tail(s))
         /\ IF Tail(s) = <<>> THEN LastFrame(Head(s)) ELSE WindFrame(Head(s))
         /\ Clean(s) <=> Clean(Tail(s)) /\ ~Pending(Head(s))
<1>. DEFINE t == Tail(s)
<1>1. /\ Head(s) = s[1] /\ Len(t) = Len(s) - 1 /\ t \in Seq(Frame)
      /\ \A j \in DOMAIN t : j + 1 \in DOMAIN s /\ t[j] = s[j + 1]
  BY Popping
<1>2. Rng(s) = {Head(s)} \cup Rng(t)
  BY RngParts
<1>. HIDE DEF t
<1>3. /\ DOMAIN t = 1..Len(t) /\ DOMAIN s = 1..Len(s) /\ Len(s) \in Nat /\ Len(t) \in Nat
      /\ Len(s) > 0 /\ (t = <<>> <=> Len(t) = 0)
  BY <1>1
<1>4. LastFrame(s[Len(s)]) /\ \A j \in 1..(Len(s) - 1) : WindFrame(s[j])
  BY DEF WindStack
<1>5. WindStack(t)
  <2>1. ASSUME t # <<>> PROVE LastFrame(t[Len(t)])
    <3>1. Len(t) \in DOMAIN t /\ Len(t) + 1 = Len(s)
      BY <1>1, <1>3, <2>1
    <3>2. t[Len(t)] = s[Len(s)]
      BY <1>1, <3>1
    <3>. QED BY <1>4, <3>2
  <2>2. ASSUME NEW j \in 1..(Len(t) - 1) PROVE WindFrame(t[j])
    <3>1. j \in DOMAIN t /\ j + 1 \in 1..(Len(s) - 1)
      BY <1>1, <1>3
    <3>. QED BY <1>1, <1>4, <3>1
  <2>. QED BY <2>1, <2>2 DEF WindStack
<1>6. IF t = <<>> THEN LastFrame(Head(s)) ELSE WindFrame(Head(s))
  <2>1. CASE t = <<>>
    <3>1. Len(s) = 1
      BY <1>1, <1>3, <2>1
    <3>. QED BY <1>1, <1>4, <2>1, <3>1
  <2>2. CASE t # <<>>
    <3>1. 1 \in 1..(Len(s) - 1)
      BY <1>1, <1>3, <2>2
    <3>. QED BY <1>1, <1>4, <2>2, <3>1
  <2>. QED BY <2>1, <2>2
<1>7. Clean(s) <=> Clean(t) /\ ~Pending(Head(s))
  BY <1>2, CleanRng
<1>. QED BY <1>5, <1>6, <1>7 DEF t

-----------------------------------------------------------------------------
(* Only the unit of an await resumes a fiber that winds down.               *)
LEMMA FreshWind ==
  ASSUME TypeOK, NEW f \in Fiber, NEW g \in Fiber, ContOf(g), WindOf(g), UnbornOf(g),
         windDown[g], ~Done(g), NEW x, Fresh(f, g, x), x.k = "resume",
         g # f \/ (~ExitLater(f) /\ ~OpAsync(f))
  PROVE  x.eff = Succ
<1>1. interruptor[g] = 0 /\ Born(g)
  BY DEF WindOf, UnbornOf
<1>2. ASSUME NEW i, Armed(g, i), asyncs[g][i].of = NoFiber PROVE FALSE
  <2>1. ~NoneArmed(asyncs[g])
    BY <1>2 DEF Armed, NoneArmed
  <2>2. LastArmed(asyncs[g])
    BY <2>1, ArmedOrNot
  <2>3. i = Len(asyncs[g])
    BY <1>2, <2>2 DEF Armed, LastArmed
  <2>. QED BY <1>2, <2>1, <2>3 DEF WindOf, Last
<1>. QED BY <1>1, <1>2 DEF Fresh

(* A fiber that winds down is not at a user's effect.                       *)
LEMMA NoUserEffect ==
  ASSUME NEW f \in Fiber, ContOf(f), WindOf(f), pc[f] = "op", cur[f].k = "any"
  PROVE  ~windDown[f]
<1>1. Evaluating(f) /\ ~Done(f)
  BY Evaluates DEF Evaluating
<1>2. cur[f] \notin Outcome /\ ~WindEffect(cur[f])
  BY DEF Outcome, Succ, Failed, WindEffect
<1>. QED BY <1>1, <1>2 DEF WindOf, Fit

(* A step that leaves the run of a fiber alone keeps where its wind-down     *)
(* stands.                                                                   *)
LEMMA WindKept ==
  ASSUME TypeOK, NEW f \in Fiber, NEW g \in Fiber, ContOf(g), WindOf(g), UnbornOf(g),
         Mailed(f, g), Grown(g), Steady(g), UNCHANGED <<windDown[g], cur[g], stack[g]>>,
         interruptor'[g] \in {interruptor[g], 0}, Evaluating(g)' <=> Evaluating(g),
         Done(g) => Done(g)', g # f \/ (~ExitLater(f) /\ ~OpAsync(f))
  PROVE  WindOf(g)'
<1>. SUFFICES ASSUME windDown[g], ~Done(g), ~Done(g)'
              PROVE  /\ interruptor'[g] = 0
                     /\ WindStack(stack'[g])
                     /\ Evaluating(g) => Fit(stack'[g], cur'[g])
                     /\ \A x \in Rng(queue'[g]) : x.k = "resume" => Brings(stack'[g], x.eff)
                     /\ Refers(g)' \/ ~NoneArmed(asyncs'[g])
                          => asyncs'[g] # <<>> /\ Last(g)'.of # NoFiber
  BY DEF WindOf
<1>1. interruptor'[g] = 0 /\ WindStack(stack'[g]) /\ (Evaluating(g) => Fit(stack'[g], cur'[g]))
  BY DEF WindOf
<1>2. ASSUME NEW x \in Rng(queue'[g]), x.k = "resume" PROVE Brings(stack'[g], x.eff)
  <2>1. x \in Rng(queue[g]) \/ Fresh(f, g, x)
    BY <1>2 DEF Mailed
  <2>2. CASE x \in Rng(queue[g])
    BY <1>2, <2>2 DEF WindOf
  <2>3. CASE Fresh(f, g, x)
    <3>1. x.eff = Succ
      BY <1>2, <2>3, FreshWind
    <3>. QED BY <3>1, OutcomeTypes DEF Brings
  <2>. QED BY <2>1, <2>2, <2>3
<1>3. ASSUME Refers(g)' \/ ~NoneArmed(asyncs'[g])
      PROVE  asyncs'[g] # <<>> /\ Last(g)'.of # NoFiber
  <2>1. Refers(g)' = Refers(g)
    BY DEF Refers
  <2>2. asyncs[g] # <<>> /\ Last(g).of # NoFiber
    BY <1>3, <2>1 DEF Steady, WindOf
  <2>3. Len(asyncs[g]) \in DOMAIN asyncs[g] /\ Len(asyncs'[g]) = Len(asyncs[g])
        /\ Len(asyncs[g]) # 0
    BY <2>2 DEF Steady, TypeOK
  <2>4. asyncs'[g][Len(asyncs'[g])].of = asyncs[g][Len(asyncs[g])].of
    BY <2>3 DEF Grown
  <2>. QED BY <2>2, <2>3, <2>4 DEF Last
<1>. QED BY <1>1, <1>2, <1>3

(* A step that leaves the run of a fiber alone keeps its loop over the       *)
(* children.                                                                 *)
LEMMA LoopKept ==
  ASSUME NEW g \in Fiber, LoopOf(g), UNCHANGED <<windDown[g], cur[g], stack[g]>>,
         winding'[g] = winding[g], Evaluating(g)' <=> Evaluating(g)
  PROVE  LoopOf(g)'
BY DEF LoopOf

(* The record a parent has of its children.  Of an await nothing changes but *)
(* that it is over.                                                         *)
LEMMA AwaitedKept ==
  ASSUME TypeInv, NEW f \in Fiber, \A h \in Fiber : ObsOf(h),
         \/ RunTask(f) \/ Step(f) \/ Start(f) \/ StartLater(f) \/ ExternalInterrupt(f)
         \/ \E i \in DOMAIN asyncs[f] : ExternalCallback(f, i),
         NEW g \in Fiber, WindOf(g), ~Done(g), NEW c \in Fiber, Awaited(g, c), ~Done(c)',
         windDown'[g] = windDown[g], Len(asyncs'[g]) = Len(asyncs[g]),
         Last(g).st = "registered" /\ Refers(g) => Refers(g)', g # f \/ ~OpAsync(f)
  PROVE  Awaited(g, c)'
<1>1. PICK i \in DOMAIN asyncs[g] : i = Len(asyncs[g]) /\ i # 0
  <2>1. asyncs[g] \in Seq(AsyncState) /\ asyncs[g] # <<>>
    BY DEF Awaited, TypeInv, TypeOK
  <2>. QED BY <2>1
<1>2. asyncs[g][i].of = c /\ windDown[g] /\ interruptor[g] = 0
  BY <1>1 DEF Awaited, Last, WindOf
<1>3. asyncs'[g][i] = asyncs[g][i]
  BY <1>1, <1>2, Answers
<1>4. Last(g)' = Last(g) /\ asyncs'[g] # <<>>
  BY <1>1, <1>3 DEF Last
<1>. QED BY <1>1, <1>2, <1>4 DEF Awaited

(* A step that loses no child of a fiber, save those that end, keeps every   *)
(* live child accounted for.                                                 *)
LEMMA FamilyKept ==
  ASSUME TypeInv, NEW f \in Fiber, \A h \in Fiber : ObsOf(h),
         \/ RunTask(f) \/ Step(f) \/ Start(f) \/ StartLater(f) \/ ExternalInterrupt(f)
         \/ \E i \in DOMAIN asyncs[f] : ExternalCallback(f, i),
         NEW g \in Fiber, WindOf(g), Family(g), ~Done(g) => ~Done(g)', Born(g) => Born(g)',
         \A c \in Fiber : scope'[c] = g => scope[c] = g,
         \A c \in Fiber : c \in children[g] \cup winding[g] =>
           c \in children'[g] \cup winding'[g] \/ Done(c)',
         \A c \in Fiber : AddChild(c) \in Rng(queue[g]) =>
           AddChild(c) \in Rng(queue'[g]) \/ c \in children'[g] \/ Done(c)',
         \A c \in Fiber : Awaited(g, c) /\ ~Done(g) /\ ~Done(c)' => Awaited(g, c)'
  PROVE  Family(g)'
<1>. SUFFICES ASSUME NEW c \in Fiber, scope'[c] = g, ~Done(c)'
              PROVE  /\ Born(g)' /\ ~Done(g)'
                     /\ \/ c \in children'[g] \cup winding'[g]
                        \/ AddChild(c) \in Rng(queue'[g])
                        \/ Awaited(g, c)'
  BY DEF Family
<1>1. scope[c] = g /\ ~Done(c)
  BY DoneStays
<1>2. /\ Born(g) /\ ~Done(g)
      /\ \/ c \in children[g] \cup winding[g]
         \/ AddChild(c) \in Rng(queue[g])
         \/ Awaited(g, c)
  BY <1>1 DEF Family
<1>. QED BY <1>2

-----------------------------------------------------------------------------
(* The steps of the others, and of the outside world, on a fiber that stays  *)
(* where it is.                                                             *)
LEMMA LifeStays ==
  ASSUME TypeInv, ContInv, LifeInv, Aged, NEW f \in Fiber, NEW g \in Fiber,
         \/ RunTask(f) \/ Step(f) \/ Start(f) \/ StartLater(f) \/ ExternalInterrupt(f)
         \/ \E i \in DOMAIN asyncs[f] : ExternalCallback(f, i),
         UNCHANGED <<windDown[g], scope[g], cur[g], stack[g], winding[g]>>,
         interruptor'[g] \in {interruptor[g], 0}, Evaluating(g)' <=> Evaluating(g), Born(g) <=> Born(g)',
         Done(g)' => Done(g), Steady(g),
         g # f \/ (~OpAsync(f) /\ ~ExitLater(f) /\ ~WindDownChildren(f)),
         \A c \in Fiber : scope'[c] = g => scope[c] = g,
         \A c \in Fiber : AddChild(c) \in Rng(queue[g]) =>
           AddChild(c) \in Rng(queue'[g]) \/ c \in children'[g] \/ Done(c)'
  PROVE  LifeOf(g)'
<1>0. TypeOK /\ ContOf(g) /\ LifeOf(g) /\ \A h \in Fiber : ObsOf(h)
  BY DEF TypeInv, ContInv, LifeInv, LifeOf
<1>1. WindOf(g) /\ LoopOf(g) /\ ObsOf(g) /\ Family(g) /\ UnbornOf(g)
  BY <1>0 DEF LifeOf
<1>2. Mailed(f, g) /\ Grown(g) /\ (Done(g) => Done(g)')
  BY <1>0, MailedStep, Called, Grows, DoneStays
<1>3. WindOf(g)'
  BY <1>0, <1>1, <1>2, WindKept
<1>4. LoopOf(g)'
  BY <1>1, LoopKept
<1>5. ObsOf(g)'
  BY <1>1, ObsStep
<1>6. \A c \in children[g] : c \in children'[g] \/ Done(c)'
  BY ChildrenKept
<1>7. ASSUME NEW c \in Fiber, Awaited(g, c), ~Done(g), ~Done(c)' PROVE Awaited(g, c)'
  <2>1. Refers(g) => Refers(g)'
    BY DEF Refers
  <2>2. Len(asyncs'[g]) = Len(asyncs[g])
    BY DEF Steady
  <2>. QED BY <1>0, <1>1, <1>7, <2>1, <2>2, AwaitedKept
<1>8. Family(g)'
  BY <1>0, <1>1, <1>6, <1>7, FamilyKept
<1>9. UnbornOf(g)'
  BY <1>1 DEF UnbornOf
<1>. QED BY <1>3, <1>4, <1>5, <1>8, <1>9 DEF LifeOf

(* A fiber that is created: it has no children, and is not winding down.     *)
LEMMA LifeBegins ==
  ASSUME TypeInv, LifeInv, NEW f \in Fiber, NEW g \in Fiber, pc[g] = "unborn", Born(g)',
         \/ RunTask(f) \/ Step(f) \/ Start(f) \/ StartLater(f) \/ ExternalInterrupt(f)
         \/ \E i \in DOMAIN asyncs[f] : ExternalCallback(f, i),
         ~windDown'[g], winding'[g] = winding[g], \A c \in Fiber : scope'[c] = g => scope[c] = g
  PROVE  LifeOf(g)'
<1>1. ~Born(g) /\ LoopOf(g) /\ ObsOf(g) /\ Family(g) /\ UnbornOf(g)
  BY DEF Born, LifeInv, LifeOf
<1>2. winding'[g] = {}
  BY <1>1 DEF LoopOf, UnbornOf
<1>3. Family(g)'
  <2>1. ASSUME NEW c \in Fiber, scope'[c] = g, ~Done(c)' PROVE FALSE
    BY <1>1, <2>1, DoneStays DEF Family
  <2>. QED BY <2>1 DEF Family
<1>4. ObsOf(g)'
  BY <1>1, ObsStep
<1>. QED BY <1>2, <1>3, <1>4 DEF LifeOf, WindOf, LoopOf, UnbornOf

(* A step of one fiber keeps LifeOf of another.                              *)
LEMMA LifeElsewhere ==
  ASSUME TypeInv, ContInv, LifeInv, Aged, NEW f \in Fiber, NEW g \in Fiber, g # f,
         RunTask(f) \/ Step(f)
  PROVE  LifeOf(g)'
<1>0. TypeOK /\ Untouched(g) /\ ContOf(f) /\ LifeOf(f) /\ ContOf(g) /\ LifeOf(g)
  BY Alone DEF TypeInv, ContInv, LifeInv
<1>1. \A c \in Fiber : scope'[c] = g => scope[c] = g
  <2>1. SUFFICES ASSUME NEW c \in Fiber PROVE scope'[c] = g => scope[c] = g
    OBVIOUS
  <2>2. ASSUME NEW daemon \in BOOLEAN, UserFork(f, c, daemon) PROVE scope'[c] # g
    <3>1. scope'[c] = NoFiber \/ scope'[c] = f
      BY <1>0, <2>2 DEF UserFork, TypeOK
    <3>. QED BY <3>1, FiberAssumption
  <2>. QED BY <1>0, <2>2, WindDownSet
<1>2. ASSUME NEW daemon, UserFork(f, g, daemon) PROVE LifeOf(g)'
  <2>1. pc[f] = "op" /\ cur[f].k = "any" /\ pc[g] = "unborn" /\ pc'[g] = "out"
        /\ windDown'[g] = windDown[f]
    BY <1>0, <1>2 DEF UserFork, OpAt, At, TypeOK
  <2>2. ~windDown[f]
    BY <1>0, <2>1, NoUserEffect DEF LifeOf
  <2>3. Born(g)'
    BY <2>1 DEF Born
  <2>. QED BY <1>0, <1>1, <2>1, <2>2, <2>3, LifeBegins DEF Untouched
<1>3. CASE \A daemon : ~UserFork(f, g, daemon)
  <2>1. Stays(g)
    BY <1>0, <1>3, Elsewhere
  <2>2. windDown'[g] = windDown[g] /\ scope'[g] = scope[g]
    BY <1>0, <1>3, WindDownSet
  <2>3. Steady(g) /\ Mailed(f, g)
    BY <1>0, Called, Grows, MailedStep
  <2>4. /\ Evaluating(g)' <=> Evaluating(g)
        /\ Born(g)' <=> Born(g)
        /\ Done(g)' => Done(g)
    BY <2>1 DEF Stays, Evaluating, Born, Done
  <2>5. \A c \in Fiber : AddChild(c) \in Rng(queue[g]) => AddChild(c) \in Rng(queue'[g])
    BY <2>3 DEF Mailed
  <2>. QED BY <1>0, <1>1, <2>2, <2>3, <2>4, <2>5, LifeStays DEF Untouched
<1>. QED BY <1>2, <1>3

(* The outside world: it creates a fiber, or leaves every fiber where it is. *)
LEMMA LifeOutside ==
  ASSUME TypeInv, ContInv, LifeInv, Aged, NEW f \in Fiber, NEW g \in Fiber,
         \/ Start(f) \/ StartLater(f) \/ ExternalInterrupt(f)
         \/ \E i \in DOMAIN asyncs[f] : ExternalCallback(f, i)
  PROVE  LifeOf(g)'
<1>. USE DEF flags, history, Evaluation, family, control
<1>0. TypeOK /\ ContOf(g) /\ LifeOf(g) /\ \A h \in Fiber : ObsOf(h)
  BY DEF TypeInv, ContInv, LifeInv, LifeOf
<1>a. WindOf(g) /\ LoopOf(g) /\ ObsOf(g) /\ Family(g) /\ UnbornOf(g)
  BY <1>0 DEF LifeOf
<1>1. UNCHANGED <<windDown, scope, stack, winding, children, interruptor, exit>>
  BY DEF Start, StartLater, ExternalInterrupt, ExternalCallback
<1>2. Steady(g)
  <2>1. asyncs' = asyncs \/ \E S : Fire(S)
    BY DEF Start, StartLater, ExternalInterrupt, ExternalCallback
  <2>. QED BY <1>0, <2>1, FireGrows DEF Steady
<1>3. \A c \in Fiber : AddChild(c) \in Rng(queue[g]) => AddChild(c) \in Rng(queue'[g])
  <2>1. CASE Start(f)
    BY <2>1 DEF Start
  <2>2. CASE ~Start(f)
    <3>1. PICK msgs \in Mail : Deliver(queue, msgs)
      <4>1. InterruptSignal \in Message /\ Resume(AnyEffect) \in Message /\ AnyEffect \in Resumable
        BY MessageTypes, OutcomeTypes
      <4>2. CASE StartLater(f)
        BY <4>1, <4>2, MailTypes DEF StartLater
      <4>3. CASE ExternalInterrupt(f)
        BY <4>1, <4>3, MailTypes DEF ExternalInterrupt
      <4>4. ASSUME NEW i, ExternalCallback(f, i) PROVE \E msgs \in Mail : Deliver(queue, msgs)
        BY <4>1, <4>4, MailTypes DEF ExternalCallback
      <4>. QED BY <2>2, <4>2, <4>3, <4>4
    <3>2. Rng(queue'[g]) = Rng(queue[g]) \cup Rng(msgs[g])
      BY <1>0, <3>1, RngDeliver DEF TypeOK, Mail
    <3>. QED BY <3>2
  <2>. QED BY <2>1, <2>2
<1>4. CASE cur'[g] = cur[g] /\ (Evaluating(g)' <=> Evaluating(g)) /\ (Born(g) <=> Born(g)')
  <2>1. g # f \/ (~OpAsync(f) /\ ~ExitLater(f) /\ ~WindDownChildren(f))
    BY DEF Start, StartLater, ExternalInterrupt, ExternalCallback, OpAsync, ExitLater,
           WindDownChildren, OpAt, At
  <2>2. Done(g)' => Done(g)
    BY <1>1 DEF Done
  <2>. QED BY <1>1, <1>2, <1>3, <1>4, <2>1, <2>2, LifeStays
<1>5. CASE g = f /\ (Start(f) \/ StartLater(f))
  <2>1. pc[g] = "unborn" /\ (pc'[g] = "loop" \/ pc'[g] = "out")
    <3>1. CASE StartLater(f)
      BY <1>0, <1>5, <3>1 DEF StartLater, Goto, TypeOK
    <3>2. CASE Start(f) /\ Idle
      BY <1>0, <1>5, <3>2 DEF Start, Evaluate, Loop, Goto, TypeOK
    <3>3. CASE Start(f) /\ ~Idle
      BY <1>0, <1>5, <3>3 DEF Start, Goto, TypeOK
    <3>. QED BY <1>5, <3>1, <3>2, <3>3
  <2>2. Born(g)' /\ ~windDown'[g]
    BY <1>a, <1>1, <2>1 DEF Born, UnbornOf
  <2>. QED BY <1>1, <2>1, <2>2, LifeBegins
<1>6. CASE g # f /\ Start(f) /\ ~Idle /\ g = Head(thread)
  <2>1. pc[g] = "op" /\ cur[g].k = "any" /\ pc'[g] = "op"
    BY <1>0, <1>6 DEF Start, OpAt, At, Goto, TypeOK
  <2>2. ~windDown[g]
    BY <1>0, <1>a, <2>1, NoUserEffect
  <2>3. ~windDown'[g] /\ winding'[g] = {}
    BY <1>a, <1>1, <2>2 DEF LoopOf
  <2>4. Born(g) /\ Born(g)' /\ (~Done(g) => ~Done(g)')
    BY <1>1, <2>1 DEF Born, Done
  <2>5. Family(g)'
    BY <1>0, <1>a, <1>1, <1>3, <2>2, <2>4, FamilyKept DEF Awaited
  <2>6. ObsOf(g)'
    BY <1>a, ObsStep
  <2>. QED BY <2>3, <2>4, <2>5, <2>6 DEF LifeOf, WindOf, LoopOf, UnbornOf
<1>7. \/ cur'[g] = cur[g] /\ pc'[g] = pc[g]
      \/ g = f /\ (Start(f) \/ StartLater(f))
      \/ g # f /\ Start(f) /\ ~Idle /\ g = Head(thread)
  <2>1. CASE ExternalInterrupt(f) \/ \E i \in DOMAIN asyncs[f] : ExternalCallback(f, i)
    BY <2>1 DEF ExternalInterrupt, ExternalCallback
  <2>2. CASE StartLater(f) /\ g # f
    BY <1>0, <2>2 DEF StartLater, Goto, TypeOK
  <2>3. CASE Start(f) /\ Idle /\ g # f
    BY <1>0, <2>3 DEF Start, Evaluate, Loop, Goto, TypeOK
  <2>4. CASE Start(f) /\ ~Idle /\ g # f /\ g # Head(thread)
    BY <1>0, <2>4 DEF Start, Goto, TypeOK
  <2>. QED BY <2>1, <2>2, <2>3, <2>4
<1>8. cur'[g] = cur[g] /\ pc'[g] = pc[g] =>
        cur'[g] = cur[g] /\ (Evaluating(g)' <=> Evaluating(g)) /\ (Born(g) <=> Born(g)')
  BY DEF Evaluating, Born
<1>. QED BY <1>4, <1>5, <1>6, <1>7, <1>8

-----------------------------------------------------------------------------
(* The steps of a fiber itself.  First those that leave it where it is.      *)
LEMMA LifeDrain ==
  ASSUME TypeInv, MailboxInv, KnownInv, ContInv, LifeInv, Aged, NEW f \in Fiber,
         RunTask(f) \/ Return(f) \/ DrainDone(f) \/ DrainYield(f) \/ BeginOp(f) \/ DrainInterrupt(f)
  PROVE  LifeOf(f)'
<1>. USE DEF flags, history, Evaluation, family, control, mailbox
<1>0. TypeOK /\ (RunTask(f) \/ Step(f))
  BY DEF TypeInv, Step
<1>1. UNCHANGED <<windDown, scope, cur, stack, winding, exit>>
  BY DEF RunTask, Return, DrainDone, DrainYield, BeginOp, DrainInterrupt
<1>2. interruptor'[f] \in {interruptor[f], 0}
  BY <1>0 DEF RunTask, Return, DrainDone, DrainYield, BeginOp, DrainInterrupt, DropInterruptor, TypeOK
<1>3. Steady(f)
  <2>1. CASE DrainInterrupt(f)
    BY <1>0, <2>1, FireGrows DEF DrainInterrupt
  <2>2. CASE asyncs' = asyncs
    BY <2>2 DEF Steady
  <2>. QED BY <2>1, <2>2 DEF RunTask, Return, DrainDone, DrainYield, BeginOp
<1>4. (Evaluating(f)' <=> Evaluating(f)) /\ Born(f) /\ Born(f)'
  <2>1. CASE RunTask(f)
    <3>1. pc'[f] = "drain"
      BY <1>0, <2>1 DEF RunTask, Goto, TypeOK
    <3>2. pc[f] # "unborn"
      BY <2>1 DEF RunTask, KnownInv, KnownMail
    <3>3. ~On(f)
      BY <2>1 DEF RunTask, Idle, MailboxInv, OnThread
    <3>. QED BY <3>1, <3>2, <3>3 DEF Evaluating, Born, On
  <2>2. CASE Return(f)
    BY <1>0, <2>2 DEF Return, At, Goto, TypeOK, Evaluating, Born
  <2>3. CASE DrainDone(f) \/ DrainYield(f) \/ BeginOp(f)
    BY <1>0, <2>3 DEF DrainDone, DrainYield, BeginOp, Next1, At, Goto, TypeOK, Evaluating, Born
  <2>4. CASE DrainInterrupt(f)
    BY <2>4 DEF DrainInterrupt, Next1, At, Evaluating, Born
  <2>. QED BY <2>1, <2>2, <2>3, <2>4
<1>5. \A c \in Fiber : AddChild(c) \in Rng(queue[f]) => AddChild(c) \in Rng(queue'[f])
  <2>1. Mailed(f, f)
    BY <1>0, MailedStep
  <2>2. CASE DrainYield(f) \/ DrainInterrupt(f)
    <3>1. \A c : AddChild(c) # Head(queue[f])
      BY <2>2, SMTT(30) DEF DrainYield, DrainInterrupt, Next1, AddChild
    <3>. QED BY <2>1, <3>1 DEF Mailed
  <2>3. CASE ~(DrainYield(f) \/ DrainInterrupt(f))
    <3>1. queue' = queue
      BY <2>3 DEF RunTask, Return, DrainDone, BeginOp
    <3>. QED BY <3>1
  <2>. QED BY <2>2, <2>3
<1>6. ~OpAsync(f) /\ ~ExitLater(f) /\ ~WindDownChildren(f)
  BY <1>0 DEF RunTask, Return, DrainDone, DrainYield, BeginOp, DrainInterrupt, OpAsync, ExitLater,
              WindDownChildren, Next1, At, OpAt, Idle, Goto, TypeOK
<1>7. Done(f)' => Done(f)
  BY <1>1 DEF Done
<1>. QED BY <1>0, <1>1, <1>2, <1>3, <1>4, <1>5, <1>6, <1>7, LifeStays

(* A stateful message: a child is added unless it is done.                  *)
LEMMA LifeStateful ==
  ASSUME TypeInv, ContInv, LifeInv, Aged, NEW f \in Fiber, DrainStateful(f) \/ LoopStateful(f)
  PROVE  LifeOf(f)'
<1>. USE DEF flags, history, Evaluation, family, control, mailbox
<1>0. TypeOK /\ Step(f)
  BY DEF TypeInv, Step
<1>1. UNCHANGED <<windDown, scope, cur, stack, winding, exit, interruptor, pc>>
  BY DEF DrainStateful, LoopStateful, Stateful1, Handle
<1>2. Steady(f)
  BY <1>0, FireGrows DEF DrainStateful, LoopStateful, Stateful1, Handle
<1>3. ASSUME NEW c \in Fiber, AddChild(c) \in Rng(queue[f])
      PROVE  AddChild(c) \in Rng(queue'[f]) \/ c \in children'[f] \/ Done(c)'
  <2>1. AddChild(c) \in Rng(queue'[f]) \/ AddChild(c) = Head(queue[f])
    BY <1>0, <1>3, MailedStep DEF Mailed
  <2>2. CASE AddChild(c) = Head(queue[f])
    <3>1. PICK x : x = Head(queue[f]) /\ x.k = "addChild" /\ x.child = c
      BY <2>2 DEF AddChild
    <3>2. Handle(f, x)
      BY <3>1 DEF DrainStateful, LoopStateful, Stateful1
    <3>3. exit[c] = NotDone => c \in children'[f]
      BY <1>0, <3>1, <3>2 DEF Handle, TypeOK
    <3>. QED BY <1>1, <3>3 DEF Done
  <2>. QED BY <2>1, <2>2
<1>4. ~OpAsync(f) /\ ~ExitLater(f) /\ ~WindDownChildren(f)
  BY DEF DrainStateful, LoopStateful, Stateful1, Next1, OpAsync, ExitLater, WindDownChildren, At, OpAt
<1>5. (Done(f)' => Done(f)) /\ (Evaluating(f)' <=> Evaluating(f)) /\ (Born(f) <=> Born(f)')
  BY <1>1 DEF Done, Evaluating, Born
<1>. QED BY <1>0, <1>1, <1>2, <1>3, <1>4, <1>5, LifeStays

(* A step of the run loop: what is to show is only about a fiber that winds  *)
(* down.                                                                    *)
LEMMA LifeMoves ==
  ASSUME TypeInv, ContInv, LifeInv, Aged, NEW f \in Fiber, Step(f), Born(f),
         UNCHANGED <<windDown[f], winding[f], exit[f]>>, interruptor'[f] \in {interruptor[f], 0},
         ~OpAsync(f), ~ExitLater(f), ~WindDownChildren(f),
         \A c \in Fiber : scope'[c] = f => scope[c] = f,
         \A c \in Fiber : AddChild(c) \in Rng(queue[f]) => AddChild(c) \in Rng(queue'[f]),
         windDown[f] /\ ~Done(f) =>
           /\ Steady(f)
           /\ WindStack(stack'[f])
           /\ Evaluating(f)' => Fit(stack'[f], cur'[f])
           /\ \A x \in Rng(queue'[f]) : ~(x \in Rng(queue[f]) /\ x.k = "resume")
           /\ Refers(f)' <=> Refers(f)
           /\ winding[f] # {} => \/ Evaluating(f)' /\ cur'[f] = Wind
                                 \/ \E r \in Rng(stack'[f]) : IsLoop(r)
  PROVE  LifeOf(f)'
<1>0. TypeOK /\ ContOf(f) /\ LifeOf(f) /\ \A h \in Fiber : ObsOf(h)
  BY DEF TypeInv, ContInv, LifeInv, LifeOf
<1>1. WindOf(f) /\ LoopOf(f) /\ ObsOf(f) /\ Family(f) /\ UnbornOf(f)
  BY <1>0 DEF LifeOf
<1>2. Mailed(f, f) /\ Grown(f) /\ Born(f)' /\ Done(f)' = Done(f)
  BY <1>0, MailedStep, Called, Grows DEF Aged, Born, Done
<1>3. WindOf(f)'
  <2>. SUFFICES ASSUME windDown[f], ~Done(f)
                 PROVE  /\ interruptor'[f] = 0
                        /\ \A x \in Rng(queue'[f]) : x.k = "resume" => Brings(stack'[f], x.eff)
                        /\ Refers(f)' \/ ~NoneArmed(asyncs'[f])
                             => asyncs'[f] # <<>> /\ Last(f)'.of # NoFiber
    BY <1>2 DEF WindOf
  <2>2. interruptor'[f] = 0
    BY <1>1 DEF WindOf
  <2>3. ASSUME NEW x \in Rng(queue'[f]), x.k = "resume" PROVE Brings(stack'[f], x.eff)
    <3>1. Fresh(f, f, x)
      BY <1>2, <2>3 DEF Mailed
    <3>2. x.eff = Succ
      BY <1>0, <1>1, <2>3, <3>1, FreshWind
    <3>. QED BY <3>2, OutcomeTypes DEF Brings
  <2>4. ASSUME Refers(f)' \/ ~NoneArmed(asyncs'[f])
        PROVE  asyncs'[f] # <<>> /\ Last(f)'.of # NoFiber
    <3>1. asyncs[f] # <<>> /\ Last(f).of # NoFiber
      BY <1>1, <2>4 DEF Steady, WindOf
    <3>2. Len(asyncs[f]) \in DOMAIN asyncs[f] /\ Len(asyncs'[f]) = Len(asyncs[f])
          /\ Len(asyncs[f]) # 0
      BY <1>0, <3>1 DEF Steady, TypeOK
    <3>3. asyncs'[f][Len(asyncs'[f])].of = asyncs[f][Len(asyncs[f])].of
      BY <1>2, <3>2 DEF Grown
    <3>. QED BY <3>1, <3>2, <3>3 DEF Last
  <2>. QED BY <2>2, <2>3, <2>4
<1>4. LoopOf(f)'
  <2>1. ASSUME winding[f] # {} PROVE windDown[f] /\ ~Done(f)
    <3>1. ~Evaluating(f) => stack[f] # <<>>
      BY <1>1, <2>1, RngShort DEF LoopOf
    <3>. QED BY <1>0, <1>1, <2>1, <3>1, Evaluates DEF LoopOf, ContOf
  <2>. QED BY <2>1 DEF LoopOf
<1>5. ObsOf(f)'
  BY <1>1, ObsStep
<1>6. \A c \in children[f] : c \in children'[f] \/ Done(c)'
  BY ChildrenKept
<1>7. ASSUME NEW c \in Fiber, Awaited(f, c), ~Done(f), ~Done(c)' PROVE Awaited(f, c)'
  <2>1. windDown[f]
    BY <1>7 DEF Awaited
  <2>2. Len(asyncs'[f]) = Len(asyncs[f]) /\ (Refers(f) => Refers(f)')
    BY <1>7, <2>1 DEF Steady
  <2>. QED BY <1>0, <1>1, <1>7, <2>2, AwaitedKept
<1>8. Family(f)'
  BY <1>0, <1>1, <1>2, <1>6, <1>7, FamilyKept
<1>9. UnbornOf(f)'
  BY <1>2 DEF UnbornOf
<1>. QED BY <1>3, <1>4, <1>5, <1>8, <1>9 DEF LifeOf

(* A step of a fiber that runs before and touches no callback.              *)
LEMMA LifeRuns ==
  ASSUME TypeInv, ContInv, LifeInv, Aged, NEW f \in Fiber, Step(f), Evaluating(f),
         UNCHANGED <<asyncs[f], windDown[f], winding[f], exit[f], interruptor[f], scope>>,
         ~OpAsync(f), ~ExitLater(f), ~WindDownChildren(f),
         \A c \in Fiber : AddChild(c) \in Rng(queue[f]) => AddChild(c) \in Rng(queue'[f]),
         windDown[f] =>
           /\ WindStack(stack'[f])
           /\ Evaluating(f)' => Fit(stack'[f], cur'[f])
           /\ Refers(f)' <=> Refers(f)
           /\ cur[f] = Wind \/ (\E r \in Rng(stack[f]) : IsLoop(r))
                => \/ Evaluating(f)' /\ cur'[f] = Wind
                   \/ \E r \in Rng(stack'[f]) : IsLoop(r)
  PROVE  LifeOf(f)'
<1>1. Born(f) /\ NoResume(queue[f]) /\ LoopOf(f)
  BY Evaluates DEF ContInv, Evaluating, Born, LifeInv, LifeOf
<1>2. \A x \in Rng(queue'[f]) : ~(x \in Rng(queue[f]) /\ x.k = "resume")
  BY <1>1 DEF NoResume, Rng
<1>3. Steady(f)
  BY DEF Steady
<1>4. windDown[f] /\ winding[f] # {} => \/ Evaluating(f)' /\ cur'[f] = Wind
                                        \/ \E r \in Rng(stack'[f]) : IsLoop(r)
  BY <1>1 DEF LoopOf
<1>. QED BY <1>1, <1>2, <1>3, <1>4, LifeMoves

(* A continuation is pushed.                                                *)
LEMMA LifePushes ==
  ASSUME TypeInv, ContInv, LifeInv, Aged, NEW f \in Fiber, Step(f), Evaluating(f),
         UNCHANGED <<asyncs[f], windDown[f], winding[f], exit[f], interruptor[f], scope, queue>>,
         ~OpAsync(f), ~ExitLater(f), ~WindDownChildren(f),
         windDown[f] => pc'[f] \in {"loop", "op"} /\ \E r \in Frame :
           /\ stack'[f] = <<r>> \o stack[f]
           /\ IF stack[f] = <<>> THEN LastFrame(r) ELSE WindFrame(r)
           /\ WindEffect(cur'[f])
           /\ Refs(cur'[f]) # {} \/ Pending(r) <=> Refs(cur[f]) # {}
           /\ cur[f] = Wind => IsLoop(r)
  PROVE  LifeOf(f)'
<1>1. stack[f] \in Seq(Frame) /\ WindOf(f) /\ ~Done(f)
  BY Evaluates DEF TypeInv, TypeOK, LifeInv, LifeOf, ContInv
<1>2. ASSUME windDown[f]
      PROVE  /\ WindStack(stack'[f])
             /\ Evaluating(f)' => Fit(stack'[f], cur'[f])
             /\ Refers(f)' <=> Refers(f)
             /\ cur[f] = Wind \/ (\E r \in Rng(stack[f]) : IsLoop(r))
                  => \E r \in Rng(stack'[f]) : IsLoop(r)
  <2>1. PICK r \in Frame :
           /\ stack'[f] = <<r>> \o stack[f]
           /\ IF stack[f] = <<>> THEN LastFrame(r) ELSE WindFrame(r)
           /\ WindEffect(cur'[f])
           /\ Refs(cur'[f]) # {} \/ Pending(r) <=> Refs(cur[f]) # {}
           /\ cur[f] = Wind => IsLoop(r)
    BY <1>2
  <2>2. WindStack(stack[f])
    BY <1>1, <1>2 DEF WindOf
  <2>3. /\ WindStack(stack'[f]) /\ stack'[f] # <<>>
        /\ Clean(stack'[f]) <=> Clean(stack[f]) /\ ~Pending(r)
    BY <1>1, <2>1, <2>2, WindPush
  <2>4. Rng(stack'[f]) = {r} \cup Rng(stack[f])
    BY <1>1, <2>1, RngParts
  <2>5. Evaluating(f)'
    BY <1>2 DEF Evaluating
  <2>6. Refers(f)' <=> Refers(f)
    BY <2>1, <2>3, <2>5 DEF Refers
  <2>. QED BY <2>1, <2>3, <2>4, <2>6 DEF Fit
<1>. QED BY <1>2, LifeRuns

(* The next continuation is taken.                                          *)
LEMMA LifePops ==
  ASSUME TypeInv, ContInv, LifeInv, Aged, NEW f \in Fiber, Step(f), Evaluating(f),
         UNCHANGED <<asyncs[f], windDown[f], winding[f], exit[f], interruptor[f], scope>>,
         ~OpAsync(f), ~ExitLater(f), ~WindDownChildren(f),
         \A c \in Fiber : AddChild(c) \in Rng(queue[f]) => AddChild(c) \in Rng(queue'[f]),
         stack[f] # <<>>,
         windDown[f] =>
           /\ pc'[f] \in {"loop", "op"} /\ stack'[f] = Tail(stack[f])
           /\ Fit(Tail(stack[f]), cur'[f])
           /\ Refs(cur'[f]) # {} <=> Refs(cur[f]) # {} \/ Pending(Top(f))
           /\ cur[f] = Wind \/ IsLoop(Top(f)) => cur'[f] = Wind
  PROVE  LifeOf(f)'
<1>1. stack[f] \in Seq(Frame) /\ WindOf(f) /\ ~Done(f)
  BY Evaluates DEF TypeInv, TypeOK, LifeInv, LifeOf, ContInv
<1>2. ASSUME windDown[f]
      PROVE  /\ WindStack(stack'[f])
             /\ Evaluating(f)' => Fit(stack'[f], cur'[f])
             /\ Refers(f)' <=> Refers(f)
             /\ cur[f] = Wind \/ (\E r \in Rng(stack[f]) : IsLoop(r))
                  => \/ Evaluating(f)' /\ cur'[f] = Wind
                     \/ \E r \in Rng(stack'[f]) : IsLoop(r)
  <2>1. WindStack(stack[f])
    BY <1>1, <1>2 DEF WindOf
  <2>2. /\ WindStack(stack'[f])
        /\ Clean(stack[f]) <=> Clean(stack'[f]) /\ ~Pending(Top(f))
    BY <1>1, <1>2, <2>1, WindPop DEF Top
  <2>3. Rng(stack[f]) = {Top(f)} \cup Rng(stack'[f])
    BY <1>1, <1>2, RngParts DEF Top
  <2>4. Evaluating(f)'
    BY <1>2 DEF Evaluating
  <2>5. Refers(f)' <=> Refers(f)
    BY <1>2, <2>2, <2>4 DEF Refers
  <2>. QED BY <1>2, <2>2, <2>3, <2>4, <2>5
<1>. QED BY <1>2, LifeRuns

(* A resume message is taken.                                               *)
LEMMA LifeResume ==
  ASSUME TypeInv, ContInv, LifeInv, Aged, NEW f \in Fiber, DrainResume(f)
  PROVE  LifeOf(f)'
<1>. USE DEF flags, history, Evaluation, family, control, mailbox
<1>0. TypeOK /\ Step(f) /\ ContOf(f) /\ LifeOf(f)
  BY DEF TypeInv, Step, ContInv, LifeInv
<1>1. /\ UNCHANGED <<windDown, scope, stack, winding, exit, asyncs>>
      /\ interruptor'[f] = 0 /\ pc[f] = "drain" /\ pc'[f] = "loop"
      /\ queue[f] # <<>> /\ Head(queue[f]).k = "resume" /\ queue'[f] = Tail(queue[f])
      /\ cur'[f] = IF MustStop(f) THEN InterruptCause ELSE Head(queue[f]).eff
  BY <1>0 DEF DrainResume, Next1, At, Evaluate, Loop, Goto, DropInterruptor, Popped, TypeOK
<1>2. queue[f] \in Seq(Message) /\ Head(queue[f]) \in Message
  BY <1>0, <1>1, PoppedType DEF TypeOK
<1>3. Rng(queue[f]) = {Head(queue[f])} \cup Rng(Tail(queue[f]))
  BY <1>1, <1>2, RngParts
<1>4. NoResume(Tail(queue[f])) /\ ~Done(f)
  <2>1. OneResume(queue[f], May(f)) \/ NoResume(queue[f])
    BY <1>0 DEF ContOf, Runs, Resumes, Awaits, Absent
  <2>2. ~NoResume(queue[f])
    BY <1>1, <1>2, ResumeTail
  <2>3. Resumes(f)
    BY <1>0, <2>2 DEF ContOf, Runs, Awaits, Absent
  <2>. QED BY <1>1, <1>2, <2>3, ResumeTail DEF Resumes
<1>5. Head(queue[f]).eff \in Resumable /\ Refs(Head(queue[f]).eff) = {}
  <2>1. Head(queue[f]).eff \in Resumable
    BY <1>1, <1>2, MessageFields
  <2>2. Head(queue[f]).eff.k \in {"any", "succ", "fail"}
    BY <2>1 DEF Resumable, Outcome, AnyEffect, Succ, Failed
  <2>. QED BY <2>1, <2>2, PassiveKinds
<1>6. \A c \in Fiber : AddChild(c) \in Rng(queue[f]) => AddChild(c) \in Rng(queue'[f])
  BY <1>1, <1>3 DEF AddChild
<1>7. \A x \in Rng(queue'[f]) : x.k # "resume"
  BY <1>1, <1>4 DEF NoResume, Rng
<1>8. ASSUME windDown[f]
      PROVE  /\ WindStack(stack'[f]) /\ Fit(stack'[f], cur'[f])
             /\ Refers(f)' <=> Refers(f)
             /\ winding[f] # {} => \E r \in Rng(stack'[f]) : IsLoop(r)
  <2>1. WindOf(f) /\ LoopOf(f) /\ ~MustStop(f)
    BY <1>0, <1>8 DEF LifeOf, MustStop, Interruptible
  <2>2. WindStack(stack[f]) /\ Brings(stack[f], Head(queue[f]).eff)
    BY <1>1, <1>3, <1>4, <1>8, <2>1 DEF WindOf
  <2>3. Fit(stack[f], cur'[f])
    BY <1>1, <2>1, <2>2 DEF Fit, Brings, WindEffect, Succ
  <2>4. ~Evaluating(f)
    BY <1>1 DEF Evaluating
  <2>5. Refers(f)' <=> Refers(f)
    BY <1>1, <1>5, <2>1, <2>4 DEF Refers
  <2>. QED BY <1>1, <2>1, <2>2, <2>3, <2>4, <2>5 DEF LoopOf
<1>9. /\ ~OpAsync(f) /\ ~ExitLater(f) /\ ~WindDownChildren(f) /\ Born(f) /\ Steady(f)
      /\ scope' = scope
  BY <1>1 DEF OpAsync, ExitLater, WindDownChildren, At, OpAt, Born, Steady
<1>. QED BY <1>0, <1>1, <1>6, <1>7, <1>8, <1>9, LifeMoves

(* The run loop: an interrupt changes nothing any more; the yield of a       *)
(* preemption comes back to the effect.                                     *)
LEMMA LifeLoop ==
  ASSUME TypeInv, ContInv, LifeInv, Aged, NEW f \in Fiber, LoopInterrupt(f) \/ Preempt(f)
  PROVE  LifeOf(f)'
<1>. USE DEF flags, history, Evaluation, family, control, mailbox
<1>0. TypeOK /\ Step(f) /\ ContOf(f) /\ LifeOf(f)
  BY DEF TypeInv, Step, ContInv, LifeInv
<1>1. /\ pc[f] = "loop" /\ Evaluating(f)
      /\ ~OpAsync(f) /\ ~ExitLater(f) /\ ~WindDownChildren(f)
      /\ UNCHANGED <<asyncs, windDown, winding, exit, interruptor, scope>>
  BY DEF LoopInterrupt, Preempt, Next1, At, OpAt, OpAsync, ExitLater, WindDownChildren, Evaluating
<1>2. windDown[f] => WindStack(stack[f]) /\ Fit(stack[f], cur[f]) /\ ~MustStop(f) /\ ~Interruptible(f)
  BY <1>0, <1>1, Evaluates DEF LifeOf, WindOf, MustStop, Interruptible
<1>3. CASE LoopInterrupt(f)
  <2>1. stack' = stack /\ pc' = pc /\ (windDown[f] => cur'[f] = cur[f])
    BY <1>0, <1>2, <1>3 DEF LoopInterrupt, TypeOK
  <2>2. \A c \in Fiber : AddChild(c) \in Rng(queue[f]) => AddChild(c) \in Rng(queue'[f])
    <3>1. \A c : AddChild(c) # Head(queue[f])
      BY <1>3 DEF LoopInterrupt, Next1, AddChild
    <3>. QED BY <1>0, <3>1, MailedStep DEF Mailed
  <2>3. windDown[f] => (Refers(f)' <=> Refers(f)) /\ (Evaluating(f)' <=> Evaluating(f))
    BY <2>1 DEF Refers, Evaluating
  <2>. QED BY <1>0, <1>1, <1>2, <2>1, <2>2, <2>3, LifeRuns
<1>4. CASE Preempt(f)
  <2>1. /\ stack'[f] = <<Cont(cur[f])>> \o stack[f] /\ pc'[f] = "op" /\ queue' = queue
        /\ cur'[f] = IF MustStop(f) THEN InterruptCause ELSE Yield
    BY <1>0, <1>4 DEF Preempt, Push, Goto, TypeOK
  <2>2. PICK r \in Frame : r = Cont(cur[f])
    BY <1>0, FrameTypes DEF TypeOK
  <2>3. windDown[f] => /\ IF stack[f] = <<>> THEN LastFrame(r) ELSE WindFrame(r)
                       /\ WindEffect(cur'[f])
    BY <1>2, <2>1, <2>2 DEF Fit, LastFrame, WindFrame, Cont, WindEffect, Yield
  <2>4. windDown[f] => (Refs(cur'[f]) # {} \/ Pending(r) <=> Refs(cur[f]) # {})
    <3>1. Refs(Yield) = {}
      BY PassiveKinds DEF Yield
    <3>. QED BY <1>2, <2>1, <2>2, <3>1 DEF Pending, Cont
  <2>5. cur[f] = Wind => IsLoop(r)
    BY <2>2 DEF IsLoop, Cont
  <2>. QED BY <1>0, <1>1, <2>1, <2>2, <2>3, <2>4, <2>5, LifePushes
<1>. QED BY <1>3, <1>4

(* The program of a fiber runs only before it winds down.  A fork leaves the *)
(* message that makes the new fiber its child.                              *)
LEMMA LifeForks ==
  ASSUME TypeInv, ContInv, LifeInv, Aged, NEW f \in Fiber, NEW d \in Fiber, NEW daemon \in BOOLEAN,
         UserFork(f, d, daemon), Step(f), ~windDown[f]
  PROVE  LifeOf(f)'
<1>. USE DEF family
<1>0. TypeOK /\ LifeOf(f) /\ ContOf(f)
  BY DEF TypeInv, LifeInv, ContInv
<1>1. /\ pc[f] = "op" /\ pc[d] = "unborn" /\ f # d /\ pc'[f] = "loop"
      /\ UNCHANGED <<children, winding, exit>> /\ windDown'[f] = windDown[f]
      /\ \A c \in Fiber : c # d => scope'[c] = scope[c]
      /\ scope'[d] = IF daemon THEN NoFiber ELSE f
      /\ queue'[f] = queue[f] \o IF daemon THEN <<>> ELSE <<AddChild(d)>>
  BY <1>0 DEF UserFork, OpAt, At, Deliver, TypeOK
<1>2. Born(f) /\ Born(f)' /\ ~Done(f) /\ ~Done(f)' /\ winding'[f] = {}
  BY <1>0, <1>1, Evaluates DEF Born, Evaluating, Done, LifeOf, LoopOf
<1>3. ASSUME NEW c \in Fiber, scope'[c] = f, ~Done(c)'
      PROVE  c \in children'[f] \/ AddChild(c) \in Rng(queue'[f])
  <2>1. CASE c # d
    <3>1. scope[c] = f /\ ~Done(c)
      BY <1>1, <1>3, <2>1 DEF Done
    <3>2. c \in children[f] \/ AddChild(c) \in Rng(queue[f])
      BY <1>0, <1>1, <1>2, <3>1 DEF LifeOf, Family, Awaited
    <3>3. AddChild(c) \in Rng(queue[f]) => AddChild(c) \in Rng(queue'[f])
      BY <1>1, MailedStep DEF Mailed, Takes
    <3>. QED BY <1>1, <3>2, <3>3
  <2>2. CASE c = d
    <3>1. ~daemon /\ queue[f] \in Seq(Message) /\ <<AddChild(d)>> \in Seq(Message)
      BY <1>0, <1>1, <1>3, <2>2, FiberAssumption, MessageTypes DEF TypeOK
    <3>2. PICK t \in Seq(Message) : t = <<AddChild(d)>>
      BY <3>1
    <3>3. queue'[f] = queue[f] \o t
      BY <1>1, <3>1, <3>2
    <3>4. Rng(queue'[f]) = Rng(queue[f]) \cup Rng(t)
      BY <3>1, <3>3, RngParts
    <3>. QED BY <2>2, <3>2, <3>4, RngShort
  <2>. QED BY <2>1, <2>2
<1>4. ObsOf(f)'
  BY <1>0, ObsStep DEF LifeOf
<1>. QED BY <1>1, <1>2, <1>3, <1>4 DEF LifeOf, WindOf, LoopOf, Family, UnbornOf

(* A user operation keeps LifeOf of the fiber that takes it: a fork adds     *)
(* the child it accounts for.                                                *)
LEMMA LifeUser ==
  ASSUME TypeInv, ContInv, LifeInv, Aged, NEW f \in Fiber, UserOp(f)
  PROVE  LifeOf(f)'
<1>. USE DEF flags, history, Evaluation, family, control, mailbox
<1>0. TypeOK /\ Step(f) /\ ContOf(f) /\ LifeOf(f)
  BY DEF TypeInv, Step, ContInv, LifeInv
<1>1. pc[f] = "op" /\ cur[f].k = "any"
  BY DEF UserOp, UserSucceed, UserFail, UserOnExit, UserYield, UserFrame, UserFlags, UserAsync,
         UserAwait, UserInterrupt, UserFork, UserCallback, OpAt, At
<1>2. ~windDown[f]
  BY <1>0, <1>1, NoUserEffect DEF LifeOf
<1>3. CASE \E d \in Fiber, daemon \in BOOLEAN : UserFork(f, d, daemon)
  BY <1>0, <1>2, <1>3, LifeForks
<1>4. ASSUME NEW kind, NEW to, NEW st, NEW h, NEW i,
             \/ UserSucceed(f) \/ UserFail(f) \/ UserOnExit(f) \/ UserYield(f)
             \/ UserFrame(f, kind) \/ UserFlags(f, to) \/ UserAsync(f, st) \/ UserAwait(f, h)
             \/ UserInterrupt(f, h) \/ UserCallback(f, h, i)
      PROVE  UNCHANGED <<windDown, winding, exit, interruptor, scope>>
  BY <1>4 DEF UserSucceed, UserFail, UserOnExit, UserYield, UserFrame, UserFlags, UserAsync,
              UserAwait, UserInterrupt, UserCallback, Pure
<1>5. CASE UNCHANGED <<windDown, winding, exit, interruptor, scope>>
  <2>1. \A c \in Fiber : AddChild(c) \in Rng(queue[f]) => AddChild(c) \in Rng(queue'[f])
    BY <1>0, <1>1, MailedStep DEF Mailed, Takes
  <2>2. ~OpAsync(f) /\ ~ExitLater(f) /\ ~WindDownChildren(f) /\ Born(f)
    BY <1>1 DEF OpAsync, ExitLater, WindDownChildren, At, OpAt, Born
  <2>. QED BY <1>0, <1>2, <1>5, <2>1, <2>2, LifeMoves
<1>. QED BY <1>3, <1>4, <1>5 DEF UserOp

(* The primitives of an await's bracket.                                    *)
LEMMA LifeBracket ==
  ASSUME TypeInv, ContInv, LifeInv, Aged, NEW f \in Fiber, OpOnExit(f) \/ OpGuard(f) \/ OpRestore(f)
  PROVE  LifeOf(f)'
<1>. USE DEF flags, history, Evaluation, family, control, mailbox
<1>0. TypeOK /\ Step(f) /\ ContOf(f) /\ LifeOf(f) /\ cur[f] \in Effect /\ stack[f] \in Seq(Frame)
  BY DEF TypeInv, Step, ContInv, LifeInv, Primitive, TypeOK
<1>1. /\ pc[f] = "op" /\ Evaluating(f) /\ cur[f].k \in {"onExit", "guard", "restore"}
      /\ ~OpAsync(f) /\ ~ExitLater(f) /\ ~WindDownChildren(f)
      /\ UNCHANGED <<queue, asyncs, windDown, winding, exit, interruptor, scope>>
  BY DEF OpOnExit, OpGuard, OpRestore, Pure, At, OpAt, OpAsync, ExitLater, WindDownChildren, Evaluating
<1>2. ASSUME windDown[f]
      PROVE  pc'[f] \in {"loop", "op"} /\ \E r \in Frame :
             /\ stack'[f] = <<r>> \o stack[f]
             /\ IF stack[f] = <<>> THEN LastFrame(r) ELSE WindFrame(r)
             /\ WindEffect(cur'[f])
             /\ Refs(cur'[f]) # {} \/ Pending(r) <=> Refs(cur[f]) # {}
             /\ cur[f] = Wind => IsLoop(r)
  <2>1. WindOf(f) /\ Fit(stack[f], cur[f])
    BY <1>0, <1>1, <1>2, Evaluates DEF LifeOf, WindOf
  <2>2. stack[f] # <<>> /\ WindEffect(cur[f])
    BY <1>1, <2>1 DEF Fit, Outcome, Succ, Failed
  <2>3. PICK job \in Job : job = cur[f].job /\ job # UserJob
    BY <1>0, <1>1, <2>2, EffectFields DEF WindEffect
  <2>4. PICK to \in BOOLEAN : to = interruption[f]
    BY <1>0 DEF TypeOK
  <2>5. \E r \in Frame : r.k # "cont" /\ WindFrame(r) /\ stack'[f] = <<r>> \o stack[f]
    <3>1. Revert(to) \in Frame /\ Final(job) \in Frame
      BY FrameTypes
    <3>2. WindFrame(Revert(to)) /\ Revert(to).k # "cont" /\ WindFrame(Final(job)) /\ Final(job).k # "cont"
      BY <2>3 DEF WindFrame, Revert, Final
    <3>3. stack'[f] = <<Revert(to)>> \o stack[f] \/ stack'[f] = <<Final(job)>> \o stack[f]
      BY <1>0, <1>2, <2>3, <2>4 DEF OpOnExit, OpGuard, OpRestore, UpdateFlags, Push, TypeOK
    <3>. QED BY <3>1, <3>2, <3>3
  <2>6. /\ pc'[f] = "loop"
        /\ \/ cur'[f] = Guard(job, to)
           \/ cur'[f] = Restore(job, cur[f].to)
           \/ cur'[f] = Async(job.i)
    BY <1>0, <1>2, <2>3, <2>4 DEF OpOnExit, OpGuard, OpRestore, UpdateFlags, Loop, Goto, Body, TypeOK
  <2>7. WindEffect(cur'[f]) /\ Refs(cur'[f]) # {}
    <3>1. CASE cur'[f] = Guard(job, to)
      BY <2>3, <3>1 DEF Guard, WindEffect, Refs
    <3>2. CASE cur'[f] = Restore(job, cur[f].to)
      BY <2>3, <3>2 DEF Restore, WindEffect, Refs
    <3>3. CASE cur'[f] = Async(job.i)
      BY <2>3, <3>3 DEF Async, WindEffect, Refs
    <3>. QED BY <2>6, <3>1, <3>2, <3>3
  <2>8. Refs(cur[f]) # {} /\ cur[f] # Wind
    BY <1>1, <2>3 DEF Refs, Wind
  <2>. QED BY <2>2, <2>5, <2>6, <2>7, <2>8 DEF Pending
<1>. QED BY <1>0, <1>1, <1>2, LifePushes

(* A fiber that yielded is resumed with the unit.                           *)
LEMMA LifeYield ==
  ASSUME TypeInv, ContInv, LifeInv, Aged, NEW f \in Fiber, OpYield(f)
  PROVE  LifeOf(f)'
<1>. USE DEF flags, history, Evaluation, family, control, mailbox
<1>0. TypeOK /\ Step(f) /\ ContOf(f) /\ LifeOf(f)
  BY DEF TypeInv, Step, ContInv, LifeInv, Primitive
<1>1. /\ pc[f] = "op" /\ Evaluating(f) /\ cur[f].k = "yield"
      /\ ~OpAsync(f) /\ ~ExitLater(f) /\ ~WindDownChildren(f)
      /\ UNCHANGED <<asyncs, windDown, winding, exit, interruptor, scope, stack>>
  BY DEF OpYield, At, OpAt, OpAsync, ExitLater, WindDownChildren, Evaluating
<1>2. \A c \in Fiber : AddChild(c) \in Rng(queue[f]) => AddChild(c) \in Rng(queue'[f])
  BY <1>0, <1>1, MailedStep DEF Mailed, Takes
<1>3. Refs(cur[f]) = {} /\ cur[f] # Wind /\ Refs(Succ) = {} /\ WindEffect(Succ)
  BY <1>1, PassiveKinds DEF Wind, WindEffect, Succ
<1>4. \/ pc'[f] = "leave" /\ cur' = cur
      \/ pc'[f] = "loop" /\ cur'[f] = Succ
  BY <1>0 DEF OpYield, Loop, Goto, TypeOK
<1>5. windDown[f] => WindStack(stack[f]) /\ stack[f] # <<>>
  <2>1. cur[f] \notin Outcome
    BY <1>1 DEF Outcome, Succ, Failed
  <2>. QED BY <1>0, <1>1, <2>1, Evaluates DEF LifeOf, WindOf, Fit
<1>6. Refers(f)' <=> Refers(f)
  BY <1>1, <1>3, <1>4 DEF Refers
<1>7. windDown[f] /\ Evaluating(f)' => Fit(stack'[f], cur'[f])
  BY <1>1, <1>3, <1>4, <1>5 DEF Fit, Evaluating
<1>. QED BY <1>0, <1>1, <1>2, <1>3, <1>5, <1>6, <1>7, LifeRuns

(* What an arming or a registration does to the last callback.              *)
LEMMA LastOf ==
  ASSUME TypeOK, NEW f \in Fiber, NEW a, asyncs' = [asyncs EXCEPT ![f] = Append(@, a)]
  PROVE  Last(f)' = a /\ asyncs'[f] # <<>>
<1>1. asyncs'[f] = Append(asyncs[f], a) /\ asyncs[f] \in Seq(AsyncState)
  BY DEF TypeOK
<1>2. \A s \in Seq(AsyncState) : Append(s, a)[Len(Append(s, a))] = a /\ Append(s, a) # <<>>
  OBVIOUS
<1>. QED BY <1>1, <1>2 DEF Last

(* When no operation is armed the last one is not.                           *)
LEMMA LastArm ==
  ASSUME TypeOK, NEW f \in Fiber, NoneArmed(asyncs[f]), asyncs[f] # <<>>
  PROVE  Last(f).st # "armed"
<1>1. DOMAIN asyncs[f] = 1..Len(asyncs[f]) /\ (asyncs[f] # <<>> => Len(asyncs[f]) > 0)
      /\ Len(asyncs[f]) \in Nat
  BY DEF TypeOK
<1>. QED BY <1>1 DEF NoneArmed, Last

(* OP_ASYNC: the wait that was registered is armed, or answered at once.     *)
LEMMA LifeAsync ==
  ASSUME TypeInv, ContInv, LifeInv, Aged, NEW f \in Fiber, OpAsync(f)
  PROVE  LifeOf(f)'
<1>. USE DEF flags, history, Evaluation, family, control, mailbox
<1>0. TypeOK /\ Step(f) /\ ContOf(f) /\ LifeOf(f) /\ (\A h \in Fiber : ObsOf(h))
  BY DEF TypeInv, Step, ContInv, LifeInv, Primitive, LifeOf
<1>1. /\ pc[f] = "op" /\ Evaluating(f) /\ cur[f].k = "async" /\ pc'[f] = "leave" /\ ~Evaluating(f)'
      /\ UNCHANGED <<windDown, winding, exit, scope, stack, cur, children>>
  BY <1>0 DEF OpAsync, At, OpAt, Goto, Evaluating, TypeOK
<1>2. /\ Refs(cur[f]) = {cur[f].i} /\ cur[f].i = Len(asyncs[f]) /\ Len(asyncs[f]) > 0
      /\ Clean(stack[f]) /\ ~Done(f) /\ NoResume(queue[f]) /\ NoneArmed(asyncs[f])
      /\ interruptor[f] = 0
  <2>1. Refs(cur[f]) = {cur[f].i} /\ cur[f] \notin Passive
    BY <1>1, PassiveKinds DEF Refs
  <2>. QED BY <1>0, <1>1, <2>1, Evaluates DEF Current
<1>3. PICK i \in DOMAIN asyncs[f] : i = Len(asyncs[f]) /\ i = cur[f].i
  BY <1>0, <1>2 DEF TypeOK
<1>4. /\ Len(asyncs'[f]) = Len(asyncs[f])
      /\ asyncs'[f][i].of = asyncs[f][i].of
      /\ asyncs'[f][i].st = IF asyncs[f][i].st = "pending" THEN "called" ELSE "armed"
  <2>1. asyncs[f] \in Seq(AsyncState) /\ asyncs[f][i] \in AsyncState
    BY <1>0 DEF TypeOK
  <2>2. asyncs'[f] = [asyncs[f] EXCEPT ![i].st =
                        IF asyncs[f][i].st = "pending" THEN "called" ELSE "armed"]
    BY <1>0, <1>3 DEF OpAsync, TypeOK
  <2>. QED BY <2>1, <2>2 DEF AsyncState
<1>5. Last(f) = asyncs[f][i] /\ Last(f)' = asyncs'[f][i] /\ asyncs[f] # <<>> /\ asyncs'[f] # <<>>
  BY <1>2, <1>3, <1>4 DEF Last
<1>6. Mailed(f, f)
  BY <1>0, MailedStep
<1>7. ASSUME windDown[f]
      PROVE  /\ interruptor'[f] = 0 /\ WindStack(stack[f]) /\ stack[f] # <<>> /\ Last(f).of # NoFiber
             /\ \A x \in Rng(queue'[f]) : x.k = "resume" => x.eff = Succ
  <2>1. WindOf(f) /\ Refers(f)
    BY <1>0, <1>1, <1>2 DEF LifeOf, Refers
  <2>2. cur[f] \notin Outcome /\ WindStack(stack[f]) /\ Fit(stack[f], cur[f]) /\ Last(f).of # NoFiber
    BY <1>1, <1>2, <1>7, <2>1 DEF Outcome, Succ, Failed, WindOf
  <2>3. interruptor'[f] = 0
    BY <1>0, <1>2, <1>7 DEF OpAsync, NewInterruptor, Interruptible, TypeOK
  <2>4. ASSUME NEW x \in Rng(queue'[f]), x.k = "resume" PROVE x.eff = Succ
    <3>1. Fresh(f, f, x)
      BY <1>2, <1>6, <2>4 DEF Mailed, NoResume, Rng
    <3>2. ~ExitLater(f) /\ asyncs[f][cur[f].i].of # NoFiber /\ Born(f)
      BY <1>1, <1>3, <1>5, <2>2 DEF ExitLater, At, Born
    <3>3. ~\E j : Armed(f, j)
      BY <1>2 DEF Armed, NoneArmed
    <3>. QED BY <1>2, <2>4, <3>1, <3>2, <3>3 DEF Fresh
  <2>. QED BY <2>2, <2>3, <2>4 DEF Fit
<1>8. WindOf(f)'
  BY <1>1, <1>4, <1>5, <1>7, OutcomeTypes DEF WindOf, Brings
<1>9. LoopOf(f)'
  BY <1>0, <1>1 DEF LifeOf, LoopOf, Wind
<1>10. ObsOf(f)'
  BY <1>0, ObsStep
<1>11. ASSUME NEW c \in Fiber, Awaited(f, c), ~Done(c)' PROVE Awaited(f, c)'
  <2>1. windDown[f] /\ Last(f).of = c /\ Last(f).st = "registered"
    BY <1>2, <1>3, <1>5, <1>11 DEF Awaited, NoneArmed
  <2>. QED BY <1>1, <1>4, <1>5, <2>1 DEF Awaited
<1>12. Family(f)'
  <2>1. \A c \in Fiber : AddChild(c) \in Rng(queue[f]) => AddChild(c) \in Rng(queue'[f])
    BY <1>1, <1>6 DEF Mailed, Takes
  <2>2. Born(f) /\ Born(f)' /\ ~Done(f)' /\ WindOf(f) /\ Family(f)
    BY <1>0, <1>1, <1>2 DEF Born, Done, LifeOf
  <2>. QED BY <1>0, <1>1, <1>11, <2>1, <2>2, FamilyKept
<1>13. UnbornOf(f)'
  BY <1>1 DEF UnbornOf, Born
<1>. QED BY <1>8, <1>9, <1>10, <1>12, <1>13 DEF LifeOf

(* The loop over the children: the next one is awaited, or it is over.       *)
LEMMA LifeWind ==
  ASSUME TypeInv, ContInv, LifeInv, Aged, NEW f \in Fiber, OpWind(f)
  PROVE  LifeOf(f)'
<1>. USE DEF flags, history, Evaluation, family, control, mailbox
<1>0. TypeOK /\ Step(f) /\ ContOf(f) /\ LifeOf(f)
  BY DEF TypeInv, Step, ContInv, LifeInv, Primitive
<1>1. /\ pc[f] = "op" /\ Evaluating(f) /\ cur[f].k = "wind" /\ Born(f)
      /\ ~OpAsync(f) /\ ~ExitLater(f) /\ ~WindDownChildren(f)
      /\ UNCHANGED <<windDown, exit, interruptor, scope, children>>
  BY DEF OpWind, At, OpAt, OpAsync, ExitLater, WindDownChildren, Evaluating, Born
<1>2. /\ cur[f] \notin Passive /\ cur[f] \notin Outcome /\ Refs(cur[f]) = {}
      /\ Clean(stack[f]) /\ ~Done(f) /\ NoResume(queue[f]) /\ NoneArmed(asyncs[f])
      /\ ~Refers(f) /\ WindOf(f) /\ LoopOf(f) /\ ObsOf(f) /\ Family(f)
  <2>1. cur[f] \notin Passive /\ cur[f] \notin Outcome /\ Refs(cur[f]) = {}
    BY <1>1, PassiveKinds
  <2>. QED BY <1>0, <1>1, <2>1, Evaluates DEF Refers, LifeOf
<1>3. windDown[f] => WindStack(stack[f]) /\ stack[f] # <<>> /\ interruptor[f] = 0
  BY <1>1, <1>2 DEF WindOf, Fit
<1>4. /\ \A c \in Fiber : AddChild(c) \in Rng(queue[f]) => AddChild(c) \in Rng(queue'[f])
      /\ \A x \in Rng(queue'[f]) : ~(x \in Rng(queue[f]) /\ x.k = "resume")
  BY <1>0, <1>1, <1>2, MailedStep DEF Mailed, Takes, NoResume, Rng
<1>5. CASE winding[f] = {}
  <2>1. cur'[f] = Succ /\ pc'[f] = "loop" /\ UNCHANGED <<asyncs, winding, stack>>
    BY <1>0, <1>5 DEF OpWind, Loop, Goto, TypeOK
  <2>2. Evaluating(f)' /\ ~Refers(f)' /\ Steady(f)
    BY <1>2, <2>1, PassiveKinds, OutcomeTypes DEF Evaluating, Refers, Steady
  <2>3. windDown[f] => Fit(stack'[f], cur'[f])
    BY <1>3, <2>1 DEF Fit, WindEffect, Succ
  <2>. QED BY <1>0, <1>1, <1>2, <1>3, <1>4, <1>5, <2>1, <2>2, <2>3, LifeMoves
<1>6. CASE winding[f] # {}
  <2>0. windDown[f]
    BY <1>2, <1>6 DEF LoopOf
  <2>1. PICK c \in winding[f] : /\ winding' = [winding EXCEPT ![f] = @ \ {c}]
                                /\ Push(f, Simple("windLoop"))
                                /\ Await(f, c, AwaitJob(f, c))
    BY <1>6 DEF OpWind
  <2>2. c \in Fiber /\ c # NoFiber
    BY <1>0, <2>1, FiberAssumption DEF TypeOK
  <2>3. PICK r \in Frame : r = Simple("windLoop")
    BY FrameTypes
  <2>4. winding'[f] = winding[f] \ {c} /\ stack'[f] = <<r>> \o stack[f] /\ stack[f] \in Seq(Frame)
    BY <1>0, <2>1, <2>3 DEF Push, TypeOK
  <2>5. Last(f)' = [st |-> "registered", of |-> c] /\ asyncs'[f] # <<>>
    <3>. DEFINE a == [st |-> "registered", of |-> c]
    <3>1. asyncs' = [asyncs EXCEPT ![f] = Append(@, a)]
      BY <2>1 DEF Await
    <3>. HIDE DEF a
    <3>2. Last(f)' = a /\ asyncs'[f] # <<>>
      BY <1>0, <3>1, LastOf
    <3>. QED BY <3>2 DEF a
  <2>6. cur'[f] = AwaitJob(f, c) /\ pc'[f] = "loop"
    BY <1>0, <2>1 DEF Await, Loop, Goto, TypeOK
  <2>7. Refs(cur'[f]) # {} /\ WindEffect(cur'[f])
    BY <2>2, <2>6 DEF AwaitJob, OnExit, Refs, WindEffect, UserJob
  <2>8. /\ WindStack(stack'[f]) /\ stack'[f] # <<>>
        /\ \E x \in Rng(stack'[f]) : IsLoop(x)
    <3>1. WindFrame(r) /\ IsLoop(r)
      BY <2>3 DEF WindFrame, IsLoop, Simple
    <3>2. Rng(stack'[f]) = {r} \cup Rng(stack[f])
      BY <2>4, RngParts
    <3>. QED BY <1>3, <2>0, <2>4, <3>1, <3>2, WindPush
  <2>9. Evaluating(f)' /\ Refers(f)' /\ Born(f)' /\ ~Done(f)' /\ windDown'[f]
    BY <1>1, <1>2, <2>0, <2>6, <2>7 DEF Evaluating, Refers, Born, Done
  <2>10. ASSUME NEW x \in Rng(queue'[f]), x.k = "resume" PROVE Brings(stack'[f], x.eff)
    <3>1. Fresh(f, f, x)
      BY <1>0, <1>4, <2>10, MailedStep DEF Mailed
    <3>2. x.eff = Succ
      BY <1>0, <1>1, <1>2, <2>0, <2>10, <3>1, FreshWind DEF LifeOf
    <3>. QED BY <3>2, OutcomeTypes DEF Brings
  <2>11. WindOf(f)'
    BY <1>1, <1>3, <2>0, <2>2, <2>5, <2>7, <2>8, <2>10 DEF WindOf, Fit
  <2>12. LoopOf(f)'
    BY <2>8, <2>9 DEF LoopOf
  <2>13. ObsOf(f)'
    BY <1>0, <1>2, ObsStep
  <2>14. Awaited(f, c)'
    BY <2>5, <2>9 DEF Awaited
  <2>15. ASSUME NEW d \in Fiber, scope'[d] = f, ~Done(d)'
         PROVE  \/ d \in winding'[f] \cup children'[f] \/ AddChild(d) \in Rng(queue'[f])
                \/ Awaited(f, d)'
    <3>1. scope[d] = f /\ ~Done(d)
      BY <1>1, <2>15 DEF Done
    <3>2. ~Awaited(f, d)
      <4>1. asyncs[f] # <<>> => Last(f).st # "armed"
        BY <1>0, <1>2, LastArm
      <4>. QED BY <1>2, <4>1 DEF Awaited
    <3>3. d \in children[f] \cup winding[f] \/ AddChild(d) \in Rng(queue[f])
      BY <1>2, <3>1, <3>2 DEF Family
    <3>. QED BY <1>1, <1>4, <2>4, <2>14, <3>3
  <2>16. Family(f)'
    BY <2>9, <2>15 DEF Family
  <2>. QED BY <2>9, <2>11, <2>12, <2>13, <2>16 DEF LifeOf, UnbornOf
<1>. QED BY <1>5, <1>6

-----------------------------------------------------------------------------
(* The end of the run loop: nothing is awaited any more.                    *)
LEMMA AtExit ==
  ASSUME TypeInv, NEW f \in Fiber, ContOf(f), LifeOf(f), pc[f] = "exit"
  PROVE  /\ stack[f] = <<>> /\ cur[f] \in Outcome /\ Refs(cur[f]) = {} /\ winding[f] = {}
         /\ ~Done(f) /\ NoResume(queue[f]) /\ NoneArmed(asyncs[f]) /\ interruptor[f] = 0
         /\ Clean(<<>>) /\ \A c \in Fiber : ~Awaited(f, c)
<1>1. Evaluating(f) /\ cur[f] \in Outcome /\ Clean(<<>>) /\ Rng(<<>>) = {} /\ TypeOK
  BY ExitIsOutcome, RngShort DEF Evaluating, Clean, TypeInv
<1>2. /\ stack[f] = <<>> /\ ~Done(f) /\ NoResume(queue[f]) /\ NoneArmed(asyncs[f])
      /\ interruptor[f] = 0
  BY <1>1, Evaluates
<1>3. Refs(cur[f]) = {} /\ cur[f] # Wind
  BY <1>1, PassiveKinds DEF Wind
<1>4. winding[f] = {}
  BY <1>1, <1>2, <1>3 DEF LifeOf, LoopOf
<1>5. asyncs[f] # <<>> => Last(f).st # "armed"
  BY <1>1, <1>2, LastArm
<1>6. ~Refers(f)
  BY <1>1, <1>2, <1>3 DEF Refers
<1>. QED BY <1>1, <1>2, <1>3, <1>4, <1>5, <1>6 DEF Awaited

(* A fiber ends only when it has no children left.                          *)
LEMMA LifeExit ==
  ASSUME TypeInv, ContInv, LifeInv, Aged, NEW f \in Fiber,
         WindDownChildren(f) \/ ExitLater(f) \/ SetExit(f)
  PROVE  LifeOf(f)'
<1>. USE DEF flags, history, Evaluation, family, control, mailbox
<1>0. TypeOK /\ Step(f) /\ ContOf(f) /\ LifeOf(f)
  BY DEF TypeInv, Step, ContInv, LifeInv
<1>1. /\ pc[f] = "exit" /\ Born(f) /\ windDown'[f] /\ ~OpAsync(f)
      /\ UNCHANGED <<interruptor, scope>>
  BY <1>0 DEF WindDownChildren, ExitLater, SetExit, At, OpAt, OpAsync, Born, TypeOK
<1>2. /\ stack[f] = <<>> /\ cur[f] \in Outcome /\ Refs(cur[f]) = {} /\ winding[f] = {}
      /\ ~Done(f) /\ NoResume(queue[f]) /\ NoneArmed(asyncs[f]) /\ interruptor[f] = 0
      /\ Clean(<<>>) /\ \A c \in Fiber : ~Awaited(f, c)
  BY <1>0, <1>1, AtExit
<1>3. /\ \A c \in Fiber : AddChild(c) \in Rng(queue[f]) => AddChild(c) \in Rng(queue'[f])
      /\ \A x \in Rng(queue'[f]) : x.k = "resume" =>
           x.eff = Succ \/ (ExitLater(f) /\ x.eff = cur[f])
  <2>1. Mailed(f, f)
    BY <1>0, MailedStep
  <2>2. \A i : ~Armed(f, i)
    BY <1>2 DEF Armed, NoneArmed
  <2>3. \A x \in Rng(queue[f]) : x.k # "resume"
    BY <1>2 DEF NoResume, Rng
  <2>. QED BY <1>1, <1>2, <2>1, <2>2, <2>3 DEF Mailed, Takes, Fresh
<1>4. Born(f)' /\ ObsOf(f)'
  BY <1>0, <1>1, ObsStep DEF Aged, Born, LifeOf
<1>5. \A c \in Fiber : scope'[c] = f /\ ~Done(c)' =>
        c \in children[f] \/ AddChild(c) \in Rng(queue[f])
  <2>1. \A c \in Fiber : ~Done(c)' => ~Done(c)
    BY <1>0, DoneStays
  <2>. QED BY <1>0, <1>1, <1>2, <2>1 DEF LifeOf, Family
<1>6. CASE WindDownChildren(f)
  <2>1. /\ stack'[f] = <<Cont(cur[f])>> \o <<>> /\ cur'[f] = Wind /\ pc'[f] = "loop"
        /\ winding'[f] = children[f] /\ UNCHANGED <<asyncs, exit>> /\ ~ExitLater(f)
    BY <1>0, <1>2, <1>6 DEF WindDownChildren, ExitLater, Push, Loop, Goto, ToAwait, TypeOK
  <2>2. PICK r \in Frame : r = Cont(cur[f])
    BY <1>0, FrameTypes DEF TypeOK
  <2>3. LastFrame(r) /\ ~Pending(r)
    BY <1>2, <2>2 DEF LastFrame, Pending, Cont
  <2>4. <<>> \in Seq(Frame) /\ WindStack(<<>>)
    BY DEF WindStack
  <2>5. WindStack(stack'[f]) /\ Clean(stack'[f]) /\ stack'[f] # <<>>
    BY <1>2, <2>1, <2>2, <2>3, <2>4, WindPush, ZenonT(30)
  <2>6. Refs(Wind) = {} /\ WindEffect(Wind)
    BY PassiveKinds DEF Wind, WindEffect
  <2>7. Evaluating(f)' /\ ~Refers(f)' /\ ~Done(f)'
    BY <1>2, <2>1, <2>5, <2>6 DEF Evaluating, Refers, Done
  <2>8. WindOf(f)'
    BY <1>1, <1>2, <1>3, <2>1, <2>5, <2>6, <2>7 DEF WindOf, Fit, Brings
  <2>9. LoopOf(f)'
    BY <1>1, <2>1, <2>7 DEF LoopOf
  <2>10. Family(f)'
    BY <1>3, <1>4, <1>5, <2>1, <2>7 DEF Family
  <2>. QED BY <1>4, <2>8, <2>9, <2>10 DEF LifeOf, UnbornOf
<1>7. CASE ExitLater(f)
  <2>1. /\ stack' = stack /\ cur' = cur /\ pc'[f] = "leave" /\ children[f] = {}
        /\ winding' = winding /\ UNCHANGED <<asyncs, exit>>
    BY <1>0, <1>7 DEF ExitLater, Goto, TypeOK
  <2>2. ~Evaluating(f)' /\ ~Refers(f)' /\ ~Done(f)'
    BY <1>2, <2>1 DEF Evaluating, Refers, Done
  <2>3. WindOf(f)'
    BY <1>1, <1>2, <1>3, <2>1, <2>2, OutcomeTypes DEF WindOf, Brings, WindStack
  <2>4. LoopOf(f)' /\ Family(f)'
    BY <1>2, <1>3, <1>4, <1>5, <2>1, <2>2 DEF LoopOf, Family
  <2>. QED BY <1>4, <2>3, <2>4 DEF LifeOf, UnbornOf
<1>8. CASE SetExit(f)
  <2>1. winding' = winding /\ children[f] = {} /\ queue[f] = <<>>
    BY <1>8 DEF SetExit, HasMessages
  <2>2. Done(f)'
    BY <1>8, ExitSet
  <2>3. Family(f)'
    BY <1>5, <2>1, RngShort DEF Family
  <2>. QED BY <1>2, <1>4, <2>1, <2>2, <2>3 DEF LifeOf, WindOf, LoopOf, UnbornOf
<1>. QED BY <1>6, <1>7, <1>8

-----------------------------------------------------------------------------
(* The continuations.  In a fiber that winds down only the unit meets them,  *)
(* and each passes on what the ones below it wait for.                      *)
LEMMA LifeFrames ==
  ASSUME TypeInv, ContInv, LifeInv, Aged, NEW f \in Fiber,
         \/ SkipFrame(f) \/ SuccessHandler(f) \/ FailureHandler(f) \/ RevertFrame(f)
         \/ UserFinalizer(f) \/ AwaitCanceler(f)
  PROVE  LifeOf(f)'
<1>. USE DEF flags, history, Evaluation, family, control, mailbox
<1>0. /\ TypeOK /\ Step(f) /\ ContOf(f) /\ LifeOf(f) /\ cur[f] \in Effect /\ stack[f] \in Seq(Frame)
  BY DEF TypeInv, Step, ContInv, LifeInv, Primitive, TypeOK
<1>1. /\ pc[f] = "op" /\ Evaluating(f) /\ cur[f].k \in {"succ", "fail"} /\ stack[f] # <<>>
      /\ ~OpAsync(f) /\ ~ExitLater(f) /\ ~WindDownChildren(f)
      /\ UNCHANGED <<asyncs, windDown, winding, exit, interruptor, scope>>
  BY DEF SkipFrame, SuccessHandler, FailureHandler, RevertFrame, UserFinalizer, AwaitCanceler, Meets,
         Pure, At, OpAt, OpAsync, ExitLater, WindDownChildren, Evaluating
<1>2. \A c \in Fiber : AddChild(c) \in Rng(queue[f]) => AddChild(c) \in Rng(queue'[f])
  BY <1>0, <1>1, MailedStep DEF Mailed, Takes
<1>3. ASSUME windDown[f]
      PROVE  /\ pc'[f] \in {"loop", "op"} /\ stack'[f] = Tail(stack[f])
             /\ Fit(Tail(stack[f]), cur'[f])
             /\ Refs(cur'[f]) # {} <=> Refs(cur[f]) # {} \/ Pending(Top(f))
             /\ cur[f] = Wind \/ IsLoop(Top(f)) => cur'[f] = Wind
  <2>1. WindStack(stack[f]) /\ Fit(stack[f], cur[f]) /\ ~MustStop(f)
    BY <1>0, <1>1, <1>3, Evaluates DEF LifeOf, WindOf, MustStop, Interruptible
  <2>2. cur[f].k = "succ" /\ WindEffect(cur[f]) /\ ~IsFailure(cur[f]) /\ Refs(cur[f]) = {} /\ cur[f] # Wind
    BY <1>1, <2>1, PassiveKinds DEF Fit, WindEffect, IsFailure, Wind
  <2>3. IF Tail(stack[f]) = <<>> THEN LastFrame(Top(f)) ELSE WindFrame(Top(f))
    BY <1>0, <1>1, <2>1, WindPop DEF Top
  <2>4. /\ Top(f).k \in {"revert", "windLoop", "final", "cont"}
        /\ Top(f).k # "cont" => Tail(stack[f]) # <<>>
        /\ Top(f).k = "cont" => Fit(Tail(stack[f]), Top(f).eff)
        /\ Top(f).k = "final" => Top(f).job # UserJob
    BY <2>3 DEF LastFrame, WindFrame, Fit
  <2>5. Wind.k = "wind" /\ WindEffect(Wind) /\ Refs(Wind) = {}
    BY PassiveKinds DEF Wind, WindEffect
  <2>6. CASE SuccessHandler(f)
    <3>1. /\ pc'[f] = "loop" /\ stack'[f] = Tail(stack[f])
          /\ \/ Top(f).k = "cont" /\ cur'[f] = Top(f).eff
             \/ Top(f).k = "windLoop" /\ cur'[f] = Wind
      BY <1>0, <2>4, <2>6 DEF SuccessHandler, Pop, Loop, Goto, TypeOK
    <3>. QED BY <2>2, <2>4, <2>5, <3>1 DEF Pending, IsLoop, Fit
  <2>7. CASE RevertFrame(f)
    <3>1. pc'[f] = "loop" /\ stack'[f] = Tail(stack[f]) /\ cur'[f] = cur[f] /\ Top(f).k = "revert"
      BY <1>0, <1>3, <2>7 DEF RevertFrame, Pop, Loop, Goto, TypeOK
    <3>. QED BY <2>2, <2>4, <3>1 DEF Pending, IsLoop, Fit
  <2>8. CASE AwaitCanceler(f)
    <3>1. pc'[f] = "loop" /\ stack'[f] = Tail(stack[f]) /\ cur'[f] = cur[f] /\ Top(f).k = "final"
      BY <1>0, <2>1, <2>2, <2>8 DEF AwaitCanceler, Pop, Loop, Goto, TypeOK
    <3>. QED BY <2>2, <2>4, <3>1 DEF Pending, IsLoop, Fit
  <2>9. CASE SkipFrame(f) \/ FailureHandler(f)
    BY <2>2, <2>4, <2>9 DEF SkipFrame, FailureHandler, Meets, OpAt, SkippedBySuccess
  <2>10. CASE UserFinalizer(f)
    BY <2>4, <2>10 DEF UserFinalizer, Final
  <2>. QED BY <2>6, <2>7, <2>8, <2>9, <2>10
<1>. QED BY <1>0, <1>1, <1>2, <1>3, LifePops

(* No continuation is left.                                                 *)
LEMMA LifeEnd ==
  ASSUME TypeInv, ContInv, LifeInv, Aged, NEW f \in Fiber, EndLoop(f)
  PROVE  LifeOf(f)'
<1>. USE DEF flags, history, Evaluation, family, control, mailbox
<1>0. TypeOK /\ Step(f) /\ ContOf(f) /\ LifeOf(f)
  BY DEF TypeInv, Step, ContInv, LifeInv, Primitive
<1>1. /\ pc[f] = "op" /\ pc'[f] = "exit"
      /\ ~OpAsync(f) /\ ~ExitLater(f) /\ ~WindDownChildren(f)
      /\ UNCHANGED <<queue, asyncs, windDown, winding, exit, interruptor, scope, cur, stack>>
  BY <1>0 DEF EndLoop, Pure, At, OpAt, Goto, OpAsync, ExitLater, WindDownChildren, TypeOK
<1>2. Evaluating(f) /\ Evaluating(f)' /\ (Refers(f)' <=> Refers(f))
  BY <1>1 DEF Evaluating, Refers
<1>3. windDown[f] => WindStack(stack[f]) /\ Fit(stack[f], cur[f])
  BY <1>0, <1>2, Evaluates DEF LifeOf, WindOf
<1>. QED BY <1>0, <1>1, <1>2, <1>3, LifeRuns

-----------------------------------------------------------------------------
(* All actions.                                                             *)
LEMMA LifeInit == Init => LifeInv
<1>1. SUFFICES ASSUME Init, NEW g \in Fiber PROVE LifeOf(g)
  BY DEF LifeInv
<1>2. /\ queue[g] = <<>> /\ pc[g] = "unborn" /\ ~windDown[g] /\ winding[g] = {} /\ observers[g] = {}
      /\ scope[g] = NoFiber /\ \A c \in Fiber : scope[c] # g
  BY <1>1, FiberAssumption DEF Init
<1>. QED BY <1>2, RngShort DEF LifeOf, WindOf, LoopOf, ObsOf, Family, UnbornOf

(* Every step keeps LifeOf of every fiber.                                   *)
LEMMA LifeNext ==
  TypeInv /\ MailboxInv /\ KnownInv /\ ContInv /\ LifeInv /\ [Next]_vars => LifeInv'
<1>1. SUFFICES ASSUME TypeInv, MailboxInv, KnownInv, ContInv, LifeInv, [Next]_vars, NEW g \in Fiber
               PROVE  LifeOf(g)'
  BY DEF LifeInv
<1>2. Aged
  BY <1>1, Ages DEF TypeInv
<1>3. CASE UNCHANGED vars
  BY <1>1, <1>3, SMTT(30) DEF LifeInv, LifeOf, WindOf, LoopOf, ObsOf, Family, UnbornOf, Awaited, Names, Refers,
     Last, Born, Done, Evaluating, vars, mailbox, control, flags, family, history
<1>4. ASSUME NEW f \in Fiber, RunTask(f) \/ Step(f) PROVE LifeOf(g)'
  <2>1. CASE g # f
    BY <1>1, <1>2, <1>4, <2>1, LifeElsewhere
  <2>2. LifeOf(f)'
    <3>1. CASE UserOp(f)
      BY <1>1, <1>2, <3>1, LifeUser
    <3>2. CASE Primitive(f)
      BY <1>1, <1>2, <3>2, LifeBracket, LifeAsync, LifeYield, LifeWind, LifeFrames, LifeEnd DEF Primitive
    <3>3. CASE ~UserOp(f) /\ ~Primitive(f)
      BY <1>1, <1>2, <1>4, <3>3, LifeDrain, LifeStateful, LifeResume, LifeLoop, LifeExit DEF Step
    <3>. QED BY <3>1, <3>2, <3>3
  <2>. QED BY <2>1, <2>2
<1>5. ASSUME NEW f \in Fiber, \/ Start(f) \/ StartLater(f) \/ ExternalInterrupt(f)
                              \/ \E i \in DOMAIN asyncs[f] : ExternalCallback(f, i)
      PROVE  LifeOf(g)'
  BY <1>1, <1>2, <1>5, LifeOutside
<1>. QED BY <1>1, <1>3, <1>4, <1>5 DEF Next, Outside

(* Where a parent remembers each of its living children.                    *)
THEOREM LifeCorrect == Spec => [](TypeInv /\ ContInv /\ LifeInv)
<1>1. Init => LifeInv
  BY LifeInit
<1>2. TypeInv /\ MailboxInv /\ KnownInv /\ ContInv /\ LifeInv /\ [Next]_vars => LifeInv'
  BY LifeNext
<1>. QED BY <1>1, <1>2, ContCorrect, PTL DEF Spec

(* Structured concurrency: when a fiber is done, so is every fiber forked in *)
(* its scope.                                                               *)
THEOREM ParentsOutliveChildren == Spec => []ChildrenEndFirst
<1>1. TypeInv /\ LifeInv => ChildrenEndFirst
  <2>1. SUFFICES ASSUME TypeInv, LifeInv, NEW c \in Fiber, scope[c] # NoFiber, Done(scope[c])
                 PROVE  Done(c)
    BY DEF ChildrenEndFirst
  <2>2. scope[c] \in Fiber
    BY <2>1 DEF TypeInv, TypeOK
  <2>. QED BY <2>1, <2>2 DEF LifeInv, LifeOf, Family
<1>. QED BY <1>1, LifeCorrect, PTL

-----------------------------------------------------------------------------
(* Refinement.  In terms of StructuredConcurrency a fiber begins when it is  *)
(* created and ends when its exit is set; nothing else is seen.             *)
Alive == {g \in Fiber : Born(g) /\ ~Done(g)}

(* Only a fiber that has begun takes steps.                                  *)
LEMMA StepIsOfBorn ==
  ASSUME NEW f \in Fiber, Step(f)
  PROVE  Born(f)
<1>1. At(f, pc[f]) /\ pc[f] # "unborn"
  <2>1. CASE UserOp(f)
    BY <2>1 DEF UserOp, UserSucceed, UserFail, UserOnExit, UserYield, UserFrame, UserFlags, UserAsync,
       UserAwait, UserInterrupt, UserFork, UserCallback, OpAt, At
  <2>2. CASE Primitive(f)
    BY <2>2 DEF Primitive, OpOnExit, OpGuard, OpRestore, OpAsync, OpYield, OpWind, SkipFrame,
       SuccessHandler, FailureHandler, RevertFrame, UserFinalizer, AwaitCanceler, EndLoop,
       Meets, OpAt, At
  <2>3. CASE ~UserOp(f) /\ ~Primitive(f)
    BY <2>3 DEF Step, DrainDone, DrainYield, DrainInterrupt, DrainResume, DrainStateful, Stateful1,
       LoopInterrupt, LoopStateful, BeginOp, Preempt, WindDownChildren, ExitLater, SetExit, Return,
       Next1, At
  <2>. QED BY <2>1, <2>2, <2>3
<1>. QED BY <1>1 DEF Born

(* Steps other than forks and SetExit leave the three variables of the       *)
(* abstract specification alone.                                             *)
LEMMA LifetimesStill ==
  ASSUME TypeInv, TypeOK', KnownInv, Aged, NEW f \in Fiber,
         \/ RunTask(f)
         \/ Step(f) /\ ~SetExit(f) /\ \A c \in Fiber : \A daemon : ~UserFork(f, c, daemon)
         \/ ExternalInterrupt(f)
         \/ \E i \in DOMAIN asyncs[f] : ExternalCallback(f, i)
  PROVE  Alive' = Alive /\ scope' = scope /\ exit' = exit
<1>0. TypeOK
  BY DEF TypeInv
<1>1. exit' = exit
  BY <1>0, ExitKept
<1>2. scope' = scope
  <2>1. \A g \in Fiber : scope'[g] = scope[g]
    <3>1. SUFFICES ASSUME NEW g \in Fiber PROVE scope'[g] = scope[g]
      OBVIOUS
    <3>2. ~\E daemon \in BOOLEAN : UserFork(f, g, daemon)
      <4>1. SUFFICES ASSUME NEW daemon, UserFork(f, g, daemon) PROVE FALSE
        OBVIOUS
      <4>2. ~Idle
        BY <4>1 DEF UserFork, OpAt, At
      <4>. QED BY <4>1, <4>2 DEF RunTask, ExternalInterrupt, ExternalCallback
    <3>. QED BY <1>0, <3>2, WindDownSet
  <2>. QED BY <1>0, <2>1 DEF TypeOK
<1>3. ASSUME NEW g \in Fiber PROVE Born(g)' <=> Born(g)
  <2>1. CASE RunTask(f) \/ Step(f)
    <3>1. CASE g # f
      <4>1. \A daemon : ~UserFork(f, g, daemon)
        <5>1. CASE RunTask(f)
          BY <5>1 DEF RunTask, UserFork, OpAt, At
        <5>. QED BY <2>1, <5>1 DEF ExternalInterrupt, ExternalCallback, UserFork, OpAt, At
      <4>2. Stays(g)
        BY <1>0, <2>1, <3>1, <4>1, Elsewhere
      <4>. QED BY <4>2 DEF Stays, Born
    <3>2. CASE g = f
      <4>1. Born(f)
        BY <2>1, StepIsOfBorn DEF RunTask, KnownInv, KnownMail, Born
      <4>. QED BY <3>2, <4>1 DEF Aged, Born
    <3>. QED BY <3>1, <3>2
  <2>2. CASE ExternalInterrupt(f) \/ \E i \in DOMAIN asyncs[f] : ExternalCallback(f, i)
    BY <2>2 DEF ExternalInterrupt, ExternalCallback, control, Born
  <2>. QED BY <2>1, <2>2
<1>4. Alive' = Alive
  BY <1>1, <1>3 DEF Alive, Done
<1>. QED BY <1>1, <1>2, <1>4

(* A step that begins a fiber is a Begin of the abstract specification.      *)
LEMMA LifetimeBegins ==
  ASSUME TypeInv, TypeOK', ContInv, LifeInv, NEW f \in Fiber, NEW p \in Alive \cup {NoFiber},
         pc[f] = "unborn", exit' = exit, scope' = [scope EXCEPT ![f] = p],
         \A g \in Fiber : Born(g)' <=> g = f \/ Born(g)
  PROVE  Lifetimes!Begin(f, p)
<1>1. ~Born(f) /\ ~Done(f) /\ exit[f] = NotDone
  BY DEF Born, ContInv, ContOf, Done
<1>2. Alive' = Alive \cup {f}
  BY <1>1 DEF Alive, Done
<1>. QED BY <1>1, <1>2 DEF Lifetimes!Begin, Alive

(* SetExit is an End of the abstract specification: no live fiber has the    *)
(* one that ends as its scope.                                               *)
LEMMA LifetimeEnds ==
  ASSUME TypeInv, TypeOK', ContInv, LifeInv, NEW f \in Fiber, SetExit(f)
  PROVE  Lifetimes!End(f, cur[f]) /\ cur[f] \in Outcome
<1>0. TypeOK /\ ContOf(f) /\ LifeOf(f)
  BY DEF TypeInv, ContInv, LifeInv
<1>1. /\ pc[f] = "exit" /\ pc' = [pc EXCEPT ![f] = "leave"] /\ scope' = scope
      /\ children[f] = {} /\ queue[f] = <<>>
  BY DEF SetExit, At, Goto, HasMessages, history
<1>2. exit' = [exit EXCEPT ![f] = cur[f]] /\ cur[f] \in Outcome /\ Done(f)'
  BY ExitSet
<1>3. winding[f] = {} /\ ~Done(f) /\ \A c \in Fiber : ~Awaited(f, c)
  BY <1>0, <1>1, AtExit
<1>4. \A c \in Alive : scope[c] # f
  <2>1. SUFFICES ASSUME NEW c \in Fiber, ~Done(c), scope[c] = f PROVE FALSE
    BY DEF Alive
  <2>. QED BY <1>0, <1>1, <1>3, <2>1, RngShort DEF LifeOf, Family
<1>5. \A g \in Fiber : g # f => (Born(g)' <=> Born(g)) /\ (Done(g)' <=> Done(g))
  BY <1>0, <1>1, <1>2 DEF Born, Done, TypeOK
<1>6. Alive' = Alive \ {f}
  BY <1>2, <1>5 DEF Alive
<1>7. f \in Alive
  BY <1>1, <1>3 DEF Alive, Born
<1>. QED BY <1>1, <1>2, <1>4, <1>6, <1>7 DEF Lifetimes!End, Alive

(* Every step is a step of the abstract specification or leaves its          *)
(* variables alone.                                                          *)
LEMMA LifetimesNext ==
  ASSUME TypeInv, TypeOK', MailboxInv, KnownInv, ContInv, LifeInv, [Next]_vars
  PROVE  [Lifetimes!Next]_(Lifetimes!vars)
<1>0. TypeOK /\ Aged
  BY Ages DEF TypeInv
<1>1. CASE Alive' = Alive /\ scope' = scope /\ exit' = exit
  BY <1>1 DEF Lifetimes!vars, Alive
<1>2. CASE UNCHANGED vars
  BY <1>1, <1>2 DEF vars, control, history, Alive, Born, Done
<1>3. ASSUME NEW f \in Fiber, NEW p \in Alive \cup {NoFiber}, Lifetimes!Begin(f, p)
      PROVE  Lifetimes!Next
  BY <1>3 DEF Lifetimes!Next, Alive
<1>4. ASSUME NEW f \in Fiber, Start(f) \/ StartLater(f) PROVE Lifetimes!Next
  <2>. USE DEF history, family
  <2>1. pc[f] = "unborn" /\ exit' = exit /\ scope' = scope
    BY <1>4 DEF Start, StartLater
  <2>2. scope[f] = NoFiber
    BY <2>1 DEF LifeInv, LifeOf, UnbornOf, Born
  <2>3. scope' = [scope EXCEPT ![f] = NoFiber]
    BY <1>0, <2>1, <2>2 DEF TypeOK
  <2>4. pc'[f] # "unborn" /\ \A g \in Fiber : g # f => pc'[g] = pc[g]
    <3>1. CASE StartLater(f)
      BY <1>0, <3>1 DEF StartLater, Goto, TypeOK
    <3>2. CASE Start(f) /\ Idle
      BY <1>0, <3>2 DEF Start, Evaluate, Loop, Goto, TypeOK
    <3>3. CASE Start(f) /\ ~Idle
      BY <1>0, <3>3 DEF Start, Goto, TypeOK
    <3>. QED BY <1>4, <3>1, <3>2, <3>3
  <2>5. \A g \in Fiber : Born(g)' <=> g = f \/ Born(g)
    BY <2>4 DEF Born
  <2>6. Lifetimes!Begin(f, NoFiber)
    BY <2>1, <2>3, <2>5, LifetimeBegins
  <2>. QED BY <1>3, <2>6
<1>5. ASSUME NEW f \in Fiber, NEW c \in Fiber, NEW daemon, UserFork(f, c, daemon)
      PROVE  Lifetimes!Next
  <2>1. /\ pc[f] = "op" /\ pc[c] = "unborn" /\ exit' = exit
        /\ pc' = [pc EXCEPT ![c] = "out", ![f] = "loop"]
        /\ scope' = [scope EXCEPT ![c] = IF daemon THEN NoFiber ELSE f]
    BY <1>5 DEF UserFork, OpAt, At
  <2>2. f \in Alive
    <3>1. Evaluating(f)
      BY <2>1 DEF Evaluating
    <3>. QED BY <2>1, <3>1, Evaluates DEF ContInv, Alive, Born
  <2>3. PICK p \in Alive \cup {NoFiber} : p = IF daemon THEN NoFiber ELSE f
    BY <2>2
  <2>4. \A g \in Fiber : Born(g)' <=> g = c \/ Born(g)
    BY <1>0, <2>1 DEF Born, TypeOK
  <2>5. Lifetimes!Begin(c, p)
    BY <2>1, <2>3, <2>4, LifetimeBegins
  <2>. QED BY <1>3, <2>5
<1>6. ASSUME NEW f \in Fiber, SetExit(f) PROVE Lifetimes!Next
  BY <1>6, LifetimeEnds DEF Lifetimes!Next
<1>7. ASSUME NEW f \in Fiber,
             \/ RunTask(f)
             \/ Step(f) /\ ~SetExit(f) /\ \A c \in Fiber : \A daemon : ~UserFork(f, c, daemon)
             \/ ExternalInterrupt(f)
             \/ \E i \in DOMAIN asyncs[f] : ExternalCallback(f, i)
      PROVE  Alive' = Alive /\ scope' = scope /\ exit' = exit
  BY <1>0, <1>7, LifetimesStill
<1>. QED BY <1>1, <1>2, <1>4, <1>5, <1>6, <1>7 DEF Next, Outside

(* The runtime implements StructuredConcurrency: a fiber begins in the scope *)
(* of a living fiber or in the global one, ends once, with an exit that      *)
(* stays, and after all that were forked in its scope.                      *)
THEOREM LifetimesImplemented == Spec => StructuredLifetimes
<1>1. Init => Lifetimes!Init
  <2>1. SUFFICES ASSUME Init PROVE Lifetimes!Init
    OBVIOUS
  <2>2. Alive = {}
    BY <2>1 DEF Init, Alive, Born
  <2>. QED BY <2>1, <2>2 DEF Init, Lifetimes!Init, Alive
<1>2. TypeInv /\ TypeOK' /\ MailboxInv /\ KnownInv /\ ContInv /\ LifeInv /\ [Next]_vars
        => [Lifetimes!Next]_(Lifetimes!vars)
  BY LifetimesNext
<1>3. TypeInv => TypeOK
  BY DEF TypeInv
<1>. QED BY <1>1, <1>2, <1>3, ContCorrect, LifeCorrect, PTL
         DEF Spec, StructuredLifetimes, Lifetimes!Spec

=============================================================================
