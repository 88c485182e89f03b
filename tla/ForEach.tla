------------------------------ MODULE ForEach ------------------------------
(***************************************************************************)
(* forEachConcurrentDiscard of packages/effect/src/internal/fiberRuntime.ts: *)
(* the items of a collection are handed to at most n fibers, which are       *)
(* interrupted when one of them fails or the caller is interrupted.          *)
(*                                                                         *)
(* The caller waits for a fiber of its own, `processing`, which waits for a   *)
(* callback of the last worker.  A worker is a fiber; what it does with an   *)
(* item is any effect, which may never end unless it is interrupted.  The    *)
(* function that makes the effect does not throw, and no effect is blocked   *)
(* on a batch of requests (processAll is false).                            *)
(***************************************************************************)
EXTENDS Integers, Sequences, FiniteSets

CONSTANTS Items,        \* how many items there are
          Limits        \* the n that callers use

VARIABLES
  n,
  todos,        \* how many items nobody has taken; they are taken in order
  target,       \* how many results there will be
  interrupted,
  results,      \* [item, ok] in the order of their arrival
  worker,       \* step of each worker
  item, ok,     \* of each worker: what it works on, and how its last body ended
  told,         \* the workers that were sent an interruption
  processing,   \* step of the processing fiber
  resumed,      \* what its callback was called with: "nothing", or whether all went well
  parent,       \* step of the caller
  signalled,    \* an interruption is in the inbox of the caller
  tooSoon       \* history: the caller gave up before the processing fiber began

pool == <<todos, target, interrupted, told>>
caller == <<parent, signalled, tooSoon>>
vars == <<n, pool, results, worker, item, ok, processing, resumed, caller>>

Worker == 1..Items
Label == {"none", "forked", "working", "yielding", "leaving", "ended"}

TypeOK ==
  /\ n \in Limits /\ todos \in 0..Items /\ target \in 0..Items
  /\ interrupted \in BOOLEAN
  /\ results \in Seq([item : 1..Items, ok : BOOLEAN])
  /\ worker \in [Worker -> Label]
  /\ item \in [Worker -> 0..Items] /\ ok \in [Worker -> BOOLEAN]
  /\ told \subseteq Worker
  /\ processing \in {"none", "forked", "waiting", "ended"}
  /\ resumed \in {"nothing", "success", "failure"}
  /\ parent \in {"begins", "joins", "waits", "gives up", "returned", "failed"}
  /\ signalled \in BOOLEAN /\ tooSoon \in BOOLEAN

Init ==
  /\ n \in Limits
  /\ todos = Items /\ target = Items
  /\ interrupted = FALSE /\ told = {}
  /\ results = <<>>
  /\ worker = [w \in Worker |-> "none"]
  /\ item = [w \in Worker |-> 0] /\ ok = [w \in Worker |-> TRUE]
  /\ processing = "none" /\ resumed = "nothing"
  /\ parent = "begins" /\ signalled = FALSE /\ tooSoon = FALSE

Goto(w, label) == worker' = [worker EXCEPT ![w] = label]

(* `fibers`.                                                                *)
Alive == {w \in Worker : worker[w] \notin {"none", "ended"}}

(* Seeded bug: the workers are left alone.                                   *)
TellNobody == told

TellAll == told \cup Alive

(* onInterruptSignal: what nobody has taken is dropped, and who works is      *)
(* interrupted, by tasks scheduled behind those that start the workers.      *)
Interrupts ==
  /\ target' = target - todos
  /\ todos' = 0
  /\ interrupted' = TRUE
  /\ told' = TellAll

-----------------------------------------------------------------------------
(* The caller.                                                              *)

(* The region in which the caller waits is interruptible.                    *)
Waits ==
  IF signalled THEN Interrupts /\ parent' = "gives up"
               ELSE parent' = "waits" /\ UNCHANGED pool

(* The caller forks the processing fiber and waits for it, unless it yields   *)
(* in between.  If it had yielded before, in the uninterruptible region, it   *)
(* may have been interrupted there.                                         *)
Begin ==
  /\ parent = "begins"
  /\ processing' = "forked"
  /\ \/ Waits /\ tooSoon' = signalled
     \/ parent' = "joins" /\ UNCHANGED <<pool, tooSoon>>
  /\ UNCHANGED <<n, results, worker, item, ok, resumed, signalled>>

(* Tasks run in the order in which they were scheduled: whatever the caller    *)
(* learns after it has left the thread, the processing fiber begins before.   *)
Join ==
  /\ parent = "joins" /\ processing # "forked"
  /\ Waits
  /\ UNCHANGED <<n, results, worker, item, ok, processing, resumed, signalled, tooSoon>>

Interrupt ==
  /\ parent \in {"begins", "joins", "waits"} /\ ~signalled
  /\ signalled' = TRUE
  /\ UNCHANGED <<n, pool, results, worker, item, ok, processing, resumed, parent, tooSoon>>

GiveUp ==
  /\ parent = "waits" /\ signalled /\ processing # "forked"
  /\ Interrupts
  /\ parent' = "gives up"
  /\ UNCHANGED <<n, results, worker, item, ok, processing, resumed, signalled, tooSoon>>

Return ==
  /\ parent \in {"waits", "gives up"} /\ processing = "ended"
  /\ parent' = IF parent = "waits" /\ resumed = "success" THEN "returned" ELSE "failed"
  /\ UNCHANGED <<n, pool, results, worker, item, ok, processing, resumed, signalled, tooSoon>>

-----------------------------------------------------------------------------
(* The processing fiber begins to wait, and forks the workers: `next` for     *)
(* each of them.                                                            *)
Process ==
  /\ processing = "forked"
  /\ processing' = "waiting"
  /\ LET forked == {w \in Worker : w <= n /\ w <= todos}
     IN /\ worker' = [w \in Worker |-> IF w \in forked THEN "forked" ELSE worker[w]]
        /\ item' = [w \in Worker |-> IF w \in forked THEN w ELSE item[w]]
        /\ todos' = todos - Cardinality(forked)
  /\ UNCHANGED <<n, target, interrupted, told, results, ok, resumed, caller>>

Processed ==
  /\ processing = "waiting" /\ resumed # "nothing"
  /\ processing' = "ended"
  /\ UNCHANGED <<n, pool, results, worker, item, ok, resumed, caller>>

-----------------------------------------------------------------------------
Start(w) ==
  /\ worker[w] \in {"forked", "yielding"}
  /\ Goto(w, "working")
  /\ UNCHANGED <<n, pool, results, item, ok, processing, resumed, caller>>

Push(w, succeeded) == Append(results, [item |-> item[w], ok |-> succeeded])

(* The body of the worker's item ends, onRes.  The result is pushed here if   *)
(* somebody has an item left to take; if there was one and it was dropped    *)
(* because of this failure, the worker leaves with a result that it has       *)
(* pushed already.                                                          *)
Done(w, succeeded) ==
  /\ worker[w] = "working"
  /\ ok' = [ok EXCEPT ![w] = succeeded]
  /\ \/ /\ todos = 0
        /\ Goto(w, "leaving")
        /\ UNCHANGED <<pool, results, item>>
     \/ /\ todos > 0 /\ succeeded
        /\ results' = Push(w, TRUE)
        /\ item' = [item EXCEPT ![w] = Items - todos + 1]
        /\ todos' = todos - 1
        /\ Goto(w, "yielding")
        /\ UNCHANGED <<target, interrupted, told>>
     \/ /\ todos > 0 /\ ~succeeded
        /\ results' = Push(w, FALSE)
        /\ Interrupts
        /\ Goto(w, "leaving")
        /\ UNCHANGED item
  /\ UNCHANGED <<n, processing, resumed, caller>>

(* Seeded bug: the caller goes on as soon as somebody has failed.             *)
EnoughResults(rs) == Len(rs) = target \/ \E k \in DOMAIN rs : ~rs[k].ok

(* results.length === target.                                               *)
IsComplete(rs) == Len(rs) = target

(* Seeded bug: only the last result counts.                                  *)
LastResult(rs) == IF rs[Len(rs)].ok THEN "success" ELSE "failure"

(* collectExits: every failure there is.                                     *)
Collected(rs) == IF \A k \in DOMAIN rs : rs[k].ok THEN "success" ELSE "failure"

(* The observer of a worker.  Only the first call of the callback counts.     *)
End(w) ==
  /\ worker[w] = "leaving"
  /\ LET rs == Push(w, ok[w])
     IN /\ results' = rs
        /\ IF ok[w] \/ interrupted THEN UNCHANGED pool ELSE Interrupts
        /\ resumed' = IF resumed = "nothing" /\ IsComplete(rs) THEN Collected(rs) ELSE resumed
  /\ Goto(w, "ended")
  /\ UNCHANGED <<n, item, ok, processing, caller>>

-----------------------------------------------------------------------------
CallerGoesOn == Begin \/ Join \/ GiveUp \/ Return
ProcessingGoesOn == Process \/ Processed
WorkerGoesOn(w) == Start(w) \/ End(w) \/ (w \in told /\ Done(w, FALSE))

Next ==
  \/ CallerGoesOn \/ Interrupt \/ ProcessingGoesOn
  \/ \E w \in Worker : Start(w) \/ End(w) \/ (\E succeeded \in BOOLEAN : Done(w, succeeded))

Spec == Init /\ [][Next]_vars

(* Fibers go on; a body ends when it is interrupted, if not before.           *)
FairSpec ==
  /\ Spec /\ WF_vars(CallerGoesOn) /\ WF_vars(ProcessingGoesOn)
  /\ \A w \in Worker : WF_vars(WorkerGoesOn(w))

-----------------------------------------------------------------------------
(* Results that were pushed twice, or will be.                               *)
Leaving == {w \in Worker : worker[w] = "leaving"}
Pushed == {results[k].item : k \in DOMAIN results}
Repeated == Len(results) + Cardinality(Leaving)
              - Cardinality(Pushed \cup {item[w] : w \in Leaving})

(* When forEach is over none of its fibers is left, but for one if a failure  *)
(* was counted twice, which does not happen if every item has its worker.    *)
Over == parent \in {"returned", "failed"}
NobodyLeft ==
  /\ Over => Cardinality(Alive) <= Repeated
  /\ Repeated <= IF n >= Items THEN 0 ELSE 1

(* It succeeds only if every body did, each once, and fails only if one did   *)
(* or the caller was interrupted.                                           *)
ResultIsTrue ==
  /\ parent = "returned" =>
       /\ \A k \in DOMAIN results : results[k].ok
       /\ Pushed = 1..Items /\ Repeated = 0
  /\ parent = "failed" => signalled \/ \E k \in DOMAIN results : ~results[k].ok

(* After a failure or an interruption it ends, whatever the bodies do, unless  *)
(* the caller gave up before the processing fiber had begun, or there is only *)
(* one worker, whose failure is counted twice.                              *)
FailureEnds ==
  interrupted \/ signalled ~> Over \/ tooSoon \/ n = 1
=============================================================================
