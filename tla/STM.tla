-------------------------------- MODULE STM --------------------------------
(***************************************************************************)
(* Software transactional memory: packages/effect/src/internal/stm, the     *)
(* commit protocol of core.ts, the journal and the todos of stm/journal.ts. *)
(*                                                                         *)
(* A transaction runs to its end in one synchronous step, so a journal is   *)
(* always valid; what can go wrong is the protocol around it.  A first      *)
(* attempt is made on the fiber's own thread (tryCommitSync).  If it        *)
(* retries, the fiber suspends and the transaction is attempted again       *)
(* (tryCommitAsync) when it is registered and then whenever a reference it  *)
(* touched is touched by a transaction that ends: each reference holds the  *)
(* todos of the transactions that wait for it.  Meanwhile the fiber may be  *)
(* interrupted.                                                            *)
(*                                                                         *)
(* The body of a transaction is a constant: Run(p, s) is what program p does*)
(* from the store s, the references it touches, its writes and its exit.    *)
(***************************************************************************)
EXTENDS Naturals, Sequences, SequencesExt

CONSTANTS Txn,        \* transactions, each committed by a fiber of its own
          Ref, Value, \* the TRefs and what they hold
          Program, Run(_, _)

Exit == {"succeed", "fail", "retry"}      \* a defect ends like a failure

ASSUME RunAssumption ==
  \A p \in Program, s \in [Ref -> Value] :
    /\ Run(p, s) \in [touched : SUBSET Ref, store : [Ref -> Value], exit : Exit]
    /\ \A x \in Ref \ Run(p, s).touched : Run(p, s).store[x] = s[x]

(* A transaction depends on nothing but the references it touches.          *)
ASSUME LocalAssumption ==
  \A p \in Program, s, u \in [Ref -> Value] :
    (\A x \in Run(p, s).touched : u[x] = s[x])
      => Run(p, u).touched = Run(p, s).touched /\ Run(p, u).exit = Run(p, s).exit

VARIABLES
  value,        \* ref.versioned.value
  todos,        \* ref.todos: the transactions waiting for each reference
  tasks,        \* the execTodos tasks given to the scheduler
  executing,    \* the todos left of the task that holds the thread
  pc, prog,     \* where the fiber of each transaction is; its program
  state,        \* state.value: running, how it ended, or "none"
  txnId, nextId,
  interrupted   \* the fiber has been told to stop

vars == <<value, todos, tasks, executing, pc, prog, state, txnId, nextId, interrupted>>

TypeOK ==
  /\ value \in [Ref -> Value]
  /\ todos \in [Ref -> SUBSET Txn]
  /\ tasks \in Seq(SUBSET Txn)
  /\ executing \in SUBSET Txn
  /\ pc \in [Txn -> {"idle", "suspended", "waiting", "resumed", "ended"}]
  /\ prog \in [Txn -> Program]
  /\ state \in [Txn -> {"none", "running", "succeed", "fail", "interrupted"}]
  /\ txnId \in [Txn -> Nat]
  /\ nextId \in Nat
  /\ interrupted \in [Txn -> BOOLEAN]

Init ==
  /\ value \in [Ref -> Value]
  /\ todos = [x \in Ref |-> {}]
  /\ tasks = <<>>
  /\ executing = {}
  /\ pc = [t \in Txn |-> "idle"]
  /\ prog \in [Txn -> Program]
  /\ state = [t \in Txn |-> "none"]
  /\ txnId = [t \in Txn |-> 0]
  /\ nextId = 1
  /\ interrupted = [t \in Txn |-> FALSE]

-----------------------------------------------------------------------------
Idle == executing = {}
Attempt(t) == Run(prog[t], value)

(* completeTodos: whoever waits for a reference of the journal tries again   *)
(* in a task of the scheduler.                                              *)
CompleteTodos(touched) ==
  LET all == UNION {todos[x] : x \in touched}
  IN /\ todos' = [x \in Ref |-> IF x \in touched THEN {} ELSE todos[x]]
     /\ tasks' = IF all # {} THEN Append(tasks, all) ELSE tasks

(* Seeded bug: addTodo looks whether anybody waits, not whether this one does.*)
WaitsForFree(r) == {x \in r.touched : todos[x] = {}}

(* addTodo: wait for every reference of the journal.                        *)
WaitsFor(r) == r.touched

StateAfter(r) == IF r.exit = "retry" THEN "running" ELSE r.exit

(* unsafeAtomically and tryCommitSync: a first attempt commits its journal   *)
(* only when it succeeds.                                                   *)
Begin(t) ==
  /\ Idle
  /\ pc[t] = "idle"
  /\ ~interrupted[t]
  /\ LET r == Attempt(t)
     IN /\ value' = IF r.exit = "succeed" THEN r.store ELSE value
        /\ state' = [state EXCEPT ![t] = StateAfter(r)]
        /\ IF r.exit = "retry"
             THEN /\ pc' = [pc EXCEPT ![t] = "suspended"]
                  /\ txnId' = [txnId EXCEPT ![t] = nextId]
                  /\ nextId' = nextId + 1
                  /\ UNCHANGED <<todos, tasks>>
             ELSE /\ pc' = [pc EXCEPT ![t] = "resumed"]
                  /\ CompleteTodos(r.touched)
                  /\ UNCHANGED <<txnId, nextId>>
  /\ UNCHANGED <<executing, prog, interrupted>>

(* Seeded bug: an attempt does not look at the state.                        *)
Always(t) == TRUE

IsRunning(t) == state[t] = "running"

(* tryCommitAsync and tryCommit: nothing for a transaction that is over;     *)
(* else an attempt, which commits its journal whatever its exit (reading a  *)
(* reference marks it changed, so no journal is read-only).                 *)
TryCommitAsync(t) ==
  IF IsRunning(t)
    THEN LET r == Attempt(t)
         IN /\ value' = r.store
            /\ state' = [state EXCEPT ![t] = StateAfter(r)]
            /\ IF r.exit = "retry"
                 THEN /\ todos' = [x \in Ref |-> IF x \in WaitsFor(r)
                                     THEN todos[x] \cup {t} ELSE todos[x]]
                      /\ pc' = [pc EXCEPT ![t] = "waiting"]
                      /\ UNCHANGED tasks
                 ELSE /\ CompleteTodos(r.touched)
                      /\ pc' = [pc EXCEPT ![t] = "resumed"]
    ELSE UNCHANGED <<value, state, todos, tasks, pc>>

(* The asynchronous operation starts: register the transaction.             *)
Register(t) ==
  /\ Idle
  /\ pc[t] = "suspended"
  /\ ~interrupted[t]
  /\ TryCommitAsync(t)
  /\ UNCHANGED <<executing, prog, txnId, nextId, interrupted>>

(* A scheduler runs one of its execTodos tasks.                             *)
RunTask(i) ==
  /\ Idle
  /\ executing' = tasks[i]
  /\ tasks' = RemoveAt(tasks, i)
  /\ UNCHANGED <<value, todos, pc, prog, state, txnId, nextId, interrupted>>

(* Seeded bug: only the first todo of a task is executed.                    *)
NoneAfter(t) == {}

RestAfter(t) == executing \ {t}

(* execTodos: one todo after the other, by transaction id, on one thread.    *)
ExecTodo(t) ==
  /\ t \in executing
  /\ \A u \in executing : txnId[t] <= txnId[u]
  /\ executing' = RestAfter(t)
  /\ TryCommitAsync(t)
  /\ UNCHANGED <<prog, txnId, nextId, interrupted>>

(* Seeded bug: the asynchronous operation has no interruptor.                *)
OnlyUnregistered == {"suspended"}

Interruptible == {"suspended", "waiting"}

(* The handler of unsafeAtomically after an interruption: a transaction that *)
(* is still running is over.                                                *)
Stop(t) ==
  /\ Idle
  /\ interrupted[t]
  /\ pc[t] \in Interruptible
  /\ state' = [state EXCEPT ![t] = "interrupted"]
  /\ pc' = [pc EXCEPT ![t] = "ended"]
  /\ UNCHANGED <<value, todos, tasks, executing, prog, txnId, nextId, interrupted>>

(* The fiber goes on with the exit of the transaction.                      *)
Finish(t) ==
  /\ Idle
  /\ pc[t] = "resumed"
  /\ pc' = [pc EXCEPT ![t] = "ended"]
  /\ UNCHANGED <<value, todos, tasks, executing, prog, state, txnId, nextId, interrupted>>

Interrupt(t) ==
  /\ Idle
  /\ ~interrupted[t]
  /\ pc[t] # "ended"
  /\ interrupted' = [interrupted EXCEPT ![t] = TRUE]
  /\ UNCHANGED <<value, todos, tasks, executing, pc, prog, state, txnId, nextId>>

Step(t) == Register(t) \/ ExecTodo(t) \/ Stop(t) \/ Finish(t)
Task == \E i \in DOMAIN tasks : RunTask(i)

Next ==
  \/ \E t \in Txn : Begin(t) \/ Step(t) \/ Interrupt(t)
  \/ Task

Spec == Init /\ [][Next]_vars

(* Fibers and schedulers make progress; nobody need begin or interrupt.     *)
FairSpec == Spec /\ (\A t \in Txn : WF_vars(Step(t))) /\ WF_vars(Task)

-----------------------------------------------------------------------------
(* Programs that write nothing in an attempt that retries, or that fails.    *)
(* The guarantees below hold for them; see RetryAborts for the others.      *)
RetriesWriteNothing ==
  \A p \in Program, s \in [Ref -> Value] :
    Run(p, s).exit = "retry" => Run(p, s).store = s

FailuresWriteNothing ==
  \A p \in Program, s \in [Ref -> Value] :
    Run(p, s).exit = "fail" => Run(p, s).store = s

Pending(t) == t \in executing \/ \E i \in DOMAIN tasks : t \in tasks[i]

(* A transaction waits only for a change that has not happened: as soon as   *)
(* it would no longer retry, an attempt is scheduled, although its todos     *)
(* are spread over several references and other transactions clear them.    *)
NoLostWakeup ==
  \A t \in Txn : pc[t] = "waiting" /\ Attempt(t).exit # "retry" => Pending(t)

(* A todo can outlive its transaction; it must not bring it back.  The       *)
(* references change only when a transaction succeeds, which it does once    *)
(* and, once interrupted, never.                                            *)
Memory == INSTANCE AtomicMemory WITH
  outcome <- [t \in Txn |-> IF state[t] \in {"none", "running"} THEN "open" ELSE state[t]]

ImplementsAtomicMemory == Memory!Spec

(* Whoever could go on eventually tries again.                              *)
WaitersServed ==
  \A t \in Txn : pc[t] = "waiting" /\ Attempt(t).exit # "retry"
                   ~> pc[t] # "waiting" \/ Attempt(t).exit = "retry"

(* An interrupted transaction does not wait for ever.                       *)
InterruptedEnds ==
  \A t \in Txn : interrupted[t] /\ pc[t] # "idle" ~> pc[t] = "ended"

(* STM.retry: "Abort and retry the whole transaction": an attempt that does  *)
(* not end its transaction changes no reference.                            *)
RetryAborts == [][value' # value => state' # state]_vars
=============================================================================
