----------------------------- MODULE STMProofs -----------------------------
(***************************************************************************)
(* Theorems about the commit protocol of software transactional memory, for *)
(* any transactions, references and programs.                              *)
(*                                                                         *)
(* NoLostWakeup is not inductive: it says nothing of where a waiting         *)
(* transaction is registered.  WaitInv adds that: a transaction that waits   *)
(* and is in no task would retry, and is in the todos of every reference    *)
(* that the attempt would touch, so that whoever makes it succeed finds it. *)
(***************************************************************************)
EXTENDS STM, SequenceLemmas, TLAPS

StateInv == \A t \in Txn :
  /\ pc[t] = "idle" => state[t] = "none"
  /\ pc[t] \in {"suspended", "waiting"} => state[t] = "running"

Registered(t) ==
  /\ Attempt(t).exit = "retry"
  /\ \A x \in Attempt(t).touched : t \in todos[x]

Awaited(t) == Pending(t) \/ Registered(t)

WaitInv == \A t \in Txn : pc[t] = "waiting" => Awaited(t)

-----------------------------------------------------------------------------
(* An attempt ends with a store and an exit, and writes only what it         *)
(* touched.                                                                  *)
LEMMA AttemptType ==
  ASSUME TypeOK, NEW t \in Txn
  PROVE  /\ Attempt(t) \in [touched : SUBSET Ref, store : [Ref -> Value], exit : Exit]
         /\ \A x \in Ref \ Attempt(t).touched : Attempt(t).store[x] = value[x]
BY RunAssumption DEF TypeOK, Attempt

(* Waking the transactions that wait keeps the types of what it writes.      *)
LEMMA CompleteTodosType ==
  ASSUME TypeOK, NEW touched \in SUBSET Ref, CompleteTodos(touched)
  PROVE  todos' \in [Ref -> SUBSET Txn] /\ tasks' \in Seq(SUBSET Txn)
<1>1. UNION {todos[x] : x \in touched} \in SUBSET Txn
  BY DEF TypeOK
<1>. QED BY <1>1 DEF CompleteTodos, TypeOK

(* An attempt of the asynchronous commit keeps the types of what it writes.  *)
LEMMA TryCommitAsyncType ==
  ASSUME TypeOK, NEW t \in Txn, TryCommitAsync(t)
  PROVE  /\ value' \in [Ref -> Value]
         /\ todos' \in [Ref -> SUBSET Txn]
         /\ tasks' \in Seq(SUBSET Txn)
         /\ pc' \in [Txn -> {"idle", "suspended", "waiting", "resumed", "ended"}]
         /\ state' \in [Txn -> {"none", "running", "succeed", "fail", "interrupted"}]
<1>1. CASE ~IsRunning(t)
  BY <1>1 DEF TryCommitAsync, TypeOK
<1>2. CASE IsRunning(t)
  <2>1. Attempt(t) \in [touched : SUBSET Ref, store : [Ref -> Value], exit : Exit]
    BY AttemptType
  <2>2. StateAfter(Attempt(t)) \in {"running", "succeed", "fail"}
    BY <2>1 DEF StateAfter, Exit
  <2>4. value' \in [Ref -> Value]
    BY <1>2, <2>1 DEF TryCommitAsync
  <2>5. state' \in [Txn -> {"none", "running", "succeed", "fail", "interrupted"}]
    BY <1>2, <2>2 DEF TryCommitAsync, TypeOK
  <2>3. CASE Attempt(t).exit = "retry"
    <3>1. todos' = [x \in Ref |-> IF x \in WaitsFor(Attempt(t))
                                    THEN todos[x] \cup {t} ELSE todos[x]]
      BY <1>2, <2>3 DEF TryCommitAsync
    <3>2. todos' \in [Ref -> SUBSET Txn]
      BY <3>1 DEF TypeOK
    <3>3. tasks' = tasks /\ pc' = [pc EXCEPT ![t] = "waiting"]
      BY <1>2, <2>3 DEF TryCommitAsync
    <3>. QED BY <2>4, <2>5, <3>2, <3>3 DEF TypeOK
  <2>6. CASE Attempt(t).exit # "retry"
    <3>1. CompleteTodos(Attempt(t).touched) /\ pc' = [pc EXCEPT ![t] = "resumed"]
      BY <1>2, <2>6 DEF TryCommitAsync
    <3>2. todos' \in [Ref -> SUBSET Txn] /\ tasks' \in Seq(SUBSET Txn)
      BY <2>1, <3>1, CompleteTodosType
    <3>3. pc' \in [Txn -> {"idle", "suspended", "waiting", "resumed", "ended"}]
      BY <3>1 DEF TypeOK
    <3>. QED BY <2>4, <2>5, <3>2, <3>3
  <2>. QED BY <2>3, <2>6
<1>. QED BY <1>1, <1>2

(* Every step keeps the types.                                               *)
LEMMA TypeNext == TypeOK /\ [Next]_vars => TypeOK'
<1>. SUFFICES ASSUME TypeOK, [Next]_vars PROVE TypeOK'
  OBVIOUS
<1>1. CASE UNCHANGED vars
  BY <1>1 DEF vars, TypeOK
<1>2. ASSUME NEW t \in Txn, Begin(t) PROVE TypeOK'
  <2>1. Attempt(t) \in [touched : SUBSET Ref, store : [Ref -> Value], exit : Exit]
    BY AttemptType
  <2>2. StateAfter(Attempt(t)) \in {"running", "succeed", "fail"}
    BY <2>1 DEF StateAfter, Exit
  <2>3. CASE Attempt(t).exit = "retry"
    <3>1. state' \in [Txn -> {"none", "running", "succeed", "fail", "interrupted"}]
      BY <1>2, <2>2 DEF Begin, TypeOK
    <3>2. value' = value /\ UNCHANGED <<todos, tasks, executing, prog, interrupted>>
      BY <1>2, <2>3 DEF Begin
    <3>3. /\ pc' = [pc EXCEPT ![t] = "suspended"]
          /\ txnId' = [txnId EXCEPT ![t] = nextId]
          /\ nextId' = nextId + 1
      BY <1>2, <2>3 DEF Begin
    <3>. QED BY <3>1, <3>2, <3>3 DEF TypeOK
  <2>4. CASE Attempt(t).exit # "retry"
    BY <1>2, <2>1, <2>2, <2>4, CompleteTodosType DEF Begin, TypeOK
  <2>. QED BY <2>3, <2>4
<1>3. ASSUME NEW t \in Txn, Register(t) PROVE TypeOK'
  BY <1>3, TryCommitAsyncType DEF Register, TypeOK
<1>4. ASSUME NEW t \in Txn, ExecTodo(t) PROVE TypeOK'
  BY <1>4, TryCommitAsyncType DEF ExecTodo, RestAfter, TypeOK
<1>5. ASSUME NEW t \in Txn, Stop(t) \/ Finish(t) \/ Interrupt(t) PROVE TypeOK'
  BY <1>5 DEF Stop, Finish, Interrupt, TypeOK
<1>6. ASSUME NEW i \in DOMAIN tasks, RunTask(i) PROVE TypeOK'
  <2>1. i \in 1..Len(tasks) /\ tasks[i] \in SUBSET Txn
    BY DEF TypeOK
  <2>2. tasks' \in Seq(SUBSET Txn)
    BY <1>6, <2>1, RemoveOne DEF RunTask, TypeOK
  <2>. QED BY <1>6, <2>1, <2>2 DEF RunTask, TypeOK
<1>. QED BY <1>1, <1>2, <1>3, <1>4, <1>5, <1>6 DEF Next, Step, Task

(* Every variable keeps its type, for any programs that respect the two      *)
(* assumptions: todos and tasks hold transactions, a state is one that      *)
(* stmState.ts knows.                                                       *)
THEOREM TypeCorrect == Spec => []TypeOK
<1>1. Init => TypeOK
  BY DEF Init, TypeOK
<1>. QED BY <1>1, TypeNext, PTL DEF Spec

-----------------------------------------------------------------------------
(* Every step keeps the state of a transaction in line with where its fiber  *)
(* is.                                                                       *)
LEMMA StateNext == TypeOK /\ StateInv /\ [Next]_vars => StateInv'
<1>. SUFFICES ASSUME TypeOK, StateInv, [Next]_vars PROVE StateInv'
  OBVIOUS
<1>1. CASE UNCHANGED vars
  BY <1>1 DEF vars, StateInv
<1>2. ASSUME NEW t \in Txn, Begin(t) PROVE StateInv'
  <2>1. pc' = [pc EXCEPT ![t] = IF Attempt(t).exit = "retry" THEN "suspended" ELSE "resumed"]
    BY <1>2 DEF Begin
  <2>. QED BY <1>2, <2>1 DEF Begin, StateAfter, StateInv, TypeOK
<1>3. ASSUME NEW t \in Txn, Register(t) \/ ExecTodo(t) PROVE StateInv'
  <2>1. TryCommitAsync(t)
    BY <1>3 DEF Register, ExecTodo
  <2>2. CASE IsRunning(t)
    <3>1. /\ state' = [state EXCEPT ![t] = StateAfter(Attempt(t))]
          /\ pc' = [pc EXCEPT ![t] = IF Attempt(t).exit = "retry" THEN "waiting" ELSE "resumed"]
      BY <2>1, <2>2 DEF TryCommitAsync
    <3>. QED BY <3>1 DEF StateAfter, StateInv, TypeOK
  <2>3. CASE ~IsRunning(t)
    BY <2>1, <2>3 DEF TryCommitAsync, StateInv
  <2>. QED BY <2>2, <2>3
<1>4. ASSUME NEW t \in Txn, Stop(t) \/ Finish(t) \/ Interrupt(t) PROVE StateInv'
  BY <1>4 DEF Stop, Finish, Interrupt, StateInv, TypeOK
<1>5. ASSUME NEW i \in DOMAIN tasks, RunTask(i) PROVE StateInv'
  BY <1>5 DEF RunTask, StateInv
<1>. QED BY <1>1, <1>2, <1>3, <1>4, <1>5 DEF Next, Step, Task

(* The state of a transaction is always in line with where its fiber is.     *)
LEMMA StateCorrect == Spec => []StateInv
<1>1. Init => StateInv
  BY DEF Init, StateInv
<1>. QED BY <1>1, StateNext, TypeCorrect, PTL DEF Spec

-----------------------------------------------------------------------------
(* A registered transaction stays so while the references it touches stay.   *)
LEMMA Untouched ==
  ASSUME TypeOK, NEW u \in Txn, Registered(u), value' \in [Ref -> Value], prog' = prog,
         \A x \in Attempt(u).touched : value'[x] = value[x] /\ u \in todos'[x]
  PROVE  Registered(u)'
<1>1. prog[u] \in Program /\ value \in [Ref -> Value]
  BY DEF TypeOK
<1>2. /\ Run(prog[u], value').touched = Run(prog[u], value).touched
      /\ Run(prog[u], value').exit = Run(prog[u], value).exit
  BY <1>1, LocalAssumption DEF Attempt
<1>. QED BY <1>2 DEF Registered, Attempt

(* A wake-up that is on its way stays so while tasks are only added.         *)
LEMMA StillPending ==
  ASSUME TypeOK, NEW u \in Txn, Pending(u), u \in executing => u \in executing',
         tasks' = tasks \/ \E s \in SUBSET Txn : tasks' = Append(tasks, s)
  PROVE  Pending(u)'
<1>1. CASE u \in executing
  BY <1>1 DEF Pending
<1>2. ASSUME NEW i \in DOMAIN tasks, u \in tasks[i]
      PROVE  Pending(u)'
  <2>1. i \in DOMAIN tasks' /\ tasks'[i] = tasks[i]
    <3>1. tasks \in Seq(SUBSET Txn) /\ i \in 1..Len(tasks)
      BY DEF TypeOK
    <3>2. ASSUME NEW s \in SUBSET Txn, tasks' = Append(tasks, s)
          PROVE  i \in DOMAIN tasks' /\ tasks'[i] = tasks[i]
      BY <3>1, <3>2
    <3>. QED BY <3>2
  <2>. QED BY <1>2, <2>1 DEF Pending
<1>. QED BY <1>1, <1>2 DEF Pending

(* A transaction that ends wakes those whose references it touched, and      *)
(* leaves alone what the others depend on.                                  *)
LEMMA Completed ==
  ASSUME TypeOK, NEW u \in Txn, Awaited(u), NEW touched \in SUBSET Ref,
         CompleteTodos(touched), value' \in [Ref -> Value], prog' = prog,
         \A x \in Ref \ touched : value'[x] = value[x],
         u \in executing => u \in executing'
  PROVE  Awaited(u)'
<1>. DEFINE all == UNION {todos[x] : x \in touched}
<1>1. all \in SUBSET Txn
  BY DEF TypeOK
<1>2. /\ todos' = [x \in Ref |-> IF x \in touched THEN {} ELSE todos[x]]
      /\ tasks' = IF all # {} THEN Append(tasks, all) ELSE tasks
  BY DEF CompleteTodos
<1>. HIDE DEF all
<1>3. CASE Pending(u)
  BY <1>1, <1>2, <1>3, StillPending DEF Awaited
<1>4. CASE u \in all
  <2>1. tasks' = Append(tasks, all)
    BY <1>2, <1>4
  <2>2. Len(tasks) + 1 \in DOMAIN tasks' /\ tasks'[Len(tasks) + 1] = all
    BY <1>1, <2>1 DEF TypeOK
  <2>. QED BY <1>4, <2>2 DEF Awaited, Pending
<1>5. CASE Registered(u) /\ u \notin all
  <2>1. Attempt(u).touched \in SUBSET Ref
    BY AttemptType
  <2>2. \A x \in Attempt(u).touched : x \notin touched
    BY <1>5 DEF Registered, all
  <2>3. \A x \in Attempt(u).touched : value'[x] = value[x] /\ u \in todos'[x]
    BY <1>2, <1>5, <2>1, <2>2 DEF Registered
  <2>. QED BY <1>5, <2>3, Untouched DEF Awaited
<1>. QED BY <1>3, <1>4, <1>5 DEF Awaited

(* An attempt, of a transaction that stays in the task at hand or leaves it. *)
LEMMA WaitAttempt ==
  ASSUME RetriesWriteNothing, TypeOK, StateInv, WaitInv, NEW t \in Txn,
         TryCommitAsync(t), prog' = prog, executing' \in SUBSET Txn,
         executing' = executing \/ executing' = executing \ {t}
  PROVE  WaitInv'
<1>. SUFFICES ASSUME NEW u \in Txn, pc'[u] = "waiting" PROVE Awaited(u)'
  BY DEF WaitInv
<1>1. Attempt(t) \in [touched : SUBSET Ref, store : [Ref -> Value], exit : Exit]
  BY AttemptType
<1>2. CASE ~IsRunning(t)
  <2>1. UNCHANGED <<value, todos, tasks, pc>>
    BY <1>2 DEF TryCommitAsync
  <2>2. u # t /\ pc[u] = "waiting"
    BY <1>2, <2>1 DEF StateInv, IsRunning
  <2>3. Awaited(u) /\ (u \in executing => u \in executing')
    BY <2>2 DEF WaitInv
  <2>4. CASE Pending(u)
    BY <2>1, <2>3, <2>4, StillPending DEF Awaited
  <2>5. CASE Registered(u)
    BY <2>1, <2>5, Untouched DEF Awaited, Registered, TypeOK
  <2>. QED BY <2>3, <2>4, <2>5 DEF Awaited
<1>3. CASE IsRunning(t) /\ Attempt(t).exit = "retry"
  <2>1. /\ value' = Attempt(t).store
        /\ todos' = [x \in Ref |-> IF x \in WaitsFor(Attempt(t))
                                     THEN todos[x] \cup {t} ELSE todos[x]]
        /\ pc' = [pc EXCEPT ![t] = "waiting"]
        /\ tasks' = tasks
    BY <1>3 DEF TryCommitAsync
  <2>2. value' = value
    BY <1>3, <2>1 DEF RetriesWriteNothing, Attempt, TypeOK
  <2>3. CASE u = t
    <3>1. \A x \in Attempt(t).touched : t \in todos'[x]
      BY <1>1, <2>1 DEF WaitsFor
    <3>2. Attempt(t)' = Attempt(t)
      BY <2>2 DEF Attempt
    <3>. QED BY <1>3, <2>3, <3>1, <3>2 DEF Awaited, Registered
  <2>4. CASE u # t
    <3>1. pc[u] = "waiting" /\ (u \in executing => u \in executing')
      BY <2>1, <2>4 DEF TypeOK
    <3>2. Awaited(u)
      BY <3>1 DEF WaitInv
    <3>3. CASE Pending(u)
      BY <2>1, <3>1, <3>3, StillPending DEF Awaited
    <3>4. CASE Registered(u)
      <4>1. Attempt(u).touched \in SUBSET Ref
        BY AttemptType
      <4>2. \A x \in Attempt(u).touched : value'[x] = value[x] /\ u \in todos'[x]
        BY <2>1, <2>2, <3>4, <4>1 DEF Registered
      <4>. QED BY <2>2, <3>4, <4>2, Untouched DEF Awaited, TypeOK
    <3>. QED BY <3>2, <3>3, <3>4 DEF Awaited
  <2>. QED BY <2>3, <2>4
<1>4. CASE IsRunning(t) /\ Attempt(t).exit # "retry"
  <2>1. /\ value' = Attempt(t).store
        /\ CompleteTodos(Attempt(t).touched)
        /\ pc' = [pc EXCEPT ![t] = "resumed"]
    BY <1>4 DEF TryCommitAsync
  <2>2. pc[u] = "waiting" /\ (u \in executing => u \in executing')
    BY <2>1 DEF TypeOK
  <2>3. /\ Awaited(u)
        /\ value' \in [Ref -> Value]
        /\ \A x \in Ref \ Attempt(t).touched : value'[x] = value[x]
    BY <1>1, <2>1, <2>2, AttemptType DEF WaitInv
  <2>. QED BY <1>1, <2>1, <2>2, <2>3, Completed
<1>. QED BY <1>2, <1>3, <1>4

(* Beginning a transaction keeps every wait justified.                       *)
LEMMA WaitBegin ==
  ASSUME TypeOK, WaitInv, NEW t \in Txn, Begin(t)
  PROVE  WaitInv'
<1>. SUFFICES ASSUME NEW u \in Txn, pc'[u] = "waiting" PROVE Awaited(u)'
  BY DEF WaitInv
<1>. DEFINE r == Attempt(t)
<1>1. /\ r \in [touched : SUBSET Ref, store : [Ref -> Value], exit : Exit]
      /\ \A x \in Ref \ r.touched : r.store[x] = value[x]
  BY AttemptType
<1>2. /\ pc' = [pc EXCEPT ![t] = IF r.exit = "retry" THEN "suspended" ELSE "resumed"]
      /\ value' = IF r.exit = "succeed" THEN r.store ELSE value
      /\ UNCHANGED <<executing, prog>>
  BY DEF Begin
<1>3. pc[u] = "waiting" /\ Awaited(u)
  BY <1>2 DEF TypeOK, WaitInv
<1>4. CASE r.exit = "retry"
  <2>1. UNCHANGED <<value, todos, tasks, executing, prog>>
    BY <1>4 DEF Begin
  <2>2. Awaited(u)' = Awaited(u)
    BY <2>1 DEF Awaited, Pending, Registered, Attempt
  <2>. QED BY <1>3, <2>2
<1>5. CASE r.exit # "retry"
  <2>1. CompleteTodos(r.touched)
    BY <1>5 DEF Begin
  <2>2. /\ value' \in [Ref -> Value]
        /\ \A x \in Ref \ r.touched : value'[x] = value[x]
    BY <1>1, <1>2 DEF TypeOK
  <2>. QED BY <1>1, <1>2, <1>3, <2>1, <2>2, Completed
<1>. QED BY <1>4, <1>5

(* A task that starts: its transactions are the ones it executes.            *)
LEMMA WaitRunTask ==
  ASSUME TypeOK, WaitInv, NEW i \in DOMAIN tasks, RunTask(i)
  PROVE  WaitInv'
<1>. SUFFICES ASSUME NEW u \in Txn, pc'[u] = "waiting" PROVE Awaited(u)'
  BY DEF WaitInv
<1>1. Awaited(u) /\ UNCHANGED <<value, todos, prog>>
  BY DEF WaitInv, RunTask
<1>2. CASE Registered(u)
  BY <1>1, <1>2 DEF Awaited, Registered, Attempt
<1>3. CASE Pending(u)
  <2>1. PICK j \in DOMAIN tasks : u \in tasks[j]
    BY <1>3 DEF Pending, RunTask, Idle
  <2>2. CASE j = i
    BY <2>1, <2>2 DEF RunTask, Awaited, Pending
  <2>3. CASE j # i
    <3>1. i \in 1..Len(tasks) /\ j \in 1..Len(tasks) /\ tasks \in Seq(SUBSET Txn)
      BY DEF TypeOK
    <3>2. tasks' = RemoveAt(tasks, i)
      BY DEF RunTask
    <3>4. \E k \in DOMAIN RemoveAt(tasks, i) : RemoveAt(tasks, i)[k] = tasks[j]
      BY <2>3, <3>1, KeepsOthers
    <3>. QED BY <2>1, <3>2, <3>4 DEF Awaited, Pending
  <2>. QED BY <2>2, <2>3
<1>. QED BY <1>1, <1>2, <1>3 DEF Awaited

(* Every step keeps every wait justified.                                    *)
LEMMA WaitNext ==
  ASSUME RetriesWriteNothing
  PROVE  TypeOK /\ StateInv /\ WaitInv /\ [Next]_vars => WaitInv'
<1>. SUFFICES ASSUME TypeOK, StateInv, WaitInv, [Next]_vars PROVE WaitInv'
  OBVIOUS
<1>1. ASSUME UNCHANGED <<value, todos, tasks, executing, prog>>,
             \A u \in Txn : pc'[u] = "waiting" => pc[u] = "waiting"
      PROVE  WaitInv'
  BY <1>1 DEF WaitInv, Awaited, Pending, Registered, Attempt
<1>2. CASE UNCHANGED vars
  BY <1>1, <1>2 DEF vars
<1>3. ASSUME NEW t \in Txn, Begin(t) PROVE WaitInv'
  BY <1>3, WaitBegin
<1>4. ASSUME NEW t \in Txn, Register(t) PROVE WaitInv'
  BY <1>4, WaitAttempt DEF Register, TypeOK
<1>5. ASSUME NEW t \in Txn, ExecTodo(t) PROVE WaitInv'
  BY <1>5, WaitAttempt DEF ExecTodo, RestAfter, TypeOK
<1>6. ASSUME NEW t \in Txn, Stop(t) \/ Finish(t) \/ Interrupt(t) PROVE WaitInv'
  BY <1>1, <1>6 DEF Stop, Finish, Interrupt, TypeOK
<1>7. ASSUME NEW i \in DOMAIN tasks, RunTask(i) PROVE WaitInv'
  BY <1>7, WaitRunTask
<1>. QED BY <1>2, <1>3, <1>4, <1>5, <1>6, <1>7 DEF Next, Step, Task

(* When no attempt that retries writes, a transaction that could go on has   *)
(* an attempt scheduled: no wake-up is lost between the check and the wait,  *)
(* nor when another transaction empties the todos it was in.                *)
THEOREM WakeupsKept ==
  ASSUME RetriesWriteNothing
  PROVE  Spec => []NoLostWakeup
<1>1. Init => WaitInv
  BY DEF Init, WaitInv
<1>2. TypeOK /\ StateInv /\ WaitInv /\ [Next]_vars => WaitInv'
  BY WaitNext
<1>3. WaitInv => NoLostWakeup
  BY DEF WaitInv, NoLostWakeup, Awaited, Registered
<1>. QED BY <1>1, <1>2, <1>3, TypeCorrect, StateCorrect, PTL DEF Spec

-----------------------------------------------------------------------------
Outcome == [t \in Txn |-> IF state[t] \in {"none", "running"} THEN "open" ELSE state[t]]

(* A step that ends transaction t, or none.                                  *)
LEMMA MemoryStep ==
  ASSUME TypeOK, NEW t \in Txn, state[t] \in {"none", "running"},
         NEW end \in {"running", "succeed", "fail", "interrupted"},
         state' = [state EXCEPT ![t] = end],
         IF end = "succeed"
           THEN Attempt(t).exit = "succeed" /\ value' = Attempt(t).store
           ELSE value' = value
  PROVE  [Memory!Next]_(Memory!vars)
<1>1. Outcome[t] = "open"
  BY DEF Outcome
<1>2. PICK p \in Program : p = prog[t]
  BY DEF TypeOK
<1>3. CASE end = "running"
  <2>1. Outcome' = Outcome
    BY <1>3 DEF Outcome, TypeOK
  <2>. QED BY <1>3, <2>1 DEF Memory!vars, Outcome
<1>4. CASE end # "running"
  <2>1. Outcome' = [Outcome EXCEPT ![t] = end]
    BY <1>4 DEF Outcome, TypeOK
  <2>2. CASE end = "succeed"
    <3>1. Memory!Commit(t, p)
      BY <1>1, <1>2, <2>1, <2>2 DEF Memory!Commit, Outcome, Attempt
    <3>. QED BY <3>1 DEF Memory!Next
  <2>3. CASE end \in {"fail", "interrupted"}
    <3>1. Memory!Abort(t, end)
      BY <1>1, <2>1, <2>3 DEF Memory!Abort, Outcome
    <3>. QED BY <2>3, <3>1 DEF Memory!Next
  <2>. QED BY <1>4, <2>2, <2>3
<1>. QED BY <1>3, <1>4

(* Every step is a step of the atomic memory or leaves it alone.             *)
LEMMA MemoryNext ==
  ASSUME RetriesWriteNothing, FailuresWriteNothing
  PROVE  TypeOK /\ StateInv /\ [Next]_vars => [Memory!Next]_(Memory!vars)
<1>. SUFFICES ASSUME TypeOK, StateInv, [Next]_vars PROVE [Memory!Next]_(Memory!vars)
  OBVIOUS
<1>1. ASSUME UNCHANGED <<value, state>> PROVE [Memory!Next]_(Memory!vars)
  BY <1>1 DEF Memory!vars
<1>2. CASE UNCHANGED vars
  BY <1>1, <1>2 DEF vars
<1>3. ASSUME NEW t \in Txn
      PROVE  /\ Attempt(t).exit \in Exit
             /\ Attempt(t).exit \in {"retry", "fail"} => Attempt(t).store = value
  <2>1. prog[t] \in Program /\ value \in [Ref -> Value]
    BY DEF TypeOK
  <2>. QED BY <2>1, AttemptType DEF Attempt, RetriesWriteNothing, FailuresWriteNothing
<1>4. ASSUME NEW t \in Txn, Begin(t) PROVE [Memory!Next]_(Memory!vars)
  <2>1. /\ state[t] = "none"
        /\ state' = [state EXCEPT ![t] = StateAfter(Attempt(t))]
        /\ value' = IF Attempt(t).exit = "succeed" THEN Attempt(t).store ELSE value
    BY <1>4 DEF Begin, StateInv
  <2>. QED BY <1>3, <2>1, MemoryStep DEF StateAfter, Exit
<1>5. ASSUME NEW t \in Txn, TryCommitAsync(t) PROVE [Memory!Next]_(Memory!vars)
  <2>1. CASE IsRunning(t)
    <3>1. /\ state[t] = "running"
          /\ state' = [state EXCEPT ![t] = StateAfter(Attempt(t))]
          /\ value' = Attempt(t).store
      BY <1>5, <2>1 DEF TryCommitAsync, IsRunning
    <3>. QED BY <1>3, <3>1, MemoryStep DEF StateAfter, Exit
  <2>2. CASE ~IsRunning(t)
    BY <1>1, <1>5, <2>2 DEF TryCommitAsync
  <2>. QED BY <2>1, <2>2
<1>6. ASSUME NEW t \in Txn, Stop(t) PROVE [Memory!Next]_(Memory!vars)
  <2>1. /\ state[t] = "running"
        /\ state' = [state EXCEPT ![t] = "interrupted"]
        /\ value' = value
    BY <1>6 DEF Stop, Interruptible, StateInv
  <2>. QED BY <2>1, MemoryStep
<1>7. ASSUME NEW t \in Txn, Finish(t) \/ Interrupt(t) PROVE [Memory!Next]_(Memory!vars)
  BY <1>1, <1>7 DEF Finish, Interrupt
<1>8. ASSUME NEW i \in DOMAIN tasks, RunTask(i) PROVE [Memory!Next]_(Memory!vars)
  BY <1>1, <1>8 DEF RunTask
<1>. QED BY <1>2, <1>4, <1>5, <1>6, <1>7, <1>8 DEF Next, Step, Task, Register, ExecTodo

(* Journals, todos and retries implement an atomic memory when attempts that *)
(* retry or fail write nothing: a transaction takes effect once, whole, as   *)
(* if it ran alone, and never after it failed or was interrupted.           *)
THEOREM AtomicMemoryImplemented ==
  ASSUME RetriesWriteNothing, FailuresWriteNothing
  PROVE  Spec => ImplementsAtomicMemory
<1>1. Init => Memory!Init
  BY DEF Init, Memory!Init
<1>2. TypeOK /\ StateInv /\ [Next]_vars => [Memory!Next]_(Memory!vars)
  BY MemoryNext
<1>. QED BY <1>1, <1>2, TypeCorrect, StateCorrect, PTL
         DEF Spec, ImplementsAtomicMemory, Memory!Spec
=============================================================================
