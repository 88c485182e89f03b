---------------------------- MODULE AtomicMemory ----------------------------
(***************************************************************************)
(* What software transactional memory promises, independently of journals, *)
(* todos and retries: a transaction takes effect at most once, at one       *)
(* instant, as if it ran alone; one that fails or is interrupted never does.*)
(***************************************************************************)
CONSTANTS Txn, Ref, Value, Program, Run(_, _)

VARIABLES value,     \* the content of every reference
          outcome    \* how every transaction ended, "open" before it did

vars == <<value, outcome>>

TypeOK ==
  /\ value \in [Ref -> Value]
  /\ outcome \in [Txn -> {"open", "succeed", "fail", "interrupted"}]

Init ==
  /\ value \in [Ref -> Value]
  /\ outcome = [t \in Txn |-> "open"]

Commit(t, p) ==
  /\ outcome[t] = "open"
  /\ Run(p, value).exit = "succeed"
  /\ value' = Run(p, value).store
  /\ outcome' = [outcome EXCEPT ![t] = "succeed"]

Abort(t, why) ==
  /\ outcome[t] = "open"
  /\ outcome' = [outcome EXCEPT ![t] = why]
  /\ UNCHANGED value

Next == \E t \in Txn :
          \/ \E p \in Program : Commit(t, p)
          \/ \E why \in {"fail", "interrupted"} : Abort(t, why)

Spec == Init /\ [][Next]_vars
=============================================================================
