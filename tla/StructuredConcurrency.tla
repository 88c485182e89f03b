------------------------ MODULE StructuredConcurrency ------------------------
(***************************************************************************)
(* What the fiber runtime promises about the lifetimes of fibers,           *)
(* independently of inboxes, schedulers and run loops: a fiber is forked    *)
(* once, in the scope of a living fiber or in the global scope; it ends     *)
(* once, with an exit that never changes; and it does not end while a fiber *)
(* forked in its scope is alive.                                            *)
(***************************************************************************)
CONSTANTS Fiber, NoFiber, Exit, NotDone

VARIABLES alive,   \* the fibers created and not finished
          parent,  \* the scope of every fiber created
          outcome  \* the exit of every finished fiber

vars == <<alive, parent, outcome>>

TypeOK ==
  /\ alive \in SUBSET Fiber
  /\ parent \in [Fiber -> Fiber \cup {NoFiber}]
  /\ outcome \in [Fiber -> Exit \cup {NotDone}]

Init ==
  /\ alive = {}
  /\ parent = [f \in Fiber |-> NoFiber]
  /\ outcome = [f \in Fiber |-> NotDone]

Begin(f, p) ==
  /\ f \notin alive
  /\ outcome[f] = NotDone
  /\ p \in alive \cup {NoFiber}
  /\ alive' = alive \cup {f}
  /\ parent' = [parent EXCEPT ![f] = p]
  /\ UNCHANGED outcome

End(f, e) ==
  /\ f \in alive
  /\ \A c \in alive : parent[c] # f
  /\ alive' = alive \ {f}
  /\ outcome' = [outcome EXCEPT ![f] = e]
  /\ UNCHANGED parent

Next == \E f \in Fiber :
          \/ \E p \in Fiber \cup {NoFiber} : Begin(f, p)
          \/ \E e \in Exit : End(f, e)

Spec == Init /\ [][Next]_vars
=============================================================================
