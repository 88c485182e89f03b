------------------------------ MODULE ScopedRef ------------------------------
(***************************************************************************)
(* A reference to a value that has resources, and is replaced with them:      *)
(* packages/effect/src/internal/scopedRef.ts, on which Resource and            *)
(* Reloadable are built, and modifyEffect of SynchronizedRef, whose lock is a  *)
(* semaphore of one permit (the gap after it is taken is Semaphore's).        *)
(***************************************************************************)
EXTENDS Integers, FiniteSets

CONSTANTS
  Setter, Interruptible,  \* each sets a value of its own, once
  First, Nobody           \* the value it is made with

VARIABLES
  current,      \* whose value and scope the Ref holds
  scope,        \* of each value: "none", "open" or "closed"
  lock,         \* who holds the permit
  pc,           \* step of a setter
  owner,        \* the scope the reference was made in: "open", "closes", "closed"
  last,         \* whose scope its finalizer closes
  cut,          \* setters that are told to stop
  leaked,       \* history: values of setters that were interrupted before they stored them
  late,         \* history: values stored after that finalizer read the reference
  broken        \* history: the last set failed or was interrupted after it closed the old scope

vars == <<current, scope, lock, pc, owner, last, cut, leaked, late, broken>>

Value == {First} \cup Setter
Ended == {"ended", "failed", "stopped"}

TypeOK ==
  /\ current \in Value /\ last \in Value \cup {Nobody}
  /\ scope \in [Value -> {"none", "open", "closed"}]
  /\ lock \in Setter \cup {Nobody}
  /\ pc \in [Setter -> {"begins", "reads", "makes", "acquires", "stores", "fails"} \cup Ended]
  /\ owner \in {"open", "closes", "closed"}
  /\ cut \subseteq Interruptible /\ leaked \subseteq Setter /\ late \subseteq Setter
  /\ broken \in BOOLEAN

(* fromAcquire.                                                             *)
Init ==
  /\ current = First /\ last = Nobody
  /\ scope = [v \in Value |-> IF v = First THEN "open" ELSE "none"]
  /\ lock = Nobody /\ owner = "open"
  /\ pc = [s \in Setter |-> "begins"]
  /\ cut = {} /\ leaked = {} /\ late = {} /\ broken = FALSE

Goto(s, step) == pc' = [pc EXCEPT ![s] = step]

-----------------------------------------------------------------------------
(* set, in modifyEffect.                                                    *)

Lock(s) ==
  /\ pc[s] = "begins" /\ lock = Nobody
  /\ lock' = s
  /\ Goto(s, "reads")
  /\ UNCHANGED <<current, scope, owner, last, cut, leaked, late, broken>>

(* Seeded bug: the old scope is left open.                                    *)
LeftOpen == scope

Closed == [scope EXCEPT ![current] = "closed"]

(* Uninterruptible: the old scope is closed, then a new one is made.          *)
CloseOld(s) ==
  /\ pc[s] = "reads"
  /\ scope' = Closed
  /\ Goto(s, "makes")
  /\ UNCHANGED <<current, lock, owner, last, cut, leaked, late, broken>>

Make(s) ==
  /\ pc[s] = "makes"
  /\ scope' = [scope EXCEPT ![s] = "open"]
  /\ Goto(s, "acquires")
  /\ UNCHANGED <<current, lock, owner, last, cut, leaked, late, broken>>

Acquire(s) ==
  /\ pc[s] = "acquires"
  /\ \/ Goto(s, "stores") /\ UNCHANGED scope
     \/ Goto(s, "fails") /\ scope' = [scope EXCEPT ![s] = "closed"]
  /\ UNCHANGED <<current, lock, owner, last, cut, leaked, late, broken>>

(* The region ends: an interrupted setter stores nothing.  One whose acquire   *)
(* failed stores what was there, whose scope is closed.                      *)
Store(s) ==
  /\ pc[s] \in {"stores", "fails"} /\ s \notin cut
  /\ IF pc[s] = "stores"
       THEN /\ current' = s /\ broken' = FALSE
            /\ late' = IF owner = "open" THEN late ELSE late \cup {s}
            /\ Goto(s, "ended")
       ELSE broken' = TRUE /\ Goto(s, "failed") /\ UNCHANGED <<current, late>>
  /\ lock' = Nobody
  /\ UNCHANGED <<scope, owner, last, cut, leaked>>

Interrupt(s) ==
  /\ s \in Interruptible
  /\ cut' = cut \cup {s}
  /\ UNCHANGED <<current, scope, lock, pc, owner, last, leaked, late, broken>>

Stop(s) ==
  /\ s \in cut /\ pc[s] \in {"begins", "reads", "stores", "fails"}
  /\ Goto(s, "stopped")
  /\ lock' = IF lock = s THEN Nobody ELSE lock
  /\ leaked' = IF pc[s] = "stores" THEN leaked \cup {s} ELSE leaked
  /\ broken' = (broken \/ pc[s] \in {"stores", "fails"})
  /\ UNCHANGED <<current, scope, owner, last, cut, late>>

-----------------------------------------------------------------------------
(* close, the finalizer of the reference: without the lock.                  *)

ReadLast ==
  /\ owner = "open" /\ owner' = "closes"
  /\ last' = current
  /\ UNCHANGED <<current, scope, lock, pc, cut, leaked, late, broken>>

CloseLast ==
  /\ owner = "closes" /\ owner' = "closed"
  /\ scope' = [scope EXCEPT ![last] = "closed"]
  /\ UNCHANGED <<current, lock, pc, last, cut, leaked, late, broken>>

-----------------------------------------------------------------------------
SetterStep(s) == Lock(s) \/ CloseOld(s) \/ Make(s) \/ Acquire(s) \/ Store(s) \/ Stop(s)
Next ==
  \/ \E s \in Setter : SetterStep(s) \/ Interrupt(s)
  \/ ReadLast \/ CloseLast

Spec == Init /\ [][Next]_vars

-----------------------------------------------------------------------------
(* Never two values have resources, but for those that an interruption left    *)
(* behind.                                                                  *)
OneHasResources == Cardinality({v \in Value \ leaked : scope[v] = "open"}) <= 1

(* While nobody replaces it, the value has its resources, unless the last      *)
(* attempt to replace it failed or was interrupted.                          *)
CurrentIsOpen == lock = Nobody /\ owner = "open" /\ ~broken => scope[current] = "open"

(* When the reference is closed and nobody replaces its value any more, no     *)
(* resources are left, but for those, and those stored too late.             *)
NothingLeft ==
  owner = "closed" /\ lock = Nobody =>
    \A v \in Value \ (leaked \cup late) : scope[v] # "open"

RefIsHeld == OneHasResources /\ CurrentIsOpen /\ NothingLeft
=============================================================================
