------------------------------- MODULE Request -------------------------------
(***************************************************************************)
(* Requests that are batched, cached and shared: fromRequest of                *)
(* packages/effect/src/internal/query.ts, invokeWithInterrupt and the          *)
(* primitive Blocked of internal/fiberRuntime.ts.                            *)
(*                                                                         *)
(* A fiber asks for several requests at once, each of which is a slot.  For    *)
(* those that nobody asked before it makes an entry and has the resolver run   *)
(* on them all; for the others it waits with whoever did.  An entry counts     *)
(* who listens, and the resolver is interrupted when nobody does.            *)
(***************************************************************************)
EXTENDS Integers, FiniteSets

CONSTANTS Slot, Query, Plans,       \* of each slot: whose it is, and its request
          Interruptible, Nobody

VARIABLES
  plan,       \* one of Plans
  cache,      \* the entry of each request, named by the slot that made it
  of,         \* the entry a slot listens to
  count,      \* listeners.count of an entry
  handle,     \* its Deferred
  leader,     \* one slot of each block of entries that are resolved together
  proc,       \* of a leader: its resolver's fiber
  watch,      \* and the fiber that runs the block
  pc, alone,  \* step of a slot; whether it is no longer part of the batch
  cut,        \* slots that are told to stop
  gone,       \* history: who left an entry and is still counted
  abandoned   \* history: entries that were never given to a resolver

entries == <<cache, count, handle>>
block == <<leader, proc, watch>>
slots == <<plan, of, pc, alone>>
history == <<gone, abandoned>>
vars == <<entries, block, slots, cut, history>>

Asker(s) == plan[s][1]
Wants(s) == plan[s][2]
Ended == {"answered", "failed", "stopped"}

TypeOK ==
  /\ plan \in Plans /\ cache \in [Query -> Slot \cup {Nobody}]
  /\ of \in [Slot -> Slot \cup {Nobody}] /\ leader \in [Slot -> Slot \cup {Nobody}]
  /\ count \in [Slot -> 0..Cardinality(Slot)] /\ gone \in [Slot -> 0..Cardinality(Slot)]
  /\ handle \in [Slot -> {"pending", "value", "interrupted"}]
  /\ proc \in [Slot -> {"none", "runs", "ended", "died", "interrupted"}]
  /\ watch \in [Slot -> {"none", "forks", "registers", "listens", "stops", "completes", "over", "thrown"}]
  /\ pc \in [Slot -> {"begins", "right", "left", "resumes", "waits", "invalidates"} \cup Ended]
  /\ alone \subseteq Slot /\ cut \subseteq Slot /\ abandoned \subseteq Slot

Init ==
  /\ plan \in Plans /\ cache = [r \in Query |-> Nobody]
  /\ of = [s \in Slot |-> Nobody] /\ leader = [s \in Slot |-> Nobody]
  /\ count = [s \in Slot |-> 0] /\ gone = [s \in Slot |-> 0]
  /\ handle = [s \in Slot |-> "pending"]
  /\ proc = [s \in Slot |-> "none"] /\ watch = [s \in Slot |-> "none"]
  /\ pc = [s \in Slot |-> "begins"]
  /\ alone = {} /\ cut = {} /\ abandoned = {}

Goto(s, step) == pc' = [pc EXCEPT ![s] = step]
Made(s) == of[s] = s
Block(l) == {e \in Slot : leader[e] = l}

-----------------------------------------------------------------------------
(* fromRequest, and Blocked, which ends it: the block is run by a daemon.      *)

Attach(s) ==
  /\ pc[s] = "begins"
  /\ LET e == cache[Wants(s)] IN
       IF e = Nobody
         THEN /\ cache' = [cache EXCEPT ![Wants(s)] = s]
              /\ of' = [of EXCEPT ![s] = s] /\ count' = [count EXCEPT ![s] = 1]
              /\ Goto(s, "right")
         ELSE /\ of' = [of EXCEPT ![s] = e] /\ count' = [count EXCEPT ![e] = @ + 1]
              /\ Goto(s, "left")
              /\ UNCHANGED cache
  /\ UNCHANGED <<handle, block, plan, alone, cut, history>>

Batch(s) == IF s \in alone THEN {s} ELSE {t \in Slot \ alone : Asker(t) = Asker(s)}

Fork(s) ==
  LET made == {t \in Batch(s) : pc[t] = "right"}
      l == CHOOSE t \in made : TRUE
  IN /\ \A t \in Batch(s) : pc[t] \in {"right", "left"}
     /\ pc' = [t \in Slot |-> IF t \in Batch(s) THEN "resumes" ELSE pc[t]]
     /\ alone' = alone \cup Batch(s)
     /\ leader' = [t \in Slot |-> IF t \in made THEN l ELSE leader[t]]
     /\ watch' = IF made = {} THEN watch ELSE [watch EXCEPT ![l] = "forks"]
     /\ UNCHANGED <<entries, proc, plan, of, cut, history>>

Resume(s) ==
  /\ pc[s] = "resumes"
  /\ Goto(s, "waits")
  /\ UNCHANGED <<entries, block, plan, of, alone, cut, history>>

(* listeners.decrement, which tells the observers of the entry.               *)
Unwanted(l, left) == \A e \in Block(l) : left[e] = 0

Decrement(e) ==
  /\ count' = [count EXCEPT ![e] = @ - 1]
  /\ watch' = IF leader[e] # Nobody /\ watch[leader[e]] = "listens" /\ Unwanted(leader[e], count')
                THEN [watch EXCEPT ![leader[e]] = "stops"] ELSE watch

(* Who shares an entry asks again if the one who made it was interrupted.      *)
Receive(s) ==
  /\ pc[s] = "waits" /\ handle[of[s]] # "pending"
  /\ Decrement(of[s])
  /\ Goto(s, CASE handle[of[s]] = "value" -> "answered"
               [] handle[of[s]] # "value" /\ Made(s) -> "failed"
               [] OTHER -> "invalidates")
  /\ UNCHANGED <<cache, handle, leader, proc, plan, of, alone, cut, history>>

(* Seeded bug: whatever entry the request has by now is invalidated.          *)
AnyEntry(s) == TRUE

IsCurrent(s) == cache[Wants(s)] = of[s]

Invalidate(s) ==
  /\ pc[s] = "invalidates"
  /\ cache' = IF IsCurrent(s) THEN [cache EXCEPT ![Wants(s)] = Nobody] ELSE cache
  /\ Goto(s, "begins")
  /\ UNCHANGED <<count, handle, block, plan, of, alone, cut, history>>

Interrupt(a) ==
  /\ a \in Interruptible
  /\ cut' = cut \cup {s \in Slot : Asker(s) = a}
  /\ UNCHANGED <<entries, block, slots, history>>

(* The slot stops: only one that made the entry and waits has a finalizer,     *)
(* the others remain counted.                                               *)
Stop(s) ==
  /\ s \in cut /\ pc[s] \notin Ended
  /\ Goto(s, "stopped")
  /\ IF Made(s) /\ pc[s] = "waits"
       THEN Decrement(s) /\ UNCHANGED gone
       ELSE /\ gone' = IF pc[s] \in {"begins", "invalidates"} THEN gone
                       ELSE [gone EXCEPT ![of[s]] = @ + 1]
            /\ UNCHANGED <<count, watch>>
  /\ abandoned' = IF pc[s] = "right" THEN abandoned \cup {s} ELSE abandoned
  /\ UNCHANGED <<cache, handle, leader, proc, plan, of, alone, cut>>

-----------------------------------------------------------------------------
(* invokeWithInterrupt, in the fiber that runs the block of a leader.          *)

ForkResolver(l) ==
  /\ watch[l] = "forks"
  /\ proc' = [proc EXCEPT ![l] = "runs"]
  /\ watch' = [watch EXCEPT ![l] = "registers"]
  /\ UNCHANGED <<entries, leader, slots, cut, history>>

(* Seeded bug: the block is over however the resolver ends.                  *)
Forgets(exit) == "over"

(* If the resolver dies its exit is a failure and nothing else is done.        *)
After(exit) == IF exit = "died" THEN "over" ELSE "completes"

(* A resolver that has ended calls its new observer at once, which uses         *)
(* `cleanup` before it is declared: that throws, and the block dies.           *)
Register(l) ==
  /\ watch[l] = "registers"
  /\ watch' = [watch EXCEPT ![l] = IF proc[l] # "runs" THEN "thrown"
                                   ELSE IF Unwanted(l, count) THEN "stops" ELSE "listens"]
  /\ UNCHANGED <<entries, leader, proc, slots, cut, history>>

(* interruptFiber(processing).                                              *)
InterruptResolver(l) ==
  /\ watch[l] = "stops" /\ proc[l] = "runs"
  /\ proc' = [proc EXCEPT ![l] = "interrupted"]
  /\ UNCHANGED <<entries, leader, watch, slots, cut, history>>

Stopped(l) ==
  /\ watch[l] = "stops" /\ proc[l] # "runs"
  /\ watch' = [watch EXCEPT ![l] = "completes"]
  /\ UNCHANGED <<entries, leader, proc, slots, cut, history>>

(* What the resolver has not completed is interrupted.                       *)
Residual(l) == {e \in Block(l) : handle[e] = "pending"}

CompleteRest(l) ==
  /\ watch[l] = "completes"
  /\ IF Residual(l) = {} THEN watch' = [watch EXCEPT ![l] = "over"] /\ UNCHANGED handle
       ELSE /\ handle' = [handle EXCEPT ![CHOOSE e \in Residual(l) : TRUE] = "interrupted"]
            /\ UNCHANGED watch
  /\ UNCHANGED <<cache, count, leader, proc, slots, cut, history>>

(* The resolver completes requests in any order, and may end or die before.    *)
Complete(l, e) ==
  /\ proc[l] = "runs" /\ e \in Residual(l)
  /\ handle' = [handle EXCEPT ![e] = "value"]
  /\ UNCHANGED <<cache, count, block, slots, cut, history>>

EndResolver(l, exit) ==
  /\ proc[l] = "runs"
  /\ proc' = [proc EXCEPT ![l] = exit]
  /\ watch' = IF watch[l] = "listens" THEN [watch EXCEPT ![l] = After(exit)] ELSE watch
  /\ UNCHANGED <<entries, leader, slots, cut, history>>

-----------------------------------------------------------------------------
SlotStep(s) ==
  Attach(s) \/ Fork(s) \/ Resume(s) \/ Receive(s) \/ Invalidate(s) \/ Stop(s)
BlockStep(l) ==
  ForkResolver(l) \/ Register(l) \/ InterruptResolver(l) \/ Stopped(l) \/ CompleteRest(l)
Next ==
  \/ \E s \in Slot : SlotStep(s) \/ BlockStep(s)
  \/ \E a \in Interruptible : Interrupt(a)
  \/ \E l, e \in Slot : Complete(l, e)
  \/ \E l \in Slot, exit \in {"ended", "died"} : EndResolver(l, exit)

Spec == Init /\ [][Next]_vars

(* Fibers go on; a resolver need not.                                       *)
FairSpec == Spec /\ \A s \in Slot : WF_vars(SlotStep(s)) /\ WF_vars(BlockStep(s))

-----------------------------------------------------------------------------
Listens(s, e) == of[s] = e /\ pc[s] \in {"right", "left", "resumes", "waits"}

(* An entry counts who listens to it (and who was interrupted and did not say   *)
(* so), and a resolver goes on only while somebody is counted.                *)
ListenersCounted ==
  /\ \A e \in Slot : count[e] = gone[e] + Cardinality({s \in Slot : Listens(s, e)})
  /\ \A l \in Slot : watch[l] = "listens" => \E e \in Block(l) : count[e] > 0

(* A request is not run again while an entry of it may be completed.          *)
RunOnce == \A s \in Slot : of[s] = s /\ handle[s] = "pending" => cache[Wants(s)] = s

(* Nobody fails because somebody else was interrupted: only if the resolver     *)
(* did not complete the request.                                            *)
NotTheirFault == \A s \in Slot : pc[s] = "failed" => proc[leader[s]] = "ended"

RequestsShared == ListenersCounted /\ RunOnce /\ NotTheirFault

(* In the end everybody is answered, unless the resolver goes on or died, or    *)
(* ended before it was watched, or who made the entry was interrupted before    *)
(* it gave it to a resolver; and no resolver goes on for nobody.               *)
Resolved ==
  /\ \A s \in Slot : pc[s] \notin Ended =>
       /\ pc[s] = "waits"
       /\ \/ of[s] \in abandoned
          \/ /\ leader[of[s]] # Nobody
             /\ proc[leader[of[s]]] \in {"runs", "died"} \/ watch[leader[of[s]]] = "thrown"
  /\ \A l \in Slot : proc[l] = "runs" => \E e \in Block(l) : count[e] > 0
=============================================================================
