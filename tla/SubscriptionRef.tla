--------------------------- MODULE SubscriptionRef ---------------------------
(***************************************************************************)
(* A reference whose changes can be subscribed to:                           *)
(* packages/effect/src/internal/subscriptionRef.ts.  It is a Ref, an unbounded *)
(* PubSub of its values (PubSub models that), and a lock.                    *)
(***************************************************************************)
EXTENDS Integers, Sequences, FiniteSets, SequencesExt

CONSTANTS Updater, Subscriber, Interruptible, Nobody

VARIABLES
  value,        \* every update adds one
  lock,         \* who has the permit of the semaphore
  pc, read,     \* step of each; the value an updater read
  active,       \* subscriptions
  queue, seen,  \* what a subscriber has yet to see, and has seen
  cut,          \* updaters that are told to stop
  did,          \* history: updaters that set the value
  skipped       \* history: values of updaters interrupted before they published them

reference == <<value, lock>>
subscriptions == <<active, queue, seen>>
vars == <<reference, pc, read, subscriptions, cut, did, skipped>>

Fiber == Updater \cup Subscriber
Values == 0..Cardinality(Updater)

TypeOK ==
  /\ value \in Values /\ read \in [Updater -> Values] /\ skipped \subseteq Values
  /\ lock \in Fiber \cup {Nobody}
  /\ pc \in [Fiber -> {"begins", "reads", "sets", "publishes", "subscribes", "unlocks",
                       "listens", "ended"}]
  /\ active \subseteq Subscriber /\ cut \subseteq Updater /\ did \subseteq Updater
  /\ queue \in [Subscriber -> Seq(Values)] /\ seen \in [Subscriber -> Seq(Values)]

Init ==
  /\ value = 0 /\ lock = Nobody
  /\ pc = [f \in Fiber |-> "begins"] /\ read = [u \in Updater |-> 0]
  /\ active = {}
  /\ queue = [s \in Subscriber |-> <<>>] /\ seen = [s \in Subscriber |-> <<>>]
  /\ cut = {} /\ did = {} /\ skipped = {}

Goto(f, step) == pc' = [pc EXCEPT ![f] = step]

-----------------------------------------------------------------------------
(* withPermits(1), of all of them.                                          *)

(* Seeded bug: `changes` does not wait for the lock.                         *)
Unlocked(f) == f \in Subscriber \/ lock = Nobody

MayEnter(f) == lock = Nobody

Lock(f) ==
  /\ pc[f] = "begins" /\ MayEnter(f)
  /\ lock' = f
  /\ Goto(f, "reads")
  /\ UNCHANGED <<value, read, subscriptions, cut, did, skipped>>

Unlock(f) ==
  /\ pc[f] = "unlocks"
  /\ lock' = Nobody
  /\ Goto(f, IF f \in Subscriber THEN "listens" ELSE "ended")
  /\ UNCHANGED <<value, read, subscriptions, cut, did, skipped>>

(* modifyEffect: what it does with what it read may take time.                *)
Read(u) ==
  /\ pc[u] = "reads"
  /\ read' = [read EXCEPT ![u] = value]
  /\ Goto(u, "sets")
  /\ UNCHANGED <<reference, subscriptions, cut, did, skipped>>

Set(u) ==
  /\ pc[u] = "sets"
  /\ value' = read[u] + 1 /\ did' = did \cup {u}
  /\ Goto(u, "publishes")
  /\ UNCHANGED <<lock, read, subscriptions, cut, skipped>>

Publish(u) ==
  /\ pc[u] = "publishes"
  /\ queue' = [s \in Subscriber |-> IF s \in active THEN Append(queue[s], read[u] + 1)
                                                    ELSE queue[s]]
  /\ Goto(u, "unlocks")
  /\ UNCHANGED <<reference, read, active, seen, cut, did, skipped>>

Interrupt(u) ==
  /\ u \in Interruptible
  /\ cut' = cut \cup {u}
  /\ UNCHANGED <<reference, pc, read, subscriptions, did, skipped>>

Stop(u) ==
  /\ u \in cut /\ pc[u] \in {"begins", "reads", "sets", "publishes"}
  /\ Goto(u, IF lock = u THEN "unlocks" ELSE "ended")
  /\ skipped' = IF pc[u] = "publishes" THEN skipped \cup {value} ELSE skipped
  /\ UNCHANGED <<reference, read, subscriptions, cut, did>>

(* changes: the value, then what is published from the subscription on.        *)
First(s) ==
  /\ pc[s] = "reads"
  /\ seen' = [seen EXCEPT ![s] = <<value>>]
  /\ Goto(s, "subscribes")
  /\ UNCHANGED <<reference, read, active, queue, cut, did, skipped>>

Subscribe(s) ==
  /\ pc[s] = "subscribes"
  /\ active' = active \cup {s}
  /\ Goto(s, "unlocks")
  /\ UNCHANGED <<reference, read, queue, seen, cut, did, skipped>>

Take(s) ==
  /\ pc[s] = "listens" /\ queue[s] # <<>>
  /\ seen' = [seen EXCEPT ![s] = Append(@, Head(queue[s]))]
  /\ queue' = [queue EXCEPT ![s] = Tail(@)]
  /\ UNCHANGED <<reference, pc, read, active, cut, did, skipped>>

-----------------------------------------------------------------------------
UpdaterStep(u) == Lock(u) \/ Read(u) \/ Set(u) \/ Publish(u) \/ Stop(u) \/ Unlock(u)
SubscriberStep(s) == Lock(s) \/ First(s) \/ Subscribe(s) \/ Unlock(s) \/ Take(s)
Step(f) == \/ f \in Updater /\ UpdaterStep(f)
           \/ f \in Subscriber /\ SubscriberStep(f)
Next == (\E f \in Fiber : Step(f)) \/ \E u \in Updater : Interrupt(u)

Spec == Init /\ [][Next]_vars

-----------------------------------------------------------------------------
(* No update is made on a value that somebody replaced meanwhile.             *)
NoLostUpdate == value = Cardinality(did)

(* A subscriber sees the value there was and every later one, in order and     *)
(* once, but for one that is about to be published, or never will be because   *)
(* its updater was interrupted.                                             *)
Unpublished == skipped \cup {value : u \in {v \in Updater : pc[v] = "publishes"}}
ChangesSeen ==
  \A s \in active :
    LET stream == seen[s] \o queue[s]
    IN /\ ToSet(stream) = {stream[1]} \cup (((stream[1] + 1)..value) \ Unpublished)
       /\ \A i \in 2..Len(stream) : stream[i - 1] < stream[i]

Changes == NoLostUpdate /\ ChangesSeen

(* In the end every updater is done and every subscriber has seen all.         *)
Informed ==
  /\ \A u \in Updater : pc[u] = "ended"
  /\ \A s \in Subscriber : pc[s] = "listens" /\ queue[s] = <<>>
=============================================================================
