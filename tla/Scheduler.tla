----------------------------- MODULE Scheduler -----------------------------
(***************************************************************************)
(* packages/effect/src/Scheduler.ts: PriorityBuckets and MixedScheduler     *)
(* (makeBatched is the same without the depth).                            *)
(*                                                                         *)
(* Tasks are kept in buckets by priority.  One callback of the platform, a  *)
(* microtask or now and then a timer, takes all the buckets and runs their  *)
(* tasks; meanwhile tasks schedule others, which go to new buckets and to   *)
(* the next callback.  A task that throws ends the batch.                  *)
(***************************************************************************)
EXTENDS Naturals, Sequences, SequencesExt

CONSTANTS Task, NoTask, Priority,
          MaxNextTickBeforeTimer     \* maxNextTickBeforeTimer

ASSUME TaskAssumption == NoTask \notin Task
ASSUME PriorityAssumption == Priority \subseteq Nat
ASSUME TickAssumption == MaxNextTickBeforeTimer \in Nat

VARIABLES
  buckets,     \* tasks.buckets: <<priority of the first task, tasks>>
  running,
  callbacks,   \* starveInternal calls the platform is to make
  batch,       \* tasks left of the buckets being run
  depth,       \* argument of the starveInternal call under way
  current,     \* the task that holds the thread
  starving,    \* starveInternal holds the thread
  wedged,      \* history: a task threw
  priority, age, clock, ran   \* history: what was scheduled, when, and what ran

scheduled == <<priority, age, clock>>
vars == <<buckets, running, callbacks, batch, depth, current, starving, wedged, scheduled, ran>>

Callback == [kind : {"microtask", "timer"}, depth : Nat]

TypeOK ==
  /\ buckets \in Seq(Priority \X Seq(Task))
  /\ running \in BOOLEAN
  /\ callbacks \in Seq(Callback)
  /\ batch \in Seq(Task)
  /\ depth \in 0..MaxNextTickBeforeTimer
  /\ current \in Task \cup {NoTask}
  /\ starving \in BOOLEAN
  /\ wedged \in BOOLEAN
  /\ priority \in [Task -> Priority]
  /\ age \in [Task -> Nat]
  /\ clock \in Nat
  /\ ran \in SUBSET Task

Init ==
  /\ buckets = <<>>
  /\ running = FALSE
  /\ callbacks = <<>>
  /\ batch = <<>>
  /\ depth = 0
  /\ current = NoTask
  /\ starving = FALSE
  /\ wedged = FALSE
  /\ priority \in [Task -> Priority]
  /\ age = [t \in Task |-> 0]
  /\ clock = 1
  /\ ran = {}

-----------------------------------------------------------------------------
(* Seeded bug: the loop ends at the first bucket of a low enough priority.   *)
FirstBucket(p) ==
  {i \in DOMAIN buckets : buckets[i][1] <= p
                            /\ \A j \in 1..(i - 1) : buckets[j][1] > p}

(* The bucket a task goes to: the last whose priority is not above its own.  *)
BucketOf(p) ==
  {i \in DOMAIN buckets : /\ \A j \in 1..i : buckets[j][1] <= p
                          /\ i < Len(buckets) => buckets[i + 1][1] > p}

(* PriorityBuckets.scheduleTask.                                            *)
Insert(t, p) ==
  IF BucketOf(p) = {}
    THEN <<<<p, <<t>>>>>> \o buckets
    ELSE [i \in DOMAIN buckets |->
            IF i \in BucketOf(p) THEN <<buckets[i][1], Append(buckets[i][2], t)>>
                                 ELSE buckets[i]]

(* starve: a microtask, or a timer after too many of them in a row.          *)
Starve(d) ==
  callbacks' = Append(callbacks, IF d >= MaxNextTickBeforeTimer
                                   THEN [kind |-> "timer", depth |-> 0]
                                   ELSE [kind |-> "microtask", depth |-> d + 1])

(* Seeded bug: scheduleTask does not look whether a callback is on its way.   *)
Always == TRUE

MustStarve == ~running

(* scheduleTask, by a task or, when the thread is idle, by anybody.          *)
ScheduleTask(t) ==
  /\ age[t] = 0
  /\ starving => current # NoTask
  /\ buckets' = Insert(t, priority[t])
  /\ age' = [age EXCEPT ![t] = clock]
  /\ clock' = clock + 1
  /\ running' = TRUE
  /\ IF MustStarve THEN Starve(0) ELSE UNCHANGED callbacks
  /\ UNCHANGED <<batch, depth, current, starving, wedged, priority, ran>>

(* starveInternal begins: all the buckets, one after the other.              *)
StarveInternal(i) ==
  /\ ~starving
  /\ starving' = TRUE
  /\ callbacks' = RemoveAt(callbacks, i)
  /\ depth' = callbacks[i].depth
  /\ batch' = FlattenSeq([j \in DOMAIN buckets |-> buckets[j][2]])
  /\ buckets' = <<>>
  /\ UNCHANGED <<running, current, wedged, scheduled, ran>>

RunTask ==
  /\ starving
  /\ batch # <<>>
  /\ current' = Head(batch)
  /\ batch' = Tail(batch)
  /\ ran' = ran \cup {Head(batch)}
  /\ UNCHANGED <<buckets, running, callbacks, depth, starving, wedged, scheduled>>

(* Seeded bug: the scheduler rests whatever was scheduled meanwhile.         *)
NoMore == TRUE

Exhausted == buckets = <<>>

(* starveInternal ends: rest, or starve again for the new tasks.             *)
EndBatch ==
  /\ starving
  /\ batch = <<>>
  /\ starving' = FALSE
  /\ current' = NoTask
  /\ IF Exhausted THEN running' = FALSE /\ UNCHANGED callbacks
                  ELSE Starve(depth) /\ UNCHANGED running
  /\ UNCHANGED <<buckets, batch, depth, wedged, scheduled, ran>>

(* A task throws: starveInternal is left, with the rest of its batch.        *)
Throw ==
  /\ current # NoTask
  /\ starving' = FALSE
  /\ current' = NoTask
  /\ batch' = <<>>
  /\ wedged' = TRUE
  /\ UNCHANGED <<buckets, running, callbacks, depth, scheduled, ran>>

Starving == (\E i \in DOMAIN callbacks : StarveInternal(i)) \/ RunTask \/ EndBatch

Next ==
  \/ \E t \in Task : ScheduleTask(t)
  \/ Starving
  \/ Throw

Spec == Init /\ [][Next]_vars

(* The platform makes the calls it was given, and a call goes on until it is *)
(* over; tasks need not throw.                                              *)
FairSpec == Spec /\ WF_vars(Starving)

-----------------------------------------------------------------------------
(* `running` says that the scheduler will come back, and exactly once: with   *)
(* none every later task would stay in the buckets for ever.  A task that    *)
(* throws is the exception: `running` stays set and nobody comes back.       *)
OneDriver ==
  ~wedged =>
    /\ Len(callbacks) + (IF starving THEN 1 ELSE 0) = IF running THEN 1 ELSE 0
    /\ buckets # <<>> => running

Waiting == ToSet(batch) \cup UNION {ToSet(buckets[i][2]) : i \in DOMAIN buckets}

(* Tasks are not overtaken: when a task runs, none that was scheduled before *)
(* it with the same or a smaller priority is still waiting, although a task *)
(* may be put in a bucket of another priority.                             *)
NotOvertaken ==
  [][\A t \in ran' \ ran, u \in Waiting :
       priority[u] <= priority[t] => age[u] >= age[t]]_vars

(* No task is forgotten: there are always times when all that were scheduled  *)
(* have run, unless one of them threw.                                       *)
EveryTaskRuns == []<>(wedged \/ \A t \in Task : age[t] > 0 => t \in ran)
=============================================================================
