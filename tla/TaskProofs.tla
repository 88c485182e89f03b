----------------------------- MODULE TaskProofs -----------------------------
(***************************************************************************)
(* Who runs the fibers, who forks many of them, races them and keeps track of *)
(* them.                                                                    *)
(*                                                                         *)
(* The scheduler has exactly one driver, for any tasks and priorities.  The *)
(* proof needs the types of the variables that drive it, and that a task    *)
(* holds the thread only while starveInternal does: a task that throws ends  *)
(* it.  Nor is a task overtaken (LineInv): buckets are in the order of their  *)
(* labels, and who joins one comes before all that are in those behind it.  *)
(* FiberMap (M) keeps track of its fibers, for any number of fibers and     *)
(* keys.  A forEach (E), race (R) or raceAll (A) returns what its fibers did, *)
(* for any number of items and racers.                                      *)
(***************************************************************************)
EXTENDS FiberTasks, SequenceLemmas, FiniteSetTheorems, TLAPS

DriverType ==
  /\ callbacks \in Seq(Callback)
  /\ depth \in Nat
  /\ running \in BOOLEAN /\ starving \in BOOLEAN /\ wedged \in BOOLEAN
  /\ current # NoTask => starving

(* Starting a driver adds one callback.                                      *)
LEMMA StarveType ==
  ASSUME DriverType, NEW d \in Nat, Starve(d)
  PROVE  callbacks' \in Seq(Callback) /\ Len(callbacks') = Len(callbacks) + 1
<1>. DEFINE next == IF d >= MaxNextTickBeforeTimer THEN [kind |-> "timer", depth |-> 0]
                                                   ELSE [kind |-> "microtask", depth |-> d + 1]
<1>1. next \in Callback
  BY DEF Callback
<1>2. callbacks' = Append(callbacks, next)
  BY DEF Starve
<1>. HIDE DEF next
<1>. QED BY <1>1, <1>2 DEF DriverType

(* Every step keeps at most one driver.                                      *)
LEMMA DriverNext == DriverType /\ OneDriver /\ [Next]_vars => DriverType' /\ OneDriver'
<1>. SUFFICES ASSUME DriverType, OneDriver, [Next]_vars PROVE DriverType' /\ OneDriver'
  OBVIOUS
<1>. USE DEF DriverType, OneDriver
<1>1. CASE UNCHANGED vars
  BY <1>1 DEF vars
<1>2. ASSUME NEW t \in Task, ScheduleTask(t) PROVE DriverType' /\ OneDriver'
  <2>1. CASE running
    BY <1>2, <2>1 DEF ScheduleTask, MustStarve
  <2>2. CASE ~running
    <3>1. Starve(0)
      BY <1>2, <2>2 DEF ScheduleTask, MustStarve
    <3>2. callbacks' \in Seq(Callback) /\ Len(callbacks') = Len(callbacks) + 1
      BY <3>1, StarveType
    <3>. QED BY <1>2, <2>2, <3>2 DEF ScheduleTask
  <2>. QED BY <2>1, <2>2
<1>3. ASSUME NEW i \in DOMAIN callbacks, StarveInternal(i) PROVE DriverType' /\ OneDriver'
  <2>1. i \in 1..Len(callbacks) /\ callbacks[i] \in Callback
    OBVIOUS
  <2>. callbacks[i].depth \in Nat
    BY <2>1 DEF Callback
  <2>2. callbacks' \in Seq(Callback) /\ Len(callbacks') = Len(callbacks) - 1
    BY <1>3, <2>1, RemoveOne DEF StarveInternal
  <2>. QED BY <1>3, <2>1, <2>2 DEF StarveInternal
<1>4. CASE RunTask
  BY <1>4 DEF RunTask
<1>5. CASE EndBatch
  <2>1. CASE Exhausted
    <3>1. /\ UNCHANGED <<callbacks, depth, wedged, buckets>> /\ buckets = <<>>
          /\ running' = FALSE /\ starving' = FALSE /\ current' = NoTask
      BY <1>5, <2>1 DEF EndBatch, Exhausted
    <3>2. ~wedged => Len(callbacks) = 0
      BY <1>5 DEF EndBatch
    <3>3. DriverType'
      BY <3>1
    <3>. QED BY <3>1, <3>2, <3>3
  <2>2. CASE ~Exhausted
    <3>1. callbacks' \in Seq(Callback) /\ Len(callbacks') = Len(callbacks) + 1
      BY <1>5, <2>2, StarveType DEF EndBatch
    <3>2. /\ UNCHANGED <<running, depth, wedged, buckets>>
          /\ starving /\ starving' = FALSE /\ current' = NoTask
      BY <1>5, <2>2 DEF EndBatch
    <3>3. DriverType'
      BY <3>1, <3>2
    <3>. QED BY <3>1, <3>2, <3>3
  <2>. QED BY <2>1, <2>2
<1>6. CASE Throw
  BY <1>6 DEF Throw
<1>. QED BY <1>1, <1>2, <1>3, <1>4, <1>5, <1>6 DEF Next, Starving

(* `running` is set exactly when one call of starveInternal is to be made or *)
(* is under way, and no task waits without it, unless a task threw.         *)
THEOREM OneDriverAlways == Spec => []OneDriver
<1>1. Init => DriverType /\ OneDriver
  <2>1. Init => callbacks = <<>> /\ buckets = <<>> /\ depth = 0 /\ current = NoTask
                  /\ ~running /\ ~starving /\ ~wedged
    BY DEF Init
  <2>2. Init => running \in BOOLEAN /\ starving \in BOOLEAN /\ wedged \in BOOLEAN
    BY DEF Init
  <2>. QED BY <2>1, <2>2 DEF DriverType, OneDriver
<1>2. DriverType /\ OneDriver /\ [Next]_vars => (DriverType /\ OneDriver)'
  BY DriverNext
<1>. QED BY <1>1, <1>2, PTL DEF Spec

-----------------------------------------------------------------------------
(* Of two tasks, which may run first; those that wait, and how the buckets and *)
(* the batch keep to that.  A bucket is labelled with the least priority in it, *)
(* and all that come after it have greater ones than whoever joins it now.      *)
MayPrecede == {p \in Task \X Task : priority[p[2]] <= priority[p[1]] => age[p[1]] <= age[p[2]]}
Aged == {t \in Task : 0 < age[t] /\ age[t] < clock}

LineType ==
  /\ buckets \in Seq(Nat \X Seq(Task)) /\ batch \in Seq(Task)
  /\ priority \in [Task -> Nat] /\ age \in [Task -> Nat] /\ clock \in Nat \ {0}

Labelled ==
  /\ \A i, j \in 1..Len(buckets) : i < j => buckets[i][1] < buckets[j][1]
  /\ \A i \in 1..Len(buckets) : \A k \in 1..Len(buckets[i][2]) :
       buckets[i][2][k] \in Aged /\ buckets[i][1] <= priority[buckets[i][2][k]]

BucketsInOrder ==
  \A i, j \in 1..Len(buckets) : \A k \in 1..Len(buckets[i][2]) : \A l \in 1..Len(buckets[j][2]) :
    i < j \/ (i = j /\ k < l) => <<buckets[i][2][k], buckets[j][2][l]>> \in MayPrecede

BatchInOrder ==
  /\ \A k \in 1..Len(batch) : batch[k] \in Aged
  /\ \A k, l \in 1..Len(batch) : k < l => <<batch[k], batch[l]>> \in MayPrecede
  /\ \A k \in 1..Len(batch) : \A i \in 1..Len(buckets) : \A l \in 1..Len(buckets[i][2]) :
       age[batch[k]] <= age[buckets[i][2][l]]

LineInv == LineType /\ Labelled /\ BucketsInOrder /\ BatchInOrder

-----------------------------------------------------------------------------
LEMMA BucketType ==
  ASSUME LineType, NEW i \in 1..Len(buckets)
  PROVE  buckets[i][1] \in Nat /\ buckets[i][2] \in Seq(Task) /\ buckets[i] = <<buckets[i][1], buckets[i][2]>>
BY DEF LineType

(* Every task has a bucket to go to, or is of less priority than all of them.   *)
LEMMA OneBucket ==
  ASSUME LineInv, NEW p \in Nat
  PROVE  /\ BucketOf(p) = {} => \A i \in 1..Len(buckets) : buckets[i][1] > p
         /\ \A i \in BucketOf(p) : /\ i \in 1..Len(buckets) /\ buckets[i][1] <= p
                                   /\ \A j \in 1..Len(buckets) : i < j => buckets[j][1] > p
<1>0. /\ Len(buckets) \in Nat /\ DOMAIN buckets = 1..Len(buckets)
      /\ \A i \in 1..Len(buckets) : buckets[i][1] \in Nat
      /\ \A i, j \in 1..Len(buckets) : i < j => buckets[i][1] < buckets[j][1]
  BY BucketType DEF LineInv, LineType, Labelled
<1>1. ASSUME BucketOf(p) = {}, NEW m \in 1..Len(buckets), ~(buckets[m][1] > p) PROVE FALSE
  <2>. DEFINE High == {i \in Nat : i \in m..Len(buckets) => buckets[i][1] <= p}
  <2>1. 0 \in High
    OBVIOUS
  <2>2. ASSUME NEW i \in Nat, i \in High PROVE i + 1 \in High
    <3>. SUFFICES ASSUME i + 1 \in m..Len(buckets), ~(buckets[i + 1][1] <= p) PROVE FALSE
      OBVIOUS
    <3>1. i + 1 # m
      BY <1>0, <1>1
    <3>2. i \in 1..Len(buckets) /\ i + 1 \in 1..Len(buckets) /\ buckets[i][1] <= p
      BY <1>0, <2>2, <3>1
    <3>3. buckets[i + 1][1] > p
      BY <1>0, <3>2
    <3>4. \A j \in 1..i : buckets[j][1] <= p
      <4>. SUFFICES ASSUME NEW j \in 1..i PROVE buckets[j][1] <= p
        OBVIOUS
      <4>1. j \in 1..Len(buckets) /\ (j = i \/ j < i)
        BY <1>0, <3>2
      <4>2. buckets[j][1] \in Nat /\ buckets[i][1] \in Nat /\ (j < i => buckets[j][1] < buckets[i][1])
        BY <1>0, <3>2, <4>1
      <4>. QED BY <3>2, <4>1, <4>2
    <3>5. i \in BucketOf(p)
      BY <1>0, <3>2, <3>3, <3>4 DEF BucketOf
    <3>. QED BY <1>1, <3>5
  <2>. HIDE DEF High
  <2>3. Len(buckets) \in High
    BY <1>0, <2>1, <2>2, CountUp
  <2>4. Len(buckets) \in 1..Len(buckets) /\ buckets[Len(buckets)][1] <= p
    BY <1>0, <2>3 DEF High
  <2>5. \A j \in 1..Len(buckets) : buckets[j][1] <= p
    <3>. SUFFICES ASSUME NEW j \in 1..Len(buckets) PROVE buckets[j][1] <= p
      OBVIOUS
    <3>1. buckets[j][1] \in Nat /\ buckets[Len(buckets)][1] \in Nat
          /\ (j < Len(buckets) => buckets[j][1] < buckets[Len(buckets)][1])
      BY <1>0, <2>4
    <3>. QED BY <1>0, <2>4, <3>1
  <2>6. Len(buckets) \in BucketOf(p)
    BY <1>0, <2>4, <2>5 DEF BucketOf
  <2>. QED BY <1>1, <2>6
<1>2. ASSUME NEW i \in BucketOf(p)
      PROVE  /\ i \in 1..Len(buckets) /\ buckets[i][1] <= p
             /\ \A j \in 1..Len(buckets) : i < j => buckets[j][1] > p
  <2>1. /\ i \in 1..Len(buckets) /\ buckets[i][1] <= p
        /\ i < Len(buckets) => buckets[i + 1][1] > p
    BY <1>0 DEF BucketOf
  <2>2. ASSUME NEW j \in 1..Len(buckets), i < j PROVE buckets[j][1] > p
    <3>1. i + 1 \in 1..Len(buckets) /\ buckets[i + 1][1] > p /\ (j = i + 1 \/ i + 1 < j)
      BY <1>0, <2>1, <2>2
    <3>2. buckets[j][1] \in Nat /\ buckets[i + 1][1] \in Nat /\ (i + 1 < j => buckets[i + 1][1] < buckets[j][1])
      BY <1>0, <3>1
    <3>. QED BY <3>1, <3>2
  <2>. QED BY <2>1, <2>2
<1>. QED BY <1>1, <1>2

(* A task that comes in now is younger than all that wait.                    *)
LEMMA ComesLast ==
  ASSUME LineInv, NEW t \in Task, age[t] = 0, age' = [age EXCEPT ![t] = clock], clock' = clock + 1,
         priority' = priority
  PROVE  /\ t \notin Aged /\ t \in Aged' /\ age'[t] = clock
         /\ \A u \in Aged : u \in Aged' /\ u # t /\ age'[u] = age[u] /\ <<u, t>> \in MayPrecede'
         /\ \A u, v \in Aged : <<u, v>> \in MayPrecede => <<u, v>> \in MayPrecede'
         /\ \A u \in Aged : priority[u] > priority[t] => <<t, u>> \in MayPrecede'
<1>0. age \in [Task -> Nat] /\ clock \in Nat \ {0} /\ priority \in [Task -> Nat] /\ Aged \subseteq Task
  BY DEF LineInv, LineType, Aged
<1>1. t \notin Aged /\ age'[t] = clock /\ \A u \in Task : u # t => age'[u] = age[u]
  BY <1>0 DEF Aged
<1>2. \A u \in Aged : u \in Aged' /\ u # t /\ age'[u] = age[u] /\ age'[u] <= age'[t] /\ clock > 0
  BY <1>0, <1>1 DEF Aged
<1>3. t \in Aged'
  BY <1>0, <1>1 DEF Aged
<1>4. \A u \in Aged : <<u, t>> \in MayPrecede'
  BY <1>0, <1>2 DEF MayPrecede
<1>5. \A u, v \in Aged : <<u, v>> \in MayPrecede => <<u, v>> \in MayPrecede'
  BY <1>0, <1>2 DEF MayPrecede
<1>6. \A u \in Aged : priority[u] > priority[t] => <<t, u>> \in MayPrecede'
  BY <1>0 DEF MayPrecede
<1>. QED BY <1>1, <1>2, <1>3, <1>4, <1>5, <1>6

(* A task goes to the end of its bucket.                                      *)
LEMMA JoinsBucket ==
  ASSUME LineInv, NEW t \in Task, ScheduleTask(t), NEW i \in BucketOf(priority[t])
  PROVE  LineInv'
<1>. DEFINE p == priority[t]
            b == buckets
            d == buckets'
<1>0. /\ age[t] = 0 /\ age' = [age EXCEPT ![t] = clock] /\ clock' = clock + 1
      /\ buckets' = [j \in DOMAIN buckets |->
                       IF j \in BucketOf(p) THEN <<buckets[j][1], Append(buckets[j][2], t)>> ELSE buckets[j]]
      /\ UNCHANGED <<batch, priority>>
      /\ LineType /\ Labelled /\ BucketsInOrder /\ BatchInOrder
      /\ p \in Nat
  BY DEF ScheduleTask, Insert, LineInv, LineType
<1>1. /\ \A j \in BucketOf(p) : j = i
      /\ i \in 1..Len(b) /\ b[i][1] <= p /\ \A j \in 1..Len(b) : i < j => b[j][1] > p
  <2>1. \A j \in BucketOf(p) : j \in 1..Len(b) /\ b[j][1] <= p
                               /\ \A k \in 1..Len(b) : j < k => b[k][1] > p
    BY <1>0, OneBucket
  <2>2. ASSUME NEW j \in BucketOf(p) PROVE j = i
    <3>1. i \in 1..Len(b) /\ j \in 1..Len(b) /\ b[i][1] \in Nat /\ b[j][1] \in Nat
      BY <1>0, <2>1, BucketType
    <3>2. ~(i < j) /\ ~(j < i)
      BY <1>0, <2>1, <3>1
    <3>. QED BY <3>1, <3>2
  <2>. QED BY <2>1, <2>2
<1>2. /\ Len(d) = Len(b) /\ d \in Seq(Nat \X Seq(Task))
      /\ \A j \in 1..Len(b) : j # i => d[j] = b[j]
      /\ d[i] = <<b[i][1], Append(b[i][2], t)>>
  <2>1. DOMAIN b = 1..Len(b) /\ Len(b) \in Nat /\ b \in Seq(Nat \X Seq(Task))
    BY <1>0 DEF LineType
  <2>2. /\ \A j \in 1..Len(b) : j # i => d[j] = b[j]
        /\ d[i] = <<b[i][1], Append(b[i][2], t)>>
    BY <1>0, <1>1, <2>1
  <2>3. b[i][1] \in Nat /\ Append(b[i][2], t) \in Seq(Task)
    BY <1>0, <1>1, BucketType
  <2>4. \A j \in 1..Len(b) : d[j] \in Nat \X Seq(Task)
    <3>1. \A j \in 1..Len(b) : b[j] \in Nat \X Seq(Task)
      BY <2>1
    <3>2. <<b[i][1], Append(b[i][2], t)>> \in Nat \X Seq(Task)
      BY <2>3
    <3>. HIDE DEF b, d
    <3>. SUFFICES ASSUME NEW j \in 1..Len(b) PROVE d[j] \in Nat \X Seq(Task)
      OBVIOUS
    <3>3. CASE j = i
      BY <2>2, <3>2, <3>3
    <3>4. CASE j # i
      BY <2>2, <3>1, <3>4
    <3>. QED BY <3>3, <3>4
  <2>5. d = [j \in 1..Len(b) |-> d[j]]
    BY <1>0, <2>1
  <2>. HIDE DEF d
  <2>6. d \in Seq(Nat \X Seq(Task)) /\ Len(d) = Len(b)
    BY <2>1, <2>4, <2>5
  <2>. QED BY <2>2, <2>6
<1>. HIDE DEF d
<1>3. /\ \A j \in 1..Len(d) : d[j][1] = b[j][1]
      /\ \A j \in 1..Len(d) : j # i => d[j][2] = b[j][2]
      /\ Len(d[i][2]) = Len(b[i][2]) + 1 /\ d[i][2][Len(b[i][2]) + 1] = t
      /\ \A k \in 1..Len(b[i][2]) : d[i][2][k] = b[i][2][k]
      /\ Len(b[i][2]) \in Nat
  <2>1. b[i][2] \in Seq(Task)
    BY <1>0, <1>1, BucketType
  <2>2. d[i][1] = b[i][1] /\ d[i][2] = Append(b[i][2], t)
    BY <1>2
  <2>3. \A j \in 1..Len(d) : d[j][1] = b[j][1] /\ (j # i => d[j][2] = b[j][2])
    BY <1>2, <2>2
  <2>4. \A q \in Seq(Task) : /\ Len(Append(q, t)) = Len(q) + 1 /\ Append(q, t)[Len(q) + 1] = t /\ Len(q) \in Nat
                            /\ \A k \in 1..Len(q) : Append(q, t)[k] = q[k]
    OBVIOUS
  <2>. HIDE DEF b
  <2>. QED BY <2>1, <2>2, <2>3, <2>4
<1>4. ASSUME NEW j \in 1..Len(d), NEW k \in 1..Len(d[j][2])
      PROVE  \/ d[j][2][k] = t /\ j = i /\ k = Len(b[i][2]) + 1
             \/ k \in 1..Len(b[j][2]) /\ d[j][2][k] = b[j][2][k]
  <2>. HIDE DEF b
  <2>1. CASE j = i
    <3>1. k \in 1..Len(b[i][2]) + 1
      BY <1>3, <2>1
    <3>2. k = Len(b[i][2]) + 1 \/ k \in 1..Len(b[i][2])
      BY <1>3, <3>1
    <3>. QED BY <1>3, <2>1, <3>2
  <2>2. CASE j # i
    BY <1>3, <2>2
  <2>. QED BY <2>1, <2>2
<1>5. /\ t \notin Aged /\ t \in Aged' /\ age'[t] = clock
      /\ \A u \in Aged : u \in Aged' /\ u # t /\ age'[u] = age[u] /\ <<u, t>> \in MayPrecede'
      /\ \A u, v \in Aged : <<u, v>> \in MayPrecede => <<u, v>> \in MayPrecede'
      /\ \A u \in Aged : priority[u] > priority[t] => <<t, u>> \in MayPrecede'
  BY <1>0, ComesLast
<1>6. \A j \in 1..Len(b) : \A k \in 1..Len(b[j][2]) : b[j][2][k] \in Aged /\ b[j][1] <= priority[b[j][2][k]]
  BY <1>0 DEF Labelled
<1>7. LineType'
  BY <1>0, <1>2 DEF LineType, d
<1>8. Labelled'
  <2>1. \A j, k \in 1..Len(d) : j < k => d[j][1] < d[k][1]
    BY <1>0, <1>2, <1>3 DEF Labelled
  <2>2. ASSUME NEW j \in 1..Len(d), NEW k \in 1..Len(d[j][2])
        PROVE  d[j][2][k] \in Aged' /\ d[j][1] <= priority'[d[j][2][k]]
    <3>1. CASE d[j][2][k] = t /\ j = i
      BY <1>0, <1>1, <1>2, <1>5, <3>1
    <3>2. CASE k \in 1..Len(b[j][2]) /\ d[j][2][k] = b[j][2][k]
      <4>1. j \in 1..Len(b) /\ d[j][1] = b[j][1] /\ priority' = priority
        BY <1>0, <1>2, <1>3
      <4>2. b[j][2][k] \in Aged /\ b[j][1] <= priority[b[j][2][k]]
        BY <1>6, <3>2, <4>1
      <4>. QED BY <1>5, <3>2, <4>1, <4>2
    <3>. QED BY <1>4, <3>1, <3>2
  <2>. QED BY <2>1, <2>2 DEF Labelled, d
<1>9. BucketsInOrder'
  <2>. SUFFICES ASSUME NEW j \in 1..Len(d), NEW k \in 1..Len(d), NEW x \in 1..Len(d[j][2]), NEW y \in 1..Len(d[k][2]),
                       j < k \/ (j = k /\ x < y)
                PROVE  <<d[j][2][x], d[k][2][y]>> \in MayPrecede'
    BY DEF BucketsInOrder, d
  <2>1. CASE d[j][2][x] = t /\ j = i /\ x = Len(b[i][2]) + 1
    <3>1. j < k
      BY <1>3, <2>1
    <3>2. k \in 1..Len(b) /\ k # i /\ y \in 1..Len(b[k][2]) /\ d[k][2][y] = b[k][2][y]
      <4>1. k \in 1..Len(b) /\ k # i
        BY <1>2, <2>1, <3>1
      <4>2. d[k][2] = b[k][2]
        BY <1>3, <4>1
      <4>. QED BY <4>1, <4>2
    <3>3. b[k][1] > p /\ b[k][2][y] \in Aged /\ b[k][1] <= priority[b[k][2][y]]
      BY <1>1, <1>6, <2>1, <3>1, <3>2
    <3>4. b[k][1] \in Nat /\ priority[b[k][2][y]] \in Nat
      BY <1>0, <3>2, <3>3, BucketType DEF Aged, LineType
    <3>5. priority[b[k][2][y]] > p
      BY <1>0, <3>3, <3>4
    <3>. QED BY <1>5, <2>1, <3>2, <3>3, <3>5
  <2>2. CASE x \in 1..Len(b[j][2]) /\ d[j][2][x] = b[j][2][x]
    <3>1. b[j][2][x] \in Aged /\ j \in 1..Len(b)
      BY <1>2, <1>6, <2>2
    <3>2. CASE d[k][2][y] = t
      BY <1>5, <2>2, <3>1, <3>2
    <3>3. CASE y \in 1..Len(b[k][2]) /\ d[k][2][y] = b[k][2][y]
      <4>1. k \in 1..Len(b) /\ b[k][2][y] \in Aged
        BY <1>2, <1>6, <3>3
      <4>2. <<b[j][2][x], b[k][2][y]>> \in MayPrecede
        BY <1>0, <2>2, <3>1, <3>3, <4>1 DEF BucketsInOrder
      <4>. QED BY <1>5, <2>2, <3>1, <3>3, <4>1, <4>2
    <3>. QED BY <1>4, <3>2, <3>3
  <2>. QED BY <1>4, <2>1, <2>2
<1>10. BatchInOrder'
  <2>0. \A k \in 1..Len(batch) : batch[k] \in Aged
    BY <1>0 DEF BatchInOrder
  <2>1. \A k \in 1..Len(batch) : batch[k] \in Aged /\ age[batch[k]] <= clock
    <3>1. \A u \in Aged : age[u] <= clock
      BY <1>0 DEF Aged, LineType
    <3>. QED BY <2>0, <3>1
  <2>2. \A k \in 1..Len(batch) : \A j \in 1..Len(d) : \A l \in 1..Len(d[j][2]) : age'[batch[k]] <= age'[d[j][2][l]]
    <3>. SUFFICES ASSUME NEW k \in 1..Len(batch), NEW j \in 1..Len(d), NEW l \in 1..Len(d[j][2])
                  PROVE  age'[batch[k]] <= age'[d[j][2][l]]
      OBVIOUS
    <3>1. CASE d[j][2][l] = t
      BY <1>5, <2>1, <3>1
    <3>2. CASE l \in 1..Len(b[j][2]) /\ d[j][2][l] = b[j][2][l]
      <4>1. j \in 1..Len(b) /\ b[j][2][l] \in Aged /\ age[batch[k]] <= age[b[j][2][l]]
        BY <1>0, <1>2, <1>6, <3>2 DEF BatchInOrder
      <4>. QED BY <1>5, <2>1, <3>2, <4>1
    <3>. QED BY <1>4, <3>1, <3>2
  <2>3. \A k, l \in 1..Len(batch) : k < l => <<batch[k], batch[l]>> \in MayPrecede
    BY <1>0 DEF BatchInOrder
  <2>4. \A k \in 1..Len(batch) : batch[k] \in Aged'
    BY <1>5, <2>0
  <2>5. \A k, l \in 1..Len(batch) : k < l => <<batch[k], batch[l]>> \in MayPrecede'
    BY <1>5, <2>0, <2>3
  <2>6. batch' = batch
    BY <1>0
  <2>. QED BY <2>2, <2>4, <2>5, <2>6 DEF BatchInOrder, d
<1>. QED BY <1>7, <1>8, <1>9, <1>10 DEF LineInv

(* Or begins one, before all the others.                                      *)
LEMMA BeginsBucket ==
  ASSUME LineInv, NEW t \in Task, ScheduleTask(t), BucketOf(priority[t]) = {}
  PROVE  LineInv'
<1>. DEFINE p == priority[t]
            b == buckets
            d == buckets'
<1>0. /\ age[t] = 0 /\ age' = [age EXCEPT ![t] = clock] /\ clock' = clock + 1
      /\ buckets' = <<<<p, <<t>>>>>> \o buckets
      /\ UNCHANGED <<batch, priority>>
      /\ LineType /\ Labelled /\ BucketsInOrder /\ BatchInOrder
      /\ p \in Nat
  BY DEF ScheduleTask, Insert, LineInv, LineType
<1>1. \A j \in 1..Len(b) : b[j][1] > p
  BY <1>0, OneBucket
<1>2. /\ d \in Seq(Nat \X Seq(Task)) /\ Len(d) = Len(b) + 1 /\ Len(b) \in Nat
      /\ d[1] = <<p, <<t>>>>
      /\ \A j \in 1..Len(d) : j # 1 => j - 1 \in 1..Len(b) /\ d[j] = b[j - 1]
  <2>1. b \in Seq(Nat \X Seq(Task))
    BY <1>0 DEF LineType
  <2>. DEFINE a == <<<<p, <<t>>>>>>
  <2>2. a \in Seq(Nat \X Seq(Task)) /\ Len(a) = 1 /\ a[1] = <<p, <<t>>>>
    <3>0. <<t>> \in Seq(Task) /\ p \in Nat
      BY <1>0
    <3>1. <<p, <<t>>>> \in Nat \X Seq(Task)
      <4>. HIDE DEF p
      <4>1. \A q \in Seq(Task) : <<p, q>> \in Nat \X Seq(Task)
        BY <3>0
      <4>. QED BY <3>0, <4>1
    <3>2. \A x \in Nat \X Seq(Task) : <<x>> \in Seq(Nat \X Seq(Task)) /\ Len(<<x>>) = 1 /\ <<x>>[1] = x
      OBVIOUS
    <3>. QED BY <3>1, <3>2
  <2>3. d = a \o b
    BY <1>0
  <2>. HIDE DEF a, d, b
  <2>4. /\ d \in Seq(Nat \X Seq(Task)) /\ Len(d) = Len(a) + Len(b)
        /\ \A j \in 1..Len(d) : d[j] = IF j <= Len(a) THEN a[j] ELSE b[j - Len(a)]
    <3>. DEFINE T == Nat \X Seq(Task)
    <3>1. a \in Seq(T) /\ b \in Seq(T)
      BY <2>1, <2>2
    <3>. HIDE DEF T
    <3>2. /\ a \o b \in Seq(T) /\ Len(a \o b) = Len(a) + Len(b)
          /\ \A j \in 1..Len(a) + Len(b) : (a \o b)[j] = IF j <= Len(a) THEN a[j] ELSE b[j - Len(a)]
      BY <3>1, ConcatProperties
    <3>3. d \in Seq(T) /\ Len(d) = Len(a) + Len(b)
      BY <2>3, <3>2
    <3>4. \A j \in 1..Len(d) : d[j] = IF j <= Len(a) THEN a[j] ELSE b[j - Len(a)]
      BY <2>3, <3>2, <3>3
    <3>. QED BY <3>3, <3>4 DEF T
  <2>5. Len(b) \in Nat /\ Len(d) = Len(b) + 1
    BY <2>1, <2>2, <2>4
  <2>6. d[1] = a[1]
    <3>1. 1 \in 1..Len(d) /\ 1 <= Len(a)
      BY <2>2, <2>5
    <3>. QED BY <2>4, <3>1
  <2>7. ASSUME NEW j \in 1..Len(d), j # 1 PROVE j - 1 \in 1..Len(b) /\ d[j] = b[j - 1]
    <3>1. j - 1 \in 1..Len(b) /\ ~(j <= Len(a)) /\ j - Len(a) = j - 1
      BY <2>2, <2>5, <2>7
    <3>2. d[j] = b[j - Len(a)]
      BY <2>4, <3>1
    <3>. QED BY <3>1, <3>2
  <2>. QED BY <2>2, <2>4, <2>5, <2>6, <2>7
<1>. HIDE DEF d
<1>3. /\ d[1][1] = p /\ d[1][2] = <<t>> /\ Len(d[1][2]) = 1 /\ d[1][2][1] = t
  BY <1>2
<1>4. ASSUME NEW j \in 1..Len(d), NEW k \in 1..Len(d[j][2])
      PROVE  \/ d[j][2][k] = t /\ j = 1 /\ k = 1 /\ d[j][1] = p
             \/ j # 1 /\ j - 1 \in 1..Len(b) /\ d[j] = b[j - 1] /\ k \in 1..Len(b[j - 1][2])
  <2>. HIDE DEF b, p
  <2>1. CASE j = 1
    <3>1. k = 1
      BY <1>3, <2>1
    <3>. QED BY <1>3, <2>1, <3>1
  <2>2. CASE j # 1
    BY <1>2, <2>2
  <2>. QED BY <2>1, <2>2
<1>5. /\ t \notin Aged /\ t \in Aged' /\ age'[t] = clock
      /\ \A u \in Aged : u \in Aged' /\ u # t /\ age'[u] = age[u] /\ <<u, t>> \in MayPrecede'
      /\ \A u, v \in Aged : <<u, v>> \in MayPrecede => <<u, v>> \in MayPrecede'
      /\ \A u \in Aged : priority[u] > priority[t] => <<t, u>> \in MayPrecede'
  BY <1>0, ComesLast
<1>6. \A j \in 1..Len(b) : \A k \in 1..Len(b[j][2]) : b[j][2][k] \in Aged /\ b[j][1] <= priority[b[j][2][k]]
  BY <1>0 DEF Labelled
<1>7. LineType'
  BY <1>0, <1>2 DEF LineType, d
<1>8. Labelled'
  <2>1. ASSUME NEW j \in 1..Len(d), NEW k \in 1..Len(d), j < k PROVE d[j][1] < d[k][1]
    <3>1. k # 1 /\ k - 1 \in 1..Len(b) /\ d[k] = b[k - 1]
      <4>1. k # 1
        BY <2>1
      <4>. QED BY <1>2, <4>1
    <3>2. CASE j = 1
      BY <1>1, <1>3, <3>1, <3>2
    <3>3. CASE j # 1
      <4>1. j - 1 \in 1..Len(b) /\ d[j] = b[j - 1] /\ j - 1 < k - 1
        BY <1>2, <2>1, <3>3
      <4>. QED BY <1>0, <3>1, <4>1 DEF Labelled
    <3>. QED BY <3>2, <3>3
  <2>2. ASSUME NEW j \in 1..Len(d), NEW k \in 1..Len(d[j][2])
        PROVE  d[j][2][k] \in Aged' /\ d[j][1] <= priority'[d[j][2][k]]
    <3>1. CASE d[j][2][k] = t /\ d[j][1] = p
      BY <1>0, <1>5, <3>1
    <3>2. CASE j # 1 /\ j - 1 \in 1..Len(b) /\ d[j] = b[j - 1] /\ k \in 1..Len(b[j - 1][2])
      <4>1. b[j - 1][2][k] \in Aged /\ b[j - 1][1] <= priority[b[j - 1][2][k]] /\ priority' = priority
        BY <1>0, <1>6, <3>2
      <4>. QED BY <1>5, <3>2, <4>1
    <3>. QED BY <1>4, <3>1, <3>2
  <2>. QED BY <2>1, <2>2 DEF Labelled, d
<1>9. BucketsInOrder'
  <2>. SUFFICES ASSUME NEW j \in 1..Len(d), NEW k \in 1..Len(d), NEW x \in 1..Len(d[j][2]), NEW y \in 1..Len(d[k][2]),
                       j < k \/ (j = k /\ x < y)
                PROVE  <<d[j][2][x], d[k][2][y]>> \in MayPrecede'
    BY DEF BucketsInOrder, d
  <2>1. k # 1 /\ k - 1 \in 1..Len(b) /\ d[k] = b[k - 1] /\ y \in 1..Len(b[k - 1][2])
    BY <1>3, <1>4
  <2>2. b[k - 1][2][y] \in Aged /\ b[k - 1][1] <= priority[b[k - 1][2][y]] /\ b[k - 1][1] > p
    BY <1>1, <1>6, <2>1
  <2>3. CASE d[j][2][x] = t
    <3>1. b[k - 1][1] \in Nat /\ priority[b[k - 1][2][y]] \in Nat
      <4>1. b[k - 1][1] \in Nat
        BY <1>0, <2>1, BucketType
      <4>2. priority \in [Task -> Nat] /\ Aged \subseteq Task
        BY <1>0 DEF Aged, LineType
      <4>. QED BY <2>2, <4>1, <4>2
    <3>2. priority[b[k - 1][2][y]] > p
      <4>. DEFINE q == b[k - 1][1]
                  r == priority[b[k - 1][2][y]]
      <4>1. p \in Nat /\ q \in Nat /\ r \in Nat /\ q <= r /\ q > p
        BY <1>0, <2>2, <3>1
      <4>. HIDE DEF p, q, r
      <4>2. r > p
        BY <4>1
      <4>. QED BY <4>2 DEF r
    <3>. QED BY <1>5, <2>1, <2>2, <2>3, <3>2
  <2>4. CASE j # 1 /\ j - 1 \in 1..Len(b) /\ d[j] = b[j - 1] /\ x \in 1..Len(b[j - 1][2])
    <3>1. b[j - 1][2][x] \in Aged
      BY <1>6, <2>4
    <3>2. j - 1 < k - 1 \/ (j - 1 = k - 1 /\ x < y)
      BY <1>2
    <3>3. <<b[j - 1][2][x], b[k - 1][2][y]>> \in MayPrecede
      BY <1>0, <2>1, <2>4, <3>2 DEF BucketsInOrder
    <3>. QED BY <1>5, <2>1, <2>2, <2>4, <3>1, <3>3
  <2>. QED BY <1>4, <2>3, <2>4
<1>10. BatchInOrder'
  <2>0. \A k \in 1..Len(batch) : batch[k] \in Aged
    BY <1>0 DEF BatchInOrder
  <2>1. \A k \in 1..Len(batch) : batch[k] \in Aged /\ age[batch[k]] <= clock
    <3>1. \A u \in Aged : age[u] <= clock
      BY <1>0 DEF Aged, LineType
    <3>. QED BY <2>0, <3>1
  <2>2. \A k \in 1..Len(batch) : \A j \in 1..Len(d) : \A l \in 1..Len(d[j][2]) : age'[batch[k]] <= age'[d[j][2][l]]
    <3>. SUFFICES ASSUME NEW k \in 1..Len(batch), NEW j \in 1..Len(d), NEW l \in 1..Len(d[j][2])
                  PROVE  age'[batch[k]] <= age'[d[j][2][l]]
      OBVIOUS
    <3>1. CASE d[j][2][l] = t
      BY <1>5, <2>1, <3>1
    <3>2. CASE j # 1 /\ j - 1 \in 1..Len(b) /\ d[j] = b[j - 1] /\ l \in 1..Len(b[j - 1][2])
      <4>1. b[j - 1][2][l] \in Aged /\ age[batch[k]] <= age[b[j - 1][2][l]]
        BY <1>0, <1>6, <3>2 DEF BatchInOrder
      <4>. QED BY <1>5, <2>1, <3>2, <4>1
    <3>. QED BY <1>4, <3>1, <3>2
  <2>3. \A k, l \in 1..Len(batch) : k < l => <<batch[k], batch[l]>> \in MayPrecede
    BY <1>0 DEF BatchInOrder
  <2>4. \A k \in 1..Len(batch) : batch[k] \in Aged'
    BY <1>5, <2>0
  <2>5. \A k, l \in 1..Len(batch) : k < l => <<batch[k], batch[l]>> \in MayPrecede'
    BY <1>5, <2>0, <2>3
  <2>6. batch' = batch
    BY <1>0
  <2>. QED BY <2>2, <2>4, <2>5, <2>6 DEF BatchInOrder, d
<1>. QED BY <1>7, <1>8, <1>9, <1>10 DEF LineInv

LEMMA TaskTaken ==
  ASSUME LineInv, RunTask
  PROVE  LineInv' /\ \A t \in ran' \ ran, u \in Waiting : priority[u] <= priority[t] => age[u] >= age[t]
<1>. DEFINE h == batch[1]
<1>0. /\ batch \in Seq(Task) /\ batch # <<>> /\ Head(batch) = h /\ batch' = Tail(batch) /\ ran' = ran \cup {h}
      /\ UNCHANGED <<buckets, priority, age, clock>>
      /\ LineType /\ Labelled /\ BucketsInOrder /\ BatchInOrder
  BY DEF LineInv, LineType, RunTask, scheduled
<1>1. /\ batch' \in Seq(Task) /\ Len(batch') \in Nat /\ 1 \in 1..Len(batch)
      /\ \A k \in 1..Len(batch') : k + 1 \in 1..Len(batch) /\ batch'[k] = batch[k + 1]
  BY <1>0, HeadAndTail
<1>2. BatchInOrder'
  <2>1. \A k, l \in 1..Len(batch') : k < l => k + 1 < l + 1
    OBVIOUS
  <2>2. MayPrecede' = MayPrecede /\ Aged' = Aged
    BY <1>0 DEF MayPrecede, Aged
  <2>. QED BY <1>0, <1>1, <2>1, <2>2 DEF BatchInOrder
<1>3. LineType' /\ Labelled' /\ BucketsInOrder'
  <2>1. MayPrecede' = MayPrecede /\ Aged' = Aged
    BY <1>0 DEF MayPrecede, Aged
  <2>2. LineType'
    BY <1>0, <1>1 DEF LineType
  <2>3. Labelled'
    BY <1>0, <2>1 DEF Labelled
  <2>4. BucketsInOrder'
    <3>. SUFFICES ASSUME NEW i \in 1..Len(buckets), NEW j \in 1..Len(buckets),
                         NEW k \in 1..Len(buckets[i][2]), NEW l \in 1..Len(buckets[j][2]),
                         i < j \/ (i = j /\ k < l)
                  PROVE  <<buckets[i][2][k], buckets[j][2][l]>> \in MayPrecede'
      BY <1>0 DEF BucketsInOrder
    <3>1. <<buckets[i][2][k], buckets[j][2][l]>> \in MayPrecede
      BY <1>0 DEF BucketsInOrder
    <3>. QED BY <2>1, <3>1
  <2>. QED BY <2>2, <2>3, <2>4
<1>4. h \in Task /\ age[h] \in Nat
  BY <1>0, <1>1 DEF LineType
<1>5. ASSUME NEW u \in Waiting, priority[u] <= priority[h] PROVE age[u] >= age[h]
  <2>1. CASE u \in ToSet(batch)
    <3>1. PICK k \in 1..Len(batch) : u = batch[k]
      BY <1>0, <2>1 DEF ToSet
    <3>2. k = 1 \/ 1 < k
      OBVIOUS
    <3>3. 1 < k => <<h, u>> \in MayPrecede
      BY <1>0, <1>1, <3>1 DEF BatchInOrder
    <3>4. age[u] \in Nat
      BY <1>0, <3>1 DEF LineType
    <3>. QED BY <1>4, <1>5, <3>1, <3>2, <3>3, <3>4 DEF MayPrecede
  <2>2. CASE u \in UNION {ToSet(buckets[i][2]) : i \in DOMAIN buckets}
    <3>1. PICK i \in DOMAIN buckets : u \in ToSet(buckets[i][2])
      BY <2>2
    <3>2. i \in 1..Len(buckets) /\ buckets[i][2] \in Seq(Task)
      BY <1>0, <3>1, BucketType DEF LineType
    <3>3. PICK l \in 1..Len(buckets[i][2]) : u = buckets[i][2][l]
      BY <3>1, <3>2 DEF ToSet
    <3>4. age[h] <= age[u] /\ u \in Task
      BY <1>0, <1>1, <3>2, <3>3 DEF BatchInOrder
    <3>5. age[u] \in Nat
      BY <1>0, <3>4 DEF LineType
    <3>. QED BY <1>4, <3>4, <3>5
  <2>. QED BY <2>1, <2>2 DEF Waiting
<1>. HIDE DEF h
<1>. QED BY <1>0, <1>2, <1>3, <1>5 DEF LineInv

LEMMA BucketsTaken ==
  ASSUME LineInv, NEW i, StarveInternal(i)
  PROVE  LineInv'
<1>. DEFINE s == [j \in DOMAIN buckets |-> buckets[j][2]]
            f == FlattenSeq(s)
<1>0. /\ batch' = f /\ buckets' = <<>> /\ UNCHANGED <<priority, age, clock>>
      /\ LineType /\ Labelled /\ BucketsInOrder
      /\ DOMAIN buckets = 1..Len(buckets) /\ Len(buckets) \in Nat
  BY DEF StarveInternal, LineInv, LineType, scheduled
<1>1. /\ s \in Seq(Seq(Task)) /\ Len(s) = Len(buckets) /\ \A j \in 1..Len(s) : s[j] = buckets[j][2]
  <2>1. \A j \in 1..Len(buckets) : buckets[j][2] \in Seq(Task)
    BY <1>0, BucketType
  <2>. QED BY <1>0, <2>1
<1>. HIDE DEF s, f
<1>2. \A j \in 1..Len(s) : \A k \in 1..Len(s[j]) : s[j][k] \in Aged
  BY <1>0, <1>1 DEF Labelled
<1>3. \A j, k \in 1..Len(s) : \A x \in 1..Len(s[j]) : \A y \in 1..Len(s[k]) :
        j < k \/ (j = k /\ x < y) => <<s[j][x], s[k][y]>> \in MayPrecede
  <2>. SUFFICES ASSUME NEW j \in 1..Len(s), NEW k \in 1..Len(s), NEW x \in 1..Len(s[j]), NEW y \in 1..Len(s[k]),
                       j < k \/ (j = k /\ x < y)
                PROVE  <<s[j][x], s[k][y]>> \in MayPrecede
    OBVIOUS
  <2>1. /\ j \in 1..Len(buckets) /\ k \in 1..Len(buckets) /\ s[j] = buckets[j][2] /\ s[k] = buckets[k][2]
        /\ x \in 1..Len(buckets[j][2]) /\ y \in 1..Len(buckets[k][2])
    BY <1>1
  <2>2. <<buckets[j][2][x], buckets[k][2][y]>> \in MayPrecede
    BY <1>0, <2>1 DEF BucketsInOrder
  <2>. QED BY <2>1, <2>2
<1>4. /\ f \in Seq(Task) /\ \A k \in 1..Len(f) : f[k] \in Aged
      /\ \A k, l \in 1..Len(f) : k < l => <<f[k], f[l]>> \in MayPrecede
  BY <1>1, <1>2, <1>3, FlattenKeepsOrder DEF f
<1>5. Len(buckets') = 0 /\ buckets' \in Seq(Nat \X Seq(Task)) /\ 1..Len(buckets') = {}
  BY <1>0
<1>6. LineType'
  BY <1>0, <1>4, <1>5 DEF LineType
<1>7. Labelled' /\ BucketsInOrder'
  BY <1>5 DEF Labelled, BucketsInOrder
<1>8. BatchInOrder'
  <2>1. MayPrecede' = MayPrecede /\ Aged' = Aged
    BY <1>0 DEF MayPrecede, Aged
  <2>. QED BY <1>0, <1>4, <1>5, <2>1 DEF BatchInOrder
<1>. QED BY <1>6, <1>7, <1>8 DEF LineInv

LEMMA LineKept ==
  ASSUME LineInv, UNCHANGED <<buckets, priority, age, clock>>, batch' = batch \/ batch' = <<>>
  PROVE  LineInv'
<1>0. LineType /\ Labelled /\ BucketsInOrder /\ BatchInOrder
  BY DEF LineInv
<1>1. batch' \in Seq(Task) /\ (batch' = batch \/ Len(batch') = 0)
  <2>1. <<>> \in Seq(Task) /\ Len(<<>>) = 0 /\ batch \in Seq(Task)
    BY <1>0 DEF LineType
  <2>. QED BY <2>1
<1>2. MayPrecede' = MayPrecede /\ Aged' = Aged
  BY DEF MayPrecede, Aged
<1>3. LineType' /\ Labelled' /\ BucketsInOrder'
  <2>1. LineType'
    BY <1>0, <1>1 DEF LineType
  <2>2. Labelled'
    BY <1>0, <1>2 DEF Labelled
  <2>3. BucketsInOrder'
    BY <1>0, <1>2 DEF BucketsInOrder
  <2>. QED BY <2>1, <2>2, <2>3
<1>4. BatchInOrder'
  <2>1. CASE batch' = batch
    BY <1>0, <1>2, <2>1 DEF BatchInOrder
  <2>2. CASE Len(batch') = 0
    BY <2>2 DEF BatchInOrder
  <2>. QED BY <1>1, <2>1, <2>2
<1>. QED BY <1>3, <1>4 DEF LineInv

LEMMA LineStep ==
  ASSUME LineInv, [Next]_vars
  PROVE  /\ LineInv'
         /\ \A t \in ran' \ ran, u \in Waiting : priority[u] <= priority[t] => age[u] >= age[t]
<1>1. ASSUME NEW t \in Task, ScheduleTask(t) PROVE LineInv' /\ ran' = ran
  BY <1>1, JoinsBucket, BeginsBucket DEF ScheduleTask
<1>2. ASSUME NEW i \in DOMAIN callbacks, StarveInternal(i) PROVE LineInv' /\ ran' = ran
  BY <1>2, BucketsTaken DEF StarveInternal
<1>3. ASSUME EndBatch \/ Throw \/ UNCHANGED vars PROVE LineInv' /\ ran' = ran
  BY <1>3, LineKept DEF EndBatch, Throw, vars, scheduled
<1>. QED BY <1>1, <1>2, <1>3, TaskTaken DEF Next, Starving

LEMMA LineBegins == ASSUME Init \/ SchedulerRests PROVE LineInv
<1>1. /\ buckets = <<>> /\ batch = <<>> /\ priority \in [Task -> Nat] /\ age \in [Task -> Nat] /\ clock \in Nat \ {0}
  <2>1. CASE Init
    <3>1. priority \in [Task -> Priority] /\ age = [t \in Task |-> 0] /\ buckets = <<>> /\ batch = <<>> /\ clock = 1
      BY <2>1 DEF Init
    <3>2. priority \in [Task -> Nat]
      BY <3>1, PriorityAssumption
    <3>. QED BY <3>1, <3>2
  <2>2. CASE SchedulerRests
    BY <2>2 DEF SchedulerRests
  <2>. QED BY <2>1, <2>2
<1>2. LineType
  BY <1>1 DEF LineType
<1>3. Len(buckets) = 0 /\ Len(batch) = 0
  BY <1>1
<1>. QED BY <1>2, <1>3 DEF LineInv, Labelled, BucketsInOrder, BatchInOrder

(* NotOvertaken, for any tasks and priorities: a task that runs was not          *)
(* scheduled after one of the same or a smaller priority that still waits.      *)
THEOREM NobodyIsOvertaken == AllSpec => NotOvertaken
<1>1. AllInit => LineInv
  BY LineBegins DEF AllInit, OthersRest
<1>2. LineInv /\ [AllNext]_all => LineInv' /\ [\A t \in ran' \ ran, u \in Waiting :
                                                  priority[u] <= priority[t] => age[u] >= age[t]]_vars
  <2>. SUFFICES ASSUME LineInv, [AllNext]_all
                PROVE  LineInv' /\ \A t \in ran' \ ran, u \in Waiting :
                                      priority[u] <= priority[t] => age[u] >= age[t]
    OBVIOUS
  <2>1. [Next]_vars
    BY DEF AllNext, all
  <2>. QED BY <2>1, LineStep
<1>. QED BY <1>1, <1>2, PTL DEF AllSpec, NotOvertaken

-----------------------------------------------------------------------------
(* A fiber that was put under a key has begun, and has the observer that       *)
(* forgets it when it ends: no fiber comes to life, or ends, unnoticed.        *)
Observed ==
  /\ \A k \in Key : latest[k] # NoFiber => <<latest[k], k>> \in observed
  /\ \A f \in Fiber, k \in Key : <<f, k>> \in observed => life[f] # "unborn"

TrackInv == M!TypeOK /\ Observed /\ M!FibersAreTracked

-----------------------------------------------------------------------------
(* Who is in the map, and still is when it changes under other keys.           *)
LEMMA HeldFibers == ASSUME M!TypeOK PROVE M!Held \subseteq Fiber
BY DEF M!TypeOK, M!Held

(* A fiber under a key is held.                                              *)
LEMMA HeldAgain ==
  ASSUME NEW f, NEW k \in Key, f # NoFiber, backing'[k] = f PROVE f \in M!Held'
BY DEF M!Held

(* A held fiber is a fiber, under some key.                                  *)
LEMMA HeldUnder == ASSUME NEW f \in M!Held PROVE f # NoFiber /\ \E k \in Key : f = backing[k]
BY DEF M!Held

(* Types are preserved by every step.                                       *)
LEMMA TypeStep == ASSUME M!TypeOK, [M!Next]_(M!vars) PROVE M!TypeOK'
<1>. USE DEF M!TypeOK
<1>1. ASSUME NEW f \in Fiber, M!Fork(f) \/ M!End(f) \/ M!Removed(f) \/ M!ClearOne(f) PROVE M!TypeOK'
  BY <1>1 DEF M!Fork, M!End, M!Removed, M!ClearOne, M!clear
<1>2. ASSUME NEW k \in Key, M!Remove(k) PROVE M!TypeOK'
  BY <1>2 DEF M!Remove, M!clear
<1>3. ASSUME NEW k \in Key, NEW f \in Fiber, M!Set(k, f) PROVE M!TypeOK'
  BY <1>3 DEF M!Set, M!clear
<1>4. ASSUME M!Clear PROVE M!TypeOK'
  BY <1>4, HeldFibers DEF M!Clear
<1>5. ASSUME M!Awaited PROVE M!TypeOK'
  BY <1>5 DEF M!Awaited
<1>6. ASSUME M!Cleared PROVE M!TypeOK'
  BY <1>6, HeldFibers DEF M!Cleared
<1>7. ASSUME UNCHANGED M!vars PROVE M!TypeOK'
  BY <1>7 DEF M!vars, M!clear
<1>. QED BY <1>1, <1>2, <1>3, <1>4, <1>5, <1>6, <1>7 DEF M!Next

(* Fibers begin before they are observed, and are observed as they are set.   *)
LEMMA ObservedStep ==
  ASSUME M!TypeOK, Observed, [M!Next]_(M!vars) PROVE Observed'
<1>. USE DEF M!TypeOK, Observed
<1>1. ASSUME NEW f \in Fiber, M!Fork(f) \/ M!End(f) \/ M!Removed(f) \/ M!ClearOne(f) PROVE Observed'
  BY <1>1 DEF M!Fork, M!End, M!Removed, M!ClearOne
<1>2. ASSUME NEW k \in Key, M!Remove(k) PROVE Observed'
  BY <1>2 DEF M!Remove
<1>3. ASSUME NEW k \in Key, NEW f \in Fiber, M!Set(k, f) PROVE Observed'
  BY <1>3 DEF M!Set
<1>4. ASSUME M!Clear \/ M!Awaited \/ M!Cleared PROVE Observed'
  BY <1>4 DEF M!Clear, M!Awaited, M!Cleared
<1>5. ASSUME UNCHANGED M!vars PROVE Observed'
  BY <1>5 DEF M!vars
<1>. QED BY <1>1, <1>2, <1>3, <1>4, <1>5 DEF M!Next

-----------------------------------------------------------------------------
(* What a key maps to changes only with the fiber that was put there last.     *)
LEMMA LatestStep ==
  ASSUME M!TypeOK, Observed, M!HoldsTheLatest, [M!Next]_(M!vars)
  PROVE  M!HoldsTheLatest'
<1>. USE DEF M!TypeOK, M!HoldsTheLatest
<1>1. ASSUME NEW f \in Fiber, M!Fork(f) PROVE M!HoldsTheLatest'
  \* f is nobody's latest: the latest fibers have begun
  BY <1>1, FiberAssumption DEF M!Fork, Observed
<1>2. ASSUME NEW f \in Fiber, M!End(f) PROVE M!HoldsTheLatest'
  <2>. SUFFICES ASSUME NEW k \in Key
                PROVE  backing'[k] = IF latest[k] # NoFiber /\ life'[latest[k]] = "alive"
                                       THEN latest[k] ELSE NoFiber
    BY <1>2 DEF M!End
  <2>1. CASE latest[k] = f
    BY <1>2, <2>1 DEF M!End, Observed, M!StillMine
  <2>2. CASE latest[k] # f
    BY <1>2, <2>2 DEF M!End, M!StillMine
  <2>. QED BY <2>1, <2>2
<1>3. ASSUME NEW f \in Fiber, M!Removed(f) \/ M!ClearOne(f) PROVE M!HoldsTheLatest'
  BY <1>3 DEF M!Removed, M!ClearOne
<1>4. ASSUME NEW k \in Key, M!Remove(k) PROVE M!HoldsTheLatest'
  BY <1>4 DEF M!Remove
<1>5. ASSUME NEW k \in Key, NEW f \in Fiber, M!Set(k, f) PROVE M!HoldsTheLatest'
  BY <1>5 DEF M!Set
<1>6. ASSUME M!Clear \/ M!Awaited \/ M!Cleared PROVE M!HoldsTheLatest'
  BY <1>6 DEF M!Clear, M!Awaited, M!Cleared
<1>7. ASSUME UNCHANGED M!vars PROVE M!HoldsTheLatest'
  BY <1>7 DEF M!vars
<1>. QED BY <1>1, <1>2, <1>3, <1>4, <1>5, <1>6, <1>7 DEF M!Next

(* Whoever takes a fiber out of the map has warned it, or has it on a list.      *)
LEMMA TrackedStep ==
  ASSUME M!TypeOK, Observed, M!NobodyLetGo, [M!Next]_(M!vars)
  PROVE  M!NobodyLetGo'
<1>. SUFFICES ASSUME NEW g \in Fiber, life'[g] = "alive", NEW j \in Key, <<g, j>> \in observed'
              PROVE  g \in M!Held' \cup warned' \cup condemned' \cup escaped'
  BY DEF M!NobodyLetGo
<1>. DEFINE Safe == g \in M!Held \cup warned \cup condemned \cup escaped
<1>. USE DEF M!TypeOK
<1>1. ASSUME NEW f \in Fiber, M!Fork(f) PROVE Safe'
  \* nobody observes f yet
  BY <1>1 DEF M!Fork, Observed, M!NobodyLetGo, M!Held
<1>2. ASSUME NEW f \in Fiber, M!End(f) PROVE Safe'
  <2>1. g # f /\ life[g] = "alive" /\ <<g, j>> \in observed
    BY <1>2 DEF M!End
  <2>2. Safe
    BY <2>1 DEF M!NobodyLetGo
  <2>3. CASE g \in M!Held
    <3>1. PICK k \in Key : g = backing[k]
      BY <2>3, HeldUnder
    <3>2. backing'[k] = g
      BY <1>2, <2>1, <3>1 DEF M!End, M!StillMine
    <3>. QED BY <3>2, HeldAgain, FiberAssumption
  <2>. QED BY <1>2, <2>2, <2>3 DEF M!End
<1>3. ASSUME NEW f \in Fiber, M!Removed(f) \/ M!ClearOne(f) PROVE Safe'
  BY <1>3 DEF M!Removed, M!ClearOne, M!NobodyLetGo, M!Held
<1>4. ASSUME NEW k \in Key, M!Remove(k) PROVE Safe'
  <2>1. Safe
    BY <1>4 DEF M!Remove, M!NobodyLetGo
  <2>2. CASE g \in M!Held
    <3>1. PICK i \in Key : g = backing[i]
      BY <2>2, HeldUnder
    <3>2. CASE i = k
      BY <1>4, <3>1, <3>2 DEF M!Remove
    <3>3. CASE i # k
      <4>1. backing'[i] = g
        BY <1>4, <3>1, <3>3 DEF M!Remove
      <4>. QED BY <4>1, HeldAgain, FiberAssumption
    <3>. QED BY <3>2, <3>3
  <2>. QED BY <1>4, <2>1, <2>2 DEF M!Remove
<1>5. ASSUME NEW k \in Key, NEW f \in Fiber, M!Set(k, f) PROVE Safe'
  <2>1. CASE g = f
    <3>1. backing'[k] = g
      BY <1>5, <2>1 DEF M!Set
    <3>. QED BY <3>1, HeldAgain, FiberAssumption
  <2>2. CASE g # f
    <3>1. Safe
      BY <1>5, <2>2 DEF M!Set, M!NobodyLetGo
    <3>2. CASE g \in M!Held
      <4>1. PICK i \in Key : g = backing[i]
        BY <3>2, HeldUnder
      <4>2. CASE i = k
        BY <1>5, <4>1, <4>2, FiberAssumption DEF M!Set
      <4>3. CASE i # k
        <5>1. backing'[i] = g
          BY <1>5, <4>1, <4>3 DEF M!Set
        <5>. QED BY <5>1, HeldAgain, FiberAssumption
      <4>. QED BY <4>2, <4>3
    <3>. QED BY <1>5, <3>1, <3>2, FiberAssumption DEF M!Set, M!clear
  <2>. QED BY <2>1, <2>2
<1>6. ASSUME M!Clear \/ M!Awaited PROVE Safe'
  BY <1>6 DEF M!Clear, M!Awaited, M!NobodyLetGo, M!Held
<1>7. ASSUME M!Cleared PROVE Safe'
  BY <1>7 DEF M!Cleared, M!NobodyLetGo
<1>8. ASSUME UNCHANGED M!vars PROVE Safe'
  <2>1. M!Held' = M!Held /\ UNCHANGED <<life, observed, warned, condemned, escaped>>
    BY <1>8 DEF M!vars, M!Held
  <2>. QED BY <2>1 DEF M!NobodyLetGo
<1>. QED BY <1>1, <1>2, <1>3, <1>4, <1>5, <1>6, <1>7, <1>8 DEF M!Next

-----------------------------------------------------------------------------
(* A map that nobody has used has nothing to keep track of.                   *)
LEMMA TrackBegins == M!Init => TrackInv
BY DEF M!Init, TrackInv, M!TypeOK, Observed, M!FibersAreTracked, M!HoldsTheLatest, M!NobodyLetGo

(* The map has, under each key, the fiber put there last as long as it lives, *)
(* and no living fiber leaves it without an interruption, but for those who    *)
(* were put there during a clear or whose remover was interrupted.            *)
LEMMA TrackInvStep == ASSUME TrackInv, [M!Next]_(M!vars) PROVE TrackInv'
BY TypeStep, ObservedStep, LatestStep, TrackedStep DEF TrackInv, M!FibersAreTracked

-----------------------------------------------------------------------------
(* ForEach.  Busy workers hold an item whose result nobody has pushed; one    *)
(* that is leaving may have.                                                *)
Busy == E!Alive \ E!Leaving

LoopCounts ==
  /\ n \in Nat /\ todos \in 0..Items /\ target \in Int
  /\ interrupted \in BOOLEAN /\ signalled \in BOOLEAN

LoopShapes ==
  /\ results \in Seq([item : 1..Items, ok : BOOLEAN])
  /\ worker \in [E!Worker -> E!Label]
  /\ item \in [E!Worker -> 0..Items] /\ ok \in [E!Worker -> BOOLEAN]
  /\ processing \in {"none", "forked", "waiting", "ended"}
  /\ resumed \in {"nothing", "success", "failure"}
  /\ parent \in {"begins", "joins", "waits", "gives up", "returned", "failed"}
  /\ \A w \in E!Alive : item[w] \in 1..Items

LoopType == LoopCounts /\ LoopShapes

(* Each item that was taken is in one place, but for one that was pushed by a *)
(* worker that failed and is leaving: Repeated counts it.                    *)
OnceEach ==
  /\ \A v, w \in Busy : item[v] = item[w] => v = w
  /\ \A w \in Busy : item[w] \notin E!Pushed /\ \A v \in E!Leaving : item[v] # item[w]
  /\ todos > 0 => /\ \A w \in E!Alive : item[w] <= Items - todos
                  /\ \A k \in DOMAIN results : results[k].item <= Items - todos
  /\ E!Repeated \in 0..1
  /\ E!Repeated = 1 => interrupted /\ n < Items

(* What is pushed, what will be and what nobody has taken make up the target.  *)
Balance == Len(results) + Cardinality(E!Alive) + todos = target + E!Repeated

(* Until somebody is interrupted, no item is lost.                            *)
Covered ==
  ~interrupted =>
    /\ target = Items
    /\ \A k \in DOMAIN results : results[k].ok
    /\ \A i \in 1..(Items - todos) : i \in E!Pushed \/ \E w \in E!Alive : item[w] = i

Failed == \E k \in DOMAIN results : ~results[k].ok

(* What the fibers know of each other's steps.                                *)
LoopStages ==
  /\ processing \in {"none", "forked"} =>
       E!Alive = {} /\ results = <<>> /\ resumed = "nothing" /\ (interrupted \/ todos = Items)
  /\ parent = "begins" => processing = "none"
  /\ processing \notin {"none", "forked"} /\ n >= Items => todos = 0
  /\ interrupted => todos = 0 /\ (Failed \/ (signalled /\ parent \in {"gives up", "failed"}))
  /\ E!Leaving # {} => todos = 0
  /\ processing = "ended" => resumed # "nothing"
  /\ resumed # "nothing" => Len(results) >= target
  /\ resumed = "failure" => Failed
  /\ resumed = "success" /\ interrupted => parent \in {"gives up", "failed"}
  /\ parent = "gives up" => signalled
  /\ E!Over => processing = "ended"
  /\ parent = "returned" => resumed = "success"
  /\ parent = "failed" => signalled \/ Failed

LoopEach == LoopType /\ OnceEach /\ Balance /\ Covered /\ LoopStages

(* The Cardinality that ForEach extends is the one of this module.            *)
LEMMA SameCount == \A S : E!Cardinality(S) = Cardinality(S)
BY DEF E!Cardinality, Cardinality

(* Finite sets of workers and items.                                         *)
LEMMA FewWorkers ==
  /\ IsFiniteSet(1..Items)
  /\ \A S : S \subseteq 1..Items => IsFiniteSet(S) /\ Cardinality(S) \in Nat
<1>1. IsFiniteSet(1..Items)
  BY FS_Interval, ItemsAssumption
<1>. QED BY <1>1, FS_Subset, FS_CardinalityType

LEMMA LoopSets ==
  ASSUME LoopType
  PROVE  /\ E!Alive \subseteq 1..Items /\ E!Leaving \subseteq E!Alive /\ Busy \subseteq E!Alive
         /\ E!Pushed \subseteq 1..Items
         /\ {item[w] : w \in E!Leaving} \subseteq 1..Items
         /\ Len(results) \in Nat
<1>1. E!Alive \subseteq 1..Items /\ E!Leaving \subseteq E!Alive /\ Busy \subseteq E!Alive
  BY DEF E!Alive, E!Leaving, E!Worker, Busy
<1>2. \A k \in DOMAIN results : results[k].item \in 1..Items
  <2>. TAKE k \in DOMAIN results
  <2>1. results \in Seq([item : 1..Items, ok : BOOLEAN])
    BY DEF LoopType, LoopCounts, LoopShapes
  <2>2. k \in 1..Len(results)
    BY <2>1
  <2>3. results[k] \in [item : 1..Items, ok : BOOLEAN]
    BY <2>1, <2>2, ElementOfSeq
  <2>. QED BY <2>3
<1>3. E!Pushed \subseteq 1..Items
  BY <1>2 DEF E!Pushed
<1>4. \A w \in E!Leaving : item[w] \in 1..Items
  BY <1>1 DEF LoopType, LoopCounts, LoopShapes
<1>5. Len(results) \in Nat
  <2>1. results \in Seq([item : 1..Items, ok : BOOLEAN])
    BY DEF LoopType, LoopCounts, LoopShapes
  <2>. QED BY <2>1
<1>. QED BY <1>1, <1>3, <1>4, <1>5

(* Pushing one more result.                                                  *)
LEMMA PushedMore ==
  ASSUME LoopType, NEW i \in 1..Items, NEW b \in BOOLEAN, results' = Append(results, [item |-> i, ok |-> b])
  PROVE  /\ results' \in Seq([item : 1..Items, ok : BOOLEAN])
         /\ Len(results') = Len(results) + 1
         /\ E!Pushed' = E!Pushed \cup {i}
         /\ Failed' <=> Failed \/ ~b
         /\ \A P : (\A k \in DOMAIN results' : results'[k].item <= P) <=>
                     (\A k \in DOMAIN results : results[k].item <= P) /\ i <= P
         /\ (\A k \in DOMAIN results' : results'[k].ok) <=> (\A k \in DOMAIN results : results[k].ok) /\ b
<1>1. results \in Seq([item : 1..Items, ok : BOOLEAN]) /\ [item |-> i, ok |-> b] \in [item : 1..Items, ok : BOOLEAN]
  BY DEF LoopType, LoopCounts, LoopShapes
<1>2. /\ results' \in Seq([item : 1..Items, ok : BOOLEAN])
      /\ Len(results') = Len(results) + 1 /\ Len(results) \in Nat
      /\ DOMAIN results' = 1..(Len(results) + 1) /\ DOMAIN results = 1..Len(results)
      /\ \A k \in 1..Len(results) : results'[k] = results[k]
      /\ results'[Len(results) + 1] = [item |-> i, ok |-> b]
  BY <1>1
<1>3. \A k : k \in DOMAIN results' <=> k \in DOMAIN results \/ k = Len(results) + 1
  BY <1>2
<1>4. \A k \in DOMAIN results : results'[k] = results[k]
  BY <1>2
<1>5. E!Pushed' = E!Pushed \cup {i}
  BY <1>2, <1>3, <1>4 DEF E!Pushed
<1>7. ASSUME NEW P PROVE (\A k \in DOMAIN results' : results'[k].item <= P) <=>
                           (\A k \in DOMAIN results : results[k].item <= P) /\ i <= P
  BY <1>2, <1>3, <1>4
<1>8. (\A k \in DOMAIN results' : results'[k].ok) <=> (\A k \in DOMAIN results : results[k].ok) /\ b
  BY <1>2, <1>3, <1>4
<1>9. Failed' <=> Failed \/ ~b
  BY <1>8 DEF Failed
<1>. QED BY <1>2, <1>5, <1>7, <1>8, <1>9

(* How Repeated changes when a worker goes on: a result that it pushes before  *)
(* it leaves is counted twice only if it leaves with the same item.           *)
LEMMA RepeatedChange ==
  ASSUME LoopType, LoopType', NEW w \in E!Alive,
         \A v \in E!Leaving : item'[v] = item[v],
         w \notin E!Leaving => item[w] \notin E!Pushed /\ \A v \in E!Leaving : item[v] # item[w]
  PROVE  LET pushes == Len(results') = Len(results) + 1 /\ E!Pushed' = E!Pushed \cup {item[w]}
             keeps == Len(results') = Len(results) /\ E!Pushed' = E!Pushed
             leaves == /\ w \notin E!Leaving /\ E!Leaving' = E!Leaving \cup {w}
                       /\ item'[w] = item[w]
             stays == w \notin E!Leaving /\ E!Leaving' = E!Leaving
             goes == w \in E!Leaving /\ E!Leaving' = E!Leaving \ {w}
         IN /\ keeps /\ leaves => E!Repeated' = E!Repeated
            /\ pushes /\ stays => E!Repeated' = E!Repeated
            /\ pushes /\ leaves => E!Repeated' = E!Repeated + 1
            /\ pushes /\ goes => E!Repeated' = E!Repeated
<1>. DEFINE i == item[w]
            pushes == Len(results') = Len(results) + 1 /\ E!Pushed' = E!Pushed \cup {item[w]}
            keeps == Len(results') = Len(results) /\ E!Pushed' = E!Pushed
            leaves == /\ w \notin E!Leaving /\ E!Leaving' = E!Leaving \cup {w}
                      /\ item'[w] = item[w]
            stays == w \notin E!Leaving /\ E!Leaving' = E!Leaving
            goes == w \in E!Leaving /\ E!Leaving' = E!Leaving \ {w}
            S == E!Pushed \cup {item[v] : v \in E!Leaving}
            S2 == E!Pushed' \cup {item'[v] : v \in E!Leaving'}
<1>1. IsFiniteSet(S) /\ Cardinality(S) \in Nat /\ IsFiniteSet(E!Leaving) /\ Cardinality(E!Leaving) \in Nat
      /\ Len(results) \in Nat
  BY LoopSets, FewWorkers
<1>2. E!Repeated = Len(results) + Cardinality(E!Leaving) - Cardinality(S)
  BY SameCount DEF E!Repeated
<1>3. E!Repeated' = Len(results') + Cardinality(E!Leaving') - Cardinality(S2)
  BY SameCount DEF E!Repeated
<1>4. w \notin E!Leaving => i \notin S
  OBVIOUS
<1>5. leaves => Cardinality(E!Leaving') = Cardinality(E!Leaving) + 1
  BY <1>1, FS_AddElement
<1>6. w \notin E!Leaving => Cardinality(S \cup {i}) = Cardinality(S) + 1
  <2>. HIDE DEF S, i
  <2>. QED BY <1>1, <1>4, FS_AddElement
<1>7. leaves => {item'[v] : v \in E!Leaving'} = {item[v] : v \in E!Leaving} \cup {i}
  OBVIOUS
<1>8. ASSUME keeps, leaves PROVE E!Repeated' = E!Repeated
  <2>1. S2 = S \cup {i}
    BY <1>7, <1>8
  <2>. HIDE DEF S, S2, i
  <2>. QED BY <1>1, <1>2, <1>3, <1>5, <1>6, <1>8, <2>1
<1>9. ASSUME pushes, stays PROVE E!Repeated' = E!Repeated
  <2>1. S2 = S \cup {i}
    BY <1>9
  <2>. HIDE DEF S, S2, i
  <2>. QED BY <1>1, <1>2, <1>3, <1>6, <1>9, <2>1
<1>10. ASSUME pushes, leaves PROVE E!Repeated' = E!Repeated + 1
  <2>1. S2 = S \cup {i}
    BY <1>7, <1>10
  <2>. HIDE DEF S, S2, i
  <2>. QED BY <1>1, <1>2, <1>3, <1>5, <1>6, <1>10, <2>1
<1>11. ASSUME pushes, goes PROVE E!Repeated' = E!Repeated
  <2>1. S2 = S
    BY <1>11
  <2>2. Cardinality(E!Leaving') = Cardinality(E!Leaving) - 1
    BY <1>1, <1>11, FS_RemoveElement
  <2>. HIDE DEF S, S2
  <2>. QED BY <1>1, <1>2, <1>3, <1>11, <2>1, <2>2
<1>. QED BY <1>8, <1>9, <1>10, <1>11

(* The workers that are forked at first are the first ones.                   *)
LEMMA FirstWorkers ==
  ASSUME LoopType
  PROVE  LET forked == {w \in E!Worker : w <= n /\ w <= todos}
             m == IF n <= todos THEN n ELSE todos
         IN forked = 1..m /\ Cardinality(forked) = m /\ m \in 0..todos /\ m \in 0..Items
<1>. DEFINE forked == {w \in E!Worker : w <= n /\ w <= todos}
            m == IF n <= todos THEN n ELSE todos
<1>0. n \in Nat /\ todos \in 0..Items /\ Items \in Nat
  BY ItemsAssumption DEF LoopType, LoopCounts, LoopShapes
<1>1. m \in 0..todos /\ m \in 0..Items /\ m \in Nat
  BY <1>0
<1>2. forked = 1..m
  BY <1>0, <1>1 DEF E!Worker
<1>3. Cardinality(1..m) = m
  BY <1>1, FS_Interval
<1>. QED BY <1>1, <1>2, <1>3

(* onInterruptSignal drops what is left, and the counts still are counts.      *)
LEMMA CountsKept ==
  ASSUME LoopType, UNCHANGED E!pool \/ E!Interrupts
  PROVE  todos' \in 0..Items /\ target' \in Int /\ interrupted' \in BOOLEAN
<1>. USE ItemsAssumption DEF E!pool, E!Interrupts, LoopType, LoopCounts
<1>1. todos' \in 0..Items
  OBVIOUS
<1>2. target' \in Int
  OBVIOUS
<1>3. interrupted' \in BOOLEAN
  OBVIOUS
<1>. QED BY <1>1, <1>2, <1>3

(* The variables of the loop keep their types.                               *)
LEMMA LoopTypeStep == ASSUME LoopType, [E!Next]_(E!vars) PROVE LoopType'
<1>1. ASSUME E!CallerGoesOn \/ E!Interrupt \/ E!Processed \/ UNCHANGED E!vars PROVE LoopType'
  <2>1. UNCHANGED <<n, results, worker, item, ok>> /\ E!Alive' = E!Alive
    BY <1>1 DEF E!CallerGoesOn, E!Begin, E!Join, E!GiveUp, E!Return, E!Interrupt, E!Processed,
                E!vars, E!Alive
  <2>2. UNCHANGED E!pool \/ E!Interrupts
    BY <1>1 DEF E!CallerGoesOn, E!Begin, E!Join, E!GiveUp, E!Return, E!Interrupt, E!Processed,
                E!vars, E!Waits
  <2>3. todos' \in 0..Items /\ target' \in Int /\ interrupted' \in BOOLEAN
    BY <2>2, CountsKept
  <2>4. resumed' = resumed /\ (processing' = processing \/ processing' \in {"forked", "ended"})
    BY <1>1 DEF E!CallerGoesOn, E!Begin, E!Join, E!GiveUp, E!Return, E!Interrupt, E!Processed, E!vars
  <2>5. /\ parent' = parent \/ parent' \in {"joins", "waits", "gives up", "returned", "failed"}
        /\ signalled' = signalled \/ signalled' = TRUE
    BY <1>1 DEF E!CallerGoesOn, E!Begin, E!Join, E!GiveUp, E!Return, E!Interrupt, E!Processed,
                E!vars, E!caller, E!Waits
  <2>. QED BY <2>1, <2>3, <2>4, <2>5 DEF LoopType, LoopCounts, LoopShapes
<1>2. ASSUME E!Process PROVE LoopType'
  <2>. DEFINE forked == {w \in E!Worker : w <= n /\ w <= todos}
  <2>1. Cardinality(forked) \in 0..todos /\ forked \subseteq 1..Items
    BY FirstWorkers DEF E!Worker
  <2>2. todos' \in 0..Items /\ todos' = todos - Cardinality(forked)
    <3>1. todos' = todos - Cardinality(forked)
      BY <1>2, SameCount DEF E!Process
    <3>. HIDE DEF forked
    <3>. QED BY <2>1, <3>1, ItemsAssumption DEF LoopType, LoopCounts
  <2>3. /\ worker' = [w \in E!Worker |-> IF w \in forked THEN "forked" ELSE worker[w]]
        /\ item' = [w \in E!Worker |-> IF w \in forked THEN w ELSE item[w]]
    BY <1>2 DEF E!Process
  <2>4. worker' \in [E!Worker -> E!Label] /\ item' \in [E!Worker -> 0..Items]
    <3>1. \A w \in forked : w \in 0..Items
      BY <2>1, ItemsAssumption
    <3>2. worker \in [E!Worker -> E!Label] /\ item \in [E!Worker -> 0..Items]
      BY DEF LoopType, LoopShapes
    <3>. HIDE DEF forked
    <3>. QED BY <2>3, <3>1, <3>2 DEF E!Label
  <2>5. \A w \in E!Alive' : item'[w] \in 1..Items
    BY <2>1, <2>3 DEF LoopType, LoopCounts, LoopShapes, E!Alive
  <2>. QED BY <1>2, <2>2, <2>4, <2>5 DEF E!Process, E!caller, LoopType, LoopCounts, LoopShapes
<1>3. ASSUME NEW w \in E!Worker, E!Start(w) PROVE LoopType'
  <2>1. worker' \in [E!Worker -> E!Label] /\ E!Alive' = E!Alive
    BY <1>3 DEF E!Start, E!Goto, LoopType, LoopCounts, LoopShapes, E!Label, E!Alive
  <2>. QED BY <1>3, <2>1 DEF E!Start, E!pool, E!caller, LoopType, LoopCounts, LoopShapes
<1>4. ASSUME NEW w \in E!Worker, NEW b \in BOOLEAN, E!Done(w, b) PROVE LoopType'
  <2>1. w \in E!Alive /\ item[w] \in 1..Items
    BY <1>4 DEF E!Done, E!Alive, LoopType, LoopCounts, LoopShapes
  <2>2. worker' \in [E!Worker -> E!Label] /\ E!Alive' = E!Alive
    BY <1>4 DEF E!Done, E!Goto, LoopType, LoopCounts, LoopShapes, E!Label, E!Alive
  <2>3. results' \in Seq([item : 1..Items, ok : BOOLEAN])
    <3>1. results' = results \/ \E c \in BOOLEAN : results' = Append(results, [item |-> item[w], ok |-> c])
      BY <1>4 DEF E!Done, E!Push
    <3>2. results \in Seq([item : 1..Items, ok : BOOLEAN])
      BY DEF LoopType, LoopShapes
    <3>3. ASSUME NEW c \in BOOLEAN
          PROVE  Append(results, [item |-> item[w], ok |-> c]) \in Seq([item : 1..Items, ok : BOOLEAN])
      <4>1. [item |-> item[w], ok |-> c] \in [item : 1..Items, ok : BOOLEAN]
        BY <2>1
      <4>. QED BY <3>2, <4>1, AppendProperties
    <3>. QED BY <3>1, <3>2, <3>3
  <2>4. todos' \in 0..Items /\ target' \in Int /\ interrupted' \in BOOLEAN
    <3>1. \/ UNCHANGED E!pool
          \/ E!Interrupts
          \/ (todos > 0 /\ todos' = todos - 1 /\ UNCHANGED <<target, interrupted>>)
      BY <1>4 DEF E!Done
    <3>2. CASE todos > 0 /\ todos' = todos - 1 /\ UNCHANGED <<target, interrupted>>
      <4>1. todos \in 0..Items /\ target \in Int /\ interrupted \in BOOLEAN
        BY DEF LoopType, LoopCounts
      <4>. QED BY <3>2, <4>1, ItemsAssumption
    <3>. QED BY <3>1, <3>2, CountsKept
  <2>5. item' \in [E!Worker -> 0..Items] /\ \A v \in E!Alive' : item'[v] \in 1..Items
    <3>1. item' = item \/ (todos > 0 /\ item' = [item EXCEPT ![w] = Items - todos + 1])
      BY <1>4 DEF E!Done
    <3>2. todos > 0 => Items - todos + 1 \in 1..Items /\ Items - todos + 1 \in 0..Items
      BY ItemsAssumption DEF LoopType, LoopCounts
    <3>3. item \in [E!Worker -> 0..Items] /\ \A v \in E!Alive : item[v] \in 1..Items /\ v \in E!Worker
      BY DEF LoopType, LoopShapes, E!Alive
    <3>. QED BY <2>2, <3>1, <3>2, <3>3
  <2>. QED BY <1>4, <2>2, <2>3, <2>4, <2>5 DEF E!Done, E!caller, LoopType, LoopCounts, LoopShapes
<1>5. ASSUME NEW w \in E!Worker, E!End(w) PROVE LoopType'
  <2>1. w \in E!Alive /\ item[w] \in 1..Items /\ ok[w] \in BOOLEAN
    BY <1>5 DEF E!End, E!Alive, LoopType, LoopCounts, LoopShapes
  <2>2. worker' \in [E!Worker -> E!Label] /\ E!Alive' \subseteq E!Alive
    BY <1>5 DEF E!End, E!Goto, LoopType, LoopCounts, LoopShapes, E!Label, E!Alive
  <2>3. results' \in Seq([item : 1..Items, ok : BOOLEAN])
    <3>1. results' = Append(results, [item |-> item[w], ok |-> ok[w]])
      BY <1>5 DEF E!End, E!Push
    <3>2. results \in Seq([item : 1..Items, ok : BOOLEAN])
      BY DEF LoopType, LoopShapes
    <3>3. [item |-> item[w], ok |-> ok[w]] \in [item : 1..Items, ok : BOOLEAN]
      BY <2>1
    <3>. QED BY <3>1, <3>2, <3>3
  <2>4. todos' \in 0..Items /\ target' \in Int /\ interrupted' \in BOOLEAN
    <3>1. UNCHANGED E!pool \/ E!Interrupts
      BY <1>5 DEF E!End
    <3>. QED BY <3>1, CountsKept
  <2>5. resumed' \in {"nothing", "success", "failure"}
    BY <1>5 DEF E!End, E!Collected, LoopType, LoopCounts, LoopShapes
  <2>. QED BY <1>5, <2>2, <2>3, <2>4, <2>5 DEF E!End, E!caller, LoopType, LoopCounts, LoopShapes
<1>. QED BY <1>1, <1>2, <1>3, <1>4, <1>5 DEF E!Next, E!ProcessingGoesOn

(* Steps of the caller and of the processing fiber, and the first of a worker. *)
Quiet ==
  /\ UNCHANGED <<n, results, item>> /\ E!Alive' = E!Alive /\ E!Leaving' = E!Leaving
  /\ UNCHANGED E!pool \/ E!Interrupts

LEMMA QuietStep ==
  ASSUME LoopType, OnceEach, Balance, Covered, Quiet
  PROVE  OnceEach' /\ Balance' /\ Covered' /\ E!Repeated' = E!Repeated /\ Failed' = Failed
<1>1. E!Pushed' = E!Pushed /\ Busy' = Busy /\ Failed' = Failed
  BY DEF Quiet, E!Pushed, Busy, Failed
<1>2. E!Repeated' = E!Repeated
  BY <1>1 DEF Quiet, E!Repeated
<1>3. CASE UNCHANGED E!pool
  <2>1. OnceEach'
    BY <1>1, <1>2, <1>3 DEF Quiet, OnceEach, E!pool
  <2>2. Balance'
    BY <1>2, <1>3 DEF Quiet, Balance, E!pool
  <2>3. Covered'
    BY <1>1, <1>3 DEF Quiet, Covered, E!pool
  <2>. QED BY <1>1, <1>2, <2>1, <2>2, <2>3
<1>4. CASE E!Interrupts
  <2>1. interrupted' /\ todos' = 0 /\ target' = target - todos
    BY <1>4 DEF E!Interrupts
  <2>2. OnceEach'
    BY <1>1, <1>2, <2>1 DEF Quiet, OnceEach
  <2>3. Balance'
    <3>1. Len(results) \in Nat /\ Cardinality(E!Alive) \in Nat
      BY LoopSets, FewWorkers
    <3>2. E!Repeated \in 0..1
      BY DEF OnceEach
    <3>3. todos \in Nat /\ target \in Int
      BY ItemsAssumption DEF LoopType, LoopCounts
    <3>. QED BY <1>2, <2>1, <3>1, <3>2, <3>3 DEF Quiet, Balance
  <2>4. Covered'
    BY <2>1 DEF Covered
  <2>. QED BY <1>1, <1>2, <2>2, <2>3, <2>4
<1>. QED BY <1>3, <1>4 DEF Quiet

(* The numbers that Balance speaks of.                                       *)
LEMMA LoopNumbers ==
  ASSUME LoopEach
  PROVE  /\ Len(results) \in Nat /\ Cardinality(E!Alive) \in Nat /\ IsFiniteSet(E!Alive)
         /\ n \in Nat /\ todos \in 0..Items /\ todos \in Nat /\ target \in Int
         /\ E!Repeated \in 0..1 /\ Items \in Nat /\ Items > 0
<1>1. Len(results) \in Nat /\ Cardinality(E!Alive) \in Nat /\ IsFiniteSet(E!Alive)
  BY LoopSets, FewWorkers DEF LoopEach
<1>2. n \in Nat /\ todos \in 0..Items /\ target \in Int
  BY DEF LoopEach, LoopType, LoopCounts
<1>3. E!Repeated \in 0..1
  BY DEF LoopEach, OnceEach
<1>. QED BY <1>1, <1>2, <1>3, ItemsAssumption

(* The first workers take the first items.                                   *)
LEMMA ProcessStep == ASSUME LoopEach, E!Process, LoopType' PROVE LoopEach'
<1>. DEFINE forked == {w \in E!Worker : w <= n /\ w <= todos}
            m == IF n <= todos THEN n ELSE todos
<1>1. /\ processing = "forked" /\ processing' = "waiting"
      /\ E!Alive = {} /\ results = <<>> /\ resumed = "nothing" /\ (interrupted \/ todos = Items)
      /\ UNCHANGED <<n, target, interrupted, told, results, ok, resumed, parent, signalled>>
  BY DEF LoopEach, LoopStages, E!Process, E!caller
<1>2. forked = 1..m /\ Cardinality(forked) = m /\ m \in 0..todos /\ m \in 0..Items
  BY FirstWorkers DEF LoopEach
<1>3. /\ todos' = todos - m
      /\ worker' = [w \in E!Worker |-> IF w \in forked THEN "forked" ELSE worker[w]]
      /\ item' = [w \in E!Worker |-> IF w \in forked THEN w ELSE item[w]]
  BY <1>2, SameCount DEF E!Process
<1>4. E!Leaving = {} /\ E!Pushed = {} /\ ~Failed
  BY <1>1 DEF E!Leaving, E!Alive, E!Pushed, Failed
<1>5. E!Alive' = forked /\ E!Leaving' = {} /\ Busy' = forked /\ E!Pushed' = {} /\ Failed' = FALSE
  <2>1. E!Alive' = forked /\ E!Leaving' = {}
    BY <1>1, <1>3 DEF E!Alive, E!Leaving
  <2>2. E!Pushed' = {} /\ Failed' = FALSE
    BY <1>1 DEF E!Pushed, Failed
  <2>. QED BY <2>1, <2>2 DEF Busy
<1>6. \A w \in forked : item'[w] = w
  BY <1>3
<1>7. E!Repeated = 0 /\ E!Repeated' = 0
  <2>1. {item[w] : w \in E!Leaving} = {} /\ {item'[w] : w \in E!Leaving'} = {}
    BY <1>4, <1>5
  <2>2. Cardinality({}) = 0
    BY FS_EmptySet
  <2>3. E!Pushed \cup {item[w] : w \in E!Leaving} = {} /\ E!Pushed' \cup {item'[w] : w \in E!Leaving'} = {}
    BY <1>4, <1>5, <2>1
  <2>4. Len(results) = 0 /\ Len(results') = 0
    BY <1>1
  <2>5. /\ E!Cardinality(E!Pushed \cup {item[w] : w \in E!Leaving}) = 0 /\ E!Cardinality(E!Leaving) = 0
        /\ E!Cardinality(E!Pushed' \cup {item'[w] : w \in E!Leaving'}) = 0 /\ E!Cardinality(E!Leaving') = 0
    BY <1>4, <1>5, <2>2, <2>3, SameCount
  <2>6. E!Repeated = 0
    BY <2>4, <2>5 DEF E!Repeated
  <2>7. E!Repeated' = 0
    BY <2>4, <2>5 DEF E!Repeated
  <2>. QED BY <2>6, <2>7
<1>8. OnceEach'
  <2>1. todos' > 0 => \A w \in forked : w <= Items - todos'
    <3>1. CASE interrupted
      <4>1. todos = 0
        BY <3>1 DEF LoopEach, LoopStages
      <4>. QED BY <1>2, <1>3, <4>1
    <3>2. CASE ~interrupted
      <4>1. todos = Items /\ Items - todos' = m
        BY <1>1, <1>2, <1>3, <3>2, ItemsAssumption
      <4>. QED BY <1>2, <4>1
    <3>. QED BY <3>1, <3>2
  <2>. QED BY <1>1, <1>4, <1>5, <1>6, <1>7, <2>1 DEF OnceEach
<1>9. Balance'
  <2>1. Len(results) = 0 /\ Cardinality(E!Alive) = 0
    BY <1>1, FS_EmptySet
  <2>2. todos = target
    BY <1>7, <2>1, LoopNumbers DEF LoopEach, Balance
  <2>3. Len(results') = 0 /\ Cardinality(E!Alive') = m /\ target' = target /\ todos' = todos - m
    BY <1>1, <1>2, <1>3, <1>5, <2>1
  <2>. HIDE DEF m
  <2>. QED BY <1>2, <1>7, <2>2, <2>3, LoopNumbers DEF Balance
<1>10. Covered'
  <2>. SUFFICES ASSUME ~interrupted PROVE Covered'
    BY <1>1 DEF Covered
  <2>1. todos = Items /\ Items - todos' = m
    BY <1>1, <1>2, <1>3, ItemsAssumption
  <2>2. target = Items /\ target' = target
    BY <1>1 DEF LoopEach, Covered
  <2>3. \A i \in 1..(Items - todos') : i \in E!Alive' /\ item'[i] = i
    BY <1>2, <1>5, <1>6, <2>1
  <2>. QED BY <1>1, <2>2, <2>3 DEF Covered
<1>11. LoopStages'
  <2>1. n >= Items => todos' = 0
    BY <1>3, LoopNumbers
  <2>2. interrupted => todos' = 0
    <3>1. interrupted => todos = 0
      BY DEF LoopEach, LoopStages
    <3>. QED BY <1>3, <3>1, LoopNumbers
  <2>3. parent # "begins"
    BY <1>1 DEF LoopEach, LoopStages
  <2>. QED BY <1>1, <1>4, <1>5, <2>1, <2>2, <2>3 DEF LoopEach, LoopStages, E!Over
<1>. QED BY <1>8, <1>9, <1>10, <1>11 DEF LoopEach

(* A loop that succeeded with nobody interrupted has no worker left.          *)
LEMMA NothingAfterSuccess ==
  ASSUME LoopEach, resumed # "nothing", ~interrupted
  PROVE  Len(results) = Items /\ E!Alive = {} /\ todos = 0 /\ E!Repeated = 0
<1>1. E!Repeated = 0
  BY LoopNumbers DEF LoopEach, OnceEach
<1>2. target = Items /\ Len(results) >= target
  BY DEF LoopEach, Covered, LoopStages
<1>3. Len(results) = Items /\ Cardinality(E!Alive) = 0 /\ todos = 0
  BY <1>1, <1>2, LoopNumbers DEF LoopEach, Balance
<1>. QED BY <1>1, <1>3, LoopNumbers, FS_EmptySet

(* A body ends.                                                              *)
LEMMA DoneStep ==
  ASSUME LoopEach, NEW w \in E!Worker, NEW b \in BOOLEAN, E!Done(w, b), LoopType'
  PROVE  LoopEach'
<1>1. w \in Busy /\ w \in E!Alive /\ w \notin E!Leaving /\ E!Alive' = E!Alive /\ item[w] \in 1..Items
  BY DEF LoopEach, LoopType, LoopCounts, LoopShapes, E!Done, E!Goto, Busy, E!Alive, E!Leaving
<1>2. UNCHANGED <<n, processing, resumed, parent, signalled>>
  BY DEF E!Done, E!caller
<1>3. Len(results) \in Nat /\ Cardinality(E!Alive) \in Nat /\ todos \in 0..Items /\ target \in Int
      /\ E!Repeated \in 0..1
  BY LoopNumbers
<1>4. processing \notin {"none", "forked"}
  BY <1>1 DEF LoopEach, LoopStages
<1>5. item[w] \notin E!Pushed /\ \A v \in E!Leaving : item[v] # item[w]
  BY <1>1 DEF LoopEach, OnceEach
<1>6. todos > 0 => ~interrupted /\ E!Repeated = 0 /\ resumed = "nothing" /\ E!Leaving = {} /\ n < Items
  <2>. SUFFICES ASSUME todos > 0
                PROVE  ~interrupted /\ E!Repeated = 0 /\ resumed = "nothing" /\ E!Leaving = {} /\ n < Items
    OBVIOUS
  <2>0. todos # 0
    BY <1>3
  <2>1. ~interrupted /\ E!Leaving = {} /\ ~(n >= Items)
    BY <1>4, <2>0 DEF LoopEach, LoopStages
  <2>2. E!Repeated = 0
    BY <1>3, <2>1 DEF LoopEach, OnceEach
  <2>3. resumed = "nothing"
    BY <1>3, <2>1, NothingAfterSuccess
  <2>. QED BY <2>1, <2>2, <2>3, LoopNumbers
<1>10. Len(results) + Cardinality(E!Alive) + todos = target + E!Repeated
  BY DEF LoopEach, Balance
<1>7. CASE todos = 0 /\ E!Goto(w, "leaving") /\ UNCHANGED <<E!pool, results, item>>
  <2>1. E!Leaving' = E!Leaving \cup {w} /\ Busy' = Busy \ {w}
    BY <1>1, <1>7 DEF LoopEach, LoopType, LoopCounts, LoopShapes, E!Goto, Busy, E!Alive, E!Leaving
  <2>2. E!Pushed' = E!Pushed /\ Failed' = Failed
    BY <1>7 DEF E!Pushed, Failed
  <2>3. UNCHANGED <<todos, target, interrupted, results, item>>
    BY <1>7 DEF E!pool
  <2>5. E!Repeated' = E!Repeated
    BY <1>1, <1>5, <2>1, <2>2, <2>3, RepeatedChange DEF LoopEach
  <2>6. OnceEach'
    BY <1>1, <1>2, <1>5, <1>7, <2>1, <2>2, <2>3, <2>5 DEF LoopEach, OnceEach, Busy
  <2>7. Balance'
    BY <1>1, <2>3, <2>5 DEF LoopEach, Balance
  <2>8. Covered'
    BY <1>1, <2>2, <2>3 DEF LoopEach, Covered
  <2>9. LoopStages'
    BY <1>1, <1>2, <1>4, <1>7, <2>2, <2>3 DEF LoopEach, LoopStages, E!Over
  <2>. QED BY <2>6, <2>7, <2>8, <2>9 DEF LoopEach
<1>8. CASE /\ todos > 0 /\ b
           /\ results' = E!Push(w, TRUE)
           /\ item' = [item EXCEPT ![w] = Items - todos + 1]
           /\ todos' = todos - 1
           /\ E!Goto(w, "yielding")
           /\ UNCHANGED <<target, interrupted, told>>
  <2>1. E!Leaving' = E!Leaving /\ Busy' = Busy
    BY <1>1, <1>8 DEF LoopEach, LoopType, LoopCounts, LoopShapes, E!Goto, Busy, E!Alive, E!Leaving
  <2>2. results' = Append(results, [item |-> item[w], ok |-> TRUE])
    BY <1>8 DEF E!Push
  <2>3. /\ Len(results') = Len(results) + 1
        /\ E!Pushed' = E!Pushed \cup {item[w]} /\ (Failed' <=> Failed)
        /\ \A P : (\A k \in DOMAIN results' : results'[k].item <= P) <=>
                     (\A k \in DOMAIN results : results[k].item <= P) /\ item[w] <= P
        /\ (\A k \in DOMAIN results' : results'[k].ok) <=> (\A k \in DOMAIN results : results[k].ok)
    <3>1. LoopType /\ TRUE \in BOOLEAN
      BY DEF LoopEach
    <3>. QED BY <1>1, <2>2, <3>1, PushedMore
  <2>4. item'[w] = Items - todos + 1 /\ \A v \in E!Alive : v # w => item'[v] = item[v]
    BY <1>1, <1>8, LoopSets DEF LoopEach, LoopType, LoopCounts, LoopShapes, E!Worker
  <2>5. E!Repeated' = E!Repeated
    BY <1>1, <1>5, <1>6, <1>8, <2>1, <2>3, RepeatedChange DEF LoopEach
  <2>6. E!Repeated' = 0 /\ E!Leaving' = {}
    BY <1>6, <1>8, <2>1, <2>5
  <2>7. \A v \in E!Alive : item[v] \in 1..Items /\ item[v] <= Items - todos
    BY <1>8 DEF LoopEach, OnceEach, LoopType, LoopCounts, LoopShapes
  <2>8. \A i \in E!Pushed : i <= Items - todos
    BY <1>8 DEF LoopEach, OnceEach, E!Pushed
  <2>9. OnceEach'
    <3>1. ASSUME NEW u \in Busy, NEW v \in Busy, item'[u] = item'[v] PROVE u = v
      BY <1>1, <1>3, <2>4, <2>7, <3>1, ItemsAssumption DEF LoopEach, OnceEach, Busy
    <3>2. ASSUME NEW v \in Busy PROVE item'[v] \notin E!Pushed'
      <4>1. CASE v = w
        BY <1>1, <1>3, <2>3, <2>4, <2>7, <2>8, <4>1, ItemsAssumption
      <4>2. CASE v # w
        BY <1>1, <2>3, <2>4, <4>2 DEF LoopEach, OnceEach, Busy
      <4>. QED BY <4>1, <4>2
    <3>3. /\ \A v \in E!Alive' : item'[v] <= Items - todos'
          /\ \A k \in DOMAIN results' : results'[k].item <= Items - todos'
      <4>1. \A v \in E!Alive : item'[v] <= Items - todos'
        BY <1>1, <1>3, <1>8, <2>4, <2>7, ItemsAssumption
      <4>2. item[w] <= Items - todos' /\ \A k \in DOMAIN results : results[k].item <= Items - todos'
        <5>1. \A k \in DOMAIN results : results[k].item \in 1..Items /\ results[k].item <= Items - todos
          <6>1. \A k \in DOMAIN results : results[k].item \in E!Pushed /\ results[k].item <= Items - todos
            BY <1>8 DEF LoopEach, OnceEach, E!Pushed
          <6>. QED BY <6>1, LoopSets DEF LoopEach
        <5>. QED BY <1>1, <1>3, <1>8, <2>7, <5>1, ItemsAssumption
      <4>. QED BY <1>1, <2>3, <4>1, <4>2
    <3>. QED BY <2>1, <2>6, <3>1, <3>2, <3>3 DEF OnceEach
  <2>10. Balance'
    <3>1. todos > 0 /\ todos' = todos - 1 /\ target' = target
      BY <1>8
    <3>2. Len(results') = Len(results) + 1 /\ E!Alive' = E!Alive /\ E!Repeated = 0 /\ E!Repeated' = 0
      BY <1>1, <1>6, <2>3, <2>6, <3>1
    <3>. QED BY <1>3, <1>10, <3>1, <3>2 DEF Balance
  <2>11. Covered'
    <3>1. target' = Items /\ ~interrupted'
      BY <1>6, <1>8 DEF LoopEach, Covered
    <3>2. \A k \in DOMAIN results' : results'[k].ok
      BY <1>6, <1>8, <2>3 DEF LoopEach, Covered
    <3>3. ASSUME NEW i \in 1..(Items - todos') PROVE i \in E!Pushed' \/ \E v \in E!Alive' : item'[v] = i
      <4>1. CASE i = Items - todos + 1
        BY <1>1, <2>4, <4>1
      <4>2. CASE i # Items - todos + 1
        <5>1. i \in 1..(Items - todos)
          BY <1>3, <1>8, <3>3, <4>2, ItemsAssumption
        <5>2. i \in E!Pushed \/ \E v \in E!Alive : item[v] = i
          BY <1>6, <1>8, <5>1 DEF LoopEach, Covered
        <5>. QED BY <1>1, <2>3, <2>4, <5>2
      <4>. QED BY <4>1, <4>2
    <3>. QED BY <3>1, <3>2, <3>3 DEF Covered
  <2>12. LoopStages'
    <3>1. resumed = "nothing" /\ ~interrupted'
      BY <1>6, <1>8
    <3>2. ~(n' >= Items)
      BY <1>2, <1>6, <1>8, LoopNumbers
    <3>. QED BY <1>2, <1>4, <2>3, <2>6, <3>1, <3>2 DEF LoopEach, LoopStages, E!Over
  <2>. QED BY <2>9, <2>10, <2>11, <2>12 DEF LoopEach
<1>9. CASE /\ todos > 0 /\ ~b
           /\ results' = E!Push(w, FALSE)
           /\ E!Interrupts
           /\ E!Goto(w, "leaving")
           /\ UNCHANGED item
  <2>1. E!Leaving' = E!Leaving \cup {w} /\ Busy' = Busy \ {w}
    BY <1>1, <1>9 DEF LoopEach, LoopType, LoopCounts, LoopShapes, E!Goto, Busy, E!Alive, E!Leaving
  <2>2. results' = Append(results, [item |-> item[w], ok |-> FALSE])
    BY <1>9 DEF E!Push
  <2>3. Len(results') = Len(results) + 1 /\ E!Pushed' = E!Pushed \cup {item[w]} /\ Failed'
    BY <1>1, <2>2, PushedMore DEF LoopEach
  <2>4. E!Repeated' = E!Repeated + 1
    BY <1>1, <1>5, <1>9, <2>1, <2>3, RepeatedChange DEF LoopEach
  <2>5. E!Repeated' = 1
    BY <1>6, <1>9, <2>4
  <2>6. interrupted' /\ todos' = 0 /\ target' = target - todos /\ item' = item
    BY <1>9 DEF E!Interrupts
  <2>7. OnceEach'
    <3>1. \A v \in Busy' : v \in Busy /\ v # w /\ item[v] # item[w]
      BY <1>1, <2>1 DEF LoopEach, OnceEach
    <3>2. n' < Items
      BY <1>2, <1>6, <1>9
    <3>. QED BY <2>1, <2>3, <2>5, <2>6, <3>1, <3>2 DEF LoopEach, OnceEach
  <2>8. Balance'
    <3>1. Len(results') = Len(results) + 1 /\ E!Alive' = E!Alive /\ E!Repeated = 0 /\ E!Repeated' = 1
      BY <1>1, <1>6, <1>9, <2>3, <2>5
    <3>. QED BY <1>3, <1>10, <2>6, <3>1 DEF Balance
  <2>9. LoopStages'
    BY <1>1, <1>2, <1>4, <1>6, <1>9, <2>3, <2>6 DEF LoopEach, LoopStages, E!Over
  <2>. QED BY <2>6, <2>7, <2>8, <2>9 DEF LoopEach, Covered
<1>. QED BY <1>7, <1>8, <1>9 DEF E!Done

(* A worker ends, and pushes the result it left with.                         *)
LEMMA EndStep == ASSUME LoopEach, NEW w \in E!Worker, E!End(w), LoopType' PROVE LoopEach'
<1>. DEFINE rs == E!Push(w, ok[w])
<1>1. /\ w \in E!Alive /\ w \in E!Leaving /\ E!Alive' = E!Alive \ {w} /\ E!Leaving' = E!Leaving \ {w}
      /\ Busy' = Busy /\ item[w] \in 1..Items /\ ok[w] \in BOOLEAN
  BY DEF LoopEach, LoopType, LoopCounts, LoopShapes, E!End, E!Goto, Busy, E!Alive, E!Leaving
<1>2. UNCHANGED <<n, item, processing, parent, signalled>>
  BY DEF E!End, E!caller
<1>3. Len(results) \in Nat /\ Cardinality(E!Alive) \in Nat /\ IsFiniteSet(E!Alive) /\ target \in Int
      /\ E!Repeated \in 0..1
  BY LoopNumbers
<1>4. processing \notin {"none", "forked"} /\ todos = 0
  BY <1>1 DEF LoopEach, LoopStages
<1>5. results' = rs /\ rs = Append(results, [item |-> item[w], ok |-> ok[w]])
  BY DEF E!End, E!Push
<1>6. /\ Len(results') = Len(results) + 1
      /\ E!Pushed' = E!Pushed \cup {item[w]} /\ (Failed' <=> Failed \/ ~ok[w])
      /\ (\A k \in DOMAIN results' : results'[k].ok) <=> (\A k \in DOMAIN results : results[k].ok) /\ ok[w]
  BY <1>1, <1>5, PushedMore DEF LoopEach
<1>8. E!Repeated' = E!Repeated
  BY <1>1, <1>2, <1>6, RepeatedChange DEF LoopEach
<1>9. todos' = 0 /\ target' = target /\ (interrupted' <=> interrupted \/ ~ok[w])
  <2>1. \/ (ok[w] \/ interrupted) /\ UNCHANGED <<todos, target, interrupted>>
        \/ ~ok[w] /\ ~interrupted /\ todos' = 0 /\ target' = target - todos /\ interrupted' = TRUE
    BY DEF E!End, E!pool, E!Interrupts
  <2>2. interrupted \in BOOLEAN
    BY DEF LoopEach, LoopType, LoopCounts
  <2>. QED BY <1>1, <1>3, <1>4, <2>1, <2>2
<1>10. OnceEach'
  <2>1. \A v \in Busy : item[v] # item[w]
    BY <1>1 DEF LoopEach, OnceEach
  <2>2. E!Repeated \in 0..1 /\ (E!Repeated = 1 => interrupted /\ n < Items)
    BY DEF LoopEach, OnceEach
  <2>3. \A v \in Busy : item[v] \notin E!Pushed' /\ \A u \in E!Leaving' : item[u] # item[v]
    BY <1>1, <1>6, <2>1 DEF LoopEach, OnceEach
  <2>4. \A u, v \in Busy : item[u] = item[v] => u = v
    BY DEF LoopEach, OnceEach
  <2>5. E!Repeated' \in 0..1 /\ (E!Repeated' = 1 => interrupted' /\ n' < Items)
    BY <1>2, <1>8, <1>9, <2>2
  <2>6. ~(todos' > 0)
    BY <1>9
  <2>7. \A u, v \in Busy' : item'[u] = item'[v] => u = v
    BY <1>1, <1>2, <2>4
  <2>8. \A v \in Busy' : item'[v] \notin E!Pushed' /\ \A u \in E!Leaving' : item'[u] # item'[v]
    BY <1>1, <1>2, <2>3
  <2>. QED BY <2>5, <2>6, <2>7, <2>8 DEF OnceEach
<1>11. Balance'
  <2>1. Cardinality(E!Alive') = Cardinality(E!Alive) - 1
    BY <1>1, <1>3, FS_RemoveElement
  <2>. QED BY <1>3, <1>4, <1>6, <1>8, <1>9, <2>1 DEF LoopEach, Balance
<1>12. Covered'
  <2>. SUFFICES ASSUME ~interrupted' PROVE Covered'
    BY DEF Covered
  <2>1. ~interrupted /\ ok[w]
    BY <1>9
  <2>2. target = Items /\ (\A k \in DOMAIN results : results[k].ok)
        /\ \A i \in 1..(Items - todos) : i \in E!Pushed \/ \E v \in E!Alive : item[v] = i
    BY <2>1 DEF LoopEach, Covered
  <2>3. \A i \in 1..(Items - todos') : i \in E!Pushed' \/ \E v \in E!Alive' : item'[v] = i
    BY <1>1, <1>2, <1>4, <1>6, <1>9, <2>2
  <2>. QED BY <1>6, <1>9, <2>1, <2>2, <2>3 DEF Covered
<1>13. resumed' = IF resumed = "nothing" /\ Len(rs) = target
                    THEN IF \A k \in DOMAIN rs : rs[k].ok THEN "success" ELSE "failure"
                    ELSE resumed
  BY DEF E!End, E!IsComplete, E!Collected
<1>14. LoopStages'
  <2>1. resumed' # "nothing" => Len(results') >= target'
    <3>1. resumed # "nothing" => Len(results) >= target
      BY DEF LoopEach, LoopStages
    <3>2. resumed = "nothing" /\ resumed' # "nothing" => Len(results') = target
      BY <1>5, <1>13
    <3>. QED BY <1>3, <1>6, <1>9, <3>1, <3>2
  <2>2. resumed' = "failure" => Failed'
    BY <1>5, <1>6, <1>13 DEF LoopEach, LoopStages, Failed
  <2>3. interrupted' => Failed' \/ (signalled /\ parent \in {"gives up", "failed"})
    BY <1>6, <1>9 DEF LoopEach, LoopStages
  <2>4. resumed' = "success" /\ interrupted' => parent \in {"gives up", "failed"}
    <3>1. CASE resumed = "nothing"
      <4>1. resumed' = "success" => ~Failed'
        BY <1>5, <1>13, <3>1 DEF Failed
      <4>. QED BY <2>3, <4>1
    <3>2. CASE resumed # "nothing"
      BY <1>1, <1>13, <3>2, NothingAfterSuccess DEF LoopEach, LoopStages
    <3>. QED BY <3>1, <3>2
  <2>5. resumed # "nothing" => resumed' = resumed
    BY <1>13
  <2>. QED BY <1>2, <1>4, <1>6, <1>9, <2>1, <2>2, <2>3, <2>4, <2>5 DEF LoopEach, LoopStages, E!Over
<1>. QED BY <1>10, <1>11, <1>12, <1>14 DEF LoopEach

(* The caller, the processing fiber, and a worker that begins.                *)
LEMMA CallerStep ==
  ASSUME LoopEach, LoopType',
         E!CallerGoesOn \/ E!Interrupt \/ E!Processed \/ UNCHANGED E!vars \/ \E w \in E!Worker : E!Start(w)
  PROVE  LoopEach'
<1>1. Quiet
  <2>1. ASSUME NEW w \in E!Worker, E!Start(w) PROVE Quiet
    BY <2>1 DEF Quiet, E!Start, E!Goto, E!Alive, E!Leaving, E!pool, LoopEach, LoopType, LoopCounts, LoopShapes
  <2>2. ASSUME E!CallerGoesOn \/ E!Interrupt \/ E!Processed \/ UNCHANGED E!vars PROVE Quiet
    <3>1. UNCHANGED <<n, results, item, worker>>
      BY <2>2 DEF E!CallerGoesOn, E!Begin, E!Join, E!GiveUp, E!Return, E!Interrupt, E!Processed, E!vars
    <3>2. UNCHANGED E!pool \/ E!Interrupts
      BY <2>2 DEF E!CallerGoesOn, E!Begin, E!Join, E!GiveUp, E!Return, E!Interrupt, E!Processed,
                  E!vars, E!pool, E!Waits
    <3>. QED BY <3>1, <3>2 DEF Quiet, E!Alive, E!Leaving
  <2>. QED BY <2>1, <2>2
<1>2. OnceEach' /\ Balance' /\ Covered' /\ Failed' = Failed
  BY <1>1, QuietStep DEF LoopEach
<1>3. /\ UNCHANGED <<n, results>> /\ E!Alive' = E!Alive /\ E!Leaving' = E!Leaving /\ resumed' = resumed
      /\ Len(results) \in Nat /\ todos \in Nat /\ target \in Int
  <2>1. resumed' = resumed
    BY DEF E!CallerGoesOn, E!Begin, E!Join, E!GiveUp, E!Return, E!Interrupt, E!Processed, E!vars, E!Start
  <2>. QED BY <1>1, <2>1, LoopNumbers DEF Quiet
<1>4. \/ UNCHANGED <<todos, target, interrupted>>
      \/ /\ todos' = 0 /\ target' = target - todos /\ interrupted'
         /\ parent' = "gives up" /\ signalled
  BY DEF E!CallerGoesOn, E!Begin, E!Join, E!GiveUp, E!Return, E!Interrupt, E!Processed, E!vars, E!Start,
         E!pool, E!Waits, E!Interrupts
<1>5. \/ UNCHANGED parent
      \/ parent = "begins" /\ parent' \in {"joins", "waits", "gives up"}
      \/ parent \in {"joins", "waits"} /\ parent' \in {"waits", "gives up"}
      \/ parent = "waits" /\ parent' = "returned" /\ resumed = "success" /\ processing = "ended"
      \/ parent = "waits" /\ parent' = "failed" /\ resumed # "success" /\ processing = "ended"
      \/ parent = "gives up" /\ parent' = "failed" /\ processing = "ended"
  BY DEF E!CallerGoesOn, E!Begin, E!Join, E!GiveUp, E!Return, E!Interrupt, E!Processed, E!vars, E!Start,
         E!Waits, E!caller
<1>6. \/ UNCHANGED processing
      \/ parent = "begins" /\ parent' # "begins" /\ processing' = "forked"
      \/ processing = "waiting" /\ processing' = "ended" /\ resumed # "nothing" /\ UNCHANGED parent
  BY DEF E!CallerGoesOn, E!Begin, E!Join, E!GiveUp, E!Return, E!Interrupt, E!Processed, E!vars, E!Start,
         E!Waits, E!caller
<1>7. (signalled => signalled') /\ (parent' = "gives up" => signalled')
  BY DEF E!CallerGoesOn, E!Begin, E!Join, E!GiveUp, E!Return, E!Interrupt, E!Processed, E!vars, E!Start,
         E!Waits, E!caller, LoopEach, LoopStages
<1>8. LoopStages'
  <2>1. /\ processing' \in {"none", "forked"} =>
             E!Alive = {} /\ results = <<>> /\ resumed = "nothing" /\ (interrupted' \/ todos' = Items)
        /\ parent' = "begins" => processing' = "none"
        /\ processing' \notin {"none", "forked"} /\ n >= Items => todos' = 0
    BY <1>4, <1>5, <1>6 DEF LoopEach, LoopStages
  <2>2. interrupted' => todos' = 0 /\ (Failed \/ (signalled' /\ parent' \in {"gives up", "failed"}))
    BY <1>4, <1>5, <1>7 DEF LoopEach, LoopStages
  <2>3. /\ E!Leaving # {} => todos' = 0
        /\ processing' = "ended" => resumed # "nothing"
        /\ resumed # "nothing" => Len(results) >= target'
    <3>1. E!Leaving # {} => todos' = 0
      BY <1>4 DEF LoopEach, LoopStages
    <3>2. processing' = "ended" => resumed # "nothing"
      BY <1>6 DEF LoopEach, LoopStages
    <3>3. resumed # "nothing" => Len(results) >= target
      BY DEF LoopEach, LoopStages
    <3>4. resumed # "nothing" => Len(results) >= target'
      <4>1. CASE target' = target
        BY <3>3, <4>1
      <4>2. CASE target' = target - todos
        BY <1>3, <3>3, <4>2
      <4>. QED BY <1>4, <4>1, <4>2
    <3>. QED BY <3>1, <3>2, <3>4
  <2>4. /\ resumed = "success" /\ interrupted' => parent' \in {"gives up", "failed"}
        /\ parent' = "returned" => resumed = "success"
    <3>1. resumed = "success" /\ interrupted' => parent' \in {"gives up", "failed"}
      BY <1>4, <1>5 DEF LoopEach, LoopStages
    <3>2. parent' = "returned" => resumed = "success"
      BY <1>5 DEF LoopEach, LoopStages
    <3>. QED BY <3>1, <3>2
  <2>5. E!Over' => processing' = "ended"
    BY <1>5, <1>6 DEF LoopEach, LoopStages, E!Over
  <2>6. parent' = "failed" => signalled' \/ Failed
    BY <1>5, <1>7 DEF LoopEach, LoopStages, LoopType, LoopCounts, LoopShapes
  <2>7. resumed = "failure" => Failed
    BY DEF LoopEach, LoopStages
  <2>. QED BY <1>2, <1>3, <1>7, <2>1, <2>2, <2>3, <2>4, <2>5, <2>6, <2>7 DEF LoopStages
<1>. QED BY <1>2, <1>8 DEF LoopEach

(* Every step keeps the loop in order.                                       *)
LEMMA LoopEachStep == ASSUME LoopEach, [E!Next]_(E!vars) PROVE LoopEach'
<1>1. LoopType'
  BY LoopTypeStep DEF LoopEach
<1>. QED BY <1>1, ProcessStep, DoneStep, EndStep, CallerStep DEF E!Next, E!ProcessingGoesOn

(* A loop that begins, and one that is at rest, are in order.                 *)
LEMMA LoopBegins == E!Init \/ ForEachRests => LoopEach
<1>. SUFFICES ASSUME E!Init \/ ForEachRests PROVE LoopEach
  OBVIOUS
<1>1. results = <<>> /\ E!Alive = {} /\ E!Leaving = {} /\ E!Pushed = {} /\ Busy = {} /\ ~Failed
  <2>1. results = <<>> /\ \A w \in E!Worker : worker[w] = "none"
    BY DEF E!Init, ForEachRests
  <2>. QED BY <2>1 DEF E!Alive, E!Leaving, E!Pushed, Busy, Failed
<1>2. E!Repeated = 0 /\ Len(results) = 0 /\ Cardinality(E!Alive) = 0
  <2>1. Cardinality({}) = 0
    BY FS_EmptySet
  <2>2. E!Pushed \cup {item[w] : w \in E!Leaving} = {}
    BY <1>1
  <2>3. Len(results) = 0
    BY <1>1
  <2>4. E!Repeated = Len(results) + Cardinality({}) - Cardinality({})
    BY <1>1, <2>2, SameCount DEF E!Repeated
  <2>. QED BY <1>1, <2>1, <2>3, <2>4
<1>3. LoopType
  <2>1. LoopCounts
    <3>1. n \in Nat /\ todos \in 0..Items /\ target \in Int
      <4>1. CASE E!Init
        BY <4>1, ItemsAssumption DEF E!Init
      <4>2. CASE ForEachRests
        BY <4>2, ItemsAssumption DEF ForEachRests
      <4>. QED BY <4>1, <4>2
    <3>2. interrupted \in BOOLEAN /\ signalled \in BOOLEAN
      BY DEF E!Init, ForEachRests
    <3>. QED BY <3>1, <3>2 DEF LoopCounts
  <2>2. results \in Seq([item : 1..Items, ok : BOOLEAN]) /\ \A w \in E!Alive : item[w] \in 1..Items
    BY <1>1
  <2>3. /\ worker \in [E!Worker -> E!Label] /\ item \in [E!Worker -> 0..Items]
        /\ ok \in [E!Worker -> BOOLEAN]
    <3>1. 0 \in 0..Items
      BY ItemsAssumption
    <3>. QED BY <3>1 DEF E!Init, ForEachRests, E!Label
  <2>4. /\ processing \in {"none", "forked", "waiting", "ended"}
        /\ resumed \in {"nothing", "success", "failure"}
        /\ parent \in {"begins", "joins", "waits", "gives up", "returned", "failed"}
    BY DEF E!Init, ForEachRests
  <2>. QED BY <2>1, <2>2, <2>3, <2>4 DEF LoopType, LoopShapes
<1>4. OnceEach /\ Covered
  BY <1>1, <1>2, ItemsAssumption DEF OnceEach, Covered, E!Init, ForEachRests
<1>5. Balance
  BY <1>2, ItemsAssumption DEF Balance, E!Init, ForEachRests
<1>6. LoopStages
  <2>1. CASE E!Init
    BY <1>1, <2>1 DEF LoopStages, E!Over, E!Init
  <2>2. CASE ForEachRests
    <3>1. Len(results) >= target
      BY <1>2, <2>2 DEF ForEachRests
    <3>. QED BY <1>1, <2>2, <3>1 DEF LoopStages, E!Over, ForEachRests
  <2>. QED BY <2>1, <2>2
<1>. QED BY <1>3, <1>4, <1>5, <1>6 DEF LoopEach

(* Then its result is true, and nobody is left when it is over.               *)
LEMMA LoopResult == ASSUME LoopEach PROVE E!ResultIsTrue /\ E!NobodyLeft
<1>1. /\ Len(results) \in Nat /\ Cardinality(E!Alive) \in Nat /\ todos \in Nat /\ target \in Int
      /\ E!Repeated \in 0..1
  BY LoopNumbers
<1>2. ASSUME parent = "returned"
      PROVE  (\A k \in DOMAIN results : results[k].ok) /\ E!Pushed = 1..Items /\ E!Repeated = 0
  <2>1. resumed = "success" /\ ~interrupted
    BY <1>2 DEF LoopEach, LoopStages
  <2>2. E!Alive = {} /\ todos = 0 /\ E!Repeated = 0
    BY <2>1, NothingAfterSuccess
  <2>3. \A i \in 1..Items : i \in E!Pushed
    BY <2>1, <2>2, ItemsAssumption DEF LoopEach, Covered
  <2>. QED BY <2>1, <2>2, <2>3, LoopSets DEF LoopEach, Covered
<1>3. parent = "failed" => signalled \/ Failed
  BY DEF LoopEach, LoopStages
<1>4. E!Over => Cardinality(E!Alive) <= E!Repeated
  <2>. SUFFICES ASSUME E!Over PROVE Cardinality(E!Alive) <= E!Repeated
    OBVIOUS
  <2>1. Len(results) >= target
    BY DEF LoopEach, LoopStages
  <2>. QED BY <1>1, <2>1 DEF LoopEach, Balance
<1>5. E!Repeated <= IF n >= Items THEN 0 ELSE 1
  <2>1. E!Repeated = 1 => n < Items
    BY DEF LoopEach, OnceEach
  <2>. QED BY <2>1, LoopNumbers
<1>. QED BY <1>2, <1>3, <1>4, <1>5, SameCount DEF E!ResultIsTrue, E!NobodyLeft, Failed

-----------------------------------------------------------------------------
(* A race of two.                                                           *)
RaceType ==
  /\ kind \in {"race", "timeout"} /\ masked \in BOOLEAN /\ cut \in BOOLEAN
  /\ racer \in [R!Side -> {"none", "made", "forked", "running", "ended"}]
  /\ exit \in [R!Side -> {"none", "success", "failure"}]
  /\ stopped \subseteq R!Side
  /\ winner \in R!Side \cup {"nobody"}
  /\ racing \in {"begins", "made", "races", "interrupts", "joins", "returned", "failed",
                 "winds", "ended"}
  /\ outcome \in R!Side \cup {"none", "failure"}
  /\ finished \in Seq(R!Side)

(* Who has ended, and in which order.                                       *)
Finish ==
  /\ \A s \in R!Side : racer[s] = "ended" <=> exit[s] # "none"
  /\ winner = "nobody" => finished = <<>> /\ \A s \in R!Side : racer[s] # "ended"
  /\ winner \in R!Side =>
       /\ racer[winner] = "ended"
       /\ finished = IF racer[R!Other(winner)] = "ended" THEN <<winner, R!Other(winner)>> ELSE <<winner>>

(* A sleep fails only after the other racer has won.                          *)
SleepLoses ==
  kind = "timeout" /\ ("right" \in stopped \/ exit["right"] = "failure") => winner = "left"

RaceStages ==
  /\ cut /\ ~masked => R!Children \subseteq stopped
  /\ racing = "begins" => \A s \in R!Side : racer[s] = "none"
  /\ racing = "made" => \A s \in R!Side : racer[s] = "made"
  /\ racing = "interrupts" => winner \in R!Side /\ (kind = "race" => exit[winner] = "success")
  /\ racing = "joins" => winner \in R!Side /\ kind = "race" /\ exit[winner] = "failure"
  /\ R!Over <=> racing \in {"returned", "failed", "winds", "ended"}

(* What it comes to.                                                        *)
Verdict ==
  /\ outcome \in R!Side =>
       /\ exit[outcome] = "success" /\ winner \in R!Side
       /\ outcome = winner \/ (outcome = R!Other(winner) /\ kind = "race" /\ exit[winner] = "failure")
  /\ outcome = "failure" /\ R!Free =>
       IF kind = "race" THEN \A s \in R!Side : exit[s] = "failure"
                        ELSE winner = "left" /\ exit["left"] = "failure"
  /\ R!Over => R!Children \subseteq stopped /\ (R!Free => R!Alive = {})

RaceInv == RaceType /\ Finish /\ SleepLoses /\ RaceStages /\ Verdict

(* Two sides.                                                               *)
LEMMA TwoSides ==
  /\ R!Side = {"left", "right"}
  /\ \A s \in R!Side : R!Other(s) \in R!Side /\ R!Other(s) # s /\ \A t \in R!Side : t = s \/ t = R!Other(s)
BY DEF R!Side, R!Other

(* A racer that starts is as alive as before.                                 *)
LEMMA RacerStarts == ASSUME RaceInv, NEW s \in R!Side, R!Start(s) PROVE RaceInv'
<1>1. racer[s] = "forked" /\ racer' = [racer EXCEPT ![s] = "running"]
      /\ UNCHANGED <<kind, masked, exit, stopped, winner, finished, racing, outcome, cut>>
  BY DEF R!Start
<1>2. \A t \in R!Side : racer'[t] = IF t = s THEN "running" ELSE racer[t]
  BY <1>1 DEF RaceInv, RaceType
<1>3. R!Alive' = R!Alive /\ R!Children' = R!Children
  BY <1>1, <1>2 DEF R!Alive, R!Children, R!Sleeps
<1>4. RaceType'
  BY <1>1 DEF RaceInv, RaceType
<1>5. Finish'
  BY <1>1, <1>2, TwoSides DEF RaceInv, Finish
<1>6. SleepLoses' /\ Verdict'
  BY <1>1, <1>3 DEF RaceInv, SleepLoses, Verdict, R!Over, R!Free
<1>7. RaceStages'
  BY <1>1, <1>2, <1>3 DEF RaceInv, RaceStages, R!Over
<1>. QED BY <1>4, <1>5, <1>6, <1>7 DEF RaceInv

(* Who comes second is behind the first.                                     *)
LEMMA AppendSecond == ASSUME NEW a, NEW b PROVE Append(<<a>>, b) = <<a, b>>
<1>1. <<a>> \in Seq({a, b}) /\ <<a, b>> \in Seq({a, b}) /\ Len(<<a>>) = 1 /\ Len(<<a, b>>) = 2
  OBVIOUS
<1>2. /\ Append(<<a>>, b) \in Seq({a, b}) /\ Len(Append(<<a>>, b)) = 2
      /\ Append(<<a>>, b)[1] = a /\ Append(<<a>>, b)[2] = b
  BY <1>1
<1>. DEFINE l == Append(<<a>>, b)
            r == <<a, b>>
<1>3. /\ l \in Seq({a, b}) /\ r \in Seq({a, b}) /\ Len(l) = Len(r)
      /\ \A i \in 1..Len(l) : l[i] = r[i]
  <2>1. r[1] = a /\ r[2] = b
    OBVIOUS
  <2>2. \A i \in 1..2 : i = 1 \/ i = 2
    OBVIOUS
  <2>. HIDE DEF l, r
  <2>. QED BY <1>1, <1>2, <2>1, <2>2 DEF l, r
<1>4. l = r
  <2>. HIDE DEF l, r
  <2>. QED BY <1>3, SeqEqual
<1>. QED BY <1>4

(* A racer ends, as the first or the second one.                              *)
LEMMA RacerEnds == ASSUME RaceInv, NEW s \in R!Side, NEW how \in {"success", "failure"}, R!End(s, how) PROVE RaceInv'
<1>1. /\ racer[s] \in {"forked", "running"} /\ racer' = [racer EXCEPT ![s] = "ended"]
      /\ exit' = [exit EXCEPT ![s] = how]
      /\ winner' = IF winner = "nobody" THEN s ELSE winner
      /\ finished' = Append(finished, s)
      /\ UNCHANGED <<kind, masked, stopped, racing, outcome, cut>>
      /\ how = "failure" /\ kind = "timeout" /\ s = "right" => s \in stopped
  BY DEF R!End, R!Yields, R!Sleeps
<1>2. /\ \A t \in R!Side : racer'[t] = IF t = s THEN "ended" ELSE racer[t]
      /\ \A t \in R!Side : exit'[t] = IF t = s THEN how ELSE exit[t]
      /\ exit[s] = "none"
  BY <1>1 DEF RaceInv, RaceType, Finish
<1>3. R!Alive' = R!Alive \ {s} /\ R!Children' = R!Children \ {s}
  BY <1>1, <1>2 DEF R!Alive, R!Children, R!Sleeps
<1>4. RaceType'
  BY <1>1 DEF RaceInv, RaceType
<1>5. Finish'
  <2>1. \A t \in R!Side : racer'[t] = "ended" <=> exit'[t] # "none"
    BY <1>2 DEF RaceInv, Finish
  <2>2. CASE winner = "nobody"
    <3>1. finished = <<>> /\ racer[R!Other(s)] # "ended" /\ winner' = s /\ racer'[R!Other(s)] # "ended"
      BY <1>1, <1>2, <2>2, TwoSides DEF RaceInv, Finish
    <3>2. finished' = <<s>>
      BY <1>1, <3>1
    <3>. QED BY <1>2, <2>1, <3>1, <3>2, TwoSides DEF Finish
  <2>3. CASE winner \in R!Side
    <3>1. s = R!Other(winner) /\ finished = <<winner>> /\ winner' = winner
      BY <1>1, <2>3, TwoSides DEF RaceInv, Finish
    <3>2. finished' = <<winner, s>>
      BY <1>1, <3>1, AppendSecond
    <3>. QED BY <1>2, <2>1, <2>3, <3>1, <3>2, TwoSides DEF RaceInv, Finish
  <2>. QED BY <2>2, <2>3 DEF RaceInv, RaceType
<1>6. SleepLoses'
  BY <1>1, <1>2, TwoSides DEF RaceInv, SleepLoses
<1>7. RaceStages'
  <2>1. winner \in R!Side => winner' = winner /\ winner # s /\ exit'[winner] = exit[winner]
    BY <1>1, <1>2, TwoSides DEF RaceInv, Finish
  <2>2. racing \notin {"begins", "made"}
    BY <1>1 DEF RaceInv, RaceStages
  <2>. QED BY <1>1, <1>3, <2>1, <2>2 DEF RaceInv, RaceStages, R!Over
<1>8. Verdict'
  BY <1>1, <1>2, <1>3, TwoSides DEF RaceInv, Verdict, RaceStages, R!Over, R!Free
<1>. QED BY <1>4, <1>5, <1>6, <1>7, <1>8 DEF RaceInv

(* The parent makes its racers, and starts them.                              *)
LEMMA RacersBegin == ASSUME RaceInv, R!Begin \/ R!StartFork PROVE RaceInv'
<1>1. PICK life2 \in {"made", "forked"} :
        /\ racing \in {"begins", "made"} /\ R!Free
        /\ racer' = [s \in R!Side |-> life2]
        /\ racing' = IF life2 = "made" THEN "made" ELSE "races"
        /\ UNCHANGED <<kind, masked, exit, stopped, winner, finished, outcome, cut>>
  BY DEF R!Begin, R!StartFork
<1>2. \A s \in R!Side : racer[s] # "ended" /\ racer'[s] = life2
  BY <1>1 DEF RaceInv, RaceStages
<1>3. ~R!Over /\ ~R!Over'
  BY <1>1 DEF RaceInv, RaceStages, R!Over
<1>4. RaceType'
  BY <1>1 DEF RaceInv, RaceType
<1>5. Finish' /\ SleepLoses'
  BY <1>1, <1>2, TwoSides DEF RaceInv, Finish, SleepLoses
<1>6. RaceStages'
  BY <1>1, <1>2, <1>3 DEF RaceInv, RaceStages, R!Free, R!Over
<1>7. Verdict'
  BY <1>1, <1>3, TwoSides DEF RaceInv, Verdict, R!Over
<1>. QED BY <1>4, <1>5, <1>6, <1>7 DEF RaceInv

(* The other steps of the parent, and an interruption, leave the racers as     *)
(* they are.                                                                *)
LEMMA ParentGoes ==
  ASSUME RaceInv, R!Won \/ R!Settle \/ R!Interrupt \/ R!GiveUp \/ R!WindDown \/ R!Exit \/ UNCHANGED R!vars
  PROVE  RaceInv'
<1>1. UNCHANGED <<kind, masked, racer, exit, winner, finished>>
  BY DEF R!Won, R!Settle, R!Interrupt, R!GiveUp, R!WindDown, R!Exit, R!vars, R!racers
<1>2. R!Alive' = R!Alive /\ R!Children' = R!Children /\ Finish'
  BY <1>1 DEF R!Alive, R!Children, R!Sleeps, RaceInv, Finish
<1>3. CASE R!Won
  <2>1. /\ racing = "races" /\ winner \in R!Side /\ UNCHANGED <<outcome, cut>>
        /\ racing' = IF kind = "race" /\ exit[winner] = "failure" THEN "joins" ELSE "interrupts"
        /\ stopped' = stopped \/ (racing' = "interrupts" /\ stopped' = stopped \cup ({R!Other(winner)} \cap R!Alive))
    BY <1>3 DEF R!Won, R!AfterWin, R!TellLoser, RaceInv, RaceType
  <2>2. exit[winner] \in {"success", "failure"}
    BY <2>1 DEF RaceInv, RaceType, Finish
  <2>3. RaceType' /\ RaceStages' /\ SleepLoses'
    BY <1>1, <1>2, <2>1, <2>2, TwoSides DEF RaceInv, RaceType, RaceStages, SleepLoses, R!Over
  <2>4. Verdict'
    BY <1>1, <2>1, TwoSides DEF RaceInv, Verdict, RaceStages, R!Over
  <2>. QED BY <1>2, <2>3, <2>4 DEF RaceInv
<1>4. CASE R!Settle
  <2>. DEFINE whose == IF racing = "interrupts" THEN winner ELSE R!Other(winner)
  <2>1. /\ racing \in {"interrupts", "joins"} /\ racer[R!Other(winner)] = "ended" /\ R!Free
        /\ outcome' = IF exit[whose] = "success" THEN whose ELSE "failure"
        /\ racing' = IF exit[whose] = "success" THEN "returned" ELSE "failed"
        /\ UNCHANGED <<stopped, cut>>
    BY <1>4 DEF R!Settle, R!racers
  <2>2. winner \in R!Side /\ \A s \in R!Side : racer[s] = "ended" /\ exit[s] \in {"success", "failure"}
    BY <2>1, TwoSides DEF RaceInv, RaceType, RaceStages, Finish
  <2>3. R!Alive = {} /\ R!Children = {} /\ whose \in R!Side
    BY <2>2, TwoSides DEF R!Alive, R!Children
  <2>4. RaceType' /\ RaceStages' /\ SleepLoses'
    BY <1>1, <1>2, <2>1, <2>2, <2>3, TwoSides DEF RaceInv, RaceType, RaceStages, SleepLoses, R!Over
  <2>5. outcome' \in R!Side =>
          /\ exit[outcome'] = "success"
          /\ outcome' = winner \/ (outcome' = R!Other(winner) /\ kind = "race" /\ exit[winner] = "failure")
    BY <2>1, <2>2, TwoSides DEF RaceInv, RaceStages
  <2>6. outcome' = "failure" =>
          IF kind = "race" THEN \A s \in R!Side : exit[s] = "failure"
                           ELSE winner = "left" /\ exit["left"] = "failure"
    <3>1. outcome' = "failure" => exit[whose] = "failure"
      BY <2>1, <2>2, <2>3, TwoSides
    <3>2. CASE racing = "interrupts"
      BY <2>1, <2>2, <3>1, <3>2, TwoSides DEF RaceInv, RaceType, RaceStages, SleepLoses
    <3>3. CASE racing = "joins"
      BY <2>1, <2>2, <3>1, <3>3, TwoSides DEF RaceInv, RaceStages
    <3>. QED BY <2>1, <3>2, <3>3
  <2>7. Verdict'
    BY <1>1, <1>2, <2>2, <2>3, <2>5, <2>6 DEF Verdict
  <2>. QED BY <1>2, <2>4, <2>7 DEF RaceInv
<1>5. CASE R!Interrupt
  <2>1. /\ racing \in {"begins", "made", "races", "interrupts", "joins"}
        /\ cut' = TRUE /\ stopped' = stopped \cup R!Children /\ UNCHANGED <<racing, outcome>>
    BY <1>5 DEF R!Interrupt
  <2>2. kind = "timeout" => "right" \notin R!Children
    BY DEF R!Children, R!Sleeps
  <2>3. RaceType' /\ RaceStages' /\ SleepLoses'
    BY <1>1, <1>2, <2>1, <2>2 DEF RaceInv, RaceType, RaceStages, SleepLoses, R!Over, R!Children, R!Alive
  <2>4. Verdict'
    BY <1>1, <2>1, TwoSides DEF RaceInv, Verdict, RaceStages, R!Over
  <2>. QED BY <1>2, <2>3, <2>4 DEF RaceInv
<1>6. CASE R!GiveUp
  <2>1. racing' = "failed" /\ outcome' = "failure" /\ ~R!Free /\ UNCHANGED <<stopped, cut>>
    BY <1>6 DEF R!GiveUp, R!racers
  <2>2. R!Children \subseteq stopped /\ ~R!Free'
    BY <1>1, <2>1 DEF RaceInv, RaceStages, R!Free, RaceType
  <2>3. RaceType' /\ RaceStages' /\ SleepLoses'
    BY <1>1, <1>2, <2>1 DEF RaceInv, RaceType, RaceStages, SleepLoses, R!Over
  <2>4. Verdict'
    BY <1>1, <1>2, <2>1, <2>2, TwoSides DEF Verdict, R!Over
  <2>. QED BY <1>2, <2>3, <2>4 DEF RaceInv
<1>7. CASE R!WindDown \/ R!Exit \/ UNCHANGED R!vars
  <2>1. /\ stopped' = stopped \/ stopped' = stopped \cup R!Children
        /\ racing' = racing \/ (racing \in {"returned", "failed", "winds"} /\ racing' \in {"winds", "ended"})
        /\ UNCHANGED <<outcome, cut>>
    BY <1>7 DEF R!WindDown, R!Exit, R!vars, R!racers
  <2>2. kind = "timeout" => "right" \notin R!Children
    BY DEF R!Children, R!Sleeps
  <2>3. RaceType' /\ RaceStages' /\ SleepLoses'
    BY <1>1, <1>2, <2>1, <2>2 DEF RaceInv, RaceType, RaceStages, SleepLoses, R!Over, R!Children, R!Alive
  <2>4. Verdict'
    BY <1>1, <1>2, <2>1 DEF RaceInv, Verdict, R!Over, R!Free
  <2>. QED BY <1>2, <2>3, <2>4 DEF RaceInv
<1>. QED BY <1>3, <1>4, <1>5, <1>6, <1>7

(* Every step keeps the race in order.                                       *)
LEMMA RaceStep == ASSUME RaceInv, [R!Next]_(R!vars) PROVE RaceInv'
BY RacerStarts, RacerEnds, RacersBegin, ParentGoes DEF R!Next, R!ParentGoesOn

(* A race that begins, and one that is at rest, are in order.                 *)
LEMMA RaceBegins == R!Init \/ RaceRests => RaceInv
<1>1. ASSUME R!Init PROVE RaceInv
  <2>1. RaceType
    <3>1. /\ kind \in {"race", "timeout"} /\ masked \in BOOLEAN /\ cut = FALSE
          /\ racing = "begins" /\ outcome = "none" /\ winner = "nobody" /\ stopped = {}
      BY <1>1 DEF R!Init
    <3>2. /\ racer \in [R!Side -> {"none", "made", "forked", "running", "ended"}]
          /\ exit \in [R!Side -> {"none", "success", "failure"}]
      BY <1>1 DEF R!Init
    <3>3. finished \in Seq(R!Side)
      BY <1>1 DEF R!Init
    <3>. QED BY <3>1, <3>2, <3>3 DEF RaceType
  <2>2. Finish /\ SleepLoses
    BY <1>1, TwoSides DEF R!Init, Finish, SleepLoses
  <2>3. RaceStages /\ Verdict
    BY <1>1, TwoSides DEF R!Init, RaceStages, Verdict, R!Over
  <2>. QED BY <2>1, <2>2, <2>3 DEF RaceInv
<1>2. ASSUME RaceRests PROVE RaceInv
  <2>1. RaceType
    <3>1. /\ kind = "race" /\ masked = TRUE /\ cut = FALSE
          /\ racing = "ended" /\ outcome = "failure" /\ winner \in R!Side /\ stopped = {}
      BY <1>2, TwoSides DEF RaceRests
    <3>2. /\ racer \in [R!Side -> {"none", "made", "forked", "running", "ended"}]
          /\ exit \in [R!Side -> {"none", "success", "failure"}]
      BY <1>2 DEF RaceRests
    <3>3. finished \in Seq(R!Side)
      BY <1>2, TwoSides DEF RaceRests
    <3>. QED BY <3>1, <3>2, <3>3 DEF RaceType
  <2>2. Finish /\ SleepLoses
    BY <1>2, TwoSides DEF RaceRests, Finish, SleepLoses, R!Other
  <2>3. R!Alive = {} /\ R!Children = {}
    BY <1>2 DEF RaceRests, R!Alive, R!Children
  <2>4. RaceStages /\ Verdict
    BY <1>2, <2>3, TwoSides DEF RaceRests, RaceStages, Verdict, R!Over
  <2>. QED BY <2>1, <2>2, <2>4 DEF RaceInv
<1>. QED BY <1>1, <1>2

(* Then it is won as it should be.                                           *)
LEMMA RaceResult == ASSUME RaceInv PROVE R!RaceIsWon
<1>1. ASSUME outcome \in R!Side
      PROVE  \E m \in DOMAIN finished :
               /\ finished[m] = outcome /\ exit[outcome] = "success"
               /\ \A k \in 1..(m - 1) : kind = "race" /\ exit[finished[k]] = "failure"
  <2>1. /\ exit[outcome] = "success" /\ winner \in R!Side
        /\ outcome = winner \/ (outcome = R!Other(winner) /\ kind = "race" /\ exit[winner] = "failure")
    BY <1>1 DEF RaceInv, Verdict
  <2>2. racer[outcome] = "ended"
    BY <1>1, <2>1 DEF RaceInv, Finish
  <2>3. finished = IF racer[R!Other(winner)] = "ended" THEN <<winner, R!Other(winner)>> ELSE <<winner>>
    BY <2>1 DEF RaceInv, Finish
  <2>4. CASE outcome = winner
    <3>1. 1 \in DOMAIN finished /\ finished[1] = outcome
      BY <2>3, <2>4
    <3>. QED BY <2>1, <3>1
  <2>5. CASE outcome # winner
    <3>1. finished = <<winner, outcome>> /\ kind = "race" /\ exit[winner] = "failure"
      BY <2>1, <2>2, <2>3, <2>5
    <3>2. 2 \in DOMAIN finished /\ finished[2] = outcome /\ finished[1] = winner
      BY <3>1
    <3>3. \A k \in 1..(2 - 1) : k = 1
      OBVIOUS
    <3>. QED BY <2>1, <3>1, <3>2, <3>3
  <2>. QED BY <2>4, <2>5
<1>2. outcome = "failure" /\ R!Free =>
        IF kind = "race" THEN \A s \in R!Side : exit[s] = "failure"
                         ELSE finished[1] = "left" /\ exit["left"] = "failure"
  <2>1. winner = "left" => finished[1] = "left"
    BY TwoSides DEF RaceInv, Finish
  <2>. QED BY <2>1 DEF RaceInv, Verdict
<1>3. R!Over => R!Children \subseteq stopped /\ (R!Free => R!Alive = {})
  BY DEF RaceInv, Verdict
<1>. QED BY <1>1, <1>2, <1>3 DEF R!RaceIsWon

-----------------------------------------------------------------------------
(* A race of any number.                                                     *)
RaceAllType ==
  /\ shielded \in BOOLEAN /\ halted \in BOOLEAN
  /\ runner \in [A!Racer -> {"none", "forked", "running", "ended"}]
  /\ ending \in [A!Racer -> {"none", "success", "failure"}]
  /\ caught \subseteq A!Racer
  /\ arbiter \in [A!Racer -> {"none", "waits", "sweeps", "ended"}]
  /\ done \in {<<"pending">>, <<"failure">>} \cup {<<"success", i>> : i \in A!Racer}
  /\ fails \in Int
  /\ caller \in {"forks", "waits", "sweeps", "returned", "failed"}
  /\ victims \in [0..Racers -> Seq(A!Racer)]

(* The racers whose failure an arbiter has counted.                           *)
Missed == {i \in A!Racer : arbiter[i] = "ended" /\ ending[i] = "failure"}

(* The counter tells how many failures are still to come before the last one.  *)
Counter ==
  /\ fails + Cardinality(Missed) = Racers - 1
  /\ \A i \in A!Racer : runner[i] = "ended" <=> ending[i] # "none"
  /\ \A i \in A!Racer : arbiter[i] \in {"sweeps", "ended"} => ending[i] # "none"
  /\ \A i \in A!Racer : arbiter[i] = "sweeps" => ending[i] = "success"

AllForked == \A i \in A!Racer : runner[i] # "none"

(* Everybody is forked before anybody is judged, and whoever has to stop the   *)
(* others has those that live on the list, unless they have been told.        *)
RaceAllStages ==
  /\ (\E i \in A!Racer : arbiter[i] # "none") => AllForked
  /\ caller # "forks" => AllForked
  /\ done = <<"failure">> => \A i \in A!Racer : ending[i] = "failure"
  /\ \A w \in A!Racer : done = <<"success", w>> =>
       /\ ending[w] = "success" /\ AllForked
       /\ \A i \in A!Alive : i \in caught \/ i \in ToSet(victims[w])
  /\ caller = "sweeps" => halted /\ \A i \in A!Alive : i \in ToSet(victims[0])
  /\ caller = "returned" => done \in {<<"success", i>> : i \in A!Racer}
  /\ caller = "failed" => A!Alive = {} /\ (halted \/ \A i \in A!Racer : ending[i] = "failure")

RaceAllInv == RaceAllType /\ Counter /\ RaceAllStages

(* The verdicts are different ones.                                          *)
LEMMA Verdicts ==
  /\ <<"pending">> # <<"failure">>
  /\ \A i : <<"success", i>> # <<"pending">> /\ <<"success", i>> # <<"failure">> /\ <<"success", i>>[2] = i
  /\ \A i, j : <<"success", i>> = <<"success", j>> => i = j
OBVIOUS

(* Racers and what was missed are few.                                       *)
LEMMA FewRacers ==
  /\ A!Racer = 1..Racers /\ IsFiniteSet(A!Racer) /\ Cardinality(A!Racer) = Racers
  /\ \A S : S \subseteq A!Racer => IsFiniteSet(S) /\ Cardinality(S) \in Nat
<1>1. A!Racer = 1..Racers /\ Racers \in Nat
  BY RacersAssumption DEF A!Racer
<1>2. IsFiniteSet(A!Racer) /\ Cardinality(A!Racer) = Racers
  BY <1>1, FS_Interval
<1>. QED BY <1>1, <1>2, FS_Subset, FS_CardinalityType

(* The racers start, end, are told; nobody judges.                            *)
LEMMA RunnerStep ==
  ASSUME RaceAllInv, NEW i \in A!Racer,
         A!Fork(i) \/ A!Start(i) \/ \E how \in {"success", "failure"} : A!End(i, how)
  PROVE  RaceAllInv'
<1>1. UNCHANGED <<shielded, halted, caught, arbiter, done, fails, caller, victims>>
  BY DEF A!Fork, A!Start, A!End, A!verdict
<1>2. CASE A!Fork(i)
  <2>1. caller = "forks" /\ runner[i] = "none" /\ runner' = [runner EXCEPT ![i] = "forked"] /\ ending' = ending
    BY <1>2 DEF A!Fork, A!IsNext
  <2>2. \A k \in A!Racer : runner'[k] = IF k = i THEN "forked" ELSE runner[k]
    BY <2>1 DEF RaceAllInv, RaceAllType
  <2>3. RaceAllType' /\ Counter'
    BY <1>1, <2>1, <2>2 DEF RaceAllInv, RaceAllType, Counter, Missed
  <2>4. ~AllForked
    BY <2>1 DEF AllForked
  <2>5. RaceAllStages'
    BY <1>1, <2>1, <2>4 DEF RaceAllInv, RaceAllStages
  <2>. QED BY <2>3, <2>5 DEF RaceAllInv
<1>3. CASE A!Start(i)
  <2>1. runner[i] = "forked" /\ runner' = [runner EXCEPT ![i] = "running"] /\ ending' = ending
    BY <1>3 DEF A!Start
  <2>2. \A k \in A!Racer : runner'[k] = IF k = i THEN "running" ELSE runner[k]
    BY <2>1 DEF RaceAllInv, RaceAllType
  <2>3. RaceAllType' /\ Counter'
    BY <1>1, <2>1, <2>2 DEF RaceAllInv, RaceAllType, Counter, Missed
  <2>4. A!Alive' = A!Alive /\ AllForked' = AllForked
    BY <2>1, <2>2 DEF A!Alive, AllForked
  <2>5. RaceAllStages'
    BY <1>1, <2>1, <2>4 DEF RaceAllInv, RaceAllStages
  <2>. QED BY <2>3, <2>5 DEF RaceAllInv
<1>4. ASSUME NEW how \in {"success", "failure"}, A!End(i, how) PROVE RaceAllInv'
  <2>1. /\ runner[i] \in {"forked", "running"} /\ runner' = [runner EXCEPT ![i] = "ended"]
        /\ ending' = [ending EXCEPT ![i] = how]
    BY <1>4 DEF A!End
  <2>2. /\ \A k \in A!Racer : runner'[k] = IF k = i THEN "ended" ELSE runner[k]
        /\ \A k \in A!Racer : ending'[k] = IF k = i THEN how ELSE ending[k]
        /\ ending[i] = "none" /\ arbiter[i] \notin {"sweeps", "ended"}
    BY <2>1 DEF RaceAllInv, RaceAllType, Counter
  <2>3. Missed' = Missed
    BY <1>1, <2>2 DEF Missed
  <2>4. RaceAllType'
    BY <1>1, <2>1 DEF RaceAllInv, RaceAllType
  <2>5. Counter'
    BY <1>1, <2>2, <2>3 DEF RaceAllInv, Counter
  <2>6. A!Alive' = A!Alive \ {i} /\ AllForked' = AllForked
    BY <2>1, <2>2 DEF A!Alive, AllForked
  <2>7. i \in A!Alive /\ done # <<"failure">> /\ caller # "failed"
    BY <2>1, <2>2 DEF A!Alive, RaceAllInv, RaceAllStages
  <2>8. RaceAllStages'
    BY <1>1, <2>2, <2>6, <2>7 DEF RaceAllInv, RaceAllStages
  <2>. QED BY <2>4, <2>5, <2>8 DEF RaceAllInv
<1>. QED BY <1>2, <1>3, <1>4

(* Telling a racer, and going on to the next when it has ended.               *)
LEMMA SweepStep == ASSUME RaceAllInv, NEW by \in 0..Racers, A!Tell(by) \/ A!Await(by) PROVE RaceAllInv'
<1>1. UNCHANGED <<shielded, halted, runner, ending, arbiter, done, fails, caller>>
  BY DEF A!Tell, A!Await, A!fibers, A!verdict
<1>2. victims[by] \in Seq(A!Racer) /\ victims[by] # <<>>
  BY DEF RaceAllInv, RaceAllType, A!Tell, A!Await
<1>3. /\ Head(victims[by]) \in A!Racer /\ Tail(victims[by]) \in Seq(A!Racer)
      /\ ToSet(victims[by]) = {Head(victims[by])} \cup ToSet(Tail(victims[by]))
  BY <1>2, HeadAndTail
<1>4. /\ caught \subseteq caught' /\ caught' \subseteq A!Racer
      /\ victims' \in [0..Racers -> Seq(A!Racer)]
      /\ \A x2 \in 0..Racers : \A i \in A!Alive : i \in ToSet(victims[x2]) => i \in ToSet(victims'[x2])
  <2>1. CASE A!Tell(by)
    BY <1>3, <2>1 DEF A!Tell, RaceAllInv, RaceAllType
  <2>2. CASE A!Await(by)
    <3>1. victims' = [victims EXCEPT ![by] = Tail(@)] /\ runner[Head(victims[by])] = "ended" /\ caught' = caught
      BY <2>2 DEF A!Await
    <3>2. Head(victims[by]) \notin A!Alive
      BY <3>1 DEF A!Alive
    <3>. QED BY <1>3, <3>1, <3>2 DEF RaceAllInv, RaceAllType
  <2>. QED BY <2>1, <2>2
<1>5. Missed' = Missed /\ A!Alive' = A!Alive /\ AllForked' = AllForked
  BY <1>1 DEF Missed, A!Alive, AllForked
<1>6. RaceAllType' /\ Counter'
  BY <1>1, <1>4, <1>5 DEF RaceAllInv, RaceAllType, Counter
<1>7. 0 \in 0..Racers /\ \A w \in A!Racer : w \in 0..Racers
  BY RacersAssumption, FewRacers
<1>8. RaceAllStages'
  BY <1>1, <1>4, <1>5, <1>7 DEF RaceAllInv, RaceAllStages
<1>. QED BY <1>6, <1>8 DEF RaceAllInv

(* An arbiter judges its racer: the first success, or the last failure,       *)
(* decides.                                                                 *)
LEMMA ArbiterStep ==
  ASSUME RaceAllInv, NEW i \in A!Racer, A!Succeed(i) \/ A!Fail(i) \/ A!Swept(i)
  PROVE  RaceAllInv'
<1>1. UNCHANGED <<shielded, halted, runner, ending, caught, caller>>
  BY DEF A!Succeed, A!Fail, A!Swept, A!fibers, A!verdict
<1>2. A!Alive' = A!Alive /\ AllForked' = AllForked
  BY <1>1 DEF A!Alive, AllForked
<1>3. AllForked /\ ending[i] # "none" /\ i \in 0..Racers /\ i # 0
  BY FewRacers, RacersAssumption DEF A!Succeed, A!Fail, A!Swept, RaceAllInv, RaceAllStages, Counter
<1>4. IsFiniteSet(Missed) /\ Cardinality(Missed) \in Nat
  BY FewRacers DEF Missed
<1>5. CASE A!Succeed(i)
  <2>1. /\ ending[i] = "success" /\ arbiter[i] = "waits" /\ fails' = fails
        /\ \/ /\ done = <<"pending">> /\ done' = <<"success", i>>
              /\ victims' = [victims EXCEPT ![i] = A!Others(i)]
              /\ arbiter' = [arbiter EXCEPT ![i] = "sweeps"]
           \/ arbiter' = [arbiter EXCEPT ![i] = "ended"] /\ UNCHANGED <<done, victims>>
    BY <1>5 DEF A!Succeed
  <2>2. Missed' = Missed
    BY <1>1, <2>1 DEF Missed, RaceAllInv, RaceAllType
  <2>3. [k \in A!Racer |-> k] \in Seq(A!Racer) /\ ToSet([k \in A!Racer |-> k]) = A!Racer
    <3>1. [k \in 1..Racers |-> k] \in Seq(1..Racers) /\ DOMAIN [k \in 1..Racers |-> k] = 1..Racers
      BY RacersAssumption
    <3>. QED BY <3>1, FewRacers DEF ToSet
  <2>4. A!Others(i) \in Seq(A!Racer) /\ ToSet(A!Others(i)) = A!Racer \ {i}
    <3>1. PICK s \in Seq(A!Racer) : s = [k \in A!Racer |-> k] /\ ToSet(s) = A!Racer
      BY <2>3
    <3>2. Keep(s, A!Racer \ {i}) \in Seq(A!Racer) /\ ToSet(Keep(s, A!Racer \ {i})) = ToSet(s) \cap (A!Racer \ {i})
      BY KeepMembers
    <3>3. A!Keep(s, A!Racer \ {i}) = Keep(s, A!Racer \ {i})
      BY DEF A!Keep, Keep
    <3>. QED BY <3>1, <3>2, <3>3 DEF A!Others
  <2>5. RaceAllType'
    BY <1>1, <2>1, <2>4 DEF RaceAllInv, RaceAllType
  <2>6. Counter'
    BY <1>1, <2>1, <2>2 DEF RaceAllInv, RaceAllType, Counter
  <2>7. CASE done = <<"pending">> /\ done' = <<"success", i>> /\ victims' = [victims EXCEPT ![i] = A!Others(i)]
    <3>1. victims'[i] = A!Others(i) /\ victims'[0] = victims[0]
      BY <1>3, <2>7 DEF RaceAllInv, RaceAllType
    <3>2. i \notin A!Alive /\ A!Alive \subseteq A!Racer
      BY <2>1 DEF A!Alive, RaceAllInv, Counter
    <3>3. \A w \in A!Racer : done' = <<"success", w>> => w = i
      BY <2>7, Verdicts
    <3>4. \A w \in A!Racer : done' = <<"success", w>> =>
            /\ ending[w] = "success" /\ AllForked
            /\ \A k \in A!Alive : k \in caught \/ k \in ToSet(victims'[w])
      BY <1>3, <2>1, <2>4, <3>1, <3>2, <3>3
    <3>5. done' # <<"failure">> /\ done' \in {<<"success", k>> : k \in A!Racer}
      BY <2>7, Verdicts
    <3>. HIDE DEF AllForked
    <3>6. RaceAllStages'
      BY <1>1, <1>2, <1>3, <3>1, <3>4, <3>5 DEF RaceAllInv, RaceAllStages
    <3>. QED BY <2>5, <2>6, <3>6 DEF RaceAllInv
  <2>8. CASE UNCHANGED <<done, victims>>
    BY <1>1, <1>2, <1>3, <2>5, <2>6, <2>8 DEF RaceAllInv, RaceAllStages
  <2>. QED BY <2>1, <2>7, <2>8
<1>6. CASE A!Fail(i)
  <2>1. /\ ending[i] = "failure" /\ arbiter[i] = "waits" /\ fails' = fails - 1 /\ victims' = victims
        /\ done' = IF fails = 0 /\ done = <<"pending">> THEN <<"failure">> ELSE done
        /\ arbiter' = [arbiter EXCEPT ![i] = "ended"]
    BY <1>6 DEF A!Fail, A!LastFailure
  <2>2. Missed' = Missed \cup {i} /\ i \notin Missed
    BY <1>1, <2>1 DEF Missed, RaceAllInv, RaceAllType
  <2>3. Cardinality(Missed') = Cardinality(Missed) + 1
    BY <1>4, <2>2, FS_AddElement
  <2>4. RaceAllType' /\ Counter'
    BY <1>1, <1>4, <2>1, <2>3, RacersAssumption DEF RaceAllInv, RaceAllType, Counter
  <2>5. fails = 0 => \A k \in A!Racer : ending[k] = "failure"
    <3>. SUFFICES ASSUME fails = 0 PROVE \A k \in A!Racer : ending[k] = "failure"
      OBVIOUS
    <3>1. Cardinality(Missed \cup {i}) = Racers
      BY <1>4, <2>2, <2>3, RacersAssumption DEF RaceAllInv, Counter
    <3>2. Missed \cup {i} \in SUBSET A!Racer
      BY DEF Missed
    <3>3. Missed \cup {i} = A!Racer
      BY <3>1, <3>2, FewRacers, FS_Subset
    <3>. QED BY <2>1, <3>3 DEF Missed
  <2>6. done = <<"pending">> \/ done' = done
    BY <2>1
  <2>7. CASE done' = done
    BY <1>1, <1>2, <1>3, <2>1, <2>4, <2>7 DEF RaceAllInv, RaceAllStages
  <2>8. CASE done = <<"pending">> /\ done' = <<"failure">> /\ fails = 0
    <3>1. \A w \in A!Racer : done' # <<"success", w>>
      BY <2>8, Verdicts
    <3>2. caller # "returned"
      BY <2>8, Verdicts DEF RaceAllInv, RaceAllStages
    <3>3. RaceAllStages'
      BY <1>1, <1>2, <1>3, <2>1, <2>5, <2>8, <3>1, <3>2 DEF RaceAllInv, RaceAllStages
    <3>. QED BY <2>4, <3>3 DEF RaceAllInv
  <2>. QED BY <2>1, <2>7, <2>8
<1>7. CASE A!Swept(i)
  <2>1. arbiter[i] = "sweeps" /\ arbiter' = [arbiter EXCEPT ![i] = "ended"] /\ UNCHANGED <<done, fails, victims>>
    BY <1>7 DEF A!Swept, A!verdict
  <2>2. Missed' = Missed
    BY <1>1, <2>1 DEF Missed, RaceAllInv, RaceAllType, Counter
  <2>3. RaceAllType' /\ Counter'
    BY <1>1, <2>1, <2>2 DEF RaceAllInv, RaceAllType, Counter
  <2>4. RaceAllStages'
    BY <1>1, <1>2, <1>3, <2>1 DEF RaceAllInv, RaceAllStages
  <2>. QED BY <2>3, <2>4 DEF RaceAllInv
<1>. QED BY <1>5, <1>6, <1>7

(* The caller forks the arbiters, gets its answer, or gives up.               *)
LEMMA ChiefStep ==
  ASSUME RaceAllInv,
         \/ \E i \in A!Racer : A!ForkArbiter(i)
         \/ A!Answer \/ A!Interrupt \/ A!GiveUp \/ A!GivenUp \/ UNCHANGED A!vars
  PROVE  RaceAllInv'
<1>1. UNCHANGED <<shielded, runner, ending, done, fails>>
  BY DEF A!ForkArbiter, A!Answer, A!Interrupt, A!GiveUp, A!GivenUp, A!vars, A!fibers, A!verdict
<1>2. A!Alive' = A!Alive /\ AllForked' = AllForked /\ A!Alive \subseteq A!Racer
  BY <1>1 DEF A!Alive, AllForked
<1>3. ASSUME NEW i \in A!Racer, A!ForkArbiter(i) PROVE RaceAllInv'
  <2>1. /\ arbiter[i] = "none" /\ arbiter' = [arbiter EXCEPT ![i] = "waits"] /\ AllForked
        /\ caller = "forks" /\ caller' \in {"forks", "waits"}
        /\ UNCHANGED <<caught, victims, halted>>
    BY <1>3 DEF A!ForkArbiter, A!IsNext, AllForked
  <2>2. Missed' = Missed
    BY <1>1, <2>1 DEF Missed, RaceAllInv, RaceAllType
  <2>3. RaceAllType' /\ Counter'
    BY <1>1, <2>1, <2>2 DEF RaceAllInv, RaceAllType, Counter
  <2>4. RaceAllStages'
    BY <1>1, <1>2, <2>1 DEF RaceAllInv, RaceAllStages
  <2>. QED BY <2>3, <2>4 DEF RaceAllInv
<1>4. ASSUME A!Answer \/ A!Interrupt \/ A!GiveUp \/ A!GivenUp \/ UNCHANGED A!vars PROVE RaceAllInv'
  <2>1. arbiter' = arbiter /\ Missed' = Missed
    BY <1>1, <1>4 DEF A!Answer, A!Interrupt, A!GiveUp, A!GivenUp, A!vars, Missed
  <2>2. Counter'
    BY <1>1, <2>1 DEF RaceAllInv, Counter
  <2>3. CASE A!Answer
    <3>1. /\ caller' = IF done = <<"failure">> THEN "failed" ELSE "returned"
          /\ done # <<"pending">> /\ caller = "waits" /\ UNCHANGED <<caught, victims, halted>>
      BY <2>3 DEF A!Answer, A!verdict
    <3>2. done = <<"failure">> => A!Alive = {}
      BY DEF RaceAllInv, RaceAllStages, Counter, A!Alive
    <3>3. RaceAllType'
      BY <1>1, <2>1, <3>1 DEF RaceAllInv, RaceAllType
    <3>4. done # <<"failure">> => done \in {<<"success", k>> : k \in A!Racer}
      BY <3>1 DEF RaceAllInv, RaceAllType
    <3>5. RaceAllStages'
      BY <1>1, <1>2, <2>1, <3>1, <3>2, <3>4 DEF RaceAllInv, RaceAllStages
    <3>. QED BY <2>2, <3>3, <3>5 DEF RaceAllInv
  <2>4. CASE A!Interrupt
    <3>1. halted' = TRUE /\ caught' = caught \cup A!Alive /\ UNCHANGED <<caller, victims>>
      BY <2>4 DEF A!Interrupt
    <3>2. RaceAllType'
      BY <1>1, <1>2, <2>1, <3>1 DEF RaceAllInv, RaceAllType
    <3>3. RaceAllStages'
      BY <1>1, <1>2, <2>1, <3>1 DEF RaceAllInv, RaceAllStages
    <3>. QED BY <2>2, <3>2, <3>3 DEF RaceAllInv
  <2>5. CASE A!GiveUp
    <3>1. /\ caller = "waits" /\ caller' = "sweeps" /\ halted /\ UNCHANGED <<caught, halted>>
          /\ victims' = [victims EXCEPT ![0] = [k \in A!Racer |-> k]]
      BY <2>5 DEF A!GiveUp, A!Free, RaceAllInv, RaceAllType
    <3>2. [k \in A!Racer |-> k] \in Seq(A!Racer) /\ ToSet([k \in A!Racer |-> k]) = A!Racer
      <4>1. [k \in 1..Racers |-> k] \in Seq(1..Racers) /\ DOMAIN [k \in 1..Racers |-> k] = 1..Racers
        BY RacersAssumption
      <4>. QED BY <4>1, FewRacers DEF ToSet
    <3>3. RaceAllType'
      BY <1>1, <2>1, <3>1, <3>2 DEF RaceAllInv, RaceAllType
    <3>4. 0 \in 0..Racers /\ \A w \in A!Racer : w # 0 /\ w \in 0..Racers
      BY FewRacers, RacersAssumption
    <3>5. victims'[0] = [k \in A!Racer |-> k] /\ \A w \in A!Racer : victims'[w] = victims[w]
      BY <3>1, <3>4 DEF RaceAllInv, RaceAllType
    <3>6. \A k \in A!Alive : k \in ToSet(victims'[0])
      BY <1>2, <3>2, <3>5
    <3>7. RaceAllStages'
      BY <1>1, <1>2, <2>1, <3>1, <3>5, <3>6 DEF RaceAllInv, RaceAllStages
    <3>. QED BY <2>2, <3>3, <3>7 DEF RaceAllInv
  <2>6. CASE A!GivenUp
    <3>1. caller = "sweeps" /\ victims[0] = <<>> /\ caller' = "failed" /\ UNCHANGED <<caught, victims, halted>>
      BY <2>6 DEF A!GivenUp
    <3>2. A!Alive = {} /\ halted
      BY <3>1, Heads DEF RaceAllInv, RaceAllStages
    <3>3. RaceAllType'
      BY <1>1, <2>1, <3>1 DEF RaceAllInv, RaceAllType
    <3>4. RaceAllStages'
      BY <1>1, <1>2, <2>1, <3>1, <3>2 DEF RaceAllInv, RaceAllStages
    <3>. QED BY <2>2, <3>3, <3>4 DEF RaceAllInv
  <2>7. CASE UNCHANGED A!vars
    <3>1. UNCHANGED <<caller, caught, victims, halted>>
      BY <2>7 DEF A!vars
    <3>2. RaceAllType'
      BY <1>1, <2>1, <3>1 DEF RaceAllInv, RaceAllType
    <3>3. RaceAllStages'
      BY <1>1, <1>2, <2>1, <3>1 DEF RaceAllInv, RaceAllStages
    <3>. QED BY <2>2, <3>2, <3>3 DEF RaceAllInv
  <2>. QED BY <1>4, <2>3, <2>4, <2>5, <2>6, <2>7
<1>. QED BY <1>3, <1>4

(* Every step keeps raceAll in order.                                        *)
LEMMA RaceAllStep == ASSUME RaceAllInv, [A!Next]_(A!vars) PROVE RaceAllInv'
<1>1. 0 \in 0..Racers /\ \A i \in A!Racer : i \in 0..Racers
  BY FewRacers, RacersAssumption
<1>. QED BY <1>1, RunnerStep, SweepStep, ArbiterStep, ChiefStep DEF A!Next, A!CallerGoesOn, A!ArbiterGoesOn

(* A raceAll that begins, and one that is at rest, are in order.              *)
LEMMA RaceAllBegins == A!Init \/ RaceAllRests => RaceAllInv
<1>1. Racers \in Nat /\ \A i \in A!Racer : i \in 0..Racers
  BY FewRacers, RacersAssumption
<1>2. A!Init => RaceAllInv
  <2>. SUFFICES ASSUME A!Init PROVE RaceAllInv
    OBVIOUS
  <2>1. Missed = {} /\ A!Alive = {}
    BY DEF A!Init, Missed, A!Alive
  <2>2. Cardinality(Missed) = 0
    BY <2>1, FS_EmptySet
  <2>3. RaceAllType
    <3>1. /\ shielded \in BOOLEAN /\ halted = FALSE /\ caught = {} /\ caller = "forks"
          /\ done = <<"pending">> /\ fails \in Int
      BY <1>1 DEF A!Init, A!MayFail
    <3>2. /\ runner \in [A!Racer -> {"none", "forked", "running", "ended"}]
          /\ ending \in [A!Racer -> {"none", "success", "failure"}]
          /\ arbiter \in [A!Racer -> {"none", "waits", "sweeps", "ended"}]
      BY DEF A!Init
    <3>3. victims \in [0..Racers -> Seq(A!Racer)]
      BY DEF A!Init
    <3>. QED BY <3>1, <3>2, <3>3 DEF RaceAllType
  <2>4. Counter
    BY <1>1, <2>2 DEF A!Init, Counter, A!MayFail
  <2>5. RaceAllStages
    BY Verdicts, <2>1 DEF A!Init, RaceAllStages
  <2>. QED BY <2>3, <2>4, <2>5 DEF RaceAllInv
<1>3. RaceAllRests => RaceAllInv
  <2>. SUFFICES ASSUME RaceAllRests PROVE RaceAllInv
    OBVIOUS
  <2>1. Missed = A!Racer /\ A!Alive = {} /\ AllForked
    BY DEF RaceAllRests, Missed, A!Alive, AllForked
  <2>2. Cardinality(Missed) = Racers
    BY <2>1, FewRacers
  <2>3. RaceAllType
    <3>1. /\ shielded = TRUE /\ halted = FALSE /\ caught = {} /\ caller = "failed"
          /\ done = <<"failure">> /\ fails \in Int
      BY DEF RaceAllRests
    <3>2. /\ runner \in [A!Racer -> {"none", "forked", "running", "ended"}]
          /\ ending \in [A!Racer -> {"none", "success", "failure"}]
          /\ arbiter \in [A!Racer -> {"none", "waits", "sweeps", "ended"}]
      BY DEF RaceAllRests
    <3>3. victims \in [0..Racers -> Seq(A!Racer)]
      BY DEF RaceAllRests
    <3>. QED BY <3>1, <3>2, <3>3 DEF RaceAllType
  <2>4. Counter
    BY <1>1, <2>2 DEF RaceAllRests, Counter
  <2>5. \A w \in A!Racer : done # <<"success", w>>
    BY Verdicts DEF RaceAllRests
  <2>6. RaceAllStages
    BY <2>1, <2>5 DEF RaceAllRests, RaceAllStages
  <2>. QED BY <2>3, <2>4, <2>6 DEF RaceAllInv
<1>. QED BY <1>2, <1>3

(* Then it is won as it should be.                                           *)
LEMMA RaceAllResult == ASSUME RaceAllInv PROVE A!RaceAllIsWon
<1>1. ASSUME caller = "returned"
      PROVE  ending[A!Winner] = "success" /\ \A i \in A!Alive : A!ToldOrNext(i)
  <2>1. PICK w \in A!Racer : done = <<"success", w>>
    BY <1>1 DEF RaceAllInv, RaceAllStages
  <2>2. A!Winner = w
    BY <2>1, Verdicts DEF A!Winner
  <2>3. ending[w] = "success" /\ \A i \in A!Alive : i \in caught \/ i \in ToSet(victims[w])
    BY <2>1 DEF RaceAllInv, RaceAllStages
  <2>. QED BY <2>2, <2>3 DEF A!ToldOrNext, ToSet
<1>2. caller = "failed" => A!Alive = {} /\ (halted \/ \A i \in A!Racer : ending[i] = "failure")
  BY DEF RaceAllInv, RaceAllStages
<1>. QED BY <1>1, <1>2 DEF A!RaceAllIsWon

-----------------------------------------------------------------------------
(* All of them, beside each other.                                           *)
TasksInv == TrackInv /\ LoopEach /\ RaceInv /\ RaceAllInv

(* A step of one of them leaves the others alone.                             *)
LEMMA TasksStep == TasksInv /\ [AllNext]_all => TasksInv'
<1>. SUFFICES ASSUME TasksInv, [AllNext]_all PROVE TasksInv'
  OBVIOUS
<1>1. [M!Next]_(M!vars)
  BY DEF AllNext, all, fiberMap, M!vars, M!clear
<1>2. [E!Next]_(E!vars)
  BY DEF AllNext, all, forEach, E!vars, E!pool, E!caller
<1>3. [R!Next]_(R!vars)
  BY DEF AllNext, all, race, R!vars, R!racers
<1>4. [A!Next]_(A!vars)
  BY DEF AllNext, all, raceAll, A!vars, A!fibers, A!verdict
<1>. QED BY <1>1, <1>2, <1>3, <1>4, TrackInvStep, LoopEachStep, RaceStep, RaceAllStep DEF TasksInv

(* They begin, or are at rest.                                                *)
LEMMA TasksBegin == AllInit => TasksInv
BY TrackBegins, LoopBegins, RaceBegins, RaceAllBegins DEF AllInit, OthersRest, TasksInv

(* A forEach, race or raceAll returns what its fibers did, and leaves none of  *)
(* them behind: a forEach with success has one result of each item, all good;  *)
(* a race with a value has that of the first that succeeded; and when one is   *)
(* over, its fibers have ended or have been interrupted.                     *)
THEOREM ResultsAreTrue == AllSpec => []ResultIsTrue
<1>1. TasksInv => ResultIsTrue
  BY LoopResult, RaceResult, RaceAllResult DEF TasksInv, ResultIsTrue
<1>. QED BY <1>1, TasksBegin, TasksStep, PTL DEF AllSpec

(* The map knows its fibers, whatever else the fibers do.                     *)
THEOREM FibersTracked == AllSpec => []FibersAreTracked
<1>1. TasksInv => FibersAreTracked
  BY DEF TasksInv, TrackInv, FibersAreTracked
<1>. QED BY <1>1, TasksBegin, TasksStep, PTL DEF AllSpec
=============================================================================
