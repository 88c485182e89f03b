----------------------------- MODULE PoolProofs -----------------------------
(***************************************************************************)
(* The counts of a pool agree with its items, and every open item has one   *)
(* owner, for any clients, items and ranges.                               *)
(*                                                                         *)
(* Accounting is a statement about who is at which step.  It is inductive    *)
(* only with the shape of what each fiber has yet to do (FlowInv), since    *)
(* who takes an attempt out of the queue is then one who holds it; with the *)
(* fibers that wait being such takers, each once (TakerInv); and, after the *)
(* shutdown, with the fact that a pool whose size has become negative has   *)
(* nothing in it and nobody who will bring something (ShutInv).             *)
(*                                                                         *)
(* Of Request: its listeners are counted, and nobody fails because somebody    *)
(* else was interrupted; inductive with what a slot knows of its entry, and    *)
(* an entry of its block (RequestInv).                                       *)
(***************************************************************************)
EXTENDS PoolRequest, SequenceTheorems, FiniteSetTheorems, TLAPS

(* Steps of a fiber that has an attempt counted in size; that is about to    *)
(* bring one; that is about to take one; and the steps that only follow.    *)
Holders == {"inspect", "hold", "replace", "discard"}
Bringers == {"allocate", "offer"}
Askers == {"take", "drain", "trim"}
Later == {"acquire", "ask", "shut", "seed", "leave"}

(* What a fiber has before it: a step and what follows from it; or an        *)
(* attempt to take, then what is done with it, then what follows.           *)
Plain(s) == s # <<>> => s[1] \notin Askers /\ \A k \in 2..Len(s) : s[k] \in Later
Taking(s) ==
  /\ Len(s) >= 2 /\ s[1] \in Askers /\ s[2] \in {"inspect", "discard"}
  /\ \A k \in 3..Len(s) : s[k] \in Later
Flow(s) == Plain(s) \/ Taking(s)
FlowInv == \A f \in Fiber : Flow(todo[f])

(* Who waits for an attempt is about to take it, and waits once.            *)
TakerInv ==
  /\ takers \in Seq(Fiber)
  /\ \A k \in DOMAIN takers : takers[k] \in InStep(Askers)
  /\ \A j, k \in DOMAIN takers : takers[j] = takers[k] => j = k

(* The counts, while the pool has any.                                      *)
Finite(S) == IsFiniteSet(InStep(S))
Count(S) == Cardinality(InStep(S))
CountInv ==
  /\ Finite(Holders) /\ Finite(Bringers) /\ Finite(Askers)
  /\ size <= range.max
  /\ size >= 0 =>
       /\ size = Len(items) + Count(Holders) + Count(Bringers)
       /\ free = Len(items) + Count(Bringers) - Count(Askers)

(* A size below zero: nothing is left, and the queue may be shut down.       *)
ShutInv ==
  /\ size < 0 => items = <<>> /\ InStep(Holders) = {} /\ InStep(Bringers) = {}
  /\ queueDown => size < 0
  /\ InStep({"close"}) # {} => size < 0

(* The fiber that closes the pool goes on until the queue is shut down.      *)
ClosingSteps == {"shutdown", "shut", "drain", "discard", "close", "leave"}
CloserInv ==
  /\ \A k \in DOMAIN todo[Closer] : todo[Closer][k] \in ClosingSteps
  /\ ~queueDown => todo[Closer] # <<>> /\ todo[Closer][Len(todo[Closer])] = "leave"

(* Each attempt in the queue or in a hand has failed or is an open item, and *)
(* an open item is in one of these places.                                  *)
OwnInv ==
  /\ \A k \in DOMAIN items : items[k] \in open \cup {Failed}
  /\ \A f \in Holding : hand[f] \in open \cup {Failed}
  /\ \A j, k \in DOMAIN items : items[j] = items[k] /\ items[j] # Failed => j = k
  /\ \A f, g \in Holding : hand[f] = hand[g] /\ hand[f] # Failed => f = g
  /\ \A k \in DOMAIN items, f \in Holding : items[k] = hand[f] => items[k] = Failed
  /\ \A i \in open : (\E k \in DOMAIN items : items[k] = i) \/ (\E f \in Holding : hand[f] = i)

PoolType ==
  /\ range \in Sizes
  /\ size \in Int /\ free \in Int
  /\ items \in Seq(Item \cup {Failed})
  /\ queueDown \in BOOLEAN
  /\ open \subseteq Item
  /\ todo \in [Fiber -> Seq(Step)]
  /\ hand \in [Fiber -> Item \cup {Failed}]

PoolInv ==
  PoolType /\ FlowInv /\ TakerInv /\ CountInv /\ ShutInv /\ CloserInv /\ OwnInv
-----------------------------------------------------------------------------
(* Sequences of steps.                                                      *)

(* What remains when the first step is done.                                *)
LEMMA Popped ==
  ASSUME NEW S, NEW s \in Seq(S), s # <<>>
  PROVE  /\ Tail(s) \in Seq(S) /\ Len(Tail(s)) = Len(s) - 1 /\ Len(s) \in Nat /\ Len(s) >= 1
         /\ \A k \in 1..(Len(s) - 1) : Tail(s)[k] = s[k + 1]
         /\ Head(s) = s[1] /\ s[1] \in S
BY HeadTailProperties, LenProperties, ElementOfSeq

(* Steps put before what remains.                                           *)
LEMMA Pushed ==
  ASSUME NEW S, NEW s \in Seq(S), s # <<>>, NEW a \in Seq(S)
  PROVE  /\ a \o Tail(s) \in Seq(S) /\ Len(a) \in Nat
         /\ Len(a \o Tail(s)) = Len(a) + Len(s) - 1
         /\ \A k \in 1..Len(a) : (a \o Tail(s))[k] = a[k]
         /\ \A k \in (Len(a) + 1)..(Len(a) + Len(s) - 1) :
              (a \o Tail(s))[k] = s[k - Len(a) + 1]
<1>1. Tail(s) \in Seq(S) /\ Len(Tail(s)) = Len(s) - 1 /\ Len(s) \in Nat /\ Len(s) >= 1
  BY Popped
<1>2. \A k \in 1..(Len(s) - 1) : Tail(s)[k] = s[k + 1]
  BY Popped
<1>3. Len(a) \in Nat
  BY LenProperties
<1>. DEFINE t == Tail(s)
<1>. HIDE DEF t
<1>4. /\ a \o t \in Seq(S) /\ Len(a \o t) = Len(a) + Len(t)
      /\ \A k \in 1..(Len(a) + Len(t)) :
            (a \o t)[k] = IF k <= Len(a) THEN a[k] ELSE t[k - Len(a)]
  BY <1>1, ConcatProperties DEF t
<1>5. ASSUME NEW k \in (Len(a) + 1)..(Len(a) + Len(s) - 1)
      PROVE  (a \o t)[k] = s[k - Len(a) + 1]
  <2>1. k \in 1..(Len(a) + Len(t)) /\ ~(k <= Len(a)) /\ k - Len(a) \in 1..(Len(s) - 1)
    BY <1>1, <1>3 DEF t
  <2>2. (a \o t)[k] = t[k - Len(a)]
    BY <1>4, <2>1
  <2>3. t[k - Len(a)] = s[k - Len(a) + 1]
    BY <1>2, <2>1 DEF t
  <2>. QED BY <2>2, <2>3
<1>6. ASSUME NEW k \in 1..Len(a) PROVE (a \o t)[k] = a[k]
  BY <1>1, <1>3, <1>4 DEF t
<1>7. Len(a \o t) = Len(a) + Len(s) - 1 /\ a \o t \in Seq(S)
  BY <1>1, <1>3, <1>4 DEF t
<1>. QED BY <1>3, <1>5, <1>6, <1>7 DEF t

(* The step a fiber is at, as a number that can be added up.                 *)
Has(s, S) == IF s # <<>> /\ s[1] \in S THEN 1 ELSE 0

(* Who has done the first of some plain steps, or has been given what it     *)
(* wanted to take, goes on as the shape says.                               *)
LEMMA FlowPops ==
  ASSUME NEW s \in Seq(Step), s # <<>>, Flow(s)
  PROVE  /\ Plain(Tail(s))
         /\ s[1] \notin Askers =>
              /\ \A k \in DOMAIN Tail(s) : Tail(s)[k] \in Later
              /\ Tail(s) # <<>> => Tail(s)[1] \in Later
         /\ s[1] \in Askers => Tail(s) # <<>> /\ Tail(s)[1] \in {"inspect", "discard"}
<1>1. /\ Tail(s) \in Seq(Step) /\ Len(Tail(s)) = Len(s) - 1 /\ Len(s) \in Nat /\ Len(s) >= 1
      /\ \A k \in 1..(Len(s) - 1) : Tail(s)[k] = s[k + 1]
  BY Popped
<1>. DEFINE t == Tail(s)
<1>2. /\ t \in Seq(Step) /\ Len(t) = Len(s) - 1 /\ Len(s) \in Nat /\ Len(s) >= 1
      /\ DOMAIN t = 1..Len(t)
      /\ \A k \in 1..(Len(s) - 1) : t[k] = s[k + 1]
      /\ t = <<>> <=> Len(t) = 0
  BY <1>1, EmptySeq, LenProperties
<1>. HIDE DEF t
<1>3. CASE Plain(s)
  <2>1. s[1] \notin Askers /\ \A k \in 2..Len(s) : s[k] \in Later
    BY <1>3 DEF Plain
  <2>2. \A k \in 1..Len(t) : t[k] \in Later
    BY <1>2, <2>1
  <2>3. t # <<>> => 1 \in 1..Len(t)
    BY <1>2
  <2>4. t # <<>> => t[1] \in Later
    BY <2>2, <2>3
  <2>5. Plain(t)
    BY <1>2, <2>2, <2>4 DEF Plain, Later, Askers
  <2>. QED BY <1>2, <2>1, <2>2, <2>4, <2>5 DEF t
<1>4. CASE Taking(s)
  <2>1. Len(s) >= 2 /\ s[1] \in Askers /\ s[2] \in {"inspect", "discard"}
        /\ \A k \in 3..Len(s) : s[k] \in Later
    BY <1>4 DEF Taking
  <2>2. t # <<>> /\ t[1] \in {"inspect", "discard"}
    BY <1>2, <2>1
  <2>3. \A k \in 2..Len(t) : t[k] \in Later
    BY <1>2, <2>1
  <2>4. Plain(t)
    BY <2>2, <2>3 DEF Plain, Askers
  <2>. QED BY <2>1, <2>2, <2>4 DEF t
<1>. QED BY <1>3, <1>4 DEF Flow

(* Steps of either shape may be put before what follows a plain step.        *)
LEMMA FlowPushes ==
  ASSUME NEW s \in Seq(Step), s # <<>>, Flow(s), s[1] \notin Askers,
         NEW a \in Seq(Step), Flow(a)
  PROVE  /\ a \o Tail(s) \in Seq(Step) /\ Flow(a \o Tail(s))
         /\ a # <<>> => a \o Tail(s) # <<>> /\ (a \o Tail(s))[1] = a[1]
         /\ a = <<>> /\ a \o Tail(s) # <<>> => (a \o Tail(s))[1] \in Later
<1>1. \A k \in 2..Len(s) : s[k] \in Later
  BY DEF Flow, Plain, Taking
<1>2. /\ a \o Tail(s) \in Seq(Step) /\ Len(a) \in Nat
      /\ Len(a \o Tail(s)) = Len(a) + Len(s) - 1
      /\ \A k \in 1..Len(a) : (a \o Tail(s))[k] = a[k]
      /\ \A k \in (Len(a) + 1)..(Len(a) + Len(s) - 1) :
           (a \o Tail(s))[k] = s[k - Len(a) + 1]
      /\ Len(s) \in Nat /\ Len(s) >= 1
  BY Popped, Pushed
<1>. DEFINE t == a \o Tail(s)
<1>3. /\ t \in Seq(Step) /\ Len(a) \in Nat /\ Len(s) \in Nat /\ Len(s) >= 1
      /\ Len(t) = Len(a) + Len(s) - 1
      /\ \A k \in 1..Len(a) : t[k] = a[k]
      /\ \A k \in (Len(a) + 1)..Len(t) : t[k] = s[k - Len(a) + 1]
      /\ t = <<>> <=> Len(t) = 0
      /\ a = <<>> <=> Len(a) = 0
  BY <1>2, EmptySeq
<1>. HIDE DEF t
<1>4. \A k \in (Len(a) + 1)..Len(t) : t[k] \in Later
  <2>. TAKE k \in (Len(a) + 1)..Len(t)
  <2>1. k - Len(a) + 1 \in 2..Len(s)
    BY <1>3
  <2>. QED BY <1>1, <1>3, <2>1
<1>5. CASE a = <<>>
  <2>1. \A k \in 1..Len(t) : t[k] \in Later
    BY <1>3, <1>4, <1>5
  <2>2. t # <<>> => t[1] \in Later
    BY <1>3, <1>5, <2>1
  <2>3. Plain(t)
    BY <1>3, <2>1, <2>2 DEF Plain, Later, Askers
  <2>. QED BY <1>3, <1>5, <2>2, <2>3 DEF Flow, t
<1>6. CASE a # <<>>
  <2>1. t # <<>> /\ t[1] = a[1]
    BY <1>3, <1>6
  <2>2. CASE Plain(a)
    <3>1. a[1] \notin Askers /\ \A k \in 2..Len(a) : a[k] \in Later
      BY <1>6, <2>2 DEF Plain
    <3>2. \A k \in 2..Len(t) : t[k] \in Later
      BY <1>3, <1>4, <3>1
    <3>3. Plain(t)
      BY <2>1, <3>1, <3>2 DEF Plain
    <3>. QED BY <1>3, <1>6, <2>1, <3>3 DEF Flow, t
  <2>3. CASE Taking(a)
    <3>1. Len(a) >= 2 /\ a[1] \in Askers /\ a[2] \in {"inspect", "discard"}
          /\ \A k \in 3..Len(a) : a[k] \in Later
      BY <2>3 DEF Taking
    <3>2. Len(t) >= 2 /\ t[2] = a[2]
      BY <1>3, <3>1
    <3>3. \A k \in 3..Len(t) : t[k] \in Later
      BY <1>3, <1>4, <3>1
    <3>4. Taking(t)
      BY <2>1, <3>1, <3>2, <3>3 DEF Taking
    <3>. QED BY <1>3, <1>6, <2>1, <3>4 DEF Flow, t
  <2>. QED BY <2>2, <2>3 DEF Flow
<1>. QED BY <1>5, <1>6

-----------------------------------------------------------------------------
(* Who is at which step, as a function of what everybody has yet to do.      *)
Where(t, S) == {f \in Fiber : t[f] # <<>> /\ t[f][1] \in S}

(* For sequences of steps, InStep says who is where.                         *)
LEMMA StepWhere ==
  ASSUME NEW S
  PROVE  /\ todo \in [Fiber -> Seq(Step)] => InStep(S) = Where(todo, S)
         /\ todo' \in [Fiber -> Seq(Step)] => InStep(S)' = Where(todo', S)
<1>1. ASSUME NEW t \in [Fiber -> Seq(Step)], NEW f \in Fiber, t[f] # <<>>
      PROVE  Head(t[f]) = t[f][1]
  BY <1>1, Popped
<1>. QED BY <1>1 DEF InStep, Where

(* From t to u, one who was at a comes to be at b.                           *)
Counts(t, u, a, b, S) ==
  /\ IsFiniteSet(Where(u, S))
  /\ Cardinality(Where(u, S)) \in Nat /\ Cardinality(Where(t, S)) \in Nat
  /\ Cardinality(Where(u, S)) = Cardinality(Where(t, S)) - Has(a, S) + Has(b, S)

(* When one fiber goes on, the counts change by it alone.                    *)
LEMMA WhereMoves ==
  ASSUME NEW t, NEW u, NEW f, NEW s, NEW S,
         f \in Fiber, u[f] = s, \A g \in Fiber : g # f => u[g] = t[g],
         IsFiniteSet(Where(t, S))
  PROVE  Counts(t, u, t[f], s, S)
<1>. DEFINE W == Where(t, S)
            X == Where(u, S)
<1>1. f \in W <=> Has(t[f], S) = 1
  BY DEF Where, Has
<1>2. f \in X <=> Has(s, S) = 1
  BY DEF Where, Has
<1>3. X = IF Has(s, S) = 1 THEN W \cup {f} ELSE W \ {f}
  BY DEF Where, Has
<1>4. Has(s, S) \in {0, 1} /\ Has(t[f], S) \in {0, 1}
  BY DEF Has
<1>5. Cardinality(W) \in Nat
  BY FS_CardinalityType
<1>6. IsFiniteSet(W)
  OBVIOUS
<1>. HIDE DEF W, X
<1>7. /\ IsFiniteSet(W \cup {f})
      /\ Cardinality(W \cup {f}) = IF f \in W THEN Cardinality(W) ELSE Cardinality(W) + 1
  BY <1>6, FS_AddElement
<1>8. /\ IsFiniteSet(W \ {f})
      /\ Cardinality(W \ {f}) = IF f \in W THEN Cardinality(W) - 1 ELSE Cardinality(W)
  BY <1>6, FS_RemoveElement
<1>9. IsFiniteSet(X) /\ Cardinality(X) = Cardinality(W) - Has(t[f], S) + Has(s, S)
  BY <1>1, <1>2, <1>3, <1>4, <1>5, <1>7, <1>8
<1>10. Cardinality(X) \in Nat
  BY <1>9, FS_CardinalityType
<1>. QED BY <1>5, <1>9, <1>10 DEF W, X, Counts

(* The same of the three sets of steps that are counted.                     *)
LEMMA CountsMove ==
  ASSUME PoolType, CountInv, NEW f \in Fiber, NEW s \in Seq(Step),
         todo' = [todo EXCEPT ![f] = s]
  PROVE  /\ todo' \in [Fiber -> Seq(Step)]
         /\ Finite(Holders)' /\ Finite(Bringers)' /\ Finite(Askers)'
         /\ Count(Holders) \in Nat /\ Count(Bringers) \in Nat /\ Count(Askers) \in Nat
         /\ Count(Holders)' = Count(Holders) - Has(todo[f], Holders) + Has(s, Holders)
         /\ Count(Bringers)' = Count(Bringers) - Has(todo[f], Bringers) + Has(s, Bringers)
         /\ Count(Askers)' = Count(Askers) - Has(todo[f], Askers) + Has(s, Askers)
<1>1. todo \in [Fiber -> Seq(Step)] /\ todo' \in [Fiber -> Seq(Step)]
  BY DEF PoolType
<1>0. todo'[f] = s /\ \A g \in Fiber : g # f => todo'[g] = todo[g]
  BY <1>1
<1>2. ASSUME NEW S, IsFiniteSet(InStep(S))
      PROVE  /\ IsFiniteSet(InStep(S)') /\ Cardinality(InStep(S)) \in Nat
             /\ Cardinality(InStep(S)') = Cardinality(InStep(S)) - Has(todo[f], S) + Has(s, S)
  <2>1. InStep(S) = Where(todo, S) /\ InStep(S)' = Where(todo', S)
    BY <1>1, StepWhere
  <2>2. IsFiniteSet(Where(todo, S))
    BY <1>2, <2>1
  <2>. DEFINE X == Where(todo', S)
              W == Where(todo, S)
  <2>3. /\ IsFiniteSet(X) /\ Cardinality(W) \in Nat
        /\ Cardinality(X) = Cardinality(W) - Has(todo[f], S) + Has(s, S)
    <3>1. Counts(todo, todo', todo[f], s, S)
      BY <1>0, <2>2, WhereMoves
    <3>. QED BY <3>1 DEF Counts
  <2>. HIDE DEF X, W
  <2>4. InStep(S) = W /\ InStep(S)' = X
    BY <2>1 DEF X, W
  <2>. QED BY <2>3, <2>4
<1>3. IsFiniteSet(InStep(Holders)) /\ IsFiniteSet(InStep(Bringers)) /\ IsFiniteSet(InStep(Askers))
  BY DEF CountInv, Finite
<1>. QED BY <1>1, <1>2, <1>3 DEF Finite, Count, Holders, Bringers, Askers

-----------------------------------------------------------------------------
(* A fiber f does a plain step, and has the steps of a before it, and then    *)
(* what followed.                                                           *)
Goes(f, a) ==
  /\ todo' \in [Fiber -> Seq(Step)] /\ FlowInv' /\ TakerInv' /\ CloserInv'
  /\ Finite(Holders)' /\ Finite(Bringers)' /\ Finite(Askers)'
  /\ Count(Holders) \in Nat /\ Count(Bringers) \in Nat /\ Count(Askers) \in Nat
  /\ Count(Holders)' = Count(Holders) - Has(todo[f], Holders) + Has(a, Holders)
  /\ Count(Bringers)' = Count(Bringers) - Has(todo[f], Bringers) + Has(a, Bringers)
  /\ Count(Askers)' = Count(Askers) - Has(todo[f], Askers) + Has(a, Askers)
  /\ \A g \in Fiber : g # f => todo'[g] = todo[g]
  /\ a # <<>> => todo'[f] # <<>> /\ todo'[f][1] = a[1]
  /\ a = <<>> /\ todo'[f] # <<>> => todo'[f][1] \in Later

(* The steps that only follow are counted nowhere.                          *)
LEMMA LaterCountsNothing ==
  ASSUME NEW s, s # <<>> => s[1] \in Later
  PROVE  Has(s, Holders) = 0 /\ Has(s, Bringers) = 0 /\ Has(s, Askers) = 0
BY DEF Has, Later, Holders, Bringers, Askers

(* The fiber that closes the pool keeps its last step.                       *)
LEMMA CloserGoes ==
  ASSUME PoolType, CloserInv, NEW f \in Fiber, todo[f] # <<>>,
         NEW a \in Seq(Step), queueDown' = queueDown,
         todo' = [todo EXCEPT ![f] = a \o Tail(@)],
         todo[f][1] \in ClosingSteps =>
           todo[f][1] # "leave" /\ \A k \in DOMAIN a : a[k] \in ClosingSteps
  PROVE  CloserInv'
<1>0. Closer \in Fiber
  BY DEF Fiber
<1>1. CASE f # Closer
  <2>1. todo'[Closer] = todo[Closer]
    BY <1>0, <1>1 DEF PoolType
  <2>. QED BY <2>1 DEF CloserInv
<1>2. CASE f = Closer
  <2>. DEFINE s == todo[Closer]
              t == a \o Tail(s)
  <2>1. s \in Seq(Step) /\ s # <<>> /\ todo'[Closer] = t
    BY <1>0, <1>2 DEF PoolType
  <2>2. /\ t \in Seq(Step) /\ Len(a) \in Nat /\ Len(t) = Len(a) + Len(s) - 1
        /\ \A k \in 1..Len(a) : t[k] = a[k]
        /\ \A k \in (Len(a) + 1)..(Len(a) + Len(s) - 1) : t[k] = s[k - Len(a) + 1]
        /\ Len(s) \in Nat /\ Len(s) >= 1
    BY <2>1, Popped, Pushed
  <2>3. /\ \A k \in 1..Len(s) : s[k] \in ClosingSteps
        /\ ~queueDown => s[Len(s)] = "leave"
    BY <2>1, LenProperties DEF CloserInv
  <2>4. s[1] # "leave" /\ \A k \in 1..Len(a) : a[k] \in ClosingSteps
    BY <1>2, <2>2, <2>3, LenProperties
  <2>5. DOMAIN t = 1..Len(t)
    BY <2>2, LenProperties
  <2>. HIDE DEF s, t
  <2>6. \A k \in 1..Len(t) : t[k] \in ClosingSteps
    <3>. TAKE k \in 1..Len(t)
    <3>1. CASE k <= Len(a)
      BY <2>2, <2>4, <3>1
    <3>2. CASE ~(k <= Len(a))
      <4>1. k \in (Len(a) + 1)..(Len(a) + Len(s) - 1) /\ k - Len(a) + 1 \in 1..Len(s)
        BY <2>2, <3>2
      <4>. QED BY <2>2, <2>3, <4>1
    <3>. QED BY <3>1, <3>2
  <2>7. ASSUME ~queueDown PROVE t # <<>> /\ t[Len(t)] = "leave"
    <3>1. Len(s) # 1
      BY <2>3, <2>4, <2>7
    <3>0. Len(a) \in Nat /\ Len(t) = Len(a) + Len(s) - 1 /\ Len(s) \in Nat /\ Len(s) >= 1
      BY <2>2
    <3>2. Len(t) \in (Len(a) + 1)..(Len(a) + Len(s) - 1) /\ Len(t) - Len(a) + 1 = Len(s)
          /\ Len(t) > 0
      <4>. DEFINE m == Len(a)
                  n == Len(s)
                  l == Len(t)
      <4>1. m \in Nat /\ n \in Nat /\ n >= 1 /\ n # 1 /\ l = m + n - 1
        BY <3>0, <3>1
      <4>. HIDE DEF l, m, n
      <4>2. l \in (m + 1)..(m + n - 1) /\ l - m + 1 = n /\ l > 0
        BY <4>1
      <4>. QED BY <4>2 DEF l, m, n
    <3>3. t[Len(t)] = s[Len(s)]
      BY <2>2, <3>2
    <3>4. t # <<>>
      BY <2>2, <3>2, EmptySeq
    <3>. QED BY <2>3, <2>7, <3>3, <3>4
  <2>. QED BY <2>1, <2>5, <2>6, <2>7 DEF CloserInv
<1>. QED BY <1>1, <1>2

(* The shapes and the counts, when one that does not wait goes on to t.       *)
LEMMA GoesTo ==
  ASSUME PoolInv, NEW f \in Fiber, \A k \in DOMAIN takers : takers[k] # f,
         NEW t \in Seq(Step), Flow(t), NEW a,
         a # <<>> => t # <<>> /\ t[1] = a[1],
         a = <<>> /\ t # <<>> => t[1] \in Later,
         todo' = [todo EXCEPT ![f] = t], takers' = takers, CloserInv'
  PROVE  Goes(f, a)
<1>0. PoolType /\ FlowInv /\ TakerInv /\ CountInv
  BY DEF PoolInv
<1>3. /\ todo' \in [Fiber -> Seq(Step)]
      /\ Finite(Holders)' /\ Finite(Bringers)' /\ Finite(Askers)'
      /\ Count(Holders) \in Nat /\ Count(Bringers) \in Nat /\ Count(Askers) \in Nat
      /\ Count(Holders)' = Count(Holders) - Has(todo[f], Holders) + Has(t, Holders)
      /\ Count(Bringers)' = Count(Bringers) - Has(todo[f], Bringers) + Has(t, Bringers)
      /\ Count(Askers)' = Count(Askers) - Has(todo[f], Askers) + Has(t, Askers)
  BY <1>0, CountsMove
<1>4. \A S : S \in {Holders, Bringers, Askers} => Has(t, S) = Has(a, S)
  <2>1. CASE a # <<>>
    BY <2>1 DEF Has
  <2>2. CASE a = <<>>
    BY <2>2, LaterCountsNothing DEF Has
  <2>. QED BY <2>1, <2>2
<1>5. todo'[f] = t /\ \A g \in Fiber : g # f => todo'[g] = todo[g]
  BY <1>0 DEF PoolType
<1>6. FlowInv'
  BY <1>0, <1>5 DEF FlowInv
<1>7. TakerInv'
  <2>1. InStep(Askers) = Where(todo, Askers) /\ InStep(Askers)' = Where(todo', Askers)
    BY <1>0, <1>3, StepWhere DEF PoolType
  <2>2. \A g \in InStep(Askers) : g # f => g \in InStep(Askers)'
    BY <1>5, <2>1 DEF Where
  <2>. QED BY <1>0, <2>2 DEF TakerInv
<1>. QED BY <1>3, <1>4, <1>5, <1>6, <1>7 DEF Goes

(* What At says.                                                            *)
LEMMA AtStep ==
  ASSUME PoolType, NEW f \in Fiber, NEW x, At(f, x)
  PROVE  /\ todo[f] \in Seq(Step) /\ todo[f] # <<>> /\ todo[f][1] = x
         /\ \A k \in DOMAIN takers : takers[k] # f
<1>1. todo[f] \in Seq(Step) /\ todo[f] # <<>>
  BY DEF PoolType, At
<1>2. Head(todo[f]) = todo[f][1]
  BY <1>1, Popped
<1>. QED BY <1>1, <1>2 DEF At

(* A fiber does a plain step x, and has the steps of a before it and then    *)
(* what followed.                                                           *)
LEMMA GoesOn ==
  ASSUME PoolInv, NEW f \in Fiber, NEW x, At(f, x), x \notin Askers,
         NEW a \in Seq(Step), Flow(a), Becomes(f, a),
         takers' = takers, queueDown' = queueDown,
         x \in ClosingSteps => x # "leave" /\ \A k \in DOMAIN a : a[k] \in ClosingSteps
  PROVE  Goes(f, a)
<1>. DEFINE s == todo[f]
            t == a \o Tail(s)
<1>0. PoolType /\ FlowInv /\ CloserInv
  BY DEF PoolInv
<1>1. /\ s \in Seq(Step) /\ s # <<>> /\ s[1] = x /\ \A k \in DOMAIN takers : takers[k] # f
      /\ Flow(s) /\ todo' = [todo EXCEPT ![f] = t]
  BY <1>0, AtStep DEF FlowInv, Becomes
<1>2. /\ t \in Seq(Step) /\ Flow(t)
      /\ a # <<>> => t # <<>> /\ t[1] = a[1]
      /\ a = <<>> /\ t # <<>> => t[1] \in Later
  BY <1>1, FlowPushes
<1>3. CloserInv'
  BY <1>0, <1>1, CloserGoes
<1>. HIDE DEF s, t
<1>. QED BY <1>1, <1>2, <1>3, GoesTo

(* A fiber other than the one that closes the pool is done.                  *)
LEMMA GoesHome ==
  ASSUME PoolInv, NEW f \in Fiber, NEW x, At(f, x), x \notin ClosingSteps,
         Ends(f), takers' = takers, queueDown' = queueDown
  PROVE  Goes(f, <<>>)
<1>0. PoolType /\ CloserInv /\ Closer \in Fiber
  BY DEF PoolInv, Fiber
<1>1. /\ todo[f] \in Seq(Step) /\ todo[f] # <<>> /\ todo[f][1] = x
      /\ \A k \in DOMAIN takers : takers[k] # f
      /\ todo' = [todo EXCEPT ![f] = <<>>]
  BY <1>0, AtStep DEF Ends
<1>2. f # Closer
  <2>1. 1 \in DOMAIN todo[f]
    BY <1>1, Popped, LenProperties
  <2>. QED BY <1>0, <1>1, <2>1 DEF CloserInv
<1>3. todo'[Closer] = todo[Closer]
  BY <1>0, <1>1, <1>2 DEF PoolType
<1>4. CloserInv'
  BY <1>0, <1>3 DEF CloserInv
<1>5. <<>> \in Seq(Step) /\ Flow(<<>>)
  BY EmptySeq DEF Flow, Plain
<1>. QED BY <1>1, <1>4, <1>5, GoesTo

(* Who is at some steps afterwards.                                         *)
LEMMA GoesWhere ==
  ASSUME PoolType, NEW f \in Fiber, NEW a, Goes(f, a), NEW S, S \cap Later = {}
  PROVE  InStep(S)' = IF a # <<>> /\ a[1] \in S THEN InStep(S) \cup {f} ELSE InStep(S) \ {f}
<1>1. InStep(S) = Where(todo, S) /\ InStep(S)' = Where(todo', S)
  BY StepWhere DEF PoolType, Goes
<1>2. ASSUME NEW g \in Fiber, g # f PROVE g \in Where(todo', S) <=> g \in Where(todo, S)
  BY <1>2 DEF Where, Goes
<1>3. f \in Where(todo', S) <=> a # <<>> /\ a[1] \in S
  BY DEF Where, Goes
<1>4. Where(todo', S) \subseteq Fiber /\ Where(todo, S) \subseteq Fiber
  BY DEF Where
<1>. QED BY <1>1, <1>2, <1>3, <1>4

(* The terms of a sum in another order.                                     *)
SumsAgree(n, d, h, b, i, j, k, l) ==
  n + h + b + d - i + j - k + l = (n + d) + (h - i + j) + (b - k + l)

LEMMA Sums == \A n, d, h, b, i, j, k, l \in Int : SumsAgree(n, d, h, b, i, j, k, l)
BY DEF SumsAgree

(* And of a difference.                                                     *)
DifferencesAgree(n, d, h, b, i, j, k, l) ==
  n + b - h + d - k + l + i - j = (n + d) + (b - k + l) - (h - i + j)

LEMMA Differences == \A n, d, h, b, i, j, k, l \in Int : DifferencesAgree(n, d, h, b, i, j, k, l)
BY DEF DifferencesAgree

(* Sizes and counts that move together.                                     *)
LEMMA Accounts ==
  ASSUME PoolInv, NEW f \in Fiber, NEW a, Goes(f, a), NEW d \in Int,
         range' = range, size' \in Int, size' <= range.max, queueDown' = queueDown,
         items \in Seq(Item \cup {Failed}), items' \in Seq(Item \cup {Failed}),
         Len(items') = Len(items) + d,
         \/ /\ size >= 0
            /\ size' = size + d - Has(todo[f], Holders) + Has(a, Holders)
                              - Has(todo[f], Bringers) + Has(a, Bringers)
            /\ free' = free + d - Has(todo[f], Bringers) + Has(a, Bringers)
                              + Has(todo[f], Askers) - Has(a, Askers)
         \/ /\ size' < 0 /\ items' = <<>>
            /\ InStep(Holders) = {} /\ InStep(Bringers) = {}
            /\ Has(a, Holders) = 0 /\ Has(a, Bringers) = 0,
         a # <<>> => a[1] # "close" \/ size' < 0
  PROVE  CountInv' /\ ShutInv'
<1>0. PoolType /\ CountInv /\ ShutInv
  BY DEF PoolInv
<1>1. /\ Finite(Holders)' /\ Finite(Bringers)' /\ Finite(Askers)'
      /\ Count(Holders) \in Nat /\ Count(Bringers) \in Nat /\ Count(Askers) \in Nat
      /\ Count(Holders)' = Count(Holders) - Has(todo[f], Holders) + Has(a, Holders)
      /\ Count(Bringers)' = Count(Bringers) - Has(todo[f], Bringers) + Has(a, Bringers)
      /\ Count(Askers)' = Count(Askers) - Has(todo[f], Askers) + Has(a, Askers)
  BY DEF Goes
<1>2. Count(Holders)' \in Nat /\ Count(Bringers)' \in Nat /\ Len(items') \in Nat
      /\ Len(items) \in Nat
  <2>1. \A S : IsFiniteSet(S) => Cardinality(S) \in Nat
    BY FS_CardinalityType
  <2>2. Count(Holders)' \in Nat /\ Count(Bringers)' \in Nat
    BY <1>1, <2>1 DEF Count, Finite
  <2>. QED BY <2>2, LenProperties
<1>3. \A S \in {Holders, Bringers, {"close"}} : S \cap Later = {}
  BY DEF Holders, Bringers, Later
<1>4. \A S \in {Holders, Bringers, {"close"}} :
        InStep(S)' = IF a # <<>> /\ a[1] \in S THEN InStep(S) \cup {f} ELSE InStep(S) \ {f}
  <2>1. ASSUME NEW S, S \cap Later = {}
        PROVE  InStep(S)' = IF a # <<>> /\ a[1] \in S THEN InStep(S) \cup {f}
                                                     ELSE InStep(S) \ {f}
    BY <1>0, <2>1, GoesWhere
  <2>. QED BY <1>3, <2>1
<1>5. CASE size >= 0 /\ size' = size + d - Has(todo[f], Holders) + Has(a, Holders)
                                     - Has(todo[f], Bringers) + Has(a, Bringers)
                    /\ free' = free + d - Has(todo[f], Bringers) + Has(a, Bringers)
                                     + Has(todo[f], Askers) - Has(a, Askers)
  <2>1. /\ Has(a, Holders) \in Int /\ Has(a, Bringers) \in Int /\ Has(a, Askers) \in Int
        /\ Has(todo[f], Holders) \in Int /\ Has(todo[f], Bringers) \in Int
        /\ Has(todo[f], Askers) \in Int
    BY DEF Has
  <2>2. size = Len(items) + Count(Holders) + Count(Bringers)
        /\ free = Len(items) + Count(Bringers) - Count(Askers)
    BY <1>0, <1>5 DEF CountInv
  <2>3. size' = Len(items') + Count(Holders)' + Count(Bringers)'
        /\ free' = Len(items') + Count(Bringers)' - Count(Askers)'
    <3>1. /\ Len(items) \in Nat /\ Count(Holders) \in Nat /\ Count(Bringers) \in Nat
          /\ Count(Askers) \in Nat /\ Len(items') = Len(items) + d
      BY <1>1, <1>2
    <3>. DEFINE n == Len(items)
                h == Count(Holders)
                b == Count(Bringers)
                k == Count(Askers)
                hf == Has(todo[f], Holders)
                bf == Has(todo[f], Bringers)
                kf == Has(todo[f], Askers)
                ha == Has(a, Holders)
                ba == Has(a, Bringers)
                ka == Has(a, Askers)
                nn == Len(items')
                hh == Count(Holders)'
                bb == Count(Bringers)'
                kk == Count(Askers)'
    <3>2. /\ n \in Nat /\ h \in Nat /\ b \in Nat /\ k \in Nat /\ nn = n + d
          /\ ha \in Int /\ ba \in Int /\ ka \in Int /\ hf \in Int /\ bf \in Int /\ kf \in Int
          /\ hh = h - hf + ha /\ bb = b - bf + ba /\ kk = k - kf + ka
          /\ size = n + h + b /\ free = n + b - k
          /\ size' = size + d - hf + ha - bf + ba /\ free' = free + d - bf + ba + kf - ka
      BY <1>1, <1>5, <2>1, <2>2, <3>1
    <3>. HIDE DEF n, h, b, k, hf, bf, kf, ha, ba, ka, nn, hh, bb, kk
    <3>7. /\ n \in Int /\ d \in Int /\ h \in Int /\ b \in Int /\ k \in Int
          /\ ha \in Int /\ ba \in Int /\ ka \in Int /\ hf \in Int /\ bf \in Int /\ kf \in Int
      BY <3>2
    <3>3. n + h + b + d - hf + ha - bf + ba = (n + d) + (h - hf + ha) + (b - bf + ba)
      <4>1. SumsAgree(n, d, h, b, hf, ha, bf, ba)
        BY <3>7, Sums
      <4>. QED BY <4>1, Zenon DEF SumsAgree
    <3>4. n + b - k + d - bf + ba + kf - ka = (n + d) + (b - bf + ba) - (k - kf + ka)
      <4>1. DifferencesAgree(n, d, k, b, kf, ka, bf, ba)
        BY <3>7, Differences
      <4>. QED BY <4>1, Zenon DEF DifferencesAgree
    <3>5. size' = nn + hh + bb
      BY <3>2, <3>3, SMTT(30)
    <3>6. free' = nn + bb - kk
      BY <3>2, <3>4, SMTT(30)
    <3>. QED BY <3>5, <3>6 DEF nn, hh, bb, kk
  <2>4. size' >= 0
    BY <1>2, <2>3
  <2>5. CountInv'
    BY <1>1, <2>3 DEF CountInv
  <2>6. InStep({"close"}) = {} /\ ~queueDown
    BY <1>0, <1>5 DEF ShutInv, PoolType
  <2>7. InStep({"close"})' = {}
    BY <1>4, <2>4, <2>6
  <2>. QED BY <2>4, <2>5, <2>6, <2>7 DEF ShutInv
<1>6. CASE size' < 0 /\ items' = <<>> /\ InStep(Holders) = {} /\ InStep(Bringers) = {}
           /\ Has(a, Holders) = 0 /\ Has(a, Bringers) = 0
  <2>1. CountInv'
    BY <1>1, <1>6 DEF CountInv
  <2>2. InStep(Holders)' = {} /\ InStep(Bringers)' = {}
    BY <1>4, <1>6 DEF Has
  <2>. QED BY <1>6, <2>1, <2>2 DEF ShutInv
<1>. QED BY <1>5, <1>6

-----------------------------------------------------------------------------
(* Where the items are.                                                     *)

HandSteps == {"inspect", "hold", "offer", "replace", "discard"}

(* Nothing moves.                                                           *)
LEMMA OwnSame ==
  ASSUME OwnInv, Holding' = Holding, UNCHANGED <<items, open, hand>>
  PROVE  OwnInv'
BY DEF OwnInv

(* A fiber finalizes the attempt in its hand.                               *)
LEMMA OwnDropped ==
  ASSUME PoolType, OwnInv, NEW f \in Holding, Holding' = Holding \ {f},
         items' = items, open' = open \ {hand[f]}, hand' = [hand EXCEPT ![f] = Failed]
  PROVE  OwnInv'
<1>1. f \in Fiber /\ Holding \subseteq Fiber
  BY DEF Holding, InStep
<1>2. \A g \in Holding : g # f => hand'[g] = hand[g]
  BY <1>1 DEF PoolType
<1>3. \A k \in DOMAIN items : /\ items[k] \in open \cup {Failed}
                              /\ items[k] = hand[f] => items[k] = Failed
  BY DEF OwnInv
<1>4. \A g \in Holding : /\ hand[g] \in open \cup {Failed}
                         /\ g # f => (hand[g] = hand[f] => hand[g] = Failed)
  BY DEF OwnInv
<1>5. \A k \in DOMAIN items' : items'[k] \in open' \cup {Failed}
  BY <1>3
<1>6. \A g \in Holding' : hand'[g] \in open' \cup {Failed}
  BY <1>2, <1>4
<1>7. \A g, h \in Holding' : hand'[g] = hand'[h] /\ hand'[g] # Failed => g = h
  BY <1>2 DEF OwnInv
<1>8. \A k \in DOMAIN items', g \in Holding' : items'[k] = hand'[g] => items'[k] = Failed
  BY <1>2 DEF OwnInv
<1>9. \A i \in open' : \/ \E k \in DOMAIN items' : items'[k] = i
                      \/ \E g \in Holding' : hand'[g] = i
  BY <1>2 DEF OwnInv
<1>. QED BY <1>5, <1>6, <1>7, <1>8, <1>9 DEF OwnInv

(* An attempt x that nobody else has: it has failed, or it is the one in the  *)
(* hand of f, or a new item.                                                *)
Brought(f, x) ==
  /\ x \in Item \cup {Failed}
  /\ open \ {x} = open' \ {x}
  /\ x # Failed => /\ x \in open'
                   /\ \A k \in DOMAIN items : items[k] # x
                   /\ \A g \in Holding \ {f} : hand[g] # x
  /\ f \in Holding => hand[f] = x

(* It is put in the queue.                                                  *)
LEMMA OwnQueued ==
  ASSUME PoolType, OwnInv, NEW f \in Fiber, NEW x, Brought(f, x),
         Holding' = Holding \ {f},
         items' = Append(items, x), hand' = [hand EXCEPT ![f] = Failed]
  PROVE  OwnInv'
<1>1. Holding \subseteq Fiber
  BY DEF Holding, InStep
<1>2. \A g \in Holding' : hand'[g] = hand[g] /\ g \in Holding /\ g # f
  BY <1>1 DEF PoolType
<1>3. \A g \in Holding : g # f => g \in Holding' /\ hand'[g] = hand[g]
  BY <1>1 DEF PoolType
<1>. DEFINE n == Len(items)
<1>4. /\ n \in Nat /\ DOMAIN items = 1..n /\ DOMAIN items' = 1..(n + 1)
      /\ \A k \in 1..n : items'[k] = items[k]
      /\ items'[n + 1] = x
  BY AppendProperties, LenProperties DEF PoolType, Brought
<1>. HIDE DEF n
<1>5. /\ \A k \in DOMAIN items' : \/ k \in DOMAIN items /\ items'[k] = items[k]
                                  \/ k = n + 1 /\ items'[k] = x
      /\ \A k \in DOMAIN items : k \in DOMAIN items' /\ items'[k] = items[k]
      /\ n + 1 \in DOMAIN items' /\ items'[n + 1] = x
  BY <1>4
<1>6. \A i \in open : i # x => i \in open'
  BY DEF Brought
<1>7. x # Failed => x \in open' /\ (\A k \in DOMAIN items : items[k] # x)
                    /\ (\A g \in Holding' : hand'[g] # x)
  BY <1>2 DEF Brought
<1>8. \A k \in DOMAIN items' : items'[k] \in open' \cup {Failed}
  BY <1>5, <1>6, <1>7 DEF OwnInv
<1>9. \A g \in Holding' : hand'[g] \in open' \cup {Failed}
  BY <1>2, <1>6, <1>7 DEF OwnInv
<1>10. \A j, k \in DOMAIN items' : items'[j] = items'[k] /\ items'[j] # Failed => j = k
  BY <1>5, <1>7 DEF OwnInv
<1>11. \A g, h \in Holding' : hand'[g] = hand'[h] /\ hand'[g] # Failed => g = h
  BY <1>2 DEF OwnInv
<1>12. \A k \in DOMAIN items', g \in Holding' : items'[k] = hand'[g] => items'[k] = Failed
  BY <1>2, <1>5, <1>7 DEF OwnInv
<1>13. ASSUME NEW i \in open'
       PROVE  (\E k \in DOMAIN items' : items'[k] = i) \/ (\E g \in Holding' : hand'[g] = i)
  <2>1. CASE i = x
    BY <1>5, <2>1
  <2>2. CASE i # x
    <3>1. i \in open
      BY <2>2 DEF Brought
    <3>2. CASE \E k \in DOMAIN items : items[k] = i
      BY <1>5, <3>2
    <3>3. CASE \E g \in Holding : hand[g] = i
      <4>1. PICK g \in Holding : hand[g] = i
        BY <3>3
      <4>2. g # f
        BY <2>2, <4>1 DEF Brought
      <4>. QED BY <1>3, <4>1, <4>2
    <3>. QED BY <3>1, <3>2, <3>3 DEF OwnInv
  <2>. QED BY <2>1, <2>2
<1>. QED BY <1>8, <1>9, <1>10, <1>11, <1>12, <1>13 DEF OwnInv

(* It is handed to a fiber that had none.                                   *)
LEMMA OwnHanded ==
  ASSUME PoolType, OwnInv, NEW f \in Fiber, NEW x, Brought(f, x),
         NEW t \in Fiber, t \notin Holding, t # f,
         Holding' = (Holding \ {f}) \cup {t},
         items' = items, hand' = [hand EXCEPT ![f] = Failed, ![t] = x]
  PROVE  OwnInv'
<1>1. Holding \subseteq Fiber
  BY DEF Holding, InStep
<1>2. /\ \A g \in Holding' : \/ g # t /\ hand'[g] = hand[g] /\ g \in Holding /\ g # f
                             \/ g = t /\ hand'[g] = x
      /\ t \in Holding' /\ hand'[t] = x
  BY <1>1 DEF PoolType
<1>3. \A g \in Holding : g # f => g \in Holding' /\ hand'[g] = hand[g]
  BY <1>1 DEF PoolType
<1>6. \A i \in open : i # x => i \in open'
  BY DEF Brought
<1>7. x # Failed => x \in open' /\ (\A k \in DOMAIN items : items[k] # x)
                    /\ (\A g \in Holding \ {f} : hand[g] # x)
  BY DEF Brought
<1>8. \A k \in DOMAIN items' : items'[k] \in open' \cup {Failed}
  BY <1>6, <1>7 DEF OwnInv
<1>9. \A g \in Holding' : hand'[g] \in open' \cup {Failed}
  BY <1>2, <1>6, <1>7 DEF OwnInv
<1>10. \A j, k \in DOMAIN items' : items'[j] = items'[k] /\ items'[j] # Failed => j = k
  BY DEF OwnInv
<1>11. ASSUME NEW g \in Holding', NEW h \in Holding', hand'[g] = hand'[h], hand'[g] # Failed
       PROVE  g = h
  <2>1. CASE g = t \/ h = t
    <3>1. x # Failed /\ hand'[g] = x /\ hand'[h] = x
      BY <1>2, <1>11, <2>1
    <3>2. \A j \in Holding' : j # t => hand'[j] # x
      BY <1>2, <1>7, <3>1
    <3>. QED BY <3>1, <3>2
  <2>2. CASE g # t /\ h # t
    <3>1. g \in Holding /\ h \in Holding /\ hand[g] = hand[h] /\ hand[g] # Failed
      BY <1>2, <1>11, <2>2
    <3>. QED BY <3>1 DEF OwnInv
  <2>. QED BY <2>1, <2>2
<1>12. ASSUME NEW k \in DOMAIN items', NEW g \in Holding', items'[k] = hand'[g]
       PROVE  items'[k] = Failed
  <2>0. k \in DOMAIN items /\ items'[k] = items[k]
    OBVIOUS
  <2>1. CASE g = t
    BY <1>2, <1>7, <1>12, <2>0, <2>1
  <2>2. CASE g # t
    <3>1. g \in Holding /\ hand'[g] = hand[g]
      BY <1>2, <2>2
    <3>. QED BY <1>12, <2>0, <3>1 DEF OwnInv
  <2>. QED BY <2>1, <2>2
<1>13. ASSUME NEW i \in open'
       PROVE  (\E k \in DOMAIN items' : items'[k] = i) \/ (\E g \in Holding' : hand'[g] = i)
  <2>1. CASE i = x
    BY <1>2, <2>1
  <2>2. CASE i # x
    <3>1. i \in open
      BY <2>2 DEF Brought
    <3>2. CASE \E k \in DOMAIN items : items[k] = i
      BY <3>2
    <3>3. CASE \E g \in Holding : hand[g] = i
      <4>1. PICK g \in Holding : hand[g] = i
        BY <3>3
      <4>2. g # f
        BY <2>2, <4>1 DEF Brought
      <4>. QED BY <1>3, <4>1, <4>2
    <3>. QED BY <3>1, <3>2, <3>3 DEF OwnInv
  <2>. QED BY <2>1, <2>2
<1>. QED BY <1>8, <1>9, <1>10, <1>11, <1>12, <1>13 DEF OwnInv

(* The oldest attempt in the queue is handed to a fiber that had none.       *)
LEMMA OwnTaken ==
  ASSUME PoolType, OwnInv, NEW f \in Fiber, f \notin Holding, items # <<>>,
         Holding' = Holding \cup {f}, open' = open,
         items' = Tail(items), hand' = [hand EXCEPT ![f] = Head(items)]
  PROVE  OwnInv'
<1>1. Holding \subseteq Fiber
  BY DEF Holding, InStep
<1>. DEFINE n == Len(items)
            x == items[1]
<1>2. /\ \A g \in Holding' : \/ g # f /\ hand'[g] = hand[g] /\ g \in Holding
                             \/ g = f /\ hand'[g] = x
      /\ f \in Holding' /\ hand'[f] = x
      /\ \A g \in Holding : g \in Holding' /\ hand'[g] = hand[g]
  <2>1. Head(items) = x
    BY Popped DEF PoolType
  <2>. QED BY <1>1, <2>1 DEF PoolType
<1>4. /\ n \in Nat /\ n >= 1 /\ DOMAIN items = 1..n /\ DOMAIN items' = 1..(n - 1)
      /\ \A k \in 1..(n - 1) : items'[k] = items[k + 1]
  BY Popped, LenProperties DEF PoolType
<1>. HIDE DEF n, x
<1>5. /\ \A k \in DOMAIN items' : k + 1 \in DOMAIN items /\ items'[k] = items[k + 1] /\ k + 1 # 1
      /\ \A k \in DOMAIN items : k # 1 => k - 1 \in DOMAIN items' /\ items'[k - 1] = items[k]
      /\ 1 \in DOMAIN items
      /\ \A j, k \in DOMAIN items' : j + 1 = k + 1 => j = k
  <2>1. ASSUME NEW k \in 1..n, k # 1
        PROVE  k - 1 \in 1..(n - 1) /\ items'[k - 1] = items[k]
    <3>1. k - 1 \in 1..(n - 1) /\ (k - 1) + 1 = k
      BY <1>4, <2>1
    <3>. QED BY <1>4, <3>1
  <2>. QED BY <1>4, <2>1
<1>7. /\ x \in open \cup {Failed} /\ (\A g \in Holding : x = hand[g] => x = Failed)
      /\ \A k \in DOMAIN items : k # 1 => (x = items[k] => x = Failed)
  BY <1>5 DEF OwnInv, x
<1>8. \A k \in DOMAIN items' : items'[k] \in open' \cup {Failed}
  BY <1>5 DEF OwnInv
<1>9. \A g \in Holding' : hand'[g] \in open' \cup {Failed}
  BY <1>2, <1>7 DEF OwnInv
<1>10. \A j, k \in DOMAIN items' : items'[j] = items'[k] /\ items'[j] # Failed => j = k
  BY <1>5 DEF OwnInv
<1>11. \A g, h \in Holding' : hand'[g] = hand'[h] /\ hand'[g] # Failed => g = h
  BY <1>2, <1>7 DEF OwnInv
<1>12. \A k \in DOMAIN items', g \in Holding' : items'[k] = hand'[g] => items'[k] = Failed
  BY <1>2, <1>5, <1>7 DEF OwnInv
<1>13. ASSUME NEW i \in open'
       PROVE  (\E k \in DOMAIN items' : items'[k] = i) \/ (\E g \in Holding' : hand'[g] = i)
  <2>1. CASE \E k \in DOMAIN items : items[k] = i
    <3>1. PICK k \in DOMAIN items : items[k] = i
      BY <2>1
    <3>2. CASE k = 1
      BY <1>2, <3>1, <3>2 DEF x
    <3>3. CASE k # 1
      <4>1. k - 1 \in DOMAIN items' /\ items'[k - 1] = i
        BY <1>5, <3>1, <3>3
      <4>. QED BY <4>1
    <3>. QED BY <3>2, <3>3
  <2>2. CASE \E g \in Holding : hand[g] = i
    BY <1>2, <2>2
  <2>. QED BY <2>1, <2>2 DEF OwnInv
<1>. QED BY <1>8, <1>9, <1>10, <1>11, <1>12, <1>13 DEF OwnInv

-----------------------------------------------------------------------------
(* The actions.                                                             *)

(* A step in which somebody has an attempt, or is about to bring one, is one  *)
(* of a pool that still counts.                                             *)
LEMMA AtSize ==
  ASSUME PoolInv, NEW f \in Fiber, NEW x, At(f, x), x \in Holders \cup Bringers
  PROVE  size >= 0 /\ ~queueDown
<1>0. PoolType /\ ShutInv
  BY DEF PoolInv
<1>1. todo[f] # <<>> /\ Head(todo[f]) = x
  BY DEF At
<1>2. f \in InStep(Holders) \/ f \in InStep(Bringers)
  BY <1>1 DEF InStep
<1>3. ~(size < 0) /\ size \in Int
  BY <1>0, <1>2 DEF ShutInv, PoolType
<1>. QED BY <1>0, <1>3 DEF ShutInv, PoolType

In(x, S) == IF x \in S THEN 1 ELSE 0

(* A step that leaves the queue and the items alone.                         *)
LEMMA Quietly ==
  ASSUME PoolInv, NEW f \in Fiber, NEW x, At(f, x), NEW a, Goes(f, a),
         UNCHANGED <<range, queueDown, items, open, hand>>,
         size' \in Int, free' \in Int, size' <= range.max,
         x \in HandSteps <=> a # <<>> /\ a[1] \in HandSteps,
         \/ /\ size >= 0
            /\ size' = size - In(x, Holders) + Has(a, Holders)
                            - In(x, Bringers) + Has(a, Bringers)
            /\ free' = free - In(x, Bringers) + Has(a, Bringers)
                            + In(x, Askers) - Has(a, Askers)
         \/ /\ size' < 0 /\ items = <<>>
            /\ InStep(Holders) = {} /\ InStep(Bringers) = {}
            /\ Has(a, Holders) = 0 /\ Has(a, Bringers) = 0,
         a # <<>> => a[1] # "close" \/ size' < 0
  PROVE  PoolInv'
<1>0. PoolType /\ OwnInv
  BY DEF PoolInv
<1>1. \A S : Has(todo[f], S) = In(x, S)
  BY <1>0, AtStep DEF Has, In
<1>2. PoolType' /\ FlowInv' /\ TakerInv' /\ CloserInv'
  BY <1>0 DEF PoolType, Goes
<1>3. CountInv' /\ ShutInv'
  <2>1. items \in Seq(Item \cup {Failed}) /\ Len(items) = Len(items) + 0 /\ 0 \in Int
    BY <1>0, LenProperties DEF PoolType
  <2>2. \A S : In(x, S) \in Int /\ Has(a, S) \in Int
    BY DEF In, Has
  <2>3. size \in Int /\ free \in Int
    BY <1>0 DEF PoolType
  <2>. DEFINE fh == Has(todo[f], Holders)
              fb == Has(todo[f], Bringers)
              fk == Has(todo[f], Askers)
              ah == Has(a, Holders)
              ab == Has(a, Bringers)
              ak == Has(a, Askers)
  <2>4. /\ fh \in Int /\ fb \in Int /\ fk \in Int /\ ah \in Int /\ ab \in Int /\ ak \in Int
        /\ \/ size >= 0 /\ size' = size - fh + ah - fb + ab
                        /\ free' = free - fb + ab + fk - ak
           \/ /\ size' < 0 /\ items' = <<>>
              /\ InStep(Holders) = {} /\ InStep(Bringers) = {}
              /\ ah = 0 /\ ab = 0
    BY <1>1, <2>2
  <2>. HIDE DEF fh, fb, fk, ah, ab, ak
  <2>5. \/ size >= 0 /\ size' = size + 0 - fh + ah - fb + ab
                     /\ free' = free + 0 - fb + ab + fk - ak
        \/ /\ size' < 0 /\ items' = <<>>
           /\ InStep(Holders) = {} /\ InStep(Bringers) = {}
           /\ ah = 0 /\ ab = 0
    BY <2>3, <2>4
  <2>. QED BY <2>1, <2>5, Accounts DEF fh, fb, fk, ah, ab, ak
<1>4. OwnInv'
  <2>1. Holding = InStep(HandSteps) /\ Holding' = InStep(HandSteps)' /\ HandSteps \cap Later = {}
    BY DEF Holding, HandSteps, Later
  <2>2. Holding' = IF a # <<>> /\ a[1] \in HandSteps THEN Holding \cup {f} ELSE Holding \ {f}
    BY <1>0, <2>1, GoesWhere
  <2>3. f \in Holding <=> x \in HandSteps
    BY <2>1 DEF InStep, At
  <2>4. Holding' = Holding
    BY <2>2, <2>3
  <2>. QED BY <1>0, <2>4, OwnSame
<1>. QED BY <1>2, <1>3, <1>4 DEF PoolInv

(* Steps that nothing counts.                                               *)
LEMMA Idly ==
  ASSUME PoolInv, NEW f \in Fiber, NEW x, At(f, x), NEW a, Goes(f, a),
         UNCHANGED <<range, state, queueDown, items, open, hand>>,
         x \notin Holders \cup Bringers \cup Askers \cup HandSteps,
         a # <<>> => a[1] \notin Holders \cup Bringers \cup Askers \cup HandSteps \cup {"close"}
  PROVE  PoolInv'
<1>0. PoolType /\ CountInv /\ ShutInv
  BY DEF PoolInv
<1>1. /\ In(x, Holders) = 0 /\ In(x, Bringers) = 0 /\ In(x, Askers) = 0
      /\ Has(a, Holders) = 0 /\ Has(a, Bringers) = 0 /\ Has(a, Askers) = 0
  BY DEF In, Has
<1>2. size' = size /\ free' = free /\ size \in Int /\ free \in Int /\ size <= range.max
  BY <1>0 DEF PoolType, CountInv, state
<1>3. /\ size' = size - In(x, Holders) + Has(a, Holders) - In(x, Bringers) + Has(a, Bringers)
      /\ free' = free - In(x, Bringers) + Has(a, Bringers) + In(x, Askers) - Has(a, Askers)
  BY <1>1, <1>2
<1>4. size < 0 => items = <<>> /\ InStep(Holders) = {} /\ InStep(Bringers) = {}
  BY <1>0, <1>2 DEF ShutInv
<1>. QED BY <1>1, <1>2, <1>3, <1>4, Quietly

(* What the lemmas ask of a list of steps.                                  *)
LEMMA Lists ==
  /\ \A x \in Step : /\ <<x>> \in Seq(Step) /\ <<x>> # <<>> /\ <<x>>[1] = x
                     /\ DOMAIN <<x>> = {1}
  /\ \A x, y \in Step : /\ <<x, y>> \in Seq(Step) /\ <<x, y>> # <<>>
                        /\ <<x, y>>[1] = x /\ <<x, y>>[2] = y /\ DOMAIN <<x, y>> = {1, 2}
  /\ \A x, y, z \in Step :
       /\ <<x, y, z>> \in Seq(Step) /\ <<x, y, z>> # <<>>
       /\ <<x, y, z>>[1] = x /\ <<x, y, z>>[2] = y /\ <<x, y, z>>[3] = z
       /\ DOMAIN <<x, y, z>> = {1, 2, 3}
  /\ <<>> \in Seq(Step) /\ DOMAIN <<>> = {}
OBVIOUS

(* Their shapes.                                                            *)
LEMMA Shapes ==
  /\ Flow(<<>>)
  /\ \A x \in Step : x \notin Askers => Flow(<<x>>)
  /\ \A x \in Step, y \in Later : x \notin Askers => Flow(<<x, y>>)
  /\ \A x \in Step, y, z \in Later : x \notin Askers => Flow(<<x, y, z>>)
  /\ \A x \in Askers, y \in {"inspect", "discard"} : Flow(<<x, y>>)
  /\ \A x \in Askers, y \in {"inspect", "discard"}, z \in Later : Flow(<<x, y, z>>)
<1>1. \A x \in Step, y \in Later : x \notin Askers => Flow(<<x, y>>)
  BY DEF Flow, Plain
<1>2. \A x \in Step, y, z \in Later : x \notin Askers => Flow(<<x, y, z>>)
  BY DEF Flow, Plain
<1>3. \A x \in Askers, y \in {"inspect", "discard"} : Flow(<<x, y>>)
  BY DEF Flow, Taking
<1>4. \A x \in Askers, y \in {"inspect", "discard"}, z \in Later : Flow(<<x, y, z>>)
  BY DEF Flow, Taking
<1>5. Flow(<<>>)
  BY DEF Flow, Plain
<1>6. \A x \in Step : x \notin Askers => Flow(<<x>>)
  BY DEF Flow, Plain
<1>. QED BY <1>1, <1>2, <1>3, <1>4, <1>5, <1>6

(* Together, of a plain step before one or two that only follow.             *)
LEMMA One ==
  ASSUME NEW x, x \in Step \ Askers
  PROVE  <<x>> \in Seq(Step) /\ Flow(<<x>>) /\ <<x>> # <<>> /\ <<x>>[1] = x
BY Lists, Shapes

(* Before one more step.                                                    *)
LEMMA Two ==
  ASSUME NEW x, x \in Step \ Askers, NEW y, y \in Later
  PROVE  <<x, y>> \in Seq(Step) /\ Flow(<<x, y>>) /\ <<x, y>> # <<>> /\ <<x, y>>[1] = x
<1>1. y \in Step /\ x \in Step /\ x \notin Askers
  BY DEF Step, Later
<1>2. <<x, y>> \in Seq(Step) /\ <<x, y>> # <<>> /\ <<x, y>>[1] = x
  BY <1>1, Lists
<1>3. Flow(<<x, y>>)
  BY <1>1, Shapes
<1>. QED BY <1>2, <1>3

(* Before two.                                                              *)
LEMMA Three ==
  ASSUME NEW x, x \in Step \ Askers, NEW y, y \in Later, NEW z, z \in Later
  PROVE  /\ <<x, y, z>> \in Seq(Step) /\ Flow(<<x, y, z>>) /\ <<x, y, z>> # <<>>
         /\ <<x, y, z>>[1] = x
<1>1. y \in Step /\ z \in Step /\ x \in Step /\ x \notin Askers
  BY DEF Step, Later
<1>. QED BY <1>1, Lists, Shapes

(* get asks whether the pool is shutting down.                              *)
LEMMA AcquireStep == ASSUME PoolInv, NEW f \in Fiber, Acquire(f) PROVE PoolInv'
<1>0. At(f, "acquire") /\ "acquire" \notin Askers /\ "acquire" \notin ClosingSteps
      /\ "acquire" \notin Holders \cup Bringers \cup Askers \cup HandSteps
      /\ UNCHANGED <<range, state, queueDown, items, open, hand>>
      /\ takers' = takers
  BY DEF Acquire, Askers, ClosingSteps, Holders, Bringers, HandSteps, queue
<1>1. CASE isShuttingDown
  <2>1. Goes(f, <<>>)
    BY <1>0, <1>1, GoesHome DEF Acquire
  <2>. QED BY <1>0, <2>1, Idly
<1>2. CASE ~isShuttingDown
  <2>1. Goes(f, <<"reserve">>)
    BY <1>0, <1>2, GoesOn, Lists, Shapes DEF Acquire, Step, Askers
  <2>. QED BY <1>0, <2>1, Idly, Lists DEF Step, Askers, Holders, Bringers, HandSteps
<1>. QED BY <1>1, <1>2

(* Whoever brought an item asks the same.                                   *)
LEMMA AskStep == ASSUME PoolInv, NEW f \in Fiber, Ask(f) PROVE PoolInv'
<1>0. At(f, "ask") /\ "ask" \notin Askers /\ "ask" \notin ClosingSteps
      /\ "ask" \notin Holders \cup Bringers \cup Askers \cup HandSteps
      /\ UNCHANGED <<range, state, queueDown, items, open, hand>>
      /\ takers' = takers /\ Becomes(f, TakeOut)
  BY DEF Ask, Askers, ClosingSteps, Holders, Bringers, HandSteps, queue
<1>1. TakeOut \in {<<>>, <<"shut">>}
  BY DEF TakeOut
<1>2. TakeOut \in Seq(Step) /\ Flow(TakeOut)
  <2>1. <<"shut">> \in Seq(Step) /\ Flow(<<"shut">>)
    BY Lists, Shapes DEF Step, Askers
  <2>2. <<>> \in Seq(Step) /\ Flow(<<>>)
    BY Lists, Shapes
  <2>. QED BY <1>1, <2>1, <2>2
<1>4. queueDown' = queueDown
  BY <1>0
<1>5. Goes(f, TakeOut)
  BY <1>0, <1>2, <1>4, GoesOn
<1>3. TakeOut # <<>> =>
        TakeOut[1] \notin Holders \cup Bringers \cup Askers \cup HandSteps \cup {"close"}
  BY <1>1, Lists DEF Step, Askers, Holders, Bringers, HandSteps
<1>. QED BY <1>0, <1>3, <1>5, Idly

(* Quietly, from a step x to a step y.                                      *)
LEMMA Onto ==
  ASSUME PoolInv, NEW f \in Fiber, NEW x, At(f, x), NEW a, Goes(f, a),
         NEW y, a # <<>>, a[1] = y,
         UNCHANGED <<range, queueDown, items, open, hand>>,
         size' \in Int, free' \in Int, size' <= range.max,
         x \in HandSteps <=> y \in HandSteps,
         \/ /\ size >= 0
            /\ size' = size - In(x, Holders) + In(y, Holders)
                            - In(x, Bringers) + In(y, Bringers)
            /\ free' = free - In(x, Bringers) + In(y, Bringers)
                            + In(x, Askers) - In(y, Askers)
         \/ /\ size' < 0 /\ items = <<>>
            /\ InStep(Holders) = {} /\ InStep(Bringers) = {}
            /\ In(y, Holders) = 0 /\ In(y, Bringers) = 0,
         y # "close" \/ size' < 0
  PROVE  PoolInv'
<1>1. \A S : Has(a, S) = In(y, S)
  BY DEF Has, In
<1>2. Has(a, Holders) = In(y, Holders) /\ Has(a, Bringers) = In(y, Bringers)
      /\ Has(a, Askers) = In(y, Askers)
  BY <1>1
<1>. QED BY <1>2, Quietly

(* A pool that counts no more has nothing, and nobody who will bring it.     *)
LEMMA Below ==
  ASSUME PoolInv
  PROVE  /\ size \in Int /\ free \in Int /\ size <= range.max
         /\ size < 0 => items = <<>> /\ InStep(Holders) = {} /\ InStep(Bringers) = {}
         /\ range \in Sizes /\ range.min \in Nat /\ range.max \in Nat /\ range.min <= range.max
BY SizesAssumption DEF PoolInv, PoolType, CountInv, ShutInv

(* get takes an attempt that is free, or makes one.                          *)
LEMMA ReserveStep == ASSUME PoolInv, NEW f \in Fiber, Reserve(f) PROVE PoolInv'
<1>0. /\ At(f, "reserve") /\ "reserve" \notin Askers /\ "reserve" \notin ClosingSteps
      /\ "reserve" \notin Holders \cup Bringers \cup Askers \cup HandSteps
      /\ UNCHANGED <<range, queueDown, items, open, hand>>
      /\ takers' = takers /\ queueDown' = queueDown
  BY DEF Reserve, Askers, ClosingSteps, Holders, Bringers, HandSteps, queue
<1>1. size \in Int /\ free \in Int /\ size <= range.max /\ range.max \in Nat
      /\ (size < 0 => items = <<>> /\ InStep(Holders) = {} /\ InStep(Bringers) = {})
  BY Below
<1>. DEFINE Gets == Becomes(f, <<"take", "inspect">>) /\ free' = free - 1 /\ UNCHANGED size
            Makes == /\ Becomes(f, <<"allocate", "ask", "acquire">>)
                     /\ size' = size + 1 /\ free' = free + 1
            Stops == Ends(f) /\ UNCHANGED state
<1>5. (CASE free > 0 \/ Full -> Gets
         [] free <= 0 /\ ~Full /\ size >= 0 -> Makes
         [] free <= 0 /\ ~Full /\ size < 0 -> Stops)
  BY DEF Reserve
<1>. HIDE DEF Gets, Makes, Stops
<1>6. /\ free > 0 \/ Full => Gets
      /\ free <= 0 /\ ~Full /\ size >= 0 => Makes
      /\ free <= 0 /\ ~Full /\ size < 0 => Stops
  <2>1. (free > 0 <=> ~(free <= 0)) /\ (size < 0 <=> ~(size >= 0))
    BY <1>1
  <2>. QED BY <1>5, <2>1, Zenon
<1>2. CASE free > 0 \/ Full
  <2>. DEFINE a == <<"take", "inspect">>
  <2>1. Becomes(f, a) /\ free' = free - 1 /\ size' = size
    BY <1>2, <1>6 DEF Gets
  <2>2. a \in Seq(Step) /\ Flow(a) /\ a # <<>> /\ a[1] = "take"
    BY Lists, Shapes DEF Step, Askers
  <2>. HIDE DEF a
  <2>3. Goes(f, a)
    BY <1>0, <2>1, <2>2, GoesOn
  <2>4. /\ In("reserve", Holders) = 0 /\ In("reserve", Bringers) = 0 /\ In("reserve", Askers) = 0
        /\ In("take", Holders) = 0 /\ In("take", Bringers) = 0 /\ In("take", Askers) = 1
        /\ "take" \notin HandSteps
    BY DEF In, Holders, Bringers, Askers, HandSteps
  <2>5. /\ size' = size - In("reserve", Holders) + In("take", Holders)
                        - In("reserve", Bringers) + In("take", Bringers)
        /\ free' = free - In("reserve", Bringers) + In("take", Bringers)
                        + In("reserve", Askers) - In("take", Askers)
        /\ size' \in Int /\ free' \in Int /\ size' <= range.max
        /\ (size >= 0 \/ size' < 0)
    BY <1>1, <2>1, <2>4
  <2>. QED BY <1>0, <1>1, <2>1, <2>2, <2>3, <2>4, <2>5, Onto
<1>3. CASE free <= 0 /\ ~Full /\ size >= 0
  <2>. DEFINE a == <<"allocate", "ask", "acquire">>
  <2>0. size < range.max
    BY <1>1, <1>3 DEF Full
  <2>1. Becomes(f, a) /\ free' = free + 1 /\ size' = size + 1
    BY <1>3, <1>6 DEF Makes
  <2>2. a \in Seq(Step) /\ Flow(a) /\ a # <<>> /\ a[1] = "allocate"
    <3>1. "allocate" \in Step \ Askers /\ "ask" \in Later /\ "acquire" \in Later
      BY DEF Step, Askers, Later
    <3>. QED BY <3>1, Three
  <2>. HIDE DEF a
  <2>3. Goes(f, a)
    BY <1>0, <2>1, <2>2, GoesOn
  <2>4. /\ In("reserve", Holders) = 0 /\ In("reserve", Bringers) = 0 /\ In("reserve", Askers) = 0
        /\ In("allocate", Holders) = 0 /\ In("allocate", Bringers) = 1
        /\ In("allocate", Askers) = 0 /\ "allocate" \notin HandSteps
    BY DEF In, Holders, Bringers, Askers, HandSteps
  <2>5. /\ size' = size - In("reserve", Holders) + In("allocate", Holders)
                        - In("reserve", Bringers) + In("allocate", Bringers)
        /\ free' = free - In("reserve", Bringers) + In("allocate", Bringers)
                        + In("reserve", Askers) - In("allocate", Askers)
        /\ size' \in Int /\ free' \in Int /\ size' <= range.max
    BY <1>1, <2>0, <2>1, <2>4
  <2>. QED BY <1>0, <1>3, <2>2, <2>3, <2>4, <2>5, Onto
<1>4. CASE free <= 0 /\ ~Full /\ size < 0
  <2>1. Ends(f) /\ UNCHANGED state
    BY <1>4, <1>6 DEF Stops
  <2>2. Goes(f, <<>>)
    BY <1>0, <2>1, GoesHome
  <2>. QED BY <1>0, <2>1, <2>2, Idly
<1>. QED BY <1>1, <1>2, <1>3, <1>4

(* It asks whether what it took is valid.                                    *)
LEMMA InspectStep == ASSUME PoolInv, NEW f \in Fiber, Inspect(f) PROVE PoolInv'
<1>0. /\ At(f, "inspect") /\ "inspect" \notin Askers /\ "inspect" \notin ClosingSteps
      /\ UNCHANGED <<range, queueDown, items, open, hand>>
      /\ takers' = takers /\ queueDown' = queueDown /\ size' = size /\ free' = free
  BY DEF Inspect, Askers, ClosingSteps, queue, state
<1>1. size \in Int /\ free \in Int /\ size <= range.max /\ range.max \in Nat /\ size >= 0
  BY <1>0, Below, AtSize DEF Holders
<1>2. /\ In("inspect", Holders) = 1 /\ In("inspect", Bringers) = 0 /\ In("inspect", Askers) = 0
      /\ In("hold", Holders) = 1 /\ In("hold", Bringers) = 0 /\ In("hold", Askers) = 0
      /\ In("replace", Holders) = 1 /\ In("replace", Bringers) = 0 /\ In("replace", Askers) = 0
      /\ "inspect" \in HandSteps /\ "hold" \in HandSteps /\ "replace" \in HandSteps
  BY DEF In, Holders, Bringers, Askers, HandSteps
<1>3. \A y \in {"hold", "replace"} :
        /\ size' = size - In("inspect", Holders) + In(y, Holders)
                        - In("inspect", Bringers) + In(y, Bringers)
        /\ free' = free - In("inspect", Bringers) + In(y, Bringers)
                        + In("inspect", Askers) - In(y, Askers)
        /\ size' \in Int /\ free' \in Int /\ size' <= range.max
  BY <1>0, <1>1, <1>2
<1>4. CASE Invalid(f)
  <2>. DEFINE a == <<"replace", "acquire">>
  <2>1. Becomes(f, a)
    BY <1>4 DEF Inspect
  <2>2. a \in Seq(Step) /\ Flow(a) /\ a # <<>> /\ a[1] = "replace"
    <3>1. "replace" \in Step \ Askers /\ "acquire" \in Later
      BY DEF Step, Askers, Later
    <3>. QED BY <3>1, Two
  <2>. HIDE DEF a
  <2>3. Goes(f, a)
    BY <1>0, <2>1, <2>2, GoesOn
  <2>. QED BY <1>0, <1>1, <1>2, <1>3, <2>2, <2>3, Onto
<1>5. CASE ~Invalid(f)
  <2>. DEFINE a == <<"hold">>
  <2>1. Becomes(f, a)
    BY <1>5 DEF Inspect
  <2>2. a \in Seq(Step) /\ Flow(a) /\ a # <<>> /\ a[1] = "hold"
    <3>1. "hold" \in Step \ Askers
      BY DEF Step, Askers, Later
    <3>. QED BY <3>1, One
  <2>. HIDE DEF a
  <2>3. Goes(f, a)
    BY <1>0, <2>1, <2>2, GoesOn
  <2>. QED BY <1>0, <1>1, <1>2, <1>3, <2>2, <2>3, Onto
<1>. QED BY <1>4, <1>5

(* The finalizer of get gives an attempt back, or has it replaced.           *)
LEMMA ReleaseStep == ASSUME PoolInv, NEW f \in Fiber, Release(f) PROVE PoolInv'
<1>0. /\ At(f, "hold") /\ "hold" \notin Askers /\ "hold" \notin ClosingSteps
      /\ UNCHANGED <<range, queueDown, items, open, hand>>
      /\ takers' = takers /\ queueDown' = queueDown /\ size' = size
  BY DEF Release, Askers, ClosingSteps, queue
<1>1. size \in Int /\ free \in Int /\ size <= range.max /\ range.max \in Nat /\ size >= 0
  BY <1>0, Below, AtSize DEF Holders
<1>2. /\ In("hold", Holders) = 1 /\ In("hold", Bringers) = 0 /\ In("hold", Askers) = 0
      /\ In("offer", Holders) = 0 /\ In("offer", Bringers) = 1 /\ In("offer", Askers) = 0
      /\ In("replace", Holders) = 1 /\ In("replace", Bringers) = 0 /\ In("replace", Askers) = 0
      /\ "hold" \in HandSteps /\ "offer" \in HandSteps /\ "replace" \in HandSteps
  BY DEF In, Holders, Bringers, Askers, HandSteps
<1>3. CASE hand[f] = Failed \/ Invalid(f)
  <2>. DEFINE a == <<"replace">>
  <2>1. Becomes(f, a) /\ free' = free
    BY <1>3 DEF Release
  <2>2. a \in Seq(Step) /\ Flow(a) /\ a # <<>> /\ a[1] = "replace"
    <3>1. "replace" \in Step \ Askers
      BY DEF Step, Askers, Later
    <3>. QED BY <3>1, One
  <2>. HIDE DEF a
  <2>3. Goes(f, a)
    BY <1>0, <2>1, <2>2, GoesOn
  <2>4. /\ size' = size - In("hold", Holders) + In("replace", Holders)
                        - In("hold", Bringers) + In("replace", Bringers)
        /\ free' = free - In("hold", Bringers) + In("replace", Bringers)
                        + In("hold", Askers) - In("replace", Askers)
        /\ size' \in Int /\ free' \in Int /\ size' <= range.max
    BY <1>0, <1>1, <1>2, <2>1
  <2>5. ("hold" \in HandSteps <=> "replace" \in HandSteps) /\ ("replace" # "close" \/ size' < 0)
    BY <1>2
  <2>. QED BY <1>0, <1>1, <2>2, <2>3, <2>4, <2>5, Onto
<1>4. CASE ~(hand[f] = Failed \/ Invalid(f))
  <2>. DEFINE a == <<"offer", "ask">>
  <2>1. Becomes(f, a) /\ free' = free + 1
    BY <1>4 DEF Release
  <2>2. a \in Seq(Step) /\ Flow(a) /\ a # <<>> /\ a[1] = "offer"
    <3>1. "offer" \in Step \ Askers /\ "ask" \in Later
      BY DEF Step, Askers, Later
    <3>. QED BY <3>1, Two
  <2>. HIDE DEF a
  <2>3. Goes(f, a)
    BY <1>0, <2>1, <2>2, GoesOn
  <2>4. /\ size' = size - In("hold", Holders) + In("offer", Holders)
                        - In("hold", Bringers) + In("offer", Bringers)
        /\ free' = free - In("hold", Bringers) + In("offer", Bringers)
                        + In("hold", Askers) - In("offer", Askers)
        /\ size' \in Int /\ free' \in Int /\ size' <= range.max
    BY <1>0, <1>1, <1>2, <2>1
  <2>5. ("hold" \in HandSteps <=> "offer" \in HandSteps) /\ ("offer" # "close" \/ size' < 0)
    BY <1>2
  <2>. QED BY <1>0, <1>1, <2>2, <2>3, <2>4, <2>5, Onto
<1>. QED BY <1>3, <1>4

(* initialize makes a first item.                                           *)
LEMMA SeedStep == ASSUME PoolInv, NEW f \in Fiber, Seed(f) PROVE PoolInv'
<1>0. /\ At(f, "seed") /\ "seed" \notin Askers /\ "seed" \notin ClosingSteps
      /\ "seed" \notin Holders \cup Bringers \cup Askers \cup HandSteps
      /\ UNCHANGED <<range, queueDown, items, open, hand>>
      /\ takers' = takers /\ queueDown' = queueDown
  BY DEF Seed, Askers, ClosingSteps, Holders, Bringers, HandSteps, queue
<1>1. /\ size \in Int /\ free \in Int /\ size <= range.max
      /\ range.max \in Nat /\ range.min \in Nat /\ range.min <= range.max
  BY Below
<1>2. CASE size < range.min /\ size >= 0
  <2>. DEFINE a == <<"allocate", "ask">>
  <2>1. Becomes(f, a) /\ size' = size + 1 /\ free' = free + 1
    BY <1>2 DEF Seed
  <2>2. a \in Seq(Step) /\ Flow(a) /\ a # <<>> /\ a[1] = "allocate"
    <3>1. "allocate" \in Step \ Askers /\ "ask" \in Later
      BY DEF Step, Askers, Later
    <3>. QED BY <3>1, Two
  <2>. HIDE DEF a
  <2>3. Goes(f, a)
    BY <1>0, <2>1, <2>2, GoesOn
  <2>4. /\ In("seed", Holders) = 0 /\ In("seed", Bringers) = 0 /\ In("seed", Askers) = 0
        /\ In("allocate", Holders) = 0 /\ In("allocate", Bringers) = 1
        /\ In("allocate", Askers) = 0 /\ "allocate" \notin HandSteps
    BY DEF In, Holders, Bringers, Askers, HandSteps
  <2>5. /\ size' = size - In("seed", Holders) + In("allocate", Holders)
                        - In("seed", Bringers) + In("allocate", Bringers)
        /\ free' = free - In("seed", Bringers) + In("allocate", Bringers)
                        + In("seed", Askers) - In("allocate", Askers)
        /\ size' \in Int /\ free' \in Int /\ size' <= range.max
    BY <1>1, <1>2, <2>1, <2>4
  <2>6. ("seed" \in HandSteps <=> "allocate" \in HandSteps) /\ ("allocate" # "close" \/ size' < 0)
    BY <1>0, <2>4
  <2>. QED BY <1>0, <1>2, <2>2, <2>3, <2>5, <2>6, Onto
<1>3. CASE ~(size < range.min /\ size >= 0)
  <2>1. Becomes(f, <<>>) /\ UNCHANGED state
    BY <1>3 DEF Seed
  <2>2. <<>> \in Seq(Step) /\ Flow(<<>>)
    BY Lists, Shapes
  <2>3. Goes(f, <<>>)
    BY <1>0, <2>1, <2>2, GoesOn
  <2>. QED BY <1>0, <2>1, <2>3, Idly
<1>. QED BY <1>2, <1>3

(* The pool begins to shut down.                                            *)
LEMMA ShutdownStep == ASSUME PoolInv, Shutdown PROVE PoolInv'
<1>. DEFINE a == <<"shut">>
<1>0. /\ Closer \in Fiber /\ At(Closer, "shutdown") /\ "shutdown" \notin Askers
      /\ "shutdown" \notin Holders \cup Bringers \cup Askers \cup HandSteps
      /\ UNCHANGED <<range, state, queueDown, items, open, hand>>
      /\ takers' = takers /\ queueDown' = queueDown /\ Becomes(Closer, a)
  BY DEF Shutdown, Askers, Holders, Bringers, HandSteps, queue, Fiber
<1>1. a \in Seq(Step) /\ Flow(a) /\ a # <<>> /\ a[1] = "shut"
  <2>1. "shut" \in Step \ Askers
    BY DEF Step, Askers
  <2>. QED BY <2>1, One
<1>2. "shutdown" # "leave" /\ \A k \in DOMAIN a : a[k] \in ClosingSteps
  <2>1. "shut" \in Step /\ "shut" \in ClosingSteps
    BY DEF Step, ClosingSteps
  <2>. QED BY <1>1, <2>1, Lists
<1>. HIDE DEF a
<1>3. Goes(Closer, a)
  BY <1>0, <1>1, <1>2, GoesOn
<1>4. "shut" \notin Holders \cup Bringers \cup Askers \cup HandSteps \cup {"close"}
  BY DEF Askers, Holders, Bringers, HandSteps
<1>. QED BY <1>0, <1>1, <1>3, <1>4, Idly

(* A pool with no attempts has none in the queue or in a hand.               *)
LEMMA Empty ==
  ASSUME PoolInv, size <= 0
  PROVE  items = <<>> /\ InStep(Holders) = {} /\ InStep(Bringers) = {}
<1>0. PoolType /\ CountInv /\ size \in Int
  BY DEF PoolInv, PoolType
<1>1. CASE size < 0
  BY <1>1, Below
<1>2. CASE ~(size < 0)
  <2>. DEFINE n == Len(items)
              h == Count(Holders)
              b == Count(Bringers)
  <2>1. size = 0 /\ size = n + h + b
    BY <1>0, <1>2 DEF CountInv
  <2>2. n \in Nat /\ h \in Nat /\ b \in Nat
    <3>1. \A S : IsFiniteSet(S) => Cardinality(S) \in Nat
      BY FS_CardinalityType
    <3>2. h \in Nat /\ b \in Nat
      BY <1>0, <3>1 DEF CountInv, Count, Finite
    <3>. QED BY <1>0, <3>2, LenProperties DEF PoolType
  <2>. HIDE DEF n, h, b
  <2>3. n = 0 /\ h = 0 /\ b = 0
    BY <2>1, <2>2
  <2>4. items = <<>>
    BY <1>0, <2>3, EmptySeq DEF PoolType, n
  <2>5. \A S : IsFiniteSet(S) /\ Cardinality(S) = 0 => S = {}
    BY FS_EmptySet
  <2>6. InStep(Holders) = {} /\ InStep(Bringers) = {}
    BY <1>0, <2>3, <2>5 DEF CountInv, Finite, Count, h, b
  <2>. QED BY <2>4, <2>6
<1>. QED BY <1>1, <1>2

(* getAndShutdown takes one more attempt, ends, or makes the size negative.   *)
LEMMA ShutStep == ASSUME PoolInv, NEW f \in Fiber, Shut(f) PROVE PoolInv'
<1>0. /\ At(f, "shut") /\ "shut" \notin Askers /\ "shut" # "leave"
      /\ "shut" \notin Holders \cup Bringers \cup Askers \cup HandSteps
      /\ UNCHANGED <<range, queueDown, items, open, hand>>
      /\ takers' = takers /\ queueDown' = queueDown
  BY DEF Shut, Askers, Holders, Bringers, HandSteps, queue
<1>1. size \in Int /\ free \in Int /\ size <= range.max /\ range.max \in Nat
  BY Below
<1>. DEFINE Drains == /\ Becomes(f, <<"drain", "discard", "shut">>)
                      /\ free' = free - 1 /\ UNCHANGED size
            Stops == Becomes(f, <<>>) /\ UNCHANGED state
            Closes == Becomes(f, <<"close">>) /\ size' = size - 1 /\ UNCHANGED free
<1>2. (CASE free > 0 -> Drains
         [] free <= 0 /\ size > 0 -> Stops
         [] free <= 0 /\ size <= 0 -> Closes)
  BY DEF Shut
<1>. HIDE DEF Drains, Stops, Closes
<1>3. /\ free > 0 => Drains
      /\ free <= 0 /\ size > 0 => Stops
      /\ free <= 0 /\ size <= 0 => Closes
      /\ free > 0 \/ (free <= 0 /\ (size > 0 \/ size <= 0))
  <2>1. (free > 0 <=> ~(free <= 0)) /\ (size > 0 <=> ~(size <= 0))
    BY <1>1
  <2>. QED BY <1>2, <2>1, Zenon
<1>4. CASE free > 0
  <2>. DEFINE a == <<"drain", "discard", "shut">>
  <2>1. Becomes(f, a) /\ free' = free - 1 /\ size' = size
    BY <1>3, <1>4 DEF Drains
  <2>2. a \in Seq(Step) /\ Flow(a) /\ a # <<>> /\ a[1] = "drain"
        /\ \A k \in DOMAIN a : a[k] \in ClosingSteps
    <3>1. /\ "drain" \in Step /\ "discard" \in Step /\ "shut" \in Step /\ "drain" \in Askers
          /\ "discard" \in {"inspect", "discard"} /\ "shut" \in Later
          /\ "drain" \in ClosingSteps /\ "discard" \in ClosingSteps /\ "shut" \in ClosingSteps
      BY DEF Step, Askers, Later, ClosingSteps
    <3>2. /\ a \in Seq(Step) /\ a # <<>> /\ a[1] = "drain" /\ a[2] = "discard" /\ a[3] = "shut"
          /\ DOMAIN a = {1, 2, 3}
      BY <3>1, Lists
    <3>3. Flow(a)
      BY <3>1, Shapes
    <3>. HIDE DEF a
    <3>. QED BY <3>1, <3>2, <3>3
  <2>. HIDE DEF a
  <2>3. Goes(f, a)
    BY <1>0, <2>1, <2>2, GoesOn
  <2>4. /\ In("shut", Holders) = 0 /\ In("shut", Bringers) = 0 /\ In("shut", Askers) = 0
        /\ In("drain", Holders) = 0 /\ In("drain", Bringers) = 0 /\ In("drain", Askers) = 1
        /\ "drain" \notin HandSteps
    BY DEF In, Holders, Bringers, Askers, HandSteps
  <2>5. /\ size' = size - In("shut", Holders) + In("drain", Holders)
                        - In("shut", Bringers) + In("drain", Bringers)
        /\ free' = free - In("shut", Bringers) + In("drain", Bringers)
                        + In("shut", Askers) - In("drain", Askers)
        /\ size' \in Int /\ free' \in Int /\ size' <= range.max
        /\ (size >= 0 \/ size' < 0)
    BY <1>1, <2>1, <2>4
  <2>6. ("shut" \in HandSteps <=> "drain" \in HandSteps) /\ ("drain" # "close" \/ size' < 0)
    BY <1>0, <2>4
  <2>7. size' < 0 => items = <<>> /\ InStep(Holders) = {} /\ InStep(Bringers) = {}
    BY <2>1, Below
  <2>. QED BY <1>0, <2>2, <2>3, <2>4, <2>5, <2>6, <2>7, Onto
<1>5. CASE free <= 0 /\ size > 0
  <2>1. Becomes(f, <<>>) /\ UNCHANGED state
    BY <1>3, <1>5 DEF Stops
  <2>2. <<>> \in Seq(Step) /\ Flow(<<>>) /\ \A k \in DOMAIN <<>> : <<>>[k] \in ClosingSteps
    BY Lists, Shapes
  <2>3. Goes(f, <<>>)
    BY <1>0, <2>1, <2>2, GoesOn
  <2>. QED BY <1>0, <2>1, <2>3, Idly
<1>6. CASE free <= 0 /\ size <= 0
  <2>. DEFINE a == <<"close">>
  <2>1. Becomes(f, a) /\ free' = free /\ size' = size - 1
    BY <1>3, <1>6 DEF Closes
  <2>2. a \in Seq(Step) /\ Flow(a) /\ a # <<>> /\ a[1] = "close"
        /\ \A k \in DOMAIN a : a[k] \in ClosingSteps
    <3>1. "close" \in Step \ Askers /\ "close" \in ClosingSteps
      BY DEF Step, Askers, ClosingSteps
    <3>2. a \in Seq(Step) /\ Flow(a) /\ a # <<>> /\ a[1] = "close"
      BY <3>1, One
    <3>3. DOMAIN a = {1}
      BY <3>1, Lists
    <3>. HIDE DEF a
    <3>. QED BY <3>1, <3>2, <3>3
  <2>. HIDE DEF a
  <2>3. Goes(f, a)
    BY <1>0, <2>1, <2>2, GoesOn
  <2>4. In("close", Holders) = 0 /\ In("close", Bringers) = 0 /\ "close" \notin HandSteps
    BY DEF In, Holders, Bringers, HandSteps
  <2>5. size' < 0 /\ size' \in Int /\ free' \in Int /\ size' <= range.max
    BY <1>1, <1>6, <2>1
  <2>6. items = <<>> /\ InStep(Holders) = {} /\ InStep(Bringers) = {}
    BY <1>6, Empty
  <2>7. "shut" \in HandSteps <=> "close" \in HandSteps
    BY <1>0, <2>4
  <2>. QED BY <1>0, <2>2, <2>3, <2>4, <2>5, <2>6, <2>7, Onto
<1>. QED BY <1>3, <1>4, <1>5, <1>6

(* What the invariant does not speak of may change.                         *)
LEMMA Stutter ==
  ASSUME PoolInv, UNCHANGED <<range, state, queue, todo, hand, open>>
  PROVE  PoolInv'
BY DEF PoolInv, PoolType, FlowInv, TakerInv, CountInv, ShutInv, CloserInv, OwnInv,
       Finite, Count, Holding, InStep, state, queue

(* The strategy lets the fiber that shrinks the pool take an item.           *)
LEMMA ShrinkStep == ASSUME PoolInv, Shrink PROVE PoolInv'
<1>. DEFINE a == <<"trim", "discard">>
<1>0. /\ todo[Shrinker] = <<>> /\ todo[Closer] # <<>> /\ size > range.min
      /\ free' = free - 1 /\ todo' = [todo EXCEPT ![Shrinker] = a]
      /\ size' = size /\ range' = range /\ queueDown' = queueDown
      /\ UNCHANGED <<items, open, hand>> /\ takers' = takers
  BY DEF Shrink, queue
<1>1. PoolType /\ TakerInv /\ CloserInv /\ OwnInv
  BY DEF PoolInv
<1>2. Shrinker \in Fiber /\ Closer \in Fiber /\ Shrinker # Closer
  BY <1>0 DEF Fiber
<1>3. a \in Seq(Step) /\ Flow(a) /\ a # <<>> /\ a[1] = "trim"
  <2>1. "trim" \in Step /\ "discard" \in Step /\ "trim" \in Askers
    BY DEF Step, Askers
  <2>. QED BY <2>1, Lists, Shapes
<1>. HIDE DEF a
<1>4. CloserInv'
  <2>1. todo'[Closer] = todo[Closer]
    BY <1>0, <1>1, <1>2 DEF PoolType
  <2>. QED BY <1>0, <1>1, <2>1 DEF CloserInv
<1>5. \A k \in DOMAIN takers : takers[k] # Shrinker
  BY <1>0, <1>1 DEF TakerInv, InStep
<1>6. Goes(Shrinker, a)
  BY <1>0, <1>2, <1>3, <1>4, <1>5, GoesTo
<1>7. PoolType' /\ FlowInv' /\ TakerInv' /\ CloserInv'
  BY <1>0, <1>1, <1>6 DEF PoolType, Goes
<1>8. CountInv' /\ ShutInv'
  <2>. DEFINE s == todo[Shrinker]
  <2>1. /\ Has(s, Holders) = 0 /\ Has(s, Bringers) = 0 /\ Has(s, Askers) = 0
        /\ Has(a, Holders) = 0 /\ Has(a, Bringers) = 0 /\ Has(a, Askers) = 1
    BY <1>0, <1>3 DEF Has, Holders, Bringers, Askers
  <2>2. size \in Int /\ free \in Int /\ size <= range.max /\ range.min \in Nat
    BY Below
  <2>. HIDE DEF s
  <2>3. /\ size >= 0 /\ size' \in Int /\ size' <= range.max /\ 0 \in Int
        /\ size' = size + 0 - Has(s, Holders) + Has(a, Holders)
                            - Has(s, Bringers) + Has(a, Bringers)
        /\ free' = free + 0 - Has(s, Bringers) + Has(a, Bringers)
                            + Has(s, Askers) - Has(a, Askers)
    BY <1>0, <2>1, <2>2
  <2>4. items \in Seq(Item \cup {Failed}) /\ items' = items /\ Len(items) = Len(items) + 0
    BY <1>0, <1>1, LenProperties DEF PoolType
  <2>5. a # <<>> => a[1] # "close" \/ size' < 0
    BY <1>3
  <2>. QED BY <1>0, <1>2, <1>6, <2>3, <2>4, <2>5, Accounts DEF s
<1>9. OwnInv'
  <2>1. Holding = InStep(HandSteps) /\ Holding' = InStep(HandSteps)' /\ HandSteps \cap Later = {}
        /\ "trim" \notin HandSteps
    BY DEF Holding, HandSteps, Later
  <2>2. Holding' = Holding \ {Shrinker}
    BY <1>1, <1>2, <1>3, <1>6, <2>1, GoesWhere
  <2>3. Shrinker \notin Holding
    BY <1>0 DEF Holding, InStep
  <2>4. Holding' = Holding
    BY <2>2, <2>3
  <2>. QED BY <1>0, <1>1, <2>4, OwnSame
<1>. QED BY <1>7, <1>8, <1>9 DEF PoolInv

(* Who has an attempt finalizes it, and has nothing in hand any more.        *)
LEMMA Drops ==
  ASSUME PoolInv, NEW f \in Fiber, NEW x, x \in {"replace", "discard"}, At(f, x),
         NEW a, Goes(f, a), Finalizes(f),
         range' = range, queueDown' = queueDown, items' = items,
         a # <<>> => a[1] \notin HandSteps \cup {"close"},
         size' \in Int, free' \in Int, size' <= range.max,
         size' = size - 1 + Has(a, Holders) + Has(a, Bringers),
         free' = free + Has(a, Bringers) - Has(a, Askers)
  PROVE  PoolInv'
<1>0. PoolType /\ OwnInv
  BY DEF PoolInv
<1>1. /\ open' = open \ {hand[f]} /\ hand' = [hand EXCEPT ![f] = Failed]
      /\ hand' \in [Fiber -> Item \cup {Failed}]
  BY <1>0 DEF Finalizes, PoolType
<1>2. PoolType' /\ FlowInv' /\ TakerInv' /\ CloserInv'
  <2>1. todo' \in [Fiber -> Seq(Step)]
    BY DEF Goes
  <2>2. open' \subseteq Item
    BY <1>0, <1>1 DEF PoolType
  <2>3. PoolType'
    BY <1>0, <1>1, <2>1, <2>2 DEF PoolType
  <2>. QED BY <2>3 DEF Goes
<1>3. CountInv' /\ ShutInv'
  <2>1. items \in Seq(Item \cup {Failed}) /\ Len(items) = Len(items) + 0 /\ 0 \in Int
        /\ size \in Int /\ free \in Int
    BY <1>0, LenProperties DEF PoolType
  <2>. DEFINE s == todo[f]
  <2>2. Has(s, Holders) = 1 /\ Has(s, Bringers) = 0 /\ Has(s, Askers) = 0
    BY <1>0, AtStep DEF Has, Holders, Bringers, Askers
  <2>. HIDE DEF s
  <2>3. Has(a, Holders) \in Int /\ Has(a, Bringers) \in Int /\ Has(a, Askers) \in Int
    BY DEF Has
  <2>4. size >= 0
    BY AtSize DEF Holders
  <2>5. /\ size' = size + 0 - Has(s, Holders) + Has(a, Holders)
                            - Has(s, Bringers) + Has(a, Bringers)
        /\ free' = free + 0 - Has(s, Bringers) + Has(a, Bringers)
                            + Has(s, Askers) - Has(a, Askers)
    BY <2>1, <2>2, <2>3
  <2>6. a # <<>> => a[1] # "close" \/ size' < 0
    OBVIOUS
  <2>. QED BY <2>1, <2>4, <2>5, <2>6, Accounts DEF s
<1>4. OwnInv'
  <2>1. Holding = InStep(HandSteps) /\ Holding' = InStep(HandSteps)' /\ HandSteps \cap Later = {}
        /\ x \in HandSteps
    BY DEF Holding, HandSteps, Later
  <2>2. Holding' = Holding \ {f}
    BY <1>0, <2>1, GoesWhere
  <2>3. f \in Holding
    BY <2>1 DEF InStep, At
  <2>. QED BY <1>0, <1>1, <2>2, <2>3, OwnDropped
<1>. QED BY <1>2, <1>3, <1>4 DEF PoolInv

(* An attempt that is gone is replaced below min.                            *)
LEMMA ReplaceStep == ASSUME PoolInv, NEW f \in Fiber, Replace(f) PROVE PoolInv'
<1>0. /\ At(f, "replace") /\ "replace" \notin Askers /\ "replace" \notin ClosingSteps
      /\ range' = range /\ items' = items /\ Finalizes(f)
      /\ takers' = takers /\ queueDown' = queueDown
  BY DEF Replace, Askers, ClosingSteps, queue
<1>1. size \in Int /\ free \in Int /\ size <= range.max /\ range.max \in Nat
  BY Below
<1>2. CASE size <= range.min
  <2>. DEFINE a == <<"allocate", "ask">>
  <2>1. Becomes(f, a) /\ size' = size /\ free' = free + 1
    BY <1>2 DEF Replace, OneMoreFree
  <2>2. a \in Seq(Step) /\ Flow(a) /\ a # <<>> /\ a[1] = "allocate"
    <3>1. "allocate" \in Step \ Askers /\ "ask" \in Later
      BY DEF Step, Askers, Later
    <3>. QED BY <3>1, Two
  <2>. HIDE DEF a
  <2>3. Goes(f, a)
    BY <1>0, <2>1, <2>2, GoesOn
  <2>4. Has(a, Holders) = 0 /\ Has(a, Bringers) = 1 /\ Has(a, Askers) = 0
        /\ a[1] \notin HandSteps \cup {"close"}
    BY <2>2 DEF Has, Holders, Bringers, Askers, HandSteps
  <2>5. /\ size' = size - 1 + Has(a, Holders) + Has(a, Bringers)
        /\ free' = free + Has(a, Bringers) - Has(a, Askers)
        /\ size' \in Int /\ free' \in Int /\ size' <= range.max
    BY <1>1, <2>1, <2>4
  <2>. QED BY <1>0, <2>3, <2>4, <2>5, Drops
<1>3. CASE ~(size <= range.min)
  <2>1. Becomes(f, <<>>) /\ size' = size - 1 /\ free' = free
    BY <1>3 DEF Replace
  <2>2. <<>> \in Seq(Step) /\ Flow(<<>>)
    BY Lists, Shapes
  <2>3. Goes(f, <<>>)
    BY <1>0, <2>1, <2>2, GoesOn
  <2>4. Has(<<>>, Holders) = 0 /\ Has(<<>>, Bringers) = 0 /\ Has(<<>>, Askers) = 0
    BY DEF Has
  <2>5. /\ size' = size - 1 + Has(<<>>, Holders) + Has(<<>>, Bringers)
        /\ free' = free + Has(<<>>, Bringers) - Has(<<>>, Askers)
        /\ size' \in Int /\ free' \in Int /\ size' <= range.max
    BY <1>1, <2>1, <2>4
  <2>. QED BY <1>0, <2>3, <2>5, Drops
<1>. QED BY <1>2, <1>3

(* shrink and getAndShutdown let it go.                                     *)
LEMMA DiscardStep == ASSUME PoolInv, NEW f \in Fiber, Discard(f) PROVE PoolInv'
<1>0. /\ At(f, "discard") /\ "discard" \notin Askers /\ "discard" # "leave"
      /\ range' = range /\ items' = items /\ Finalizes(f)
      /\ takers' = takers /\ queueDown' = queueDown
      /\ Becomes(f, <<>>) /\ size' = size - 1 /\ free' = free
  BY DEF Discard, Askers, queue
<1>1. size \in Int /\ free \in Int /\ size <= range.max /\ range.max \in Nat
  BY Below
<1>2. <<>> \in Seq(Step) /\ Flow(<<>>) /\ \A k \in DOMAIN <<>> : <<>>[k] \in ClosingSteps
  BY Lists, Shapes
<1>3. Goes(f, <<>>)
  BY <1>0, <1>2, GoesOn
<1>4. Has(<<>>, Holders) = 0 /\ Has(<<>>, Bringers) = 0 /\ Has(<<>>, Askers) = 0
  BY DEF Has
<1>5. /\ size' = size - 1 + Has(<<>>, Holders) + Has(<<>>, Bringers)
      /\ free' = free + Has(<<>>, Bringers) - Has(<<>>, Askers)
      /\ size' \in Int /\ free' \in Int /\ size' <= range.max
  BY <1>0, <1>1, <1>4
<1>. QED BY <1>0, <1>3, <1>5, Drops

-----------------------------------------------------------------------------
(* A pool that counts no more.                                              *)

(* What anybody does then leaves the rest as it is.                          *)
LEMMA Calms ==
  ASSUME PoolInv, size < 0, size' = size, range' = range,
         queueDown', queueDown' \in BOOLEAN, UNCHANGED <<free, items, open, hand>>,
         takers' \in Seq(Fiber), \A k \in DOMAIN takers' : takers'[k] \in InStep(Askers)',
         \A j, k \in DOMAIN takers' : takers'[j] = takers'[k] => j = k,
         todo' \in [Fiber -> Seq(Step)],
         \A g \in Fiber : \/ todo'[g] = todo[g]
                          \/ /\ \A k \in DOMAIN todo'[g] : todo'[g][k] \in Later
                             /\ g = Closer => \A k \in DOMAIN todo'[g] :
                                                todo'[g][k] \in ClosingSteps
  PROVE  PoolInv'
<1>0. PoolType /\ FlowInv /\ TakerInv /\ CountInv /\ ShutInv /\ CloserInv /\ OwnInv
  BY DEF PoolInv
<1>1. ASSUME NEW g \in Fiber, \A k \in DOMAIN todo'[g] : todo'[g][k] \in Later
      PROVE  Flow(todo'[g]) /\ (todo'[g] # <<>> => todo'[g][1] \in Later)
  <2>. DEFINE s == todo'[g]
  <2>1. s \in Seq(Step)
    OBVIOUS
  <2>2. Len(s) \in Nat /\ DOMAIN s = 1..Len(s) /\ (s # <<>> => Len(s) >= 1)
    BY <2>1, LenProperties, EmptySeq
  <2>3. \A k \in 1..Len(s) : s[k] \in Later
    BY <1>1, <2>2
  <2>. HIDE DEF s
  <2>4. s # <<>> => s[1] \in Later
    BY <2>2, <2>3
  <2>5. Plain(s)
    BY <2>2, <2>3, <2>4 DEF Plain, Later, Askers
  <2>. QED BY <2>4, <2>5 DEF s, Flow
<1>2. FlowInv'
  BY <1>0, <1>1 DEF FlowInv
<1>3. \A S : S \cap Later = {} => InStep(S)' \subseteq InStep(S)
  <2>. SUFFICES ASSUME NEW S, S \cap Later = {} PROVE InStep(S)' \subseteq InStep(S)
    OBVIOUS
  <2>1. InStep(S) = Where(todo, S) /\ InStep(S)' = Where(todo', S)
    BY <1>0, StepWhere DEF PoolType
  <2>2. \A g \in Fiber : todo'[g] # <<>> /\ todo'[g][1] \in S => todo'[g] = todo[g]
    BY <1>1
  <2>. QED BY <2>1, <2>2 DEF Where
<1>4. /\ Holders \cap Later = {} /\ Bringers \cap Later = {} /\ Askers \cap Later = {}
      /\ HandSteps \cap Later = {}
  BY DEF Holders, Bringers, Askers, HandSteps, Later
<1>5. InStep(Holders) = {} /\ InStep(Bringers) = {} /\ items = <<>>
  BY <1>0 DEF ShutInv
<1>6. InStep(Holders)' = {} /\ InStep(Bringers)' = {} /\ InStep(Askers)' \subseteq InStep(Askers)
  BY <1>3, <1>4, <1>5
<1>7. Holding = {} /\ Holding' = {}
  <2>1. Holding = InStep(HandSteps) /\ Holding' = InStep(HandSteps)'
    BY DEF Holding, HandSteps
  <2>2. InStep(HandSteps) \subseteq InStep(Holders) \cup InStep(Bringers)
    BY DEF InStep, HandSteps, Holders, Bringers
  <2>. QED BY <1>3, <1>4, <1>5, <2>1, <2>2
<1>8. CountInv'
  <2>1. \A S, T : IsFiniteSet(T) /\ S \subseteq T => IsFiniteSet(S)
    BY FS_Subset
  <2>2. Finite(Holders)' /\ Finite(Bringers)' /\ Finite(Askers)'
    BY <1>0, <1>5, <1>6, <2>1 DEF CountInv, Finite
  <2>3. ~(size' >= 0) /\ size' <= range'.max
    BY <1>0 DEF CountInv, PoolType
  <2>. QED BY <2>2, <2>3 DEF CountInv
<1>9. ShutInv'
  BY <1>5, <1>6 DEF ShutInv
<1>10. CloserInv'
  <2>1. Closer \in Fiber
    BY DEF Fiber
  <2>2. \A k \in DOMAIN todo'[Closer] : todo'[Closer][k] \in ClosingSteps
    BY <1>0, <2>1 DEF CloserInv
  <2>. QED BY <2>2 DEF CloserInv
<1>11. OwnInv'
  BY <1>0, <1>7, OwnSame
<1>12. TakerInv' /\ PoolType'
  BY <1>0 DEF TakerInv, PoolType
<1>. QED BY <1>2, <1>8, <1>9, <1>10, <1>11, <1>12 DEF PoolInv

(* What an interrupted take leaves to do only follows.                       *)
LEMMA AfterWait ==
  ASSUME NEW s \in Seq(Step), s # <<>>, Flow(s), s[1] \in Askers
  PROVE  /\ AfterInterrupt(s) \in Seq(Step)
         /\ \A k \in DOMAIN AfterInterrupt(s) : AfterInterrupt(s)[k] \in Later
         /\ \A S : (\A k \in DOMAIN s : s[k] \in S) =>
                     \A k \in DOMAIN AfterInterrupt(s) : AfterInterrupt(s)[k] \in S
<1>1. CASE AfterInterrupt(s) = <<>>
  BY <1>1, Lists
<1>2. CASE AfterInterrupt(s) = SubSeq(s, 4, Len(s))
  <2>. DEFINE t == SubSeq(s, 4, Len(s))
              n == Len(s)
  <2>1. /\ n \in Nat /\ n >= 2 /\ DOMAIN s = 1..n
        /\ \A k \in 1..n : s[k] \in Step
        /\ \A k \in 3..n : s[k] \in Later
    BY LenProperties, ElementOfSeq DEF Flow, Plain, Taking
  <2>2. /\ t \in Seq(Step) /\ Len(t) = IF 4 <= n THEN n - 4 + 1 ELSE 0
        /\ \A k \in 1..(n - 4 + 1) : t[k] = s[4 + k - 1]
    <3>. HIDE DEF n
    <3>1. \A k \in 4..n : s[k] \in Step
      BY <2>1
    <3>2. 4 \in Int /\ n \in Int
      BY <2>1
    <3>. QED BY <3>1, <3>2, SubSeqProperties DEF n
  <2>3. DOMAIN t = 1..Len(t)
    BY <2>2, LenProperties
  <2>. HIDE DEF t, n
  <2>4. \A k \in DOMAIN t : 4 + k - 1 \in 3..n /\ 4 + k - 1 \in 1..n /\ t[k] = s[4 + k - 1]
    BY <2>1, <2>2, <2>3
  <2>. QED BY <1>2, <2>1, <2>2, <2>4 DEF t, n
<1>. QED BY <1>1, <1>2 DEF AfterInterrupt

(* queue.shutdown.                                                          *)
LEMMA CloseStep == ASSUME PoolInv, NEW f \in Fiber, Close(f) PROVE PoolInv'
<1>0. PoolType /\ FlowInv /\ TakerInv /\ ShutInv /\ CloserInv
  BY DEF PoolInv
<1>1. /\ At(f, "close") /\ queueDown' = TRUE /\ takers' = <<>>
      /\ todo' = [g \in Fiber |-> IF g = f THEN Tail(todo[f])
                                  ELSE IF \E k \in DOMAIN takers : takers[k] = g
                                    THEN AfterInterrupt(todo[g]) ELSE todo[g]]
      /\ size' = size /\ range' = range /\ UNCHANGED <<free, items, open, hand>>
  BY DEF Close, state
<1>2. size < 0
  <2>1. f \in InStep({"close"})
    BY <1>1 DEF At, InStep
  <2>. QED BY <1>0, <2>1 DEF ShutInv
<1>3. takers' \in Seq(Fiber) /\ DOMAIN takers' = {}
  BY <1>1, EmptySeq
<1>4. /\ Tail(todo[f]) \in Seq(Step)
      /\ \A k \in DOMAIN Tail(todo[f]) : Tail(todo[f])[k] \in Later
      /\ f = Closer => \A k \in DOMAIN Tail(todo[f]) : Tail(todo[f])[k] \in ClosingSteps
  <2>. DEFINE s == todo[f]
  <2>1. s \in Seq(Step) /\ s # <<>> /\ s[1] = "close" /\ Flow(s)
    BY <1>0, <1>1, AtStep DEF FlowInv
  <2>2. s[1] \notin Askers
    BY <2>1 DEF Askers
  <2>3. Tail(s) \in Seq(Step) /\ \A k \in DOMAIN Tail(s) : Tail(s)[k] \in Later
    BY <2>1, <2>2, FlowPops, Popped
  <2>4. /\ DOMAIN Tail(s) = 1..(Len(s) - 1) /\ DOMAIN s = 1..Len(s) /\ Len(s) \in Nat
        /\ \A k \in 1..(Len(s) - 1) : Tail(s)[k] = s[k + 1]
    BY <2>1, Popped, LenProperties
  <2>5. \A k \in DOMAIN Tail(s) : k + 1 \in DOMAIN s /\ Tail(s)[k] = s[k + 1]
    BY <2>4
  <2>6. f = Closer => \A k \in DOMAIN Tail(s) : Tail(s)[k] \in ClosingSteps
    BY <1>0, <2>5 DEF CloserInv
  <2>. QED BY <2>3, <2>6
<1>5. ASSUME NEW g \in Fiber, NEW k \in DOMAIN takers, takers[k] = g
      PROVE  /\ AfterInterrupt(todo[g]) \in Seq(Step)
             /\ \A j \in DOMAIN AfterInterrupt(todo[g]) : AfterInterrupt(todo[g])[j] \in Later
             /\ g = Closer => \A j \in DOMAIN AfterInterrupt(todo[g]) :
                                AfterInterrupt(todo[g])[j] \in ClosingSteps
  <2>1. todo[g] \in Seq(Step) /\ todo[g] # <<>> /\ Head(todo[g]) \in Askers /\ Flow(todo[g])
    BY <1>0, <1>5 DEF TakerInv, InStep, PoolType, FlowInv
  <2>2. todo[g][1] \in Askers
    BY <2>1, Popped
  <2>. QED BY <1>0, <2>1, <2>2, AfterWait DEF CloserInv
<1>6. ASSUME NEW g \in Fiber
      PROVE  /\ todo'[g] \in Seq(Step)
             /\ \/ todo'[g] = todo[g]
                \/ /\ \A k \in DOMAIN todo'[g] : todo'[g][k] \in Later
                   /\ g = Closer => \A k \in DOMAIN todo'[g] : todo'[g][k] \in ClosingSteps
  <2>1. CASE g = f
    BY <1>1, <1>4, <2>1
  <2>2. CASE g # f /\ \E k \in DOMAIN takers : takers[k] = g
    <3>1. todo'[g] = AfterInterrupt(todo[g])
      BY <1>1, <2>2
    <3>. QED BY <1>5, <2>2, <3>1
  <2>3. CASE g # f /\ ~(\E k \in DOMAIN takers : takers[k] = g)
    <3>1. todo'[g] = todo[g]
      BY <1>1, <2>3
    <3>. QED BY <1>0, <3>1 DEF PoolType
  <2>. QED BY <2>1, <2>2, <2>3
<1>7. todo' \in [Fiber -> Seq(Step)]
  BY <1>1, <1>6
<1>. QED BY <1>1, <1>2, <1>3, <1>6, <1>7, Calms

(* awaitShutdown ends.                                                      *)
LEMMA LeaveStep == ASSUME PoolInv, Leave PROVE PoolInv'
<1>0. PoolType /\ TakerInv /\ ShutInv
  BY DEF PoolInv
<1>1. /\ At(Closer, "leave") /\ queueDown /\ queueDown' = queueDown
      /\ Starter \notin InStep(Step \ {"seed"})
      /\ todo' = [todo EXCEPT ![Starter] = <<>>, ![Closer] = <<>>]
      /\ size' = size /\ range' = range /\ takers' = takers
      /\ UNCHANGED <<free, items, open, hand>>
  BY DEF Leave, state, queue
<1>2. size < 0
  BY <1>0, <1>1 DEF ShutInv
<1>3. Closer \in Fiber /\ Starter \in Fiber
  BY DEF Fiber
<1>4. \A k \in DOMAIN takers : takers[k] # Closer /\ takers[k] # Starter
  <2>1. InStep(Askers) \subseteq InStep(Step \ {"seed"})
    BY DEF InStep, Askers, Step
  <2>. QED BY <1>0, <1>1, <2>1 DEF TakerInv, At
<1>5. /\ todo' \in [Fiber -> Seq(Step)]
      /\ \A g \in Fiber : \/ todo'[g] = todo[g] /\ g # Closer /\ g # Starter
                          \/ todo'[g] = <<>>
  <2>1. <<>> \in Seq(Step)
    BY EmptySeq
  <2>. QED BY <1>0, <1>1, <1>3, <2>1 DEF PoolType
<1>6. \A g \in Fiber : \/ todo'[g] = todo[g]
                       \/ /\ \A k \in DOMAIN todo'[g] : todo'[g][k] \in Later
                          /\ g = Closer => \A k \in DOMAIN todo'[g] : todo'[g][k] \in ClosingSteps
  BY <1>5, Lists
<1>7. \A k \in DOMAIN takers' : takers'[k] \in InStep(Askers)'
  <2>1. \A k \in DOMAIN takers : todo'[takers[k]] = todo[takers[k]] /\ takers[k] \in InStep(Askers)
    BY <1>0, <1>1, <1>3, <1>4 DEF TakerInv, InStep, PoolType
  <2>. QED BY <1>1, <2>1 DEF InStep
<1>. QED BY <1>0, <1>1, <1>2, <1>5, <1>6, <1>7, Calms DEF TakerInv, PoolType

(* Who would take an attempt waits for one.                                  *)
LEMMA Waits ==
  ASSUME PoolInv, NEW f \in Fiber, NEW x, x \in Askers, At(f, x),
         takers' = Append(takers, f), UNCHANGED <<range, state, queueDown, items, todo, hand, open>>
  PROVE  PoolInv'
<1>0. TakerInv
  BY DEF PoolInv
<1>1. f \in InStep(Askers) /\ \A k \in DOMAIN takers : takers[k] # f
  BY DEF At, InStep
<1>2. InStep(Askers)' = InStep(Askers)
  BY DEF InStep
<1>. DEFINE n == Len(takers)
<1>3. /\ takers' \in Seq(Fiber) /\ n \in Nat /\ DOMAIN takers = 1..n /\ DOMAIN takers' = 1..(n + 1)
      /\ \A k \in 1..n : takers'[k] = takers[k]
      /\ takers'[n + 1] = f
  BY <1>0, AppendProperties, LenProperties DEF TakerInv
<1>. HIDE DEF n
<1>4. \A k \in DOMAIN takers' : (k \in DOMAIN takers /\ takers'[k] = takers[k])
                                \/ (k = n + 1 /\ takers'[k] = f)
  BY <1>3
<1>5. TakerInv'
  BY <1>0, <1>1, <1>2, <1>3, <1>4 DEF TakerInv
<1>6. PoolType' /\ FlowInv' /\ CountInv' /\ ShutInv' /\ CloserInv' /\ OwnInv'
  BY DEF PoolInv, PoolType, FlowInv, CountInv, ShutInv, CloserInv, OwnInv,
         Finite, Count, Holding, InStep, state
<1>. QED BY <1>5, <1>6 DEF PoolInv

(* The oldest attempt is taken out of the queue.                             *)
LEMMA Pops ==
  ASSUME PoolInv, NEW f \in Fiber, NEW x, x \in Askers, At(f, x), ~queueDown,
         items # <<>>, hand' = [hand EXCEPT ![f] = Head(items)], items' = Tail(items),
         Becomes(f, <<>>), UNCHANGED <<range, state, takers, queueDown, open>>
  PROVE  PoolInv'
<1>0. PoolType /\ FlowInv /\ CountInv /\ ShutInv /\ CloserInv /\ OwnInv
  BY DEF PoolInv
<1>. DEFINE s == todo[f]
            t == Tail(s)
            a == <<t[1]>>
<1>1. /\ s \in Seq(Step) /\ s # <<>> /\ s[1] = x /\ Flow(s)
      /\ \A k \in DOMAIN takers : takers[k] # f
  BY <1>0, AtStep DEF FlowInv
<1>2. Plain(t) /\ t # <<>> /\ t[1] \in {"inspect", "discard"} /\ t \in Seq(Step)
  BY <1>1, FlowPops, Popped
<1>3. <<>> \o t = t
  BY <1>2, ConcatEmptySeq
<1>4. todo' = [todo EXCEPT ![f] = t]
  BY <1>3 DEF Becomes
<1>5. CloserInv'
  <2>1. <<>> \in Seq(Step) /\ DOMAIN <<>> = {}
    BY Lists
  <2>2. todo' = [todo EXCEPT ![f] = <<>> \o Tail(@)]
    BY DEF Becomes
  <2>3. todo[f][1] # "leave"
    BY <1>1 DEF Askers
  <2>. QED BY <1>0, <1>1, <2>1, <2>2, <2>3, CloserGoes
<1>6. a # <<>> /\ a[1] = t[1]
  OBVIOUS
<1>. HIDE DEF a
<1>7. Goes(f, a)
  <2>1. Flow(t) /\ (a # <<>> => t # <<>> /\ t[1] = a[1]) /\ takers' = takers
    BY <1>2, <1>6 DEF Flow
  <2>. HIDE DEF t
  <2>. QED BY <1>1, <1>2, <1>4, <1>5, <1>6, <2>1, GoesTo
<1>. HIDE DEF s, t
<1>8. PoolType' /\ FlowInv' /\ TakerInv' /\ CloserInv'
  <2>1. Head(items) \in Item \cup {Failed} /\ Tail(items) \in Seq(Item \cup {Failed})
    BY <1>0, Popped DEF PoolType
  <2>2. todo' \in [Fiber -> Seq(Step)]
    BY <1>7 DEF Goes
  <2>3. PoolType'
    BY <1>0, <2>1, <2>2 DEF PoolType, state
  <2>. QED BY <1>7, <2>3 DEF Goes
<1>9. CountInv' /\ ShutInv'
  <2>1. /\ Has(s, Holders) = 0 /\ Has(s, Bringers) = 0 /\ Has(s, Askers) = 1
        /\ Has(a, Holders) = 1 /\ Has(a, Bringers) = 0 /\ Has(a, Askers) = 0
    BY <1>1, <1>2, <1>6 DEF Has, Holders, Bringers, Askers
  <2>2. /\ size \in Int /\ free \in Int /\ size >= 0 /\ size <= range.max
        /\ size' = size /\ free' = free /\ range' = range /\ queueDown' = queueDown
    BY <1>0, Below DEF state
  <2>3. /\ items \in Seq(Item \cup {Failed}) /\ items' \in Seq(Item \cup {Failed})
        /\ Len(items') = Len(items) + (-1) /\ -1 \in Int
    <3>1. Len(items') = Len(items) - 1 /\ Len(items) \in Nat
      BY <1>0, Popped DEF PoolType
    <3>. QED BY <1>0, <1>8, <3>1 DEF PoolType
  <2>4. /\ size' = size + (-1) - Has(s, Holders) + Has(a, Holders)
                               - Has(s, Bringers) + Has(a, Bringers)
        /\ free' = free + (-1) - Has(s, Bringers) + Has(a, Bringers)
                               + Has(s, Askers) - Has(a, Askers)
        /\ size' \in Int /\ size' <= range.max
    BY <2>1, <2>2
  <2>5. a # <<>> => a[1] # "close" \/ size' < 0
    BY <1>2, <1>6
  <2>. QED BY <1>7, <2>2, <2>3, <2>4, <2>5, Accounts DEF s
<1>10. OwnInv'
  <2>1. Holding = InStep(HandSteps) /\ Holding' = InStep(HandSteps)' /\ HandSteps \cap Later = {}
        /\ x \notin HandSteps /\ a[1] \in HandSteps
    BY <1>2, <1>6 DEF Holding, HandSteps, Later, Askers
  <2>2. Holding' = Holding \cup {f}
    BY <1>0, <1>6, <1>7, <2>1, GoesWhere
  <2>3. f \notin Holding
    BY <2>1 DEF InStep, At
  <2>. QED BY <1>0, <2>2, <2>3, OwnTaken
<1>. QED BY <1>8, <1>9, <1>10 DEF PoolInv

(* A take finds the queue shut down, an attempt in it, or nothing.           *)
LEMMA TakeStep == ASSUME PoolInv, NEW f \in Fiber, Take(f) PROVE PoolInv'
<1>0. PoolType /\ FlowInv /\ TakerInv /\ ShutInv /\ CloserInv
  BY DEF PoolInv
<1>1. PICK x \in Askers : At(f, x)
  BY DEF Take, Askers
<1>2. UNCHANGED <<range, state, queueDown, open>>
  BY DEF Take
<1>3. CASE queueDown
  <2>1. todo' = [todo EXCEPT ![f] = AfterInterrupt(@)] /\ UNCHANGED <<items, takers, hand>>
    BY <1>3 DEF Take
  <2>2. size < 0
    BY <1>0, <1>3 DEF ShutInv
  <2>3. /\ todo[f] \in Seq(Step) /\ todo[f] # <<>> /\ todo[f][1] \in Askers /\ Flow(todo[f])
        /\ \A k \in DOMAIN takers : takers[k] # f
    BY <1>0, <1>1, AtStep DEF FlowInv
  <2>4. /\ AfterInterrupt(todo[f]) \in Seq(Step)
        /\ \A k \in DOMAIN AfterInterrupt(todo[f]) : AfterInterrupt(todo[f])[k] \in Later
        /\ f = Closer => \A k \in DOMAIN AfterInterrupt(todo[f]) :
                           AfterInterrupt(todo[f])[k] \in ClosingSteps
    BY <1>0, <2>3, AfterWait DEF CloserInv
  <2>5. /\ todo' \in [Fiber -> Seq(Step)] /\ todo'[f] = AfterInterrupt(todo[f])
        /\ \A g \in Fiber : g # f => todo'[g] = todo[g]
    BY <1>0, <2>1, <2>4 DEF PoolType
  <2>6. \A k \in DOMAIN takers' : takers'[k] \in InStep(Askers)'
    <3>1. \A k \in DOMAIN takers : /\ takers[k] \in InStep(Askers)
                                   /\ todo'[takers[k]] = todo[takers[k]]
      BY <1>0, <2>3, <2>5 DEF TakerInv, InStep
    <3>. QED BY <2>1, <3>1 DEF InStep
  <2>7. \A g \in Fiber : \/ todo'[g] = todo[g]
                         \/ /\ \A k \in DOMAIN todo'[g] : todo'[g][k] \in Later
                            /\ g = Closer => \A k \in DOMAIN todo'[g] :
                                               todo'[g][k] \in ClosingSteps
    BY <2>4, <2>5
  <2>8. takers' \in Seq(Fiber) /\ \A j, k \in DOMAIN takers' : takers'[j] = takers'[k] => j = k
    BY <1>0, <2>1 DEF TakerInv
  <2>9. size' = size /\ range' = range /\ queueDown' /\ queueDown' \in BOOLEAN
        /\ UNCHANGED <<free, items, open, hand>>
    BY <1>0, <1>2, <1>3, <2>1 DEF state, PoolType
  <2>. QED BY <2>2, <2>5, <2>6, <2>7, <2>8, <2>9, Calms
<1>4. CASE ~queueDown /\ items # <<>>
  <2>1. hand' = [hand EXCEPT ![f] = Head(items)] /\ items' = Tail(items) /\ Becomes(f, <<>>)
        /\ takers' = takers
    BY <1>4 DEF Take
  <2>. QED BY <1>1, <1>2, <1>4, <2>1, Pops
<1>5. CASE ~queueDown /\ items = <<>>
  <2>1. takers' = Append(takers, f) /\ UNCHANGED <<items, todo, hand>>
    BY <1>5 DEF Take
  <2>. QED BY <1>1, <1>2, <2>1, Waits
<1>. QED BY <1>3, <1>4, <1>5

-----------------------------------------------------------------------------
(* Bringing an attempt.                                                     *)

(* Each open item has its place in the queue or in a hand.                   *)
LEMMA OpenBound ==
  ASSUME items \in Seq(Item \cup {Failed}), OwnInv, IsFiniteSet(Holding)
  PROVE  /\ IsFiniteSet(open) /\ Cardinality(open) \in Nat
         /\ Cardinality(Holding) \in Nat /\ Len(items) \in Nat
         /\ Cardinality(open) <= Len(items) + Cardinality(Holding)
<1>. DEFINE D == DOMAIN items
            Q == {items[k] : k \in D}
            H == {hand[g] : g \in Holding}
            q == [k \in D |-> items[k]]
            h == [g \in Holding |-> hand[g]]
<1>1. /\ Len(items) \in Nat /\ D = 1..Len(items)
      /\ IsFiniteSet(D) /\ Cardinality(D) = Len(items)
  <2>1. Len(items) \in Nat /\ D = 1..Len(items)
    BY LenProperties
  <2>2. IsFiniteSet(1..Len(items))
        /\ Cardinality(1..Len(items)) = IF 1 > Len(items) THEN 0 ELSE Len(items) - 1 + 1
    BY <2>1, FS_Interval
  <2>. QED BY <2>1, <2>2
<1>2. q \in Surjection(D, Q) /\ h \in Surjection(Holding, H)
  BY DEF Surjection
<1>3. open \subseteq Q \cup H
  BY DEF OwnInv
<1>. HIDE DEF D, Q, H, q, h
<1>4. IsFiniteSet(Q) /\ Cardinality(Q) <= Cardinality(D)
  BY <1>1, <1>2, FS_Surjection
<1>5. IsFiniteSet(H) /\ Cardinality(H) <= Cardinality(Holding)
  BY <1>2, FS_Surjection
<1>6. IsFiniteSet(Q \cup H)
      /\ Cardinality(Q \cup H) = Cardinality(Q) + Cardinality(H) - Cardinality(Q \cap H)
  BY <1>4, <1>5, FS_Union
<1>7. IsFiniteSet(Q \cap H)
  BY <1>4, FS_Intersection
<1>8. IsFiniteSet(open) /\ Cardinality(open) <= Cardinality(Q \cup H)
  BY <1>3, <1>6, FS_Subset
<1>9. \A S : IsFiniteSet(S) => Cardinality(S) \in Nat
  BY FS_CardinalityType
<1>10. /\ Cardinality(Q) \in Nat /\ Cardinality(H) \in Nat /\ Cardinality(Q \cap H) \in Nat
       /\ Cardinality(open) \in Nat /\ Cardinality(Holding) \in Nat
       /\ Cardinality(Q \cup H) \in Nat
  BY <1>4, <1>5, <1>6, <1>7, <1>8, <1>9
<1>. QED BY <1>1, <1>4, <1>5, <1>6, <1>8, <1>10

(* Those who have an attempt in their hand are counted.                      *)
LEMMA HoldingBound ==
  ASSUME PoolInv, NEW F, F \subseteq InStep(Bringers), F \cap Holding = {}
  PROVE  /\ IsFiniteSet(Holding) /\ IsFiniteSet(F) /\ Cardinality(F) \in Nat
         /\ Cardinality(Holding) \in Nat /\ Count(Holders) \in Nat /\ Count(Bringers) \in Nat
         /\ Cardinality(Holding) <= Count(Holders) + Count(Bringers) - Cardinality(F)
<1>. DEFINE A == InStep(Holders)
            B == InStep(Bringers)
<1>1. IsFiniteSet(A) /\ IsFiniteSet(B)
  BY DEF PoolInv, CountInv, Finite
<1>2. Holding \subseteq A \cup (B \ F)
  BY DEF Holding, InStep, Holders, Bringers
<1>. HIDE DEF A, B
<1>3. /\ IsFiniteSet(F) /\ F = B \cap F
      /\ IsFiniteSet(B \ F) /\ Cardinality(B \ F) = Cardinality(B) - Cardinality(B \cap F)
  <2>1. IsFiniteSet(F) /\ F = B \cap F
    BY <1>1, FS_Subset DEF B
  <2>. QED BY <1>1, <2>1, FS_Difference
<1>4. IsFiniteSet(A \cup (B \ F)) /\ IsFiniteSet(A \cap (B \ F))
      /\ Cardinality(A \cup (B \ F))
           = Cardinality(A) + Cardinality(B \ F) - Cardinality(A \cap (B \ F))
  BY <1>1, <1>3, FS_Union, FS_Intersection
<1>5. IsFiniteSet(Holding) /\ Cardinality(Holding) <= Cardinality(A \cup (B \ F))
  BY <1>2, <1>4, FS_Subset
<1>6. \A S : IsFiniteSet(S) => Cardinality(S) \in Nat
  BY FS_CardinalityType
<1>7. /\ Cardinality(A) \in Nat /\ Cardinality(B) \in Nat /\ Cardinality(F) \in Nat
      /\ Cardinality(B \ F) \in Nat /\ Cardinality(A \cap (B \ F)) \in Nat
      /\ Cardinality(Holding) \in Nat /\ Cardinality(A \cup (B \ F)) \in Nat
  BY <1>1, <1>3, <1>4, <1>5, <1>6
<1>8. /\ Cardinality(B \ F) = Cardinality(B) - Cardinality(F)
  BY <1>3
<1>9. Cardinality(Holding) <= Cardinality(A) + Cardinality(B) - Cardinality(F)
  BY <1>4, <1>5, <1>7, <1>8
<1>. QED BY <1>3, <1>5, <1>7, <1>9 DEF A, B, Count

(* A creator finds a name that is not in use.                               *)
LEMMA NewItem ==
  ASSUME PoolInv, NEW f \in Fiber, At(f, "allocate")
  PROVE  \E i \in Item : i \notin open
<1>0. PoolType /\ CountInv /\ OwnInv /\ size >= 0
  BY AtSize DEF PoolInv, Bringers
<1>1. {f} \subseteq InStep(Bringers) /\ {f} \cap Holding = {}
  BY DEF At, InStep, Bringers, Holding
<1>2. /\ IsFiniteSet(Holding) /\ Cardinality(Holding) \in Nat
      /\ Count(Holders) \in Nat /\ Count(Bringers) \in Nat
      /\ Cardinality(Holding) <= Count(Holders) + Count(Bringers) - 1
  <2>1. Cardinality({f}) = 1
    BY FS_Singleton
  <2>. QED BY <1>1, <2>1, HoldingBound
<1>3. /\ IsFiniteSet(open) /\ Cardinality(open) \in Nat /\ Len(items) \in Nat
      /\ Cardinality(open) <= Len(items) + Cardinality(Holding)
  BY <1>0, <1>2, OpenBound DEF PoolType
<1>4. size = Len(items) + Count(Holders) + Count(Bringers) /\ size \in Int /\ size <= range.max
      /\ range \in Sizes /\ range.max \in Nat
  BY <1>0, Below DEF CountInv
<1>5. Cardinality(open) < range.max
  <2>. DEFINE n == Len(items)
              a == Count(Holders)
              b == Count(Bringers)
              c == Cardinality(Holding)
              o == Cardinality(open)
              m == range.max
  <2>1. /\ n \in Nat /\ a \in Nat /\ b \in Nat /\ c \in Nat /\ o \in Nat /\ m \in Nat
        /\ o <= n + c /\ c <= a + b - 1 /\ size = n + a + b /\ size <= m
    BY <1>2, <1>3, <1>4
  <2>. HIDE DEF n, a, b, c, o, m
  <2>2. o < m
    BY <2>1
  <2>. QED BY <2>2 DEF o, m
<1>6. SUFFICES ASSUME Item \subseteq open PROVE FALSE
  OBVIOUS
<1>7. Item = open
  BY <1>0, <1>6 DEF PoolType
<1>8. range.max <= Cardinality(open)
  BY <1>3, <1>4, <1>7, ItemAssumption
<1>. QED BY <1>3, <1>4, <1>5, <1>8

(* Who brings an attempt that nobody takes leaves it in the queue.           *)
LEMMA Queues ==
  ASSUME PoolInv, NEW f \in Fiber, NEW y, y \in Bringers, At(f, y),
         NEW x, Brought(f, x), open' \subseteq Item,
         items' = Append(items, x), hand' = [hand EXCEPT ![f] = Failed],
         Becomes(f, <<>>), UNCHANGED <<range, state, takers, queueDown>>
  PROVE  PoolInv'
<1>0. PoolType /\ CountInv /\ OwnInv /\ x \in Item \cup {Failed}
  BY DEF PoolInv, Brought
<1>1. Goes(f, <<>>)
  <2>1. <<>> \in Seq(Step) /\ Flow(<<>>)
    BY Lists, Shapes
  <2>2. y \notin Askers /\ y \notin ClosingSteps
    BY DEF Askers, Bringers, ClosingSteps
  <2>. QED BY <2>1, <2>2, GoesOn
<1>2. /\ items' \in Seq(Item \cup {Failed}) /\ items \in Seq(Item \cup {Failed})
      /\ Len(items') = Len(items) + 1
  BY <1>0, AppendProperties DEF PoolType
<1>3. PoolType' /\ FlowInv' /\ TakerInv' /\ CloserInv'
  <2>1. todo' \in [Fiber -> Seq(Step)]
    BY <1>1 DEF Goes
  <2>2. PoolType'
    BY <1>0, <1>2, <2>1 DEF PoolType, state
  <2>. QED BY <1>1, <2>2 DEF Goes
<1>4. CountInv' /\ ShutInv'
  <2>. DEFINE s == todo[f]
  <2>1. Has(s, Holders) = 0 /\ Has(s, Bringers) = 1 /\ Has(s, Askers) = 0
    BY <1>0, AtStep DEF Has, Holders, Bringers, Askers
  <2>2. Has(<<>>, Holders) = 0 /\ Has(<<>>, Bringers) = 0 /\ Has(<<>>, Askers) = 0
    BY DEF Has
  <2>. HIDE DEF s
  <2>3. /\ size \in Int /\ free \in Int /\ size >= 0 /\ size <= range.max
        /\ size' = size /\ free' = free /\ range' = range /\ queueDown' = queueDown
    BY AtSize, Below DEF state
  <2>4. /\ size' = size + 1 - Has(s, Holders) + Has(<<>>, Holders)
                            - Has(s, Bringers) + Has(<<>>, Bringers)
        /\ free' = free + 1 - Has(s, Bringers) + Has(<<>>, Bringers)
                            + Has(s, Askers) - Has(<<>>, Askers)
        /\ size' \in Int /\ size' <= range.max /\ 1 \in Int
    BY <2>1, <2>2, <2>3
  <2>. QED BY <1>1, <1>2, <2>3, <2>4, Accounts DEF s
<1>5. OwnInv'
  <2>1. Holding = InStep(HandSteps) /\ Holding' = InStep(HandSteps)' /\ HandSteps \cap Later = {}
    BY DEF Holding, HandSteps, Later
  <2>2. Holding' = Holding \ {f}
    BY <1>0, <1>1, <2>1, GoesWhere
  <2>. QED BY <1>0, <2>2, OwnQueued
<1>. QED BY <1>3, <1>4, <1>5 DEF PoolInv

(* What a step leaves of the steps that end a shutdown.                      *)
LEMMA CloserPops ==
  ASSUME PoolType, FlowInv, CloserInv, queueDown' = queueDown,
         todo[Closer] # <<>>, todo[Closer][1] \in Askers, todo'[Closer] = Tail(todo[Closer])
  PROVE  CloserInv'
<1>. DEFINE s == todo[Closer]
            t == Tail(s)
<1>1. s \in Seq(Step) /\ s # <<>> /\ Flow(s) /\ s[1] \in Askers
  BY DEF PoolType, FlowInv, Fiber
<1>2. /\ t \in Seq(Step) /\ Len(t) = Len(s) - 1 /\ Len(s) \in Nat /\ t # <<>>
      /\ \A k \in 1..(Len(s) - 1) : t[k] = s[k + 1]
  BY <1>1, Popped, FlowPops
<1>3. DOMAIN t = 1..Len(t) /\ DOMAIN s = 1..Len(s) /\ Len(t) \in Nat /\ Len(t) # 0
  BY <1>1, <1>2, LenProperties, EmptySeq
<1>4. todo'[Closer] = t /\ CloserInv
  OBVIOUS
<1>5. /\ \A k \in 1..Len(s) : s[k] \in ClosingSteps
      /\ ~queueDown => s[Len(s)] = "leave"
  BY <1>3 DEF CloserInv
<1>. HIDE DEF s, t
<1>6. \A k \in DOMAIN t : t[k] \in ClosingSteps
  <2>. TAKE k \in DOMAIN t
  <2>1. k \in 1..(Len(s) - 1) /\ k + 1 \in 1..Len(s)
    BY <1>2, <1>3
  <2>. QED BY <1>2, <1>5, <2>1
<1>7. t[Len(t)] = s[Len(s)]
  <2>1. Len(t) \in 1..(Len(s) - 1) /\ Len(t) + 1 = Len(s)
    BY <1>2, <1>3
  <2>. QED BY <1>2, <2>1
<1>. QED BY <1>2, <1>4, <1>5, <1>6, <1>7 DEF CloserInv

(* Who brings an attempt hands it to the fiber that has waited longest.      *)
LEMMA Hands ==
  ASSUME PoolInv, NEW f \in Fiber, NEW y, y \in Bringers, At(f, y),
         NEW x, Brought(f, x), open' \subseteq Item, takers # <<>>,
         hand' = [hand EXCEPT ![f] = Failed, ![Head(takers)] = x],
         todo' = [todo EXCEPT ![Head(takers)] = Tail(@), ![f] = Tail(@)],
         takers' = Tail(takers), UNCHANGED <<range, state, items, queueDown>>
  PROVE  PoolInv'
<1>. DEFINE g == takers[1]
            n == Len(takers)
<1>0. /\ PoolType /\ FlowInv /\ TakerInv /\ CountInv /\ ShutInv /\ CloserInv /\ OwnInv
      /\ x \in Item \cup {Failed}
  BY DEF PoolInv, Brought
<1>1. /\ Head(takers) = g /\ n \in Nat /\ n >= 1 /\ DOMAIN takers = 1..n
      /\ takers' \in Seq(Fiber) /\ DOMAIN takers' = 1..(n - 1)
      /\ \A k \in 1..(n - 1) : takers'[k] = takers[k + 1]
  <2>1. takers \in Seq(Fiber)
    BY <1>0 DEF TakerInv
  <2>. QED BY <2>1, Popped, LenProperties
<1>2. 1 \in DOMAIN takers
  BY <1>1
<1>3. /\ g \in Fiber /\ g # f /\ g \in InStep(Askers)
      /\ todo[g] \in Seq(Step) /\ todo[g] # <<>> /\ todo[g][1] \in Askers /\ Flow(todo[g])
      /\ todo[f] \in Seq(Step) /\ todo[f] # <<>> /\ todo[f][1] = y /\ Flow(todo[f])
      /\ \A k \in DOMAIN takers : takers[k] # f
  <2>1. g \in InStep(Askers)
    BY <1>0, <1>2 DEF TakerInv
  <2>2. /\ todo[f] \in Seq(Step) /\ todo[f] # <<>> /\ todo[f][1] = y
        /\ \A k \in DOMAIN takers : takers[k] # f
    BY <1>0, AtStep
  <2>3. g \in Fiber /\ todo[g] # <<>> /\ Head(todo[g]) \in Askers
    BY <2>1 DEF InStep
  <2>4. todo[g] \in Seq(Step)
    BY <1>0, <2>3 DEF PoolType
  <2>5. todo[g][1] \in Askers
    BY <2>3, <2>4, Popped
  <2>6. g # f
    BY <1>2, <2>2
  <2>. QED BY <1>0, <2>1, <2>2, <2>3, <2>4, <2>5, <2>6 DEF FlowInv
<1>. DEFINE p == Tail(todo[g])
            r == Tail(todo[f])
            u == [todo EXCEPT ![g] = p]
<1>4. /\ p \in Seq(Step) /\ Plain(p) /\ p # <<>> /\ p[1] \in {"inspect", "discard"}
      /\ r \in Seq(Step) /\ Plain(r) /\ (r # <<>> => r[1] \in Later)
  <2>1. p \in Seq(Step) /\ Plain(p) /\ p # <<>> /\ p[1] \in {"inspect", "discard"}
    BY <1>3, FlowPops, Popped
  <2>2. y \notin Askers
    BY DEF Askers, Bringers
  <2>3. r \in Seq(Step) /\ Plain(r) /\ (r # <<>> => r[1] \in Later)
    BY <1>3, <2>2, FlowPops, Popped
  <2>. QED BY <2>1, <2>3
<1>5. /\ u \in [Fiber -> Seq(Step)] /\ todo' \in [Fiber -> Seq(Step)]
      /\ u[g] = p /\ u[f] = todo[f] /\ todo'[g] = p /\ todo'[f] = r
      /\ \A j \in Fiber : j # g => u[j] = todo[j]
      /\ \A j \in Fiber : j # f => todo'[j] = u[j]
      /\ \A j \in Fiber : j # f /\ j # g => todo'[j] = todo[j]
  BY <1>0, <1>1, <1>3, <1>4 DEF PoolType
<1>51. hand' = [hand EXCEPT ![f] = Failed, ![g] = x] /\ hand' \in [Fiber -> Item \cup {Failed}]
  BY <1>0, <1>1, <1>3 DEF PoolType
<1>. HIDE DEF g, n, p, r, u
<1>6. ASSUME NEW S, IsFiniteSet(InStep(S))
      PROVE  /\ IsFiniteSet(InStep(S)') /\ Cardinality(InStep(S)) \in Nat
             /\ Cardinality(InStep(S)') = Cardinality(InStep(S)) - Has(todo[g], S) + Has(p, S)
                                                                - Has(todo[f], S) + Has(r, S)
  <2>1. InStep(S) = Where(todo, S) /\ InStep(S)' = Where(todo', S)
    BY <1>0, <1>5, StepWhere DEF PoolType
  <2>2. IsFiniteSet(Where(todo, S))
    BY <1>6, <2>1
  <2>3. Counts(todo, u, todo[g], p, S)
    BY <1>3, <1>5, <2>2, WhereMoves
  <2>4. Counts(u, todo', u[f], r, S)
    <3>1. IsFiniteSet(Where(u, S))
      BY <2>3 DEF Counts
    <3>. QED BY <1>3, <1>5, <3>1, WhereMoves
  <2>. DEFINE W == Where(todo, S)
              V == Where(u, S)
              X == Where(todo', S)
              a == Has(todo[g], S)
              b == Has(p, S)
              c == Has(todo[f], S)
              d == Has(r, S)
  <2>5. /\ IsFiniteSet(X)
        /\ Cardinality(W) \in Nat /\ Cardinality(V) \in Nat /\ Cardinality(X) \in Nat
        /\ Cardinality(V) = Cardinality(W) - a + b
        /\ Cardinality(X) = Cardinality(V) - c + d
    BY <1>5, <2>3, <2>4 DEF Counts
  <2>6. a \in Int /\ b \in Int /\ c \in Int /\ d \in Int
    BY DEF Has
  <2>7. InStep(S) = W /\ InStep(S)' = X
    BY <2>1
  <2>. HIDE DEF W, V, X, a, b, c, d
  <2>8. IsFiniteSet(X) /\ Cardinality(W) \in Nat /\ Cardinality(X) = Cardinality(W) - a + b - c + d
    BY <2>5, <2>6
  <2>. QED BY <2>7, <2>8 DEF a, b, c, d
<1>7. /\ Has(todo[g], Holders) = 0 /\ Has(todo[g], Bringers) = 0 /\ Has(todo[g], Askers) = 1
      /\ Has(p, Holders) = 1 /\ Has(p, Bringers) = 0 /\ Has(p, Askers) = 0
      /\ Has(todo[f], Holders) = 0 /\ Has(todo[f], Bringers) = 1 /\ Has(todo[f], Askers) = 0
      /\ Has(r, Holders) = 0 /\ Has(r, Bringers) = 0 /\ Has(r, Askers) = 0
  <2>1. Has(todo[g], Holders) = 0 /\ Has(todo[g], Bringers) = 0 /\ Has(todo[g], Askers) = 1
    BY <1>3 DEF Has, Holders, Bringers, Askers
  <2>2. Has(p, Holders) = 1 /\ Has(p, Bringers) = 0 /\ Has(p, Askers) = 0
    BY <1>4 DEF Has, Holders, Bringers, Askers
  <2>3. Has(todo[f], Holders) = 0 /\ Has(todo[f], Bringers) = 1 /\ Has(todo[f], Askers) = 0
    BY <1>3 DEF Has, Holders, Bringers, Askers
  <2>4. Has(r, Holders) = 0 /\ Has(r, Bringers) = 0 /\ Has(r, Askers) = 0
    BY <1>4, LaterCountsNothing
  <2>. QED BY <2>1, <2>2, <2>3, <2>4
<1>8. /\ size >= 0 /\ ~queueDown /\ size \in Int /\ free \in Int /\ size' = size /\ free' = free
      /\ size <= range.max /\ range' = range /\ queueDown' = queueDown /\ items' = items
  <2>1. size >= 0 /\ ~queueDown
    BY AtSize
  <2>. QED BY <2>1, Below DEF state
<1>9. CountInv'
  <2>. DEFINE h == Count(Holders)
              b == Count(Bringers)
              k == Count(Askers)
              hh == Count(Holders)'
              bb == Count(Bringers)'
              kk == Count(Askers)'
              l == Len(items)
  <2>1. /\ Finite(Holders)' /\ Finite(Bringers)' /\ Finite(Askers)'
        /\ h \in Nat /\ b \in Nat /\ k \in Nat
        /\ hh = h - 0 + 1 - 0 + 0 /\ bb = b - 0 + 0 - 1 + 0 /\ kk = k - 1 + 0 - 0 + 0
    <3>1. Finite(Holders) /\ Finite(Bringers) /\ Finite(Askers)
      BY <1>0 DEF CountInv
    <3>. QED BY <1>6, <1>7, <3>1 DEF Finite, Count, Holders, Bringers, Askers
  <2>2. size = l + h + b /\ free = l + b - k /\ l \in Nat
    BY <1>0, <1>8, LenProperties DEF CountInv, PoolType
  <2>. HIDE DEF h, b, k, hh, bb, kk, l
  <2>3. size' = l + hh + bb /\ free' = l + bb - kk
    BY <1>8, <2>1, <2>2
  <2>. QED BY <1>8, <2>1, <2>3 DEF CountInv, hh, bb, kk, l
<1>10. ASSUME NEW S, S \cap Later = {}, S \cap (Askers \cup Bringers) = {} \/ S = HandSteps
       PROVE  InStep(S)' = IF p[1] \in S THEN (InStep(S) \ {f}) \cup {g} ELSE InStep(S) \ {f}
  <2>1. InStep(S) = Where(todo, S) /\ InStep(S)' = Where(todo', S)
    BY <1>0, <1>5, StepWhere DEF PoolType
  <2>2. f \notin Where(todo', S)
    BY <1>4, <1>5, <1>10 DEF Where
  <2>3. g \in Where(todo', S) <=> p[1] \in S
    BY <1>3, <1>4, <1>5 DEF Where
  <2>4. g \notin Where(todo, S)
    BY <1>3, <1>10 DEF Where, HandSteps, Askers
  <2>5. \A j \in Fiber : j # f /\ j # g => (j \in Where(todo', S) <=> j \in Where(todo, S))
    BY <1>5 DEF Where
  <2>6. Where(todo', S) \subseteq Fiber /\ Where(todo, S) \subseteq Fiber
    BY DEF Where
  <2>. QED BY <1>3, <2>1, <2>2, <2>3, <2>4, <2>5, <2>6
<1>11. ShutInv'
  <2>1. InStep({"close"}) = {}
    BY <1>0, <1>8 DEF ShutInv
  <2>2. {"close"} \cap Later = {} /\ {"close"} \cap (Askers \cup Bringers) = {}
        /\ p[1] \notin {"close"}
    BY <1>4 DEF Later, Askers, Bringers
  <2>3. InStep({"close"})' = InStep({"close"}) \ {f}
    BY <1>10, <2>2
  <2>. QED BY <1>8, <2>1, <2>3 DEF ShutInv
<1>12. OwnInv'
  <2>1. Holding = InStep(HandSteps) /\ Holding' = InStep(HandSteps)' /\ HandSteps \cap Later = {}
        /\ p[1] \in HandSteps
    BY <1>4 DEF Holding, HandSteps, Later
  <2>2. Holding' = (Holding \ {f}) \cup {g}
    BY <1>10, <2>1
  <2>3. g \notin Holding
    <3>1. Head(todo[g]) \in Askers
      BY <1>3 DEF InStep
    <3>. QED BY <3>1 DEF Holding, InStep, Askers
  <2>. QED BY <1>0, <1>3, <1>8, <1>51, <2>2, <2>3, OwnHanded
<1>13. TakerInv'
  <2>1. ASSUME NEW k \in DOMAIN takers'
        PROVE  k + 1 \in DOMAIN takers /\ k + 1 # 1 /\ takers'[k] = takers[k + 1]
    BY <1>1, <2>1
  <2>2. ASSUME NEW k \in DOMAIN takers' PROVE takers'[k] \in InStep(Askers)'
    <3>1. takers'[k] = takers[k + 1] /\ k + 1 \in DOMAIN takers /\ k + 1 # 1
      BY <2>1
    <3>2. takers[k + 1] \in InStep(Askers) /\ takers[k + 1] # g /\ takers[k + 1] # f
      BY <1>0, <1>2, <1>3, <3>1 DEF TakerInv, g
    <3>. QED BY <1>5, <3>1, <3>2 DEF InStep
  <2>3. ASSUME NEW j \in DOMAIN takers', NEW k \in DOMAIN takers', takers'[j] = takers'[k]
        PROVE  j = k
    <3>1. j + 1 = k + 1
      BY <1>0, <2>1, <2>3 DEF TakerInv
    <3>2. j \in Int /\ k \in Int
      BY <1>1
    <3>. QED BY <3>1, <3>2
  <2>. QED BY <1>1, <2>2, <2>3 DEF TakerInv
<1>14. FlowInv'
  <2>1. ASSUME NEW j \in Fiber PROVE Flow(todo'[j])
    <3>1. Flow(todo'[g]) /\ Flow(todo'[f])
      BY <1>4, <1>5 DEF Flow
    <3>2. j # f /\ j # g => Flow(todo'[j])
      BY <1>0, <1>5 DEF FlowInv
    <3>. QED BY <3>1, <3>2
  <2>. QED BY <2>1 DEF FlowInv
<1>15. CloserInv'
  <2>1. Closer \in Fiber /\ f # Closer
    <3>1. 1 \in DOMAIN todo[f]
      BY <1>3, Popped, LenProperties
    <3>2. y \notin ClosingSteps
      BY DEF Bringers, ClosingSteps
    <3>. QED BY <1>0, <1>3, <3>1, <3>2 DEF CloserInv, Fiber
  <2>2. CASE g = Closer
    BY <1>0, <1>3, <1>5, <1>8, <2>2, CloserPops DEF p
  <2>3. CASE g # Closer
    <3>1. todo'[Closer] = todo[Closer]
      BY <1>5, <2>1, <2>3
    <3>. QED BY <1>0, <1>8, <3>1 DEF CloserInv
  <2>. QED BY <2>2, <2>3
<1>16. PoolType'
  BY <1>0, <1>5, <1>8, <1>51 DEF PoolType
<1>. QED BY <1>9, <1>11, <1>12, <1>13, <1>14, <1>15, <1>16 DEF PoolInv

(* queue.offer, of an attempt that nobody else has.                          *)
LEMMA Gives ==
  ASSUME PoolInv, NEW f \in Fiber, NEW y, y \in Bringers, At(f, y),
         NEW x, Brought(f, x), open' \subseteq Item, Offers(f, x),
         UNCHANGED <<range, state, queueDown>>
  PROVE  PoolInv'
<1>1. ~queueDown
  BY AtSize
<1>2. CASE takers # <<>>
  <2>1. /\ hand' = [hand EXCEPT ![f] = Failed, ![Head(takers)] = x]
        /\ todo' = [todo EXCEPT ![Head(takers)] = Tail(@), ![f] = Tail(@)]
        /\ takers' = Tail(takers) /\ UNCHANGED items
    BY <1>1, <1>2 DEF Offers
  <2>. QED BY <1>2, <2>1, Hands
<1>3. CASE takers = <<>>
  <2>1. /\ items' = Append(items, x) /\ hand' = [hand EXCEPT ![f] = Failed]
        /\ Becomes(f, <<>>) /\ takers' = takers
    BY <1>1, <1>3 DEF Offers
  <2>. QED BY <2>1, Queues
<1>. QED BY <1>2, <1>3

(* An item comes back.                                                      *)
LEMMA OfferStep == ASSUME PoolInv, NEW f \in Fiber, Offer(f) PROVE PoolInv'
<1>1. At(f, "offer") /\ "offer" \in Bringers /\ Offers(f, hand[f]) /\ open' = open
      /\ UNCHANGED <<range, state, queueDown>>
  BY DEF Offer, Bringers
<1>2. PoolType /\ OwnInv
  BY DEF PoolInv
<1>3. f \in Holding
  BY <1>1 DEF Holding, InStep, At
<1>4. Brought(f, hand[f])
  BY <1>1, <1>2, <1>3 DEF Brought, OwnInv, PoolType
<1>5. open' \subseteq Item
  BY <1>1, <1>2 DEF PoolType
<1>. QED BY <1>1, <1>4, <1>5, Gives

(* A creator has made an item, or has failed.                                *)
LEMMA AllocateStep == ASSUME PoolInv, NEW f \in Fiber, Allocate(f) PROVE PoolInv'
<1>1. At(f, "allocate") /\ "allocate" \in Bringers /\ UNCHANGED <<range, state, queueDown>>
  BY DEF Allocate, Bringers
<1>2. PoolType /\ OwnInv
  BY DEF PoolInv
<1>3. f \notin Holding
  BY <1>1 DEF Holding, InStep, At
<1>4. CASE Offers(f, Failed) /\ open' = open
  <2>1. Brought(f, Failed) /\ open' \subseteq Item
    BY <1>2, <1>3, <1>4 DEF Brought, PoolType
  <2>. QED BY <1>1, <1>4, <2>1, Gives
<1>5. CASE \E new \in Item : new \notin open /\ Offers(f, new) /\ open' = open \cup {new}
  <2>1. PICK new \in Item : new \notin open /\ Offers(f, new) /\ open' = open \cup {new}
    BY <1>5
  <2>2. new # Failed
    BY ItemAssumption
  <2>3. Brought(f, new) /\ open' \subseteq Item
    <3>1. \A k \in DOMAIN items : items[k] # new
      BY <1>2, <2>1, <2>2 DEF OwnInv
    <3>2. \A g \in Holding : hand[g] # new
      BY <1>2, <2>1, <2>2 DEF OwnInv
    <3>. QED BY <1>2, <1>3, <2>1, <3>1, <3>2 DEF Brought, PoolType
  <2>. QED BY <1>1, <2>1, <2>3, Gives
<1>6. (Offers(f, Failed) /\ open' = open)
      \/ (\E new \in Item : new \notin open /\ Offers(f, new) /\ open' = open \cup {new})
  <2>. DEFINE new == CHOOSE i \in Item : i \notin open
  <2>1. new \in Item /\ new \notin open
    BY <1>1, NewItem
  <2>. HIDE DEF new
  <2>2. (Offers(f, Failed) /\ open' = open) \/ (Offers(f, new) /\ open' = open \cup {new})
    BY DEF Allocate, new
  <2>. QED BY <2>1, <2>2
<1>. QED BY <1>4, <1>5, <1>6

-----------------------------------------------------------------------------
(* The invariant.                                                           *)

(* The three fibers of the pool are not the same.                           *)
LEMMA ThreeFibers == Starter # Shrinker /\ Starter # Closer /\ Shrinker # Closer
<1>1. \A x, y : IsFiniteSet({x, y}) /\ Cardinality({x, y}) <= 2
  <2>. TAKE x, y
  <2>1. IsFiniteSet({x}) /\ Cardinality({x}) = 1
    BY FS_Singleton
  <2>2. /\ IsFiniteSet({x} \cup {y})
        /\ Cardinality({x} \cup {y}) = IF y \in {x} THEN Cardinality({x}) ELSE Cardinality({x}) + 1
    BY <2>1, FS_AddElement
  <2>3. {x} \cup {y} = {x, y}
    OBVIOUS
  <2>. QED BY <2>1, <2>2, <2>3
<1>2. ASSUME NEW x, NEW y, {Starter, Shrinker, Closer} = {x, y} PROVE FALSE
  <2>1. Cardinality({x, y}) = 3
    BY <1>2, FiberAssumption
  <2>2. Cardinality({x, y}) <= 2
    BY <1>1
  <2>. QED BY <2>1, <2>2
<1>3. ASSUME Starter = Shrinker PROVE FALSE
  <2>1. {Starter, Shrinker, Closer} = {Starter, Closer}
    BY <1>3
  <2>. QED BY <1>2, <2>1
<1>4. ASSUME Starter = Closer PROVE FALSE
  <2>1. {Starter, Shrinker, Closer} = {Starter, Shrinker}
    BY <1>4
  <2>. QED BY <1>2, <2>1
<1>5. ASSUME Shrinker = Closer PROVE FALSE
  <2>1. {Starter, Shrinker, Closer} = {Starter, Shrinker}
    BY <1>5
  <2>. QED BY <1>2, <2>1
<1>. QED BY <1>3, <1>4, <1>5

(* It holds of a new pool.                                                  *)
LEMMA InitInv == Init => PoolInv
<1>. SUFFICES ASSUME Init PROVE PoolInv
  OBVIOUS
<1>0. range \in Sizes /\ range.min \in Nat /\ range.max \in Nat
  BY SizesAssumption DEF Init
<1>. DEFINE seeds == [k \in 1..range.min |-> "seed"]
            First(f) == CASE f = Starter -> seeds
                          [] f = Closer -> <<"shutdown", "leave">>
                          [] f = Shrinker -> <<>>
                          [] f \in Client -> <<"acquire">>
<1>20. /\ todo = [f \in Fiber |-> First(f)] /\ hand = [f \in Fiber |-> Failed]
       /\ size = 0 /\ free = 0 /\ items = <<>> /\ takers = <<>> /\ queueDown = FALSE /\ open = {}
  BY Zenon DEF Init
<1>. HIDE DEF seeds
<1>21. /\ First(Closer) = <<"shutdown", "leave">>
       /\ \A f \in Fiber : \/ First(f) = seeds
                          \/ First(f) = <<"shutdown", "leave">>
                          \/ First(f) = <<>>
                          \/ First(f) = <<"acquire">>
  <2>1. \A f \in Fiber : f = Starter \/ f = Closer \/ f = Shrinker \/ f \in Client
    BY DEF Fiber
  <2>2. Starter \notin Client /\ Closer \notin Client /\ Shrinker \notin Client
    BY FiberAssumption
  <2>. QED BY <2>1, <2>2, ThreeFibers
<1>. HIDE DEF First
<1>1. seeds \in Seq(Step) /\ DOMAIN seeds = 1..Len(seeds)
      /\ \A k \in DOMAIN seeds : seeds[k] = "seed"
  <2>1. seeds \in [1..range.min -> Step]
    BY DEF Step, seeds
  <2>2. seeds \in Seq(Step)
    BY <1>0, <2>1, SeqDef
  <2>. QED BY <2>2, LenProperties DEF seeds
<1>2. ASSUME NEW f \in Fiber
      PROVE  \/ todo[f] = seeds
             \/ todo[f] = <<"shutdown", "leave">>
             \/ todo[f] = <<>>
             \/ todo[f] = <<"acquire">>
  BY <1>20, <1>21
<1>3. todo[Closer] = <<"shutdown", "leave">>
  BY <1>20, <1>21 DEF Fiber
<1>4. /\ <<"shutdown", "leave">> \in Seq(Step) /\ Flow(<<"shutdown", "leave">>)
      /\ <<"shutdown", "leave">>[1] = "shutdown" /\ <<"shutdown", "leave">>[2] = "leave"
      /\ DOMAIN <<"shutdown", "leave">> = {1, 2} /\ Len(<<"shutdown", "leave">>) = 2
      /\ <<"shutdown", "leave">> # <<>>
  <2>1. "shutdown" \in Step \ Askers /\ "leave" \in Later /\ "leave" \in Step
    BY DEF Step, Askers, Later
  <2>. QED BY <2>1, Two, Lists
<1>5. <<"acquire">> \in Seq(Step) /\ Flow(<<"acquire">>) /\ <<"acquire">>[1] = "acquire"
  <2>1. "acquire" \in Step \ Askers
    BY DEF Step, Askers
  <2>. QED BY <2>1, One
<1>6. <<>> \in Seq(Step) /\ Flow(<<>>)
  BY Lists, Shapes
<1>7. Flow(seeds) /\ (seeds # <<>> => seeds[1] = "seed")
  <2>1. Len(seeds) \in Nat /\ (seeds # <<>> => Len(seeds) >= 1)
    BY <1>1, LenProperties, EmptySeq
  <2>2. \A k \in 2..Len(seeds) : seeds[k] \in Later
    BY <1>1, <2>1 DEF Later
  <2>3. seeds # <<>> => seeds[1] = "seed"
    BY <1>1, <2>1
  <2>. QED BY <2>2, <2>3 DEF Flow, Plain, Askers
<1>8. ASSUME NEW f \in Fiber
      PROVE  /\ todo[f] \in Seq(Step) /\ Flow(todo[f])
             /\ todo[f] # <<>> => todo[f][1] \in {"seed", "shutdown", "acquire"}
  <2>1. CASE todo[f] = seeds
    BY <1>1, <1>7, <2>1
  <2>2. CASE todo[f] = <<"shutdown", "leave">>
    BY <1>4, <2>2
  <2>3. CASE todo[f] = <<>>
    BY <1>6, <2>3
  <2>4. CASE todo[f] = <<"acquire">>
    BY <1>5, <2>4
  <2>. QED BY <1>2, <2>1, <2>2, <2>3, <2>4
<1>9. PoolType
  <2>1. todo \in [Fiber -> Seq(Step)]
    <3>1. \A f \in Fiber : First(f) \in Seq(Step)
      BY <1>8, <1>20
    <3>. QED BY <1>20, <3>1
  <2>2. hand \in [Fiber -> Item \cup {Failed}]
    BY <1>20
  <2>3. items \in Seq(Item \cup {Failed})
    BY <1>20, EmptySeq
  <2>4. size \in Int /\ free \in Int /\ queueDown \in BOOLEAN /\ open \subseteq Item
    <3>1. size = 0 /\ free = 0 /\ queueDown = FALSE /\ open = {}
      BY <1>20, Zenon
    <3>2. size \in Int /\ free \in Int
      BY <3>1
    <3>3. queueDown \in BOOLEAN /\ open \subseteq Item
      BY <3>1, Zenon
    <3>. QED BY <3>2, <3>3
  <2>. QED BY <1>0, <2>1, <2>2, <2>3, <2>4 DEF PoolType
<1>10. \A S : S \cap {"seed", "shutdown", "acquire"} = {} => InStep(S) = {}
  <2>. SUFFICES ASSUME NEW S, S \cap {"seed", "shutdown", "acquire"} = {} PROVE InStep(S) = {}
    OBVIOUS
  <2>1. InStep(S) = Where(todo, S)
    BY <1>9, StepWhere DEF PoolType
  <2>. QED BY <1>8, <2>1 DEF Where
<1>11. /\ InStep(Holders) = {} /\ InStep(Bringers) = {} /\ InStep(Askers) = {}
       /\ InStep({"close"}) = {} /\ Holding = {}
  BY <1>10 DEF Holders, Bringers, Askers, Holding
<1>12. Finite(Holders) /\ Finite(Bringers) /\ Finite(Askers)
       /\ Count(Holders) = 0 /\ Count(Bringers) = 0 /\ Count(Askers) = 0
  BY <1>11, FS_EmptySet DEF Finite, Count
<1>13. CountInv
  <2>1. Len(items) = 0 /\ size = 0 /\ free = 0
    BY <1>20, EmptySeq
  <2>. QED BY <1>0, <1>12, <2>1 DEF CountInv
<1>14. ShutInv
  BY <1>11, <1>20 DEF ShutInv
<1>15. CloserInv
  <2>1. "shutdown" \in ClosingSteps /\ "leave" \in ClosingSteps
    BY DEF ClosingSteps
  <2>. HIDE DEF ClosingSteps
  <2>2. DOMAIN todo[Closer] = {1, 2} /\ todo[Closer][1] = "shutdown" /\ todo[Closer][2] = "leave"
        /\ todo[Closer] # <<>> /\ Len(todo[Closer]) = 2
    BY <1>3, <1>4
  <2>. QED BY <2>1, <2>2 DEF CloserInv
<1>16. TakerInv
  BY <1>20, EmptySeq DEF TakerInv
<1>17. OwnInv
  BY <1>11, <1>20 DEF OwnInv
<1>18. FlowInv
  BY <1>8 DEF FlowInv
<1>. QED BY <1>9, <1>13, <1>14, <1>15, <1>16, <1>17, <1>18 DEF PoolInv

(* Each step keeps it.                                                      *)
LEMMA NextInv == PoolInv /\ [Next]_vars => PoolInv'
<1>. SUFFICES ASSUME PoolInv, [Next]_vars PROVE PoolInv'
  OBVIOUS
<1>1. ASSUME NEW f \in Fiber, StepOf(f) PROVE PoolInv'
  BY <1>1, AcquireStep, ReserveStep, InspectStep, ReleaseStep, AllocateStep, OfferStep, AskStep,
     TakeStep, ReplaceStep, DiscardStep, SeedStep, ShutStep, CloseStep DEF StepOf
<1>2. ASSUME NEW i \in Item, Invalidate(i) PROVE PoolInv'
  BY <1>2, Stutter DEF Invalidate
<1>3. CASE UNCHANGED vars
  BY <1>3, Stutter DEF vars
<1>. QED BY <1>1, <1>2, <1>3, ShrinkStep, ShutdownStep, LeaveStep DEF Next

(* Where nothing is in the queue or in a hand, no item is open.              *)
LEMMA NothingOpen ==
  ASSUME PoolInv, size < 0
  PROVE  open = {}
<1>1. items = <<>> /\ InStep(Holders) = {} /\ InStep(Bringers) = {}
  BY Below
<1>2. Holding = {}
  BY <1>1 DEF Holding, InStep, Holders, Bringers
<1>3. DOMAIN items = {}
  BY <1>1, EmptySeq
<1>. QED BY <1>2, <1>3 DEF PoolInv, OwnInv

(* It says that the counts are true.                                        *)
LEMMA InvCounted == PoolInv => Counted
<1>. SUFFICES ASSUME PoolInv, size >= 0
     PROVE  /\ size = Len(items) + Cardinality(InStep({"inspect", "hold", "replace", "discard",
                                                       "allocate", "offer"}))
            /\ free = Len(items) + Cardinality(InStep({"allocate", "offer"}))
                                 - Cardinality(InStep({"take", "drain", "trim"}))
  BY DEF Counted
<1>. DEFINE A == InStep(Holders)
            B == InStep(Bringers)
            C == InStep({"inspect", "hold", "replace", "discard", "allocate", "offer"})
<1>1. /\ IsFiniteSet(A) /\ IsFiniteSet(B)
      /\ size = Len(items) + Cardinality(A) + Cardinality(B)
      /\ free = Len(items) + Cardinality(B) - Cardinality(InStep(Askers))
  BY DEF PoolInv, CountInv, Finite, Count
<1>2. C = A \cup B /\ A \cap B = {}
  BY DEF InStep, Holders, Bringers
<1>3. B = InStep({"allocate", "offer"}) /\ InStep(Askers) = InStep({"take", "drain", "trim"})
  BY DEF Bringers, Askers
<1>4. Len(items) \in Nat
  BY LenProperties DEF PoolInv, PoolType
<1>. HIDE DEF A, B, C
<1>5. Cardinality(A) \in Nat /\ Cardinality(B) \in Nat
  BY <1>1, FS_CardinalityType
<1>6. Cardinality(C) = Cardinality(A) + Cardinality(B)
  <2>1. Cardinality(A \cup B) = Cardinality(A) + Cardinality(B) - Cardinality(A \cap B)
    BY <1>1, FS_Union
  <2>2. Cardinality(A \cap B) = 0
    BY <1>2, FS_EmptySet
  <2>. QED BY <1>2, <1>5, <2>1, <2>2
<1>7. size = Len(items) + Cardinality(C)
  BY <1>1, <1>4, <1>5, <1>6
<1>. QED BY <1>1, <1>3, <1>7 DEF C

(* It says that each item has one owner, that there are not too many, and     *)
(* that none is left.                                                       *)
LEMMA InvOwned == PoolInv => EveryItemHasAnOwner
<1>. SUFFICES ASSUME PoolInv PROVE EveryItemHasAnOwner
  OBVIOUS
<1>0. PoolType /\ CountInv /\ ShutInv /\ CloserInv /\ OwnInv
  BY DEF PoolInv
<1>1. ASSUME NEW i \in Item PROVE Cardinality(Owners(i)) = IF i \in open THEN 1 ELSE 0
  <2>0. i # Failed
    BY ItemAssumption
  <2>1. CASE i \notin open
    <3>1. Queued(i) = {} /\ {f \in Holding : hand[f] = i} = {}
      BY <1>0, <2>0, <2>1 DEF OwnInv, Queued
    <3>2. Owners(i) = {}
      BY <3>1 DEF Owners
    <3>. QED BY <2>1, <3>2, FS_EmptySet
  <2>2. CASE \E k \in DOMAIN items : items[k] = i
    <3>1. PICK k \in DOMAIN items : items[k] = i
      BY <2>2
    <3>2. Queued(i) = {k} /\ {f \in Holding : hand[f] = i} = {}
      BY <1>0, <2>0, <3>1 DEF OwnInv, Queued
    <3>3. Owners(i) = {<<"queue", k>>}
      BY <3>2 DEF Owners
    <3>4. i \in open
      BY <1>0, <2>0, <3>1 DEF OwnInv
    <3>. QED BY <3>3, <3>4, FS_Singleton
  <2>3. CASE \E f \in Holding : hand[f] = i
    <3>1. PICK f \in Holding : hand[f] = i
      BY <2>3
    <3>2. Queued(i) = {} /\ {g \in Holding : hand[g] = i} = {f}
      BY <1>0, <2>0, <3>1 DEF OwnInv, Queued
    <3>3. Owners(i) = {<<"hand", f>>}
      BY <3>2 DEF Owners
    <3>4. i \in open
      BY <1>0, <2>0, <3>1 DEF OwnInv
    <3>. QED BY <3>3, <3>4, FS_Singleton
  <2>. QED BY <1>0, <2>1, <2>2, <2>3 DEF OwnInv
<1>2. Cardinality(open) <= range.max
  <2>1. CASE size < 0
    <3>1. Cardinality(open) = 0
      BY <2>1, NothingOpen, FS_EmptySet
    <3>. QED BY <3>1, Below
  <2>2. CASE ~(size < 0)
    <3>1. /\ IsFiniteSet(Holding) /\ Cardinality(Holding) \in Nat
          /\ Count(Holders) \in Nat /\ Count(Bringers) \in Nat
          /\ Cardinality(Holding) <= Count(Holders) + Count(Bringers) - Cardinality({})
      BY HoldingBound
    <3>2. Cardinality({}) = 0
      BY FS_EmptySet
    <3>3. /\ Cardinality(open) \in Nat /\ Len(items) \in Nat
          /\ Cardinality(open) <= Len(items) + Cardinality(Holding)
      BY <1>0, <3>1, OpenBound DEF PoolType
    <3>4. size = Len(items) + Count(Holders) + Count(Bringers) /\ size \in Int /\ size <= range.max
          /\ range.max \in Nat
      BY <1>0, <2>2, Below DEF CountInv
    <3>. DEFINE n == Len(items)
                a == Count(Holders)
                b == Count(Bringers)
                c == Cardinality(Holding)
                o == Cardinality(open)
                m == range.max
    <3>5. /\ n \in Nat /\ a \in Nat /\ b \in Nat /\ c \in Nat /\ o \in Nat /\ m \in Nat
          /\ o <= n + c /\ c <= a + b - 0 /\ size = n + a + b /\ size <= m
      BY <3>1, <3>2, <3>3, <3>4
    <3>. HIDE DEF n, a, b, c, o, m
    <3>6. o <= m
      BY <3>5
    <3>. QED BY <3>6 DEF o, m
  <2>. QED BY <2>1, <2>2
<1>3. ASSUME todo[Closer] = <<>> PROVE open = {}
  <2>1. size < 0
    BY <1>0, <1>3 DEF CloserInv, ShutInv
  <2>. QED BY <2>1, NothingOpen
<1>. QED BY <1>1, <1>2, <1>3 DEF EveryItemHasAnOwner

(* The counts of a pool are true, and each open item is in the queue or in    *)
(* one hand, for any clients, items and ranges.                             *)
THEOREM AccountsAgree == Spec => []Accounting
<1>1. PoolInv => Accounting
  BY InvCounted, InvOwned DEF Accounting
<1>. QED BY <1>1, InitInv, NextInv, PTL DEF Spec

-----------------------------------------------------------------------------
(* Of requests.  An entry is what a slot listens to that listens to itself; who  *)
(* listens is counted.  A resolver is interrupted only when all who made the     *)
(* entries of its block are gone, so that whoever made one and is still there,   *)
(* when it is interrupted, has a resolver that ended without completing it.      *)
Listeners(e) == {s \in Slot : E!Listens(s, e)}

RequestShape ==
  /\ plan \in Plans /\ cache \in [Query -> Slot \cup {Nobody}]
  /\ of \in [Slot -> Slot \cup {Nobody}] /\ leader \in [Slot -> Slot \cup {Nobody}]
  /\ count \in [Slot -> Nat] /\ gone \in [Slot -> Nat]
  /\ handle \in [Slot -> {"pending", "value", "interrupted"}]
  /\ proc \in [Slot -> {"none", "runs", "ended", "died", "interrupted"}]
  /\ watch \in [Slot -> {"none", "forks", "registers", "listens", "stops", "completes", "over", "thrown"}]
  /\ pc \in [Slot -> {"begins", "right", "left", "resumes", "waits", "invalidates"} \cup E!Ended]

EntryState(s) ==
  /\ of[s] # s => handle[s] = "pending" /\ leader[s] = Nobody /\ gone[s] = 0 /\ pc[s] \notin {"right", "failed"}
  /\ of[s] = s => pc[s] \notin {"begins", "left", "invalidates"}
  /\ of[s] # Nobody => of[of[s]] = of[s]
  /\ pc[s] \in {"right", "left", "resumes", "waits", "invalidates"} => of[s] # Nobody
  /\ pc[s] = "invalidates" => handle[of[s]] # "pending"

LedBy(s) ==
  /\ pc[s] = "right" => leader[s] = Nobody
  /\ leader[s] # Nobody => leader[leader[s]] = leader[s]
  /\ handle[s] = "interrupted" /\ pc[s] \notin E!Ended => leader[s] # Nobody /\ proc[leader[s]] = "ended"
  /\ pc[s] = "failed" => leader[s] # Nobody /\ proc[leader[s]] = "ended"

BlockState(l) ==
  /\ watch[l] \in {"none", "forks"} <=> proc[l] = "none"
  /\ watch[l] # "none" => leader[l] = l
  /\ watch[l] = "registers" => proc[l] # "interrupted"
  /\ watch[l] = "listens" => proc[l] = "runs" /\ \E e \in E!Block(l) : count[e] > 0
  /\ watch[l] = "stops" \/ (watch[l] = "completes" /\ proc[l] # "ended")
       => \A e \in E!Block(l) : pc[e] \in E!Ended

Tallied(e) == count[e] = gone[e] + Cardinality(Listeners(e))
Cached == \A r \in Query : cache[r] # Nobody => of[cache[r]] = cache[r]

RequestInv ==
  /\ RequestShape /\ Cached /\ E!RunOnce
  /\ \A s \in Slot : EntryState(s) /\ LedBy(s) /\ BlockState(s) /\ Tallied(s)

-----------------------------------------------------------------------------
LEMMA SameCount == \A x : E!Cardinality(x) = Cardinality(x)
BY DEF E!Cardinality, Cardinality

LEMMA ListenersFinite ==
  \A e : IsFiniteSet(Listeners(e)) /\ Cardinality(Listeners(e)) \in Nat
<1>1. \A e : Listeners(e) \subseteq Slot
  BY DEF Listeners
<1>. QED BY <1>1, SlotAssumption, FS_Subset, FS_CardinalityType

LEMMA WantsQuery == RequestShape => \A s \in Slot : E!Wants(s) \in Query
BY PlanAssumption DEF RequestShape, E!Wants

(* A step that leaves alone who listens and what is counted.                   *)
LEMMA TalliedStill ==
  ASSUME \A s \in Slot : Tallied(s), UNCHANGED <<count, gone, of>>,
         \A s \in Slot : pc'[s] \in {"right", "left", "resumes", "waits"}
                           <=> pc[s] \in {"right", "left", "resumes", "waits"}
  PROVE  \A s \in Slot : Tallied(s)'
<1>1. \A e \in Slot : Listeners(e)' = Listeners(e)
  BY DEF Listeners, E!Listens
<1>. QED BY <1>1 DEF Tallied

LEMMA RequestAttaches == ASSUME RequestInv, NEW s \in Slot, E!Attach(s) PROVE RequestInv'
<1>. DEFINE e == cache[E!Wants(s)]
<1>0. /\ UNCHANGED <<handle, leader, proc, watch, plan, alone, gone>> /\ pc[s] = "begins"
      /\ \/ /\ e = Nobody /\ cache' = [cache EXCEPT ![E!Wants(s)] = s]
            /\ of' = [of EXCEPT ![s] = s] /\ count' = [count EXCEPT ![s] = 1]
            /\ pc' = [pc EXCEPT ![s] = "right"]
         \/ /\ e # Nobody /\ cache' = cache
            /\ of' = [of EXCEPT ![s] = e] /\ count' = [count EXCEPT ![e] = count[e] + 1]
            /\ pc' = [pc EXCEPT ![s] = "left"]
      /\ RequestShape /\ Cached /\ E!RunOnce
      /\ \A t \in Slot : EntryState(t) /\ LedBy(t) /\ BlockState(t) /\ Tallied(t)
      /\ E!Wants(s) \in Query /\ Nobody \notin Slot
  BY WantsQuery, SlotAssumption DEF E!Attach, E!Goto, E!block, E!history, RequestInv
<1>1. of[s] # s /\ (e # Nobody => e \in Slot /\ of[e] = e /\ e # s)
  BY <1>0 DEF EntryState, RequestShape, Cached
<1>2. /\ \A t \in Slot \ {s} : of'[t] = of[t] /\ pc'[t] = pc[t]
      /\ \/ /\ e = Nobody /\ of'[s] = s /\ pc'[s] = "right" /\ count'[s] = 1
            /\ \A t \in Slot \ {s} : count'[t] = count[t]
            /\ cache'[E!Wants(s)] = s /\ \A r \in Query \ {E!Wants(s)} : cache'[r] = cache[r]
         \/ /\ e # Nobody /\ of'[s] = e /\ pc'[s] = "left" /\ count'[e] = count[e] + 1
            /\ \A t \in Slot \ {e} : count'[t] = count[t]
  BY <1>0, <1>1 DEF RequestShape
<1>. HIDE DEF e
<1>3. RequestShape'
  BY <1>0, <1>1 DEF RequestShape, E!Ended
<1>4. Cached'
  BY <1>0, <1>1, <1>2 DEF Cached, RequestShape
<1>5. E!RunOnce'
  <2>. SUFFICES ASSUME NEW t \in Slot, of'[t] = t, handle[t] = "pending" PROVE cache'[E!Wants(t)] = t
    BY <1>0 DEF E!RunOnce, E!Wants
  <2>1. E!Wants(t) \in Query
    BY <1>0, WantsQuery
  <2>2. CASE t = s
    BY <1>1, <1>2, <2>2
  <2>3. CASE t # s
    <3>1. cache[E!Wants(t)] = t
      BY <1>0, <1>2, <2>3 DEF E!RunOnce
    <3>. QED BY <1>0, <1>2, <2>1, <2>3, <3>1 DEF e
  <2>. QED BY <2>2, <2>3
<1>6. \A t \in Slot : t # s => of[t] # s
  BY <1>0, <1>1 DEF EntryState
<1>7. ASSUME NEW t \in Slot PROVE EntryState(t)'
  <2>1. CASE t = s
    BY <1>0, <1>1, <1>2, <2>1 DEF EntryState
  <2>2. CASE t # s
    <3>1. of'[t] = of[t] /\ pc'[t] = pc[t] /\ EntryState(t) /\ of[t] # s /\ (of[t] # Nobody => of[t] \in Slot)
      BY <1>0, <1>2, <1>6, <2>2 DEF RequestShape
    <3>. QED BY <1>0, <1>2, <3>1 DEF EntryState
  <2>. QED BY <2>1, <2>2
<1>8. leader[s] = Nobody /\ handle[s] = "pending" /\ gone[s] = 0
  BY <1>0, <1>1 DEF EntryState
<1>9. ASSUME NEW t \in Slot PROVE LedBy(t)'
  <2>1. LedBy(t)
    BY <1>0
  <2>. QED BY <1>0, <1>2, <1>8, <2>1 DEF LedBy
<1>10. ASSUME NEW t \in Slot PROVE BlockState(t)'
  <2>1. E!Block(t)' = E!Block(t) /\ s \notin E!Block(t)
    BY <1>0, <1>8 DEF E!Block
  <2>2. \A d \in E!Block(t) : d \in Slot /\ (count[d] > 0 => count'[d] > 0) /\ pc'[d] = pc[d]
    BY <1>0, <1>1, <1>2, <2>1 DEF E!Block, RequestShape
  <2>3. BlockState(t)
    BY <1>0
  <2>. QED BY <1>0, <2>1, <2>2, <2>3 DEF BlockState
<1>11. ASSUME NEW t \in Slot PROVE Tallied(t)'
  <2>1. s \notin Listeners(t)
    BY <1>0 DEF Listeners, E!Listens
  <2>2. IsFiniteSet(Listeners(t)) /\ Cardinality(Listeners(t)) \in Nat /\ Tallied(t)
    BY <1>0, ListenersFinite
  <2>3. CASE of'[s] = t
    <3>1. Listeners(t)' = Listeners(t) \cup {s}
      BY <1>0, <1>2, <2>3 DEF Listeners, E!Listens
    <3>2. Cardinality(Listeners(t)') = Cardinality(Listeners(t)) + 1
      BY <2>1, <2>2, <3>1, FS_AddElement
    <3>3. count'[t] = count[t] + 1
      <4>1. CASE e = Nobody
        <5>1. t = s
          BY <1>2, <2>3, <4>1
        <5>2. Listeners(s) = {}
          BY <1>1, <1>6 DEF Listeners, E!Listens
        <5>. QED BY <1>2, <1>8, <2>2, <4>1, <5>1, <5>2, FS_EmptySet DEF Tallied
      <4>2. CASE e # Nobody
        BY <1>2, <2>3, <4>2
      <4>. QED BY <4>1, <4>2
    <3>. QED BY <1>0, <2>2, <3>2, <3>3 DEF Tallied, RequestShape
  <2>4. CASE of'[s] # t
    <3>1. Listeners(t)' = Listeners(t)
      BY <1>0, <1>2, <2>1, <2>4 DEF Listeners, E!Listens
    <3>. QED BY <1>0, <1>2, <2>2, <2>4, <3>1 DEF Tallied
  <2>. QED BY <2>3, <2>4
<1>. QED BY <1>3, <1>4, <1>5, <1>7, <1>9, <1>10, <1>11 DEF RequestInv

LEMMA RequestForks == ASSUME RequestInv, NEW s \in Slot, E!Fork(s) PROVE RequestInv'
<1>. DEFINE group == E!Batch(s)
            made == {t \in group : pc[t] = "right"}
            first == CHOOSE t \in made : TRUE
<1>0. /\ UNCHANGED <<cache, count, handle, proc, plan, of, gone>>
      /\ \A t \in group : pc[t] \in {"right", "left"}
      /\ pc' = [t \in Slot |-> IF t \in group THEN "resumes" ELSE pc[t]]
      /\ leader' = [t \in Slot |-> IF t \in made THEN first ELSE leader[t]]
      /\ watch' = IF made = {} THEN watch ELSE [watch EXCEPT ![first] = "forks"]
      /\ RequestShape /\ Cached /\ E!RunOnce
      /\ \A t \in Slot : EntryState(t) /\ LedBy(t) /\ BlockState(t) /\ Tallied(t)
      /\ Nobody \notin Slot
  BY SlotAssumption DEF E!Fork, E!entries, E!history, RequestInv
<1>1. /\ group \subseteq Slot
      /\ made # {} => first \in made
      /\ made = {} => leader' = leader /\ watch' = watch
  BY <1>0 DEF E!Batch, RequestShape
<1>2. \A t \in group : t \in made <=> pc[t] = "right"
  OBVIOUS
<1>. HIDE DEF group, made, first
<1>3. /\ \A t \in made : t \in Slot /\ t \in group /\ leader[t] = Nobody /\ of[t] = t /\ pc[t] = "right"
      /\ \A t \in made : watch[t] = "none" /\ proc[t] = "none"
  <2>1. \A t \in made : t \in group /\ pc[t] = "right"
    BY DEF made
  <2>2. \A t \in made : leader[t] = Nobody /\ of[t] = t
    BY <1>0, <1>1, <2>1 DEF LedBy, EntryState
  <2>3. \A t \in made : watch[t] = "none" /\ proc[t] = "none"
    BY <1>0, <1>1, <2>1, <2>2 DEF BlockState
  <2>. QED BY <1>1, <2>1, <2>2, <2>3
<1>4. /\ \A t \in made : leader'[t] = first
      /\ \A t \in Slot \ made : leader'[t] = leader[t]
      /\ \A t \in group : pc'[t] = "resumes" /\ pc[t] \in {"right", "left"}
      /\ \A t \in Slot \ group : pc'[t] = pc[t]
      /\ \A t \in Slot : t # first \/ made = {} => watch'[t] = watch[t]
      /\ made # {} => watch'[first] = "forks"
  BY <1>0, <1>1, <1>3 DEF RequestShape
<1>5. RequestShape'
  <2>1. leader' \in [Slot -> Slot \cup {Nobody}]
    BY <1>0, <1>1, <1>3 DEF RequestShape
  <2>2. pc' \in [Slot -> {"begins", "right", "left", "resumes", "waits", "invalidates"} \cup E!Ended]
    BY <1>0 DEF RequestShape
  <2>. QED BY <1>0, <2>1, <2>2 DEF RequestShape
<1>6. Cached' /\ E!RunOnce'
  BY <1>0 DEF Cached, E!RunOnce, E!Wants
<1>7. \A t \in Slot : Tallied(t)'
  <2>1. \A t \in Slot : pc'[t] \in {"right", "left", "resumes", "waits"}
                          <=> pc[t] \in {"right", "left", "resumes", "waits"}
    BY <1>4
  <2>. QED BY <1>0, <2>1, TalliedStill
<1>8. ASSUME NEW t \in Slot PROVE EntryState(t)'
  <2>1. EntryState(t)
    BY <1>0
  <2>2. of[t] # t => leader'[t] = leader[t]
    BY <1>3, <1>4
  <2>3. pc'[t] \in {"right", "failed", "begins", "left", "invalidates"} => pc'[t] = pc[t]
    BY <1>4
  <2>4. pc'[t] \in {"right", "left", "resumes", "waits", "invalidates"}
          => pc[t] \in {"right", "left", "resumes", "waits", "invalidates"}
    BY <1>4
  <2>. QED BY <1>0, <2>1, <2>2, <2>3, <2>4 DEF EntryState
<1>9. ASSUME NEW t \in Slot PROVE LedBy(t)'
  <2>0. LedBy(t)
    BY <1>0
  <2>1. CASE t \in made
    <3>1. pc[t] = "right" /\ leader[t] = Nobody /\ pc'[t] = "resumes" /\ leader'[t] = first /\ leader'[first] = first
      BY <1>1, <1>3, <1>4, <2>1
    <3>2. handle[t] # "interrupted"
      BY <2>0, <3>1 DEF LedBy, E!Ended
    <3>. QED BY <1>0, <3>1, <3>2 DEF LedBy
  <2>2. CASE t \notin made
    <3>1. leader'[t] = leader[t]
      BY <1>4, <2>2
    <3>2. leader[t] # Nobody => leader'[leader[t]] = leader[leader[t]]
      BY <1>0, <1>3, <1>4, <2>0 DEF LedBy, RequestShape
    <3>3. /\ pc'[t] = "right" => pc[t] = "right"
          /\ pc'[t] = "failed" => pc[t] = "failed"
          /\ pc'[t] \notin E!Ended => pc[t] \notin E!Ended
      BY <1>4 DEF E!Ended
    <3>. QED BY <1>0, <2>0, <3>1, <3>2, <3>3 DEF LedBy
  <2>. QED BY <2>1, <2>2
<1>10. ASSUME NEW k \in Slot PROVE BlockState(k)'
  <2>0. BlockState(k)
    BY <1>0
  <2>1. CASE made # {} /\ k = first
    BY <1>0, <1>1, <1>3, <1>4, <2>1 DEF BlockState
  <2>2. CASE made = {} \/ k # first
    <3>1. E!Block(k)' = E!Block(k)
      BY <1>0, <1>3, <1>4, <2>2 DEF E!Block
    <3>2. \A t \in E!Block(k) : t \in Slot /\ (pc[t] \in E!Ended => pc'[t] \in E!Ended)
      BY <1>4 DEF E!Block, E!Ended
    <3>3. leader[k] = k => leader'[k] = k
      BY <1>0, <1>3, <1>4
    <3>. QED BY <1>0, <1>4, <2>0, <2>2, <3>1, <3>2, <3>3 DEF BlockState
  <2>. QED BY <2>1, <2>2
<1>. QED BY <1>5, <1>6, <1>7, <1>8, <1>9, <1>10 DEF RequestInv

LEMMA RequestResumes == ASSUME RequestInv, NEW s \in Slot, E!Resume(s) PROVE RequestInv'
<1>0. /\ UNCHANGED <<cache, count, handle, leader, proc, watch, plan, of, gone>>
      /\ pc[s] = "resumes" /\ pc' = [pc EXCEPT ![s] = "waits"]
      /\ RequestShape /\ Cached /\ E!RunOnce
      /\ \A t \in Slot : EntryState(t) /\ LedBy(t) /\ BlockState(t) /\ Tallied(t)
  BY DEF E!Resume, E!Goto, E!entries, E!block, E!history, RequestInv
<1>1. pc'[s] = "waits" /\ \A t \in Slot \ {s} : pc'[t] = pc[t]
  BY <1>0 DEF RequestShape
<1>2. RequestShape'
  BY <1>0 DEF RequestShape
<1>3. Cached' /\ E!RunOnce'
  BY <1>0 DEF Cached, E!RunOnce, E!Wants
<1>4. \A t \in Slot : Tallied(t)'
  BY <1>0, <1>1, TalliedStill
<1>5. ASSUME NEW t \in Slot PROVE EntryState(t)' /\ LedBy(t)' /\ BlockState(t)'
  <2>1. EntryState(t)'
    BY <1>0, <1>1 DEF EntryState
  <2>2. LedBy(t)'
    BY <1>0, <1>1 DEF LedBy, E!Ended
  <2>3. E!Block(t)' = E!Block(t) /\ \A d \in E!Block(t) : d \in Slot /\ (pc[d] \in E!Ended => pc'[d] \in E!Ended)
    BY <1>0, <1>1 DEF E!Block, E!Ended
  <2>4. BlockState(t)'
    BY <1>0, <2>3 DEF BlockState
  <2>. QED BY <2>1, <2>2, <2>4
<1>. QED BY <1>2, <1>3, <1>4, <1>5 DEF RequestInv

LEMMA RequestInvalidates == ASSUME RequestInv, NEW s \in Slot, E!Invalidate(s) PROVE RequestInv'
<1>0. /\ UNCHANGED <<count, handle, leader, proc, watch, plan, of, gone>>
      /\ pc[s] = "invalidates" /\ pc' = [pc EXCEPT ![s] = "begins"]
      /\ cache' = IF cache[E!Wants(s)] = of[s] THEN [cache EXCEPT ![E!Wants(s)] = Nobody] ELSE cache
      /\ RequestShape /\ Cached /\ E!RunOnce
      /\ \A t \in Slot : EntryState(t) /\ LedBy(t) /\ BlockState(t) /\ Tallied(t)
      /\ \A t \in Slot : E!Wants(t) \in Query
  BY WantsQuery DEF E!Invalidate, E!IsCurrent, E!Goto, E!block, E!history, RequestInv
<1>1. /\ pc'[s] = "begins" /\ \A t \in Slot \ {s} : pc'[t] = pc[t]
      /\ \A r \in Query : cache'[r] = cache[r] \/ (cache'[r] = Nobody /\ cache[r] = of[s])
      /\ handle[of[s]] # "pending" /\ of[s] # s
  BY <1>0 DEF RequestShape, EntryState
<1>2. RequestShape'
  BY <1>0 DEF RequestShape
<1>3. Cached'
  BY <1>0, <1>1 DEF Cached
<1>4. E!RunOnce'
  <2>. SUFFICES ASSUME NEW t \in Slot, of[t] = t, handle[t] = "pending" PROVE cache'[E!Wants(t)] = t
    BY <1>0 DEF E!RunOnce, E!Wants
  <2>1. cache[E!Wants(t)] = t
    BY <1>0 DEF E!RunOnce
  <2>. QED BY <1>0, <1>1, <2>1
<1>5. \A t \in Slot : Tallied(t)'
  BY <1>0, <1>1, TalliedStill
<1>6. ASSUME NEW t \in Slot PROVE EntryState(t)' /\ LedBy(t)' /\ BlockState(t)'
  <2>1. EntryState(t)'
    BY <1>0, <1>1 DEF EntryState
  <2>2. LedBy(t)'
    BY <1>0, <1>1 DEF LedBy, E!Ended
  <2>3. E!Block(t)' = E!Block(t) /\ \A d \in E!Block(t) : d \in Slot /\ (pc[d] \in E!Ended => pc'[d] \in E!Ended)
    BY <1>0, <1>1 DEF E!Block, E!Ended
  <2>4. BlockState(t)'
    BY <1>0, <2>3 DEF BlockState
  <2>. QED BY <2>1, <2>2, <2>4
<1>. QED BY <1>2, <1>3, <1>4, <1>5, <1>6 DEF RequestInv

-----------------------------------------------------------------------------
(* A listener leaves, and says so; or not.                                     *)
LEMMA OneLess ==
  ASSUME NEW s \in Slot, NEW e \in Slot, s \in Listeners(e), UNCHANGED of, RequestShape,
         NEW step, step \notin {"right", "left", "resumes", "waits"}, pc' = [pc EXCEPT ![s] = step]
  PROVE  /\ Cardinality(Listeners(e)') = Cardinality(Listeners(e)) - 1
         /\ \A t \in Slot : t # e => Listeners(t)' = Listeners(t)
<1>1. pc'[s] = step /\ \A t \in Slot \ {s} : pc'[t] = pc[t]
  BY DEF RequestShape
<1>2. Listeners(e)' = Listeners(e) \ {s}
  BY <1>1 DEF Listeners, E!Listens
<1>3. Cardinality(Listeners(e) \ {s}) = Cardinality(Listeners(e)) - 1
  BY ListenersFinite, FS_RemoveElement
<1>4. \A t \in Slot : t # e => Listeners(t)' = Listeners(t)
  BY <1>1 DEF Listeners, E!Listens
<1>. QED BY <1>2, <1>3, <1>4

LEMMA RequestLeaves ==
  ASSUME RequestInv, NEW s \in Slot, NEW e \in Slot, s \in Listeners(e), NEW step,
         step \in E!Ended \cup {"invalidates"}, pc' = [pc EXCEPT ![s] = step],
         E!Decrement(e), UNCHANGED <<cache, handle, leader, proc, plan, of, gone>>,
         step = "invalidates" => s # e /\ handle[e] # "pending",
         step = "failed" => s = e /\ handle[s] = "interrupted"
  PROVE  RequestInv'
<1>0. /\ count' = [count EXCEPT ![e] = count[e] - 1]
      /\ \/ /\ leader[e] # Nobody /\ watch[leader[e]] = "listens" /\ (\A d \in E!Block(leader[e]) : count'[d] = 0)
            /\ watch' = [watch EXCEPT ![leader[e]] = "stops"]
         \/ /\ ~(leader[e] # Nobody /\ watch[leader[e]] = "listens" /\ (\A d \in E!Block(leader[e]) : count'[d] = 0))
            /\ watch' = watch
      /\ RequestShape /\ Cached /\ E!RunOnce
      /\ \A t \in Slot : EntryState(t) /\ LedBy(t) /\ BlockState(t) /\ Tallied(t)
      /\ of[s] = e /\ pc[s] \in {"right", "left", "resumes", "waits"}
  BY DEF E!Decrement, E!Unwanted, RequestInv, Listeners, E!Listens
<1>1. /\ pc'[s] = step /\ \A t \in Slot \ {s} : pc'[t] = pc[t]
      /\ pc[s] \notin E!Ended
      /\ count'[e] = count[e] - 1 /\ \A t \in Slot \ {e} : count'[t] = count[t]
  BY <1>0 DEF RequestShape, E!Ended
<1>2. ASSUME NEW t \in Slot
      PROVE  /\ count'[t] \in Nat /\ Tallied(t)' /\ (Tallied(t)' <=> count'[t] = gone[t] + Cardinality(Listeners(t)'))
             /\ IsFiniteSet(Listeners(t)') /\ Cardinality(Listeners(t)') \in Nat
  <2>1. step \notin {"right", "left", "resumes", "waits"}
    BY DEF E!Ended
  <2>2. Cardinality(Listeners(e)') = Cardinality(Listeners(e)) - 1 /\ (t # e => Listeners(t)' = Listeners(t))
    BY <1>0, <2>1, OneLess
  <2>3. IsFiniteSet(Listeners(t)') /\ Cardinality(Listeners(t)') \in Nat
    <3>1. Listeners(t)' \subseteq Slot
      BY DEF Listeners
    <3>. QED BY <3>1, SlotAssumption, FS_Subset, FS_CardinalityType
  <2>4. Tallied(t) /\ count[t] \in Nat /\ gone[t] \in Nat /\ Cardinality(Listeners(t)) \in Nat
    BY <1>0, ListenersFinite DEF RequestShape
  <2>5. CASE t = e
    BY <1>1, <2>2, <2>3, <2>4, <2>5 DEF Tallied
  <2>6. CASE t # e
    BY <1>1, <2>2, <2>3, <2>4, <2>6 DEF Tallied
  <2>. QED BY <2>5, <2>6
<1>3. leader[e] # Nobody => leader[e] \in Slot
  BY <1>0 DEF RequestShape
<1>4. RequestShape'
  <2>1. count' \in [Slot -> Nat]
    BY <1>0, <1>2 DEF RequestShape
  <2>2. watch' \in [Slot -> {"none", "forks", "registers", "listens", "stops", "completes", "over", "thrown"}]
    BY <1>0 DEF RequestShape
  <2>3. pc' \in [Slot -> {"begins", "right", "left", "resumes", "waits", "invalidates"} \cup E!Ended]
    BY <1>0 DEF RequestShape
  <2>. QED BY <1>0, <2>1, <2>2, <2>3 DEF RequestShape
<1>5. Cached' /\ E!RunOnce'
  BY <1>0 DEF Cached, E!RunOnce, E!Wants
<1>6. ASSUME NEW t \in Slot PROVE EntryState(t)' /\ LedBy(t)'
  <2>0. EntryState(t) /\ LedBy(t)
    BY <1>0
  <2>1. CASE t = s
    <3>1. e # Nobody
      BY SlotAssumption
    <3>2. LedBy(t)'
      <4>1. step = "failed" => leader[t] # Nobody /\ proc[leader[t]] = "ended"
        BY <1>1, <2>0, <2>1 DEF LedBy
      <4>. QED BY <1>1, <2>0, <2>1, <4>1 DEF LedBy, E!Ended
    <3>. QED BY <1>0, <1>1, <2>0, <2>1, <3>1, <3>2 DEF EntryState, E!Ended
  <2>2. CASE t # s
    BY <1>0, <1>1, <2>0, <2>2 DEF EntryState, LedBy
  <2>. QED BY <2>1, <2>2
<1>7. ASSUME NEW l \in Slot PROVE BlockState(l)'
  <2>0. BlockState(l) /\ E!Block(l)' = E!Block(l) /\ E!Block(l) \subseteq Slot
    BY <1>0 DEF E!Block
  <2>1. \A d \in E!Block(l) : pc[d] \in E!Ended => pc'[d] \in E!Ended
    BY <1>1, <2>0
  <2>2. CASE watch'[l] = watch[l]
    <3>1. watch[l] = "listens" => \E d \in E!Block(l) : count'[d] > 0
      <4>. SUFFICES ASSUME watch[l] = "listens" PROVE \E d \in E!Block(l) : count'[d] > 0
        OBVIOUS
      <4>1. CASE leader[e] = l
        <5>1. \E d \in E!Block(l) : count'[d] # 0
          BY <1>0, <2>2, <4>1, SlotAssumption DEF RequestShape
        <5>. QED BY <1>2, <2>0, <5>1
      <4>2. CASE leader[e] # l
        <5>1. e \notin E!Block(l)
          BY <4>2 DEF E!Block
        <5>. QED BY <1>1, <2>0, <5>1 DEF BlockState
      <4>. QED BY <4>1, <4>2
    <3>. QED BY <2>0, <2>1, <2>2, <3>1 DEF BlockState
  <2>3. CASE watch'[l] # watch[l]
    <3>1. l = leader[e] /\ watch[l] = "listens" /\ watch'[l] = "stops" /\ \A d \in E!Block(l) : count'[d] = 0
      BY <1>0, <1>3, <2>3 DEF RequestShape
    <3>2. ASSUME NEW d \in E!Block(l) PROVE pc'[d] \in E!Ended
      <4>1. d \in Slot /\ leader[d] = l /\ of[d] = d
        BY <1>0, SlotAssumption DEF E!Block, EntryState
      <4>2. Cardinality(Listeners(d)') = 0
        <5>1. gone[d] \in Nat
          BY <1>0, <4>1 DEF RequestShape
        <5>. QED BY <1>2, <3>1, <4>1, <5>1
      <4>3. Listeners(d)' = {}
        BY <1>2, <4>1, <4>2, FS_EmptySet
      <4>4. pc'[d] \notin {"right", "left", "resumes", "waits"}
        BY <1>0, <4>1, <4>3 DEF Listeners, E!Listens
      <4>5. pc'[d] \notin {"begins", "left", "invalidates"} /\ pc'[d] \in {"begins", "right", "left", "resumes", "waits", "invalidates"} \cup E!Ended
        BY <1>0, <1>4, <1>6, <4>1 DEF EntryState, RequestShape
      <4>. QED BY <4>4, <4>5
    <3>. QED BY <2>0, <3>1, <3>2 DEF BlockState
  <2>. QED BY <2>2, <2>3
<1>. QED BY <1>2, <1>4, <1>5, <1>6, <1>7 DEF RequestInv

LEMMA RequestReceives == ASSUME RequestInv, NEW s \in Slot, E!Receive(s) PROVE RequestInv'
<1>. DEFINE step == CASE handle[of[s]] = "value" -> "answered"
                      [] handle[of[s]] # "value" /\ of[s] = s -> "failed"
                      [] OTHER -> "invalidates"
<1>0. /\ pc[s] = "waits" /\ handle[of[s]] # "pending" /\ E!Decrement(of[s])
      /\ pc' = [pc EXCEPT ![s] = step]
      /\ UNCHANGED <<cache, handle, leader, proc, plan, of, gone>>
      /\ RequestShape /\ EntryState(s)
  BY DEF E!Receive, E!Goto, E!Made, E!history, RequestInv
<1>1. of[s] \in Slot /\ s \in Listeners(of[s])
  BY <1>0 DEF EntryState, RequestShape, Listeners, E!Listens
<1>2. /\ step \in E!Ended \cup {"invalidates"}
      /\ step = "invalidates" => s # of[s] /\ handle[of[s]] # "pending"
      /\ step = "failed" => s = of[s] /\ handle[s] = "interrupted"
  <2>1. handle[of[s]] \in {"value", "interrupted"}
    BY <1>0, <1>1 DEF RequestShape
  <2>2. CASE handle[of[s]] = "value"
    BY <2>2 DEF E!Ended
  <2>3. CASE handle[of[s]] # "value" /\ of[s] = s
    BY <2>1, <2>3 DEF E!Ended
  <2>4. CASE handle[of[s]] # "value" /\ of[s] # s
    <3>1. step = "invalidates"
      BY <2>4
    <3>. QED BY <1>0, <2>4, <3>1
  <2>. QED BY <2>2, <2>3, <2>4
<1>. HIDE DEF step
<1>. QED BY <1>0, <1>1, <1>2, RequestLeaves

LEMMA RequestGoes ==
  ASSUME RequestInv, NEW s \in Slot, pc[s] \notin E!Ended, pc' = [pc EXCEPT ![s] = "stopped"],
         gone' = IF pc[s] \in {"begins", "invalidates"} THEN gone ELSE [gone EXCEPT ![of[s]] = gone[of[s]] + 1],
         UNCHANGED <<cache, count, handle, leader, proc, watch, plan, of>>
  PROVE  RequestInv'
<1>0. /\ RequestShape /\ Cached /\ E!RunOnce
      /\ \A t \in Slot : EntryState(t) /\ LedBy(t) /\ BlockState(t) /\ Tallied(t)
      /\ pc[s] \in {"begins", "right", "left", "resumes", "waits", "invalidates"}
  BY DEF RequestInv, RequestShape
<1>1. pc'[s] = "stopped" /\ \A t \in Slot \ {s} : pc'[t] = pc[t]
  BY <1>0 DEF RequestShape
<1>2. pc[s] \notin {"begins", "invalidates"} => of[s] \in Slot /\ s \in Listeners(of[s])
  BY <1>0 DEF EntryState, RequestShape, Listeners, E!Listens
<1>3. RequestShape'
  BY <1>0, <1>2 DEF RequestShape, E!Ended
<1>4. Cached' /\ E!RunOnce'
  BY <1>0 DEF Cached, E!RunOnce, E!Wants
<1>5. ASSUME NEW t \in Slot PROVE Tallied(t)'
  <2>0. Tallied(t) /\ gone[t] \in Nat /\ Cardinality(Listeners(t)) \in Nat
    BY <1>0, ListenersFinite DEF RequestShape
  <2>1. CASE pc[s] \in {"begins", "invalidates"}
    <3>1. Listeners(t)' = Listeners(t)
      BY <1>1, <2>1 DEF Listeners, E!Listens
    <3>. QED BY <2>0, <2>1, <3>1 DEF Tallied
  <2>2. CASE pc[s] \notin {"begins", "invalidates"}
    <3>1. /\ Cardinality(Listeners(of[s])') = Cardinality(Listeners(of[s])) - 1
          /\ t # of[s] => Listeners(t)' = Listeners(t)
      BY <1>0, <1>2, <2>2, OneLess
    <3>2. CASE t = of[s]
      <4>1. gone'[t] = gone[t] + 1
        BY <1>0, <2>2, <3>2 DEF RequestShape
      <4>2. Listeners(t)' = Listeners(of[s])' /\ Listeners(t) = Listeners(of[s])
        BY <3>2 DEF Listeners, E!Listens
      <4>. QED BY <2>0, <3>1, <3>2, <4>1, <4>2 DEF Tallied
    <3>3. CASE t # of[s]
      <4>1. gone'[t] = gone[t]
        BY <1>0, <2>2, <3>3 DEF RequestShape
      <4>. QED BY <2>0, <3>1, <3>3, <4>1 DEF Tallied
    <3>. QED BY <3>2, <3>3
  <2>. QED BY <2>1, <2>2
<1>6. ASSUME NEW t \in Slot PROVE EntryState(t)' /\ LedBy(t)' /\ BlockState(t)'
  <2>1. of[t] # t => gone'[t] = gone[t]
    <3>. SUFFICES ASSUME of[t] # t, pc[s] \notin {"begins", "invalidates"} PROVE gone'[t] = gone[t]
      OBVIOUS
    <3>1. of[s] \in Slot /\ of[of[s]] = of[s]
      BY <1>0, <1>2, SlotAssumption DEF EntryState
    <3>. QED BY <1>0, <3>1 DEF RequestShape
  <2>2. EntryState(t)'
    <3>1. pc'[t] \in {"right", "failed", "begins", "left", "resumes", "waits", "invalidates"} => pc'[t] = pc[t]
      BY <1>1
    <3>. QED BY <1>0, <2>1, <3>1 DEF EntryState
  <2>3. LedBy(t)'
    BY <1>0, <1>1 DEF LedBy, E!Ended
  <2>4. E!Block(t)' = E!Block(t) /\ \A d \in E!Block(t) : d \in Slot /\ (pc[d] \in E!Ended => pc'[d] \in E!Ended)
    BY <1>0, <1>1 DEF E!Block, E!Ended
  <2>5. BlockState(t)'
    BY <1>0, <2>4 DEF BlockState
  <2>. QED BY <2>2, <2>3, <2>5
<1>. QED BY <1>3, <1>4, <1>5, <1>6 DEF RequestInv

LEMMA RequestStops == ASSUME RequestInv, NEW s \in Slot, E!Stop(s) PROVE RequestInv'
<1>0. /\ pc[s] \notin E!Ended /\ pc' = [pc EXCEPT ![s] = "stopped"]
      /\ UNCHANGED <<cache, handle, leader, proc, plan, of>>
      /\ \/ of[s] = s /\ pc[s] = "waits" /\ E!Decrement(s) /\ gone' = gone
         \/ /\ gone' = IF pc[s] \in {"begins", "invalidates"} THEN gone ELSE [gone EXCEPT ![of[s]] = gone[of[s]] + 1]
            /\ UNCHANGED <<count, watch>>
  BY DEF E!Stop, E!Goto, E!Made
<1>1. CASE of[s] = s /\ pc[s] = "waits" /\ E!Decrement(s) /\ gone' = gone
  <2>1. s \in Listeners(s)
    BY <1>1 DEF Listeners, E!Listens
  <2>. QED BY <1>0, <1>1, <2>1, RequestLeaves DEF E!Ended
<1>2. CASE /\ gone' = IF pc[s] \in {"begins", "invalidates"} THEN gone ELSE [gone EXCEPT ![of[s]] = gone[of[s]] + 1]
           /\ UNCHANGED <<count, watch>>
  BY <1>0, <1>2, RequestGoes
<1>. QED BY <1>0, <1>1, <1>2

-----------------------------------------------------------------------------
(* The fiber that runs a block, and its resolver, leave the slots alone.        *)
LEMMA BlockFacts ==
  ASSUME RequestInv
  PROVE  /\ RequestShape /\ Cached /\ E!RunOnce /\ Nobody \notin Slot
         /\ \A t \in Slot : EntryState(t) /\ LedBy(t) /\ BlockState(t) /\ Tallied(t)
         /\ \A l \in Slot : \A e \in E!Block(l) : e \in Slot /\ leader[e] = l /\ of[e] = e
<1>1. /\ RequestShape /\ Cached /\ E!RunOnce /\ Nobody \notin Slot
      /\ \A t \in Slot : EntryState(t) /\ LedBy(t) /\ BlockState(t) /\ Tallied(t)
  BY SlotAssumption DEF RequestInv
<1>. QED BY <1>1 DEF E!Block, EntryState

(* Nobody listens to an entry that counts nobody.                              *)
LEMMA UnwantedEnded ==
  ASSUME RequestInv, NEW l \in Slot, NEW e \in E!Block(l), count[e] = 0
  PROVE  pc[e] \in E!Ended
<1>1. e \in Slot /\ of[e] = e /\ RequestShape /\ EntryState(e) /\ Tallied(e)
  BY BlockFacts
<1>2. Cardinality(Listeners(e)) = 0
  BY <1>1, ListenersFinite DEF Tallied, RequestShape
<1>3. Listeners(e) = {}
  BY <1>2, ListenersFinite, FS_EmptySet
<1>. QED BY <1>1, <1>3 DEF Listeners, E!Listens, EntryState, RequestShape

(* A step of one block, when the resolver has not ended before.                 *)
LEMMA BlockSteps ==
  ASSUME RequestInv, NEW l \in Slot, RequestShape',
         UNCHANGED <<plan, cache, of, count, handle, leader, pc, gone>>,
         \A t \in Slot : t # l => proc'[t] = proc[t] /\ watch'[t] = watch[t],
         proc[l] = "ended" => proc'[l] = "ended",
         watch[l] # "none",
         BlockState(l) => BlockState(l)'
  PROVE  RequestInv'
<1>0. /\ Cached /\ E!RunOnce /\ RequestShape /\ Nobody \notin Slot
      /\ \A t \in Slot : EntryState(t) /\ LedBy(t) /\ BlockState(t) /\ Tallied(t)
  BY BlockFacts
<1>1. Cached' /\ E!RunOnce'
  BY <1>0 DEF Cached, E!RunOnce, E!Wants
<1>2. \A t \in Slot : Tallied(t)'
  BY <1>0, TalliedStill
<1>3. ASSUME NEW t \in Slot PROVE EntryState(t)'
  <2>. QED BY <1>0 DEF EntryState
<1>4. ASSUME NEW t \in Slot PROVE LedBy(t)'
  <2>1. leader[t] # Nobody /\ proc[leader[t]] = "ended" => proc'[leader[t]] = "ended"
    BY <1>0 DEF RequestShape
  <2>2. LedBy(t)
    BY <1>0
  <2>. QED BY <2>1, <2>2 DEF LedBy
<1>5. ASSUME NEW t \in Slot PROVE BlockState(t)'
  <2>1. CASE t = l
    BY <1>0, <2>1
  <2>2. CASE t # l
    <3>1. E!Block(t)' = E!Block(t)
      BY DEF E!Block
    <3>2. BlockState(t) /\ proc'[t] = proc[t] /\ watch'[t] = watch[t]
      BY <1>0, <2>2
    <3>. QED BY <3>1, <3>2 DEF BlockState
  <2>. QED BY <2>1, <2>2
<1>. QED BY <1>1, <1>2, <1>3, <1>4, <1>5 DEF RequestInv

LEMMA ResolverForked == ASSUME RequestInv, NEW l \in Slot, E!ForkResolver(l) PROVE RequestInv'
<1>0. /\ UNCHANGED <<plan, cache, of, count, handle, leader, pc, gone>> /\ watch[l] = "forks"
      /\ proc' = [proc EXCEPT ![l] = "runs"] /\ watch' = [watch EXCEPT ![l] = "registers"]
      /\ RequestShape /\ BlockState(l)
  BY BlockFacts DEF E!ForkResolver, E!entries, E!slots, E!history
<1>1. /\ proc'[l] = "runs" /\ watch'[l] = "registers"
      /\ \A t \in Slot : t # l => proc'[t] = proc[t] /\ watch'[t] = watch[t]
  BY <1>0 DEF RequestShape
<1>2. RequestShape'
  BY <1>0 DEF RequestShape, E!Ended
<1>3. BlockState(l)' /\ proc[l] = "none"
  BY <1>0, <1>1 DEF BlockState
<1>. QED BY <1>0, <1>1, <1>2, <1>3, BlockSteps

LEMMA BlockRegisters == ASSUME RequestInv, NEW l \in Slot, E!Register(l) PROVE RequestInv'
<1>. DEFINE next == IF proc[l] # "runs" THEN "thrown"
                    ELSE IF \A e \in E!Block(l) : count[e] = 0 THEN "stops" ELSE "listens"
<1>0. /\ UNCHANGED <<plan, cache, of, count, handle, leader, proc, pc, gone>> /\ watch[l] = "registers"
      /\ watch' = [watch EXCEPT ![l] = next]
      /\ RequestShape /\ BlockState(l)
  BY BlockFacts DEF E!Register, E!Unwanted, E!entries, E!slots, E!history
<1>1. /\ watch'[l] = next
      /\ \A t \in Slot : t # l => proc'[t] = proc[t] /\ watch'[t] = watch[t]
  BY <1>0 DEF RequestShape
<1>2. RequestShape'
  BY <1>0 DEF RequestShape
<1>3. proc[l] \in {"runs", "ended", "died"} /\ leader[l] = l
  BY <1>0 DEF BlockState, RequestShape
<1>4. /\ next = "stops" => \A e \in E!Block(l) : pc[e] \in E!Ended
      /\ next = "listens" => \E e \in E!Block(l) : count[e] > 0
  <2>1. \A e \in E!Block(l) : count[e] # 0 => count[e] > 0
    BY <1>0 DEF RequestShape, E!Block
  <2>. QED BY <2>1, UnwantedEnded
<1>5. /\ next \in {"thrown", "stops", "listens"}
      /\ next = "listens" => proc[l] = "runs"
  BY <1>3
<1>. HIDE DEF next
<1>6. BlockState(l)'
  <2>1. E!Block(l)' = E!Block(l)
    BY <1>0 DEF E!Block
  <2>. QED BY <1>0, <1>1, <1>3, <1>4, <1>5, <2>1 DEF BlockState
<1>. QED BY <1>0, <1>1, <1>2, <1>6, BlockSteps

LEMMA ResolverInterrupted == ASSUME RequestInv, NEW l \in Slot, E!InterruptResolver(l) PROVE RequestInv'
<1>0. /\ UNCHANGED <<plan, cache, of, count, handle, leader, watch, pc, gone>> /\ watch[l] = "stops" /\ proc[l] = "runs"
      /\ proc' = [proc EXCEPT ![l] = "interrupted"]
      /\ RequestShape /\ BlockState(l)
  BY BlockFacts DEF E!InterruptResolver, E!entries, E!slots, E!history
<1>1. proc'[l] = "interrupted" /\ \A t \in Slot : t # l => proc'[t] = proc[t] /\ watch'[t] = watch[t]
  BY <1>0 DEF RequestShape
<1>2. RequestShape'
  BY <1>0 DEF RequestShape
<1>3. BlockState(l)'
  <2>1. E!Block(l)' = E!Block(l)
    BY <1>0 DEF E!Block
  <2>. QED BY <1>0, <1>1, <2>1 DEF BlockState
<1>. QED BY <1>0, <1>1, <1>2, <1>3, BlockSteps

LEMMA ResolverStopped == ASSUME RequestInv, NEW l \in Slot, E!Stopped(l) PROVE RequestInv'
<1>0. /\ UNCHANGED <<plan, cache, of, count, handle, leader, proc, pc, gone>> /\ watch[l] = "stops"
      /\ watch' = [watch EXCEPT ![l] = "completes"]
      /\ RequestShape /\ BlockState(l)
  BY BlockFacts DEF E!Stopped, E!entries, E!slots, E!history
<1>1. watch'[l] = "completes" /\ \A t \in Slot : t # l => proc'[t] = proc[t] /\ watch'[t] = watch[t]
  BY <1>0 DEF RequestShape
<1>2. RequestShape'
  BY <1>0 DEF RequestShape
<1>3. BlockState(l)'
  <2>1. E!Block(l)' = E!Block(l)
    BY <1>0 DEF E!Block
  <2>. QED BY <1>0, <1>1, <2>1 DEF BlockState
<1>. QED BY <1>0, <1>1, <1>2, <1>3, BlockSteps

LEMMA ResolverEnds ==
  ASSUME RequestInv, NEW l \in Slot, NEW exit \in {"ended", "died"}, E!EndResolver(l, exit)
  PROVE  RequestInv'
<1>. DEFINE next == IF watch[l] = "listens" THEN IF exit = "died" THEN "over" ELSE "completes" ELSE watch[l]
<1>0. /\ UNCHANGED <<plan, cache, of, count, handle, leader, pc, gone>> /\ proc[l] = "runs"
      /\ proc' = [proc EXCEPT ![l] = exit]
      /\ watch' = IF watch[l] = "listens" THEN [watch EXCEPT ![l] = IF exit = "died" THEN "over" ELSE "completes"] ELSE watch
      /\ RequestShape /\ BlockState(l)
  BY BlockFacts DEF E!EndResolver, E!After, E!entries, E!slots, E!history
<1>1. /\ proc'[l] = exit /\ watch'[l] = next
      /\ \A t \in Slot : t # l => proc'[t] = proc[t] /\ watch'[t] = watch[t]
  BY <1>0 DEF RequestShape
<1>2. RequestShape'
  <2>1. proc' \in [Slot -> {"none", "runs", "ended", "died", "interrupted"}]
    BY <1>0 DEF RequestShape
  <2>2. watch' \in [Slot -> {"none", "forks", "registers", "listens", "stops", "completes", "over", "thrown"}]
    BY <1>0 DEF RequestShape
  <2>. QED BY <1>0, <2>1, <2>2 DEF RequestShape
<1>3. watch[l] \notin {"none", "forks"}
  BY <1>0 DEF BlockState
<1>4. BlockState(l)'
  <2>1. E!Block(l)' = E!Block(l)
    BY <1>0 DEF E!Block
  <2>. QED BY <1>0, <1>1, <1>3, <2>1 DEF BlockState
<1>. QED BY <1>0, <1>1, <1>2, <1>3, <1>4, BlockSteps

(* An entry is completed: by its resolver, or because it did not.               *)
LEMMA EntryCompleted ==
  ASSUME RequestInv, NEW l \in Slot, NEW e \in E!Block(l), NEW result \in {"value", "interrupted"},
         handle' = [handle EXCEPT ![e] = result],
         UNCHANGED <<plan, cache, of, count, leader, proc, watch, pc, gone>>,
         result = "interrupted" => proc[l] = "ended" \/ pc[e] \in E!Ended
  PROVE  RequestInv'
<1>0. /\ Cached /\ E!RunOnce /\ RequestShape /\ Nobody \notin Slot
      /\ \A t \in Slot : EntryState(t) /\ LedBy(t) /\ BlockState(t) /\ Tallied(t)
      /\ e \in Slot /\ leader[e] = l /\ of[e] = e
  BY BlockFacts
<1>1. handle'[e] = result /\ \A t \in Slot \ {e} : handle'[t] = handle[t]
  BY <1>0 DEF RequestShape
<1>2. RequestShape'
  BY <1>0 DEF RequestShape
<1>3. Cached' /\ E!RunOnce'
  BY <1>0, <1>1 DEF Cached, E!RunOnce, E!Wants
<1>4. \A t \in Slot : Tallied(t)'
  BY <1>0, TalliedStill
<1>5. ASSUME NEW t \in Slot PROVE EntryState(t)' /\ LedBy(t)' /\ BlockState(t)'
  <2>0. EntryState(t) /\ LedBy(t) /\ BlockState(t)
    BY <1>0
  <2>1. EntryState(t)'
    <3>1. of[t] # Nobody => of[t] \in Slot
      BY <1>0 DEF RequestShape
    <3>2. pc[t] = "invalidates" => handle'[of[t]] # "pending"
      BY <1>0, <1>1, <2>0, <3>1 DEF EntryState
    <3>. QED BY <1>0, <1>1, <2>0, <3>2 DEF EntryState
  <2>2. LedBy(t)'
    BY <1>0, <1>1, <2>0 DEF LedBy
  <2>3. E!Block(t)' = E!Block(t)
    BY DEF E!Block
  <2>4. BlockState(t)'
    BY <2>0, <2>3 DEF BlockState
  <2>. QED BY <2>1, <2>2, <2>4
<1>. QED BY <1>2, <1>3, <1>4, <1>5 DEF RequestInv

LEMMA RestCompleted == ASSUME RequestInv, NEW l \in Slot, E!CompleteRest(l) PROVE RequestInv'
<1>0. /\ watch[l] = "completes" /\ UNCHANGED <<plan, cache, of, count, leader, proc, pc, gone>>
      /\ RequestShape /\ BlockState(l)
      /\ \/ watch' = [watch EXCEPT ![l] = "over"] /\ handle' = handle
         \/ /\ E!Residual(l) # {} /\ watch' = watch
            /\ handle' = [handle EXCEPT ![CHOOSE e \in E!Residual(l) : TRUE] = "interrupted"]
  BY BlockFacts DEF E!CompleteRest, E!slots, E!history
<1>1. CASE watch' = [watch EXCEPT ![l] = "over"] /\ handle' = handle
  <2>1. watch'[l] = "over" /\ \A t \in Slot : t # l => proc'[t] = proc[t] /\ watch'[t] = watch[t]
    BY <1>0, <1>1 DEF RequestShape
  <2>2. RequestShape'
    BY <1>0, <1>1 DEF RequestShape
  <2>3. BlockState(l)'
    <3>1. E!Block(l)' = E!Block(l)
      BY <1>0 DEF E!Block
    <3>. QED BY <1>0, <2>1, <3>1 DEF BlockState
  <2>. QED BY <1>0, <1>1, <2>1, <2>2, <2>3, BlockSteps
<1>2. CASE /\ E!Residual(l) # {} /\ watch' = watch
           /\ handle' = [handle EXCEPT ![CHOOSE e \in E!Residual(l) : TRUE] = "interrupted"]
  <2>1. PICK e \in E!Block(l) : handle' = [handle EXCEPT ![e] = "interrupted"]
    BY <1>2 DEF E!Residual
  <2>2. proc[l] = "ended" \/ pc[e] \in E!Ended
    BY <1>0 DEF BlockState
  <2>. QED BY <1>0, <1>2, <2>1, <2>2, EntryCompleted
<1>. QED BY <1>0, <1>1, <1>2

LEMMA ResolverCompletes ==
  ASSUME RequestInv, NEW l \in Slot, NEW e \in Slot, E!Complete(l, e) PROVE RequestInv'
<1>1. /\ e \in E!Block(l) /\ handle' = [handle EXCEPT ![e] = "value"]
      /\ UNCHANGED <<plan, cache, of, count, leader, proc, watch, pc, gone>>
  BY DEF E!Complete, E!Residual, E!block, E!slots, E!history
<1>. QED BY <1>1, EntryCompleted

-----------------------------------------------------------------------------
LEMMA RequestKept ==
  ASSUME RequestInv, UNCHANGED <<plan, cache, of, count, handle, leader, proc, watch, pc, gone>>
  PROVE  RequestInv'
<1>1. RequestShape' /\ Cached' /\ E!RunOnce'
  BY BlockFacts DEF RequestShape, Cached, E!RunOnce, E!Wants
<1>2. \A t \in Slot : Tallied(t)'
  BY BlockFacts, TalliedStill
<1>3. ASSUME NEW t \in Slot PROVE EntryState(t)' /\ LedBy(t)' /\ BlockState(t)'
  <2>1. EntryState(t)' /\ LedBy(t)'
    BY BlockFacts DEF EntryState, LedBy
  <2>2. E!Block(t)' = E!Block(t)
    BY DEF E!Block
  <2>. QED BY BlockFacts, <2>1, <2>2 DEF BlockState
<1>. QED BY <1>1, <1>2, <1>3 DEF RequestInv

LEMMA RequestStep == ASSUME RequestInv, E!Next PROVE RequestInv'
<1>1. ASSUME NEW s \in Slot, E!SlotStep(s) PROVE RequestInv'
  BY <1>1, RequestAttaches, RequestForks, RequestResumes, RequestReceives, RequestInvalidates, RequestStops
     DEF E!SlotStep
<1>2. ASSUME NEW l \in Slot, E!BlockStep(l) PROVE RequestInv'
  BY <1>2, ResolverForked, BlockRegisters, ResolverInterrupted, ResolverStopped, RestCompleted DEF E!BlockStep
<1>3. ASSUME NEW a \in Stoppable, E!Interrupt(a) PROVE RequestInv'
  BY <1>3, RequestKept DEF E!Interrupt, E!entries, E!block, E!slots, E!history
<1>. QED BY <1>1, <1>2, <1>3, ResolverCompletes, ResolverEnds DEF E!Next

LEMMA RequestBegins == ASSUME E!Init PROVE RequestInv
<1>0. /\ plan \in Plans /\ cache = [r \in Query |-> Nobody]
      /\ of = [s \in Slot |-> Nobody] /\ leader = [s \in Slot |-> Nobody]
      /\ count = [s \in Slot |-> 0] /\ gone = [s \in Slot |-> 0]
      /\ handle = [s \in Slot |-> "pending"]
      /\ proc = [s \in Slot |-> "none"] /\ watch = [s \in Slot |-> "none"]
      /\ pc = [s \in Slot |-> "begins"] /\ Nobody \notin Slot
  BY SlotAssumption DEF E!Init
<1>1. RequestShape
  BY <1>0 DEF RequestShape
<1>2. Cached /\ E!RunOnce
  BY <1>0 DEF Cached, E!RunOnce
<1>3. ASSUME NEW s \in Slot PROVE EntryState(s) /\ LedBy(s) /\ BlockState(s) /\ Tallied(s)
  <2>1. EntryState(s) /\ LedBy(s)
    BY <1>0 DEF EntryState, LedBy
  <2>2. BlockState(s)
    BY <1>0 DEF BlockState
  <2>3. Listeners(s) = {}
    BY <1>0 DEF Listeners, E!Listens
  <2>4. Tallied(s)
    BY <1>0, <2>3, FS_EmptySet DEF Tallied
  <2>. QED BY <2>1, <2>2, <2>4
<1>. QED BY <1>1, <1>2, <1>3 DEF RequestInv

LEMMA CountIsTrue ==
  ASSUME \A e \in Slot : Tallied(e),
         \A l \in Slot : watch[l] = "listens" => \E e \in E!Block(l) : count[e] > 0
  PROVE  E!ListenersCounted
BY SameCount DEF Tallied, Listeners, E!ListenersCounted

LEMMA RequestTrue == ASSUME RequestInv PROVE RequestsShared
<1>1. E!ListenersCounted
  BY BlockFacts, CountIsTrue DEF BlockState
<1>2. E!NotTheirFault
  BY BlockFacts DEF LedBy, E!NotTheirFault
<1>. QED BY <1>1, <1>2, BlockFacts DEF RequestsShared, E!RequestsShared

LEMMA RestsShared == ASSUME RequestRests PROVE RequestsShared
<1>0. /\ of = [s \in Slot |-> Nobody] /\ count = [s \in Slot |-> 0] /\ gone = [s \in Slot |-> 0]
      /\ watch = [s \in Slot |-> "none"] /\ pc = [s \in Slot |-> "stopped"] /\ Nobody \notin Slot
  BY SlotAssumption DEF RequestRests
<1>1. E!ListenersCounted
  <2>1. \A e \in Slot : Listeners(e) = {}
    BY <1>0 DEF Listeners, E!Listens
  <2>2. \A e \in Slot : Tallied(e)
    BY <1>0, <2>1, FS_EmptySet DEF Tallied
  <2>. QED BY <1>0, <2>2, CountIsTrue
<1>2. E!RunOnce /\ E!NotTheirFault
  BY <1>0 DEF E!RunOnce, E!NotTheirFault
<1>. QED BY <1>1, <1>2 DEF RequestsShared, E!RequestsShared

(* RequestsShared, for any set of slots, requests and interruptible fibers: a    *)
(* resolver is told to stop only when nobody is counted by its entries, an entry *)
(* that may be completed is the one its request has, and a slot fails only when  *)
(* its resolver ended without it.                                             *)
THEOREM RequestsAreShared == AllSpec => []RequestsShared
<1>. DEFINE Inv == IF runs = "request" THEN RequestInv ELSE RequestRests
<1>1. AllInit => Inv
  BY RequestBegins DEF AllInit
<1>2. Inv /\ [AllNext]_all => Inv'
  <2>. SUFFICES ASSUME Inv, [AllNext]_all PROVE Inv'
    OBVIOUS
  <2>1. CASE InPool /\ Next
    <3>1. UNCHANGED <<runs, request>>
      BY <2>1 DEF InPool
    <3>. QED BY <3>1, RequestKept DEF request, RequestRests
  <2>2. CASE InRequest /\ E!Next
    <3>1. runs = "request" /\ runs' = runs
      BY <2>2 DEF InRequest
    <3>. QED BY <2>2, <3>1, RequestStep
  <2>3. CASE UNCHANGED all
    BY <2>3, RequestKept DEF all, request, RequestRests
  <2>. QED BY <2>1, <2>2, <2>3 DEF AllNext
<1>3. Inv => RequestsShared
  BY RequestTrue, RestsShared
<1>. QED BY <1>1, <1>2, <1>3, PTL DEF AllSpec
=============================================================================
