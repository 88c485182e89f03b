---------------------------- MODULE AtomicPubSub ----------------------------
(***************************************************************************)
(* The data structures below a PubSub (internal/pubsub.ts): values that are *)
(* kept until every subscription that was there when they were published    *)
(* has read them.                                                          *)
(*                                                                         *)
(* A value is published at an absolute index, in slot index % cap, with a    *)
(* count of the subscriptions yet to read it; a subscription has an index,  *)
(* too.  BoundedPubSubPow2 computes the same slot with a mask.              *)
(* BoundedPubSubSingle is a slot with no index of the oldest value.  In      *)
(* UnboundedPubSub a value's count is in the node before it, and the count   *)
(* of its tail is the number of subscriptions: every index has a slot.      *)
(***************************************************************************)
EXTENDS Integers, Sequences, FiniteSets

CONSTANTS Subscription,
          Absent,         \* AbsentValue
          Unbounded       \* the capacity that stands for none

ASSUME UnboundedAssumption == Unbounded \notin Nat

Least(m, n) == IF m <= n THEN m ELSE n
Greatest(m, n) == IF m <= n THEN n ELSE m
First(s, n) == SubSeq(s, 1, n)
After(s, n) == SubSeq(s, n + 1, Len(s))

(* The slots there are when n values have been published.                    *)
Slots(cap, n) == IF cap = Unbounded THEN 0..(n - 1) ELSE 0..(cap - 1)

EmptyRing(cap) ==
  [cap |-> cap,
   array |-> [k \in Slots(cap, 0) |-> Absent],
   counts |-> [k \in Slots(cap, 0) |-> 0],      \* subscribers
   pub |-> 0,                                   \* publisherIndex
   oldest |-> 0,                                \* subscribersIndex
   index |-> [s \in Subscription |-> 0],        \* subscriberIndex of each
   subscribed |-> {}]                           \* subscriberCount of them

Single(r) == r.cap = 1
Slot(r, i) == IF r.cap = Unbounded THEN i ELSE i % r.cap

IsEmpty(r) == IF Single(r) THEN r.counts[0] = 0 ELSE r.pub = r.oldest
IsFull(r) == CASE r.cap = Unbounded -> FALSE
               [] Single(r) -> ~IsEmpty(r)
               [] OTHER -> r.pub = r.oldest + r.cap
SizeOf(r) == IF Single(r) THEN IF IsEmpty(r) THEN 0 ELSE 1 ELSE r.pub - r.oldest

-----------------------------------------------------------------------------
(* Publishing.                                                              *)

(* Which of the next n values goes into slot k.                              *)
Landing(r, n, k) == {j \in 1..n : Slot(r, r.pub + j - 1) = k}

(* Store as many values as there are slots for.                             *)
Store(r, vs) ==
  LET slots == Slots(r.cap, r.pub + Len(vs))
  IN [r EXCEPT
        !.array = [k \in slots |-> IF Landing(r, Len(vs), k) = {} THEN @[k]
                                   ELSE vs[CHOOSE j \in Landing(r, Len(vs), k) : TRUE]],
        !.counts = [k \in slots |-> IF Landing(r, Len(vs), k) = {} THEN @[k]
                                    ELSE Cardinality(r.subscribed)],
        !.pub = @ + Len(vs)]

(* publish, when it is not full: a value nobody will read is not stored.     *)
Publish(r, v) == IF r.subscribed = {} THEN r ELSE Store(r, <<v>>)

(* publishAll: how many of n values are taken in.                           *)
Fitting(r, n) == IF r.cap = Unbounded THEN n
                 ELSE IF Single(r) THEN Least(n, 1 - SizeOf(r))
                 ELSE Least(n, r.cap - SizeOf(r))

(* publishAll of a ring does not ask whether anybody is subscribed.          *)
AsksFirst(r) == Single(r) \/ r.cap = Unbounded
PublishAll(r, vs) == IF AsksFirst(r) /\ r.subscribed = {} THEN r
                     ELSE Store(r, First(vs, Fitting(r, Len(vs))))

(* slide: drop the oldest value, whoever has yet to read it.                 *)
DropOldest(r) ==
  IF IsEmpty(r) THEN r
  ELSE LET k == IF Single(r) THEN 0 ELSE Slot(r, r.oldest)
       IN [r EXCEPT !.array[k] = Absent, !.counts[k] = 0,
                    !.oldest = IF Single(r) THEN @ ELSE @ + 1]

-----------------------------------------------------------------------------
(* Subscriptions.                                                           *)

(* Seeded bug: a subscription reads on where it was, whatever slid away.     *)
WhereItWas(r, s) == r.index[s]

(* Where a subscription reads next: values may have slid away under it.      *)
Position(r, s) == IF Single(r) THEN r.index[s] ELSE Greatest(r.index[s], r.oldest)

Unread(r, s) ==
  CASE s \notin r.subscribed -> 0
    [] s \in r.subscribed /\ ~Single(r) -> r.pub - Position(r, s)
    [] s \in r.subscribed /\ Single(r) -> IF IsEmpty(r) \/ r.index[s] = r.pub THEN 0 ELSE 1

NextValues(r, s, n) == [k \in 1..n |-> r.array[Slot(r, Position(r, s) + k - 1)]]

(* The next n values need not be kept for s.  A slot whose count becomes     *)
(* zero is freed, and the oldest value is the next one.                     *)
Release(r, s, n) ==
  LET mine == Position(r, s)..(Position(r, s) + n - 1)
      freed == {i \in mine : r.counts[Slot(r, i)] = 1}
      slots(I) == {Slot(r, i) : i \in I}
  IN [r EXCEPT
        !.array = [k \in DOMAIN @ |-> IF k \in slots(freed) THEN Absent ELSE @[k]],
        !.counts = [k \in DOMAIN @ |-> IF k \in slots(mine) THEN @[k] - 1 ELSE @[k]],
        !.oldest = IF Single(r) THEN @ ELSE @ + Cardinality(freed),
        !.index[s] = Position(r, s) + n]

(* subscribe: from the next value on.                                        *)
Subscribed(r, s) == [r EXCEPT !.subscribed = @ \cup {s}, !.index[s] = r.pub]

(* Seeded bug: the values a subscription has not read stay counted for it.   *)
LeaveUnread(r, s) == [r EXCEPT !.subscribed = @ \ {s}]

(* unsubscribe.  In a single slot the value is given up by its index alone.  *)
StillCounted(r, s) == IF Single(r) THEN IF r.index[s] = r.pub THEN 0 ELSE 1 ELSE Unread(r, s)
Unsubscribed(r, s) == [Release(r, s, StillCounted(r, s)) EXCEPT !.subscribed = @ \ {s}]
=============================================================================
