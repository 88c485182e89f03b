---------------------------- MODULE PubSubProofs ----------------------------
(***************************************************************************)
(* What a PubSub promises, for any clients, programs, subscriptions and      *)
(* capacities: nobody waits in vain, every subscriber sees all, and nothing  *)
(* is kept that nobody has to read.                                         *)
(*                                                                         *)
(* First the ring (RingInv): what its counts say of the subscriptions, and   *)
(* what each operation of AtomicPubSub does to them.  Then the PubSub: who   *)
(* is in which line while the loops run (LoopInv), what the history says     *)
(* (LogInv, SeenInv), and that no value is published twice (ValueInv).      *)
(*                                                                         *)
(* A sliding PubSub of capacity one is left out: its index of a subscription *)
(* falls two behind and no longer tells what has been read.                 *)
(***************************************************************************)
EXTENDS PubSub, SequenceLemmas, FiniteSetTheorems

NoSlidingSlot == <<"sliding", 1>> \notin Kind

-----------------------------------------------------------------------------
(* The ring.                                                                *)

(* The index of the oldest value there is.                                  *)
Low(r) == IF Single(r) THEN r.pub - SizeOf(r) ELSE r.oldest

(* Who has yet to read the value at index i.                                *)
Readers(r, i) == {s \in r.subscribed : r.index[s] <= i}

RingShape(r) ==
  /\ r = [cap |-> r.cap, array |-> r.array, counts |-> r.counts, pub |-> r.pub,
          oldest |-> r.oldest, index |-> r.index, subscribed |-> r.subscribed]
  /\ r.cap = Unbounded \/ r.cap \in Nat \ {0}
  /\ DOMAIN r.array = Slots(r.cap, r.pub) /\ DOMAIN r.counts = Slots(r.cap, r.pub)
  /\ r.pub \in Nat /\ r.oldest \in Nat
  /\ r.index \in [Subscription -> Nat]
  /\ r.subscribed \subseteq Subscription /\ IsFiniteSet(r.subscribed)

(* The values from the oldest to the newest have a slot each, whose count is *)
(* the number of subscriptions that have not come past them.                *)
RingInv(r) ==
  /\ RingShape(r)
  /\ \A k \in DOMAIN r.counts : r.counts[k] \in Nat
  /\ Low(r) \in 0..r.pub
  /\ r.cap # Unbounded => r.pub <= Low(r) + r.cap
  /\ \A s \in r.subscribed : r.index[s] <= r.pub /\ (Single(r) => Low(r) <= r.index[s])
  /\ \A i \in Low(r)..(r.pub - 1) : r.counts[Slot(r, i)] = Cardinality(Readers(r, i))

(* Somebody has yet to read the oldest value.                               *)
Retains(r) == Low(r) < r.pub => Readers(r, Low(r)) # {}

(* The slots of the values that somebody has yet to read have what was       *)
(* stored.                                                                  *)
Holds(r, es) == \A i \in Low(r)..(r.pub - 1) :
                  Readers(r, i) # {} => r.array[Slot(r, i)] = es[i + 1].value

-----------------------------------------------------------------------------
(* The PubSub.                                                              *)

(* TypeOK without the history; and who is subscribed.                        *)
StateType ==
  /\ publishers \in Seq(Value)
  /\ pollers \in [Subscription -> Seq(Client)]
  /\ subscribers \in Seq(Subscription)
  /\ phase \in [Subscription -> {"out", "joining", "active", "leaving", "freeing", "ending", "gone"}]
  /\ isShutdown \in BOOLEAN /\ hook \in BOOLEAN /\ scopeOpen \in BOOLEAN
  /\ closing \in [todo : SUBSET Subscription, now : SUBSET Subscription]
  /\ polled \in [Subscription \cup {Hub} -> SUBSET Client]
  /\ calls \in Seq(Subscription \cup {Hub})
  /\ pc \in [Client -> Label]
  /\ doing \in [Client -> Operation]
  /\ rest \in [Client -> Seq(Value)]
  /\ deferred \in [Client -> {"none", "pending", "done", "interrupted"}]
  /\ interrupted \in [Client -> BOOLEAN]

PubType ==
  /\ StateType
  /\ \A c \in Client : pc[c] \in {"publish", "unsafeOffer"} => doing[c].lo = 1
  /\ RingInv(ring)
  /\ <<strategy, ring.cap>> \in Kind
  /\ ring.subscribed = {s \in Subscription : phase[s] \notin {"out", "gone"}}

(* Whom the loops have yet to come to.  A subscription on which somebody      *)
(* waits is among the subscribers; a taker stands beside a value, or a        *)
(* publisher beside room, only while the loop that pairs them is on the stack. *)
TakersInv ==
  /\ \A s \in ring.subscribed : pollers[s] # <<>> => s \in ToSet(subscribers)
  /\ \A s \in ring.subscribed : pollers[s] # <<>> /\ Unread(ring, s) # 0 => s \in ToSet(calls)
PublishersInv ==
  publishers # <<>> => strategy = "backPressure" /\ (IsFull(ring) \/ Hub \in ToSet(calls))

(* Nobody waits on a subscription that is not in anybody's hands yet.         *)
GivenInv ==
  /\ \A s \in Subscription : ~Given(s) => pollers[s] = <<>>
  /\ \A c \in Client : pc[c] = "joining" => Given(doing[c].on)

LoopInv == TakersInv /\ PublishersInv /\ GivenInv

Entry == [value : Value, audience : SUBSET Subscription]
Sent(es) == [k \in DOMAIN es |-> es[k].value]

(* The history is what the indices count, and the ring has the end of it.    *)
LogInv ==
  /\ log \in Seq(Entry) /\ seen \in [Subscription -> Seq(Value)]
  /\ Len(log) = ring.pub
  /\ Holds(ring, log)
  /\ (\A k \in DOMAIN log : log[k].audience # {}) => Retains(ring)

(* A value is published once: those in the history, those of publishers who  *)
(* wait and those a client has yet to send in are different ones.           *)
ValueInv ==
  /\ IsInjective(Sent(log)) /\ IsInjective(publishers)
  /\ ToSet(Sent(log)) \cap ToSet(publishers) = {}
  /\ \A c \in Client :
       /\ pc[c] \in {"publish", "publishAll", "unsafeOffer"} =>
            \A v \in ToSet(Sent(log)) \cup ToSet(publishers) : v[1] # c
       /\ pc[c] = "surplus" =>
            /\ IsInjective(rest[c])
            /\ \A v \in ToSet(rest[c]) :
                 v[1] = c /\ v \notin ToSet(Sent(log)) /\ v \notin ToSet(publishers)

(* The values t were read at the places at of the history, from b + 1 to n.   *)
Selected(t, at, b, n) ==
  /\ at \in [1..Len(t) -> (b + 1)..n]
  /\ \A j, k \in 1..Len(t) : j < k => at[j] < at[k]
  /\ \A k \in 1..Len(t) : t[k] = log[at[k]].value

(* Subscription s began after b values and has read those at the places at:   *)
(* in order, and without a gap unless values slid away.                      *)
ReadsOn(s, b, at) ==
  /\ b \in 0..ring.index[s]
  /\ \A k \in 1..Len(log) : s \in log[k].audience <=> k > b
  /\ Selected(seen[s], at, b, ring.index[s])
  /\ strategy # "sliding" =>
       /\ Len(seen[s]) = ring.index[s] - b /\ Low(ring) <= ring.index[s]
       /\ \A k \in 1..Len(seen[s]) : at[k] = b + k

SeenInv ==
  /\ \A s \in Subscription : phase[s] = "out" =>
       seen[s] = <<>> /\ \A k \in 1..Len(log) : s \notin log[k].audience
  /\ \A s \in ring.subscribed : \E b, at : ReadsOn(s, b, at)

PubInv == PubType /\ LoopInv /\ LogInv /\ ValueInv /\ SeenInv

-----------------------------------------------------------------------------
(* Slots.                                                                   *)

(* Two numbers less than n apart have different remainders.                  *)
LEMMA Remainders ==
  ASSUME NEW n \in Nat \ {0}, NEW i \in Nat, NEW j \in Nat, i < j, j < i + n
  PROVE  i % n # j % n
<1>0. \A m \in Nat : m = n * (m \div n) + (m % n) /\ m \div n \in Int /\ m % n \in Int
  OBVIOUS
<1>1. PICK a \in Int : i = n * a + (i % n)
  BY <1>0
<1>2. PICK b \in Int : j = n * b + (j % n)
  BY <1>0
<1>3. SUFFICES ASSUME i % n = j % n PROVE FALSE
  OBVIOUS
<1>4. j - i = n * b - n * a
  BY <1>0, <1>1, <1>2, <1>3
<1>5. PICK d \in Int : d = b - a
  OBVIOUS
<1>6. n * d > 0 /\ n * d < n
  <2>1. n * b - n * a = n * (b - a)
    OBVIOUS
  <2>. QED BY <1>4, <1>5, <2>1
<1>7. d <= 0 => n * d <= 0
  OBVIOUS
<1>8. d >= 1 => n * d >= n
  OBVIOUS
<1>. QED BY <1>5, <1>6, <1>7, <1>8

(* The slot of an index is one of the slots there are, and indices less than  *)
(* a capacity apart have slots of their own.                                *)
LEMMA SlotFacts ==
  ASSUME NEW r, r.cap = Unbounded \/ r.cap \in Nat \ {0}
  PROVE  /\ \A n \in Nat : \A i \in 0..(n - 1) : Slot(r, i) \in Slots(r.cap, n)
         /\ r.cap # Unbounded =>
              \A i, j \in Nat : j < i + r.cap /\ i < j + r.cap /\ Slot(r, i) = Slot(r, j) => i = j
         /\ r.cap = Unbounded => \A i, j \in Nat : Slot(r, i) = Slot(r, j) => i = j
         /\ Single(r) => Slots(r.cap, 0) = {0} /\ \A i \in Int : Slot(r, i) = 0
         /\ \A m, n \in Nat : m <= n => Slots(r.cap, m) \subseteq Slots(r.cap, n)
<1>1. CASE r.cap = Unbounded
  <2>1. r.cap # 1
    BY <1>1, UnboundedAssumption
  <2>. QED BY <1>1, <2>1 DEF Slot, Slots, Single
<1>2. CASE r.cap # Unbounded
  <2>1. PICK n \in Nat \ {0} : n = r.cap
    BY <1>2
  <2>2. \A i : Slot(r, i) = i % n
    BY <1>2, <2>1 DEF Slot
  <2>3. \A m : Slots(r.cap, m) = 0..(n - 1)
    BY <1>2, <2>1 DEF Slots
  <2>4. \A i \in Nat : i % n \in 0..(n - 1)
    OBVIOUS
  <2>5. \A i, j \in Nat : i < j /\ j < i + n => i % n # j % n
    BY Remainders
  <2>6. ASSUME NEW i \in Nat, NEW j \in Nat, j < i + n, i < j + n, i % n = j % n PROVE i = j
    <3>1. ~(i < j) /\ ~(j < i)
      BY <2>5, <2>6
    <3>. QED BY <3>1
  <2>7. Single(r) => Slots(r.cap, 0) = {0} /\ \A i \in Int : Slot(r, i) = 0
    BY <2>1, <2>2, <2>3 DEF Single
  <2>8. \A k \in Nat : \A i \in 0..(k - 1) : i \in Nat
    OBVIOUS
  <2>9. \A k \in Nat : \A i \in 0..(k - 1) : Slot(r, i) \in Slots(r.cap, k)
    BY <2>2, <2>3, <2>4, <2>8
  <2>10. \A i, j \in Nat : j < i + r.cap /\ i < j + r.cap /\ Slot(r, i) = Slot(r, j) => i = j
    BY <2>1, <2>2, <2>6
  <2>11. \A m, k \in Nat : m <= k => Slots(r.cap, m) \subseteq Slots(r.cap, k)
    BY <2>3
  <2>. QED BY <1>2, <2>7, <2>9, <2>10, <2>11
<1>. QED BY <1>1, <1>2

(* A downward closed part of an interval is an interval.                     *)
LEMMA InitialSegment ==
  ASSUME NEW p \in Nat, NEW n \in Nat, NEW F \in SUBSET (p..(p + n - 1)),
         \A i \in F : \A j \in p..i : j \in F
  PROVE  Cardinality(F) \in 0..n /\ F = p..(p + Cardinality(F) - 1)
<1>. DEFINE T == {x \in Nat : x >= p /\ x \notin F}
<1>1. p + n \in T
  OBVIOUS
<1>2. PICK x \in T : \A y \in T : x <= y
  BY <1>1, LeastNumber
<1>3. x \in p..(p + n)
  BY <1>1, <1>2
<1>4. F = p..(x - 1)
  <2>1. ASSUME NEW i \in F PROVE i \in p..(x - 1)
    <3>1. i \in p..(p + n - 1)
      OBVIOUS
    <3>2. x <= i => x \in F
      BY <1>3, <3>1
    <3>. QED BY <1>2, <1>3, <3>1, <3>2
  <2>2. ASSUME NEW i \in p..(x - 1), i \notin F PROVE FALSE
    BY <1>2, <1>3, <2>2
  <2>. QED BY <2>1, <2>2
<1>5. Cardinality(p..(x - 1)) = x - p
  <2>1. PICK y \in Int : y = x - 1
    BY <1>3
  <2>2. Cardinality(p..y) = IF p > y THEN 0 ELSE y - p + 1
    BY FS_Interval
  <2>. QED BY <1>3, <2>1, <2>2
<1>. QED BY <1>3, <1>4, <1>5

(* What the invariant of the ring says of one of them.                       *)
LEMMA RingFacts ==
  ASSUME NEW r, RingInv(r)
  PROVE  /\ Low(r) \in Nat /\ Low(r) <= r.pub /\ r.pub \in Nat
         /\ SizeOf(r) = r.pub - Low(r) /\ (IsEmpty(r) <=> Low(r) = r.pub)
         /\ IsFull(r) <=> (r.cap # Unbounded /\ r.pub = Low(r) + r.cap)
         /\ \A s \in r.subscribed :
              /\ Position(r, s) = Greatest(r.index[s], Low(r))
              /\ Position(r, s) \in Low(r)..r.pub
              /\ Unread(r, s) = r.pub - Position(r, s)
         /\ \A s : s \notin r.subscribed => Unread(r, s) = 0
         /\ \A i \in Low(r)..(r.pub - 1) : i \in Nat /\ Slot(r, i) \in DOMAIN r.counts
         /\ \A i, j \in Low(r)..(r.pub - 1) : Slot(r, i) = Slot(r, j) => i = j
<1>. USE DEF RingInv, RingShape
<1>1. Low(r) \in Nat /\ Low(r) <= r.pub /\ r.pub \in Nat
  OBVIOUS
<1>2. \A s \in r.subscribed : r.index[s] \in Nat /\ r.index[s] <= r.pub
  OBVIOUS
<1>3. \A s \in r.subscribed : Greatest(r.index[s], Low(r)) \in Low(r)..r.pub
  BY <1>1, <1>2 DEF Greatest
<1>6. \A i \in Low(r)..(r.pub - 1) : i \in Nat /\ Slot(r, i) \in DOMAIN r.counts
  BY <1>1, SlotFacts
<1>7. \A i, j \in Low(r)..(r.pub - 1) : Slot(r, i) = Slot(r, j) => i = j
  <2>1. CASE r.cap = Unbounded
    BY <1>1, <2>1, SlotFacts
  <2>2. CASE r.cap # Unbounded
    <3>1. r.pub <= Low(r) + r.cap /\ r.cap \in Nat
      BY <2>2
    <3>2. \A i, j \in Low(r)..(r.pub - 1) : i \in Nat /\ j \in Nat /\ j < i + r.cap /\ i < j + r.cap
      BY <1>1, <3>1
    <3>. QED BY <2>2, <3>2, SlotFacts
  <2>. QED BY <2>1, <2>2
<1>8. \A s : s \notin r.subscribed => Unread(r, s) = 0
  BY DEF Unread
<1>4. CASE Single(r)
  <2>1. r.cap = 1 /\ r.cap # Unbounded
    BY <1>4, UnboundedAssumption DEF Single
  <2>2. SizeOf(r) = IF IsEmpty(r) THEN 0 ELSE 1
    BY <1>4 DEF SizeOf
  <2>3. Low(r) = r.pub - SizeOf(r)
    BY <1>4 DEF Low
  <2>4. SizeOf(r) = r.pub - Low(r) /\ (IsEmpty(r) <=> Low(r) = r.pub)
    BY <1>1, <2>2, <2>3
  <2>5. IsFull(r) <=> ~IsEmpty(r)
    BY <1>4, <2>1 DEF IsFull
  <2>6. IsFull(r) <=> r.pub = Low(r) + r.cap
    BY <1>1, <2>1, <2>2, <2>3, <2>5
  <2>7. ASSUME NEW s \in r.subscribed
        PROVE  /\ Position(r, s) = Greatest(r.index[s], Low(r))
               /\ Unread(r, s) = r.pub - Position(r, s)
    <3>1. Position(r, s) = r.index[s] /\ Low(r) <= r.index[s]
      BY <1>4 DEF Position
    <3>2. Position(r, s) = Greatest(r.index[s], Low(r))
      BY <1>1, <1>2, <3>1 DEF Greatest
    <3>3. Unread(r, s) = IF IsEmpty(r) \/ r.index[s] = r.pub THEN 0 ELSE 1
      BY <1>4 DEF Unread
    <3>4. Low(r) = r.pub \/ Low(r) = r.pub - 1
      BY <1>1, <2>2, <2>3
    <3>5. r.index[s] \in Nat /\ Low(r) <= r.index[s] /\ r.index[s] <= r.pub
      BY <1>2, <3>1
    <3>6. (IsEmpty(r) \/ r.index[s] = r.pub) <=> r.index[s] = r.pub
      BY <1>1, <2>4, <3>5
    <3>7. r.index[s] # r.pub => r.index[s] = r.pub - 1
      BY <1>1, <3>4, <3>5
    <3>8. CASE r.index[s] = r.pub
      <4>1. Unread(r, s) = 0
        BY <3>3, <3>8
      <4>2. Position(r, s) = r.pub /\ r.pub - r.pub = 0
        BY <1>1, <3>1, <3>8
      <4>. QED BY <3>2, <4>1, <4>2
    <3>9. CASE r.index[s] # r.pub
      <4>1. Unread(r, s) = 1
        BY <3>3, <3>6, <3>9
      <4>. QED BY <1>1, <3>1, <3>2, <3>7, <3>9, <4>1
    <3>. QED BY <3>8, <3>9
  <2>8. IsFull(r) <=> (r.cap # Unbounded /\ r.pub = Low(r) + r.cap)
    BY <2>1, <2>6
  <2>9. \A s \in r.subscribed : Position(r, s) \in Low(r)..r.pub
    BY <1>3, <2>7
  <2>. QED BY <1>1, <1>6, <1>7, <1>8, <2>4, <2>7, <2>8, <2>9
<1>5. CASE ~Single(r)
  <2>1. Low(r) = r.oldest /\ SizeOf(r) = r.pub - Low(r) /\ (IsEmpty(r) <=> Low(r) = r.pub)
    BY <1>5 DEF Low, SizeOf, IsEmpty
  <2>2. IsFull(r) <=> (r.cap # Unbounded /\ r.pub = Low(r) + r.cap)
    BY <1>5, <2>1 DEF IsFull
  <2>3. \A s \in r.subscribed :
           /\ Position(r, s) = Greatest(r.index[s], Low(r))
           /\ Unread(r, s) = r.pub - Position(r, s)
    BY <1>5, <2>1 DEF Position, Unread
  <2>4. \A s \in r.subscribed : Position(r, s) \in Low(r)..r.pub
    BY <1>3, <2>3
  <2>. QED BY <1>1, <1>6, <1>7, <1>8, <2>1, <2>2, <2>3, <2>4
<1>. QED BY <1>4, <1>5

(* Only who is subscribed has something to read.                             *)
LEMMA UnreadType ==
  ASSUME NEW r, RingInv(r)
  PROVE  \A s : Unread(r, s) \in Nat /\ (Unread(r, s) # 0 => s \in r.subscribed)
<1>1. r.pub \in Nat /\ Low(r) \in Nat /\ \A s : s \notin r.subscribed => Unread(r, s) = 0
  BY RingFacts
<1>2. ASSUME NEW s \in r.subscribed PROVE Unread(r, s) \in Nat
  <2>1. Position(r, s) \in Low(r)..r.pub /\ Unread(r, s) = r.pub - Position(r, s)
    BY RingFacts
  <2>. QED BY <1>1, <2>1
<1>. QED BY <1>1, <1>2

-----------------------------------------------------------------------------
(* Storing values for which there is room.                                  *)
LEMMA StoreFacts ==
  ASSUME NEW r, RingInv(r), NEW V, NEW vs \in Seq(V), NEW q, q = Store(r, vs),
         r.cap # Unbounded => r.pub + Len(vs) <= Low(r) + r.cap,
         Single(r) => vs = <<>> \/ r.subscribed # {}
  PROVE  /\ RingInv(q)
         /\ q.cap = r.cap /\ q.subscribed = r.subscribed /\ q.index = r.index
         /\ q.pub = r.pub + Len(vs) /\ Low(q) = Low(r)
         /\ \A i \in Low(r)..(r.pub - 1) : q.array[Slot(r, i)] = r.array[Slot(r, i)]
         /\ \A j \in 1..Len(vs) : q.array[Slot(r, r.pub + j - 1)] = vs[j]
<1>. DEFINE slots == Slots(r.cap, r.pub + Len(vs))
            land(k) == Landing(r, Len(vs), k)
<1>0. PICK n \in Nat : n = Len(vs)
  OBVIOUS
<1>1. /\ q.cap = r.cap /\ q.subscribed = r.subscribed /\ q.index = r.index
      /\ q.oldest = r.oldest /\ q.pub = r.pub + n
      /\ q.array = [k \in slots |-> IF land(k) = {} THEN r.array[k]
                                    ELSE vs[CHOOSE j \in land(k) : TRUE]]
      /\ q.counts = [k \in slots |-> IF land(k) = {} THEN r.counts[k]
                                     ELSE Cardinality(r.subscribed)]
      /\ q = [cap |-> q.cap, array |-> q.array, counts |-> q.counts, pub |-> q.pub,
              oldest |-> q.oldest, index |-> q.index, subscribed |-> q.subscribed]
  BY <1>0 DEF Store, RingInv, RingShape
<1>2. /\ r.cap = Unbounded \/ r.cap \in Nat \ {0}
      /\ r.pub \in Nat /\ Low(r) \in Nat /\ Low(r) <= r.pub /\ r.pub + n \in Nat
  BY RingFacts DEF RingInv, RingShape
<1>3. \A i, j \in Low(r)..(r.pub + n - 1) : Slot(r, i) = Slot(r, j) => i = j
  <2>1. CASE r.cap = Unbounded
    BY <1>2, <2>1, SlotFacts
  <2>2. CASE r.cap # Unbounded
    <3>1. r.pub + n <= Low(r) + r.cap /\ r.cap \in Nat
      BY <1>0, <1>2, <2>2
    <3>2. \A i, j \in Low(r)..(r.pub + n - 1) :
             i \in Nat /\ j \in Nat /\ j < i + r.cap /\ i < j + r.cap
      BY <1>2, <3>1
    <3>. QED BY <1>2, <2>2, <3>2, SlotFacts
  <2>. QED BY <2>1, <2>2
<1>4. \A i \in Low(r)..(r.pub + n - 1) : i \in Nat /\ Slot(r, i) \in slots
  BY <1>0, <1>2, SlotFacts
<1>5. \A i \in Low(r)..(r.pub - 1) : land(Slot(r, i)) = {}
  <2>1. SUFFICES ASSUME NEW i \in Low(r)..(r.pub - 1), NEW j \in 1..n,
                        Slot(r, r.pub + j - 1) = Slot(r, i)
                 PROVE  FALSE
    BY <1>0 DEF Landing
  <2>2. PICK p \in Nat : p = r.pub
    BY <1>2
  <2>5. PICK l \in Nat : l = Low(r) /\ l <= p
    BY <1>2, <2>2
  <2>6. i \in l..(p - 1) /\ j \in 1..n
    BY <2>2, <2>5
  <2>3. i < p /\ i \in Low(r)..(p + n - 1) /\ p + j - 1 \in Low(r)..(p + n - 1) /\ p + j - 1 >= p
    BY <2>5, <2>6
  <2>4. i # p + j - 1
    BY <2>2, <2>3
  <2>. QED BY <1>3, <2>1, <2>2, <2>3, <2>4
<1>6. \A j \in 1..n : land(Slot(r, r.pub + j - 1)) = {j}
  <2>1. ASSUME NEW j \in 1..n, NEW m \in 1..n, Slot(r, r.pub + m - 1) = Slot(r, r.pub + j - 1)
        PROVE  m = j
    <3>0. \A k \in 1..n : r.pub + k - 1 \in Low(r)..(r.pub + n - 1)
      BY <1>2
    <3>1. r.pub + j - 1 \in Low(r)..(r.pub + n - 1) /\ r.pub + m - 1 \in Low(r)..(r.pub + n - 1)
      BY <3>0
    <3>2. r.pub + m - 1 = r.pub + j - 1
      BY <1>3, <2>1, <3>1
    <3>. QED BY <1>2, <3>2
  <2>. QED BY <1>0, <2>1 DEF Landing
<1>. HIDE DEF land, slots
<1>7. \A i \in Low(r)..(r.pub - 1) :
         i \in Low(r)..(r.pub + n - 1) /\ Slot(r, i) \in slots
           /\ q.array[Slot(r, i)] = r.array[Slot(r, i)]
           /\ q.counts[Slot(r, i)] = r.counts[Slot(r, i)]
  <2>1. \A i \in Low(r)..(r.pub - 1) : i \in Low(r)..(r.pub + n - 1)
    BY <1>2
  <2>. QED BY <1>1, <1>4, <1>5, <2>1
<1>8. \A j \in 1..n :
         /\ q.array[Slot(r, r.pub + j - 1)] = vs[j]
         /\ q.counts[Slot(r, r.pub + j - 1)] = Cardinality(r.subscribed)
  <2>1. \A j \in 1..n : r.pub + j - 1 \in Low(r)..(r.pub + n - 1)
    BY <1>2
  <2>2. \A j \in 1..n : Slot(r, r.pub + j - 1) \in slots
    BY <1>4, <2>1
  <2>3. ASSUME NEW j \in 1..n, NEW k, k = Slot(r, r.pub + j - 1)
        PROVE  q.array[k] = vs[j] /\ q.counts[k] = Cardinality(r.subscribed)
    <3>1. k \in slots /\ land(k) = {j}
      BY <1>6, <2>2, <2>3
    <3>2. {j} # {} /\ (CHOOSE m \in {j} : TRUE) = j
      OBVIOUS
    <3>3. (CHOOSE m \in land(k) : TRUE) = j /\ land(k) # {}
      BY <3>1, <3>2
    <3>. QED BY <1>1, <3>1, <3>3
  <2>. QED BY <2>3
<1>9. \A i : Slot(q, i) = Slot(r, i) /\ Readers(q, i) = Readers(r, i)
  BY <1>1 DEF Slot, Readers
<1>10. \A s \in r.subscribed : r.index[s] \in Nat /\ r.index[s] <= r.pub
  BY DEF RingInv, RingShape
<1>11. Cardinality(r.subscribed) \in Nat /\ (r.subscribed # {} => Cardinality(r.subscribed) # 0)
  BY FS_CardinalityType, FS_EmptySet DEF RingInv, RingShape
<1>12. \A k \in slots : q.counts[k] \in Nat
  <2>1. ASSUME NEW k \in slots, land(k) = {} PROVE k \in DOMAIN r.counts
    <3>1. CASE r.cap = Unbounded
      <4>1. slots = 0..(r.pub + n - 1) /\ DOMAIN r.counts = 0..(r.pub - 1)
        BY <1>0, <3>1 DEF slots, Slots, RingInv, RingShape
      <4>2. ASSUME k >= r.pub PROVE FALSE
        <5>1. k - r.pub + 1 \in 1..n /\ r.pub + (k - r.pub + 1) - 1 = k
          BY <1>2, <4>1, <4>2
        <5>2. Slot(r, r.pub + (k - r.pub + 1) - 1) = k
          BY <3>1, <5>1 DEF Slot
        <5>. QED BY <1>6, <2>1, <5>1, <5>2
      <4>. QED BY <1>2, <4>1, <4>2
    <3>2. CASE r.cap # Unbounded
      BY <3>2 DEF slots, Slots, RingInv, RingShape
    <3>. QED BY <3>1, <3>2
  <2>. QED BY <1>1, <1>11, <2>1 DEF RingInv
<1>13. Low(q) = Low(r)
  <2>1. CASE ~Single(r)
    BY <1>1, <2>1 DEF Low, Single
  <2>2. CASE Single(r)
    <3>1. Slot(r, r.pub + 1 - 1) = 0 /\ \A i \in Int : Slot(r, i) = 0
      BY <1>2, <2>2, SlotFacts
    <3>2. /\ Low(r) = r.pub - (IF r.counts[0] = 0 THEN 0 ELSE 1)
          /\ Low(q) = q.pub - (IF q.counts[0] = 0 THEN 0 ELSE 1)
      BY <1>1, <2>2 DEF Low, Single, SizeOf, IsEmpty
    <3>3. r.pub + n <= Low(r) + 1
      BY <1>0, <2>2, UnboundedAssumption DEF Single
    <3>4. CASE n = 0
      <4>1. q.counts[0] = r.counts[0]
        <5>1. land(0) = {}
          BY <1>0, <3>4 DEF land, Landing
        <5>2. 0 \in slots
          <6>1. 0 \in Slots(r.cap, 0) /\ Slots(r.cap, 0) \subseteq Slots(r.cap, r.pub + n)
            <7>1. PICK m \in Nat : m = r.pub + n /\ 0 <= m
              BY <1>2
            <7>2. Slots(r.cap, 0) \subseteq Slots(r.cap, m)
              BY <1>2, <7>1, SlotFacts
            <7>. QED BY <1>2, <2>2, <7>1, <7>2, SlotFacts
          <6>. QED BY <1>0, <6>1 DEF slots
        <5>. QED BY <1>1, <5>1, <5>2
      <4>. QED BY <1>1, <1>2, <3>2, <3>4, <4>1
    <3>5. CASE n # 0
      <4>1. n = 1 /\ Low(r) = r.pub
        BY <1>2, <3>3, <3>5
      <4>2. q.counts[0] # 0
        <5>1. r.subscribed # {}
          BY <1>0, <2>2, <3>5
        <5>2. 1 \in 1..n
          BY <4>1
        <5>. QED BY <1>8, <1>11, <3>1, <5>1, <5>2
      <4>. QED BY <1>1, <1>2, <3>2, <4>1, <4>2
    <3>. QED BY <3>4, <3>5
  <2>. QED BY <2>1, <2>2
<1>14. \A i \in Low(q)..(q.pub - 1) : q.counts[Slot(q, i)] = Cardinality(Readers(q, i))
  <2>1. SUFFICES ASSUME NEW i \in Low(q)..(q.pub - 1)
                 PROVE  q.counts[Slot(r, i)] = Cardinality(Readers(r, i))
    BY <1>9
  <2>2. PICK p \in Nat : p = r.pub
    BY <1>2
  <2>3. PICK l \in Nat : l = Low(r) /\ l = Low(q)
    BY <1>2, <1>13
  <2>4. i \in Nat /\ l <= i /\ i < p + n
    BY <1>1, <2>2, <2>3
  <2>5. CASE i < p
    <3>1. i \in Low(r)..(r.pub - 1)
      BY <2>2, <2>3, <2>4, <2>5
    <3>. QED BY <1>7, <3>1 DEF RingInv
  <2>6. CASE i >= p
    <3>1. i - p + 1 \in 1..n /\ p + (i - p + 1) - 1 = i
      BY <2>4, <2>6
    <3>2. Readers(r, i) = r.subscribed
      <4>1. \A s \in r.subscribed : r.index[s] <= i
        BY <1>10, <2>2, <2>4, <2>6
      <4>. QED BY <4>1 DEF Readers
    <3>. QED BY <1>8, <2>2, <3>1, <3>2
  <2>. QED BY <2>4, <2>5, <2>6
<1>15. RingShape(q)
  BY <1>1, <1>2, <1>0 DEF RingInv, RingShape, slots
<1>16. \A s \in q.subscribed : q.index[s] <= q.pub /\ (Single(q) => Low(q) <= q.index[s])
  BY <1>1, <1>2, <1>10, <1>13 DEF RingInv, Single
<1>17. RingInv(q)
  <2>1. DOMAIN q.counts = slots
    BY <1>1
  <2>2. Low(q) \in 0..q.pub /\ (q.cap # Unbounded => q.pub <= Low(q) + q.cap)
    BY <1>0, <1>1, <1>2, <1>13
  <2>. QED BY <1>12, <1>14, <1>15, <1>16, <2>1, <2>2 DEF RingInv
<1>. QED BY <1>0, <1>1, <1>7, <1>8, <1>13, <1>17

(* Subscription s has read n values, or gives them up.  The values that only  *)
(* it had to read are the first of them: the oldest value moves on by their   *)
(* number, which passes nobody else.                                        *)
LEMMA ReleaseFacts ==
  ASSUME NEW r, RingInv(r), NEW s \in r.subscribed, NEW n \in 0..Unread(r, s),
         NEW q, q = Release(r, s, n)
  PROVE  /\ RingInv(q)
         /\ q.cap = r.cap /\ q.subscribed = r.subscribed /\ q.pub = r.pub
         /\ \A t \in Subscription : q.index[t] = IF t = s THEN Position(r, s) + n ELSE r.index[t]
         /\ Low(r) <= Low(q) /\ Low(q) <= Position(r, s) + n
         /\ \A t \in r.subscribed : t # s => Low(q) <= Greatest(r.index[t], Low(r))
         /\ \A i \in Low(q)..(q.pub - 1) :
              Readers(q, i) # {} => Readers(r, i) # {} /\ q.array[Slot(r, i)] = r.array[Slot(r, i)]
         /\ Retains(r) => Retains(q)
<1>1. PICK l \in Nat, u \in Nat, p \in Nat :
         l = Low(r) /\ u = r.pub /\ p = Position(r, s) /\ l <= p /\ p <= u /\ n \in 0..(u - p)
  <2>1. Low(r) \in Nat /\ r.pub \in Nat /\ Low(r) <= r.pub
    BY RingFacts
  <2>2. Position(r, s) \in Low(r)..r.pub /\ Unread(r, s) = r.pub - Position(r, s)
    BY RingFacts
  <2>. QED BY <2>1, <2>2
<1>. DEFINE mine == p..(p + n - 1)
            freed == {i \in mine : Readers(r, i) = {s}}
            slots(I) == {Slot(r, i) : i \in I}
<1>2. /\ r.subscribed \subseteq Subscription /\ IsFiniteSet(r.subscribed)
      /\ \A t \in r.subscribed : r.index[t] \in Nat /\ r.index[t] <= u
      /\ p = Greatest(r.index[s], l)
  BY <1>1, RingFacts DEF RingInv, RingShape
<1>3. \A i : /\ IsFiniteSet(Readers(r, i)) /\ Cardinality(Readers(r, i)) \in Nat
             /\ Cardinality(Readers(r, i)) = 1 /\ s \in Readers(r, i) => Readers(r, i) = {s}
             /\ Cardinality(Readers(r, i)) = 0 <=> Readers(r, i) = {}
  <2>1. ASSUME NEW i PROVE IsFiniteSet(Readers(r, i)) /\ Cardinality(Readers(r, i)) \in Nat
    <3>1. Readers(r, i) \subseteq r.subscribed
      BY DEF Readers
    <3>. QED BY <1>2, <3>1, FS_Subset, FS_CardinalityType
  <2>2. ASSUME NEW i, Cardinality(Readers(r, i)) = 1, s \in Readers(r, i) PROVE Readers(r, i) = {s}
    <3>1. \E x : Readers(r, i) = {x}
      BY <2>1, <2>2, FS_Singleton
    <3>. QED BY <2>2, <3>1
  <2>. QED BY <2>1, <2>2, FS_EmptySet
<1>4. \A i \in mine : i \in Nat /\ i \in l..(u - 1) /\ s \in Readers(r, i)
  <2>1. ASSUME NEW i \in mine PROVE i \in Nat /\ i \in l..(u - 1) /\ p <= i
    BY <1>1
  <2>2. r.index[s] <= p
    BY <1>1, <1>2 DEF Greatest
  <2>. QED BY <1>1, <1>2, <2>1, <2>2 DEF Readers
<1>5. \A i \in l..(u - 1) : /\ i \in Nat /\ Slot(r, i) \in DOMAIN r.counts
                            /\ r.counts[Slot(r, i)] = Cardinality(Readers(r, i))
  BY <1>1, RingFacts DEF RingInv
<1>6. \A i, j \in l..(u - 1) : Slot(r, i) = Slot(r, j) => i = j
  BY <1>1, RingFacts
<1>7. freed = {i \in mine : r.counts[Slot(r, i)] = 1}
  <2>1. \A i : Readers(r, i) = {s} => Cardinality(Readers(r, i)) = 1
    BY FS_Singleton
  <2>. QED BY <1>3, <1>4, <1>5, <2>1
<1>8. PICK c \in 0..n : c = Cardinality(freed) /\ freed = p..(p + c - 1)
  <2>1. ASSUME NEW i \in freed, NEW j \in p..i PROVE j \in freed
    <3>1. j \in mine /\ i \in mine /\ j <= i
      BY <1>1, <2>1
    <3>2. Readers(r, j) \subseteq Readers(r, i)
      BY <1>2, <1>4, <3>1 DEF Readers
    <3>. QED BY <1>4, <2>1, <3>1, <3>2
  <2>2. freed \in SUBSET mine
    OBVIOUS
  <2>3. n \in Nat
    BY <1>1
  <2>. HIDE DEF freed
  <2>. QED BY <2>1, <2>2, <2>3, InitialSegment
<1>24. n \in Nat /\ c \in Nat /\ c <= n /\ p + n <= u /\ \A i : i \in freed <=> i \in p..(p + c - 1)
  <2>1. n \in Nat /\ p + n <= u
    BY <1>1
  <2>2. c \in Nat /\ c <= n
    BY <1>8, <2>1
  <2>. HIDE DEF freed
  <2>3. \A i : i \in freed <=> i \in p..(p + c - 1)
    BY <1>8
  <2>. QED BY <2>1, <2>2, <2>3
<1>9. /\ q.cap = r.cap /\ q.subscribed = r.subscribed /\ q.pub = u
      /\ q.index = [r.index EXCEPT ![s] = p + n]
      /\ q.oldest = IF Single(r) THEN r.oldest ELSE r.oldest + c
      /\ q.array = [k \in DOMAIN r.array |-> IF k \in slots(freed) THEN Absent ELSE r.array[k]]
      /\ q.counts = [k \in DOMAIN r.counts |-> IF k \in slots(mine) THEN r.counts[k] - 1
                                               ELSE r.counts[k]]
      /\ q = [cap |-> q.cap, array |-> q.array, counts |-> q.counts, pub |-> q.pub,
              oldest |-> q.oldest, index |-> q.index, subscribed |-> q.subscribed]
  <2>. HIDE DEF freed
  <2>. QED BY <1>1, <1>7, <1>8 DEF Release, RingInv, RingShape
<1>10. /\ q.index[s] = p + n /\ (\A t \in r.subscribed : t # s => q.index[t] = r.index[t])
       /\ \A t \in Subscription : q.index[t] = IF t = s THEN p + n ELSE r.index[t]
  BY <1>2, <1>9 DEF RingInv, RingShape
<1>11. \A i : Slot(q, i) = Slot(r, i)
  BY <1>9 DEF Slot
<1>12. \A i \in l..(u - 1) : /\ i \in mine => Readers(q, i) = Readers(r, i) \ {s}
                             /\ i \notin mine => Readers(q, i) = Readers(r, i)
  <2>1. SUFFICES ASSUME NEW i \in l..(u - 1)
                 PROVE  /\ \A t : t # s => (t \in Readers(q, i) <=> t \in Readers(r, i))
                        /\ i \in mine => s \notin Readers(q, i)
                        /\ i \notin mine => (s \in Readers(q, i) <=> s \in Readers(r, i))
    OBVIOUS
  <2>2. \A t : t # s => (t \in Readers(q, i) <=> t \in Readers(r, i))
    BY <1>9, <1>10 DEF Readers
  <2>3. i \in mine => s \notin Readers(q, i)
    BY <1>1, <1>10 DEF Readers
  <2>4. ASSUME i \notin mine PROVE s \in Readers(q, i) <=> s \in Readers(r, i)
    <3>1. i \in Nat /\ l <= i /\ (i < p \/ i >= p + n)
      BY <1>1, <2>4
    <3>2. q.index[s] <= i <=> r.index[s] <= i
      BY <1>1, <1>2, <1>10, <3>1 DEF Greatest
    <3>. QED BY <1>9, <3>2 DEF Readers
  <2>. QED BY <2>2, <2>3, <2>4
<1>. HIDE DEF freed, mine, slots
<1>13. \A i \in l..(u - 1) : Slot(r, i) \in slots(mine) <=> i \in mine
  <2>1. \A i \in l..(u - 1) : Slot(r, i) \in slots(mine) => i \in mine
    <3>1. SUFFICES ASSUME NEW i \in l..(u - 1), NEW j \in mine, Slot(r, i) = Slot(r, j)
                   PROVE  i \in mine
      BY DEF slots
    <3>. QED BY <1>4, <1>6, <3>1
  <2>. QED BY <2>1 DEF slots
<1>14. \A i \in l..(u - 1) : Slot(r, i) \in slots(freed) <=> i \in freed
  <2>1. \A i \in l..(u - 1) : Slot(r, i) \in slots(freed) => i \in freed
    <3>1. SUFFICES ASSUME NEW i \in l..(u - 1), NEW j \in freed, Slot(r, i) = Slot(r, j)
                   PROVE  i \in freed
      BY DEF slots
    <3>2. j \in mine
      BY DEF freed
    <3>. QED BY <1>4, <1>6, <3>1, <3>2
  <2>. QED BY <2>1 DEF slots
<1>15. \A i \in l..(u - 1) : q.counts[Slot(r, i)] = Cardinality(Readers(q, i))
  <2>1. ASSUME NEW i \in l..(u - 1), i \in mine PROVE q.counts[Slot(r, i)] = Cardinality(Readers(q, i))
    <3>1. q.counts[Slot(r, i)] = Cardinality(Readers(r, i)) - 1
      BY <1>5, <1>9, <1>13, <2>1
    <3>2. Cardinality(Readers(r, i) \ {s}) = Cardinality(Readers(r, i)) - 1
      BY <1>3, <1>4, <2>1, FS_RemoveElement
    <3>. QED BY <1>12, <2>1, <3>1, <3>2
  <2>2. ASSUME NEW i \in l..(u - 1), i \notin mine PROVE q.counts[Slot(r, i)] = Cardinality(Readers(q, i))
    BY <1>5, <1>9, <1>12, <1>13, <2>2
  <2>. QED BY <2>1, <2>2
<1>16. \A k \in DOMAIN q.counts : q.counts[k] \in Nat
  <2>1. ASSUME NEW i \in mine PROVE r.counts[Slot(r, i)] - 1 \in Nat
    <3>1. r.counts[Slot(r, i)] = Cardinality(Readers(r, i)) /\ Readers(r, i) # {}
      BY <1>4, <1>5
    <3>2. Cardinality(Readers(r, i)) \in Nat /\ Cardinality(Readers(r, i)) # 0
      BY <1>3, <3>1
    <3>. QED BY <3>1, <3>2
  <2>2. \A k \in DOMAIN r.counts : r.counts[k] \in Nat
    BY DEF RingInv
  <2>3. \A k \in slots(mine) : r.counts[k] - 1 \in Nat
    BY <2>1 DEF slots
  <2>. QED BY <1>9, <2>2, <2>3
<1>17. Low(q) = l + c
  <2>1. CASE ~Single(r)
    BY <1>1, <1>9, <2>1 DEF Low, Single
  <2>2. CASE Single(r)
    <3>1. \A i \in Int : Slot(r, i) = 0
      BY <2>2, SlotFacts DEF RingInv, RingShape
    <3>2. Low(q) = u - (IF q.counts[0] = 0 THEN 0 ELSE 1)
      BY <1>9, <2>2 DEF Low, Single, SizeOf, IsEmpty
    <3>3. l = u - (IF r.counts[0] = 0 THEN 0 ELSE 1)
      BY <1>1, <2>2 DEF Low, SizeOf, IsEmpty
    <3>4. CASE l = u
      <4>1. mine = {} /\ c = 0
        BY <1>1, <3>4 DEF mine
      <4>2. q.counts[0] = r.counts[0]
        <5>1. 0 \in DOMAIN r.counts
          <6>1. 0 \in Slots(r.cap, 0) /\ Slots(r.cap, 0) \subseteq Slots(r.cap, r.pub)
            <7>1. 0 <= u /\ u = r.pub
              BY <1>1
            <7>2. Slots(r.cap, 0) = {0}
              BY <2>2, SlotFacts DEF RingInv, RingShape
            <7>3. Slots(r.cap, 0) \subseteq Slots(r.cap, u)
              BY <7>1, SlotFacts DEF RingInv, RingShape
            <7>. QED BY <7>1, <7>2, <7>3
          <6>. QED BY <6>1 DEF RingInv, RingShape
        <5>2. 0 \notin slots(mine)
          BY <4>1 DEF slots
        <5>. QED BY <1>9, <5>1, <5>2
      <4>. QED BY <3>2, <3>3, <4>1, <4>2
    <3>5. CASE l # u
      <4>1. l = u - 1 /\ l \in l..(u - 1)
        BY <3>3, <3>5
      <4>2. Slot(r, l) = 0
        BY <3>1
      <4>3. q.counts[0] = Cardinality(Readers(q, l))
        BY <1>15, <4>1, <4>2
      <4>4. CASE l \in freed
        <5>1. Readers(q, l) = {}
          BY <1>12, <4>1, <4>4 DEF freed
        <5>2. c = 1
          BY <1>1, <1>24, <4>1, <4>4
        <5>. QED BY <3>2, <4>1, <4>3, <5>1, <5>2, FS_EmptySet
      <4>5. CASE l \notin freed
        <5>1. c = 0
          BY <1>1, <1>24, <4>1, <4>5
        <5>2. Readers(q, l) # {}
          <6>1. Readers(r, l) # {}
            BY <1>3, <1>5, <3>3, <3>5, <4>1, <4>2
          <6>. QED BY <1>4, <1>12, <4>1, <4>5, <6>1 DEF freed
        <5>3. Cardinality(Readers(q, l)) # 0
          <6>1. Readers(q, l) \subseteq r.subscribed
            BY <1>9 DEF Readers
          <6>. QED BY <1>2, <5>2, <6>1, FS_Subset, FS_EmptySet
        <5>. QED BY <3>2, <4>1, <4>3, <5>1, <5>3
      <4>. QED BY <4>4, <4>5
    <3>. QED BY <3>4, <3>5
  <2>. QED BY <2>1, <2>2
<1>18. l + c <= p + n /\ l + c \in 0..u /\ l + c \in Nat
  BY <1>1, <1>8
<1>19. \A t \in r.subscribed : t # s => Low(q) <= Greatest(r.index[t], l)
  <2>1. SUFFICES ASSUME NEW t \in r.subscribed, t # s, c # 0 PROVE l + c <= r.index[t]
    BY <1>2, <1>24, <1>17 DEF Greatest
  <2>2. p + c - 1 \in freed
    BY <1>24, <2>1
  <2>3. t \notin Readers(r, p + c - 1)
    BY <2>1, <2>2 DEF freed
  <2>4. r.index[t] > p + c - 1
    BY <1>2, <1>24, <2>3 DEF Readers
  <2>. QED BY <1>1, <1>2, <2>4
<1>20. Low(q) <= q.index[s] /\ q.index[s] <= u
  BY <1>1, <1>10, <1>17, <1>18
<1>21. RingInv(q)
  <2>1. RingShape(q)
    <3>1. q.oldest \in Nat
      BY <1>24, <1>9 DEF RingInv, RingShape
    <3>2. q.index \in [Subscription -> Nat]
      BY <1>9 DEF RingInv, RingShape
    <3>. QED BY <1>1, <1>9, <3>1, <3>2 DEF RingInv, RingShape
  <2>2. r.cap # Unbounded => q.pub <= Low(q) + r.cap
    <3>1. SUFFICES ASSUME r.cap # Unbounded PROVE u <= l + c + r.cap
      BY <1>9, <1>17
    <3>2. r.cap \in Nat /\ u <= l + r.cap
      BY <1>1, <3>1 DEF RingInv, RingShape
    <3>. QED BY <1>24, <3>2
  <2>3. ASSUME NEW t \in q.subscribed
        PROVE  q.index[t] <= q.pub /\ (Single(q) => Low(q) <= q.index[t])
    <3>1. CASE t = s
      BY <1>9, <1>20, <3>1
    <3>2. CASE t # s
      <4>1. Single(q) => l <= r.index[t]
        BY <1>1, <1>9, <2>3 DEF Single, RingInv
      <4>2. Single(q) => Low(q) <= r.index[t]
        BY <1>2, <1>9, <1>19, <2>3, <3>2, <4>1 DEF Greatest
      <4>. QED BY <1>2, <1>9, <1>10, <2>3, <3>2, <4>2
    <3>. QED BY <3>1, <3>2
  <2>4. \A i \in Low(q)..(q.pub - 1) : q.counts[Slot(q, i)] = Cardinality(Readers(q, i))
    <3>1. \A i \in Low(q)..(q.pub - 1) : i \in l..(u - 1)
      BY <1>24, <1>9, <1>17
    <3>. QED BY <1>11, <1>15, <3>1
  <2>. QED BY <1>9, <1>16, <1>17, <1>18, <2>1, <2>2, <2>3, <2>4 DEF RingInv
<1>22. ASSUME NEW i \in Low(q)..(q.pub - 1), Readers(q, i) # {}
       PROVE  Readers(r, i) # {} /\ q.array[Slot(r, i)] = r.array[Slot(r, i)]
  <2>1. i \in l..(u - 1)
    BY <1>24, <1>9, <1>17
  <2>2. Readers(r, i) # {} /\ i \notin freed
    BY <1>12, <1>22, <2>1 DEF freed
  <2>3. Slot(r, i) \in DOMAIN r.array
    BY <1>5, <2>1 DEF RingInv, RingShape
  <2>. QED BY <1>9, <1>14, <2>1, <2>2, <2>3
<1>23. ASSUME Retains(r), Low(q) < q.pub PROVE Readers(q, Low(q)) # {}
  <2>1. l < u /\ Readers(r, l) # {} /\ l \in l..(u - 1)
    BY <1>1, <1>9, <1>17, <1>23, <1>24 DEF Retains
  <2>2. ASSUME c # 0 PROVE l = p
    <3>1. p \in freed
      BY <1>1, <1>24, <2>2
    <3>2. Readers(r, l) \subseteq Readers(r, p)
      BY <1>1, <1>2 DEF Readers
    <3>3. s \in Readers(r, l)
      BY <2>1, <3>1, <3>2 DEF freed
    <3>. QED BY <1>1, <1>2, <3>3 DEF Readers, Greatest
  <2>3. CASE l = p /\ c = n
    <3>1. q.index[s] <= Low(q)
      BY <1>1, <1>10, <1>17, <1>24, <2>3
    <3>. QED BY <1>9, <3>1 DEF Readers
  <2>4. CASE l = p /\ c # n
    <3>1. p + c \in mine /\ p + c \notin freed
      BY <1>1, <1>24, <2>4 DEF mine
    <3>2. PICK t \in Readers(r, p + c) : t # s
      BY <1>4, <3>1 DEF freed
    <3>3. p + c \in l..(u - 1)
      BY <1>4, <3>1
    <3>4. t \in Readers(q, p + c)
      BY <1>12, <3>1, <3>2, <3>3
    <3>. QED BY <1>17, <2>4, <3>4
  <2>5. CASE l # p
    <3>1. c = 0 /\ Low(q) = l
      BY <1>1, <1>17, <1>24, <2>2, <2>5
    <3>2. l \notin mine
      BY <1>1, <1>24, <2>5 DEF mine
    <3>. QED BY <1>12, <2>1, <3>1, <3>2
  <2>. QED BY <2>3, <2>4, <2>5
<1>. QED BY <1>1, <1>9, <1>10, <1>17, <1>18, <1>19, <1>21, <1>22, <1>23 DEF Retains

(* What is left to read after a subscription has read n values: n fewer for    *)
(* it, as many as before for all others.                                    *)
LEMMA ReleaseUnread ==
  ASSUME NEW r, RingInv(r), NEW s \in r.subscribed, NEW n \in 0..Unread(r, s),
         NEW q, q = Release(r, s, n)
  PROVE  /\ n \in Nat /\ Unread(q, s) = Unread(r, s) - n /\ Position(q, s) = Position(r, s) + n
         /\ \A t : t # s => Unread(q, t) = Unread(r, t)
<1>1. /\ RingInv(q) /\ q.subscribed = r.subscribed /\ q.pub = r.pub
      /\ \A t \in Subscription : q.index[t] = IF t = s THEN Position(r, s) + n ELSE r.index[t]
      /\ Low(r) <= Low(q) /\ Low(q) <= Position(r, s) + n
      /\ \A t \in r.subscribed : t # s => Low(q) <= Greatest(r.index[t], Low(r))
  BY ReleaseFacts
<1>2. /\ Low(r) \in Nat /\ Low(q) \in Nat /\ r.pub \in Nat
      /\ \A t \in r.subscribed : /\ Position(r, t) = Greatest(r.index[t], Low(r))
                                 /\ Position(r, t) \in Low(r)..r.pub
                                 /\ Unread(r, t) = r.pub - Position(r, t)
                                 /\ Position(q, t) = Greatest(q.index[t], Low(q))
                                 /\ Unread(q, t) = r.pub - Position(q, t)
  <2>1. /\ Low(r) \in Nat /\ r.pub \in Nat
        /\ \A t \in r.subscribed : /\ Position(r, t) = Greatest(r.index[t], Low(r))
                                   /\ Position(r, t) \in Low(r)..r.pub
                                   /\ Unread(r, t) = r.pub - Position(r, t)
    BY RingFacts
  <2>2. /\ Low(q) \in Nat
        /\ \A t \in q.subscribed : /\ Position(q, t) = Greatest(q.index[t], Low(q))
                                   /\ Unread(q, t) = q.pub - Position(q, t)
    BY <1>1, RingFacts
  <2>. QED BY <1>1, <2>1, <2>2
<1>3. r.index \in [Subscription -> Nat] /\ r.subscribed \subseteq Subscription
  BY DEF RingInv, RingShape
<1>4. PICK l \in Nat, m \in Nat, u \in Nat, p \in Nat :
        l = Low(r) /\ m = Low(q) /\ u = r.pub /\ p = Position(r, s)
  <2>1. Position(r, s) \in Nat
    BY <1>2
  <2>. QED BY <1>2, <2>1
<1>5. n \in Nat /\ p + n \in Nat /\ m <= p + n
  BY <1>1, <1>2, <1>4
<1>6. Position(q, s) = p + n
  <2>1. q.index[s] = p + n
    BY <1>1, <1>3, <1>4
  <2>2. Position(q, s) = Greatest(p + n, m)
    BY <1>2, <1>4, <2>1
  <2>. QED BY <1>4, <1>5, <2>2 DEF Greatest
<1>7. Unread(q, s) = Unread(r, s) - n
  <2>1. Unread(r, s) = u - p /\ Unread(q, s) = u - (p + n)
    BY <1>2, <1>4, <1>6
  <2>. QED BY <1>4, <1>5, <2>1
<1>8. ASSUME NEW t, t # s PROVE Unread(q, t) = Unread(r, t)
  <2>1. CASE t \notin r.subscribed
    BY <1>1, <2>1 DEF Unread
  <2>2. CASE t \in r.subscribed
    <3>1. PICK i \in Nat : i = r.index[t]
      BY <1>3, <2>2
    <3>2. q.index[t] = i
      BY <1>1, <1>3, <1>8, <2>2, <3>1
    <3>3. l <= m /\ m <= Greatest(i, l)
      BY <1>1, <1>4, <1>8, <2>2, <3>1
    <3>4. Greatest(i, m) = Greatest(i, l)
      BY <1>4, <3>1, <3>3 DEF Greatest
    <3>. QED BY <1>2, <1>4, <2>2, <3>1, <3>2, <3>4
  <2>. QED BY <2>1, <2>2
<1>. QED BY <1>4, <1>5, <1>6, <1>7, <1>8

(* Sliding: the oldest value is dropped, whoever has yet to read it.         *)
LEMMA DropFacts ==
  ASSUME NEW r, RingInv(r), ~Single(r), NEW q, q = DropOldest(r)
  PROVE  /\ RingInv(q)
         /\ q.cap = r.cap /\ q.subscribed = r.subscribed /\ q.index = r.index /\ q.pub = r.pub
         /\ Low(r) <= Low(q) /\ (r.cap # Unbounded => r.pub + 1 <= Low(q) + r.cap)
         /\ \A i \in Low(q)..(r.pub - 1) : q.array[Slot(r, i)] = r.array[Slot(r, i)]
<1>1. PICK l \in Nat, u \in Nat : /\ l = Low(r) /\ u = r.pub /\ l <= u /\ r.oldest = l
                                  /\ IsEmpty(r) <=> l = u
  BY RingFacts DEF Low
<1>2. CASE l = u
  <2>1. q = r
    BY <1>1, <1>2 DEF DropOldest
  <2>2. r.cap # Unbounded => u + 1 <= l + r.cap
    BY <1>2 DEF RingInv, RingShape
  <2>. QED BY <1>1, <2>1, <2>2
<1>3. CASE l # u
  <2>. DEFINE k == Slot(r, l)
  <2>1. /\ q.cap = r.cap /\ q.subscribed = r.subscribed /\ q.index = r.index /\ q.pub = u
        /\ q.oldest = l + 1
        /\ q.array = [r.array EXCEPT ![k] = Absent] /\ q.counts = [r.counts EXCEPT ![k] = 0]
        /\ q = [cap |-> q.cap, array |-> q.array, counts |-> q.counts, pub |-> q.pub,
                oldest |-> q.oldest, index |-> q.index, subscribed |-> q.subscribed]
    BY <1>1, <1>3 DEF DropOldest, RingInv, RingShape
  <2>2. Low(q) = l + 1 /\ l \in l..(u - 1) /\ l + 1 <= u
    BY <1>1, <1>3, <2>1 DEF Low, Single
  <2>3. \A i : Slot(q, i) = Slot(r, i) /\ Readers(q, i) = Readers(r, i)
    BY <2>1 DEF Slot, Readers
  <2>4. \A i \in (l + 1)..(u - 1) : i \in l..(u - 1) /\ Slot(r, i) # k
    <3>1. ASSUME NEW i \in (l + 1)..(u - 1) PROVE i \in l..(u - 1) /\ i # l
      BY <1>1
    <3>. QED BY <1>1, <2>2, <3>1, RingFacts
  <2>5. \A i \in (l + 1)..(u - 1) :
           /\ q.array[Slot(r, i)] = r.array[Slot(r, i)]
           /\ q.counts[Slot(r, i)] = Cardinality(Readers(r, i))
    <3>1. \A i \in l..(u - 1) : /\ r.counts[Slot(r, i)] = Cardinality(Readers(r, i))
                                /\ Slot(r, i) \in DOMAIN r.counts
      BY <1>1, RingFacts DEF RingInv
    <3>2. DOMAIN r.array = DOMAIN r.counts
      BY DEF RingInv, RingShape
    <3>. HIDE DEF k
    <3>. QED BY <2>1, <2>4, <3>1, <3>2
  <2>6. r.cap # Unbounded => r.cap \in Nat /\ u <= l + r.cap
    BY <1>1 DEF RingInv, RingShape
  <2>7. RingShape(q)
    BY <1>1, <2>1 DEF RingInv, RingShape
  <2>8. \A j \in DOMAIN q.counts : q.counts[j] \in Nat
    BY <2>1 DEF RingInv
  <2>9. RingInv(q)
    <3>1. Low(q) \in 0..q.pub /\ (q.cap # Unbounded => q.pub <= Low(q) + q.cap)
      BY <1>1, <2>1, <2>2, <2>6
    <3>2. ~Single(q) /\ \A s \in q.subscribed : q.index[s] <= q.pub
      BY <1>1, <2>1 DEF Single, RingInv
    <3>3. \A i \in Low(q)..(q.pub - 1) : q.counts[Slot(q, i)] = Cardinality(Readers(q, i))
      BY <2>1, <2>2, <2>3, <2>5
    <3>. QED BY <2>7, <2>8, <3>1, <3>2, <3>3 DEF RingInv
  <2>. QED BY <1>1, <2>1, <2>2, <2>5, <2>6, <2>9
<1>. QED BY <1>2, <1>3

(* A new subscription has yet to read no value there is.                     *)
LEMMA SubscribedFacts ==
  ASSUME NEW r, RingInv(r), NEW s \in Subscription, s \notin r.subscribed,
         NEW q, q = Subscribed(r, s)
  PROVE  /\ RingInv(q)
         /\ q.cap = r.cap /\ q.array = r.array /\ q.pub = r.pub /\ Low(q) = Low(r)
         /\ q.subscribed = r.subscribed \cup {s}
         /\ \A t \in Subscription : q.index[t] = IF t = s THEN r.pub ELSE r.index[t]
         /\ \A i \in Low(r)..(r.pub - 1) : Readers(q, i) = Readers(r, i)
         /\ Unread(q, s) = 0 /\ \A t : t # s => Unread(q, t) = Unread(r, t)
<1>1. PICK l \in Nat, u \in Nat : l = Low(r) /\ u = r.pub /\ l <= u
  BY RingFacts
<1>2. /\ q.cap = r.cap /\ q.array = r.array /\ q.counts = r.counts /\ q.pub = u
      /\ q.oldest = r.oldest /\ q.subscribed = r.subscribed \cup {s}
      /\ q.index = [r.index EXCEPT ![s] = u]
      /\ q = [cap |-> q.cap, array |-> q.array, counts |-> q.counts, pub |-> q.pub,
              oldest |-> q.oldest, index |-> q.index, subscribed |-> q.subscribed]
  BY <1>1 DEF Subscribed, RingInv, RingShape
<1>3. \A i : Slot(q, i) = Slot(r, i)
  BY <1>2 DEF Slot
<1>4. Low(q) = l
  BY <1>1, <1>2 DEF Low, Single, SizeOf, IsEmpty
<1>5. /\ q.index[s] = u /\ \A t \in r.subscribed : q.index[t] = r.index[t]
      /\ \A t \in Subscription : q.index[t] = IF t = s THEN u ELSE r.index[t]
  BY <1>2 DEF RingInv, RingShape
<1>6. \A i \in l..(u - 1) : Readers(q, i) = Readers(r, i)
  <2>1. ASSUME NEW i \in l..(u - 1) PROVE ~(q.index[s] <= i)
    BY <1>1, <1>5
  <2>. QED BY <1>2, <1>5, <2>1 DEF Readers
<1>7. RingInv(q)
  <2>1. RingShape(q)
    <3>1. IsFiniteSet(r.subscribed \cup {s})
      BY FS_AddElement DEF RingInv, RingShape
    <3>2. q.index \in [Subscription -> Nat]
      BY <1>1, <1>2 DEF RingInv, RingShape
    <3>. QED BY <1>1, <1>2, <3>1, <3>2 DEF RingInv, RingShape
  <2>2. \A t \in q.subscribed : q.index[t] <= q.pub /\ (Single(q) => Low(q) <= q.index[t])
    <3>1. \A t \in r.subscribed : r.index[t] <= u /\ (Single(r) => l <= r.index[t])
      BY <1>1 DEF RingInv
    <3>. QED BY <1>1, <1>2, <1>4, <1>5, <3>1 DEF Single
  <2>3. \A k \in DOMAIN q.counts : q.counts[k] \in Nat
    BY <1>2 DEF RingInv
  <2>4. Low(q) \in 0..q.pub /\ (q.cap # Unbounded => q.pub <= Low(q) + q.cap)
    BY <1>1, <1>2, <1>4 DEF RingInv
  <2>5. \A i \in Low(q)..(q.pub - 1) : q.counts[Slot(q, i)] = Cardinality(Readers(q, i))
    <3>1. \A i \in l..(u - 1) : r.counts[Slot(r, i)] = Cardinality(Readers(r, i))
      BY <1>1 DEF RingInv
    <3>. QED BY <1>2, <1>3, <1>4, <1>6, <3>1
  <2>. QED BY <2>1, <2>2, <2>3, <2>4, <2>5 DEF RingInv
<1>8. Unread(q, s) = 0
  <2>1. s \in q.subscribed
    BY <1>2
  <2>2. Unread(q, s) = u - Greatest(u, l)
    <3>1. Unread(q, s) = q.pub - Greatest(q.index[s], Low(q))
      BY <1>7, <2>1, RingFacts
    <3>. QED BY <1>2, <1>4, <1>5, <3>1
  <2>. QED BY <1>1, <2>2 DEF Greatest
<1>9. ASSUME NEW t, t # s PROVE Unread(q, t) = Unread(r, t)
  <2>1. CASE t \in r.subscribed
    <3>1. Unread(r, t) = r.pub - Greatest(r.index[t], Low(r))
      BY <2>1, RingFacts
    <3>2. t \in q.subscribed
      BY <1>2, <2>1
    <3>3. Unread(q, t) = q.pub - Greatest(q.index[t], Low(q))
      BY <1>7, <3>2, RingFacts
    <3>. QED BY <1>1, <1>2, <1>4, <1>5, <2>1, <3>1, <3>3
  <2>2. CASE t \notin r.subscribed
    BY <1>2, <1>9, <2>2 DEF Unread
  <2>. QED BY <2>1, <2>2
<1>. QED BY <1>1, <1>2, <1>4, <1>5, <1>6, <1>7, <1>8, <1>9

(* A subscription that leaves gives up what it has yet to read.               *)
LEMMA UnsubscribedFacts ==
  ASSUME NEW r, RingInv(r), NEW s \in r.subscribed, NEW q, q = Unsubscribed(r, s)
  PROVE  /\ RingInv(q)
         /\ q.cap = r.cap /\ q.pub = r.pub /\ q.subscribed = r.subscribed \ {s}
         /\ Low(r) <= Low(q)
         /\ \A t \in q.subscribed : /\ q.index[t] = r.index[t] /\ Unread(q, t) = Unread(r, t)
                                    /\ Low(q) <= Greatest(r.index[t], Low(r))
         /\ \A i \in Low(q)..(q.pub - 1) :
              Readers(q, i) # {} => Readers(r, i) # {} /\ q.array[Slot(r, i)] = r.array[Slot(r, i)]
         /\ Retains(r) => Retains(q)
<1>. DEFINE n == Unread(r, s)
            p == Release(r, s, n)
<1>1. /\ r.pub \in Nat /\ Low(r) \in Nat /\ Low(r) <= r.pub
      /\ IsEmpty(r) <=> Low(r) = r.pub
      /\ Position(r, s) \in Low(r)..r.pub /\ n = r.pub - Position(r, s)
  BY RingFacts
<1>2. n \in Nat /\ n \in 0..Unread(r, s) /\ Position(r, s) + n = r.pub
  BY <1>1
<1>3. StillCounted(r, s) = n
  <2>1. CASE ~Single(r)
    BY <2>1 DEF StillCounted
  <2>2. CASE Single(r)
    <3>1. r.index[s] \in Nat /\ Low(r) <= r.index[s] /\ r.index[s] <= r.pub
      BY <2>2 DEF RingInv, RingShape
    <3>2. IsEmpty(r) => r.index[s] = r.pub
      BY <1>1, <3>1
    <3>3. n = IF IsEmpty(r) \/ r.index[s] = r.pub THEN 0 ELSE 1
      BY <2>2 DEF Unread
    <3>. QED BY <2>2, <3>2, <3>3 DEF StillCounted
  <2>. QED BY <2>1, <2>2
<1>4. p = Release(r, s, n)
  OBVIOUS
<1>. HIDE DEF n, p
<1>5. /\ RingInv(p)
      /\ p.cap = r.cap /\ p.subscribed = r.subscribed /\ p.pub = r.pub
      /\ \A t \in Subscription : p.index[t] = IF t = s THEN r.pub ELSE r.index[t]
      /\ Low(r) <= Low(p)
      /\ \A t \in r.subscribed : t # s => Low(p) <= Greatest(r.index[t], Low(r))
      /\ \A i \in Low(p)..(p.pub - 1) :
           Readers(p, i) # {} => Readers(r, i) # {} /\ p.array[Slot(r, i)] = r.array[Slot(r, i)]
      /\ Retains(r) => Retains(p)
  BY <1>2, <1>4, ReleaseFacts
<1>6. /\ q.cap = p.cap /\ q.array = p.array /\ q.counts = p.counts /\ q.pub = p.pub
      /\ q.oldest = p.oldest /\ q.index = p.index /\ q.subscribed = r.subscribed \ {s}
      /\ q = [cap |-> q.cap, array |-> q.array, counts |-> q.counts, pub |-> q.pub,
              oldest |-> q.oldest, index |-> q.index, subscribed |-> q.subscribed]
  BY <1>3, <1>4, <1>5 DEF Unsubscribed, RingInv, RingShape
<1>7. /\ \A t \in q.subscribed : t \in r.subscribed /\ t # s /\ q.index[t] = r.index[t]
      /\ p.index[s] = r.pub
  BY <1>5, <1>6 DEF RingInv, RingShape
<1>8. Low(q) = Low(p) /\ \A i : Slot(q, i) = Slot(p, i) /\ Slot(p, i) = Slot(r, i)
  BY <1>5, <1>6 DEF Low, Single, SizeOf, IsEmpty, Slot
<1>9. Low(p) \in Nat /\ p.pub \in Nat /\ Low(p) <= p.pub
  BY <1>5, RingFacts
<1>10. \A i \in Low(p)..(p.pub - 1) : Readers(q, i) = Readers(p, i)
  <2>1. ASSUME NEW i \in Low(p)..(p.pub - 1) PROVE ~(p.index[s] <= i)
    BY <1>1, <1>5, <1>7, <1>9
  <2>. QED BY <1>5, <1>6, <2>1 DEF Readers
<1>11. RingInv(q)
  <2>1. RingShape(q)
    <3>1. IsFiniteSet(r.subscribed \ {s}) /\ r.subscribed \ {s} \subseteq Subscription
      BY FS_RemoveElement DEF RingInv, RingShape
    <3>. QED BY <1>5, <1>6, <3>1 DEF RingInv, RingShape
  <2>2. \A i \in Low(q)..(q.pub - 1) : q.counts[Slot(q, i)] = Cardinality(Readers(q, i))
    <3>1. \A i \in Low(p)..(p.pub - 1) : p.counts[Slot(p, i)] = Cardinality(Readers(p, i))
      BY <1>5 DEF RingInv
    <3>. QED BY <1>6, <1>8, <1>10, <3>1
  <2>3. \A t \in q.subscribed : q.index[t] <= q.pub /\ (Single(q) => Low(q) <= q.index[t])
    <3>1. \A t \in p.subscribed : p.index[t] <= p.pub /\ (Single(p) => Low(p) <= p.index[t])
      BY <1>5 DEF RingInv
    <3>. QED BY <1>5, <1>6, <1>7, <1>8, <3>1 DEF Single
  <2>4. /\ \A k \in DOMAIN q.counts : q.counts[k] \in Nat
        /\ Low(q) \in 0..q.pub /\ (q.cap # Unbounded => q.pub <= Low(q) + q.cap)
    BY <1>5, <1>6, <1>8 DEF RingInv
  <2>. QED BY <2>1, <2>2, <2>3, <2>4 DEF RingInv
<1>12. ASSUME NEW t \in q.subscribed
       PROVE  Unread(q, t) = Unread(r, t) /\ Low(q) <= Greatest(r.index[t], Low(r))
  <2>1. Unread(p, t) = Unread(r, t)
    BY <1>2, <1>4, <1>7, ReleaseUnread
  <2>2. Unread(p, t) = p.pub - Greatest(p.index[t], Low(p))
    <3>1. t \in p.subscribed
      BY <1>5, <1>7
    <3>. QED BY <1>5, <3>1, RingFacts
  <2>3. Unread(q, t) = q.pub - Greatest(q.index[t], Low(q))
    BY <1>11, RingFacts
  <2>. QED BY <1>5, <1>6, <1>7, <1>8, <2>1, <2>2, <2>3
<1>13. ASSUME Retains(r) PROVE Retains(q)
  <2>1. SUFFICES ASSUME Low(q) < q.pub PROVE Readers(q, Low(q)) # {}
    BY DEF Retains
  <2>2. Readers(p, Low(p)) # {} /\ Low(p) \in Low(p)..(p.pub - 1)
    BY <1>5, <1>6, <1>8, <1>9, <1>13, <2>1 DEF Retains
  <2>. QED BY <1>8, <1>10, <2>2
<1>14. \A i \in Low(q)..(q.pub - 1) :
         Readers(q, i) # {} => Readers(r, i) # {} /\ q.array[Slot(r, i)] = r.array[Slot(r, i)]
  BY <1>5, <1>6, <1>8, <1>10
<1>. QED BY <1>5, <1>6, <1>7, <1>8, <1>11, <1>12, <1>13, <1>14

-----------------------------------------------------------------------------
(* What every way to publish does: the first m of the values vs are in, for   *)
(* those who are subscribed, and the oldest may have been dropped.           *)
Stored(r, q, vs, m) ==
  /\ RingInv(q)
  /\ q.cap = r.cap /\ q.subscribed = r.subscribed /\ q.index = r.index
  /\ m \in 0..Len(vs) /\ q.pub = r.pub + m
  /\ Low(r) <= Low(q)
  /\ \A i \in Low(q)..(r.pub - 1) : q.array[Slot(r, i)] = r.array[Slot(r, i)]
  /\ \A j \in 1..m : Low(q) <= r.pub + j - 1 => q.array[Slot(r, r.pub + j - 1)] = vs[j]

(* publish.                                                                 *)
LEMMA PublishFacts ==
  ASSUME NEW r, RingInv(r), ~IsFull(r), NEW V, NEW v \in V, NEW q, q = Publish(r, v)
  PROVE  /\ Stored(r, q, <<v>>, IF r.subscribed = {} THEN 0 ELSE 1)
         /\ Low(q) = Low(r)
<1>1. r.pub \in Nat /\ Low(r) \in Nat /\ Low(r) <= r.pub
  BY RingFacts
<1>2. PICK ws \in Seq(V) : ws = <<v>> /\ Len(ws) = 1 /\ ws[1] = v
  <2>1. <<v>> \in Seq(V)
    OBVIOUS
  <2>2. Len(<<v>>) = 1 /\ <<v>>[1] = v
    OBVIOUS
  <2>. QED BY <2>1, <2>2
<1>3. CASE r.subscribed = {}
  <2>1. q = r
    BY <1>3 DEF Publish
  <2>. QED BY <1>1, <1>2, <1>3, <2>1 DEF Stored
<1>4. CASE r.subscribed # {}
  <2>1. q = Store(r, ws)
    BY <1>2, <1>4 DEF Publish
  <2>2. r.cap # Unbounded => r.pub + Len(ws) <= Low(r) + r.cap
    <3>1. SUFFICES ASSUME r.cap # Unbounded PROVE r.pub + 1 <= Low(r) + r.cap
      BY <1>2
    <3>2. r.cap \in Nat /\ r.pub <= Low(r) + r.cap
      BY <3>1 DEF RingInv, RingShape
    <3>3. r.pub # Low(r) + r.cap
      BY <3>1, RingFacts
    <3>. QED BY <1>1, <3>2, <3>3
  <2>3. /\ RingInv(q)
        /\ q.cap = r.cap /\ q.subscribed = r.subscribed /\ q.index = r.index
        /\ q.pub = r.pub + Len(ws) /\ Low(q) = Low(r)
        /\ \A i \in Low(r)..(r.pub - 1) : q.array[Slot(r, i)] = r.array[Slot(r, i)]
        /\ \A j \in 1..Len(ws) : q.array[Slot(r, r.pub + j - 1)] = ws[j]
    BY <1>4, <2>1, <2>2, StoreFacts
  <2>. QED BY <1>1, <1>2, <1>4, <2>3 DEF Stored
<1>. QED BY <1>3, <1>4

(* publishAll.                                                              *)
LEMMA PublishAllFacts ==
  ASSUME NEW r, RingInv(r), NEW V, NEW vs \in Seq(V), NEW q, q = PublishAll(r, vs)
  PROVE  /\ Fitting(r, Len(vs)) \in 0..Len(vs)
         /\ \E m \in 0..Fitting(r, Len(vs)) : Stored(r, q, vs, m)
         /\ Low(q) = Low(r)
<1>1. r.pub \in Nat /\ Low(r) \in Nat /\ Low(r) <= r.pub /\ SizeOf(r) = r.pub - Low(r)
  BY RingFacts
<1>2. PICK n \in Nat : n = Len(vs)
  OBVIOUS
<1>3. PICK f \in 0..n : f = Fitting(r, n) /\ (r.cap # Unbounded => r.pub + f <= Low(r) + r.cap)
  <2>1. CASE r.cap = Unbounded
    BY <2>1 DEF Fitting
  <2>2. CASE r.cap # Unbounded
    <3>1. r.cap \in Nat /\ r.pub <= Low(r) + r.cap
      BY <2>2 DEF RingInv, RingShape
    <3>2. Fitting(r, n) = Least(n, r.cap - SizeOf(r))
      BY <2>2 DEF Fitting, Single
    <3>. QED BY <1>1, <3>1, <3>2 DEF Least
  <2>. QED BY <2>1, <2>2
<1>4. CASE AsksFirst(r) /\ r.subscribed = {}
  <2>1. q = r
    BY <1>4 DEF PublishAll
  <2>2. Stored(r, r, vs, 0)
    BY <1>1, <1>2 DEF Stored
  <2>3. 0 \in 0..f
    BY <1>3
  <2>. QED BY <1>2, <1>3, <2>1, <2>2, <2>3
<1>5. CASE ~(AsksFirst(r) /\ r.subscribed = {})
  <2>1. PICK ws \in Seq(V) : ws = First(vs, f) /\ Len(ws) = f /\ \A j \in 1..f : ws[j] = vs[j]
    <3>1. \A j \in 1..f : vs[j] \in V
      BY <1>2
    <3>2. Len(SubSeq(vs, 1, f)) = f /\ \A j \in 1..f : SubSeq(vs, 1, f)[j] = vs[j]
      BY <1>2
    <3>3. SubSeq(vs, 1, f) \in Seq(V)
      BY <1>2, <3>1
    <3>. QED BY <3>2, <3>3 DEF First
  <2>2. q = Store(r, ws)
    BY <1>2, <1>3, <1>5, <2>1 DEF PublishAll
  <2>3. r.cap # Unbounded => r.pub + Len(ws) <= Low(r) + r.cap
    BY <1>3, <2>1
  <2>4. Single(r) => ws = <<>> \/ r.subscribed # {}
    BY <1>5 DEF AsksFirst
  <2>5. /\ RingInv(q)
        /\ q.cap = r.cap /\ q.subscribed = r.subscribed /\ q.index = r.index
        /\ q.pub = r.pub + Len(ws) /\ Low(q) = Low(r)
        /\ \A i \in Low(r)..(r.pub - 1) : q.array[Slot(r, i)] = r.array[Slot(r, i)]
        /\ \A j \in 1..Len(ws) : q.array[Slot(r, r.pub + j - 1)] = ws[j]
    BY <2>2, <2>3, <2>4, StoreFacts
  <2>6. Stored(r, q, vs, f)
    BY <1>1, <1>2, <2>1, <2>5 DEF Stored
  <2>7. f \in 0..f
    BY <1>3
  <2>. QED BY <1>2, <1>3, <2>5, <2>6, <2>7
<1>. QED BY <1>4, <1>5

(* The recursive definition of SlideIn defines a function.                   *)
Slides(r, vs, n, h) ==
  h = [i \in 0..n |-> IF i = 0 THEN r ELSE Publish(DropOldest(h[i - 1]), vs[i])]

(* Such a function exists for every number of values.                        *)
LEMMA SlidesExists ==
  ASSUME NEW r, NEW vs
  PROVE  \A n \in Nat : \E h : Slides(r, vs, n, h)
<1>. DEFINE T == {n \in Nat : \E h : Slides(r, vs, n, h)}
<1>1. 0 \in T
  <2>. DEFINE h == [i \in 0..0 |-> r]
  <2>1. Slides(r, vs, 0, h)
    BY DEF Slides
  <2>. QED BY <2>1
<1>2. ASSUME NEW n \in Nat, n \in T PROVE n + 1 \in T
  <2>1. PICK g : Slides(r, vs, n, g)
    BY <1>2
  <2>. DEFINE h == [i \in 0..(n + 1) |-> IF i \in 0..n THEN g[i]
                                         ELSE Publish(DropOldest(g[n]), vs[n + 1])]
              k == [i \in 0..(n + 1) |-> IF i = 0 THEN r
                                         ELSE Publish(DropOldest(h[i - 1]), vs[i])]
  <2>2. ASSUME NEW i \in 0..(n + 1) PROVE h[i] = k[i]
    <3>1. CASE i = n + 1
      <4>1. i \notin 0..n /\ n \in 0..n /\ n \in 0..(n + 1) /\ i - 1 = n /\ i # 0
        BY <3>1
      <4>. QED BY <3>1, <4>1
    <3>2. CASE i = 0
      <4>1. g[0] = r /\ 0 \in 0..n /\ 0 \in 0..(n + 1)
        BY <2>1 DEF Slides
      <4>. QED BY <3>2, <4>1
    <3>3. CASE i \in 1..n
      <4>1. i \in 0..n /\ i - 1 \in 0..n /\ i - 1 \in 0..(n + 1) /\ i # 0
        BY <3>3
      <4>2. g[i] = Publish(DropOldest(g[i - 1]), vs[i])
        BY <2>1, <4>1 DEF Slides
      <4>. QED BY <4>1, <4>2
    <3>. QED BY <3>1, <3>2, <3>3
  <2>3. h = k
    <3>. HIDE DEF h
    <3>1. h = [i \in 0..(n + 1) |-> h[i]]
      BY DEF h
    <3>2. k = [i \in 0..(n + 1) |-> k[i]]
      OBVIOUS
    <3>. HIDE DEF k
    <3>. QED BY <2>2, <3>1, <3>2
  <2>4. Slides(r, vs, n + 1, h)
    BY <2>3, Zenon DEF Slides
  <2>. QED BY <2>4
<1>. HIDE DEF T
<1>3. \A n \in Nat : n \in T
  BY <1>1, <1>2, CountUp
<1>. QED BY <1>3 DEF T

(* SlideIn is what it ends with.                                             *)
LEMMA SlideInSlides ==
  ASSUME NEW r, NEW V, NEW vs \in Seq(V)
  PROVE  \E h : Slides(r, vs, Len(vs), h) /\ SlideIn(r, vs) = h[Len(vs)]
<1>. DEFINE slid[n \in 0..Len(vs)] ==
       IF n = 0 THEN r ELSE Publish(DropOldest(slid[n - 1]), vs[n])
<1>1. SlideIn(r, vs) = slid[Len(vs)]
  BY Zenon DEF SlideIn
<1>2. Len(vs) \in Nat
  OBVIOUS
<1>3. \E h : Slides(r, vs, Len(vs), h)
  BY <1>2, SlidesExists
<1>4. Slides(r, vs, Len(vs), slid)
  BY <1>3, Zenon DEF Slides
<1>. QED BY <1>1, <1>4, Zenon

(* One more value slides in.                                                *)
LEMMA SlideOne ==
  ASSUME NEW r, RingInv(r), ~Single(r), NEW V, NEW vs \in Seq(V), NEW n \in Nat, n + 1 \in 1..Len(vs),
         NEW q, Stored(r, q, vs, IF r.subscribed = {} THEN 0 ELSE n),
         NEW p, p = Publish(DropOldest(q), vs[n + 1])
  PROVE  Stored(r, p, vs, IF r.subscribed = {} THEN 0 ELSE n + 1)
<1>1. PICK m \in Nat : m = IF r.subscribed = {} THEN 0 ELSE n
  OBVIOUS
<1>2. /\ RingInv(q) /\ q.cap = r.cap /\ q.subscribed = r.subscribed /\ q.index = r.index
      /\ m \in 0..Len(vs) /\ q.pub = r.pub + m /\ Low(r) <= Low(q)
      /\ \A i \in Low(q)..(r.pub - 1) : q.array[Slot(r, i)] = r.array[Slot(r, i)]
      /\ \A j \in 1..m : Low(q) <= r.pub + j - 1 => q.array[Slot(r, r.pub + j - 1)] = vs[j]
  BY <1>1 DEF Stored
<1>3. PICK d : d = DropOldest(q)
  OBVIOUS
<1>4. ~Single(q)
  BY <1>2 DEF Single
<1>5. /\ RingInv(d) /\ d.cap = q.cap /\ d.subscribed = q.subscribed /\ d.index = q.index
      /\ d.pub = q.pub
      /\ Low(q) <= Low(d) /\ (q.cap # Unbounded => q.pub + 1 <= Low(d) + q.cap)
      /\ \A i \in Low(d)..(q.pub - 1) : d.array[Slot(q, i)] = q.array[Slot(q, i)]
  BY <1>2, <1>3, <1>4, DropFacts
<1>6. ~IsFull(d)
  <2>1. IsFull(d) <=> (d.cap # Unbounded /\ d.pub = Low(d) + d.cap)
    BY <1>5, RingFacts
  <2>2. d.pub \in Nat /\ Low(d) \in Nat
    BY <1>5, RingFacts
  <2>. QED BY <1>5, <2>1, <2>2
<1>7. vs[n + 1] \in V
  OBVIOUS
<1>8. Stored(d, p, <<vs[n + 1]>>, IF d.subscribed = {} THEN 0 ELSE 1) /\ Low(p) = Low(d)
  BY <1>3, <1>5, <1>6, <1>7, PublishFacts
<1>9. PICK w : w = IF d.subscribed = {} THEN 0 ELSE 1
  OBVIOUS
<1>10. /\ RingInv(p) /\ p.cap = d.cap /\ p.subscribed = d.subscribed /\ p.index = d.index
       /\ p.pub = d.pub + w
       /\ \A i \in Low(p)..(d.pub - 1) : p.array[Slot(d, i)] = d.array[Slot(d, i)]
       /\ \A j \in 1..w : Low(p) <= d.pub + j - 1 =>
                             p.array[Slot(d, d.pub + j - 1)] = <<vs[n + 1]>>[j]
  BY <1>8, <1>9 DEF Stored
<1>11. \A i : Slot(q, i) = Slot(r, i) /\ Slot(d, i) = Slot(r, i)
  BY <1>2, <1>5 DEF Slot
<1>12. PICK u \in Nat, a \in Nat, b \in Nat, l \in Nat :
         u = r.pub /\ a = Low(q) /\ b = Low(p) /\ l = Low(r) /\ l <= a /\ a <= b /\ b = Low(d)
  <2>1. r.pub \in Nat /\ Low(r) \in Nat
    BY RingFacts
  <2>2. Low(q) \in Nat
    BY <1>2, RingFacts
  <2>3. Low(p) \in Nat
    BY <1>10, RingFacts
  <2>. QED BY <1>2, <1>5, <1>8, <2>1, <2>2, <2>3
<1>13. \A i \in b..(u - 1) : p.array[Slot(r, i)] = r.array[Slot(r, i)]
  <2>1. SUFFICES ASSUME NEW i \in b..(u - 1) PROVE p.array[Slot(r, i)] = r.array[Slot(r, i)]
    OBVIOUS
  <2>2. i \in b..((u + m) - 1) /\ i \in a..(u - 1)
    BY <1>1, <1>12
  <2>3. i \in Low(p)..(d.pub - 1) /\ i \in Low(d)..(q.pub - 1) /\ i \in Low(q)..(r.pub - 1)
    BY <1>2, <1>5, <1>12, <2>2
  <2>4. p.array[Slot(r, i)] = d.array[Slot(r, i)]
    BY <1>10, <1>11, <2>3
  <2>5. d.array[Slot(r, i)] = q.array[Slot(r, i)]
    BY <1>5, <1>11, <2>3
  <2>. QED BY <1>2, <2>3, <2>4, <2>5
<1>14. \A j \in 1..m : b <= u + j - 1 => p.array[Slot(r, u + j - 1)] = vs[j]
  <2>1. SUFFICES ASSUME NEW j \in 1..m, b <= u + j - 1 PROVE p.array[Slot(r, u + j - 1)] = vs[j]
    OBVIOUS
  <2>2. PICK i \in Nat : i = u + j - 1 /\ i \in b..((u + m) - 1) /\ a <= i
    BY <1>1, <1>12, <2>1
  <2>3. i \in Low(p)..(d.pub - 1) /\ i \in Low(d)..(q.pub - 1)
    BY <1>2, <1>5, <1>12, <2>2
  <2>4. p.array[Slot(r, i)] = d.array[Slot(r, i)]
    BY <1>10, <1>11, <2>3
  <2>5. d.array[Slot(r, i)] = q.array[Slot(r, i)]
    BY <1>5, <1>11, <2>3
  <2>6. q.array[Slot(r, i)] = vs[j]
    BY <1>2, <1>12, <2>2
  <2>. QED BY <2>2, <2>4, <2>5, <2>6
<1>15. CASE r.subscribed = {}
  <2>1. m = 0 /\ w = 0
    BY <1>1, <1>2, <1>5, <1>9, <1>15
  <2>. QED BY <1>2, <1>5, <1>10, <1>12, <1>13, <1>14, <1>15, <2>1 DEF Stored
<1>16. CASE r.subscribed # {}
  <2>1. m = n /\ w = 1 /\ p.pub = u + (n + 1)
    <3>1. m = n /\ w = 1
      BY <1>1, <1>2, <1>5, <1>9, <1>16
    <3>2. p.pub = (u + m) + w
      BY <1>2, <1>5, <1>10, <1>12
    <3>. QED BY <1>12, <3>1, <3>2
  <2>2. b <= u + (n + 1) - 1 => p.array[Slot(r, u + (n + 1) - 1)] = vs[n + 1]
    <3>1. d.pub = u + n /\ u + (n + 1) - 1 = u + n /\ d.pub + 1 - 1 = u + n
      BY <1>2, <1>5, <1>12, <2>1
    <3>2. <<vs[n + 1]>>[1] = vs[n + 1] /\ 1 \in 1..w
      BY <2>1
    <3>. QED BY <1>10, <1>11, <1>12, <3>1, <3>2
  <2>3. \A j \in 1..(n + 1) : b <= u + j - 1 => p.array[Slot(r, u + j - 1)] = vs[j]
    <3>1. \A j \in 1..(n + 1) : j \in 1..n \/ j = n + 1
      OBVIOUS
    <3>. QED BY <1>14, <2>1, <2>2, <3>1
  <2>4. n + 1 \in 0..Len(vs)
    OBVIOUS
  <2>. QED BY <1>2, <1>5, <1>10, <1>12, <1>13, <1>16, <2>1, <2>3, <2>4 DEF Stored
<1>. QED BY <1>15, <1>16

(* SlidingStrategy.handleSurplus.                                           *)
LEMMA SlideInFacts ==
  ASSUME NEW r, RingInv(r), ~Single(r), NEW V, NEW vs \in Seq(V)
  PROVE  Stored(r, SlideIn(r, vs), vs, IF r.subscribed = {} THEN 0 ELSE Len(vs))
<1>1. PICK h : Slides(r, vs, Len(vs), h) /\ SlideIn(r, vs) = h[Len(vs)]
  BY SlideInSlides
<1>2. PICK n \in Nat : n = Len(vs)
  OBVIOUS
<1>. DEFINE In(m, q) == Stored(r, q, vs, IF r.subscribed = {} THEN 0 ELSE m)
            T == {m \in Nat : m <= n => In(m, h[m])}
<1>3. 0 \in T
  <2>1. h[0] = r
    BY <1>1, <1>2 DEF Slides
  <2>2. r.pub \in Nat /\ Low(r) \in Nat
    BY RingFacts
  <2>3. Stored(r, r, vs, 0)
    BY <1>2, <2>2 DEF Stored
  <2>. QED BY <2>1, <2>3
<1>4. ASSUME NEW m \in Nat, m \in T PROVE m + 1 \in T
  <2>1. SUFFICES ASSUME m + 1 <= n PROVE In(m + 1, h[m + 1])
    OBVIOUS
  <2>2. m + 1 \in 0..n /\ (m + 1) - 1 = m /\ m + 1 # 0 /\ m <= n /\ m + 1 \in 1..Len(vs)
    BY <1>2, <2>1
  <2>3. h[m + 1] = Publish(DropOldest(h[m]), vs[m + 1])
    BY <1>1, <1>2, <2>2 DEF Slides
  <2>4. Stored(r, h[m], vs, IF r.subscribed = {} THEN 0 ELSE m)
    BY <1>4, <2>2
  <2>. QED BY <2>2, <2>3, <2>4, SlideOne
<1>. HIDE DEF T
<1>5. n \in T
  BY <1>3, <1>4, CountUp
<1>. QED BY <1>1, <1>2, <1>5 DEF T

(* Nobody's reading changes when values are stored, and everybody has yet to  *)
(* read the new ones: somebody has yet to read the oldest value if somebody  *)
(* had before.                                                              *)
LEMMA StoredFacts ==
  ASSUME NEW r, RingInv(r), NEW q, NEW vs, Len(vs) \in Nat, NEW m, Stored(r, q, vs, m)
  PROVE  /\ \A i : Slot(q, i) = Slot(r, i) /\ Readers(q, i) = Readers(r, i)
         /\ \A i \in r.pub..(q.pub - 1) : Readers(r, i) = r.subscribed
         /\ Retains(r) /\ (m # 0 => r.subscribed # {}) => Retains(q)
         /\ IsFull(r) /\ Low(q) = Low(r) => IsFull(q)
<1>1. /\ RingInv(q) /\ q.cap = r.cap /\ q.subscribed = r.subscribed /\ q.index = r.index
      /\ m \in Nat /\ q.pub = r.pub + m /\ Low(r) <= Low(q)
  BY DEF Stored
<1>2. /\ Low(r) \in Nat /\ r.pub \in Nat /\ Low(r) <= r.pub
      /\ IsFull(r) <=> (r.cap # Unbounded /\ r.pub = Low(r) + r.cap)
  BY RingFacts
<1>3. /\ Low(q) \in Nat /\ q.pub \in Nat /\ Low(q) <= q.pub
      /\ IsFull(q) <=> (q.cap # Unbounded /\ q.pub = Low(q) + q.cap)
  BY <1>1, RingFacts
<1>4. \A i : Slot(q, i) = Slot(r, i) /\ Readers(q, i) = Readers(r, i)
  BY <1>1 DEF Slot, Readers
<1>5. \A s \in r.subscribed : r.index[s] \in Nat /\ r.index[s] <= r.pub
  BY DEF RingInv, RingShape
<1>6. \A i \in r.pub..(q.pub - 1) : Readers(r, i) = r.subscribed
  <2>1. ASSUME NEW i \in r.pub..(q.pub - 1), NEW s \in r.subscribed PROVE r.index[s] <= i
    BY <1>2, <1>3, <1>5
  <2>. QED BY <2>1 DEF Readers
<1>7. ASSUME Retains(r), m # 0 => r.subscribed # {}, Low(q) < q.pub PROVE Readers(q, Low(q)) # {}
  <2>1. CASE Low(q) < r.pub
    <3>1. PICK s \in r.subscribed : r.index[s] <= Low(r)
      <4>1. Low(r) < r.pub
        BY <1>1, <1>2, <1>3, <2>1
      <4>. QED BY <1>7, <4>1 DEF Retains, Readers
    <3>2. r.index[s] <= Low(q)
      BY <1>1, <1>2, <1>3, <1>5, <3>1
    <3>. QED BY <1>4, <3>2 DEF Readers
  <2>2. CASE Low(q) >= r.pub
    <3>1. Low(q) \in r.pub..(q.pub - 1) /\ m # 0
      BY <1>1, <1>2, <1>3, <1>7, <2>2
    <3>. QED BY <1>4, <1>6, <1>7, <3>1
  <2>. QED BY <1>2, <1>3, <2>1, <2>2
<1>8. ASSUME IsFull(r), Low(q) = Low(r) PROVE IsFull(q)
  <2>1. q.pub <= Low(q) + q.cap /\ q.cap \in Nat /\ q.cap # Unbounded /\ r.pub = Low(q) + q.cap
    BY <1>1, <1>2, <1>8 DEF RingInv, RingShape
  <2>. QED BY <1>1, <1>2, <1>3, <2>1
<1>. QED BY <1>4, <1>6, <1>7, <1>8 DEF Retains

-----------------------------------------------------------------------------
(* The steps, by what they do to the ring and to the history.                 *)

(* The first m of the values vs are published.                                *)
AddsThese(vs, m) ==
  /\ Stored(ring, ring', vs, m)
  /\ log' = log \o [k \in 1..m |-> [value |-> vs[k], audience |-> ring.subscribed]]
  /\ strategy # "sliding" => Low(ring') = Low(ring)

Adds == seen' = seen /\ \E vs \in Seq(Value) : \E m \in Nat : AddsThese(vs, m)

(* A subscription reads some of what it has yet to read.                     *)
TakesSome ==
  \E s \in ring.subscribed : \E n \in 0..Unread(ring, s) :
    Reads(s, n) /\ log' = log

(* One comes, or goes.                                                      *)
Enters(s, next) == \A t \in Subscription : phase'[t] = IF t = s THEN next ELSE phase[t]
Comes == \E s \in Subscription : /\ phase[s] = "out" /\ Enters(s, "joining")
                                 /\ ring' = Subscribed(ring, s)
                                 /\ log' = log /\ seen' = seen
Goes == \E s \in ring.subscribed : /\ Enters(s, "gone")
                                   /\ ring' = Unsubscribed(ring, s)
                                   /\ log' = log /\ seen' = seen

(* The same have yet to come, and the same are gone.                         *)
SameMembers == \A s \in Subscription : \A end \in {"out", "gone"} : phase'[s] = end <=> phase[s] = end

(* Every step is one of these, or touches neither ring nor history.           *)
HistoryStep ==
  /\ strategy' = strategy
  /\ \/ SameMembers /\ (values' = values \/ Adds \/ TakesSome)
     \/ Comes
     \/ Goes

(* What Stores adds to the history when the ring has stored m of vs.         *)
LEMMA StoresAdds ==
  ASSUME PubType, NEW vs, Len(vs) \in Nat, NEW q, NEW m, Stored(ring, q, vs, m), Stores(q, vs),
         strategy # "sliding" => Low(q) = Low(ring)
  PROVE  AddsThese(vs, m) /\ ring' = q
<1>1. ring.pub \in Nat /\ m \in 0..Len(vs) /\ q.pub = ring.pub + m
  BY RingFacts DEF PubType, Stored
<1>2. q.pub - ring.pub = m
  BY <1>1
<1>. QED BY <1>2 DEF Stores, AddsThese

-----------------------------------------------------------------------------
(* Types.                                                                   *)

(* What Dropped leaves of a line.                                            *)
LEMMA DroppedFacts ==
  ASSUME NEW S, NEW line \in Seq(S), NEW x
  PROVE  Dropped(line, x) \in Seq(S) /\ ToSet(Dropped(line, x)) = ToSet(line) \ {x}
BY KeepMembers DEF Dropped

(* Whom OnEmptySpace calls.                                                 *)
LEMMA EmptySpaceFacts ==
  /\ OnEmptySpace \in Seq(Subscription \cup {Hub})
  /\ strategy = "backPressure" => Hub \in ToSet(OnEmptySpace)
<1>1. CASE strategy = "backPressure"
  <2>1. OnEmptySpace = <<Hub>> /\ <<Hub>> \in Seq(Subscription \cup {Hub})
    BY <1>1 DEF OnEmptySpace
  <2>. QED BY <2>1, Heads
<1>2. CASE strategy # "backPressure"
  BY <1>2 DEF OnEmptySpace
<1>. QED BY <1>1, <1>2

(* Settle leaves a Deferred in one of its states.                            *)
LEMMA SettleType ==
  ASSUME StateType, NEW S, NEW how \in {"done", "interrupted"}, Settle(S, how)
  PROVE  deferred' \in [Client -> {"none", "pending", "done", "interrupted"}]
BY DEF StateType, Settle

(* What is left to do after some values.                                     *)
LEMMA GotType ==
  ASSUME StateType, NEW c \in Client, NEW n \in Nat, NEW next \in {"between", "taking"}, Got(c, n, next)
  PROVE  /\ doing' \in [Client -> Operation] /\ pc' \in [Client -> Label]
         /\ pc'[c] \in {"between", "taking", "taken"}
         /\ \A d \in Client : d # c => pc'[d] = pc[d] /\ doing'[d] = doing[d]
         /\ \A d \in Client : doing'[d].on = doing[d].on
<1>1. doing[c] \in Operation /\ doing \in [Client -> Operation] /\ pc \in [Client -> Label]
  BY DEF StateType
<1>2. PICK lo \in Nat, hi \in Nat :
         /\ lo = (IF doing[c].lo > n THEN doing[c].lo - n ELSE 0)
         /\ hi = (IF doing[c].hi > n THEN doing[c].hi - n ELSE 0)
  BY <1>1 DEF Operation
<1>3. doing' = [doing EXCEPT ![c] = [doing[c] EXCEPT !.lo = lo, !.hi = hi]]
  BY <1>1, <1>2 DEF Got
<1>4. [doing[c] EXCEPT !.lo = lo, !.hi = hi] \in Operation
  BY <1>1, <1>2 DEF Operation
<1>5. [doing[c] EXCEPT !.lo = lo, !.hi = hi].on = doing[c].on
  BY <1>1 DEF Operation
<1>6. pc' = [pc EXCEPT ![c] = IF doing[c].lo > n THEN next ELSE "taken"]
  BY DEF Got, Goto
<1>. QED BY <1>1, <1>3, <1>4, <1>5, <1>6 DEF Label

(* The values of a client.                                                  *)
LEMMA ValuesFacts ==
  ASSUME StateType, NEW c \in Client
  PROVE  /\ Values(c) \in Seq(Value) /\ Len(Values(c)) = doing[c].lo /\ doing[c].lo \in Nat
         /\ \A k \in 1..doing[c].lo : Values(c)[k] = <<c, k>>
         /\ \A v \in ToSet(Values(c)) : v \in Value /\ v[1] = c
         /\ IsInjective(Values(c))
<1>1. doing[c].lo \in Nat
  BY DEF StateType, Operation
<1>2. \A k \in 1..doing[c].lo : <<c, k>> \in Value
  BY <1>1 DEF Value
<1>. QED BY <1>1, <1>2 DEF Values, ToSet, IsInjective

(* The values of a publishAll that do not fit.                              *)
LEMMA SurplusFacts ==
  ASSUME StateType, NEW c \in Client, NEW f \in 0..doing[c].lo, NEW t, t = After(Values(c), f)
  PROVE  /\ t \in Seq(Value) /\ IsInjective(t)
         /\ \A v \in ToSet(t) : v[1] = c /\ v[2] > f
<1>1. PICK n \in Nat : n = doing[c].lo
  BY ValuesFacts
<1>2. Values(c) \in Seq(Value) /\ Len(Values(c)) = n /\ \A k \in 1..n : Values(c)[k] = <<c, k>>
  BY <1>1, ValuesFacts
<1>3. f \in 0..n /\ t = SubSeq(Values(c), f + 1, n)
  BY <1>1, <1>2 DEF After
<1>4. Len(t) = n - f /\ \A k \in 1..(n - f) : t[k] = Values(c)[f + k] /\ f + k \in 1..n
  <2>1. Len(t) = n - f
    BY <1>2, <1>3
  <2>2. \A k \in 1..(n - f) : t[k] = Values(c)[f + k] /\ f + k \in 1..n
    BY <1>2, <1>3
  <2>. QED BY <2>1, <2>2
<1>5. t \in Seq(Value)
  BY <1>2, <1>3, <1>4
<1>6. \A k \in 1..(n - f) : t[k] = <<c, f + k>>
  BY <1>2, <1>4
<1>7. \A i, j \in 1..(n - f) : t[i] = t[j] => i = j
  <2>1. SUFFICES ASSUME NEW i \in 1..(n - f), NEW j \in 1..(n - f), <<c, f + i>> = <<c, f + j>> PROVE i = j
    BY <1>6
  <2>2. f + i = f + j
    BY <2>1
  <2>. QED BY <1>3, <2>2
<1>8. DOMAIN t = 1..(n - f)
  BY <1>4, <1>5
<1>9. \A k \in 1..(n - f) : t[k][1] = c /\ t[k][2] > f
  <2>1. ASSUME NEW k \in 1..(n - f) PROVE t[k][1] = c /\ t[k][2] > f
    <3>1. PICK i \in Nat : i = f + k /\ i > f
      BY <1>3
    <3>2. t[k] = <<c, i>>
      BY <1>6, <3>1
    <3>. QED BY <3>1, <3>2
  <2>. QED BY <2>1
<1>. QED BY <1>5, <1>7, <1>8, <1>9 DEF ToSet, IsInjective

(* The variables but the ring and the histories have their types at first.    *)
LEMMA StateInit == Init => StateType
<1>. SUFFICES ASSUME Init PROVE StateType
  OBVIOUS
<1>1. doing \in [Client -> Operation] /\ \A c \in Client : doing[c] \in Program[c]
  <2>1. /\ doing \in [Client -> UNION {Program[c] : c \in Client}]
        /\ \A c \in Client : doing[c] \in Program[c]
    BY DEF Init
  <2>2. \A c \in Client : doing[c] \in Operation
    BY <2>1, ProgramAssumption
  <2>. QED BY <2>1, <2>2
<1>2. pc \in [Client -> Label]
  BY <1>1 DEF Init, Label, Operation
<1>3. /\ publishers = <<>> /\ subscribers = <<>> /\ calls = <<>>
      /\ pollers = [s \in Subscription |-> <<>>] /\ phase = [s \in Subscription |-> "out"]
      /\ isShutdown = FALSE /\ hook = FALSE /\ scopeOpen = TRUE
      /\ closing = [todo |-> {}, now |-> {}] /\ polled = [p \in Subscription \cup {Hub} |-> {}]
      /\ rest = [c \in Client |-> <<>>] /\ deferred = [c \in Client |-> "none"]
      /\ interrupted = [c \in Client |-> FALSE]
  BY DEF Init
<1>4. /\ publishers \in Seq(Value) /\ subscribers \in Seq(Subscription)
      /\ calls \in Seq(Subscription \cup {Hub}) /\ pollers \in [Subscription -> Seq(Client)]
      /\ rest \in [Client -> Seq(Value)]
  BY <1>3
<1>. QED BY <1>1, <1>2, <1>3, <1>4 DEF StateType

(* Every step keeps the types.                                              *)
LEMMA StateStep ==
  ASSUME PubType, NoSlidingSlot, [Next]_vars
  PROVE  StateType'
<1>. USE DEF PubType
<1>1. CASE UNCHANGED vars
  BY <1>1 DEF vars, values, waiting, hub, scopes, programs, StateType
<1>2. CASE Loop
  <2>. USE DEF Loop, hub, scopes, programs
  <2>1. calls \in Seq(Subscription \cup {Hub}) /\ calls # <<>> /\ Tail(calls) \in Seq(Subscription \cup {Hub})
    BY <1>2, HeadAndTail DEF StateType, Idle
  <2>2. OnEmptySpace \in Seq(Subscription \cup {Hub})
    BY EmptySpaceFacts
  <2>3. \A t \in Seq(Subscription \cup {Hub}) : t \o calls \in Seq(Subscription \cup {Hub})
    BY <2>1, Concats
  <2>4. subscribers \in Seq(Subscription \cup {Hub})
    BY DEF StateType
  <2>5. CASE Head(calls) # Hub /\ CompletePollers(Head(calls))
    <3>1. Head(calls) \in Subscription
      BY <2>1, <2>5, HeadAndTail
    <3>. DEFINE s == Head(calls)
    <3>2. pollers' \in [Subscription -> Seq(Client)]
      <4>1. pollers[s] # <<>> => Tail(pollers[s]) \in Seq(Client)
        BY <3>1, HeadAndTail DEF StateType
      <4>. QED BY <2>5, <4>1 DEF CompletePollers, StateType
    <3>3. deferred' \in [Client -> {"none", "pending", "done", "interrupted"}]
      BY <2>5, SettleType DEF CompletePollers, StateType
    <3>4. subscribers' \in Seq(Subscription)
      BY <2>5, DroppedFacts DEF CompletePollers, StateType
    <3>5. calls' \in Seq(Subscription \cup {Hub})
      BY <2>1, <2>2, <2>3, <2>5 DEF CompletePollers
    <3>6. publishers' = publishers
      BY <2>5 DEF CompletePollers
    <3>. QED BY <1>2, <3>2, <3>3, <3>4, <3>5, <3>6 DEF StateType
  <2>6. CASE Head(calls) = Hub /\ OnPubSubEmptySpace
    <3>1. publishers' \in Seq(Value)
      <4>1. publishers' = publishers \/ (publishers # <<>> /\ publishers' = Tail(publishers))
        BY <2>6 DEF OnPubSubEmptySpace
      <4>2. publishers \in Seq(Value)
        BY DEF StateType
      <4>3. publishers # <<>> => Tail(publishers) \in Seq(Value)
        BY <4>2, HeadAndTail
      <4>. QED BY <4>1, <4>2, <4>3
    <3>2. deferred' \in [Client -> {"none", "pending", "done", "interrupted"}]
      BY <2>6, SettleType DEF OnPubSubEmptySpace, StateType
    <3>3. calls' \in Seq(Subscription \cup {Hub})
      BY <2>1, <2>3, <2>4, <2>6 DEF OnPubSubEmptySpace
    <3>4. pollers' = pollers /\ subscribers' = subscribers
      BY <2>6 DEF OnPubSubEmptySpace
    <3>. QED BY <1>2, <3>1, <3>2, <3>3, <3>4 DEF StateType
  <2>. QED BY <1>2, <2>5, <2>6
<1>3. ASSUME NEW c \in Client, ClientStep(c) \/ Interrupt(c) PROVE StateType'
  <2>. USE DEF waiting, hub, scopes, programs, Goto, StateType, Label
  <2>1. CASE PublishOne(c)
    <3>1. calls' \in Seq(Subscription \cup {Hub})
      <4>1. calls' = calls \/ calls' = subscribers
        BY <2>1 DEF PublishOne, Published
      <4>. QED BY <4>1
    <3>2. pc' \in [Client -> Label]
      BY <2>1 DEF PublishOne
    <3>3. rest' \in [Client -> Seq(Value)]
      <4>1. rest' = rest \/ rest' = [rest EXCEPT ![c] = Values(c)]
        BY <2>1 DEF PublishOne
      <4>2. Values(c) \in Seq(Value)
        BY ValuesFacts
      <4>. QED BY <4>1, <4>2
    <3>. QED BY <2>1, <3>1, <3>2, <3>3 DEF PublishOne
  <2>2. CASE PublishMany(c)
    <3>1. calls' \in Seq(Subscription \cup {Hub})
      BY <2>2 DEF PublishMany, Published
    <3>2. pc' \in [Client -> Label]
      BY <2>2 DEF PublishMany
    <3>3. rest' \in [Client -> Seq(Value)]
      <4>1. Fitting(ring, Len(Values(c))) \in 0..Len(Values(c))
        BY ValuesFacts, PublishAllFacts
      <4>2. After(Values(c), Fitting(ring, Len(Values(c)))) \in Seq(Value)
        BY <4>1, ValuesFacts, SurplusFacts
      <4>. QED BY <2>2, <4>2 DEF PublishMany
    <3>. QED BY <2>2, <3>1, <3>2, <3>3 DEF PublishMany
  <2>3. CASE Slide(c)
    <3>1. calls' \in Seq(Subscription \cup {Hub})
      BY <2>3 DEF Slide
    <3>. QED BY <2>3, <3>1 DEF Slide
  <2>4. CASE Suspend(c)
    <3>1. calls' \in Seq(Subscription \cup {Hub})
      BY <2>4, HeadAndTail DEF Suspend, LookAgain
    <3>2. publishers' \in Seq(Value)
      BY <2>4, Concats DEF Suspend
    <3>3. pc' \in [Client -> Label] /\ deferred' \in [Client -> {"none", "pending", "done", "interrupted"}]
      BY <2>4 DEF Suspend
    <3>. QED BY <2>4, <3>1, <3>2, <3>3 DEF Suspend
  <2>5. CASE Take(c) \/ TakeBetween(c)
    <3>1. calls' \in Seq(Subscription \cup {Hub})
      <4>1. calls' = calls \/ calls' = OnEmptySpace
        BY <2>5 DEF Take, TakeBetween
      <4>. QED BY <4>1, EmptySpaceFacts
    <3>2. doing' \in [Client -> Operation] /\ pc' \in [Client -> Label]
      <4>1. CASE doing' = doing
        <5>1. \E label \in Label : pc' = [pc EXCEPT ![c] = label]
          BY <2>5 DEF Take, TakeBetween, Got
        <5>. QED BY <4>1, <5>1
      <4>2. CASE Got(c, 1, "between")
        BY <4>2, GotType
      <4>3. CASE Got(c, Least(doing[c].hi, Available(doing[c].on)), "taking")
        <5>1. doing[c].hi \in Nat
          BY DEF Operation
        <5>2. Available(doing[c].on) \in Nat
          BY UnreadType DEF Available
        <5>3. Least(doing[c].hi, Available(doing[c].on)) \in Nat
          BY <5>1, <5>2 DEF Least
        <5>. QED BY <4>3, <5>3, GotType
      <4>. QED BY <2>5, <4>1, <4>2, <4>3 DEF Take, TakeBetween
    <3>. QED BY <2>5, <3>1, <3>2 DEF Take, TakeBetween
  <2>6. CASE Join(c)
    <3>1. doing[c].on \in Subscription
      BY DEF Operation
    <3>2. pollers' \in [Subscription -> Seq(Client)]
      BY <2>6, <3>1 DEF Join
    <3>3. subscribers' \in Seq(Subscription)
      BY <2>6, <3>1 DEF Join, Added
    <3>4. calls' \in Seq(Subscription \cup {Hub})
      BY <2>6, <3>1 DEF Join
    <3>5. pc' \in [Client -> Label] /\ deferred' \in [Client -> {"none", "pending", "done", "interrupted"}]
      BY <2>6 DEF Join, StopOrWait
    <3>. QED BY <2>6, <3>2, <3>3, <3>4, <3>5 DEF Join
  <2>7. CASE Resume(c)
    <3>1. doing' \in [Client -> Operation] /\ pc' \in [Client -> Label]
      <4>1. CASE doing' = doing
        BY <2>7, <4>1 DEF Resume, Got
      <4>2. CASE Got(c, 1, "between")
        BY <4>2, GotType
      <4>. QED BY <2>7, <4>1, <4>2 DEF Resume
    <3>. QED BY <2>7, <3>1 DEF Resume
  <2>8. CASE Stop(c) \/ Interrupt(c)
    BY <2>8 DEF Stop, Interrupt
  <2>9. CASE Cancel(c)
    <3>1. pollers' \in [Subscription -> Seq(Client)]
      BY <2>9, DroppedFacts DEF Cancel
    <3>2. publishers' \in Seq(Value)
      BY <2>9, KeepMembers DEF Cancel
    <3>. QED BY <2>9, <3>1, <3>2 DEF Cancel
  <2>10. CASE Shutdown(c) \/ CompleteHook(c)
    BY <2>10 DEF Shutdown, CompleteHook
  <2>11. CASE CloseScope(c)
    BY <2>11 DEF CloseScope
  <2>12. CASE CloseChild(c)
    BY <2>12 DEF CloseChild, Phase
  <2>13. CASE ShutdownStrategy(c)
    <3>1. \A v \in ToSet(publishers) : v[1] \in Client
      BY DEF ToSet, Value
    <3>2. polled' \in [Subscription \cup {Hub} -> SUBSET Client]
      BY <2>13, <3>1 DEF ShutdownStrategy
    <3>. QED BY <2>13, <3>2 DEF ShutdownStrategy
  <2>14. CASE FreePublishers(c)
    BY <2>14, SettleType DEF FreePublishers
  <2>. QED BY <1>3, <2>1, <2>2, <2>3, <2>4, <2>5, <2>6, <2>7, <2>8, <2>9, <2>10, <2>11, <2>12,
              <2>13, <2>14 DEF ClientStep
<1>4. ASSUME NEW s \in Subscription, Subscribe(s) \/ AddFinalizer(s) \/ Leave(s) \/ Closing(s)
      PROVE  StateType'
  <2>. USE DEF waiting, hub, scopes, programs, Phase, StateType, Closing
  <2>1. CASE Subscribe(s) \/ AddFinalizer(s) \/ Leave(s)
    BY <2>1 DEF Subscribe, AddFinalizer, Leave
  <2>2. CASE ShutSubscription(s)
    <3>1. ToSet(pollers[s]) \subseteq Client
      BY DEF ToSet
    <3>. QED BY <2>2, <3>1 DEF ShutSubscription
  <2>3. CASE FreeTakers(s)
    BY <2>3, SettleType DEF FreeTakers
  <2>4. CASE Unsubscribe(s)
    <3>1. calls' \in Seq(Subscription \cup {Hub}) /\ subscribers' \in Seq(Subscription)
      <4>1. calls' = OnEmptySpace /\ subscribers' = Dropped(subscribers, s)
        BY <2>4 DEF Unsubscribe
      <4>2. OnEmptySpace \in Seq(Subscription \cup {Hub})
        BY EmptySpaceFacts
      <4>. QED BY <4>1, <4>2, DroppedFacts
    <3>. QED BY <2>4, <3>1 DEF Unsubscribe
  <2>. QED BY <1>4, <2>1, <2>2, <2>3, <2>4
<1>. QED BY <1>1, <1>2, <1>3, <1>4 DEF Next

-----------------------------------------------------------------------------
(* Every step is a HistoryStep.                                              *)

(* publish and unsafeOffer.                                                  *)
LEMMA PublishOneAdds ==
  ASSUME PubType, NEW c \in Client, PublishOne(c)
  PROVE  \/ ring' = ring /\ log' = log /\ calls' = calls
         \/ /\ ~IsFull(ring) /\ calls' = subscribers /\ pc' = [pc EXCEPT ![c] = "accepted"]
            /\ Low(ring') = Low(ring) /\ \E m \in Nat : AddsThese(Values(c), m)
<1>1. CASE ring' = ring /\ log' = log /\ calls' = calls
  BY <1>1
<1>2. CASE ~isShutdown /\ ~IsFull(ring) /\ Published(c, Publish(ring, <<c, 1>>)) /\ Goto(c, "accepted")
  <2>1. doing[c].lo = 1 /\ <<c, 1>> \in Value
    BY DEF PublishOne, At, PubType, Value
  <2>2. Len(Values(c)) = 1 /\ Values(c)[1] = <<c, 1>>
    <3>1. Len(Values(c)) = 1 /\ \A k \in 1..1 : Values(c)[k] = <<c, k>>
      BY <2>1, ValuesFacts DEF PubType
    <3>. QED BY <3>1
  <2>3. PICK q : q = Publish(ring, <<c, 1>>)
    OBVIOUS
  <2>4. PICK m \in 0..1 : Stored(ring, q, <<<<c, 1>>>>, m) /\ Low(q) = Low(ring)
    BY <1>2, <2>1, <2>3, PublishFacts DEF PubType
  <2>5. Stored(ring, q, Values(c), m)
    <3>1. \A j \in 1..m : <<<<c, 1>>>>[j] = Values(c)[j]
      BY <2>2
    <3>. QED BY <2>2, <2>4, <3>1 DEF Stored
  <2>6. AddsThese(Values(c), m) /\ ring' = q
    BY <1>2, <2>2, <2>3, <2>4, <2>5, StoresAdds DEF Published
  <2>. QED BY <1>2, <2>4, <2>6 DEF Published, Goto
<1>. QED BY <1>1, <1>2 DEF PublishOne

(* publishAll.                                                              *)
LEMMA PublishManyAdds ==
  ASSUME PubType, NEW c \in Client, PublishMany(c)
  PROVE  \/ ring' = ring /\ log' = log /\ calls' = calls /\ pc' = [pc EXCEPT ![c] = "stopped"]
         \/ /\ calls' = subscribers /\ Low(ring') = Low(ring)
            /\ \E f \in 0..doing[c].lo :
                 /\ rest' = [rest EXCEPT ![c] = After(Values(c), f)]
                 /\ \E m \in 0..f : AddsThese(Values(c), m)
<1>1. CASE isShutdown
  BY <1>1 DEF PublishMany, Goto
<1>2. CASE ~isShutdown
  <2>1. Values(c) \in Seq(Value) /\ Len(Values(c)) = doing[c].lo /\ doing[c].lo \in Nat
    BY ValuesFacts DEF PubType
  <2>2. PICK f : f = Fitting(ring, Len(Values(c)))
    OBVIOUS
  <2>3. PICK q : q = PublishAll(ring, Values(c))
    OBVIOUS
  <2>4. /\ f \in 0..doing[c].lo /\ Low(q) = Low(ring)
        /\ \E m \in 0..f : Stored(ring, q, Values(c), m)
    BY <2>1, <2>2, <2>3, PublishAllFacts DEF PubType
  <2>5. PICK m \in 0..f : Stored(ring, q, Values(c), m)
    BY <2>4
  <2>6. /\ calls' = subscribers /\ Stores(q, Values(c))
        /\ rest' = [rest EXCEPT ![c] = After(Values(c), f)]
    BY <1>2, <2>2, <2>3 DEF PublishMany, Published
  <2>7. AddsThese(Values(c), m) /\ ring' = q
    BY <2>1, <2>4, <2>5, <2>6, StoresAdds
  <2>. QED BY <2>4, <2>6, <2>7
<1>. QED BY <1>1, <1>2

(* SlidingStrategy.handleSurplus.                                           *)
LEMMA SlideAdds ==
  ASSUME PubType, NoSlidingSlot, NEW c \in Client, Slide(c)
  PROVE  \E m \in Nat : AddsThese(rest[c], m)
<1>1. rest[c] \in Seq(Value)
  BY DEF PubType, StateType
<1>2. ~Single(ring) /\ strategy = "sliding"
  BY DEF Slide, PubType, NoSlidingSlot, Single
<1>3. PICK m : Stored(ring, SlideIn(ring, rest[c]), rest[c], m)
  BY <1>1, <1>2, SlideInFacts DEF PubType
<1>4. m \in Nat
  BY <1>1, <1>3 DEF Stored
<1>. QED BY <1>1, <1>2, <1>3, <1>4, StoresAdds DEF Slide

(* unsafeOnPubSubEmptySpace.                                                *)
LEMMA EmptySpaceAdds ==
  ASSUME PubType, OnPubSubEmptySpace, publishers # <<>>, ~IsFull(ring)
  PROVE  /\ publishers' = Tail(publishers) /\ Head(publishers) \in Value
         /\ calls' = subscribers \o calls
         /\ Low(ring') = Low(ring) /\ \E m \in Nat : AddsThese(<<Head(publishers)>>, m)
<1>1. publishers \in Seq(Value)
  BY DEF PubType, StateType
<1>2. PICK v \in Value : v = Head(publishers)
  BY <1>1, HeadAndTail
<1>3. PICK q : q = Publish(ring, v)
  OBVIOUS
<1>4. PICK m \in 0..1 : Stored(ring, q, <<v>>, m) /\ Low(q) = Low(ring)
  BY <1>2, <1>3, PublishFacts DEF PubType
<1>5. Len(<<v>>) \in Nat
  OBVIOUS
<1>6. Stores(q, <<v>>) /\ publishers' = Tail(publishers) /\ calls' = subscribers \o calls
  BY <1>2, <1>3 DEF OnPubSubEmptySpace
<1>7. AddsThese(<<v>>, m) /\ ring' = q
  BY <1>4, <1>5, <1>6, StoresAdds
<1>. QED BY <1>2, <1>4, <1>6, <1>7

(* unsafeCompletePollers.                                                   *)
LEMMA PollersTake ==
  ASSUME PubType, NEW s, CompletePollers(s), Unread(ring, s) > 0 /\ pollers[s] # <<>>
  PROVE  /\ s \in ring.subscribed /\ 1 \in 0..Unread(ring, s) /\ Reads(s, 1)
         /\ pollers' = [pollers EXCEPT ![s] = Tail(@)] /\ calls' = OnEmptySpace \o calls
         /\ subscribers' = subscribers /\ publishers' = publishers /\ log' = log
<1>1. Unread(ring, s) \in Nat /\ s \in ring.subscribed
  BY UnreadType DEF PubType
<1>. QED BY <1>1 DEF CompletePollers

(* take and takeBetween.                                                    *)
LEMMA TakesAre ==
  ASSUME PubType, NEW c \in Client, Take(c) \/ TakeBetween(c)
  PROVE  \/ ring' = ring /\ seen' = seen /\ calls' = calls
         \/ \E n \in 0..Unread(ring, doing[c].on) :
              /\ doing[c].on \in ring.subscribed /\ Reads(doing[c].on, n)
              /\ pollers[doing[c].on] # <<>> => n = 0
              /\ calls' = OnEmptySpace
<1>. DEFINE s == doing[c].on
<1>1. s \in Subscription /\ doing[c].hi \in Nat
  BY DEF PubType, StateType, Operation
<1>2. ASSUME Given(s), ~Shut(s) PROVE s \in ring.subscribed
  BY <1>1, <1>2 DEF PubType, Given, Shut
<1>3. Unread(ring, s) \in Nat /\ Available(s) \in 0..Unread(ring, s)
      /\ (pollers[s] # <<>> => Available(s) = 0)
  BY UnreadType DEF PubType, Available
<1>4. CASE ring' = ring /\ seen' = seen /\ calls' = calls
  BY <1>4
<1>5. CASE Given(s) /\ ~Shut(s) /\ Available(s) > 0 /\ Reads(s, 1) /\ calls' = OnEmptySpace
  <2>1. 1 \in 0..Unread(ring, s) /\ pollers[s] = <<>>
    BY <1>3, <1>5
  <2>. QED BY <1>2, <1>5, <2>1
<1>6. CASE Given(s) /\ ~Shut(s) /\ Reads(s, Least(doing[c].hi, Available(s))) /\ calls' = OnEmptySpace
  <2>1. PICK n : n = Least(doing[c].hi, Available(s))
    OBVIOUS
  <2>2. n \in 0..Unread(ring, s) /\ (pollers[s] # <<>> => n = 0)
    BY <1>1, <1>3, <2>1 DEF Least
  <2>. QED BY <1>2, <1>6, <2>1, <2>2
<1>. QED BY <1>4, <1>5, <1>6 DEF Take, TakeBetween

(* All steps.                                                               *)
LEMMA EveryStep ==
  ASSUME PubType, NoSlidingSlot, [Next]_vars
  PROVE  HistoryStep
<1>1. CASE UNCHANGED vars
  BY <1>1 DEF vars, values, scopes, HistoryStep, SameMembers
<1>2. CASE Loop
  <2>1. strategy' = strategy /\ SameMembers
    BY <1>2 DEF Loop, scopes, SameMembers
  <2>2. CASE CompletePollers(Head(calls))
    <3>1. CASE Unread(ring, Head(calls)) > 0 /\ pollers[Head(calls)] # <<>>
      BY <2>1, <2>2, <3>1, PollersTake DEF HistoryStep, TakesSome
    <3>2. CASE ~(Unread(ring, Head(calls)) > 0 /\ pollers[Head(calls)] # <<>>)
      BY <2>1, <2>2, <3>2 DEF CompletePollers, values, HistoryStep
    <3>. QED BY <3>1, <3>2
  <2>3. CASE OnPubSubEmptySpace
    <3>1. seen' = seen
      BY <2>3 DEF OnPubSubEmptySpace
    <3>2. CASE publishers # <<>> /\ ~IsFull(ring)
      <4>1. Head(publishers) \in Value /\ \E m \in Nat : AddsThese(<<Head(publishers)>>, m)
        BY <2>3, <3>2, EmptySpaceAdds
      <4>2. <<Head(publishers)>> \in Seq(Value)
        BY <4>1
      <4>. QED BY <2>1, <3>1, <4>1, <4>2 DEF HistoryStep, Adds
    <3>3. CASE ~(publishers # <<>> /\ ~IsFull(ring))
      BY <2>1, <2>3, <3>3 DEF OnPubSubEmptySpace, values, HistoryStep
    <3>. QED BY <3>2, <3>3
  <2>. QED BY <1>2, <2>2, <2>3 DEF Loop
<1>3. ASSUME NEW c \in Client, ClientStep(c) \/ Interrupt(c) PROVE HistoryStep
  <2>1. CASE PublishOne(c)
    <3>1. Values(c) \in Seq(Value)
      BY ValuesFacts DEF PubType
    <3>2. strategy' = strategy /\ SameMembers /\ seen' = seen
      BY <2>1 DEF PublishOne, scopes, SameMembers
    <3>. QED BY <2>1, <3>1, <3>2, PublishOneAdds DEF HistoryStep, Adds, values
  <2>2. CASE PublishMany(c)
    <3>1. Values(c) \in Seq(Value) /\ doing[c].lo \in Nat
      BY ValuesFacts DEF PubType
    <3>2. strategy' = strategy /\ SameMembers /\ seen' = seen
      BY <2>2 DEF PublishMany, scopes, SameMembers
    <3>3. CASE ring' = ring /\ log' = log
      BY <3>2, <3>3 DEF HistoryStep, values
    <3>4. CASE ~(ring' = ring /\ log' = log)
      <4>1. PICK f \in 0..doing[c].lo : \E m \in 0..f : AddsThese(Values(c), m)
        BY <2>2, <3>4, PublishManyAdds
      <4>2. PICK m \in Nat : AddsThese(Values(c), m)
        BY <3>1, <4>1
      <4>. QED BY <3>1, <3>2, <4>2 DEF HistoryStep, Adds
    <3>. QED BY <3>3, <3>4
  <2>3. CASE Slide(c)
    <3>1. rest[c] \in Seq(Value)
      BY DEF PubType, StateType
    <3>2. strategy' = strategy /\ SameMembers /\ seen' = seen
      BY <2>3 DEF Slide, scopes, SameMembers
    <3>. QED BY <2>3, <3>1, <3>2, SlideAdds DEF HistoryStep, Adds
  <2>4. CASE Take(c) \/ TakeBetween(c)
    <3>1. strategy' = strategy /\ SameMembers /\ log' = log
      BY <2>4 DEF Take, TakeBetween, scopes, SameMembers
    <3>. QED BY <2>4, <3>1, TakesAre DEF HistoryStep, TakesSome, values
  <2>5. CASE strategy' = strategy /\ values' = values /\ phase' = phase
    BY <2>5 DEF HistoryStep, SameMembers
  <2>6. CASE CloseChild(c)
    <3>1. strategy' = strategy /\ values' = values /\ SameMembers
      BY <2>6 DEF CloseChild, Phase, PubType, StateType, SameMembers
    <3>. QED BY <3>1 DEF HistoryStep
  <2>7. CASE Suspend(c) \/ Join(c) \/ Resume(c) \/ Interrupt(c) \/ Stop(c) \/ Cancel(c)
    BY <2>5, <2>7 DEF Suspend, Join, Resume, Interrupt, Stop, Cancel, scopes
  <2>8. CASE \/ Shutdown(c) \/ CompleteHook(c) \/ CloseScope(c) \/ ShutdownStrategy(c)
             \/ FreePublishers(c)
    BY <2>5, <2>8 DEF Shutdown, CompleteHook, CloseScope, ShutdownStrategy, FreePublishers, scopes
  <2>. QED BY <1>3, <2>1, <2>2, <2>3, <2>4, <2>6, <2>7, <2>8 DEF ClientStep
<1>4. ASSUME NEW s \in Subscription, Subscribe(s) \/ AddFinalizer(s) \/ Leave(s) \/ Closing(s)
      PROVE  HistoryStep
  <2>0. phase \in [Subscription -> {"out", "joining", "active", "leaving", "freeing", "ending", "gone"}]
    BY DEF PubType, StateType
  <2>1. CASE Subscribe(s)
    <3>1. /\ strategy' = strategy /\ log' = log /\ seen' = seen /\ ring' = Subscribed(ring, s)
          /\ phase[s] = "out" /\ Enters(s, "joining")
      BY <2>0, <2>1 DEF Subscribe, Phase, Enters
    <3>. QED BY <3>1 DEF HistoryStep, Comes
  <2>2. CASE AddFinalizer(s) \/ Leave(s) \/ ShutSubscription(s) \/ FreeTakers(s)
    <3>1. strategy' = strategy /\ values' = values
      BY <2>2 DEF AddFinalizer, Leave, ShutSubscription, FreeTakers
    <3>2. SameMembers
      BY <2>0, <2>2 DEF AddFinalizer, Leave, ShutSubscription, FreeTakers, Phase, SameMembers
    <3>. QED BY <3>1, <3>2 DEF HistoryStep
  <2>3. CASE Unsubscribe(s)
    <3>1. /\ strategy' = strategy /\ log' = log /\ seen' = seen /\ ring' = Unsubscribed(ring, s)
          /\ phase[s] = "ending" /\ Enters(s, "gone")
      BY <2>0, <2>3 DEF Unsubscribe, Phase, Enters
    <3>2. s \in ring.subscribed
      BY <3>1 DEF PubType
    <3>. QED BY <3>1, <3>2 DEF HistoryStep, Goes
  <2>. QED BY <1>4, <2>1, <2>2, <2>3 DEF Closing
<1>. QED BY <1>1, <1>2, <1>3, <1>4 DEF Next

(* Only a step that comes or goes changes who is subscribed.                  *)
LEMMA RingStep ==
  ASSUME PubType, HistoryStep
  PROVE  /\ RingInv(ring') /\ ring'.cap = ring.cap /\ Low(ring) <= Low(ring')
         /\ ring'.subscribed = {s \in Subscription : phase'[s] \notin {"out", "gone"}}
<1>0. RingInv(ring)
  BY DEF PubType
<1>1. ring.subscribed \subseteq Subscription /\ Low(ring) \in Nat
  BY <1>0, RingFacts DEF RingInv, RingShape
<1>2. ring.subscribed = {s \in Subscription : phase[s] \notin {"out", "gone"}}
  BY DEF PubType
<1>3. CASE SameMembers /\ (values' = values \/ Adds \/ TakesSome)
  <2>1. ASSUME ring'.subscribed = ring.subscribed
        PROVE  ring'.subscribed = {s \in Subscription : phase'[s] \notin {"out", "gone"}}
    BY <1>2, <1>3, <2>1 DEF SameMembers
  <2>2. CASE values' = values
    <3>1. ring' = ring
      BY <2>2 DEF values
    <3>. QED BY <1>0, <1>1, <2>1, <3>1
  <2>3. CASE Adds
    BY <2>1, <2>3 DEF Adds, AddsThese, Stored
  <2>4. CASE TakesSome
    <3>1. PICK s \in ring.subscribed : \E n \in 0..Unread(ring, s) : ring' = Release(ring, s, n)
      BY <2>4 DEF TakesSome, Reads
    <3>2. PICK n \in 0..Unread(ring, s) : ring' = Release(ring, s, n)
      BY <3>1
    <3>3. /\ RingInv(ring') /\ ring'.cap = ring.cap /\ ring'.subscribed = ring.subscribed
          /\ Low(ring) <= Low(ring')
      BY <1>0, <3>1, <3>2, ReleaseFacts
    <3>. QED BY <2>1, <3>3
  <2>. QED BY <1>3, <2>2, <2>3, <2>4
<1>4. CASE Comes
  <2>1. PICK s \in Subscription : phase[s] = "out" /\ Enters(s, "joining") /\ ring' = Subscribed(ring, s)
    BY <1>4 DEF Comes
  <2>2. s \notin ring.subscribed
    BY <1>2, <2>1
  <2>3. /\ RingInv(ring') /\ ring'.cap = ring.cap /\ Low(ring') = Low(ring)
        /\ ring'.subscribed = ring.subscribed \cup {s}
    BY <1>0, <2>1, <2>2, SubscribedFacts
  <2>4. ring'.subscribed = {t \in Subscription : phase'[t] \notin {"out", "gone"}}
    BY <1>2, <2>1, <2>3 DEF Enters
  <2>. QED BY <1>1, <2>3, <2>4
<1>5. CASE Goes
  <2>1. PICK s \in ring.subscribed : Enters(s, "gone") /\ ring' = Unsubscribed(ring, s)
    BY <1>5 DEF Goes
  <2>2. /\ RingInv(ring') /\ ring'.cap = ring.cap /\ Low(ring) <= Low(ring')
        /\ ring'.subscribed = ring.subscribed \ {s}
    BY <1>0, <2>1, UnsubscribedFacts
  <2>3. ring'.subscribed = {t \in Subscription : phase'[t] \notin {"out", "gone"}}
    BY <1>2, <2>1, <2>2 DEF Enters
  <2>. QED BY <2>2, <2>3
<1>. QED BY <1>3, <1>4, <1>5 DEF HistoryStep

(* The types, and what goes with them.                                       *)
LEMMA TypeStep ==
  ASSUME PubType, NoSlidingSlot, [Next]_vars
  PROVE  PubType' /\ HistoryStep
<1>1. StateType' /\ HistoryStep
  BY StateStep, EveryStep
<1>2. /\ RingInv(ring') /\ ring'.cap = ring.cap
      /\ ring'.subscribed = {s \in Subscription : phase'[s] \notin {"out", "gone"}}
  BY <1>1, RingStep
<1>3. <<strategy', ring'.cap>> \in Kind
  BY <1>1, <1>2 DEF HistoryStep, PubType
<1>4. ASSUME NEW d \in Client, pc'[d] \in {"publish", "unsafeOffer"} PROVE doing'[d].lo = 1
  <2>0. pc \in [Client -> Label] /\ doing \in [Client -> Operation]
    BY DEF PubType, StateType
  <2>1. pc'[d] = pc[d] /\ doing'[d] = doing[d]
    <3>1. CASE UNCHANGED vars \/ Loop
      BY <3>1 DEF vars, programs, Loop
    <3>2. ASSUME NEW c \in Client, ClientStep(c) \/ Interrupt(c) PROVE pc'[d] = pc[d] /\ doing'[d] = doing[d]
      <4>. USE <2>0, <1>4 DEF Goto, Got, programs
      <4>1. CASE PublishOne(c) \/ PublishMany(c) \/ Slide(c) \/ Suspend(c)
        BY <4>1 DEF PublishOne, PublishMany, Slide, Suspend
      <4>2. CASE Take(c) \/ TakeBetween(c) \/ Join(c) \/ Resume(c)
        BY <4>2 DEF Take, TakeBetween, Join, Resume, StopOrWait
      <4>3. CASE Interrupt(c) \/ Stop(c) \/ Cancel(c)
        BY <4>3 DEF Interrupt, Stop, Cancel
      <4>4. CASE \/ Shutdown(c) \/ CompleteHook(c) \/ CloseScope(c) \/ CloseChild(c)
                 \/ ShutdownStrategy(c) \/ FreePublishers(c)
        BY <4>4 DEF Shutdown, CompleteHook, CloseScope, CloseChild, ShutdownStrategy, FreePublishers
      <4>. QED BY <3>2, <4>1, <4>2, <4>3, <4>4 DEF ClientStep
    <3>3. ASSUME NEW s \in Subscription, Subscribe(s) \/ AddFinalizer(s) \/ Leave(s) \/ Closing(s)
          PROVE  pc'[d] = pc[d] /\ doing'[d] = doing[d]
      BY <3>3 DEF Subscribe, AddFinalizer, Leave, Closing, ShutSubscription, FreeTakers, Unsubscribe,
                  programs
    <3>. QED BY <3>1, <3>2, <3>3 DEF Next
  <2>. QED BY <1>4, <2>1 DEF PubType
<1>. QED BY <1>1, <1>2, <1>3, <1>4 DEF PubType

-----------------------------------------------------------------------------
(* Who waits.                                                               *)

(* A subscription that is in somebody's hands stays so.                      *)
LEMMA GivenStays ==
  ASSUME PubType, [Next]_vars, NEW s \in Subscription, Given(s)
  PROVE  Given(s)'
<1>0. phase \in [Subscription -> {"out", "joining", "active", "leaving", "freeing", "ending", "gone"}]
  BY DEF PubType, StateType
<1>1. CASE UNCHANGED vars \/ Loop
  BY <1>1 DEF vars, scopes, Loop, Given
<1>2. ASSUME NEW c \in Client, ClientStep(c) \/ Interrupt(c) PROVE Given(s)'
  <2>1. CASE CloseChild(c)
    BY <1>0, <2>1 DEF CloseChild, Phase, Given
  <2>2. CASE phase' = phase
    BY <2>2 DEF Given
  <2>. QED BY <1>2, <2>1, <2>2 DEF ClientStep, PublishOne, PublishMany, Slide, Suspend, Take, TakeBetween,
            Join, Resume, Interrupt, Stop, Cancel, Shutdown, CompleteHook, CloseScope, ShutdownStrategy,
            FreePublishers, scopes
<1>3. ASSUME NEW t \in Subscription, Subscribe(t) \/ AddFinalizer(t) \/ Leave(t) \/ Closing(t)
      PROVE  Given(s)'
  BY <1>0, <1>3 DEF Subscribe, AddFinalizer, Leave, Closing, ShutSubscription, FreeTakers, Unsubscribe,
                    Phase, Given
<1>. QED BY <1>1, <1>2, <1>3 DEF Next

(* GivenInv is kept: a step that gives a scope a child or serves a client     *)
(* says so in both places.                                                    *)
LEMMA GivenStep ==
  ASSUME PubType, GivenInv, [Next]_vars, NoSlidingSlot
  PROVE  GivenInv'
<1>0. /\ pc \in [Client -> Label] /\ doing \in [Client -> Operation]
      /\ pollers \in [Subscription -> Seq(Client)] /\ calls \in Seq(Subscription \cup {Hub})
  BY DEF PubType, StateType
<1>1. \A c \in Client : doing[c].on \in Subscription
  BY <1>0 DEF Operation
<1>2. SUFFICES /\ \A s \in Subscription : ~Given(s) => pollers'[s] = <<>>
               /\ \A d \in Client : doing'[d].on = doing[d].on
               /\ \A d \in Client : pc'[d] = "joining" => Given(doing[d].on)
  <2>1. ASSUME NEW s \in Subscription, ~Given(s)', \A t \in Subscription : ~Given(t) => pollers'[t] = <<>>
        PROVE  pollers'[s] = <<>>
    BY <2>1, GivenStays
  <2>2. ASSUME NEW d \in Client, pc'[d] = "joining", doing'[d].on = doing[d].on, Given(doing[d].on)
        PROVE  Given(doing[d].on)'
    <3>1. PICK s \in Subscription : s = doing[d].on
      BY <1>1
    <3>2. Given(s)'
      BY <2>2, <3>1, GivenStays
    <3>. QED BY <2>2, <3>1, <3>2 DEF Given
  <2>. QED BY <2>1, <2>2 DEF GivenInv
<1>. DEFINE Goal == /\ \A s \in Subscription : ~Given(s) => pollers'[s] = <<>>
                    /\ \A d \in Client : doing'[d].on = doing[d].on
                    /\ \A d \in Client : pc'[d] = "joining" => Given(doing[d].on)
<1>3. ASSUME pollers' = pollers, doing' = doing, pc' = pc PROVE Goal
  BY <1>3 DEF GivenInv
<1>4. ASSUME NEW c \in Client, pollers' = pollers, doing' = doing, NEW l, l # "joining",
             pc' = [pc EXCEPT ![c] = l]
      PROVE  Goal
  BY <1>0, <1>4 DEF GivenInv
<1>5. CASE UNCHANGED vars
  BY <1>3, <1>5 DEF vars, waiting, programs
<1>6. CASE Loop
  <2>1. pc' = pc /\ doing' = doing
    BY <1>6 DEF Loop, programs
  <2>2. CASE OnPubSubEmptySpace
    BY <1>3, <2>1, <2>2 DEF OnPubSubEmptySpace
  <2>3. CASE CompletePollers(Head(calls)) /\ Unread(ring, Head(calls)) > 0 /\ pollers[Head(calls)] # <<>>
    BY <1>0, <2>1, <2>3, PollersTake DEF GivenInv
  <2>4. CASE CompletePollers(Head(calls)) /\ ~(Unread(ring, Head(calls)) > 0 /\ pollers[Head(calls)] # <<>>)
    BY <1>3, <2>1, <2>4 DEF CompletePollers
  <2>. QED BY <1>6, <2>2, <2>3, <2>4 DEF Loop
<1>7. ASSUME NEW c \in Client, ClientStep(c) \/ Interrupt(c) PROVE Goal
  <2>1. CASE PublishOne(c) \/ PublishMany(c) \/ Slide(c) \/ Suspend(c)
    BY <1>4, <2>1 DEF PublishOne, PublishMany, Slide, Suspend, Goto, waiting, programs
  <2>2. CASE Take(c) \/ TakeBetween(c)
    <3>1. pollers' = pollers
      BY <2>2 DEF Take, TakeBetween, waiting
    <3>2. CASE doing' = doing
      <4>1. pc' = [pc EXCEPT ![c] = pc'[c]] /\ (pc'[c] = "joining" => Given(doing[c].on))
        BY <1>0, <2>2, <3>2 DEF Take, TakeBetween, Goto, Got
      <4>. QED BY <1>0, <3>1, <3>2, <4>1 DEF GivenInv
    <3>3. CASE doing' # doing
      <4>1. \E n \in Nat : \E next \in {"between", "taking"} : Got(c, n, next)
        <5>1. 1 \in Nat /\ doing[c].hi \in Nat /\ Unread(ring, doing[c].on) \in Nat
          BY <1>0, UnreadType DEF PubType, Operation
        <5>2. Least(doing[c].hi, Available(doing[c].on)) \in Nat
          BY <5>1 DEF Least, Available
        <5>. QED BY <2>2, <3>3, <5>1, <5>2 DEF Take, TakeBetween
      <4>2. PICK n \in Nat : \E next \in {"between", "taking"} : Got(c, n, next)
        BY <4>1
      <4>3. PICK next \in {"between", "taking"} : Got(c, n, next)
        BY <4>2
      <4>4. /\ pc'[c] \in {"between", "taking", "taken"}
            /\ \A d \in Client : d # c => pc'[d] = pc[d]
            /\ \A d \in Client : doing'[d].on = doing[d].on
        BY <4>3, GotType DEF PubType
      <4>. QED BY <3>1, <4>4 DEF GivenInv
    <3>. QED BY <3>2, <3>3
  <2>3. CASE Resume(c)
    <3>1. pollers' = pollers
      BY <2>3 DEF Resume, waiting
    <3>2. CASE Got(c, 1, "between")
      <4>1. /\ pc'[c] \in {"between", "taking", "taken"}
            /\ \A d \in Client : d # c => pc'[d] = pc[d]
            /\ \A d \in Client : doing'[d].on = doing[d].on
        BY <3>2, GotType DEF PubType
      <4>. QED BY <3>1, <4>1 DEF GivenInv
    <3>. QED BY <1>4, <2>3, <3>1, <3>2 DEF Resume, Goto
  <2>4. CASE Join(c)
    <3>1. PICK s \in Subscription : s = doing[c].on
      BY <1>1
    <3>2. Given(s) /\ pollers' = [pollers EXCEPT ![s] = Append(@, c)]
      BY <2>4, <3>1 DEF Join, At, GivenInv
    <3>3. doing' = doing /\ \A d \in Client : pc'[d] = "joining" => pc[d] = "joining"
      BY <1>0, <2>4 DEF Join, Goto, StopOrWait, programs
    <3>. QED BY <1>0, <3>2, <3>3 DEF GivenInv
  <2>5. CASE Interrupt(c) \/ Stop(c)
    BY <1>3, <1>4, <2>5 DEF Interrupt, Stop, Goto, waiting, programs
  <2>6. CASE Cancel(c)
    <3>1. doing' = doing /\ pc' = [pc EXCEPT ![c] = "stopped"]
      BY <2>6 DEF Cancel, Goto, programs
    <3>2. ASSUME NEW s \in Subscription, pollers[s] = <<>> PROVE pollers'[s] = <<>>
      <4>1. <<>> \in Seq(Client)
        OBVIOUS
      <4>2. ToSet(<<>>) = {} /\ Keep(<<>>, ToSet(<<>>) \ {c}) = <<>>
        BY <4>1, Heads, KeepAllOrNone
      <4>. QED BY <2>6, <3>2, <4>2 DEF Cancel, Dropped
    <3>. QED BY <1>0, <3>1, <3>2 DEF GivenInv
  <2>7. CASE \/ Shutdown(c) \/ CompleteHook(c) \/ CloseScope(c) \/ CloseChild(c)
             \/ ShutdownStrategy(c) \/ FreePublishers(c)
    BY <1>3, <1>4, <2>7 DEF Shutdown, CompleteHook, CloseScope, CloseChild, ShutdownStrategy,
                            FreePublishers, Goto, waiting, programs
  <2>. QED BY <1>7, <2>1, <2>2, <2>3, <2>4, <2>5, <2>6, <2>7 DEF ClientStep
<1>8. ASSUME NEW s \in Subscription, Subscribe(s) \/ AddFinalizer(s) \/ Leave(s) \/ Closing(s) PROVE Goal
  <2>1. CASE ShutSubscription(s)
    BY <1>0, <2>1 DEF ShutSubscription, GivenInv, programs
  <2>2. CASE ~ShutSubscription(s)
    BY <1>3, <1>8, <2>2 DEF Subscribe, AddFinalizer, Leave, Closing, FreeTakers, Unsubscribe, waiting, programs
  <2>. QED BY <2>1, <2>2
<1>. QED BY <1>2, <1>5, <1>6, <1>7, <1>8 DEF Next

(* A taker beside a value, when values come and when they are read.           *)
LEMMA TakersKept ==
  ASSUME PubType, TakersInv, pollers' = pollers, subscribers' = subscribers
  PROVE  /\ ring'.subscribed = ring.subscribed /\ ToSet(subscribers) \subseteq ToSet(calls') => TakersInv'
         /\ \A s \in ring.subscribed : \A n \in 0..Unread(ring, s) :
              /\ ring' = Release(ring, s, n) /\ (pollers[s] # <<>> => n = 0)
              /\ ToSet(calls) \subseteq ToSet(calls')
              => TakersInv'
<1>1. ASSUME ring'.subscribed = ring.subscribed, ToSet(subscribers) \subseteq ToSet(calls') PROVE TakersInv'
  BY <1>1 DEF TakersInv
<1>2. ASSUME NEW s \in ring.subscribed, NEW n \in 0..Unread(ring, s), ring' = Release(ring, s, n),
             pollers[s] # <<>> => n = 0, ToSet(calls) \subseteq ToSet(calls')
      PROVE  TakersInv'
  <2>1. /\ ring'.subscribed = ring.subscribed
        /\ n \in Nat /\ Unread(ring', s) = Unread(ring, s) - n
        /\ \A t : t # s => Unread(ring', t) = Unread(ring, t)
    BY <1>2, ReleaseFacts, ReleaseUnread DEF PubType
  <2>2. ASSUME NEW t \in ring.subscribed, pollers[t] # <<>> PROVE Unread(ring', t) = Unread(ring, t)
    <3>1. Unread(ring, s) \in Nat
      BY UnreadType DEF PubType
    <3>2. CASE t = s
      BY <1>2, <2>1, <2>2, <3>1, <3>2
    <3>. QED BY <2>1, <3>2
  <2>3. \A t \in ring'.subscribed : pollers'[t] # <<>> => t \in ToSet(subscribers')
    BY <2>1 DEF TakersInv
  <2>4. ASSUME NEW t \in ring'.subscribed, pollers'[t] # <<>>, Unread(ring', t) # 0 PROVE t \in ToSet(calls')
    BY <1>2, <2>1, <2>2, <2>4 DEF TakersInv
  <2>. QED BY <2>3, <2>4 DEF TakersInv
<1>. QED BY <1>1, <1>2

(* What the loops do to the lines.                                          *)
LEMMA LoopTakers ==
  ASSUME PubType, TakersInv, NoSlidingSlot, Loop
  PROVE  TakersInv'
<1>0. /\ pollers \in [Subscription -> Seq(Client)] /\ calls \in Seq(Subscription \cup {Hub})
      /\ subscribers \in Seq(Subscription) /\ calls # <<>>
      /\ ring.subscribed \subseteq Subscription
  BY DEF PubType, StateType, Loop, Idle, RingInv, RingShape
<1>1. PICK x : x = Head(calls)
  OBVIOUS
<1>2. /\ x \in Subscription \cup {Hub} /\ x \in ToSet(calls) /\ Tail(calls) \in Seq(Subscription \cup {Hub})
      /\ \A t \in ToSet(calls) : t # x => t \in ToSet(Tail(calls))
  BY <1>0, <1>1, HeadAndTail
<1>3. CASE OnPubSubEmptySpace /\ x = Hub
  <2>1. pollers' = pollers /\ subscribers' = subscribers
    BY <1>3 DEF OnPubSubEmptySpace
  <2>2. CASE publishers # <<>> /\ ~IsFull(ring)
    <3>1. calls' = subscribers \o calls /\ \E m \in Nat : AddsThese(<<Head(publishers)>>, m)
      BY <1>3, <2>2, EmptySpaceAdds
    <3>2. ring'.subscribed = ring.subscribed
      BY <3>1 DEF AddsThese, Stored
    <3>3. subscribers \in Seq(Subscription \cup {Hub})
      BY <1>0
    <3>4. ToSet(subscribers) \subseteq ToSet(calls')
      BY <1>0, <3>1, <3>3, Union
    <3>. QED BY <2>1, <3>2, <3>4, TakersKept
  <2>3. CASE ~(publishers # <<>> /\ ~IsFull(ring))
    <3>1. ring' = ring /\ calls' = Tail(calls)
      BY <1>3, <2>3 DEF OnPubSubEmptySpace
    <3>2. \A t \in ring.subscribed : t # x
      BY <1>0, <1>3, SubscriptionAssumption
    <3>. QED BY <1>2, <2>1, <3>1, <3>2 DEF TakersInv
  <2>. QED BY <2>2, <2>3
<1>4. CASE CompletePollers(x) /\ x # Hub
  <2>1. x \in Subscription
    BY <1>2, <1>4
  <2>2. CASE Unread(ring, x) > 0 /\ pollers[x] # <<>>
    <3>1. /\ x \in ring.subscribed /\ 1 \in 0..Unread(ring, x) /\ ring' = Release(ring, x, 1)
          /\ pollers' = [pollers EXCEPT ![x] = Tail(@)] /\ calls' = OnEmptySpace \o calls
          /\ subscribers' = subscribers
      BY <1>4, <2>2, PollersTake DEF Reads
    <3>2. /\ ring'.subscribed = ring.subscribed
          /\ \A t : t # x => Unread(ring', t) = Unread(ring, t)
      BY <3>1, ReleaseFacts, ReleaseUnread DEF PubType
    <3>3. ToSet(calls) \subseteq ToSet(calls')
      BY <1>0, <3>1, EmptySpaceFacts, Union
    <3>4. \A t \in ring.subscribed : pollers'[t] # <<>> => pollers[t] # <<>>
      BY <1>0, <2>2, <3>1
    <3>5. \A t \in ring'.subscribed : pollers'[t] # <<>> => t \in ToSet(subscribers')
      BY <3>1, <3>2, <3>4 DEF TakersInv
    <3>6. ASSUME NEW t \in ring'.subscribed, pollers'[t] # <<>>, Unread(ring', t) # 0 PROVE t \in ToSet(calls')
      <4>1. CASE t = x
        BY <1>2, <3>3, <4>1
      <4>2. CASE t # x
        BY <3>2, <3>3, <3>4, <3>6, <4>2 DEF TakersInv
      <4>. QED BY <4>1, <4>2
    <3>. QED BY <3>5, <3>6 DEF TakersInv
  <2>3. CASE ~(Unread(ring, x) > 0 /\ pollers[x] # <<>>)
    <3>1. /\ subscribers' = (IF Unread(ring, x) > 0 THEN Dropped(subscribers, x) ELSE subscribers)
          /\ calls' = Tail(calls) /\ ring' = ring /\ pollers' = pollers
      BY <1>4, <2>3 DEF CompletePollers
    <3>2. Unread(ring, x) \in Nat
      BY UnreadType DEF PubType
    <3>3. ToSet(Dropped(subscribers, x)) = ToSet(subscribers) \ {x}
      BY <1>0, DroppedFacts
    <3>4. ASSUME NEW t \in ring.subscribed, pollers[t] # <<>> PROVE t \in ToSet(subscribers')
      BY <2>3, <3>1, <3>3, <3>4 DEF TakersInv
    <3>5. ASSUME NEW t \in ring.subscribed, pollers[t] # <<>>, Unread(ring, t) # 0 PROVE t \in ToSet(calls')
      BY <1>2, <2>3, <3>1, <3>2, <3>5 DEF TakersInv
    <3>. QED BY <3>1, <3>4, <3>5 DEF TakersInv
  <2>. QED BY <2>2, <2>3
<1>. QED BY <1>1, <1>3, <1>4 DEF Loop

(* TakersInv is kept: no taker stands beside values it could have, unless     *)
(* the loop that gives them to it is on the stack.                            *)
LEMMA TakersStep ==
  ASSUME PubType, TakersInv, GivenInv, NoSlidingSlot, [Next]_vars
  PROVE  TakersInv'
<1>0. /\ pollers \in [Subscription -> Seq(Client)] /\ calls \in Seq(Subscription \cup {Hub})
      /\ subscribers \in Seq(Subscription) /\ ring.subscribed \subseteq Subscription
      /\ \A c \in Client : doing[c].on \in Subscription
  BY DEF PubType, StateType, Operation, RingInv, RingShape
<1>1. ASSUME ring' = ring, pollers' = pollers, subscribers' = subscribers, calls' = calls PROVE TakersInv'
  BY <1>1 DEF TakersInv
<1>2. ASSUME Idle PROVE \A s \in ring.subscribed : pollers[s] # <<>> => Unread(ring, s) = 0
  BY <1>2, Heads DEF TakersInv, Idle
<1>3. CASE UNCHANGED vars
  BY <1>1, <1>3 DEF vars, values, waiting
<1>4. ASSUME NEW c \in Client, ClientStep(c) \/ Interrupt(c) PROVE TakersInv'
  <2>1. CASE PublishOne(c)
    <3>1. pollers' = pollers /\ subscribers' = subscribers
      BY <2>1 DEF PublishOne, waiting
    <3>2. CASE calls' = subscribers /\ \E m \in Nat : AddsThese(Values(c), m)
      BY <3>1, <3>2, TakersKept DEF AddsThese, Stored
    <3>. QED BY <1>1, <2>1, <3>1, <3>2, PublishOneAdds
  <2>2. CASE PublishMany(c)
    <3>1. pollers' = pollers /\ subscribers' = subscribers
      BY <2>2 DEF PublishMany, waiting
    <3>2. CASE calls' = subscribers /\ \E m : AddsThese(Values(c), m)
      BY <3>1, <3>2, TakersKept DEF AddsThese, Stored
    <3>. QED BY <1>1, <2>2, <3>1, <3>2, PublishManyAdds
  <2>3. CASE Slide(c)
    <3>1. pollers' = pollers /\ subscribers' = subscribers /\ calls' = subscribers
      BY <2>3 DEF Slide, waiting
    <3>. QED BY <2>3, <3>1, SlideAdds, TakersKept DEF AddsThese, Stored
  <2>4. CASE Suspend(c)
    <3>1. pollers' = pollers /\ subscribers' = subscribers /\ calls' = LookAgain /\ ring' = ring
      BY <2>4 DEF Suspend, values
    <3>2. subscribers \in Seq(Subscription \cup {Hub}) /\ <<Hub>> \in Seq(Subscription \cup {Hub})
      BY <1>0
    <3>3. ToSet(<<Hub>> \o subscribers) = ToSet(<<Hub>>) \cup ToSet(subscribers)
      BY <3>2, Union
    <3>4. ToSet(<<Hub>>) = {Hub}
      BY Heads
    <3>. QED BY <3>1, <3>3, TakersKept DEF LookAgain
  <2>5. CASE Take(c) \/ TakeBetween(c)
    <3>1. pollers' = pollers /\ subscribers' = subscribers /\ calls = <<>>
      BY <2>5 DEF Take, TakeBetween, At, Idle, waiting
    <3>2. ToSet(calls) \subseteq ToSet(calls')
      BY <3>1, Heads
    <3>. QED BY <1>1, <2>5, <3>1, <3>2, TakesAre, TakersKept DEF Reads
  <2>6. CASE Join(c)
    <3>1. PICK s \in Subscription : s = doing[c].on
      BY <1>0
    <3>2. /\ pollers' = [pollers EXCEPT ![s] = Append(@, c)] /\ subscribers' = Added(s)
          /\ calls' = <<s>> /\ ring' = ring /\ Idle
      BY <2>6, <3>1 DEF Join, At, values
    <3>3. ToSet(Added(s)) = ToSet(subscribers) \cup {s}
      BY <1>0, Appended DEF Added
    <3>4. \A t \in ring.subscribed : t # s => pollers'[t] = pollers[t]
      BY <1>0, <3>2
    <3>5. s \in ToSet(calls')
      BY <3>2, Heads
    <3>. QED BY <1>2, <3>2, <3>3, <3>4, <3>5 DEF TakersInv
  <2>7. CASE Cancel(c)
    <3>1. ring' = ring /\ subscribers' = subscribers /\ calls' = calls
      BY <2>7 DEF Cancel, values
    <3>2. ASSUME NEW s \in Subscription, pollers[s] = <<>> PROVE pollers'[s] = <<>>
      <4>1. <<>> \in Seq(Client)
        OBVIOUS
      <4>2. Keep(<<>>, ToSet(<<>>) \ {c}) = <<>>
        BY <4>1, Heads, KeepAllOrNone
      <4>. QED BY <2>7, <3>2, <4>2 DEF Cancel, Dropped
    <3>. QED BY <1>0, <3>1, <3>2 DEF TakersInv
  <2>8. CASE \/ Resume(c) \/ Interrupt(c) \/ Stop(c) \/ Shutdown(c) \/ CompleteHook(c) \/ CloseScope(c)
             \/ CloseChild(c) \/ ShutdownStrategy(c) \/ FreePublishers(c)
    BY <1>1, <2>8 DEF Resume, Interrupt, Stop, Shutdown, CompleteHook, CloseScope, CloseChild,
                      ShutdownStrategy, FreePublishers, values, waiting
  <2>. QED BY <1>4, <2>1, <2>2, <2>3, <2>4, <2>5, <2>6, <2>7, <2>8 DEF ClientStep
<1>5. ASSUME NEW s \in Subscription, Subscribe(s) \/ AddFinalizer(s) \/ Leave(s) \/ Closing(s) PROVE TakersInv'
  <2>1. CASE Subscribe(s)
    <3>1. /\ pollers' = pollers /\ subscribers' = subscribers /\ calls' = calls
          /\ ring' = Subscribed(ring, s) /\ phase[s] = "out"
      BY <2>1 DEF Subscribe, waiting
    <3>2. pollers[s] = <<>> /\ s \notin ring.subscribed
      BY <3>1 DEF GivenInv, Given, PubType
    <3>3. ring'.subscribed = ring.subscribed \cup {s} /\ \A t : t # s => Unread(ring', t) = Unread(ring, t)
      BY <3>1, <3>2, SubscribedFacts DEF PubType
    <3>. QED BY <3>1, <3>2, <3>3 DEF TakersInv
  <2>2. CASE ShutSubscription(s)
    BY <1>0, <2>2 DEF ShutSubscription, values, TakersInv
  <2>3. CASE Unsubscribe(s)
    <3>1. /\ pollers' = pollers /\ subscribers' = Dropped(subscribers, s)
          /\ ring' = Unsubscribed(ring, s) /\ phase[s] = "ending" /\ Idle
      BY <2>3 DEF Unsubscribe
    <3>2. s \in ring.subscribed
      BY <3>1 DEF PubType
    <3>3. /\ ring'.subscribed = ring.subscribed \ {s}
          /\ \A t \in ring'.subscribed : Unread(ring', t) = Unread(ring, t)
      BY <3>1, <3>2, UnsubscribedFacts DEF PubType
    <3>4. ToSet(subscribers') = ToSet(subscribers) \ {s}
      BY <1>0, <3>1, DroppedFacts
    <3>. QED BY <1>2, <3>1, <3>3, <3>4 DEF TakersInv
  <2>4. CASE AddFinalizer(s) \/ Leave(s) \/ FreeTakers(s)
    BY <1>1, <2>4 DEF AddFinalizer, Leave, FreeTakers, values, waiting
  <2>. QED BY <1>5, <2>1, <2>2, <2>3, <2>4 DEF Closing
<1>. QED BY <1>3, <1>4, <1>5, LoopTakers DEF Next

(* PublishersInv is kept: no publisher stands beside room, unless the loop    *)
(* that looks for publishers is on the stack.                                 *)
LEMMA PublishersStep ==
  ASSUME PubType, PublishersInv, NoSlidingSlot, [Next]_vars
  PROVE  PublishersInv'
<1>0. /\ calls \in Seq(Subscription \cup {Hub}) /\ subscribers \in Seq(Subscription)
      /\ publishers \in Seq(Value) /\ RingInv(ring) /\ strategy' = strategy
  BY EveryStep DEF PubType, StateType, HistoryStep
<1>1. ASSUME ring' = ring, publishers' = publishers, calls' = calls PROVE PublishersInv'
  BY <1>0, <1>1 DEF PublishersInv
<1>2. ASSUME Idle, publishers # <<>> PROVE IsFull(ring)
  BY <1>2, Heads DEF PublishersInv, Idle
<1>3. ASSUME Idle, publishers' = publishers, IsFull(ring) => IsFull(ring') PROVE PublishersInv'
  BY <1>0, <1>2, <1>3 DEF PublishersInv
<1>4. ASSUME NEW vs, Len(vs) \in Nat, NEW m, AddsThese(vs, m), Low(ring') = Low(ring), IsFull(ring)
      PROVE  IsFull(ring')
  BY <1>0, <1>4, StoredFacts DEF AddsThese
<1>5. CASE UNCHANGED vars
  BY <1>1, <1>5 DEF vars, values, waiting
<1>6. CASE Loop
  <2>1. PICK x : x = Head(calls)
    OBVIOUS
  <2>2. calls # <<>>
    BY <1>6 DEF Loop, Idle
  <2>3. x \in ToSet(calls) /\ \A t \in ToSet(calls) : t # x => t \in ToSet(Tail(calls))
    BY <1>0, <2>1, <2>2, HeadAndTail
  <2>4. CASE CompletePollers(x) /\ x # Hub
    <3>1. publishers' = publishers
      BY <2>4 DEF CompletePollers
    <3>2. CASE Unread(ring, x) > 0 /\ pollers[x] # <<>>
      <4>1. calls' = OnEmptySpace \o calls
        BY <2>4, <3>2, PollersTake
      <4>2. strategy = "backPressure" => Hub \in ToSet(calls')
        BY <1>0, <4>1, EmptySpaceFacts, Union
      <4>. QED BY <1>0, <3>1, <4>2 DEF PublishersInv
    <3>3. CASE ~(Unread(ring, x) > 0 /\ pollers[x] # <<>>)
      <4>1. ring' = ring /\ calls' = Tail(calls)
        BY <2>4, <3>3 DEF CompletePollers
      <4>. QED BY <1>0, <2>3, <2>4, <3>1, <4>1 DEF PublishersInv
    <3>. QED BY <3>2, <3>3
  <2>5. CASE OnPubSubEmptySpace /\ x = Hub
    <3>1. CASE publishers # <<>> /\ ~IsFull(ring)
      <4>1. calls' = subscribers \o calls /\ publishers' = Tail(publishers)
        BY <2>5, <3>1, EmptySpaceAdds
      <4>2. subscribers \in Seq(Subscription \cup {Hub})
        BY <1>0
      <4>3. Hub \in ToSet(calls')
        BY <1>0, <2>3, <2>5, <4>1, <4>2, Union
      <4>. QED BY <1>0, <3>1, <4>1, <4>3 DEF PublishersInv
    <3>2. CASE ~(publishers # <<>> /\ ~IsFull(ring))
      <4>1. ring' = ring /\ publishers' = publishers
        BY <2>5, <3>2 DEF OnPubSubEmptySpace
      <4>. QED BY <1>0, <3>2, <4>1 DEF PublishersInv
    <3>. QED BY <3>1, <3>2
  <2>. QED BY <1>6, <2>1, <2>4, <2>5 DEF Loop
<1>7. ASSUME NEW c \in Client, ClientStep(c) \/ Interrupt(c) PROVE PublishersInv'
  <2>0. Len(Values(c)) \in Nat /\ Len(rest[c]) \in Nat
    BY ValuesFacts DEF PubType, StateType
  <2>1. CASE PublishOne(c)
    <3>1. publishers' = publishers /\ Idle
      BY <2>1 DEF PublishOne, At, waiting
    <3>. QED BY <1>3, <2>1, <3>1, PublishOneAdds
  <2>2. CASE PublishMany(c)
    <3>1. publishers' = publishers /\ Idle
      BY <2>2 DEF PublishMany, At, waiting
    <3>2. CASE ring' = ring
      BY <1>3, <3>1, <3>2
    <3>3. CASE ring' # ring
      <4>1. Low(ring') = Low(ring) /\ \E m : AddsThese(Values(c), m)
        BY <2>2, <3>3, PublishManyAdds
      <4>. QED BY <1>3, <1>4, <2>0, <3>1, <4>1
    <3>. QED BY <3>2, <3>3
  <2>3. CASE Slide(c)
    <3>1. publishers' = publishers /\ strategy = "sliding"
      BY <2>3 DEF Slide, waiting
    <3>. QED BY <3>1 DEF PublishersInv
  <2>4. CASE Suspend(c)
    <3>1. strategy = "backPressure" /\ calls' = <<Hub>> \o subscribers
      BY <2>4 DEF Suspend, LookAgain
    <3>2. subscribers \in Seq(Subscription \cup {Hub}) /\ <<Hub>> \in Seq(Subscription \cup {Hub})
      BY <1>0
    <3>3. ToSet(<<Hub>> \o subscribers) = ToSet(<<Hub>>) \cup ToSet(subscribers)
      BY <3>2, Union
    <3>4. ToSet(<<Hub>>) = {Hub}
      BY Heads
    <3>. QED BY <1>0, <3>1, <3>3, <3>4 DEF PublishersInv
  <2>5. CASE Take(c) \/ TakeBetween(c)
    <3>1. publishers' = publishers
      BY <2>5 DEF Take, TakeBetween, waiting
    <3>2. CASE calls' = OnEmptySpace
      BY <1>0, <3>1, <3>2, EmptySpaceFacts DEF PublishersInv
    <3>. QED BY <1>1, <2>5, <3>1, <3>2, TakesAre
  <2>6. CASE Join(c)
    BY <1>3, <2>6 DEF Join, At, values
  <2>7. CASE Cancel(c)
    <3>1. ring' = ring /\ Idle
      BY <2>7 DEF Cancel, values
    <3>2. ASSUME publishers = <<>> PROVE publishers' = <<>>
      <4>1. <<>> \in Seq(Value)
        OBVIOUS
      <4>2. Keep(<<>>, {v \in ToSet(<<>>) : v[1] # c}) = <<>>
        BY <4>1, Heads, KeepAllOrNone
      <4>. QED BY <2>7, <3>2, <4>2 DEF Cancel
    <3>. QED BY <1>0, <1>2, <3>1, <3>2 DEF PublishersInv
  <2>8. CASE ShutdownStrategy(c)
    BY <2>8 DEF ShutdownStrategy, PublishersInv
  <2>9. CASE \/ Resume(c) \/ Interrupt(c) \/ Stop(c) \/ Shutdown(c) \/ CompleteHook(c) \/ CloseScope(c)
             \/ CloseChild(c) \/ FreePublishers(c)
    BY <1>1, <2>9 DEF Resume, Interrupt, Stop, Shutdown, CompleteHook, CloseScope, CloseChild,
                      FreePublishers, values, waiting
  <2>. QED BY <1>7, <2>1, <2>2, <2>3, <2>4, <2>5, <2>6, <2>7, <2>8, <2>9 DEF ClientStep
<1>8. ASSUME NEW s \in Subscription, Subscribe(s) \/ AddFinalizer(s) \/ Leave(s) \/ Closing(s)
      PROVE  PublishersInv'
  <2>1. CASE Subscribe(s)
    <3>1. publishers' = publishers /\ Idle /\ ring' = Subscribed(ring, s) /\ phase[s] = "out"
      BY <2>1 DEF Subscribe, waiting
    <3>2. s \notin ring.subscribed
      BY <3>1 DEF PubType
    <3>3. RingInv(ring') /\ ring'.cap = ring.cap /\ ring'.pub = ring.pub /\ Low(ring') = Low(ring)
      BY <1>0, <3>1, <3>2, SubscribedFacts
    <3>4. IsFull(ring) => ring.cap # Unbounded /\ ring.pub = Low(ring) + ring.cap
      BY <1>0, RingFacts
    <3>5. ring'.cap # Unbounded /\ ring'.pub = Low(ring') + ring'.cap => IsFull(ring')
      BY <3>3, RingFacts
    <3>. QED BY <1>3, <3>1, <3>3, <3>4, <3>5
  <2>2. CASE Unsubscribe(s)
    <3>1. publishers' = publishers /\ calls' = OnEmptySpace
      BY <2>2 DEF Unsubscribe
    <3>. QED BY <1>0, <3>1, EmptySpaceFacts DEF PublishersInv
  <2>3. CASE AddFinalizer(s) \/ Leave(s) \/ ShutSubscription(s) \/ FreeTakers(s)
    BY <1>1, <2>3 DEF AddFinalizer, Leave, ShutSubscription, FreeTakers, values, waiting
  <2>. QED BY <1>8, <2>1, <2>2, <2>3 DEF Closing
<1>. QED BY <1>5, <1>6, <1>7, <1>8 DEF Next

(* The three parts of LoopInv are kept together.                              *)
LEMMA LoopStep ==
  ASSUME PubType, LoopInv, NoSlidingSlot, [Next]_vars
  PROVE  LoopInv'
BY GivenStep, TakersStep, PublishersStep DEF LoopInv

-----------------------------------------------------------------------------
(* At first nothing is published and nobody is subscribed.                    *)
LEMMA FirstRing ==
  ASSUME NEW cap, cap = Unbounded \/ cap \in Nat \ {0}, NEW r, r = EmptyRing(cap)
  PROVE  RingInv(r) /\ r.cap = cap /\ r.pub = 0 /\ r.subscribed = {} /\ Low(r) = 0
<1>1. /\ r.cap = cap /\ r.pub = 0 /\ r.oldest = 0 /\ r.subscribed = {}
      /\ r.array = [k \in Slots(cap, 0) |-> Absent] /\ r.counts = [k \in Slots(cap, 0) |-> 0]
      /\ r.index = [s \in Subscription |-> 0]
  BY DEF EmptyRing
<1>2. Low(r) = 0
  <2>1. CASE Single(r)
    <3>1. 0 \in Slots(cap, 0)
      BY <1>1, <2>1, SlotFacts
    <3>2. SizeOf(r) = 0
      BY <1>1, <2>1, <3>1 DEF IsEmpty, SizeOf
    <3>. QED BY <1>1, <2>1, <3>2 DEF Low
  <2>2. CASE ~Single(r)
    BY <1>1, <2>2 DEF Low
  <2>. QED BY <2>1, <2>2
<1>3. RingShape(r)
  <2>1. r = [cap |-> r.cap, array |-> r.array, counts |-> r.counts, pub |-> r.pub,
             oldest |-> r.oldest, index |-> r.index, subscribed |-> r.subscribed]
    BY DEF EmptyRing
  <2>2. IsFiniteSet({})
    BY FS_EmptySet
  <2>. QED BY <1>1, <2>1, <2>2 DEF RingShape
<1>4. cap # Unbounded => 0 <= 0 + cap
  OBVIOUS
<1>. QED BY <1>1, <1>2, <1>3, <1>4 DEF RingInv

(* What is known of the ring and the lines at first.                          *)
LEMMA FirstType == Init => PubType /\ LoopInv /\ ring.pub = 0 /\ ring.subscribed = {} /\ Low(ring) = 0
<1>. SUFFICES ASSUME Init PROVE PubType /\ LoopInv /\ ring.pub = 0 /\ ring.subscribed = {} /\ Low(ring) = 0
  OBVIOUS
<1>1. PICK kind \in Kind : strategy = kind[1] /\ ring = EmptyRing(kind[2])
  BY DEF Init
<1>2. kind = <<kind[1], kind[2]>> /\ (kind[2] = Unbounded \/ kind[2] \in Nat \ {0})
  BY KindAssumption
<1>3. /\ RingInv(ring) /\ ring.cap = kind[2] /\ ring.pub = 0 /\ ring.subscribed = {} /\ Low(ring) = 0
  BY <1>1, <1>2, FirstRing
<1>4. <<strategy, ring.cap>> \in Kind
  BY <1>1, <1>2, <1>3
<1>5. \A c \in Client : doing[c] \in Program[c] /\ pc[c] = doing[c].op
  BY DEF Init
<1>6. \A c \in Client : pc[c] \in {"publish", "unsafeOffer"} => doing[c].lo = 1
  BY <1>5, ProgramAssumption
<1>7. \A c \in Client : pc[c] # "joining"
  <2>1. \A c \in Client : doing[c] \in Operation
    BY <1>5, ProgramAssumption
  <2>. QED BY <1>5, <2>1 DEF Operation
<1>8. ring.subscribed = {s \in Subscription : phase[s] \notin {"out", "gone"}}
  BY <1>3 DEF Init
<1>9. LoopInv
  BY <1>3, <1>7 DEF Init, LoopInv, TakersInv, PublishersInv, GivenInv
<1>. QED BY <1>3, <1>4, <1>6, <1>8, <1>9, StateInit DEF PubType

(* Between two steps nobody waits while what it waits for is there.           *)
LEMMA NobodyWaits ==
  ASSUME PubType, LoopInv
  PROVE  NobodyWaitsInVain
<1>1. SUFFICES ASSUME Idle
               PROVE  /\ \A s \in Subscription : pollers[s] # <<>> => Unread(ring, s) = 0
                      /\ publishers # <<>> => IsFull(ring)
  BY DEF NobodyWaitsInVain
<1>2. ToSet(calls) = {}
  BY <1>1, Heads DEF Idle
<1>3. \A s \in Subscription : pollers[s] # <<>> => Unread(ring, s) = 0
  <2>1. \A s : Unread(ring, s) # 0 => s \in ring.subscribed
    BY UnreadType DEF PubType
  <2>. QED BY <1>2, <2>1 DEF LoopInv, TakersInv
<1>4. publishers # <<>> => IsFull(ring)
  BY <1>2 DEF LoopInv, PublishersInv
<1>. QED BY <1>3, <1>4

(* Nobody waits in vain: whatever the clients of a PubSub do, between two     *)
(* synchronous steps no taker waits on a subscription that has something to   *)
(* read, and no publisher waits while there is room: every step that makes    *)
(* room or a value calls the loops that look for those who wait              *)
(* (unsafeCompletePollers, unsafeCompleteSubscribers, unsafeOnPubSubEmptySpace). *)
THEOREM NoWaitInVain == ASSUME NoSlidingSlot PROVE Spec => []NobodyWaitsInVain
<1>1. Init => PubType /\ LoopInv
  BY FirstType
<1>2. PubType /\ LoopInv /\ [Next]_vars => PubType' /\ LoopInv'
  BY TypeStep, LoopStep
<1>3. PubType /\ LoopInv => NobodyWaitsInVain
  BY NobodyWaits
<1>. QED BY <1>1, <1>2, <1>3, PTL DEF Spec

-----------------------------------------------------------------------------
(* What the history says.                                                   *)

(* What a subscription reads next is what was stored there.                   *)
LEMMA NextAre ==
  ASSUME PubType, LogInv, NEW s \in ring.subscribed, NEW n \in 0..Unread(ring, s),
         NEW t, t = NextValues(ring, s, n)
  PROVE  /\ t \in Seq(Value) /\ Len(t) = n /\ Position(ring, s) \in Nat /\ Position(ring, s) + n <= Len(log)
         /\ \A k \in 1..n : t[k] = log[Position(ring, s) + k].value
<1>1. PICK p : p = Position(ring, s)
  OBVIOUS
<1>2. /\ p \in Low(ring)..ring.pub /\ Unread(ring, s) = ring.pub - p /\ p = Greatest(ring.index[s], Low(ring))
      /\ Low(ring) \in Nat /\ ring.pub \in Nat /\ Len(log) = ring.pub
  BY <1>1, RingFacts DEF PubType, LogInv
<1>3. ring.index[s] \in Nat
  BY DEF PubType, RingInv, RingShape
<1>4. n \in Nat /\ p \in Nat /\ p + n <= Len(log)
  BY <1>2
<1>5. ASSUME NEW k \in 1..n PROVE /\ ring.array[Slot(ring, p + k - 1)] = log[p + k].value
                                  /\ log[p + k].value \in Value
  <2>1. PICK i \in Nat : i = p + k - 1 /\ i \in Low(ring)..(ring.pub - 1) /\ i + 1 = p + k
    BY <1>2, <1>4
  <2>2. s \in Readers(ring, i)
    BY <1>2, <1>3, <2>1 DEF Readers, Greatest
  <2>3. ring.array[Slot(ring, i)] = log[i + 1].value
    BY <2>1, <2>2 DEF LogInv, Holds
  <2>4. log[p + k] \in Entry
    BY <1>2, <2>1 DEF LogInv
  <2>. QED BY <2>1, <2>3, <2>4 DEF Entry
<1>6. t = [k \in 1..n |-> ring.array[Slot(ring, p + k - 1)]]
  BY <1>1 DEF NextValues
<1>7. t \in Seq(Value) /\ Len(t) = n
  <2>1. \A k \in 1..n : ring.array[Slot(ring, p + k - 1)] \in Value
    BY <1>5
  <2>2. t \in [1..n -> Value]
    BY <1>6, <2>1
  <2>. QED BY <1>4, <2>2
<1>8. \A k \in 1..n : t[k] = log[p + k].value
  BY <1>5, <1>6
<1>. QED BY <1>1, <1>4, <1>7, <1>8

(* What publishing adds to the history.                                      *)
LEMMA LogGrows ==
  ASSUME PubType, LogInv, NEW vs \in Seq(Value), NEW m \in Nat, AddsThese(vs, m)
  PROVE  /\ log' \in Seq(Entry) /\ Len(log') = ring.pub + m /\ ring'.pub = ring.pub + m
         /\ \A k \in 1..ring.pub : log'[k] = log[k]
         /\ \A j \in 1..m : /\ ring.pub + j \in 1..Len(log')
                            /\ log'[ring.pub + j] = [value |-> vs[j], audience |-> ring.subscribed]
<1>1. ring.pub \in Nat /\ Len(log) = ring.pub /\ log \in Seq(Entry) /\ ring.subscribed \subseteq Subscription
  BY DEF PubType, LogInv, RingInv, RingShape
<1>2. m \in 0..Len(vs) /\ ring'.pub = ring.pub + m
  BY DEF AddsThese, Stored
<1>3. PICK e : e = [k \in 1..m |-> [value |-> vs[k], audience |-> ring.subscribed]]
  OBVIOUS
<1>4. \A k \in 1..m : vs[k] \in Value
  BY <1>2
<1>5. e \in Seq(Entry) /\ Len(e) = m
  BY <1>1, <1>3, <1>4 DEF Entry
<1>6. log' = log \o e
  BY <1>3 DEF AddsThese
<1>7. log' \in Seq(Entry) /\ Len(log') = ring.pub + m
  <2>1. Len(log \o e) = Len(log) + Len(e)
    BY <1>1, <1>5
  <2>. QED BY <1>1, <1>5, <1>6, <2>1, Joined
<1>8. \A k \in 1..ring.pub : log'[k] = log[k]
  <2>1. \A k \in 1..Len(log) : (log \o e)[k] = log[k]
    BY <1>1, <1>5, Joined
  <2>. QED BY <1>1, <1>6, <2>1
<1>9. \A j \in 1..m : ring.pub + j \in 1..Len(log') /\ log'[ring.pub + j] = e[j]
  <2>1. \A j \in 1..Len(e) : (log \o e)[Len(log) + j] = e[j]
    <3>1. PICK es \in Seq(Entry) : es = log
      BY <1>1
    <3>2. \A j \in 1..Len(e) : (es \o e)[Len(es) + j] = e[j]
      BY <1>5, Joined
    <3>. QED BY <3>1, <3>2
  <2>2. \A j \in 1..m : ring.pub + j \in 1..Len(log')
    BY <1>1, <1>7
  <2>. QED BY <1>1, <1>5, <1>6, <2>1, <2>2
<1>. QED BY <1>2, <1>3, <1>7, <1>8, <1>9

(* LogInv is kept: only a step that stores adds to the history, and for whom  *)
(* it stores is who subscribes to the ring.                                   *)
LEMMA LogStep ==
  ASSUME PubType, LogInv, HistoryStep
  PROVE  LogInv'
<1>. DEFINE AllAddressed == \A k \in DOMAIN log : log[k].audience # {}
<1>0. /\ RingInv(ring) /\ RingInv(ring') /\ ring'.cap = ring.cap
      /\ Low(ring) \in Nat /\ Low(ring') \in Nat /\ ring.pub \in Nat /\ Low(ring) <= Low(ring')
  <2>1. RingInv(ring) /\ RingInv(ring') /\ ring'.cap = ring.cap /\ Low(ring) <= Low(ring')
    BY RingStep DEF PubType
  <2>. QED BY <2>1, RingFacts
<1>1. /\ log \in Seq(Entry) /\ seen \in [Subscription -> Seq(Value)] /\ Len(log) = ring.pub
      /\ Holds(ring, log) /\ (AllAddressed => Retains(ring))
  BY DEF LogInv
<1>2. \A i : Slot(ring', i) = Slot(ring, i)
  BY <1>0 DEF Slot
<1>3. CASE values' = values
  BY <1>3 DEF values, LogInv
<1>4. CASE Adds
  <2>1. PICK vs \in Seq(Value), m \in Nat : AddsThese(vs, m)
    BY <1>4 DEF Adds
  <2>2. seen' = seen
    BY <1>4 DEF Adds
  <2>3. /\ log' \in Seq(Entry) /\ Len(log') = ring.pub + m /\ ring'.pub = ring.pub + m
        /\ \A k \in 1..ring.pub : log'[k] = log[k]
        /\ \A j \in 1..m : /\ ring.pub + j \in 1..Len(log')
                           /\ log'[ring.pub + j] = [value |-> vs[j], audience |-> ring.subscribed]
    BY <2>1, LogGrows
  <2>4. /\ Stored(ring, ring', vs, m)
        /\ \A i \in Low(ring')..(ring.pub - 1) : ring'.array[Slot(ring, i)] = ring.array[Slot(ring, i)]
        /\ \A j \in 1..m : Low(ring') <= ring.pub + j - 1 =>
             ring'.array[Slot(ring, ring.pub + j - 1)] = vs[j]
    BY <2>1 DEF AddsThese, Stored
  <2>5. /\ \A i : Readers(ring', i) = Readers(ring, i)
        /\ Retains(ring) /\ (m # 0 => ring.subscribed # {}) => Retains(ring')
    BY <1>0, <2>4, StoredFacts
  <2>6. ASSUME NEW i \in Low(ring')..(ring'.pub - 1), Readers(ring', i) # {}
        PROVE  ring'.array[Slot(ring', i)] = log'[i + 1].value
    <3>1. i \in Nat /\ Low(ring') <= i /\ i < ring.pub + m
      BY <1>0, <2>3
    <3>2. CASE i < ring.pub
      <4>1. i \in Low(ring)..(ring.pub - 1) /\ i \in Low(ring')..(ring.pub - 1) /\ i + 1 \in 1..ring.pub
        BY <1>0, <3>1, <3>2
      <4>2. ring.array[Slot(ring, i)] = log[i + 1].value
        BY <1>1, <2>5, <2>6, <4>1 DEF Holds
      <4>. QED BY <1>2, <2>3, <2>4, <4>1, <4>2
    <3>3. CASE i >= ring.pub
      <4>1. PICK j \in 1..m : j = i - ring.pub + 1 /\ ring.pub + j - 1 = i /\ ring.pub + j = i + 1
        BY <1>0, <3>1, <3>3
      <4>2. ring'.array[Slot(ring, i)] = vs[j]
        BY <2>4, <3>1, <4>1
      <4>3. log'[ring.pub + j] = [value |-> vs[j], audience |-> ring.subscribed]
        BY <2>3
      <4>4. log'[i + 1].value = vs[j]
        BY <4>1, <4>3
      <4>. QED BY <1>2, <4>2, <4>4
    <3>. QED BY <1>0, <3>1, <3>2, <3>3
  <2>7. ASSUME \A k \in DOMAIN log' : log'[k].audience # {} PROVE Retains(ring')
    <3>1. DOMAIN log = 1..ring.pub /\ DOMAIN log' = 1..(ring.pub + m)
      BY <1>1, <2>3
    <3>2. AllAddressed
      BY <1>0, <2>3, <2>7, <3>1
    <3>3. m # 0 => ring.subscribed # {}
      <4>1. SUFFICES ASSUME m # 0 PROVE ring.subscribed # {}
        OBVIOUS
      <4>2. 1 \in 1..m
        BY <4>1
      <4>3. /\ log'[ring.pub + 1] = [value |-> vs[1], audience |-> ring.subscribed]
            /\ ring.pub + 1 \in 1..Len(log')
        BY <2>3, <4>2
      <4>4. log'[ring.pub + 1].audience = ring.subscribed /\ ring.pub + 1 \in DOMAIN log'
        BY <2>3, <4>3
      <4>. QED BY <2>7, <4>4
    <3>. QED BY <1>1, <2>5, <3>2, <3>3
  <2>. QED BY <1>1, <2>2, <2>3, <2>6, <2>7 DEF LogInv, Holds
<1>5. CASE TakesSome
  <2>1. PICK s \in ring.subscribed : \E n \in 0..Unread(ring, s) : Reads(s, n) /\ log' = log
    BY <1>5 DEF TakesSome
  <2>2. PICK n \in 0..Unread(ring, s) : Reads(s, n) /\ log' = log
    BY <2>1
  <2>3. /\ ring' = Release(ring, s, n) /\ seen' = [seen EXCEPT ![s] = @ \o NextValues(ring, s, n)]
    BY <2>2 DEF Reads
  <2>4. NextValues(ring, s, n) \in Seq(Value) /\ s \in Subscription
    BY <1>0, NextAre DEF RingInv, RingShape
  <2>5. seen' \in [Subscription -> Seq(Value)]
    BY <1>1, <2>3, <2>4
  <2>6. /\ ring'.pub = ring.pub /\ (Retains(ring) => Retains(ring'))
        /\ \A i \in Low(ring')..(ring'.pub - 1) :
             Readers(ring', i) # {} => /\ Readers(ring, i) # {}
                                       /\ ring'.array[Slot(ring, i)] = ring.array[Slot(ring, i)]
    BY <1>0, <2>3, ReleaseFacts
  <2>7. Holds(ring', log)
    BY <1>0, <1>1, <1>2, <2>6 DEF Holds
  <2>. QED BY <1>1, <2>2, <2>5, <2>6, <2>7 DEF LogInv
<1>6. CASE Comes
  <2>1. PICK s \in Subscription : /\ phase[s] = "out" /\ ring' = Subscribed(ring, s)
                                  /\ log' = log /\ seen' = seen
    BY <1>6 DEF Comes
  <2>2. s \notin ring.subscribed
    BY <2>1 DEF PubType
  <2>3. /\ ring'.array = ring.array /\ ring'.pub = ring.pub /\ Low(ring') = Low(ring)
        /\ \A i \in Low(ring)..(ring.pub - 1) : Readers(ring', i) = Readers(ring, i)
    BY <1>0, <2>1, <2>2, SubscribedFacts
  <2>4. Holds(ring', log)
    BY <1>1, <1>2, <2>3 DEF Holds
  <2>5. Retains(ring) => Retains(ring')
    <3>1. Low(ring) < ring.pub => Low(ring) \in Low(ring)..(ring.pub - 1)
      BY <1>0
    <3>. QED BY <2>3, <3>1 DEF Retains
  <2>. QED BY <1>1, <2>1, <2>3, <2>4, <2>5 DEF LogInv
<1>7. CASE Goes
  <2>1. PICK s \in ring.subscribed : ring' = Unsubscribed(ring, s) /\ log' = log /\ seen' = seen
    BY <1>7 DEF Goes
  <2>2. /\ ring'.pub = ring.pub /\ (Retains(ring) => Retains(ring'))
        /\ \A i \in Low(ring')..(ring'.pub - 1) :
             Readers(ring', i) # {} => /\ Readers(ring, i) # {}
                                       /\ ring'.array[Slot(ring, i)] = ring.array[Slot(ring, i)]
    BY <1>0, <2>1, UnsubscribedFacts
  <2>3. Holds(ring', log)
    BY <1>0, <1>1, <1>2, <2>2 DEF Holds
  <2>. QED BY <1>1, <2>1, <2>2, <2>3 DEF LogInv
<1>. QED BY <1>3, <1>4, <1>5, <1>6, <1>7 DEF HistoryStep

(* The history is empty at first.                                             *)
LEMMA FirstLog == Init => LogInv
<1>. SUFFICES ASSUME Init PROVE LogInv
  OBVIOUS
<1>1. log = <<>> /\ seen = [s \in Subscription |-> <<>>]
  BY DEF Init
<1>2. ring.pub = 0 /\ Low(ring) = 0
  BY FirstType
<1>3. log \in Seq(Entry) /\ Len(log) = 0 /\ seen \in [Subscription -> Seq(Value)]
  BY <1>1
<1>. QED BY <1>2, <1>3 DEF LogInv, Holds, Retains

(* Who has yet to read the oldest value has yet to read them all.             *)
LEMMA RetainedFor ==
  ASSUME PubType, LogInv
  PROVE  RetainedIfAddressed
<1>1. SUFFICES ASSUME \A k \in DOMAIN log : log[k].audience # {}, ~IsEmpty(ring)
               PROVE  \E s \in ring.subscribed : Unread(ring, s) = SizeOf(ring)
  BY DEF RetainedIfAddressed, RetainedForSomebody
<1>2. /\ Low(ring) \in Nat /\ ring.pub \in Nat /\ Low(ring) < ring.pub
      /\ SizeOf(ring) = ring.pub - Low(ring)
  BY <1>1, RingFacts DEF PubType
<1>3. PICK s \in ring.subscribed : ring.index[s] <= Low(ring)
  BY <1>1, <1>2 DEF LogInv, Retains, Readers
<1>4. ring.index[s] \in Nat
  BY DEF PubType, RingInv, RingShape
<1>5. Unread(ring, s) = ring.pub - Position(ring, s) /\ Position(ring, s) = Greatest(ring.index[s], Low(ring))
  BY RingFacts DEF PubType
<1>6. Greatest(ring.index[s], Low(ring)) = Low(ring)
  BY <1>2, <1>3, <1>4 DEF Greatest
<1>. QED BY <1>2, <1>5, <1>6

(* The variables have their types: the indices, counts and slots of the ring  *)
(* too (RingInv, in PubType), with any number of values published.            *)
THEOREM TypeCorrect == ASSUME NoSlidingSlot PROVE Spec => []TypeOK
<1>1. Init => PubType /\ LogInv
  BY FirstType, FirstLog
<1>2. PubType /\ LogInv /\ [Next]_vars => PubType' /\ LogInv'
  BY TypeStep, LogStep
<1>3. PubType /\ LogInv => TypeOK
  BY DEF PubType, StateType, LogInv, Entry, TypeOK
<1>. QED BY <1>1, <1>2, <1>3, PTL DEF Spec

(* A PubSub that always had a subscription when something was stored is as    *)
(* full as its slowest subscription is behind: a value whose last reader has  *)
(* read it, or has left, is not kept.                                         *)
THEOREM NothingIsKeptForNobody == ASSUME NoSlidingSlot PROVE Spec => []RetainedIfAddressed
<1>1. Init => PubType /\ LogInv
  BY FirstType, FirstLog
<1>2. PubType /\ LogInv /\ [Next]_vars => PubType' /\ LogInv'
  BY TypeStep, LogStep
<1>3. PubType /\ LogInv => RetainedIfAddressed
  BY RetainedFor
<1>. QED BY <1>1, <1>2, <1>3, PTL DEF Spec

-----------------------------------------------------------------------------
(* No value is published twice.                                              *)

(* What has been stored; where a client stands that has yet to store.         *)
SentSet == ToSet(Sent(log))
Before == {"publish", "publishAll", "unsafeOffer"}

(* What publishing adds to the values in the history.                         *)
LEMMA SentGrows ==
  ASSUME PubType, LogInv, NEW vs \in Seq(Value), NEW m \in Nat, AddsThese(vs, m),
         IsInjective(Sent(log)), IsInjective(vs), \A v \in ToSet(vs) : v \notin SentSet
  PROVE  /\ IsInjective(Sent(log'))
         /\ \A v \in SentSet' : v \in SentSet \/ \E j \in 1..m : j \in 1..Len(vs) /\ v = vs[j]
<1>1. /\ log' \in Seq(Entry) /\ Len(log') = ring.pub + m
      /\ \A k \in 1..ring.pub : log'[k] = log[k]
      /\ \A j \in 1..m : log'[ring.pub + j] = [value |-> vs[j], audience |-> ring.subscribed]
  BY LogGrows
<1>2. PICK u \in Nat : u = ring.pub /\ Len(log) = u /\ log \in Seq(Entry)
  BY DEF PubType, LogInv, RingInv, RingShape
<1>3. m \in 0..Len(vs)
  BY DEF AddsThese, Stored
<1>4. DOMAIN Sent(log) = 1..u /\ \A k \in 1..u : Sent(log)[k] = log[k].value
  BY <1>2 DEF Sent
<1>5. DOMAIN Sent(log') = 1..(u + m) /\ \A k \in 1..(u + m) : Sent(log')[k] = log'[k].value
  BY <1>1, <1>2 DEF Sent
<1>6. \A k \in 1..u : k \in 1..(u + m) /\ Sent(log')[k] = Sent(log)[k] /\ Sent(log)[k] \in SentSet
  <2>1. \A k \in 1..u : Sent(log)[k] \in SentSet
    BY <1>4 DEF SentSet, ToSet
  <2>2. \A k \in 1..u : k \in 1..(u + m)
    BY <1>2
  <2>3. \A k \in 1..u : Sent(log)[k] = log[k].value /\ log'[k] = log[k]
    BY <1>1, <1>2, <1>4
  <2>. QED BY <1>5, <2>1, <2>2, <2>3
<1>7. \A j \in 1..m : /\ u + j \in 1..(u + m) /\ Sent(log')[u + j] = vs[j] /\ j \in 1..Len(vs)
                      /\ vs[j] \in ToSet(vs)
  <2>1. ASSUME NEW j \in 1..m PROVE u + j \in 1..(u + m) /\ log'[u + j].value = vs[j] /\ j \in 1..Len(vs)
    <3>1. log'[u + j] = [value |-> vs[j], audience |-> ring.subscribed]
      BY <1>1, <1>2
    <3>2. u + j \in 1..(u + m)
      BY <1>2
    <3>. QED BY <1>3, <3>1, <3>2
  <2>. QED BY <1>5, <2>1 DEF ToSet
<1>8. \A k \in 1..(u + m) : k \in 1..u \/ \E j \in 1..m : k = u + j
  <2>1. ASSUME NEW k \in 1..(u + m), k \notin 1..u PROVE \E j \in 1..m : k = u + j
    <3>1. k - u \in 1..m /\ k = u + (k - u)
      BY <1>2, <2>1
    <3>. QED BY <3>1
  <2>. QED BY <2>1
<1>9. ASSUME NEW i \in 1..(u + m), NEW k \in 1..(u + m), Sent(log')[i] = Sent(log')[k] PROVE i = k
  <2>1. CASE i \in 1..u /\ k \in 1..u
    BY <1>4, <1>6, <1>9, <2>1 DEF IsInjective
  <2>2. CASE i \notin 1..u /\ k \notin 1..u
    <3>1. PICK a \in 1..m : i = u + a
      BY <1>8, <2>2
    <3>2. PICK b \in 1..m : k = u + b
      BY <1>8, <2>2
    <3>3. vs[a] = vs[b] /\ a \in DOMAIN vs /\ b \in DOMAIN vs
      BY <1>3, <1>7, <1>9, <3>1, <3>2
    <3>. QED BY <3>1, <3>2, <3>3 DEF IsInjective
  <2>3. CASE i \in 1..u /\ k \notin 1..u
    BY <1>6, <1>7, <1>8, <1>9, <2>3
  <2>4. CASE i \notin 1..u /\ k \in 1..u
    BY <1>6, <1>7, <1>8, <1>9, <2>4
  <2>. QED BY <2>1, <2>2, <2>3, <2>4
<1>10. IsInjective(Sent(log'))
  BY <1>5, <1>9 DEF IsInjective
<1>11. ASSUME NEW v \in SentSet' PROVE v \in SentSet \/ \E j \in 1..m : j \in 1..Len(vs) /\ v = vs[j]
  <2>1. PICK k \in 1..(u + m) : v = Sent(log')[k]
    BY <1>5 DEF SentSet, ToSet
  <2>. QED BY <1>6, <1>7, <1>8, <2>1
<1>. QED BY <1>10, <1>11

(* Steps that bring no value from a client.                                  *)
LEMMA ValuesKept ==
  ASSUME ValueInv, IsInjective(Sent(log')), IsInjective(publishers'),
         \A v : v \in SentSet' => v \notin ToSet(publishers'),
         \A v : v \in SentSet' \/ v \in ToSet(publishers') => v \in SentSet \/ v \in ToSet(publishers),
         \A d \in Client : pc'[d] \in Before \cup {"surplus"} => pc'[d] = pc[d] /\ rest'[d] = rest[d]
  PROVE  ValueInv'
<1>1. ASSUME NEW d \in Client, pc'[d] \in {"publish", "publishAll", "unsafeOffer"},
             NEW v \in SentSet' \cup ToSet(publishers')
      PROVE  v[1] # d
  BY <1>1 DEF ValueInv, SentSet, Before
<1>2. ASSUME NEW d \in Client, pc'[d] = "surplus"
      PROVE  /\ IsInjective(rest'[d])
             /\ \A v \in ToSet(rest'[d]) : v[1] = d /\ v \notin SentSet' /\ v \notin ToSet(publishers')
  BY <1>2 DEF ValueInv, SentSet
<1>. QED BY <1>1, <1>2 DEF ValueInv, SentSet

(* Steps of a client that publishes.                                         *)
LEMMA ValuesCome ==
  ASSUME ValueInv, NEW c \in Client, IsInjective(Sent(log')), publishers' = publishers,
         \A v \in SentSet' : v \in SentSet \/ (v[1] = c /\ v \notin ToSet(publishers)),
         \A d \in Client : d # c => pc'[d] = pc[d] /\ rest'[d] = rest[d],
         pc'[c] \notin Before,
         pc'[c] = "surplus" =>
           /\ IsInjective(rest'[c])
           /\ \A v \in ToSet(rest'[c]) : v[1] = c /\ v \notin SentSet' /\ v \notin ToSet(publishers)
  PROVE  ValueInv'
<1>1. ASSUME NEW d \in Client, pc'[d] \in {"publish", "publishAll", "unsafeOffer"},
             NEW v \in SentSet' \cup ToSet(publishers)
      PROVE  v[1] # d
  BY <1>1 DEF ValueInv, SentSet, Before
<1>2. ASSUME NEW d \in Client, pc'[d] = "surplus"
      PROVE  /\ IsInjective(rest'[d])
             /\ \A v \in ToSet(rest'[d]) : v[1] = d /\ v \notin SentSet' /\ v \notin ToSet(publishers)
  BY <1>2 DEF ValueInv, SentSet
<1>3. SentSet' \cap ToSet(publishers) = {}
  BY DEF ValueInv, SentSet
<1>. QED BY <1>1, <1>2, <1>3 DEF ValueInv, SentSet

(* ValueInv is kept: a value is new when a publisher begins with it, and      *)
(* stays in one place until it is stored or given up.                         *)
LEMMA ValueStep ==
  ASSUME PubType, LogInv, ValueInv, NoSlidingSlot, [Next]_vars
  PROVE  ValueInv'
<1>0. /\ publishers \in Seq(Value) /\ pc \in [Client -> Label] /\ rest \in [Client -> Seq(Value)]
      /\ IsInjective(Sent(log)) /\ IsInjective(publishers)
      /\ \A v : v \in SentSet => v \notin ToSet(publishers)
  BY DEF PubType, StateType, ValueInv, SentSet
<1>. DEFINE Calm == \A d \in Client : pc'[d] \in Before \cup {"surplus"} => pc'[d] = pc[d] /\ rest'[d] = rest[d]
<1>1. ASSUME log' = log, publishers' = publishers, Calm PROVE ValueInv'
  <2>1. SentSet' = SentSet
    BY <1>1 DEF SentSet
  <2>. QED BY <1>0, <1>1, <2>1, ValuesKept
<1>2. ASSUME pc' = pc, rest' = rest PROVE Calm
  BY <1>2
<1>3. ASSUME NEW c \in Client, pc' = [pc EXCEPT ![c] = pc'[c]], pc'[c] \notin Before \cup {"surplus"}, rest' = rest
      PROVE  Calm
  <2>1. \A d \in Client : d # c => pc'[d] = pc[d]
    BY <1>0, <1>3
  <2>. QED BY <1>3, <2>1
<1>4. ASSUME NEW c \in Client, pc[c] \in Before
      PROVE  \A v : v[1] = c => v \notin SentSet /\ v \notin ToSet(publishers)
  BY <1>4 DEF ValueInv, Before, SentSet
<1>5. CASE UNCHANGED vars
  BY <1>1, <1>2, <1>5 DEF vars, values, waiting, programs
<1>6. CASE Loop
  <2>1. pc' = pc /\ rest' = rest
    BY <1>6 DEF Loop, programs
  <2>2. CASE CompletePollers(Head(calls))
    BY <1>1, <1>2, <2>1, <2>2 DEF CompletePollers
  <2>3. CASE OnPubSubEmptySpace
    <3>1. CASE publishers # <<>> /\ ~IsFull(ring)
      <4>1. PICK v \in Value : v = Head(publishers)
        BY <2>3, <3>1, EmptySpaceAdds
      <4>2. PICK m \in Nat : AddsThese(<<v>>, m)
        BY <2>3, <3>1, <4>1, EmptySpaceAdds
      <4>3. publishers' = Tail(publishers)
        BY <2>3, <3>1, EmptySpaceAdds
      <4>4. v \in ToSet(publishers)
        <5>1. publishers # <<>>
          BY <3>1
        <5>2. ToSet(publishers) = {Head(publishers)} \cup ToSet(Tail(publishers))
          BY <1>0, <5>1, HeadAndTail
        <5>. QED BY <4>1, <5>2
      <4>5. <<v>> \in Seq(Value) /\ IsInjective(<<v>>) /\ ToSet(<<v>>) = {v}
        <5>1. IsInjective(<<v>>)
          BY DEF IsInjective
        <5>. QED BY <5>1, Heads
      <4>6. /\ IsInjective(Sent(log'))
            /\ \A w \in SentSet' : w \in SentSet \/ \E j \in 1..m : j \in 1..Len(<<v>>) /\ w = <<v>>[j]
        BY <1>0, <4>2, <4>4, <4>5, SentGrows
      <4>7. \A w \in SentSet' : w \in SentSet \/ w = v
        <5>1. \A j \in 1..Len(<<v>>) : <<v>>[j] = v
          OBVIOUS
        <5>. QED BY <4>6, <5>1
      <4>8. IsInjective(publishers') /\ ToSet(publishers') = ToSet(publishers) \ {v}
        BY <1>0, <3>1, <4>1, <4>3, TailExactly
      <4>. QED BY <1>0, <1>2, <2>1, <4>4, <4>6, <4>7, <4>8, ValuesKept
    <3>2. CASE ~(publishers # <<>> /\ ~IsFull(ring))
      BY <1>1, <1>2, <2>1, <2>3, <3>2 DEF OnPubSubEmptySpace
    <3>. QED BY <3>1, <3>2
  <2>. QED BY <1>6, <2>2, <2>3 DEF Loop
<1>7. ASSUME NEW c \in Client, ClientStep(c) \/ Interrupt(c) PROVE ValueInv'
  <2>0. /\ Values(c) \in Seq(Value) /\ Len(Values(c)) = doing[c].lo /\ doing[c].lo \in Nat
        /\ IsInjective(Values(c)) /\ (\A v \in ToSet(Values(c)) : v[1] = c)
        /\ \A k \in 1..doing[c].lo : Values(c)[k] = <<c, k>>
    BY ValuesFacts DEF PubType
  <2>1. CASE PublishOne(c)
    <3>1. /\ pc[c] \in Before /\ publishers' = publishers
          /\ \A d \in Client : d # c => pc'[d] = pc[d] /\ rest'[d] = rest[d]
          /\ pc'[c] \notin Before
      BY <1>0, <2>1 DEF PublishOne, At, Goto, waiting, Before
    <3>2. \A v \in ToSet(Values(c)) : v \notin SentSet /\ v \notin ToSet(publishers)
      BY <1>4, <2>0, <3>1
    <3>3. CASE log' = log
      <4>1. SentSet' = SentSet /\ IsInjective(Sent(log'))
        BY <1>0, <3>3 DEF SentSet
      <4>2. pc'[c] = "surplus" => rest'[c] = Values(c)
        BY <1>0, <2>1 DEF PublishOne, Goto
      <4>. QED BY <2>0, <3>1, <3>2, <4>1, <4>2, ValuesCome
    <3>4. CASE pc' = [pc EXCEPT ![c] = "accepted"] /\ \E m \in Nat : AddsThese(Values(c), m)
      <4>1. PICK m \in Nat : AddsThese(Values(c), m)
        BY <3>4
      <4>2. /\ IsInjective(Sent(log'))
            /\ \A v \in SentSet' : v \in SentSet \/ \E j \in 1..m : j \in 1..Len(Values(c)) /\ v = Values(c)[j]
        BY <1>0, <2>0, <3>2, <4>1, SentGrows
      <4>3. \A v \in SentSet' : v \in SentSet \/ v \in ToSet(Values(c))
        BY <2>0, <4>2 DEF ToSet
      <4>4. pc'[c] # "surplus"
        BY <1>0, <3>4
      <4>. QED BY <2>0, <3>1, <3>2, <4>2, <4>3, <4>4, ValuesCome
    <3>. QED BY <2>1, <3>3, <3>4, PublishOneAdds
  <2>2. CASE PublishMany(c)
    <3>1. /\ pc[c] \in Before /\ publishers' = publishers
          /\ \A d \in Client : d # c => pc'[d] = pc[d] /\ rest'[d] = rest[d]
          /\ pc'[c] \notin Before
      BY <1>0, <2>2 DEF PublishMany, At, Goto, waiting, Before
    <3>2. \A v \in ToSet(Values(c)) : v \notin SentSet /\ v \notin ToSet(publishers)
      BY <1>4, <2>0, <3>1
    <3>3. CASE log' = log /\ pc' = [pc EXCEPT ![c] = "stopped"]
      <4>1. SentSet' = SentSet /\ IsInjective(Sent(log')) /\ pc'[c] # "surplus"
        BY <1>0, <3>3 DEF SentSet
      <4>. QED BY <3>1, <4>1, ValuesCome
    <3>4. CASE \E f \in 0..doing[c].lo : /\ rest' = [rest EXCEPT ![c] = After(Values(c), f)]
                                         /\ \E m \in 0..f : AddsThese(Values(c), m)
      <4>1. PICK f \in 0..doing[c].lo : /\ rest' = [rest EXCEPT ![c] = After(Values(c), f)]
                                        /\ \E m \in 0..f : AddsThese(Values(c), m)
        BY <3>4
      <4>2. PICK m \in 0..f : AddsThese(Values(c), m)
        BY <4>1
      <4>3. m \in Nat /\ f \in Nat /\ m <= f
        BY <2>0
      <4>4. /\ IsInjective(Sent(log'))
            /\ \A v \in SentSet' : v \in SentSet \/ \E j \in 1..m : j \in 1..Len(Values(c)) /\ v = Values(c)[j]
        BY <1>0, <2>0, <3>2, <4>2, <4>3, SentGrows
      <4>5. \A v \in SentSet' : v \in SentSet \/ (v[1] = c /\ v[2] <= f /\ v \notin ToSet(publishers))
        <5>1. ASSUME NEW j \in 1..m, j \in 1..Len(Values(c))
              PROVE  Values(c)[j][1] = c /\ Values(c)[j][2] <= f /\ Values(c)[j] \notin ToSet(publishers)
          <6>1. Values(c)[j] = <<c, j>> /\ j <= f /\ Values(c)[j] \in ToSet(Values(c))
            BY <2>0, <4>3, <5>1 DEF ToSet
          <6>. QED BY <3>2, <6>1
        <5>. QED BY <4>4, <5>1
      <4>6. PICK t : t = After(Values(c), f)
        OBVIOUS
      <4>7. t \in Seq(Value) /\ IsInjective(t) /\ \A v \in ToSet(t) : v[1] = c /\ v[2] > f
        BY <4>1, <4>6, SurplusFacts DEF PubType
      <4>8. \A v \in ToSet(t) : v \in Value
        BY <4>7 DEF ToSet
      <4>9. \A v \in ToSet(t) : v[1] = c /\ v \notin SentSet' /\ v \notin ToSet(publishers)
        <5>1. ASSUME NEW v \in ToSet(t) PROVE ~(v[2] <= f)
          <6>1. v[2] \in Nat /\ v[2] > f
            BY <4>7, <4>8 DEF Value
          <6>. QED BY <4>3, <6>1
        <5>. QED BY <1>4, <3>1, <4>5, <4>7, <5>1
      <4>10. rest'[c] = t
        BY <1>0, <4>1, <4>6
      <4>. QED BY <3>1, <4>4, <4>5, <4>7, <4>9, <4>10, ValuesCome
    <3>. QED BY <2>2, <3>3, <3>4, PublishManyAdds
  <2>3. CASE Slide(c)
    <3>1. /\ pc[c] = "surplus" /\ publishers' = publishers /\ rest' = rest
          /\ pc' = [pc EXCEPT ![c] = "accepted"]
      BY <2>3 DEF Slide, At, Goto, waiting, programs
    <3>2. PICK m \in Nat : AddsThese(rest[c], m)
      BY <2>3, SlideAdds
    <3>3. /\ IsInjective(rest[c]) /\ rest[c] \in Seq(Value)
          /\ \A v \in ToSet(rest[c]) : v[1] = c /\ v \notin SentSet /\ v \notin ToSet(publishers)
      BY <1>0, <3>1 DEF ValueInv, SentSet
    <3>4. /\ IsInjective(Sent(log'))
          /\ \A v \in SentSet' : v \in SentSet \/ \E j \in 1..m : j \in 1..Len(rest[c]) /\ v = rest[c][j]
      BY <1>0, <3>2, <3>3, SentGrows
    <3>5. \A v \in SentSet' : v \in SentSet \/ v \in ToSet(rest[c])
      BY <3>3, <3>4 DEF ToSet
    <3>6. pc'[c] = "accepted" /\ \A d \in Client : d # c => pc'[d] = pc[d]
      BY <1>0, <3>1
    <3>. QED BY <3>1, <3>3, <3>4, <3>5, <3>6, ValuesCome DEF Before
  <2>4. CASE Suspend(c)
    <3>1. /\ pc[c] = "surplus" /\ publishers' = publishers \o rest[c] /\ rest' = rest /\ log' = log
          /\ pc' = [pc EXCEPT ![c] = pc'[c]] /\ pc'[c] \notin Before \cup {"surplus"}
      BY <1>0, <2>4 DEF Suspend, At, Goto, values, programs, Before
    <3>2. /\ IsInjective(rest[c]) /\ rest[c] \in Seq(Value)
          /\ \A v \in ToSet(rest[c]) : v[1] = c /\ v \notin SentSet /\ v \notin ToSet(publishers)
      BY <1>0, <3>1 DEF ValueInv, SentSet
    <3>3. ToSet(publishers') = ToSet(publishers) \cup ToSet(rest[c]) /\ IsInjective(publishers')
      BY <1>0, <3>1, <3>2, Union
    <3>4. SentSet' = SentSet
      BY <3>1 DEF SentSet
    <3>5. \A d \in Client : d # c => pc'[d] = pc[d]
      BY <1>0, <3>1
    <3>6. ASSUME NEW d \in Client, pc'[d] \in {"publish", "publishAll", "unsafeOffer"},
                 NEW v \in SentSet' \cup ToSet(publishers')
          PROVE  v[1] # d
      <4>1. d # c /\ pc'[d] = pc[d]
        BY <3>1, <3>5, <3>6 DEF Before
      <4>. QED BY <3>2, <3>3, <3>4, <3>6, <4>1 DEF ValueInv, SentSet
    <3>7. ASSUME NEW d \in Client, pc'[d] = "surplus"
          PROVE  /\ IsInjective(rest'[d])
                 /\ \A v \in ToSet(rest'[d]) : v[1] = d /\ v \notin SentSet' /\ v \notin ToSet(publishers')
      <4>1. d # c /\ pc'[d] = pc[d]
        BY <3>1, <3>5, <3>7
      <4>. QED BY <3>1, <3>2, <3>3, <3>4, <3>7, <4>1 DEF ValueInv, SentSet
    <3>8. SentSet' \cap ToSet(publishers') = {}
      BY <1>0, <3>2, <3>3, <3>4
    <3>9. IsInjective(Sent(log'))
      BY <1>0, <3>1
    <3>. QED BY <3>3, <3>6, <3>7, <3>8, <3>9 DEF ValueInv, SentSet
  <2>5. CASE Take(c) \/ TakeBetween(c) \/ Join(c) \/ Resume(c)
    <3>1. log' = log /\ publishers' = publishers /\ rest' = rest
      BY <2>5 DEF Take, TakeBetween, Join, Resume, values, waiting, programs
    <3>2. pc' = [pc EXCEPT ![c] = pc'[c]] /\ pc'[c] \notin Before \cup {"surplus"}
      BY <1>0, <2>5 DEF Take, TakeBetween, Join, Resume, Goto, Got, StopOrWait, Before, At
    <3>. QED BY <1>1, <1>3, <3>1, <3>2
  <2>6. CASE Interrupt(c)
    BY <1>1, <1>2, <2>6 DEF Interrupt, values, waiting
  <2>7. CASE Cancel(c)
    <3>1. /\ log' = log /\ rest' = rest /\ pc' = [pc EXCEPT ![c] = "stopped"]
          /\ publishers' = Keep(publishers, {v \in ToSet(publishers) : v[1] # c})
      BY <2>7 DEF Cancel, Goto, values, programs
    <3>2. IsInjective(publishers') /\ \A v \in ToSet(publishers') : v \in ToSet(publishers)
      BY <1>0, <3>1, KeepMembers
    <3>3. SentSet' = SentSet /\ IsInjective(Sent(log'))
      BY <1>0, <3>1 DEF SentSet
    <3>4. Calm
      BY <1>0, <1>3, <3>1 DEF Before
    <3>. QED BY <1>0, <3>2, <3>3, <3>4, ValuesKept
  <2>8. CASE ShutdownStrategy(c)
    <3>1. log' = log /\ rest' = rest /\ pc' = [pc EXCEPT ![c] = "freeing"] /\ publishers' = <<>>
      BY <2>8 DEF ShutdownStrategy, Goto, values, programs
    <3>2. IsInjective(publishers') /\ ToSet(publishers') = {}
      BY <3>1, Heads DEF IsInjective
    <3>3. SentSet' = SentSet /\ IsInjective(Sent(log'))
      BY <1>0, <3>1 DEF SentSet
    <3>4. Calm
      BY <1>0, <1>3, <3>1 DEF Before
    <3>. QED BY <3>2, <3>3, <3>4, ValuesKept
  <2>9. CASE Stop(c) \/ Shutdown(c) \/ CompleteHook(c) \/ CloseScope(c) \/ FreePublishers(c)
    <3>1. log' = log /\ publishers' = publishers /\ rest' = rest
      BY <2>9 DEF Stop, Shutdown, CompleteHook, CloseScope, FreePublishers, values, waiting, programs
    <3>2. pc' = [pc EXCEPT ![c] = pc'[c]] /\ pc'[c] \notin Before \cup {"surplus"}
      BY <1>0, <2>9 DEF Stop, Shutdown, CompleteHook, CloseScope, FreePublishers, Goto, Before
    <3>. QED BY <1>1, <1>3, <3>1, <3>2
  <2>10. CASE CloseChild(c)
    BY <1>1, <1>2, <2>10 DEF CloseChild, values, waiting, programs
  <2>. QED BY <1>7, <2>1, <2>2, <2>3, <2>4, <2>5, <2>6, <2>7, <2>8, <2>9, <2>10 DEF ClientStep
<1>8. ASSUME NEW s \in Subscription, Subscribe(s) \/ AddFinalizer(s) \/ Leave(s) \/ Closing(s) PROVE ValueInv'
  <2>1. log' = log /\ publishers' = publishers /\ pc' = pc /\ rest' = rest
    BY <1>8 DEF Subscribe, AddFinalizer, Leave, Closing, ShutSubscription, FreeTakers, Unsubscribe,
                values, waiting, programs
  <2>. QED BY <1>1, <1>2, <2>1
<1>. QED BY <1>5, <1>6, <1>7, <1>8 DEF Next

(* Nobody has published anything at first.                                    *)
LEMMA FirstValues == Init => ValueInv
<1>. SUFFICES ASSUME Init PROVE ValueInv
  OBVIOUS
<1>1. log = <<>> /\ publishers = <<>>
  BY DEF Init
<1>2. Sent(log) = <<>>
  BY <1>1 DEF Sent
<1>3. ToSet(Sent(log)) = {} /\ ToSet(publishers) = {} /\ IsInjective(Sent(log)) /\ IsInjective(publishers)
  BY <1>1, <1>2, Heads DEF IsInjective
<1>4. \A c \in Client : pc[c] # "surplus"
  <2>1. \A c \in Client : doing[c] \in Operation /\ pc[c] = doing[c].op
    BY ProgramAssumption DEF Init
  <2>. QED BY <2>1 DEF Operation
<1>. QED BY <1>3, <1>4 DEF ValueInv

-----------------------------------------------------------------------------
(* What a subscription has seen.                                             *)

(* Somebody else does something: a subscription has seen what it had.         *)
LEMMA OthersDo ==
  ASSUME PubType, LogInv, NEW s \in ring.subscribed, NEW b, NEW at, ReadsOn(s, b, at),
         ring'.index[s] = ring.index[s], seen'[s] = seen[s], log' = log, strategy' = strategy,
         Low(ring') <= Greatest(ring.index[s], Low(ring))
  PROVE  ReadsOn(s, b, at)'
<1>1. ring.index[s] \in Nat /\ Low(ring) \in Nat
  BY RingFacts DEF PubType, RingInv, RingShape
<1>2. Low(ring) <= ring.index[s] => Low(ring') <= ring.index[s]
  BY <1>1 DEF Greatest
<1>. QED BY <1>2 DEF ReadsOn, Selected

(* Values are published.                                                    *)
LEMMA SeenWhenAdded ==
  ASSUME PubType, LogInv, SeenInv, HistoryStep, Adds, SameMembers
  PROVE  SeenInv'
<1>1. PICK vs \in Seq(Value), m \in Nat : AddsThese(vs, m)
  BY DEF Adds
<1>2. PICK u \in Nat : u = ring.pub /\ Len(log) = u
  BY DEF PubType, LogInv, RingInv, RingShape
<1>3. /\ Len(log') = u + m /\ (\A k \in 1..u : log'[k] = log[k])
      /\ \A j \in 1..m : log'[u + j] = [value |-> vs[j], audience |-> ring.subscribed]
  BY <1>1, <1>2, LogGrows
<1>4. \A k \in 1..(u + m) : k \in 1..u \/ (k > u /\ log'[k].audience = ring.subscribed)
  <2>1. ASSUME NEW k \in 1..(u + m), k \notin 1..u PROVE k > u /\ log'[k].audience = ring.subscribed
    <3>1. PICK j \in 1..m : k = u + j
      <4>1. k - u \in 1..m /\ k = u + (k - u)
        BY <1>2, <2>1
      <4>. QED BY <4>1
    <3>2. log'[k] = [value |-> vs[j], audience |-> ring.subscribed]
      BY <1>3, <3>1
    <3>. QED BY <3>1, <3>2
  <2>. QED BY <2>1
<1>5. /\ ring'.subscribed = ring.subscribed /\ ring'.index = ring.index /\ seen' = seen
      /\ strategy' = strategy /\ (strategy # "sliding" => Low(ring') = Low(ring))
  BY <1>1 DEF Adds, AddsThese, Stored, HistoryStep
<1>6. \A s \in ring.subscribed : ring.index[s] \in Nat /\ ring.index[s] <= u
  BY <1>2 DEF PubType, RingInv, RingShape
<1>7. ASSUME NEW s \in Subscription, phase'[s] = "out"
      PROVE  seen'[s] = <<>> /\ \A k \in 1..Len(log') : s \notin log'[k].audience
  <2>1. phase[s] = "out" /\ s \notin ring.subscribed
    BY <1>7 DEF SameMembers, PubType
  <2>. QED BY <1>2, <1>3, <1>4, <1>5, <2>1 DEF SeenInv
<1>8. ASSUME NEW s \in ring.subscribed PROVE \E b, at : ReadsOn(s, b, at)'
  <2>1. PICK b, at : ReadsOn(s, b, at)
    BY DEF SeenInv
  <2>2. b \in 0..ring.index[s] /\ ring.index[s] \in 0..u
    BY <1>6, <2>1 DEF ReadsOn
  <2>3. \A k \in 1..Len(log') : s \in log'[k].audience <=> k > b
    <3>1. ASSUME NEW k \in 1..(u + m) PROVE s \in log'[k].audience <=> k > b
      <4>1. CASE k \in 1..u
        BY <1>2, <1>3, <2>1, <4>1 DEF ReadsOn
      <4>2. CASE k > u /\ log'[k].audience = ring.subscribed
        BY <2>2, <4>2
      <4>. QED BY <1>4, <4>1, <4>2
    <3>. QED BY <1>3, <3>1
  <2>4. Selected(seen[s], at, b, ring.index[s])'
    <3>0. PICK x \in 0..u : x = ring.index[s]
      BY <2>2
    <3>1. \A k \in 1..Len(seen[s]) : at[k] \in 1..u
      <4>1. b \in 0..x /\ at \in [1..Len(seen[s]) -> (b + 1)..x]
        BY <2>1, <3>0 DEF ReadsOn, Selected
      <4>2. \A k \in 1..Len(seen[s]) : at[k] \in (b + 1)..x
        BY <4>1
      <4>3. \A i \in (b + 1)..x : i \in 1..u
        BY <3>0, <4>1
      <4>. QED BY <4>2, <4>3
    <3>. QED BY <1>3, <1>5, <2>1, <3>1 DEF ReadsOn, Selected
  <2>5. ReadsOn(s, b, at)'
    BY <1>5, <2>1, <2>3, <2>4 DEF ReadsOn
  <2>. QED BY <2>5
<1>. QED BY <1>5, <1>7, <1>8 DEF SeenInv

(* The values y are in the history in that order, from b + 1 to e.            *)
ReadTo(y, b, e) ==
  \E a : /\ Selected(y, a, b, e)
         /\ strategy # "sliding" => Len(y) = e - b /\ \A k \in 1..Len(y) : a[k] = b + k

(* What a subscription has read, and what it reads next.                      *)
LEMMA ReadAhead ==
  ASSUME PubType, LogInv, NEW s \in ring.subscribed, NEW b, NEW at, ReadsOn(s, b, at),
         NEW n \in 0..Unread(ring, s), NEW p \in Nat, p = Position(ring, s),
         NEW t, t = NextValues(ring, s, n), NEW y, y = seen[s] \o t, NEW e, e = p + n
  PROVE  y \in Seq(Value) /\ b \in 0..e /\ ReadTo(y, b, e)
<1>2. PICK x \in Nat : x = ring.index[s]
  BY DEF PubType, RingInv, RingShape
<1>3. s \in Subscription /\ seen \in [Subscription -> Seq(Value)]
  BY DEF PubType, RingInv, RingShape, LogInv
<1>4. PICK z \in Nat : z = Len(seen[s])
  BY <1>3
<1>5. Low(ring) \in Nat /\ p = Greatest(x, Low(ring)) /\ x <= p /\ (Low(ring) <= x => p = x)
  BY <1>2, RingFacts DEF PubType, Greatest
<1>7. t \in Seq(Value) /\ Len(t) = n /\ n \in Nat /\ \A k \in 1..n : t[k] = log[p + k].value
  <2>1. t \in Seq(Value) /\ Len(t) = n /\ \A k \in 1..n : t[k] = log[Position(ring, s) + k].value
    BY NextAre
  <2>. QED BY <2>1
<1>9. y \in Seq(Value)
  BY <1>3, <1>7
<1>10. /\ Len(y) = z + n /\ \A k \in 1..z : y[k] = seen[s][k]
  <2>1. Len(y) = z + n
    <3>1. \A v, w \in Seq(Value) : Len(v \o w) = Len(v) + Len(w)
      OBVIOUS
    <3>. QED BY <1>3, <1>4, <1>7, <3>1
  <2>2. \A k \in 1..z : y[k] = seen[s][k]
    BY <1>3, <1>4, <1>7, Joined
  <2>. QED BY <2>1, <2>2
<1>11. \A j \in 1..n : y[z + j] = t[j]
  BY <1>3, <1>4, <1>7
<1>12. b \in 0..x /\ at \in [1..z -> (b + 1)..x]
  BY <1>2, <1>4 DEF ReadsOn, Selected
<1>. DEFINE a == [k \in 1..(z + n) |-> IF k \in 1..z THEN at[k] ELSE p + k - z]
<1>13. \A k \in 1..(z + n) : k \notin 1..z => k - z \in 1..n /\ p + k - z = p + (k - z) /\ z + (k - z) = k
  BY <1>7
<1>14. a \in [1..(z + n) -> (b + 1)..(p + n)]
  BY <1>5, <1>7, <1>12
<1>15. ASSUME NEW j \in 1..(z + n), NEW k \in 1..(z + n), j < k PROVE a[j] < a[k]
  <2>1. CASE j \in 1..z /\ k \in 1..z
    BY <1>4, <1>15, <2>1 DEF ReadsOn, Selected
  <2>2. CASE j \in 1..z /\ k \notin 1..z
    <3>1. at[j] \in (b + 1)..x
      BY <1>12, <2>2
    <3>. QED BY <1>5, <1>12, <2>2, <3>1
  <2>3. CASE j \notin 1..z
    BY <1>15, <2>3
  <2>. QED BY <2>1, <2>2, <2>3
<1>16. ASSUME NEW k \in 1..(z + n) PROVE y[k] = log[a[k]].value
  <2>1. CASE k \in 1..z
    BY <1>4, <1>10, <2>1 DEF ReadsOn, Selected
  <2>2. CASE k \notin 1..z
    <3>1. PICK j \in 1..n : k = z + j /\ a[k] = p + j
      BY <1>13, <2>2
    <3>. QED BY <1>7, <1>11, <3>1
  <2>. QED BY <2>1, <2>2
<1>17. Selected(y, a, b, p + n)
  BY <1>10, <1>14, <1>15, <1>16 DEF Selected
<1>18. ASSUME strategy # "sliding"
       PROVE  z + n = p + n - b /\ \A k \in 1..(z + n) : a[k] = b + k
  <2>1. z = x - b /\ p = x /\ \A k \in 1..z : at[k] = b + k
    BY <1>2, <1>4, <1>5, <1>18 DEF ReadsOn
  <2>. QED BY <1>12, <2>1
<1>19. b \in 0..(p + n)
  BY <1>5, <1>7, <1>12
<1>20. Selected(y, a, b, e)
  BY <1>17
<1>21. strategy # "sliding" => Len(y) = e - b /\ \A k \in 1..Len(y) : a[k] = b + k
  <2>. HIDE DEF a
  <2>1. strategy # "sliding" => z + n = e - b
    BY <1>7, <1>12, <1>18
  <2>. QED BY <1>10, <1>18, <2>1
<1>22. b \in 0..e
  BY <1>19
<1>23. ReadTo(y, b, e)
  <2>. HIDE DEF a
  <2>. QED BY <1>20, <1>21 DEF ReadTo
<1>. QED BY <1>9, <1>22, <1>23

(* A subscription reads on.                                                  *)
LEMMA ReadsMore ==
  ASSUME PubType, LogInv, NEW s \in ring.subscribed, NEW b, NEW at, ReadsOn(s, b, at),
         NEW n \in 0..Unread(ring, s), Reads(s, n), log' = log, strategy' = strategy
  PROVE  \E a : ReadsOn(s, b, a)'
<1>1. PICK p \in Nat : p = Position(ring, s)
  BY NextAre
<1>2. PICK t : t = NextValues(ring, s, n)
  OBVIOUS
<1>3. s \in Subscription /\ seen \in [Subscription -> Seq(Value)]
  BY DEF PubType, RingInv, RingShape, LogInv
<1>4. seen'[s] = seen[s] \o t
  BY <1>2, <1>3 DEF Reads
<1>5. PICK y, e : y = seen[s] \o t /\ e = p + n
  OBVIOUS
<1>11. b \in 0..e /\ ReadTo(y, b, e)
  BY <1>1, <1>2, <1>5, ReadAhead
<1>6. PICK a : /\ Selected(y, a, b, e)
               /\ strategy # "sliding" => Len(y) = e - b /\ \A k \in 1..Len(y) : a[k] = b + k
  BY <1>11 DEF ReadTo
<1>7. ring'.index[s] = e /\ Low(ring') <= e
  <2>1. RingInv(ring) /\ ring' = Release(ring, s, n)
    BY DEF PubType, Reads
  <2>2. ring'.index[s] = Position(ring, s) + n /\ Low(ring') <= Position(ring, s) + n
    BY <1>3, <2>1, ReleaseFacts
  <2>. QED BY <1>1, <1>5, <2>2
<1>8. Selected(seen[s], a, b, e)'
  BY <1>4, <1>5, <1>6 DEF Selected
<1>9. \A k \in 1..Len(log') : s \in log'[k].audience <=> k > b
  BY DEF ReadsOn
<1>10. ReadsOn(s, b, a)'
  BY <1>4, <1>5, <1>6, <1>7, <1>8, <1>9, <1>11 DEF ReadsOn
<1>. QED BY <1>10

(* SeenInv is kept: what a subscription reads next is the next entry of the   *)
(* history, or one that is still in its slot after others slid away.          *)
LEMMA SeenStep ==
  ASSUME PubType, LogInv, SeenInv, HistoryStep
  PROVE  SeenInv'
<1>0. /\ RingInv(ring) /\ Low(ring) \in Nat /\ ring.pub \in Nat /\ Low(ring) <= ring.pub /\ strategy' = strategy
      /\ ring.subscribed \subseteq Subscription /\ ring.index \in [Subscription -> Nat]
      /\ ring.subscribed = {s \in Subscription : phase[s] \notin {"out", "gone"}}
      /\ seen \in [Subscription -> Seq(Value)] /\ Len(log) = ring.pub
  BY RingFacts DEF PubType, RingInv, RingShape, HistoryStep, LogInv
<1>1. \A s \in ring.subscribed : Low(ring) <= Greatest(ring.index[s], Low(ring))
  BY <1>0 DEF Greatest
<1>2. ASSUME SameMembers, values' = values PROVE SeenInv'
  <2>1. ring' = ring /\ seen' = seen /\ log' = log
    BY <1>2 DEF values
  <2>2. \A s \in ring.subscribed : \E b, at : ReadsOn(s, b, at)'
    BY <1>0, <1>1, <2>1, OthersDo DEF SeenInv
  <2>3. \A s \in Subscription : phase'[s] = "out" => phase[s] = "out"
    BY <1>2 DEF SameMembers
  <2>. QED BY <2>1, <2>2, <2>3 DEF SeenInv
<1>3. ASSUME SameMembers, TakesSome PROVE SeenInv'
  <2>1. PICK s \in ring.subscribed : \E n \in 0..Unread(ring, s) : Reads(s, n) /\ log' = log
    BY <1>3 DEF TakesSome
  <2>2. PICK n \in 0..Unread(ring, s) : Reads(s, n) /\ log' = log
    BY <2>1
  <2>3. ring' = Release(ring, s, n) /\ seen' = [seen EXCEPT ![s] = @ \o NextValues(ring, s, n)]
    BY <2>2 DEF Reads
  <2>4. /\ ring'.subscribed = ring.subscribed
        /\ \A t \in Subscription : t # s => ring'.index[t] = ring.index[t]
        /\ \A t \in ring.subscribed : t # s => Low(ring') <= Greatest(ring.index[t], Low(ring))
    BY <1>0, <2>3, ReleaseFacts
  <2>5. ASSUME NEW t \in ring.subscribed PROVE \E b, at : ReadsOn(t, b, at)'
    <3>1. PICK b, at : ReadsOn(t, b, at)
      BY DEF SeenInv
    <3>2. CASE t = s
      BY <1>0, <2>2, <3>1, <3>2, ReadsMore
    <3>3. CASE t # s
      <4>1. ring'.index[t] = ring.index[t] /\ seen'[t] = seen[t]
        BY <1>0, <2>3, <2>4, <3>3
      <4>2. ReadsOn(t, b, at)'
        BY <1>0, <2>2, <2>4, <3>1, <3>3, <4>1, OthersDo
      <4>. QED BY <4>2
    <3>. QED BY <3>2, <3>3
  <2>6. ASSUME NEW t \in Subscription, phase'[t] = "out" PROVE phase[t] = "out" /\ seen'[t] = seen[t]
    <3>1. phase[t] = "out"
      BY <1>3, <2>6 DEF SameMembers
    <3>. QED BY <1>0, <2>3, <3>1
  <2>. QED BY <2>2, <2>4, <2>5, <2>6 DEF SeenInv
<1>4. ASSUME Comes PROVE SeenInv'
  <2>1. PICK s \in Subscription : /\ phase[s] = "out" /\ Enters(s, "joining")
                                  /\ ring' = Subscribed(ring, s) /\ log' = log /\ seen' = seen
    BY <1>4 DEF Comes
  <2>2. s \notin ring.subscribed
    BY <1>0, <2>1
  <2>3. /\ ring'.subscribed = ring.subscribed \cup {s} /\ Low(ring') = Low(ring)
        /\ \A t \in Subscription : ring'.index[t] = IF t = s THEN ring.pub ELSE ring.index[t]
    BY <1>0, <2>1, <2>2, SubscribedFacts
  <2>4. ASSUME NEW t \in ring.subscribed PROVE \E b, at : ReadsOn(t, b, at)'
    <3>1. PICK b, at : ReadsOn(t, b, at)
      BY DEF SeenInv
    <3>2. ring'.index[t] = ring.index[t]
      BY <1>0, <2>2, <2>3
    <3>3. ReadsOn(t, b, at)'
      BY <1>0, <1>1, <2>1, <2>3, <3>1, <3>2, OthersDo
    <3>. QED BY <3>3
  <2>5. \E b, at : ReadsOn(s, b, at)'
    <3>1. seen[s] = <<>> /\ \A k \in 1..Len(log) : s \notin log[k].audience
      BY <2>1 DEF SeenInv
    <3>2. seen'[s] = <<>> /\ Len(<<>>) = 0 /\ ring'.index[s] = ring.pub
      BY <2>1, <2>3, <3>1
    <3>3. PICK u \in Nat : u = ring.pub
      BY <1>0
    <3>4. PICK at : at = [k \in 1..0 |-> u]
      OBVIOUS
    <3>5. Selected(seen[s], at, u, u)'
      BY <3>2, <3>4 DEF Selected
    <3>6. \A k \in 1..Len(log') : s \in log'[k].audience <=> k > u
      BY <1>0, <2>1, <3>1, <3>3
    <3>7. ReadsOn(s, u, at)'
      <4>1. u \in 0..u /\ u - u = 0 /\ \A k \in 1..0 : at[k] = u + k
        OBVIOUS
      <4>. QED BY <1>0, <2>1, <2>3, <3>2, <3>3, <3>5, <3>6, <4>1 DEF ReadsOn
    <3>. QED BY <3>7
  <2>6. \A t \in Subscription : phase'[t] = "out" => phase[t] = "out"
    BY <2>1 DEF Enters
  <2>. QED BY <2>1, <2>3, <2>4, <2>5, <2>6 DEF SeenInv
<1>5. ASSUME Goes PROVE SeenInv'
  <2>1. PICK s \in ring.subscribed : /\ Enters(s, "gone") /\ ring' = Unsubscribed(ring, s)
                                     /\ log' = log /\ seen' = seen
    BY <1>5 DEF Goes
  <2>2. /\ ring'.subscribed = ring.subscribed \ {s}
        /\ \A t \in ring'.subscribed : /\ ring'.index[t] = ring.index[t]
                                       /\ Low(ring') <= Greatest(ring.index[t], Low(ring))
    BY <1>0, <2>1, UnsubscribedFacts
  <2>3. ASSUME NEW t \in ring'.subscribed PROVE \E b, at : ReadsOn(t, b, at)'
    <3>1. t \in ring.subscribed
      BY <2>2
    <3>2. PICK b, at : ReadsOn(t, b, at)
      BY <3>1 DEF SeenInv
    <3>3. ReadsOn(t, b, at)'
      BY <1>0, <2>1, <2>2, <3>1, <3>2, OthersDo
    <3>. QED BY <3>3
  <2>4. \A t \in Subscription : phase'[t] = "out" => phase[t] = "out"
    BY <2>1 DEF Enters
  <2>. QED BY <2>1, <2>3, <2>4 DEF SeenInv
<1>. QED BY <1>2, <1>3, <1>4, <1>5, SeenWhenAdded DEF HistoryStep

(* Nobody has read anything at first.                                         *)
LEMMA FirstSeen == Init => SeenInv
<1>. SUFFICES ASSUME Init PROVE SeenInv
  OBVIOUS
<1>1. log = <<>> /\ Len(<<>>) = 0 /\ seen = [s \in Subscription |-> <<>>]
  BY DEF Init
<1>2. ring.subscribed = {}
  BY FirstType
<1>. QED BY <1>1, <1>2 DEF SeenInv

(* The whole invariant is kept.                                               *)
LEMMA InvStep ==
  ASSUME PubInv, NoSlidingSlot, [Next]_vars
  PROVE  PubInv'
BY TypeStep, LoopStep, LogStep, ValueStep, SeenStep DEF PubInv

(* What was stored while a subscription was there is what came after it did.  *)
LEMMA AddressedAre ==
  ASSUME PubType, LogInv, NEW s \in ring.subscribed, NEW b, NEW at, ReadsOn(s, b, at),
         NEW u \in Nat, u = ring.pub
  PROVE  /\ Addressed(s) \in Seq(Value) /\ Len(Addressed(s)) = u - b /\ b \in 0..u
         /\ \A k \in 1..(u - b) : b + k \in 1..u /\ Addressed(s)[k] = log[b + k].value
<1>1. log \in Seq(Entry) /\ Len(log) = u
  BY DEF LogInv
<1>2. b \in 0..u
  BY DEF ReadsOn, PubType, RingInv, RingShape
<1>3. PICK early, late : early = SubSeq(log, 1, b) /\ late = SubSeq(log, b + 1, Len(log))
  OBVIOUS
<1>4. /\ early \in Seq(Entry) /\ Len(early) = b /\ (\A k \in 1..b : early[k] = log[k])
      /\ late \in Seq(Entry) /\ Len(late) = u - b /\ (\A k \in 1..(u - b) : late[k] = log[b + k])
      /\ early \o late = log
  BY <1>1, <1>2, <1>3, Cut
<1>5. PICK P : P = {e \in ToSet(log) : s \in e.audience}
  OBVIOUS
<1>6. \A k \in 1..(u - b) : b + k \in 1..u /\ b + k > b
  BY <1>2
<1>7. \A k \in 1..u : log[k] \in ToSet(log) /\ (s \in log[k].audience <=> k > b)
  BY <1>1 DEF ReadsOn, ToSet
<1>8. ToSet(early) \cap P = {}
  <2>1. ASSUME NEW k \in 1..b PROVE early[k] \notin P
    <3>1. k \in 1..u /\ ~(k > b)
      BY <1>2
    <3>. QED BY <1>4, <1>5, <1>7, <3>1
  <2>. QED BY <1>4, <2>1 DEF ToSet
<1>9. ToSet(late) \subseteq P
  <2>1. ASSUME NEW k \in 1..(u - b) PROVE late[k] \in P
    <3>1. b + k \in 1..u /\ b + k > b /\ late[k] = log[b + k]
      BY <1>4, <1>6
    <3>. QED BY <1>5, <1>7, <3>1
  <2>2. DOMAIN late = 1..(u - b)
    BY <1>4
  <2>. QED BY <2>1, <2>2 DEF ToSet
<1>10. Keep(log, P) = late
  <2>0. early \in Seq(Entry) /\ late \in Seq(Entry)
    BY <1>4
  <2>1. Keep(early \o late, P) = Keep(early, P) \o Keep(late, P)
    BY <2>0, KeepSplits
  <2>2. Keep(early, P) = <<>> /\ Keep(late, P) = late
    BY <1>4, <1>8, <1>9, KeepAllOrNone
  <2>. QED BY <1>4, <2>1, <2>2, Concats
<1>11. Addressed(s) = [k \in DOMAIN late |-> late[k].value]
  BY <1>5, <1>10 DEF Addressed
<1>12. DOMAIN late = 1..(u - b) /\ u - b \in Nat
  BY <1>2, <1>4
<1>13. \A k \in 1..(u - b) : late[k].value \in Value
  <2>1. \A k \in 1..(u - b) : late[k] \in Entry
    BY <1>4, <1>12
  <2>. QED BY <2>1 DEF Entry
<1>14. Addressed(s) \in [1..(u - b) -> Value]
  BY <1>11, <1>12, <1>13
<1>15. Addressed(s) \in Seq(Value) /\ Len(Addressed(s)) = u - b
  BY <1>12, <1>14
<1>. QED BY <1>2, <1>4, <1>6, <1>11, <1>12, <1>15

(* What a subscription has read, and what the ring holds for it.              *)
LEMMA SeesAll ==
  ASSUME PubInv, NEW s \in ring.subscribed, NEW read, read = seen[s] \o Pending(s)
  PROVE  /\ IsInjective(read)
         /\ read = Keep(Addressed(s), ToSet(read))
         /\ strategy # "sliding" => read = Addressed(s)
<1>0. PubType /\ LogInv /\ ValueInv /\ SeenInv
  BY DEF PubInv
<1>1. PICK b, at : ReadsOn(s, b, at)
  BY <1>0 DEF SeenInv
<1>2. PICK u \in Nat : u = ring.pub /\ Len(log) = u /\ log \in Seq(Entry)
  BY <1>0 DEF LogInv, PubType, RingInv, RingShape
<1>3. PICK n : n = Unread(ring, s)
  OBVIOUS
<1>4. PICK p : p = Position(ring, s)
  OBVIOUS
<1>5. /\ p \in Low(ring)..u /\ Low(ring) \in Nat /\ n = u - p
  BY <1>0, <1>2, <1>3, <1>4, RingFacts DEF PubType
<1>6. PICK t : t = NextValues(ring, s, n)
  OBVIOUS
<1>7. read = seen[s] \o t
  BY <1>3, <1>6 DEF Pending
<1>8. read \in Seq(Value) /\ b \in 0..u /\ ReadTo(read, b, u)
  <2>1. p \in Nat /\ n \in 0..Unread(ring, s) /\ u = p + n
    BY <1>3, <1>5
  <2>. QED BY <1>0, <1>1, <1>4, <1>6, <1>7, <2>1, ReadAhead
<1>9. PICK a : /\ Selected(read, a, b, u)
               /\ strategy # "sliding" => Len(read) = u - b /\ \A k \in 1..Len(read) : a[k] = b + k
  BY <1>8 DEF ReadTo
<1>10. PICK z \in Nat : z = Len(read)
  BY <1>8
<1>11. /\ a \in [1..z -> (b + 1)..u] /\ (\A j, k \in 1..z : j < k => a[j] < a[k])
       /\ \A k \in 1..z : read[k] = log[a[k]].value
  BY <1>9, <1>10 DEF Selected
<1>12. /\ Addressed(s) \in Seq(Value) /\ Len(Addressed(s)) = u - b
       /\ \A k \in 1..(u - b) : b + k \in 1..u /\ Addressed(s)[k] = log[b + k].value
  BY <1>0, <1>1, <1>2, AddressedAre
<1>13. \A i, j \in 1..u : log[i].value = log[j].value => i = j
  BY <1>0, <1>2 DEF ValueInv, Sent, IsInjective
<1>14. \A k \in 1..z : a[k] \in (b + 1)..u /\ a[k] \in 1..u /\ a[k] - b \in 1..(u - b) /\ b + (a[k] - b) = a[k]
  <2>1. \A i \in (b + 1)..u : i \in 1..u /\ i - b \in 1..(u - b) /\ b + (i - b) = i
    BY <1>8
  <2>. QED BY <1>11, <2>1
<1>15. ASSUME NEW j \in 1..z, NEW k \in 1..z, read[j] = read[k] PROVE j = k
  <2>1. a[j] = a[k]
    <3>1. log[a[j]].value = log[a[k]].value
      BY <1>11, <1>15
    <3>2. a[j] \in 1..u /\ a[k] \in 1..u
      BY <1>14
    <3>. QED BY <1>13, <3>1, <3>2
  <2>2. ~(j < k) /\ ~(k < j)
    BY <1>11, <1>14, <2>1
  <2>. QED BY <2>2
<1>16. IsInjective(read)
  <2>1. DOMAIN read = 1..z
    BY <1>8, <1>10
  <2>. QED BY <1>15, <2>1 DEF IsInjective
<1>17. IsInjective(Addressed(s))
  <2>1. ASSUME NEW j \in 1..(u - b), NEW k \in 1..(u - b), Addressed(s)[j] = Addressed(s)[k] PROVE j = k
    <3>1. b + j = b + k
      BY <1>12, <1>13, <2>1
    <3>. QED BY <1>8, <3>1
  <2>2. DOMAIN Addressed(s) = 1..(u - b)
    BY <1>8, <1>12
  <2>. QED BY <2>1, <2>2 DEF IsInjective
<1>18. PICK c : c = [k \in 1..z |-> a[k] - b]
  OBVIOUS
<1>19. c \in [1..Len(read) -> 1..Len(Addressed(s))]
  BY <1>10, <1>12, <1>14, <1>18
<1>20. \A j, k \in 1..Len(read) : j < k => c[j] < c[k]
  BY <1>8, <1>10, <1>11, <1>14, <1>18
<1>21. \A k \in 1..Len(read) : read[k] = Addressed(s)[c[k]]
  <2>1. ASSUME NEW k \in 1..z PROVE read[k] = Addressed(s)[c[k]]
    <3>1. PICK i \in 1..(u - b) : i = a[k] - b /\ b + i = a[k]
      BY <1>14
    <3>2. c[k] = i /\ Addressed(s)[i] = log[b + i].value
      BY <1>12, <1>18, <3>1
    <3>. QED BY <1>11, <3>1, <3>2
  <2>. QED BY <1>10, <2>1
<1>22. Keep(Addressed(s), ToSet(read)) = read
  BY <1>8, <1>12, <1>17, <1>19, <1>20, <1>21, KeepSelects
<1>23. ASSUME strategy # "sliding" PROVE read = Addressed(s)
  <2>1. Len(read) = Len(Addressed(s)) /\ \A k \in 1..Len(read) : read[k] = Addressed(s)[k]
    BY <1>9, <1>10, <1>11, <1>12, <1>23
  <2>2. read \in Seq(Value) /\ Addressed(s) \in Seq(Value)
    BY <1>8, <1>12
  <2>. QED BY <2>1, <2>2, SeqEqual
<1>. QED BY <1>16, <1>22, <1>23

(* Every subscriber sees all: whatever publishers, takers, interruptions,     *)
(* departures and shutdowns do, what a subscription has read and what the     *)
(* slots still hold for it is, in order and each once, what was stored while  *)
(* it was subscribed; only a sliding PubSub may leave something out.         *)
THEOREM SubscribersSeeAll == ASSUME NoSlidingSlot PROVE Spec => []EverySubscriberSeesAll
<1>1. Init => PubInv
  BY FirstType, FirstLog, FirstValues, FirstSeen DEF PubInv
<1>2. PubInv /\ [Next]_vars => PubInv'
  BY InvStep
<1>3. PubInv => EverySubscriberSeesAll
  BY SeesAll DEF EverySubscriberSeesAll
<1>. QED BY <1>1, <1>2, <1>3, PTL DEF Spec
=============================================================================
