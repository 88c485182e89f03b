--------------------------- MODULE SequenceLemmas ---------------------------
(***************************************************************************)
(* Facts about sequences that the proofs about queues rest on: RemoveAt,    *)
(* Append and Tail; the two parts SubSeq cuts a sequence into; Keep and      *)
(* FlattenSeq, which are recursive.  What they compute is proved by           *)
(* induction on a set of natural numbers (CountUp), which follows from their *)
(* well-foundedness.                                                        *)
(***************************************************************************)
EXTENDS Naturals, Sequences, SequencesExt, Filter, SequenceTheorems, WellFoundedInduction, TLAPS

(* Where the elements of two sequences are in their concatenation.          *)
LEMMA Joined ==
  ASSUME NEW S, NEW a \in Seq(S), NEW b \in Seq(S)
  PROVE  /\ a \o b \in Seq(S)
         /\ \A k \in 1..Len(a) : k \in DOMAIN (a \o b) /\ (a \o b)[k] = a[k]
         /\ \A k \in 1..Len(b) : Len(a) + k \in DOMAIN (a \o b) /\ (a \o b)[Len(a) + k] = b[k]
<1>1. a \o b \in Seq(S) /\ Len(a \o b) = Len(a) + Len(b)
  BY ConcatProperties
<1>2. ASSUME NEW k \in 1..Len(a) PROVE k \in DOMAIN (a \o b) /\ (a \o b)[k] = a[k]
  BY <1>1, ConcatProperties
<1>3. ASSUME NEW k \in 1..Len(b)
      PROVE  Len(a) + k \in DOMAIN (a \o b) /\ (a \o b)[Len(a) + k] = b[k]
  <2>1. Len(a) + k \in 1..Len(a) + Len(b) /\ ~(Len(a) + k <= Len(a)) /\ (Len(a) + k) - Len(a) = k
    OBVIOUS
  <2>. QED BY <1>1, <2>1, ConcatProperties
<1>. QED BY <1>1, <1>2, <1>3

(* Taking one element out of a sequence: its type, its length, the others.   *)
LEMMA Without ==
  ASSUME NEW S, NEW s \in Seq(S), NEW i \in 1..Len(s), NEW rest, rest = RemoveAt(s, i)
  PROVE  /\ rest \in Seq(S)
         /\ Len(rest) = Len(s) - 1
         /\ \A j \in 1..Len(s) : j # i => \E k \in DOMAIN rest : rest[k] = s[j]
<1>1. PICK a \in Seq(S) : /\ a = SubSeq(s, 1, i - 1)
                          /\ Len(a) = i - 1
                          /\ \A k \in 1..(i - 1) : a[k] = s[k]
  <2>1. \A k \in 1..(i - 1) : s[k] \in S
    OBVIOUS
  <2>2. /\ SubSeq(s, 1, i - 1) \in Seq(S)
        /\ Len(SubSeq(s, 1, i - 1)) = IF 1 <= i - 1 THEN (i - 1) - 1 + 1 ELSE 0
        /\ \A k \in 1..((i - 1) - 1 + 1) : SubSeq(s, 1, i - 1)[k] = s[1 + k - 1]
    BY <2>1, SubSeqProperties
  <2>3. /\ Len(SubSeq(s, 1, i - 1)) = i - 1
        /\ \A k \in 1..(i - 1) : SubSeq(s, 1, i - 1)[k] = s[k]
    BY <2>2
  <2>. QED BY <2>2, <2>3, Zenon
<1>2. PICK b \in Seq(S) : /\ b = SubSeq(s, i + 1, Len(s))
                          /\ Len(b) = Len(s) - i
                          /\ \A k \in 1..(Len(s) - i) : b[k] = s[i + k]
  <2>1. \A k \in (i + 1)..Len(s) : s[k] \in S
    OBVIOUS
  <2>2. /\ SubSeq(s, i + 1, Len(s)) \in Seq(S)
        /\ Len(SubSeq(s, i + 1, Len(s))) =
             IF i + 1 <= Len(s) THEN Len(s) - (i + 1) + 1 ELSE 0
        /\ \A k \in 1..(Len(s) - (i + 1) + 1) :
             SubSeq(s, i + 1, Len(s))[k] = s[(i + 1) + k - 1]
    BY <2>1, SubSeqProperties
  <2>3. /\ Len(SubSeq(s, i + 1, Len(s))) = Len(s) - i
        /\ \A k \in 1..(Len(s) - i) : SubSeq(s, i + 1, Len(s))[k] = s[i + k]
    BY <2>2
  <2>. QED BY <2>2, <2>3, Zenon
<1>3. /\ rest \in Seq(S)
      /\ \A k \in 1..Len(a) : k \in DOMAIN rest /\ rest[k] = a[k]
      /\ \A k \in 1..Len(b) : Len(a) + k \in DOMAIN rest /\ rest[Len(a) + k] = b[k]
  <2>1. rest = a \o b
    BY <1>1, <1>2 DEF RemoveAt
  <2>2. /\ a \o b \in Seq(S)
        /\ \A k \in 1..Len(a) : k \in DOMAIN (a \o b) /\ (a \o b)[k] = a[k]
        /\ \A k \in 1..Len(b) :
             Len(a) + k \in DOMAIN (a \o b) /\ (a \o b)[Len(a) + k] = b[k]
    BY Joined
  <2>. QED BY <2>1, <2>2, Zenon
<1>4. ASSUME NEW j \in 1..Len(s), j < i PROVE \E k \in DOMAIN rest : rest[k] = s[j]
  <2>1. j \in 1..Len(a) /\ a[j] = s[j]
    BY <1>1, <1>4
  <2>. QED BY <1>3, <2>1
<1>5. ASSUME NEW j \in 1..Len(s), j > i PROVE \E k \in DOMAIN rest : rest[k] = s[j]
  <2>1. j - i \in 1..(Len(s) - i) /\ i + (j - i) = j
    BY <1>5
  <2>2. j - i \in 1..Len(b) /\ b[j - i] = s[j]
    BY <1>2, <2>1
  <2>. QED BY <1>3, <2>2
<1>6. ASSUME NEW j \in 1..Len(s), j # i PROVE j < i \/ j > i
  BY <1>6
<1>7. Len(rest) = Len(s) - 1
  <2>1. rest = a \o b
    BY <1>1, <1>2 DEF RemoveAt
  <2>2. Len(a \o b) = Len(a) + Len(b)
    BY ConcatProperties
  <2>3. (i - 1) + (Len(s) - i) = Len(s) - 1
    OBVIOUS
  <2>. QED BY <1>1, <1>2, <2>1, <2>2, <2>3
<1>. QED BY <1>3, <1>4, <1>5, <1>6, <1>7

(* Removing one place keeps the elements of the others.                      *)
LEMMA KeepsOthers ==
  ASSUME NEW S, NEW s \in Seq(S), NEW i \in 1..Len(s), NEW j \in 1..Len(s), j # i
  PROVE  \E k \in DOMAIN RemoveAt(s, i) : RemoveAt(s, i)[k] = s[j]
BY Without

(* Removing one place gives a sequence one shorter.                          *)
LEMMA RemoveOne ==
  ASSUME NEW S, NEW s \in Seq(S), NEW i \in 1..Len(s)
  PROVE  RemoveAt(s, i) \in Seq(S) /\ Len(RemoveAt(s, i)) = Len(s) - 1
BY Without

(* The same facts about the set of the elements.                            *)
LEMMA RemoveKeeps ==
  ASSUME NEW S, NEW s \in Seq(S), NEW i \in 1..Len(s), NEW e \in ToSet(s), e # s[i]
  PROVE  e \in ToSet(RemoveAt(s, i))
<1>1. PICK j \in 1..Len(s) : e = s[j]
  BY DEF ToSet
<1>. QED BY <1>1, KeepsOthers DEF ToSet

(* The tail keeps every element but the head.                                *)
LEMMA TailKeeps ==
  ASSUME NEW S, NEW s \in Seq(S), s # <<>>, NEW e \in ToSet(s), e # Head(s)
  PROVE  e \in ToSet(Tail(s))
<1>1. PICK j \in 1..Len(s) : e = s[j] /\ j # 1
  BY DEF ToSet
<1>2. Tail(s) \in Seq(S) /\ Len(Tail(s)) = Len(s) - 1 /\ Tail(s)[j - 1] = s[j]
  BY <1>1
<1>3. j - 1 \in DOMAIN Tail(s)
  BY <1>1, <1>2
<1>. QED BY <1>1, <1>2, <1>3 DEF ToSet

(* Appending keeps every element and adds the new one.                       *)
LEMMA AppendKeeps ==
  ASSUME NEW S, NEW s \in Seq(S), NEW e \in S
  PROVE  /\ e \in ToSet(Append(s, e))
         /\ \A d \in ToSet(s) : d \in ToSet(Append(s, e))
<1>1. /\ Append(s, e) \in Seq(S) /\ Len(Append(s, e)) = Len(s) + 1
      /\ Append(s, e)[Len(s) + 1] = e
      /\ \A i \in 1..Len(s) : Append(s, e)[i] = s[i]
  OBVIOUS
<1>2. Len(s) + 1 \in DOMAIN Append(s, e)
  BY <1>1
<1>3. \A i \in 1..Len(s) : i \in DOMAIN Append(s, e)
  BY <1>1
<1>. QED BY <1>1, <1>2, <1>3 DEF ToSet

(* Where the elements of a sequence go when one is taken out.               *)
LEMMA Shifted ==
  ASSUME NEW S, NEW s \in Seq(S), NEW i \in 1..Len(s)
  PROVE  \A k \in 1..(Len(s) - 1) : RemoveAt(s, i)[k] = IF k < i THEN s[k] ELSE s[k + 1]
<1>1. PICK a \in Seq(S) : /\ a = SubSeq(s, 1, i - 1)
                          /\ Len(a) = i - 1
                          /\ \A k \in 1..(i - 1) : a[k] = s[k]
  <2>1. \A k \in 1..(i - 1) : s[k] \in S
    OBVIOUS
  <2>2. /\ SubSeq(s, 1, i - 1) \in Seq(S)
        /\ Len(SubSeq(s, 1, i - 1)) = IF 1 <= i - 1 THEN (i - 1) - 1 + 1 ELSE 0
        /\ \A k \in 1..((i - 1) - 1 + 1) : SubSeq(s, 1, i - 1)[k] = s[1 + k - 1]
    BY <2>1, SubSeqProperties
  <2>3. /\ Len(SubSeq(s, 1, i - 1)) = i - 1
        /\ \A k \in 1..(i - 1) : SubSeq(s, 1, i - 1)[k] = s[k]
    BY <2>2
  <2>. QED BY <2>2, <2>3, Zenon
<1>2. PICK b \in Seq(S) : /\ b = SubSeq(s, i + 1, Len(s))
                          /\ Len(b) = Len(s) - i
                          /\ \A k \in 1..(Len(s) - i) : b[k] = s[i + k]
  <2>1. \A k \in (i + 1)..Len(s) : s[k] \in S
    OBVIOUS
  <2>2. /\ SubSeq(s, i + 1, Len(s)) \in Seq(S)
        /\ Len(SubSeq(s, i + 1, Len(s))) =
             IF i + 1 <= Len(s) THEN Len(s) - (i + 1) + 1 ELSE 0
        /\ \A k \in 1..(Len(s) - (i + 1) + 1) :
             SubSeq(s, i + 1, Len(s))[k] = s[(i + 1) + k - 1]
    BY <2>1, SubSeqProperties
  <2>3. /\ Len(SubSeq(s, i + 1, Len(s))) = Len(s) - i
        /\ \A k \in 1..(Len(s) - i) : SubSeq(s, i + 1, Len(s))[k] = s[i + k]
    BY <2>2
  <2>. QED BY <2>2, <2>3, Zenon
<1>3. RemoveAt(s, i) = a \o b
  BY <1>1, <1>2 DEF RemoveAt
<1>4. /\ \A k \in 1..Len(a) : (a \o b)[k] = a[k]
      /\ \A k \in 1..Len(b) : (a \o b)[Len(a) + k] = b[k]
  BY Joined
<1>5. ASSUME NEW k \in 1..(Len(s) - 1)
      PROVE  RemoveAt(s, i)[k] = IF k < i THEN s[k] ELSE s[k + 1]
  <2>1. CASE k < i
    <3>1. k \in 1..Len(a) /\ k \in 1..(i - 1)
      BY <1>1, <2>1
    <3>. QED BY <1>1, <1>3, <1>4, <2>1, <3>1
  <2>2. CASE ~(k < i)
    <3>. DEFINE m == k - (i - 1)
    <3>1. m \in 1..Len(b) /\ Len(a) + m = k /\ m \in 1..(Len(s) - i) /\ i + m = k + 1
      BY <1>1, <1>2, <2>2
    <3>2. (a \o b)[Len(a) + m] = b[m] /\ b[m] = s[i + m]
      BY <1>2, <1>4, <3>1
    <3>. QED BY <1>3, <2>2, <3>1, <3>2
  <2>. QED BY <2>1, <2>2
<1>. QED BY <1>5

(* A sequence without repetitions, without one of its elements.             *)
LEMMA RemoveExactly ==
  ASSUME NEW S, NEW s \in Seq(S), NEW i \in 1..Len(s), IsInjective(s)
  PROVE  /\ IsInjective(RemoveAt(s, i))
         /\ ToSet(RemoveAt(s, i)) = ToSet(s) \ {s[i]}
<1>. DEFINE t == RemoveAt(s, i)
            at(k) == IF k < i THEN k ELSE k + 1
<1>1. t \in Seq(S) /\ Len(t) = Len(s) - 1
  BY RemoveOne
<1>2. \A k \in 1..Len(t) : at(k) \in 1..Len(s) /\ at(k) # i /\ t[k] = s[at(k)]
  BY <1>1, Shifted
<1>3. DOMAIN t = 1..Len(t) /\ DOMAIN s = 1..Len(s) /\ Len(t) \in Nat /\ Len(s) \in Nat
  BY <1>1
<1>. HIDE DEF t
<1>4. \A k, m \in 1..Len(t) : at(k) = at(m) => k = m
  BY <1>3
<1>5. \A k, m \in 1..Len(s) : s[k] = s[m] => k = m
  BY <1>3 DEF IsInjective
<1>. HIDE DEF at
<1>6. IsInjective(t)
  BY <1>2, <1>3, <1>4, <1>5 DEF IsInjective
<1>7. ASSUME NEW e \in ToSet(t) PROVE e \in ToSet(s) \ {s[i]}
  <2>1. PICK k \in 1..Len(t) : e = t[k]
    BY <1>3, <1>7 DEF ToSet
  <2>2. e = s[at(k)] /\ at(k) \in 1..Len(s) /\ at(k) # i
    BY <1>2, <2>1
  <2>3. e # s[i]
    BY <1>5, <2>2
  <2>. QED BY <1>3, <2>2, <2>3 DEF ToSet
<1>8. ASSUME NEW e \in ToSet(s) \ {s[i]} PROVE e \in ToSet(t)
  BY <1>8, RemoveKeeps DEF t
<1>. QED BY <1>6, <1>7, <1>8 DEF t

(* The same of a tail and of a longer sequence.                             *)
LEMMA TailExactly ==
  ASSUME NEW S, NEW s \in Seq(S), s # <<>>, IsInjective(s)
  PROVE  IsInjective(Tail(s)) /\ ToSet(Tail(s)) = ToSet(s) \ {Head(s)}
<1>. DEFINE t == Tail(s)
<1>1. /\ t \in Seq(S) /\ Len(t) = Len(s) - 1 /\ \A k \in 1..Len(t) : t[k] = s[k + 1]
      /\ Head(s) = s[1] /\ Len(s) >= 1 /\ Len(s) \in Nat
  OBVIOUS
<1>2. DOMAIN t = 1..Len(t) /\ DOMAIN s = 1..Len(s) /\ Len(t) \in Nat
  BY <1>1
<1>. HIDE DEF t
<1>3. \A k, m \in 1..Len(s) : s[k] = s[m] => k = m
  BY <1>2 DEF IsInjective
<1>4. \A k \in 1..Len(t) : k + 1 \in 1..Len(s) /\ k + 1 # 1
  BY <1>1, <1>2
<1>5. IsInjective(t)
  <2>1. SUFFICES ASSUME NEW k \in 1..Len(t), NEW m \in 1..Len(t), t[k] = t[m] PROVE k = m
    BY <1>2 DEF IsInjective
  <2>2. k + 1 = m + 1
    BY <1>1, <1>3, <1>4, <2>1
  <2>. QED BY <2>2
<1>6. ASSUME NEW e \in ToSet(t) PROVE e \in ToSet(s) \ {Head(s)}
  <2>1. PICK k \in 1..Len(t) : e = t[k]
    BY <1>2, <1>6 DEF ToSet
  <2>2. e = s[k + 1] /\ k + 1 \in 1..Len(s) /\ k + 1 # 1
    BY <1>1, <1>4, <2>1
  <2>3. e # s[1]
    BY <1>1, <1>3, <2>2
  <2>. QED BY <1>1, <1>2, <2>2, <2>3 DEF ToSet
<1>7. ASSUME NEW e \in ToSet(s) \ {Head(s)} PROVE e \in ToSet(t)
  BY <1>7, TailKeeps DEF t
<1>. QED BY <1>5, <1>6, <1>7 DEF t

(* Appending a new element to an injective sequence keeps it injective.      *)
LEMMA AppendExactly ==
  ASSUME NEW S, NEW s \in Seq(S), NEW e \in S, e \notin ToSet(s), IsInjective(s)
  PROVE  IsInjective(Append(s, e)) /\ ToSet(Append(s, e)) = ToSet(s) \cup {e}
<1>. DEFINE t == Append(s, e)
<1>1. /\ t \in Seq(S) /\ Len(t) = Len(s) + 1 /\ t[Len(s) + 1] = e
      /\ \A i \in 1..Len(s) : t[i] = s[i]
  OBVIOUS
<1>2. DOMAIN t = 1..Len(s) + 1 /\ DOMAIN s = 1..Len(s) /\ Len(s) \in Nat
  BY <1>1
<1>. HIDE DEF t
<1>3. \A i \in DOMAIN t : i \in DOMAIN s \/ i = Len(s) + 1
  BY <1>2
<1>4. \A i \in DOMAIN s : s[i] # e /\ i \in DOMAIN t
  BY <1>2 DEF ToSet
<1>5. IsInjective(t)
  BY <1>1, <1>2, <1>3, <1>4 DEF IsInjective
<1>6. ToSet(t) = ToSet(s) \cup {e}
  BY <1>1, <1>2, <1>3, <1>4 DEF ToSet
<1>. QED BY <1>5, <1>6 DEF t

-----------------------------------------------------------------------------
(* A set of natural numbers has a least element.                            *)
LEMMA LeastNumber ==
  ASSUME NEW T \in SUBSET Nat, T # {}
  PROVE  \E x \in T : \A y \in T : x <= y
<1>. DEFINE R == OpToRel(<, Nat)
<1>1. IsWellFoundedOn(R, Nat)
  BY NatLessThanWellFounded, Zenon
<1>2. \A x, y \in Nat : x < y => <<x, y>> \in R
  BY Zenon DEF OpToRel
<1>. HIDE DEF R
<1>3. T \subseteq Nat
  OBVIOUS
<1>4. \E x \in T : \A y \in T : ~(<<y, x>> \in R)
  BY <1>1, <1>3, WFMin
<1>5. PICK x \in T : \A y \in T : ~(<<y, x>> \in R)
  BY <1>4
<1>6. ASSUME NEW y \in T PROVE x <= y
  <2>1. x \in Nat /\ y \in Nat
    BY <1>3
  <2>2. ~(y < x)
    BY <1>2, <1>5, <2>1, Zenon
  <2>. QED BY <2>1, <2>2
<1>. QED BY <1>6

(* Induction: a set of natural numbers with 0 and with every successor is   *)
(* all of them.                                                             *)
LEMMA CountUp ==
  ASSUME NEW T, 0 \in T, \A n \in Nat : n \in T => n + 1 \in T
  PROVE  \A n \in Nat : n \in T
<1>. DEFINE U == Nat \ T
<1>1. SUFFICES ASSUME U # {} PROVE FALSE
  OBVIOUS
<1>2. PICK x \in U : \A y \in U : x <= y
  BY <1>1, LeastNumber
<1>3. x # 0 /\ x - 1 \in Nat /\ ~(x <= x - 1) /\ (x - 1) + 1 = x
  BY <1>2
<1>4. x - 1 \in T
  BY <1>2, <1>3
<1>. QED BY <1>2, <1>3, <1>4

(* The recursive definition of Keep defines a function.                     *)
Recurses(s, P, n, h) ==
  h = [i \in 0..n |-> IF i = 0 THEN <<>>
                      ELSE IF s[i] \in P THEN Append(h[i - 1], s[i]) ELSE h[i - 1]]

(* Such a function exists for every length.                                  *)
LEMMA RecursesExists ==
  ASSUME NEW s, NEW P
  PROVE  \A n \in Nat : \E h : Recurses(s, P, n, h)
<1>. DEFINE T == {n \in Nat : \E h : Recurses(s, P, n, h)}
<1>1. 0 \in T
  <2>. DEFINE h == [i \in 0..0 |-> <<>>]
  <2>1. Recurses(s, P, 0, h)
    BY DEF Recurses
  <2>. QED BY <2>1
<1>2. ASSUME NEW n \in Nat, n \in T PROVE n + 1 \in T
  <2>1. PICK g : Recurses(s, P, n, g)
    BY <1>2
  <2>. DEFINE h == [i \in 0..(n + 1) |->
                      IF i \in 0..n THEN g[i]
                      ELSE IF s[n + 1] \in P THEN Append(g[n], s[n + 1]) ELSE g[n]]
              k == [i \in 0..(n + 1) |-> IF i = 0 THEN <<>>
                      ELSE IF s[i] \in P THEN Append(h[i - 1], s[i]) ELSE h[i - 1]]
  <2>2. ASSUME NEW i \in 0..(n + 1) PROVE h[i] = k[i]
    <3>1. CASE i = n + 1
      <4>1. i \notin 0..n /\ n \in 0..n /\ n \in 0..(n + 1) /\ i - 1 = n /\ i # 0
        BY <3>1
      <4>. QED BY <3>1, <4>1
    <3>2. CASE i = 0
      <4>1. g[0] = <<>> /\ 0 \in 0..n /\ 0 \in 0..(n + 1)
        BY <2>1 DEF Recurses
      <4>. QED BY <3>2, <4>1
    <3>3. CASE i \in 1..n
      <4>1. i \in 0..n /\ i - 1 \in 0..n /\ i - 1 \in 0..(n + 1) /\ i # 0
        BY <3>3
      <4>2. g[i] = IF s[i] \in P THEN Append(g[i - 1], s[i]) ELSE g[i - 1]
        BY <2>1, <4>1 DEF Recurses
      <4>. QED BY <4>1, <4>2
    <3>. QED BY <3>1, <3>2, <3>3
  <2>3. h = k
    <3>. HIDE DEF h
    <3>1. h = [i \in 0..(n + 1) |-> h[i]]
      BY DEF h
    <3>2. k = [i \in 0..(n + 1) |-> k[i]]
      OBVIOUS
    <3>. HIDE DEF k
    <3>. QED BY <2>2, <3>1, <3>2
  <2>4. Recurses(s, P, n + 1, h)
    BY <2>3, Zenon DEF Recurses
  <2>. QED BY <2>4
<1>. HIDE DEF T
<1>3. \A n \in Nat : n \in T
  BY <1>1, <1>2, CountUp
<1>. QED BY <1>3 DEF T

(* Keep is what it ends with.                                                *)
LEMMA KeepRecurses ==
  ASSUME NEW S, NEW s \in Seq(S), NEW P
  PROVE  \E h : Recurses(s, P, Len(s), h) /\ Keep(s, P) = h[Len(s)]
<1>. DEFINE kept[n \in 0..Len(s)] ==
       IF n = 0 THEN <<>> ELSE IF s[n] \in P THEN Append(kept[n - 1], s[n]) ELSE kept[n - 1]
<1>1. Keep(s, P) = kept[Len(s)]
  BY Zenon DEF Keep
<1>2. Len(s) \in Nat
  OBVIOUS
<1>3. \E h : Recurses(s, P, Len(s), h)
  BY <1>2, RecursesExists
<1>4. Recurses(s, P, Len(s), kept)
  BY <1>3, Zenon DEF Recurses
<1>. QED BY <1>1, <1>4, Zenon

(* Where the elements that Keep keeps were, in the same order: at[k] is the  *)
(* place of the k-th of them, and every place that holds a member of P is   *)
(* one of these.                                                            *)
Places(s, P, n, t, at) ==
  /\ at \in [1..Len(t) -> 1..n]
  /\ \A k \in 1..Len(t) : t[k] = s[at[k]] /\ t[k] \in P
  /\ \A i, j \in 1..Len(t) : i < j => at[i] < at[j]
  /\ \A i \in 1..n : s[i] \in P => \E k \in 1..Len(t) : at[k] = i

(* One more element of s keeps the places of those before it.               *)
LEMMA PlacesStep ==
  ASSUME NEW S, NEW s \in Seq(S), NEW P, NEW n \in Nat, n + 1 <= Len(s),
         NEW t \in Seq(S), NEW at, Places(s, P, n, t, at),
         NEW u, u = IF s[n + 1] \in P THEN Append(t, s[n + 1]) ELSE t
  PROVE  u \in Seq(S) /\ \E a : Places(s, P, n + 1, u, a)
<1>0. Len(t) \in Nat /\ n + 1 \in 1..Len(s) /\ s[n + 1] \in S /\ Len(s) \in Nat
  OBVIOUS
<1>1. CASE s[n + 1] \in P
  <2>1. /\ u = Append(t, s[n + 1]) /\ u \in Seq(S) /\ Len(u) = Len(t) + 1
        /\ u[Len(t) + 1] = s[n + 1] /\ \A k \in 1..Len(t) : u[k] = t[k]
    BY <1>0, <1>1
  <2>. DEFINE a == [k \in 1..Len(u) |-> IF k \in 1..Len(t) THEN at[k] ELSE n + 1]
  <2>2. \A k \in 1..Len(t) : at[k] \in 1..n /\ k \in 1..Len(u) /\ a[k] = at[k]
    <3>1. ASSUME NEW k \in 1..Len(t) PROVE at[k] \in 1..n
      BY DEF Places
    <3>2. ASSUME NEW k \in 1..Len(t) PROVE k \in 1..Len(u)
      BY <1>0, <2>1
    <3>. QED BY <3>1, <3>2
  <2>3. Len(u) \in 1..Len(u) /\ a[Len(u)] = n + 1 /\ Len(u) \notin 1..Len(t)
    BY <1>0, <2>1
  <2>4. \A k \in 1..Len(u) : k \in 1..Len(t) \/ k = Len(u)
    BY <1>0, <2>1
  <2>5. a \in [1..Len(u) -> 1..(n + 1)]
    <3>1. ASSUME NEW k \in 1..Len(u) PROVE a[k] \in 1..(n + 1)
      <4>1. CASE k \in 1..Len(t)
        <5>1. a[k] = at[k] /\ at[k] \in 1..n
          BY <2>2, <4>1
        <5>. HIDE DEF a
        <5>. QED BY <5>1
      <4>2. CASE k = Len(u)
        BY <2>3, <4>2
      <4>. QED BY <2>4, <4>1, <4>2
    <3>. QED BY <3>1
  <2>. HIDE DEF a
  <2>6. \A k \in 1..Len(u) : u[k] = s[a[k]] /\ u[k] \in P
    BY <1>1, <2>1, <2>2, <2>3, <2>4 DEF Places
  <2>7. ASSUME NEW i \in 1..Len(u), NEW j \in 1..Len(u), i < j PROVE a[i] < a[j]
    <3>1. i \in 1..Len(t)
      BY <1>0, <2>1, <2>7
    <3>2. CASE j \in 1..Len(t)
      BY <2>2, <2>7, <3>1, <3>2 DEF Places
    <3>3. CASE j = Len(u)
      BY <2>2, <2>3, <3>1, <3>3
    <3>. QED BY <2>4, <3>2, <3>3
  <2>8. ASSUME NEW i \in 1..(n + 1), s[i] \in P PROVE \E k \in 1..Len(u) : a[k] = i
    <3>1. CASE i = n + 1
      BY <2>3, <3>1
    <3>2. CASE i \in 1..n
      BY <2>2, <2>8, <3>2 DEF Places
    <3>. QED BY <3>1, <3>2
  <2>9. Places(s, P, n + 1, u, a)
    BY <2>5, <2>6, <2>7, <2>8 DEF Places
  <2>. QED BY <2>1, <2>9
<1>2. CASE s[n + 1] \notin P
  <2>1. u = t
    BY <1>2
  <2>2. Places(s, P, n + 1, t, at)
    <3>1. at \in [1..Len(t) -> 1..(n + 1)]
      BY DEF Places
    <3>2. \A i \in 1..(n + 1) : i = n + 1 \/ i \in 1..n
      OBVIOUS
    <3>. QED BY <1>2, <3>1, <3>2 DEF Places
  <2>. QED BY <2>1, <2>2
<1>. QED BY <1>1, <1>2

(* Keep(s, P) is the sequence of those places.                              *)
LEMMA KeepPlaces ==
  ASSUME NEW S, NEW s \in Seq(S), NEW P
  PROVE  Keep(s, P) \in Seq(S) /\ \E at : Places(s, P, Len(s), Keep(s, P), at)
<1>1. PICK h : Recurses(s, P, Len(s), h) /\ Keep(s, P) = h[Len(s)]
  BY KeepRecurses
<1>. DEFINE T == {n \in Nat : n <= Len(s) => h[n] \in Seq(S) /\ \E at : Places(s, P, n, h[n], at)}
<1>2. 0 \in T
  <2>1. h[0] = <<>> /\ 0 \in 0..Len(s)
    BY <1>1 DEF Recurses
  <2>. DEFINE at == [k \in 1..0 |-> k]
  <2>2. Len(<<>>) = 0 /\ 1..0 = {}
    OBVIOUS
  <2>3. Places(s, P, 0, <<>>, at)
    BY <2>2 DEF Places
  <2>4. <<>> \in Seq(S)
    OBVIOUS
  <2>. HIDE DEF at
  <2>5. \E b : Places(s, P, 0, h[0], b)
    BY <2>1, <2>3
  <2>. QED BY <2>1, <2>4, <2>5
<1>3. ASSUME NEW n \in Nat, n \in T PROVE n + 1 \in T
  <2>1. SUFFICES ASSUME n + 1 <= Len(s)
                 PROVE  h[n + 1] \in Seq(S) /\ \E at : Places(s, P, n + 1, h[n + 1], at)
    OBVIOUS
  <2>2. n + 1 \in 0..Len(s) /\ n + 1 # 0 /\ (n + 1) - 1 = n /\ n <= Len(s)
    BY <2>1
  <2>3. PICK at : Places(s, P, n, h[n], at)
    BY <1>3, <2>2
  <2>4. h[n] \in Seq(S)
    BY <1>3, <2>2
  <2>5. h[n + 1] = IF s[n + 1] \in P THEN Append(h[n], s[n + 1]) ELSE h[n]
    BY <1>1, <2>2 DEF Recurses
  <2>. QED BY <2>1, <2>3, <2>4, <2>5, PlacesStep
<1>. HIDE DEF T
<1>4. \A n \in Nat : n \in T
  BY <1>2, <1>3, CountUp
<1>5. Len(s) \in T /\ Len(s) <= Len(s)
  BY <1>4
<1>. QED BY <1>1, <1>5 DEF T

(* What Keep keeps: the members of P, none twice that was not there twice,  *)
(* and none before one it came after.                                       *)
LEMMA KeepMembers ==
  ASSUME NEW S, NEW s \in Seq(S), NEW P
  PROVE  /\ Keep(s, P) \in Seq(S)
         /\ ToSet(Keep(s, P)) = ToSet(s) \cap P
         /\ IsInjective(s) => IsInjective(Keep(s, P))
         /\ \A i, j \in 1..Len(Keep(s, P)) : i < j =>
              \E k, m \in 1..Len(s) : k < m /\ Keep(s, P)[i] = s[k] /\ Keep(s, P)[j] = s[m]
<1>1. PICK at : Places(s, P, Len(s), Keep(s, P), at)
  BY KeepPlaces
<1>. DEFINE t == Keep(s, P)
<1>2. t \in Seq(S)
  BY KeepPlaces
<1>. HIDE DEF t
<1>3. /\ \A k \in 1..Len(t) : at[k] \in 1..Len(s) /\ t[k] = s[at[k]] /\ t[k] \in P
      /\ \A i, j \in 1..Len(t) : i < j => at[i] < at[j]
      /\ \A i \in 1..Len(s) : s[i] \in P => \E k \in 1..Len(t) : at[k] = i
  BY <1>1 DEF t, Places
<1>4. DOMAIN t = 1..Len(t) /\ DOMAIN s = 1..Len(s) /\ Len(t) \in Nat /\ Len(s) \in Nat
  BY <1>2
<1>5. ASSUME NEW e PROVE e \in ToSet(t) <=> e \in ToSet(s) \cap P
  <2>1. ASSUME e \in ToSet(t) PROVE e \in ToSet(s) \cap P
    BY <1>3, <1>4, <2>1 DEF ToSet
  <2>2. ASSUME e \in ToSet(s) \cap P PROVE e \in ToSet(t)
    <3>1. PICK i \in 1..Len(s) : e = s[i] /\ s[i] \in P
      BY <1>4, <2>2 DEF ToSet
    <3>2. PICK k \in 1..Len(t) : at[k] = i
      BY <1>3, <3>1
    <3>. QED BY <1>3, <1>4, <3>1, <3>2 DEF ToSet
  <2>. QED BY <2>1, <2>2
<1>6. ASSUME IsInjective(s) PROVE IsInjective(t)
  <2>1. \A i, j \in 1..Len(s) : s[i] = s[j] => i = j
    BY <1>4, <1>6 DEF IsInjective
  <2>2. SUFFICES ASSUME NEW i \in 1..Len(t), NEW j \in 1..Len(t), t[i] = t[j] PROVE i = j
    BY <1>4 DEF IsInjective
  <2>3. at[i] = at[j] /\ at[i] \in 1..Len(s) /\ at[j] \in 1..Len(s)
    BY <1>3, <2>1, <2>2
  <2>4. ~(at[i] < at[j]) /\ ~(at[j] < at[i])
    BY <2>3
  <2>5. ~(i < j) /\ ~(j < i)
    BY <1>3, <2>4
  <2>. QED BY <2>5
<1>7. ASSUME NEW i \in 1..Len(t), NEW j \in 1..Len(t), i < j
      PROVE  \E k, m \in 1..Len(s) : k < m /\ t[i] = s[k] /\ t[j] = s[m]
  BY <1>3, <1>7
<1>8. ToSet(t) = ToSet(s) \cap P
  BY <1>5
<1>. QED BY <1>2, <1>6, <1>7, <1>8 DEF t

(* The two parts that SubSeq cuts a sequence into.                          *)
LEMMA Cut ==
  ASSUME NEW S, NEW s \in Seq(S), NEW n \in 0..Len(s)
  PROVE  /\ SubSeq(s, 1, n) \in Seq(S) /\ Len(SubSeq(s, 1, n)) = n
         /\ \A k \in 1..n : SubSeq(s, 1, n)[k] = s[k]
         /\ SubSeq(s, n + 1, Len(s)) \in Seq(S) /\ Len(SubSeq(s, n + 1, Len(s))) = Len(s) - n
         /\ \A k \in 1..(Len(s) - n) : SubSeq(s, n + 1, Len(s))[k] = s[n + k]
         /\ SubSeq(s, 1, n) \o SubSeq(s, n + 1, Len(s)) = s
<1>1. /\ SubSeq(s, 1, n) \in Seq(S) /\ Len(SubSeq(s, 1, n)) = n
      /\ \A k \in 1..n : SubSeq(s, 1, n)[k] = s[k]
  <2>1. \A k \in 1..n : s[k] \in S
    OBVIOUS
  <2>2. /\ SubSeq(s, 1, n) \in Seq(S)
        /\ Len(SubSeq(s, 1, n)) = IF 1 <= n THEN n - 1 + 1 ELSE 0
        /\ \A k \in 1..(n - 1 + 1) : SubSeq(s, 1, n)[k] = s[1 + k - 1]
    BY <2>1, SubSeqProperties
  <2>. QED BY <2>2
<1>2. /\ SubSeq(s, n + 1, Len(s)) \in Seq(S) /\ Len(SubSeq(s, n + 1, Len(s))) = Len(s) - n
      /\ \A k \in 1..(Len(s) - n) : SubSeq(s, n + 1, Len(s))[k] = s[n + k]
  <2>1. \A k \in (n + 1)..Len(s) : s[k] \in S
    OBVIOUS
  <2>2. /\ SubSeq(s, n + 1, Len(s)) \in Seq(S)
        /\ Len(SubSeq(s, n + 1, Len(s))) =
             IF n + 1 <= Len(s) THEN Len(s) - (n + 1) + 1 ELSE 0
        /\ \A k \in 1..(Len(s) - (n + 1) + 1) :
             SubSeq(s, n + 1, Len(s))[k] = s[(n + 1) + k - 1]
    BY <2>1, SubSeqProperties
  <2>. QED BY <2>2
<1>3. SubSeq(s, 1, n) \o SubSeq(s, n + 1, Len(s)) = s
  <2>1. PICK a \in Seq(S), b \in Seq(S) :
           /\ a = SubSeq(s, 1, n) /\ b = SubSeq(s, n + 1, Len(s))
           /\ Len(a) = n /\ Len(b) = Len(s) - n
           /\ \A k \in 1..n : a[k] = s[k]
           /\ \A k \in 1..(Len(s) - n) : b[k] = s[n + k]
    BY <1>1, <1>2
  <2>2. /\ a \o b \in Seq(S) /\ Len(a \o b) = Len(s)
        /\ \A k \in 1..Len(s) : (a \o b)[k] = s[k]
    <3>1. Len(a \o b) = Len(a) + Len(b) /\ a \o b \in Seq(S)
      BY ConcatProperties
    <3>3. /\ \A k \in 1..Len(a) : (a \o b)[k] = a[k]
          /\ \A k \in 1..Len(b) : (a \o b)[Len(a) + k] = b[k]
      BY Joined
    <3>2. ASSUME NEW k \in 1..Len(s) PROVE (a \o b)[k] = s[k]
      <4>1. CASE k <= n
        <5>1. k \in 1..n /\ k \in 1..Len(a)
          BY <2>1, <4>1
        <5>. QED BY <2>1, <3>3, <5>1
      <4>2. CASE ~(k <= n)
        <5>1. k - n \in 1..Len(b) /\ Len(a) + (k - n) = k /\ k - n \in 1..(Len(s) - n)
              /\ n + (k - n) = k
          BY <2>1, <4>2
        <5>2. (a \o b)[Len(a) + (k - n)] = b[k - n] /\ b[k - n] = s[n + (k - n)]
          BY <2>1, <3>3, <5>1
        <5>. QED BY <5>1, <5>2
      <4>. QED BY <4>1, <4>2
    <3>4. n + (Len(s) - n) = Len(s)
      OBVIOUS
    <3>. QED BY <2>1, <3>1, <3>2, <3>4
  <2>3. a \o b = s
    BY <2>2, SeqEqual
  <2>. QED BY <2>1, <2>3
<1>. QED BY <1>1, <1>2, <1>3

(* The elements of a concatenation, and when none is there twice.           *)
LEMMA Union ==
  ASSUME NEW S, NEW a \in Seq(S), NEW b \in Seq(S)
  PROVE  /\ a \o b \in Seq(S)
         /\ ToSet(a \o b) = ToSet(a) \cup ToSet(b)
         /\ IsInjective(a \o b) <=>
              IsInjective(a) /\ IsInjective(b) /\ ToSet(a) \cap ToSet(b) = {}
<1>. DEFINE c == a \o b
<1>1. /\ c \in Seq(S) /\ Len(c) = Len(a) + Len(b)
      /\ \A k \in 1..Len(a) : k \in 1..Len(c) /\ c[k] = a[k]
      /\ \A k \in 1..Len(b) : Len(a) + k \in 1..Len(c) /\ c[Len(a) + k] = b[k]
  <2>1. /\ c \in Seq(S)
        /\ \A k \in 1..Len(a) : k \in DOMAIN c /\ c[k] = a[k]
        /\ \A k \in 1..Len(b) : Len(a) + k \in DOMAIN c /\ c[Len(a) + k] = b[k]
    BY Joined
  <2>2. Len(c) = Len(a) + Len(b)
    BY ConcatProperties
  <2>. HIDE DEF c
  <2>. QED BY <2>1, <2>2
<1>. HIDE DEF c
<1>2. /\ DOMAIN a = 1..Len(a) /\ DOMAIN b = 1..Len(b) /\ DOMAIN c = 1..Len(c)
      /\ Len(a) \in Nat /\ Len(b) \in Nat
  BY <1>1
<1>3. \A k \in 1..Len(c) : k \in 1..Len(a) \/ (k - Len(a) \in 1..Len(b) /\ Len(a) + (k - Len(a)) = k)
  BY <1>1, <1>2
<1>4. \A k \in 1..Len(c) : \/ k \in 1..Len(a) /\ c[k] = a[k]
                           \/ k - Len(a) \in 1..Len(b) /\ c[k] = b[k - Len(a)]
  BY <1>1, <1>3
<1>5. ToSet(c) = ToSet(a) \cup ToSet(b)
  <2>1. ASSUME NEW e \in ToSet(c) PROVE e \in ToSet(a) \cup ToSet(b)
    BY <1>2, <1>4, <2>1 DEF ToSet
  <2>2. ASSUME NEW e \in ToSet(a) \cup ToSet(b) PROVE e \in ToSet(c)
    <3>1. CASE e \in ToSet(a)
      BY <1>1, <1>2, <3>1 DEF ToSet
    <3>2. CASE e \in ToSet(b)
      BY <1>1, <1>2, <3>2 DEF ToSet
    <3>. QED BY <3>1, <3>2
  <2>. QED BY <2>1, <2>2
<1>6. ASSUME IsInjective(c) PROVE IsInjective(a) /\ IsInjective(b) /\ ToSet(a) \cap ToSet(b) = {}
  <2>1. \A i, j \in 1..Len(c) : c[i] = c[j] => i = j
    BY <1>2, <1>6 DEF IsInjective
  <2>2. \A i, j \in 1..Len(a) : a[i] = a[j] => i = j
    BY <1>1, <2>1
  <2>3. ASSUME NEW i \in 1..Len(b), NEW j \in 1..Len(b), b[i] = b[j] PROVE i = j
    <3>1. Len(a) + i = Len(a) + j
      BY <1>1, <2>1, <2>3
    <3>. QED BY <1>2, <3>1
  <2>4. ASSUME NEW e \in ToSet(a), e \in ToSet(b) PROVE FALSE
    <3>1. PICK i \in 1..Len(a) : e = a[i]
      BY <1>2 DEF ToSet
    <3>2. PICK j \in 1..Len(b) : e = b[j]
      BY <1>2, <2>4 DEF ToSet
    <3>3. i = Len(a) + j
      BY <1>1, <2>1, <3>1, <3>2
    <3>. QED BY <1>2, <3>3
  <2>. QED BY <1>2, <2>2, <2>3, <2>4 DEF IsInjective
<1>7. ASSUME IsInjective(a), IsInjective(b), ToSet(a) \cap ToSet(b) = {} PROVE IsInjective(c)
  <2>1. /\ \A i, j \in 1..Len(a) : a[i] = a[j] => i = j
        /\ \A i, j \in 1..Len(b) : b[i] = b[j] => i = j
    BY <1>2, <1>7 DEF IsInjective
  <2>2. \A i \in 1..Len(a), j \in 1..Len(b) : a[i] # b[j]
    <3>1. SUFFICES ASSUME NEW i \in 1..Len(a), NEW j \in 1..Len(b), a[i] = b[j] PROVE FALSE
      OBVIOUS
    <3>2. a[i] \in ToSet(a) /\ b[j] \in ToSet(b)
      BY <1>2 DEF ToSet
    <3>. QED BY <1>7, <3>1, <3>2
  <2>3. SUFFICES ASSUME NEW i \in 1..Len(c), NEW j \in 1..Len(c), c[i] = c[j] PROVE i = j
    BY <1>2 DEF IsInjective
  <2>4. CASE i \in 1..Len(a) /\ c[i] = a[i]
    BY <1>4, <2>1, <2>2, <2>3, <2>4
  <2>5. CASE i - Len(a) \in 1..Len(b) /\ c[i] = b[i - Len(a)]
    <3>1. j - Len(a) \in 1..Len(b) /\ c[j] = b[j - Len(a)]
      BY <1>4, <2>2, <2>3, <2>5
    <3>2. i - Len(a) = j - Len(a)
      BY <2>1, <2>3, <2>5, <3>1
    <3>. QED BY <1>2, <3>2
  <2>. QED BY <1>4, <2>4, <2>5
<1>. QED BY <1>1, <1>5, <1>6, <1>7 DEF c

(* The elements of the shortest sequences, and of one that begins with x.    *)
LEMMA Heads ==
  /\ ToSet(<<>>) = {}
  /\ \A x : ToSet(<<x>>) = {x}
  /\ \A x, y : ToSet(<<x, y>>) = {x, y}
<1>1. ToSet(<<>>) = {}
  BY DEF ToSet
<1>2. ASSUME NEW x PROVE ToSet(<<x>>) = {x}
  <2>1. DOMAIN <<x>> = {1} /\ <<x>>[1] = x
    OBVIOUS
  <2>. QED BY <2>1 DEF ToSet
<1>3. ASSUME NEW x, NEW y PROVE ToSet(<<x, y>>) = {x, y}
  <2>1. DOMAIN <<x, y>> = {1, 2} /\ <<x, y>>[1] = x /\ <<x, y>>[2] = y
    OBVIOUS
  <2>. QED BY <2>1 DEF ToSet
<1>. QED BY <1>1, <1>2, <1>3

(* One element more at the head, and one less.                              *)
LEMMA HeadAndTail ==
  ASSUME NEW S, NEW s \in Seq(S)
  PROVE  /\ \A x \in S : <<x>> \o s \in Seq(S) /\ ToSet(<<x>> \o s) = {x} \cup ToSet(s)
         /\ s # <<>> => /\ Head(s) \in S /\ Tail(s) \in Seq(S)
                        /\ ToSet(s) = {Head(s)} \cup ToSet(Tail(s))
                        /\ Len(s) = Len(Tail(s)) + 1 /\ Head(s) = s[1]
                        /\ \A k \in 1..Len(Tail(s)) : k + 1 \in 1..Len(s) /\ Tail(s)[k] = s[k + 1]
                        /\ s = <<Head(s)>> \o Tail(s)
<1>1. ASSUME NEW x \in S PROVE <<x>> \o s \in Seq(S) /\ ToSet(<<x>> \o s) = {x} \cup ToSet(s)
  <2>1. <<x>> \in Seq(S)
    OBVIOUS
  <2>2. PICK a \in Seq(S) : a = <<x>> /\ ToSet(a) = {x}
    BY <2>1, Heads
  <2>3. a \o s \in Seq(S) /\ ToSet(a \o s) = ToSet(a) \cup ToSet(s)
    BY Union
  <2>. QED BY <2>2, <2>3
<1>2. ASSUME s # <<>>
      PROVE  /\ Head(s) \in S /\ Tail(s) \in Seq(S)
             /\ ToSet(s) = {Head(s)} \cup ToSet(Tail(s))
             /\ Len(s) = Len(Tail(s)) + 1 /\ Head(s) = s[1]
             /\ \A k \in 1..Len(Tail(s)) : k + 1 \in 1..Len(s) /\ Tail(s)[k] = s[k + 1]
             /\ s = <<Head(s)>> \o Tail(s)
  <2>1. /\ Head(s) \in S /\ Tail(s) \in Seq(S) /\ Len(s) = Len(Tail(s)) + 1 /\ Head(s) = s[1]
        /\ \A k \in 1..Len(Tail(s)) : k + 1 \in 1..Len(s) /\ Tail(s)[k] = s[k + 1]
    BY <1>2
  <2>2. <<Head(s)>> \o Tail(s) = s
    <3>. DEFINE t == <<Head(s)>> \o Tail(s)
    <3>1. t \in Seq(S) /\ Len(t) = Len(s) /\ \A i \in 1..Len(s) : t[i] = s[i]
      BY <1>2
    <3>. HIDE DEF t
    <3>2. t = s
      BY <3>1, SeqEqual
    <3>. QED BY <3>2 DEF t
  <2>3. PICK h \in S, u \in Seq(S) : h = Head(s) /\ u = Tail(s)
    BY <2>1
  <2>4. <<h>> \in Seq(S) /\ ToSet(<<h>>) = {h}
    BY Heads
  <2>5. ToSet(<<h>> \o u) = {h} \cup ToSet(u)
    BY <2>4, Union, ZenonT(30)
  <2>. QED BY <2>1, <2>2, <2>3, <2>5
<1>. QED BY <1>1, <1>2

(* Appending adds the element to the set.                                    *)
LEMMA Appended ==
  ASSUME NEW S, NEW s \in Seq(S), NEW e \in S
  PROVE  Append(s, e) \in Seq(S) /\ ToSet(Append(s, e)) = ToSet(s) \cup {e}
<1>1. PICK t \in Seq(S) : /\ t = Append(s, e) /\ Len(t) = Len(s) + 1 /\ t[Len(s) + 1] = e
                          /\ \A i \in 1..Len(s) : t[i] = s[i]
  <2>1. /\ Append(s, e) \in Seq(S) /\ Len(Append(s, e)) = Len(s) + 1
        /\ Append(s, e)[Len(s) + 1] = e
        /\ \A i \in 1..Len(s) : Append(s, e)[i] = s[i]
    OBVIOUS
  <2>. QED BY <2>1
<1>2. ToSet(t) \subseteq ToSet(s) \cup {e}
  BY <1>1 DEF ToSet
<1>3. ToSet(s) \cup {e} \subseteq ToSet(t)
  BY <1>1, AppendKeeps
<1>. QED BY <1>1, <1>2, <1>3

-----------------------------------------------------------------------------
(* How Keep proceeds, place by place.                                        *)
LEMMA KeepSteps ==
  ASSUME NEW S, NEW s \in Seq(S), NEW P
  PROVE  \E h : /\ h[0] = <<>> /\ Keep(s, P) = h[Len(s)]
                /\ \A n \in Nat : n + 1 <= Len(s) =>
                     h[n + 1] = IF s[n + 1] \in P THEN Append(h[n], s[n + 1]) ELSE h[n]
<1>1. PICK h : Recurses(s, P, Len(s), h) /\ Keep(s, P) = h[Len(s)]
  BY KeepRecurses
<1>2. Len(s) \in Nat
  OBVIOUS
<1>3. h[0] = <<>>
  BY <1>1, <1>2 DEF Recurses
<1>4. ASSUME NEW n \in Nat, n + 1 <= Len(s)
      PROVE  h[n + 1] = IF s[n + 1] \in P THEN Append(h[n], s[n + 1]) ELSE h[n]
  <2>1. n + 1 \in 0..Len(s) /\ n + 1 # 0 /\ (n + 1) - 1 = n
    BY <1>2, <1>4
  <2>. QED BY <1>1, <2>1 DEF Recurses
<1>. QED BY <1>1, <1>3, <1>4

(* Keep keeps the first part and then the second.                            *)
LEMMA KeepSplits ==
  ASSUME NEW S, NEW a \in Seq(S), NEW b \in Seq(S), NEW P
  PROVE  Keep(a \o b, P) = Keep(a, P) \o Keep(b, P)
<1>1. PICK c \in Seq(S) :
        /\ c = a \o b /\ Len(c) = Len(a) + Len(b)
        /\ \A k \in 1..Len(a) : c[k] = a[k]
        /\ \A k \in 1..Len(b) : c[Len(a) + k] = b[k]
  <2>1. /\ a \o b \in Seq(S) /\ Len(a \o b) = Len(a) + Len(b)
        /\ \A k \in 1..Len(a) : (a \o b)[k] = a[k]
        /\ \A k \in 1..Len(b) : (a \o b)[Len(a) + k] = b[k]
    BY Joined, ConcatProperties
  <2>. QED BY <2>1
<1>2. PICK m \in Nat, n \in Nat : m = Len(a) /\ n = Len(b) /\ Len(c) = m + n
  BY <1>1
<1>3. PICK f : /\ f[0] = <<>> /\ Keep(a, P) = f[m]
               /\ \A k \in Nat : k + 1 <= m =>
                    f[k + 1] = IF a[k + 1] \in P THEN Append(f[k], a[k + 1]) ELSE f[k]
  <2>1. PICK f : /\ f[0] = <<>> /\ Keep(a, P) = f[Len(a)]
                 /\ \A k \in Nat : k + 1 <= Len(a) =>
                      f[k + 1] = IF a[k + 1] \in P THEN Append(f[k], a[k + 1]) ELSE f[k]
    BY KeepSteps
  <2>. QED BY <1>2, <2>1
<1>4. PICK g : /\ g[0] = <<>> /\ Keep(b, P) = g[n]
               /\ \A k \in Nat : k + 1 <= n =>
                    g[k + 1] = IF b[k + 1] \in P THEN Append(g[k], b[k + 1]) ELSE g[k]
  <2>1. PICK g : /\ g[0] = <<>> /\ Keep(b, P) = g[Len(b)]
                 /\ \A k \in Nat : k + 1 <= Len(b) =>
                      g[k + 1] = IF b[k + 1] \in P THEN Append(g[k], b[k + 1]) ELSE g[k]
    BY KeepSteps
  <2>. QED BY <1>2, <2>1
<1>5. PICK h : /\ h[0] = <<>> /\ Keep(c, P) = h[m + n]
               /\ \A k \in Nat : k + 1 <= m + n =>
                    h[k + 1] = IF c[k + 1] \in P THEN Append(h[k], c[k + 1]) ELSE h[k]
  <2>1. PICK h : /\ h[0] = <<>> /\ Keep(c, P) = h[Len(c)]
                 /\ \A k \in Nat : k + 1 <= Len(c) =>
                      h[k + 1] = IF c[k + 1] \in P THEN Append(h[k], c[k + 1]) ELSE h[k]
    <3>1. c \in Seq(S)
      BY <1>1
    <3>. QED BY <3>1, KeepSteps
  <2>. QED BY <1>2, <2>1
<1>6. f[m] \in Seq(S)
  BY <1>3, KeepMembers
<1>. DEFINE A == {k \in Nat : k <= m => h[k] = f[k]}
            B == {k \in Nat : k <= n => g[k] \in Seq(S) /\ h[m + k] = f[m] \o g[k]}
<1>7. \A k \in Nat : k \in A
  <2>1. 0 \in A
    BY <1>3, <1>5
  <2>2. ASSUME NEW k \in Nat, k \in A PROVE k + 1 \in A
    <3>1. SUFFICES ASSUME k + 1 <= m PROVE h[k + 1] = f[k + 1]
      OBVIOUS
    <3>2. k <= m /\ k + 1 <= m + n /\ k + 1 \in 1..m
      BY <3>1
    <3>3. c[k + 1] = a[k + 1] /\ h[k] = f[k]
      BY <1>1, <1>2, <2>2, <3>2
    <3>. QED BY <1>3, <1>5, <3>1, <3>2, <3>3
  <2>. HIDE DEF A
  <2>. QED BY <2>1, <2>2, CountUp
<1>8. \A k \in Nat : k \in B
  <2>1. 0 \in B
    <3>1. m + 0 = m /\ h[m] = f[m]
      BY <1>7
    <3>2. f[m] \o <<>> = f[m]
      BY <1>6, ConcatEmptySeq
    <3>3. <<>> \in Seq(S)
      OBVIOUS
    <3>. QED BY <1>4, <3>1, <3>2, <3>3
  <2>2. ASSUME NEW k \in Nat, k \in B PROVE k + 1 \in B
    <3>0. k + 1 \in Nat
      OBVIOUS
    <3>1. SUFFICES ASSUME k + 1 <= n PROVE g[k + 1] \in Seq(S) /\ h[m + (k + 1)] = f[m] \o g[k + 1]
      BY <3>0, Zenon
    <3>2. /\ k <= n /\ k + 1 \in 1..n /\ m + k \in Nat /\ (m + k) + 1 <= m + n
          /\ m + (k + 1) = (m + k) + 1
      BY <3>1
    <3>3. c[(m + k) + 1] = b[k + 1] /\ b[k + 1] \in S
      BY <1>1, <1>2, <3>2
    <3>4. g[k] \in Seq(S) /\ h[m + k] = f[m] \o g[k]
      BY <2>2, <3>2
    <3>5. /\ g[k + 1] = IF b[k + 1] \in P THEN Append(g[k], b[k + 1]) ELSE g[k]
          /\ h[(m + k) + 1] = IF b[k + 1] \in P THEN Append(h[m + k], b[k + 1]) ELSE h[m + k]
      BY <1>4, <1>5, <3>1, <3>2, <3>3
    <3>6. PICK x \in S, p \in Seq(S), q \in Seq(S) : x = b[k + 1] /\ p = f[m] /\ q = g[k]
      BY <1>6, <3>3, <3>4
    <3>7. Append(p \o q, x) = p \o Append(q, x) /\ Append(q, x) \in Seq(S)
      <4>1. p \o q \in Seq(S)
        BY ConcatProperties
      <4>2. Append(p \o q, x) = (p \o q) \o <<x>> /\ Append(q, x) = q \o <<x>> /\ <<x>> \in Seq(S)
        BY <4>1, AppendIsConcat
      <4>3. (p \o q) \o <<x>> = p \o (q \o <<x>>)
        BY <4>2, ConcatAssociative, SMTT(30)
      <4>. QED BY <4>2, <4>3
    <3>. QED BY <3>2, <3>4, <3>5, <3>6, <3>7
  <2>. HIDE DEF B
  <2>. QED BY <2>1, <2>2, CountUp
<1>9. h[m + n] = f[m] \o g[n]
  <2>1. n \in Nat /\ n <= n
    BY <1>2
  <2>2. n \in B
    BY <1>8, <2>1, Zenon
  <2>. QED BY <2>1, <2>2, Zenon
<1>. QED BY <1>1, <1>3, <1>4, <1>5, <1>9

(* What is kept depends on the members of P that are there.                  *)
LEMMA KeepAgrees ==
  ASSUME NEW S, NEW s \in Seq(S), NEW P, NEW Q, ToSet(s) \cap P = ToSet(s) \cap Q
  PROVE  Keep(s, P) = Keep(s, Q)
<1>1. PICK n \in Nat : n = Len(s)
  OBVIOUS
<1>2. PICK f : /\ f[0] = <<>> /\ Keep(s, P) = f[n]
               /\ \A k \in Nat : k + 1 <= n =>
                    f[k + 1] = IF s[k + 1] \in P THEN Append(f[k], s[k + 1]) ELSE f[k]
  BY <1>1, KeepSteps
<1>3. PICK g : /\ g[0] = <<>> /\ Keep(s, Q) = g[n]
               /\ \A k \in Nat : k + 1 <= n =>
                    g[k + 1] = IF s[k + 1] \in Q THEN Append(g[k], s[k + 1]) ELSE g[k]
  BY <1>1, KeepSteps
<1>4. \A k \in 1..n : s[k] \in ToSet(s)
  BY <1>1 DEF ToSet
<1>. DEFINE A == {k \in Nat : k <= n => f[k] = g[k]}
<1>5. 0 \in A
  BY <1>2, <1>3
<1>6. ASSUME NEW k \in Nat, k \in A PROVE k + 1 \in A
  <2>1. SUFFICES ASSUME k + 1 <= n PROVE f[k + 1] = g[k + 1]
    OBVIOUS
  <2>2. k <= n /\ k + 1 \in 1..n
    BY <2>1
  <2>3. s[k + 1] \in P <=> s[k + 1] \in Q
    BY <1>4, <2>2
  <2>. QED BY <1>2, <1>3, <1>6, <2>1, <2>2, <2>3
<1>7. \A k \in Nat : k \in A
  <2>. HIDE DEF A
  <2>. QED BY <1>5, <1>6, CountUp
<1>. QED BY <1>2, <1>3, <1>7

(* All is kept of a sequence in P, and nothing of one outside.               *)
LEMMA KeepAllOrNone ==
  ASSUME NEW S, NEW s \in Seq(S), NEW P
  PROVE  /\ ToSet(s) \subseteq P => Keep(s, P) = s
         /\ ToSet(s) \cap P = {} => Keep(s, P) = <<>>
<1>1. ASSUME ToSet(s) \cap P = {} PROVE Keep(s, P) = <<>>
  <2>1. Keep(s, P) \in Seq(S) /\ ToSet(Keep(s, P)) = {}
    BY <1>1, KeepMembers
  <2>2. PICK t \in Seq(S) : t = Keep(s, P) /\ ToSet(t) = {}
    BY <2>1
  <2>3. t # <<>> => ToSet(t) = {Head(t)} \cup ToSet(Tail(t))
    BY HeadAndTail
  <2>. QED BY <2>2, <2>3
<1>2. ASSUME ToSet(s) \subseteq P PROVE Keep(s, P) = s
  <2>1. PICK n \in Nat : n = Len(s)
    OBVIOUS
  <2>2. PICK f : /\ f[0] = <<>> /\ Keep(s, P) = f[n]
                 /\ \A k \in Nat : k + 1 <= n =>
                      f[k + 1] = IF s[k + 1] \in P THEN Append(f[k], s[k + 1]) ELSE f[k]
    BY <2>1, KeepSteps
  <2>3. \A k \in 1..n : s[k] \in P /\ s[k] \in S
    BY <1>2, <2>1 DEF ToSet
  <2>. DEFINE A == {k \in Nat : k <= n => f[k] = SubSeq(s, 1, k)}
  <2>4. 0 \in A
    <3>1. SubSeq(s, 1, 0) = <<>>
      BY SubSeqEmpty
    <3>. QED BY <2>2, <3>1
  <2>5. ASSUME NEW k \in Nat, k \in A PROVE k + 1 \in A
    <3>1. SUFFICES ASSUME k + 1 <= n PROVE f[k + 1] = SubSeq(s, 1, k + 1)
      OBVIOUS
    <3>2. k <= n /\ k + 1 \in 1..n /\ k \in 0..n /\ (k + 1) - 1 = k
      BY <3>1
    <3>3. f[k + 1] = Append(SubSeq(s, 1, k), s[k + 1])
      BY <2>2, <2>3, <2>5, <3>1, <3>2
    <3>4. SubSeq(s, 1, k) \in Seq(S)
      BY <2>1, <3>2, Cut
    <3>5. Append(SubSeq(s, 1, k), s[k + 1]) = SubSeq(s, 1, k) \o <<s[k + 1]>>
      BY <2>3, <3>2, <3>4, AppendIsConcat
    <3>6. 1 \in 1..Len(s) /\ k + 1 \in 1..Len(s)
      BY <2>1, <3>2
    <3>7. SubSeq(s, 1, k + 1) = SubSeq(s, 1, k) \o <<s[k + 1]>>
      BY <3>2, <3>6, SubSeqRecursiveSecond
    <3>. QED BY <3>3, <3>5, <3>7
  <2>6. \A k \in Nat : k \in A
    <3>. HIDE DEF A
    <3>. QED BY <2>4, <2>5, CountUp
  <2>7. SubSeq(s, 1, n) = s
    BY <2>1, SubSeqFull
  <2>. QED BY <2>2, <2>6, <2>7
<1>. QED BY <1>1, <1>2

(* A sequence is a prefix of itself and of every continuation.               *)
LEMMA ArePrefixes ==
  ASSUME NEW S, NEW a \in Seq(S), NEW b \in Seq(S)
  PROVE  IsPrefix(a, a \o b) /\ IsPrefix(a, a)
<1>1. Len(a \o b) = Len(a) + Len(b) /\ Len(a) \in Nat /\ Len(b) \in Nat
  BY ConcatProperties
<1>2. SubSeq(a, 1, Len(a)) = SubSeq(a \o b, 1, Len(a))
  <2>1. CASE Len(a) = 0
    BY <2>1, SubSeqEmpty
  <2>2. CASE Len(a) # 0
    <3>1. 1 \in 1..Len(a) /\ Len(a) \in 1..Len(a)
      BY <1>1, <2>2
    <3>. QED BY <3>1, SubSeqOfConcat1
  <2>. QED BY <2>1, <2>2
<1>. QED BY <1>1, <1>2 DEF IsPrefix

(* How concatenations may be rearranged.                                     *)
LEMMA Concats ==
  ASSUME NEW S
  PROVE  /\ \A a, b \in Seq(S) : a \o b \in Seq(S)
         /\ \A a, b, c \in Seq(S) : (a \o b) \o c = a \o (b \o c)
         /\ \A a \in Seq(S) : a \o <<>> = a /\ <<>> \o a = a
<1>1. ASSUME NEW a \in Seq(S), NEW b \in Seq(S) PROVE a \o b \in Seq(S)
  BY ConcatProperties
<1>2. ASSUME NEW a \in Seq(S), NEW b \in Seq(S), NEW c \in Seq(S)
      PROVE  (a \o b) \o c = a \o (b \o c)
  BY ConcatAssociative
<1>3. ASSUME NEW a \in Seq(S) PROVE a \o <<>> = a /\ <<>> \o a = a
  BY ConcatEmptySeq
<1>. QED BY <1>1, <1>2, <1>3

(* What is put behind the first part of a sequence, and behind the second,   *)
(* with nothing after it.                                                   *)
Behind(S, f, b, r, g, k) ==
  /\ f \in Seq(S) /\ b \in Seq(S) /\ r \in Seq(S) /\ g \in Seq(S) /\ k \in Seq(S)
  /\ g = <<>> \/ (b = <<>> /\ r = <<>>)
  /\ k = <<>> \/ r = <<>>

Rearranged(f, b, r, g, k) ==
  ((f \o g) \o (b \o k)) \o r = ((f \o b) \o r) \o (g \o k)

(* What is put there is behind all of it.                                    *)
LEMMA Inserted ==
  ASSUME NEW S, NEW f, NEW b, NEW r, NEW g, NEW k, Behind(S, f, b, r, g, k)
  PROVE  Rearranged(f, b, r, g, k)
<1>. SUFFICES ASSUME f \in Seq(S), b \in Seq(S), r \in Seq(S), g \in Seq(S), k \in Seq(S),
                     g = <<>> \/ (b = <<>> /\ r = <<>>), k = <<>> \/ r = <<>>
              PROVE  ((f \o g) \o (b \o k)) \o r = ((f \o b) \o r) \o (g \o k)
  BY Zenon DEF Behind, Rearranged
<1>1. /\ f \o g \in Seq(S) /\ f \o b \in Seq(S) /\ b \o k \in Seq(S) /\ g \o k \in Seq(S)
      /\ <<>> \in Seq(S)
  BY ConcatProperties
<1>2. CASE b = <<>> /\ r = <<>>
  <2>1. b \o k = k /\ f \o b = f /\ f \o r = f
    BY <1>2, ConcatEmptySeq
  <2>2. (f \o g) \o k = f \o (g \o k)
    BY ConcatAssociative, SMTT(60)
  <2>3. ((f \o g) \o k) \o r = (f \o g) \o k
    <3>1. (f \o g) \o k \in Seq(S)
      BY <1>1, ConcatProperties
    <3>. QED BY <1>2, <3>1, ConcatEmptySeq
  <2>. QED BY <1>2, <2>1, <2>2, <2>3
<1>3. CASE g = <<>> /\ r = <<>>
  <2>1. f \o g = f /\ g \o k = k /\ (f \o b) \o r = f \o b
    BY <1>1, <1>3, ConcatEmptySeq
  <2>2. (f \o b) \o k = f \o (b \o k)
    BY ConcatAssociative, SMTT(30)
  <2>3. (f \o (b \o k)) \o r = f \o (b \o k)
    <3>1. f \o (b \o k) \in Seq(S)
      BY <1>1, ConcatProperties
    <3>. QED BY <1>3, <3>1, ConcatEmptySeq
  <2>. QED BY <2>1, <2>2, <2>3
<1>4. CASE g = <<>> /\ k = <<>>
  <2>1. f \o g = f /\ b \o k = b /\ g \o k = <<>>
    BY <1>4, ConcatEmptySeq
  <2>2. (f \o b) \o r \in Seq(S)
    BY <1>1, ConcatProperties
  <2>3. ((f \o b) \o r) \o <<>> = (f \o b) \o r
    BY <2>2, ConcatEmptySeq
  <2>. QED BY <2>1, <2>3
<1>. QED BY <1>2, <1>3, <1>4

(* What a splice leaves of a sequence is in its order, and what it puts in   *)
(* comes last: after p some of q goes and n comes in.                       *)
Splices(S, p, q, n, K, t) ==
  /\ p \in Seq(S) /\ q \in Seq(S) /\ n \in Seq(S)
  /\ IsInjective(p \o q) /\ IsInjective(n) /\ ToSet(n) \cap ToSet(p \o q) = {}
  /\ t = p \o (Keep(q, K) \o n)

(* Nothing is there twice after a splice.                                    *)
LEMMA InOrder ==
  ASSUME NEW S, NEW p, NEW q, NEW n, NEW K, NEW t, Splices(S, p, q, n, K, t)
  PROVE  /\ IsInjective(t) /\ ToSet(t) \subseteq ToSet(p \o q) \cup ToSet(n)
         /\ IsPrefix(Keep(p \o q, ToSet(t)), t)
<1>1. /\ p \in Seq(S) /\ q \in Seq(S) /\ n \in Seq(S)
      /\ IsInjective(p \o q) /\ IsInjective(n) /\ ToSet(n) \cap ToSet(p \o q) = {}
      /\ t = p \o (Keep(q, K) \o n)
  BY DEF Splices
<1>2. /\ ToSet(p \o q) = ToSet(p) \cup ToSet(q) /\ IsInjective(p) /\ IsInjective(q)
      /\ ToSet(p) \cap ToSet(q) = {}
  BY <1>1, Union
<1>3. PICK m : m = Keep(q, K)
  OBVIOUS
<1>4. m \in Seq(S) /\ ToSet(m) = ToSet(q) \cap K /\ IsInjective(m)
  BY <1>1, <1>2, <1>3, KeepMembers
<1>5. PICK u : /\ u = m \o n /\ u \in Seq(S) /\ ToSet(u) = ToSet(m) \cup ToSet(n)
               /\ IsInjective(u)
  <2>1. ToSet(m) \cap ToSet(n) = {}
    BY <1>1, <1>2, <1>4
  <2>2. /\ m \o n \in Seq(S) /\ ToSet(m \o n) = ToSet(m) \cup ToSet(n)
        /\ IsInjective(m \o n)
    BY <1>1, <1>4, <2>1, Union
  <2>. QED BY <2>2
<1>6. t = p \o u /\ ToSet(t) = ToSet(p) \cup ToSet(u) /\ IsInjective(t)
  <2>1. ToSet(p) \cap ToSet(u) = {}
    BY <1>1, <1>2, <1>4, <1>5
  <2>2. ToSet(p \o u) = ToSet(p) \cup ToSet(u) /\ IsInjective(p \o u)
    <3>1. p \in Seq(S) /\ u \in Seq(S) /\ IsInjective(p) /\ IsInjective(u)
      BY <1>1, <1>2, <1>5
    <3>. QED BY <2>1, <3>1, Union, ZenonT(30)
  <2>3. t = p \o u
    BY <1>1, <1>3, <1>5
  <2>. QED BY <2>2, <2>3
<1>7. PICK T : T = ToSet(t)
  OBVIOUS
<1>8. Keep(p, T) = p
  <2>1. ToSet(p) \subseteq T
    BY <1>6, <1>7
  <2>. QED BY <1>1, <2>1, KeepAllOrNone
<1>9. Keep(q, T) = m
  <2>1. ToSet(q) \cap T = ToSet(q) \cap K
    BY <1>1, <1>2, <1>4, <1>5, <1>6, <1>7
  <2>2. Keep(q, T) = Keep(q, K)
    BY <1>1, <2>1, KeepAgrees
  <2>. QED BY <1>3, <2>2
<1>10. Keep(p \o q, T) = p \o m
  <2>1. Keep(p \o q, T) = Keep(p, T) \o Keep(q, T)
    BY <1>1, KeepSplits, SMTT(30)
  <2>. QED BY <1>8, <1>9, <2>1
<1>11. PICK v : v = p \o m /\ v \in Seq(S)
  <2>1. p \o m \in Seq(S)
    BY <1>1, <1>4, ConcatProperties
  <2>. QED BY <2>1
<1>12. t = v \o n
  <2>1. (p \o m) \o n = p \o (m \o n)
    BY <1>1, <1>4, ConcatAssociative, SMTT(60)
  <2>. QED BY <1>5, <1>6, <1>11, <2>1
<1>13. IsPrefix(v, v \o n)
  BY <1>1, <1>11, ArePrefixes
<1>. QED BY <1>2, <1>4, <1>5, <1>6, <1>7, <1>10, <1>11, <1>12, <1>13

(* What stands at increasing places of a sequence without repetition is what  *)
(* is kept of it.                                                            *)
LEMMA KeepSelects ==
  ASSUME NEW S, NEW s \in Seq(S), IsInjective(s), NEW t \in Seq(S), NEW at \in [1..Len(t) -> 1..Len(s)],
         \A j, k \in 1..Len(t) : j < k => at[j] < at[k],
         \A k \in 1..Len(t) : t[k] = s[at[k]]
  PROVE  Keep(s, ToSet(t)) = t
<1>1. PICK h : /\ h[0] = <<>> /\ Keep(s, ToSet(t)) = h[Len(s)]
               /\ \A n \in Nat : n + 1 <= Len(s) =>
                    h[n + 1] = IF s[n + 1] \in ToSet(t) THEN Append(h[n], s[n + 1]) ELSE h[n]
  BY KeepSteps
<1>2. PICK x \in Nat, z \in Nat : x = Len(s) /\ z = Len(t)
  OBVIOUS
<1>. DEFINE Cuts(n, m) == /\ h[n] = SubSeq(t, 1, m)
                          /\ \A k \in 1..z : (k <= m => at[k] <= n) /\ (m < k => n < at[k])
            T == {n \in Nat : n <= x => \E m \in 0..z : Cuts(n, m)}
<1>3. \A k \in 1..z : at[k] \in 1..x
  BY <1>2
<1>4. 0 \in T
  <2>1. SubSeq(t, 1, 0) = <<>>
    OBVIOUS
  <2>2. Cuts(0, 0) /\ 0 \in 0..z
    BY <1>1, <1>3, <2>1
  <2>. QED BY <2>2
<1>5. ASSUME NEW n \in Nat, n \in T, n + 1 <= x PROVE \E m \in 0..z : Cuts(n + 1, m)
  <2>1. PICK m \in 0..z : Cuts(n, m)
    BY <1>2, <1>5
  <2>2. h[n + 1] = IF s[n + 1] \in ToSet(t) THEN Append(h[n], s[n + 1]) ELSE h[n]
    BY <1>1, <1>2, <1>5
  <2>3. CASE s[n + 1] \in ToSet(t)
    <3>1. PICK k \in 1..z : t[k] = s[n + 1]
      BY <1>2, <2>3 DEF ToSet
    <3>2. at[k] = n + 1
      <4>1. s[at[k]] = s[n + 1] /\ at[k] \in DOMAIN s /\ n + 1 \in DOMAIN s
        BY <1>2, <1>3, <1>5, <3>1
      <4>. QED BY <4>1 DEF IsInjective
    <3>3. k > m
      BY <2>1, <3>2
    <3>4. k = m + 1
      <4>1. SUFFICES ASSUME m + 1 < k PROVE FALSE
        BY <3>3
      <4>2. m + 1 \in 1..z /\ m < m + 1
        BY <4>1
      <4>3. at[m + 1] < at[k] /\ n < at[m + 1] /\ at[m + 1] \in 1..x
        BY <1>2, <1>3, <2>1, <4>1, <4>2
      <4>. QED BY <3>2, <4>3
    <3>5. SubSeq(t, 1, m + 1) = Append(SubSeq(t, 1, m), t[m + 1])
      BY <1>2, <3>4
    <3>6. ASSUME NEW j \in 1..z PROVE (j <= m + 1 => at[j] <= n + 1) /\ (m + 1 < j => n + 1 < at[j])
      <4>1. at[j] \in 1..x
        BY <1>3
      <4>2. CASE j <= m
        BY <2>1, <4>1, <4>2
      <4>3. CASE j = m + 1
        BY <3>2, <3>4, <4>3
      <4>4. CASE m + 1 < j
        BY <1>2, <3>2, <3>4, <4>4
      <4>. QED BY <4>2, <4>3, <4>4
    <3>7. Cuts(n + 1, m + 1) /\ m + 1 \in 0..z
      BY <2>1, <2>2, <2>3, <3>1, <3>4, <3>5, <3>6
    <3>. QED BY <3>7
  <2>4. CASE s[n + 1] \notin ToSet(t)
    <3>1. ASSUME NEW j \in 1..z PROVE at[j] # n + 1 /\ at[j] \in 1..x
      <4>1. t[j] \in ToSet(t) /\ t[j] = s[at[j]]
        BY <1>2 DEF ToSet
      <4>. QED BY <1>3, <2>4, <4>1
    <3>2. Cuts(n + 1, m)
      BY <2>1, <2>2, <2>4, <3>1
    <3>. QED BY <3>2
  <2>. QED BY <2>3, <2>4
<1>6. \A n \in Nat : n \in T => n + 1 \in T
  <2>. HIDE DEF Cuts
  <2>. QED BY <1>5
<1>7. x \in T
  <2>. HIDE DEF T
  <2>. QED BY <1>2, <1>4, <1>6, CountUp
<1>8. PICK m \in 0..z : Cuts(x, m)
  BY <1>7
<1>9. m = z
  <2>1. SUFFICES ASSUME m < z PROVE FALSE
    OBVIOUS
  <2>2. z \in 1..z /\ x < at[z] /\ at[z] \in 1..x
    BY <1>3, <1>8, <2>1
  <2>. QED BY <2>2
<1>10. SubSeq(t, 1, z) = t
  BY <1>2
<1>. QED BY <1>1, <1>2, <1>8, <1>9, <1>10

-----------------------------------------------------------------------------
(* FlattenSeq, which is recursive too.                                        *)
Flattens(s, m, h) ==
  h = [i \in 1..m |-> IF i = 1 THEN s[i] ELSE h[i - 1] \o s[i]]

(* Such a function exists for every length.                                  *)
LEMMA FlattensExists ==
  ASSUME NEW s
  PROVE  \A m \in Nat : \E h : Flattens(s, m, h)
<1>. DEFINE T == {m \in Nat : \E h : Flattens(s, m, h)}
<1>1. 0 \in T
  <2>. DEFINE h == [i \in 1..0 |-> s[i]]
  <2>1. Flattens(s, 0, h)
    BY DEF Flattens
  <2>. QED BY <2>1
<1>2. ASSUME NEW m \in Nat, m \in T PROVE m + 1 \in T
  <2>1. PICK g : Flattens(s, m, g)
    BY <1>2
  <2>. DEFINE h == [i \in 1..(m + 1) |->
                      IF i \in 1..m THEN g[i] ELSE IF i = 1 THEN s[i] ELSE g[m] \o s[i]]
              k == [i \in 1..(m + 1) |-> IF i = 1 THEN s[i] ELSE h[i - 1] \o s[i]]
  <2>2. ASSUME NEW i \in 1..(m + 1) PROVE h[i] = k[i]
    <3>1. CASE i = m + 1
      <4>1. i \notin 1..m /\ i - 1 = m /\ (i # 1 => m \in 1..m /\ m \in 1..(m + 1))
        BY <3>1
      <4>. QED BY <3>1, <4>1
    <3>2. CASE i \in 1..m
      <4>1. i # 1 => i - 1 \in 1..m /\ i - 1 \in 1..(m + 1)
        BY <3>2
      <4>2. g[i] = IF i = 1 THEN s[i] ELSE g[i - 1] \o s[i]
        BY <2>1, <3>2 DEF Flattens
      <4>. QED BY <3>2, <4>1, <4>2
    <3>. QED BY <3>1, <3>2
  <2>3. h = k
    <3>. HIDE DEF h
    <3>1. h = [i \in 1..(m + 1) |-> h[i]]
      BY DEF h
    <3>2. k = [i \in 1..(m + 1) |-> k[i]]
      OBVIOUS
    <3>. HIDE DEF k
    <3>. QED BY <2>2, <3>1, <3>2
  <2>4. Flattens(s, m + 1, h)
    BY <2>3, Zenon DEF Flattens
  <2>. QED BY <2>4
<1>. HIDE DEF T
<1>3. \A m \in Nat : m \in T
  BY <1>1, <1>2, CountUp
<1>. QED BY <1>3 DEF T

(* FlattenSeq is what it ends with.                                           *)
LEMMA FlattenRecurses ==
  ASSUME NEW s, Len(s) \in Nat, Len(s) # 0
  PROVE  \E h : Flattens(s, Len(s), h) /\ FlattenSeq(s) = h[Len(s)]
<1>. DEFINE flatten[i \in 1..Len(s)] == IF i = 1 THEN s[i] ELSE flatten[i - 1] \o s[i]
<1>1. FlattenSeq(s) = flatten[Len(s)]
  BY Zenon DEF FlattenSeq
<1>2. \E h : Flattens(s, Len(s), h)
  BY FlattensExists
<1>3. Flattens(s, Len(s), flatten)
  BY <1>2, Zenon DEF Flattens
<1>. QED BY <1>1, <1>3, Zenon

(* Its elements are those of its sequences, in their order: P holds of each,   *)
(* and O of each and any later one, if they do in the sequences.              *)
LEMMA FlattenKeepsOrder ==
  ASSUME NEW S, NEW s \in Seq(Seq(S)), NEW P, NEW O,
         \A i \in 1..Len(s) : \A k \in 1..Len(s[i]) : s[i][k] \in P,
         \A i, j \in 1..Len(s) : \A k \in 1..Len(s[i]) : \A l \in 1..Len(s[j]) :
           i < j \/ (i = j /\ k < l) => <<s[i][k], s[j][l]>> \in O
  PROVE  /\ FlattenSeq(s) \in Seq(S)
         /\ \A k \in 1..Len(FlattenSeq(s)) : FlattenSeq(s)[k] \in P
         /\ \A k, l \in 1..Len(FlattenSeq(s)) :
              k < l => <<FlattenSeq(s)[k], FlattenSeq(s)[l]>> \in O
<1>0. \A m : Len(m) \in Nat => ~(0 \in 1..Len(m))
  OBVIOUS
<1>1. CASE Len(s) = 0
  <2>1. FlattenSeq(s) = s /\ s = <<>>
    BY <1>1 DEF FlattenSeq
  <2>. QED BY <2>1
<1>2. CASE Len(s) # 0
  <2>1. PICK h : Flattens(s, Len(s), h) /\ FlattenSeq(s) = h[Len(s)]
    BY <1>2, FlattenRecurses
  <2>. DEFINE Good(m) ==
         /\ h[m] \in Seq(S)
         /\ \A k \in 1..Len(h[m]) : \E i \in 1..m : \E l \in 1..Len(s[i]) : h[m][k] = s[i][l]
         /\ \A k, l \in 1..Len(h[m]) : k < l => <<h[m][k], h[m][l]>> \in O
              T == {m \in Nat : m \in 1..Len(s) => Good(m)}
  <2>. HIDE DEF Good
  <2>2. \A i \in 1..Len(s) : h[i] = IF i = 1 THEN s[i] ELSE h[i - 1] \o s[i]
    BY <2>1 DEF Flattens
  <2>3. 0 \in T
    <3>1. ~(0 \in 1..Len(s))
      BY <1>0, LenProperties
    <3>. QED BY <3>1
  <2>4. ASSUME NEW m \in Nat, m \in T PROVE m + 1 \in T
    <3>. SUFFICES ASSUME m + 1 \in 1..Len(s) PROVE Good(m + 1)
      OBVIOUS
    <3>. USE DEF Good
    <3>0. s[m + 1] \in Seq(S)
      OBVIOUS
    <3>1. CASE m = 0
      <4>1. h[1] = s[1] /\ m + 1 = 1 /\ 1 \in 1..Len(s)
        BY <2>2, <3>1
      <4>2. \A k \in 1..Len(h[1]) : \E i \in 1..1 : \E l \in 1..Len(s[i]) : h[1][k] = s[i][l]
        BY <4>1
      <4>3. ASSUME NEW k \in 1..Len(h[1]), NEW l \in 1..Len(h[1]), k < l PROVE <<h[1][k], h[1][l]>> \in O
        BY <4>1, <4>3
      <4>4. h[1] \in Seq(S)
        BY <3>0, <4>1
      <4>5. Good(1)
        BY <4>2, <4>3, <4>4
      <4>. HIDE DEF Good
      <4>. QED BY <4>1, <4>5
    <3>2. CASE m # 0
      <4>1. Good(m) /\ h[m + 1] = h[m] \o s[m + 1] /\ m \in 1..Len(s)
        <5>1. m + 1 # 1 /\ (m + 1) - 1 = m /\ m \in 1..Len(s)
          BY <3>2
        <5>. QED BY <2>2, <2>4, <5>1
      <4>. DEFINE a == h[m]
                  b == s[m + 1]
                  c == h[m + 1]
      <4>2. /\ a \in Seq(S) /\ b \in Seq(S) /\ c = a \o b
            /\ \A k \in 1..Len(a) : \E i \in 1..m : \E l \in 1..Len(s[i]) : a[k] = s[i][l]
            /\ \A k, l \in 1..Len(a) : k < l => <<a[k], a[l]>> \in O
        BY <3>0, <4>1
      <4>. HIDE DEF a, c
      <4>3. /\ c \in Seq(S) /\ Len(c) = Len(a) + Len(b)
            /\ \A k \in 1..Len(c) : c[k] = IF k <= Len(a) THEN a[k] ELSE b[k - Len(a)]
        <5>. HIDE DEF b
        <5>. QED BY <4>2, ConcatProperties
      <4>4. ASSUME NEW k \in 1..Len(c)
            PROVE  \E i \in 1..(m + 1) : \E l \in 1..Len(s[i]) :
                     /\ c[k] = s[i][l]
                     /\ k <= Len(a) => i <= m
                     /\ ~(k <= Len(a)) => i = m + 1 /\ l = k - Len(a)
        <5>1. CASE k <= Len(a)
          <6>1. k \in 1..Len(a) /\ c[k] = a[k]
            BY <4>2, <4>3, <5>1
          <6>2. PICK i \in 1..m : \E l \in 1..Len(s[i]) : a[k] = s[i][l]
            BY <4>2, <6>1
          <6>3. i \in 1..(m + 1) /\ i <= m
            OBVIOUS
          <6>. QED BY <5>1, <6>1, <6>2, <6>3
        <5>2. CASE ~(k <= Len(a))
          <6>1. k - Len(a) \in 1..Len(b) /\ c[k] = b[k - Len(a)]
            BY <4>2, <4>3, <5>2
          <6>2. m + 1 \in 1..(m + 1)
            OBVIOUS
          <6>. QED BY <5>2, <6>1, <6>2
        <5>. QED BY <5>1, <5>2
      <4>5. ASSUME NEW k \in 1..Len(c), NEW l \in 1..Len(c), k < l PROVE <<c[k], c[l]>> \in O
        <5>1. CASE l <= Len(a)
          <6>1. k \in 1..Len(a) /\ l \in 1..Len(a) /\ c[k] = a[k] /\ c[l] = a[l]
            BY <4>2, <4>3, <4>5, <5>1
          <6>. QED BY <4>2, <4>5, <6>1
        <5>2. CASE ~(l <= Len(a))
          <6>1. PICK i \in 1..(m + 1) : \E x \in 1..Len(s[i]) :
                       /\ c[k] = s[i][x]
                       /\ k <= Len(a) => i <= m
                       /\ ~(k <= Len(a)) => i = m + 1 /\ x = k - Len(a)
            BY <4>4
          <6>2. PICK x \in 1..Len(s[i]) :
                       /\ c[k] = s[i][x]
                       /\ k <= Len(a) => i <= m
                       /\ ~(k <= Len(a)) => i = m + 1 /\ x = k - Len(a)
            BY <6>1
          <6>3. c[l] = s[m + 1][l - Len(a)] /\ l - Len(a) \in 1..Len(s[m + 1])
            BY <4>2, <4>3, <5>2
          <6>4. i \in 1..Len(s) /\ m + 1 \in 1..Len(s)
            OBVIOUS
          <6>5. i < m + 1 \/ (i = m + 1 /\ x < l - Len(a))
            BY <4>2, <4>5, <6>2
          <6>. QED BY <6>2, <6>3, <6>4, <6>5
        <5>. QED BY <5>1, <5>2
      <4>6. \A k \in 1..Len(c) : \E i \in 1..(m + 1) : \E l \in 1..Len(s[i]) : c[k] = s[i][l]
        BY <4>4
      <4>. QED BY <4>3, <4>5, <4>6 DEF c
    <3>. QED BY <3>1, <3>2
  <2>. HIDE DEF T
  <2>5. \A m \in Nat : m \in T
    BY <2>3, <2>4, CountUp
  <2>6. Len(s) \in Nat /\ Len(s) \in 1..Len(s)
    BY <1>2
  <2>7. Good(Len(s))
    BY <2>5, <2>6 DEF T
  <2>. DEFINE f == FlattenSeq(s)
  <2>8. /\ f \in Seq(S) /\ \A k \in 1..Len(f) : \E i \in 1..Len(s) : \E l \in 1..Len(s[i]) : f[k] = s[i][l]
        /\ \A k, l \in 1..Len(f) : k < l => <<f[k], f[l]>> \in O
    BY <2>1, <2>7 DEF Good
  <2>. HIDE DEF f
  <2>9. \A k \in 1..Len(f) : f[k] \in P
    BY <2>8
  <2>. QED BY <2>8, <2>9 DEF f
<1>. QED BY <1>1, <1>2
=============================================================================
