--------------------------- MODULE SharingProofs ---------------------------
(***************************************************************************)
(* What fibers share.                                                      *)
(*                                                                         *)
(* A semaphore loses no wake-up, with or without releaseAll, and is never    *)
(* oversubscribed until somebody calls releaseAll; for any clients, permits *)
(* and needs.  NoLostWakeup is inductive only with what the loop of the wake  *)
(* task relies on: it ends when no permit is free, so a waiter must need at  *)
(* least one, which it does because permits taken never exceed those there  *)
(* are; and it goes through `waiters`, so every waiting fiber is in it.     *)
(* NeverOversubscribed needs that nobody is granted permits twice, so that  *)
(* nobody is among the waiters twice (HoldInv).                            *)
(*                                                                         *)
(* A cache never gives a stale answer: an outdated fiber is named neither by   *)
(* the map nor by what a client found later (CacheInv).  A memoised layer is   *)
(* open for whom it counted: its counter is the number of users that have yet *)
(* to run their finalizer, or never got one (MemoInv).                       *)
(* What is handed over comes to one, in order: nobody has an offer before it    *)
(* is put in, and whoever has it is about to say so (HandoffInv); an element is *)
(* a consumer's or the drainer has it for one, and a drainer that runs has      *)
(* somebody to give to (InputInv); one fiber at a time is at work on a         *)
(* reference, so that a stream begins with no value in between (SubscriptionInv). *)
(* A token that was taken is with a caller or told to the fiber that refills,    *)
(* unless one was interrupted with it (LimiterInv); a sleeper is in one place,   *)
(* among the sleeps or with the one that wakes it, and the clock stands while    *)
(* anybody runs (ClockInv).                                                 *)
(* A finalizer of a scope is in it, before whoever closes it, or runs, and what   *)
(* a closed scope has not finished was cut short by an interruption (ScopeInv);   *)
(* of a ScopedRef one fiber at a time replaces the value (RefInv).             *)
(***************************************************************************)
EXTENDS Semaphore, FiberSharing, SequenceLemmas, FiniteSetTheorems, TLAPS

Typed ==
  /\ taken \in Int /\ taken <= Permits
  /\ waiters \in Seq(Client)
  /\ wakes \in Nat
  /\ waking \in Seq(Client)
  /\ pc \in [Client -> {"idle", "waiting", "granted", "using", "ended"}]
  /\ need \in [Client -> Needs]

ToldOf(c) ==
  pc[c] = "waiting" =>
    /\ c \in ToSet(waiters)
    /\ need[c] > 0
    /\ Fits(c) => wakes > 0 \/ c \in ToSet(waking)

WakeInv == Typed /\ \A c \in Client : ToldOf(c)

-----------------------------------------------------------------------------
(* A client asks for a number of permits.                                    *)
LEMMA NeedIsNat == ASSUME Typed, NEW c \in Client PROVE need[c] \in Nat
BY NeedsAssumption DEF Typed

(* Deleting a waiter keeps the others.                                       *)
LEMMA DeleteKeeps ==
  ASSUME Typed, NEW c \in Client
  PROVE  /\ Delete(c) \in Seq(Client)
         /\ \A e \in ToSet(waiters) : e # c => e \in ToSet(Delete(c))
<1>1. CASE c \notin ToSet(waiters)
  BY <1>1 DEF Delete, Typed
<1>2. CASE c \in ToSet(waiters)
  <2>. DEFINE i == CHOOSE j \in DOMAIN waiters : waiters[j] = c
  <2>1. i \in DOMAIN waiters /\ waiters[i] = c
    BY <1>2 DEF ToSet
  <2>2. waiters \in Seq(Client) /\ i \in 1..Len(waiters)
    BY <2>1 DEF Typed
  <2>3. Delete(c) = RemoveAt(waiters, i)
    BY <1>2 DEF Delete
  <2>. HIDE DEF i
  <2>4. Delete(c) \in Seq(Client)
    BY <2>2, <2>3, RemoveOne
  <2>5. ASSUME NEW e \in ToSet(waiters), e # c PROVE e \in ToSet(Delete(c))
    <3>1. e \in ToSet(RemoveAt(waiters, i))
      BY <2>1, <2>2, <2>5, RemoveKeeps
    <3>. QED BY <2>3, <3>1
  <2>. QED BY <2>4, <2>5
<1>. QED BY <1>1, <1>2

(* Fewer permits, and the same wake tasks or more.                          *)
LEMMA NotLess ==
  ASSUME WakeInv, NEW c \in Client, ToldOf(c), need' = need, taken' \in Int, taken' >= taken,
         wakes' \in Nat, wakes' >= wakes,
         pc'[c] = "waiting" => pc[c] = "waiting",
         c \in ToSet(waiters) /\ pc'[c] = "waiting" => c \in ToSet(waiters'),
         c \in ToSet(waking) /\ pc'[c] = "waiting" => c \in ToSet(waking')
  PROVE  ToldOf(c)'
<1>1. need[c] \in Nat /\ taken \in Int /\ wakes \in Nat /\ Permits \in Nat
  BY NeedIsNat, PermitsAssumption DEF WakeInv, Typed
<1>2. Fits(c)' => Fits(c)
  BY <1>1 DEF Fits, free
<1>. QED BY <1>1, <1>2 DEF ToldOf

(* Taking permits, or joining the waiters, leaves no waiter that could take  *)
(* without a wake-up on its way.                                             *)
LEMMA WakeTake ==
  ASSUME WakeInv, NEW c \in Client, Take(c)
  PROVE  WakeInv'
<1>1. need[c] \in Nat /\ Permits \in Nat /\ taken \in Int /\ taken <= Permits
  BY NeedIsNat, PermitsAssumption DEF WakeInv, Typed
<1>2. CASE free < need[c]
  <2>1. /\ waiters' = Append(waiters, c)
        /\ pc' = [pc EXCEPT ![c] = "waiting"]
        /\ UNCHANGED <<taken, wakes, waking, need>>
    BY <1>2 DEF Take
  <2>2. Typed'
    BY <2>1 DEF WakeInv, Typed
  <2>3. c \in ToSet(waiters') /\ \A d \in ToSet(waiters) : d \in ToSet(waiters')
    BY <2>1, AppendKeeps DEF WakeInv, Typed
  <2>4. ToldOf(c)'
    <3>1. need'[c] > 0 /\ ~Fits(c)'
      BY <1>1, <1>2, <2>1 DEF Fits, free
    <3>. QED BY <2>3, <3>1 DEF ToldOf
  <2>5. ASSUME NEW e \in Client, e # c PROVE ToldOf(e)'
    BY <2>1, <2>3, <2>5, NotLess DEF WakeInv, Typed
  <2>. QED BY <2>2, <2>4, <2>5 DEF WakeInv
<1>3. CASE ~(free < need[c])
  <2>1. /\ taken' = taken + need[c]
        /\ pc' = [pc EXCEPT ![c] = "granted"]
        /\ UNCHANGED <<waiters, wakes, waking, need>>
    BY <1>3 DEF Take, Grant
  <2>2. Typed'
    BY <1>1, <1>3, <2>1 DEF WakeInv, Typed, free
  <2>3. ASSUME NEW e \in Client PROVE ToldOf(e)'
    BY <1>1, <2>1, NotLess DEF WakeInv, Typed
  <2>. QED BY <2>2, <2>3 DEF WakeInv
<1>. QED BY <1>2, <1>3

(* Permits given back: whoever waits is in `waiters`, so a task is scheduled.*)
LEMMA WakeUpdate ==
  ASSUME WakeInv, NEW n \in Int, n <= Permits, UpdateTaken(n),
         UNCHANGED <<waiters, waking, need>>,
         pc' \in [Client -> {"idle", "waiting", "granted", "using", "ended"}],
         \A e \in Client : pc'[e] = "waiting" => pc[e] = "waiting"
  PROVE  WakeInv'
<1>1. Typed'
  BY DEF WakeInv, Typed, UpdateTaken
<1>2. ASSUME NEW e \in Client PROVE ToldOf(e)'
  <2>1. CASE SomebodyWaits
    BY <2>1 DEF WakeInv, Typed, ToldOf, UpdateTaken
  <2>2. CASE ~SomebodyWaits
    <3>1. ToSet(waiters) = {}
      BY <2>2 DEF SomebodyWaits, ToSet
    <3>. QED BY <3>1 DEF WakeInv, ToldOf
  <2>. QED BY <2>1, <2>2
<1>. QED BY <1>1, <1>2 DEF WakeInv

(* A wake-up task begins with all who wait at that moment.                   *)
LEMMA WakeRun ==
  ASSUME WakeInv, RunWake
  PROVE  WakeInv'
<1>1. Typed'
  BY DEF WakeInv, Typed, RunWake
<1>2. ASSUME NEW e \in Client PROVE ToldOf(e)'
  BY DEF WakeInv, ToldOf, RunWake, Fits, free
<1>. QED BY <1>1, <1>2 DEF WakeInv

(* Offering permits to the next waiter passes by only one that does not      *)
(* fit.                                                                      *)
LEMMA WakeStep ==
  ASSUME WakeInv, Wake
  PROVE  WakeInv'
<1>. DEFINE c == Head(waking)
<1>1. c \in Client /\ waking \in Seq(Client) /\ waking # <<>> /\ Tail(waking) \in Seq(Client)
  BY DEF WakeInv, Typed, Wake
<1>2. need[c] \in Nat /\ Permits \in Nat /\ taken \in Int /\ taken <= Permits
  BY <1>1, NeedIsNat, PermitsAssumption DEF WakeInv, Typed
<1>3. UNCHANGED <<wakes, need>>
  BY DEF Wake
<1>4. CASE free <= 0
  <2>1. waking' = <<>> /\ UNCHANGED <<taken, waiters, pc>>
    BY <1>2, <1>4 DEF Wake, free
  <2>2. Typed'
    BY <1>3, <2>1 DEF WakeInv, Typed
  <2>3. ASSUME NEW e \in Client PROVE ToldOf(e)'
    <3>1. need[e] \in Nat
      BY NeedIsNat DEF WakeInv
    <3>2. pc[e] = "waiting" => ~Fits(e)'
      BY <1>2, <1>3, <1>4, <2>1, <3>1 DEF WakeInv, ToldOf, Fits, free
    <3>. QED BY <1>3, <2>1, <3>2 DEF WakeInv, ToldOf
  <2>. QED BY <2>2, <2>3 DEF WakeInv
<1>5. CASE free > 0 /\ Fits(c)
  <2>1. /\ taken' = taken + need[c]
        /\ pc' = [pc EXCEPT ![c] = "granted"]
        /\ waiters' = Delete(c)
        /\ waking' = Tail(waking)
    BY <1>2, <1>5 DEF Wake, Grant, RestAfter, free
  <2>2. Delete(c) \in Seq(Client)
    BY <1>1, DeleteKeeps DEF WakeInv
  <2>3. Typed'
    BY <1>1, <1>2, <1>3, <1>5, <2>1, <2>2 DEF WakeInv, Typed, Fits, free
  <2>4. ASSUME NEW e \in Client PROVE ToldOf(e)'
    <3>1. CASE e = c
      BY <1>1, <2>1, <3>1 DEF ToldOf, WakeInv, Typed
    <3>2. CASE e # c
      <4>1. e \in ToSet(waking) => e \in ToSet(waking')
        BY <1>1, <2>1, <3>2, TailKeeps
      <4>2. e \in ToSet(waiters) => e \in ToSet(waiters')
        BY <1>1, <2>1, <3>2, DeleteKeeps DEF WakeInv
      <4>3. pc'[e] = pc[e]
        BY <1>1, <2>1, <3>2 DEF WakeInv, Typed
      <4>. QED BY <1>2, <1>3, <2>1, <4>1, <4>2, <4>3, NotLess DEF WakeInv, Typed
    <3>. QED BY <3>1, <3>2
  <2>. QED BY <2>3, <2>4 DEF WakeInv
<1>6. CASE free > 0 /\ ~Fits(c)
  <2>1. waking' = Tail(waking) /\ UNCHANGED <<taken, waiters, pc>>
    BY <1>2, <1>6 DEF Wake, RestAfter, free
  <2>2. Typed'
    BY <1>1, <1>3, <2>1 DEF WakeInv, Typed
  <2>3. ASSUME NEW e \in Client PROVE ToldOf(e)'
    <3>1. CASE e = c
      BY <1>3, <1>6, <2>1, <3>1 DEF WakeInv, ToldOf, Fits, free
    <3>2. CASE e # c
      <4>1. e \in ToSet(waking) => e \in ToSet(waking')
        BY <1>1, <2>1, <3>2, TailKeeps
      <4>. QED BY <1>3, <2>1, <4>1, NotLess DEF WakeInv, Typed
    <3>. QED BY <3>1, <3>2
  <2>. QED BY <2>2, <2>3 DEF WakeInv
<1>. QED BY <1>2, <1>4, <1>5, <1>6 DEF free

(* Every step keeps it.                                                      *)
LEMMA WakeNext == WakeInv /\ [Next]_vars => WakeInv'
<1>. SUFFICES ASSUME WakeInv, [Next]_vars PROVE WakeInv'
  OBVIOUS
<1>1. CASE UNCHANGED vars
  BY <1>1 DEF vars, WakeInv, Typed, ToldOf, Fits, free
<1>2. ASSUME NEW c \in Client, Take(c) PROVE WakeInv'
  BY <1>2, WakeTake
<1>3. ASSUME NEW c \in Client, Release(c) PROVE WakeInv'
  <2>1. need[c] \in Nat /\ Permits \in Nat /\ taken \in Int /\ taken <= Permits
    BY NeedIsNat, PermitsAssumption DEF WakeInv, Typed
  <2>2. taken - need[c] \in Int /\ taken - need[c] <= Permits
    BY <2>1
  <2>. QED BY <1>3, <2>2, WakeUpdate DEF Release, WakeInv, Typed
<1>4. CASE ReleaseAll
  BY <1>4, WakeUpdate, PermitsAssumption DEF ReleaseAll, WakeInv, Typed
<1>5. CASE RunWake
  BY <1>5, WakeRun
<1>6. CASE Wake
  BY <1>6, WakeStep
<1>7. ASSUME NEW c \in Client, Resume(c) \/ Interrupt(c) PROVE WakeInv'
  <2>1. /\ UNCHANGED <<taken, waiters, wakes, waking, need>>
        /\ pc' \in [Client -> {"idle", "waiting", "granted", "using", "ended"}]
        /\ \A e \in Client : pc'[e] = "waiting" => pc[e] = "waiting"
    BY <1>7 DEF Resume, Interrupt, WakeInv, Typed
  <2>. QED BY <2>1 DEF WakeInv, Typed, ToldOf, Fits, free
<1>8. ASSUME NEW c \in Client, Cancel(c) PROVE WakeInv'
  <2>1. /\ UNCHANGED <<taken, wakes, waking, need>>
        /\ waiters' = Delete(c)
        /\ pc' = [pc EXCEPT ![c] = "ended"]
    BY <1>8 DEF Cancel
  <2>2. Typed'
    BY <2>1, DeleteKeeps DEF WakeInv, Typed
  <2>3. ASSUME NEW e \in Client PROVE ToldOf(e)'
    <3>1. CASE e = c
      BY <2>1, <3>1 DEF ToldOf, WakeInv, Typed
    <3>2. CASE e # c
      <4>1. e \in ToSet(waiters) => e \in ToSet(waiters')
        BY <2>1, <3>2, DeleteKeeps DEF WakeInv
      <4>2. pc'[e] = pc[e]
        BY <2>1, <3>2 DEF WakeInv, Typed
      <4>. QED BY <2>1, <4>1, <4>2 DEF WakeInv, ToldOf, Fits, free
    <3>. QED BY <3>1, <3>2
  <2>. QED BY <2>2, <2>3 DEF WakeInv
<1>. QED BY <1>1, <1>2, <1>3, <1>4, <1>5, <1>6, <1>7, <1>8 DEF Next, Step

(* A waiting fiber for which there are permits is about to be told of them,  *)
(* whatever the others ask for and give back.                               *)
THEOREM NoWakeupLost == Spec => []NoLostWakeup
<1>1. Init => WakeInv
  BY PermitsAssumption DEF Init, WakeInv, Typed, ToldOf
<1>2. WakeInv /\ [Next]_vars => WakeInv'
  BY WakeNext
<1>3. WakeInv => NoLostWakeup
  BY DEF WakeInv, ToldOf, NoLostWakeup
<1>. QED BY <1>1, <1>2, <1>3, PTL DEF Spec

-----------------------------------------------------------------------------
(* How many permits a set of clients asks for, with one client more or less. *)
LEMMA AskedOf ==
  ASSUME Typed, NEW D \in SUBSET Client, IsFiniteSet(Slips(D)), NEW c \in Client
  PROVE  /\ IsFiniteSet(Slips(D \cup {c})) /\ IsFiniteSet(Slips(D \ {c}))
         /\ c \notin D => Asked(D \cup {c}) = Asked(D) + need[c]
         /\ c \in D => Asked(D \ {c}) = Asked(D) - need[c]
         /\ Asked(D) \in Nat
<1>. DEFINE mine == {c} \X (1..need[c])
<1>1. IsFiniteSet(mine) /\ Cardinality(mine) = need[c]
  <2>1. need[c] \in Nat
    BY NeedIsNat
  <2>2. IsFiniteSet(1..need[c]) /\ Cardinality(1..need[c]) = need[c]
    BY <2>1, FS_Interval
  <2>3. IsFiniteSet({c}) /\ Cardinality({c}) = 1
    BY FS_Singleton
  <2>4. IsFiniteSet(mine) /\ Cardinality(mine) = Cardinality({c}) * Cardinality(1..need[c])
    BY <2>2, <2>3, FS_Product
  <2>5. 1 * need[c] = need[c]
    BY <2>1
  <2>. QED BY <2>2, <2>3, <2>4, <2>5
<1>2. \A p : p \in mine => p[1] = c
  OBVIOUS
<1>3. \A E, p : p \in Slips(E) <=> \E d \in E : p \in {d} \X (1..need[d])
  BY DEF Slips
<1>. HIDE DEF mine
<1>4. Slips(D \cup {c}) = Slips(D) \cup mine
  BY <1>3 DEF mine
<1>5. Slips(D \ {c}) = Slips(D) \ mine
  <2>1. \A d, p : d # c /\ p \in {d} \X (1..need[d]) => p \notin mine
    BY <1>2
  <2>2. ASSUME NEW p, p \in Slips(D) \ mine PROVE p \in Slips(D \ {c})
    <3>1. PICK d \in D : p \in {d} \X (1..need[d])
      BY <1>3, <2>2
    <3>2. d # c
      BY <2>2, <3>1 DEF mine
    <3>. QED BY <1>3, <3>1, <3>2
  <2>3. ASSUME NEW p, p \in Slips(D \ {c}) PROVE p \in Slips(D) \ mine
    <3>1. PICK d \in D \ {c} : p \in {d} \X (1..need[d])
      BY <1>3, <2>3
    <3>. QED BY <1>3, <2>1, <3>1
  <2>. QED BY <2>2, <2>3
<1>6. c \notin D => Slips(D) \cap mine = {}
  <2>1. SUFFICES ASSUME c \notin D, NEW p, p \in Slips(D), p \in mine PROVE FALSE
    OBVIOUS
  <2>2. PICK d \in D : p \in {d} \X (1..need[d])
    BY <1>3, <2>1
  <2>3. p[1] = d
    BY <2>2
  <2>. QED BY <1>2, <2>1, <2>2, <2>3
<1>7. c \in D => Slips(D) \cap mine = mine
  BY <1>3 DEF mine
<1>8. IsFiniteSet(Slips(D) \cup mine) /\ IsFiniteSet(Slips(D) \ mine)
      /\ Cardinality(Slips(D) \cup mine)
           = Cardinality(Slips(D)) + Cardinality(mine) - Cardinality(Slips(D) \cap mine)
      /\ Cardinality(Slips(D) \ mine) = Cardinality(Slips(D)) - Cardinality(Slips(D) \cap mine)
  BY <1>1, FS_Union, FS_Difference
<1>9. Cardinality(Slips(D)) \in Nat /\ need[c] \in Nat
  BY FS_CardinalityType, NeedIsNat
<1>10. Cardinality({}) = 0
  BY FS_EmptySet
<1>11. IsFiniteSet(Slips(D \cup {c})) /\ IsFiniteSet(Slips(D \ {c}))
  BY <1>4, <1>5, <1>8
<1>12. ASSUME c \notin D PROVE Asked(D \cup {c}) = Asked(D) + need[c]
  <2>1. Cardinality(Slips(D) \cap mine) = 0
    BY <1>6, <1>10, <1>12
  <2>2. Asked(D \cup {c}) = Cardinality(Slips(D) \cup mine) /\ Asked(D) = Cardinality(Slips(D))
    BY <1>4 DEF Asked
  <2>. QED BY <1>1, <1>8, <1>9, <2>1, <2>2
<1>13. ASSUME c \in D PROVE Asked(D \ {c}) = Asked(D) - need[c]
  BY <1>1, <1>5, <1>7, <1>8, <1>9, <1>13 DEF Asked
<1>. QED BY <1>9, <1>11, <1>12, <1>13 DEF Asked

(* Who holds permits: nobody who has not been granted some, so a grant adds   *)
(* a client.  An observer is granted permits once because it is once among    *)
(* the waiters, and the wake task that holds the thread goes through those.   *)
HoldInv ==
  /\ released \in BOOLEAN
  /\ holding \in SUBSET Client
  /\ IsFiniteSet(Slips(holding))
  /\ IsInjective(waiters) /\ ToSet(waiters) = {c \in Client : pc[c] = "waiting"}
  /\ IsInjective(waking) /\ ToSet(waking) \subseteq ToSet(waiters)
  /\ \A c \in Client : /\ pc[c] \in {"granted", "using"} => c \in holding
                       /\ pc[c] \in {"idle", "waiting"} => c \notin holding
  /\ ~released => taken = Asked(holding)

(* Deleting a waiter removes it and nobody else.                             *)
LEMMA DeleteExactly ==
  ASSUME Typed, IsInjective(waiters), NEW c \in ToSet(waiters)
  PROVE  IsInjective(Delete(c)) /\ ToSet(Delete(c)) = ToSet(waiters) \ {c}
<1>. DEFINE i == CHOOSE j \in DOMAIN waiters : waiters[j] = c
<1>1. i \in DOMAIN waiters /\ waiters[i] = c
  BY DEF ToSet
<1>2. waiters \in Seq(Client) /\ i \in 1..Len(waiters)
  BY <1>1 DEF Typed
<1>3. Delete(c) = RemoveAt(waiters, i)
  BY DEF Delete
<1>. HIDE DEF i
<1>. QED BY <1>1, <1>2, <1>3, RemoveExactly

(* The grant of permits to one that holds none.                             *)
LEMMA HoldGrant ==
  ASSUME Typed, HoldInv, NEW c \in Client, pc[c] \in {"idle", "waiting"}, Grant(c),
         UNCHANGED <<need, released>>,
         IsInjective(waiters'), ToSet(waiters') = ToSet(waiters) \ {c},
         IsInjective(waking'), ToSet(waking') \subseteq ToSet(waking) \ {c}
  PROVE  HoldInv'
<1>1. /\ taken' = taken + need[c] /\ holding' = holding \cup {c} /\ pc' = [pc EXCEPT ![c] = "granted"]
      /\ c \notin holding
  BY DEF Grant, HoldInv
<1>2. /\ IsFiniteSet(Slips(holding \cup {c})) /\ Asked(holding \cup {c}) = Asked(holding) + need[c]
  BY <1>1, AskedOf DEF HoldInv
<1>3. IsFiniteSet(Slips(holding))' /\ Asked(holding)' = Asked(holding) + need[c]
  BY <1>1, <1>2 DEF Slips, Asked
<1>4. ToSet(waiters') = {d \in Client : pc'[d] = "waiting"}
  BY <1>1 DEF HoldInv, Typed
<1>5. \A d \in Client : /\ pc'[d] \in {"granted", "using"} => d \in holding'
                        /\ pc'[d] \in {"idle", "waiting"} => d \notin holding'
  BY <1>1 DEF HoldInv, Typed
<1>6. ToSet(waking') \subseteq ToSet(waiters')
  BY DEF HoldInv
<1>. QED BY <1>1, <1>3, <1>4, <1>5, <1>6 DEF HoldInv

(* Steps that grant nothing.                                                *)
LEMMA HoldKept ==
  ASSUME Typed, HoldInv, need' = need, pc' \in [Client -> {"idle", "waiting", "granted", "using", "ended"}],
         released' \in BOOLEAN, holding' = holding, ~released' => ~released /\ taken' = taken,
         \A c \in Client : pc'[c] # pc[c] => pc'[c] \notin {"idle", "waiting"}
                                           /\ (pc'[c] \in {"granted", "using"} => pc[c] = "granted"),
         IsInjective(waiters'), ToSet(waiters') = {d \in Client : pc'[d] = "waiting"},
         IsInjective(waking'), ToSet(waking') \subseteq ToSet(waiters')
  PROVE  HoldInv'
<1>1. Asked(holding)' = Asked(holding) /\ Slips(holding)' = Slips(holding)
  BY DEF Asked, Slips
<1>2. \A d \in Client : /\ pc'[d] \in {"granted", "using"} => d \in holding'
                        /\ pc'[d] \in {"idle", "waiting"} => d \notin holding'
  BY DEF HoldInv, Typed
<1>. QED BY <1>1, <1>2 DEF HoldInv

(* Every step keeps the permits taken in line with who holds them.           *)
LEMMA HoldNext == WakeInv /\ HoldInv /\ [Next]_vars => HoldInv'
<1>. SUFFICES ASSUME WakeInv, HoldInv, [Next]_vars PROVE HoldInv'
  OBVIOUS
<1>0. Typed /\ Typed'
  BY WakeNext DEF WakeInv
<1>1. CASE UNCHANGED vars
  BY <1>1 DEF vars, HoldInv, Asked, Slips
<1>2. ASSUME NEW c \in Client, Take(c) PROVE HoldInv'
  <2>1. /\ pc[c] = "idle" /\ c \notin ToSet(waiters) /\ waking' = <<>> /\ waking = <<>>
        /\ UNCHANGED <<need, released>>
    BY <1>2 DEF Take, HoldInv, Idle
  <2>2. IsInjective(<<>>) /\ ToSet(<<>>) = {}
    BY DEF IsInjective, ToSet
  <2>3. CASE free < need[c]
    <3>1. /\ waiters' = Append(waiters, c) /\ UNCHANGED <<taken, holding>>
          /\ pc' = [pc EXCEPT ![c] = "waiting"]
      BY <1>2, <2>3 DEF Take
    <3>2. IsInjective(Append(waiters, c)) /\ ToSet(Append(waiters, c)) = ToSet(waiters) \cup {c}
      BY <1>0, <2>1, AppendExactly DEF HoldInv, Typed
    <3>3. ToSet(waiters') = {d \in Client : pc'[d] = "waiting"}
      BY <1>0, <3>1, <3>2 DEF HoldInv, Typed
    <3>4. \A d \in Client : /\ pc'[d] \in {"granted", "using"} => d \in holding'
                            /\ pc'[d] \in {"idle", "waiting"} => d \notin holding'
      BY <1>0, <2>1, <3>1 DEF HoldInv, Typed
    <3>5. Asked(holding)' = Asked(holding) /\ Slips(holding)' = Slips(holding)
      BY <2>1, <3>1 DEF Asked, Slips
    <3>. QED BY <2>1, <2>2, <3>1, <3>2, <3>3, <3>4, <3>5 DEF HoldInv
  <2>4. CASE ~(free < need[c])
    <3>1. Grant(c) /\ waiters' = waiters
      BY <1>2, <2>4 DEF Take
    <3>2. /\ IsInjective(waiters') /\ ToSet(waiters') = ToSet(waiters) \ {c}
          /\ IsInjective(waking') /\ ToSet(waking') \subseteq ToSet(waking) \ {c}
      BY <2>1, <2>2, <3>1 DEF HoldInv
    <3>. QED BY <1>0, <2>1, <3>1, <3>2, HoldGrant
  <2>. QED BY <2>3, <2>4
<1>3. ASSUME NEW c \in Client, Release(c) PROVE HoldInv'
  <2>1. /\ pc[c] = "using" /\ c \in holding /\ taken' = taken - need[c] /\ holding' = holding \ {c}
        /\ pc' = [pc EXCEPT ![c] = "ended"] /\ UNCHANGED <<waiters, waking, need, released>>
    BY <1>3 DEF Release, UpdateTaken, HoldInv
  <2>2. IsFiniteSet(Slips(holding \ {c})) /\ Asked(holding \ {c}) = Asked(holding) - need[c]
    BY <1>0, <2>1, AskedOf DEF HoldInv
  <2>3. IsFiniteSet(Slips(holding))' /\ Asked(holding)' = Asked(holding) - need[c]
    BY <2>1, <2>2 DEF Slips, Asked
  <2>4. ToSet(waiters') = {d \in Client : pc'[d] = "waiting"}
    BY <1>0, <2>1 DEF HoldInv, Typed
  <2>5. \A d \in Client : /\ pc'[d] \in {"granted", "using"} => d \in holding'
                          /\ pc'[d] \in {"idle", "waiting"} => d \notin holding'
    BY <1>0, <2>1 DEF HoldInv, Typed
  <2>. QED BY <2>1, <2>3, <2>4, <2>5 DEF HoldInv
<1>4. CASE ReleaseAll
  BY <1>0, <1>4, HoldKept DEF ReleaseAll, HoldInv, Typed
<1>5. CASE RunWake
  BY <1>0, <1>5, HoldKept DEF RunWake, HoldInv, Typed
<1>6. CASE Wake
  <2>. DEFINE c == Head(waking)
  <2>1. waking # <<>> /\ waking \in Seq(Client) /\ c \in ToSet(waking) /\ UNCHANGED <<need, released>>
    BY <1>0, <1>6 DEF Wake, Typed, ToSet
  <2>2. c \in Client /\ pc[c] = "waiting" /\ c \in ToSet(waiters)
    BY <2>1 DEF HoldInv
  <2>3. IsInjective(Tail(waking)) /\ ToSet(Tail(waking)) = ToSet(waking) \ {c}
    BY <2>1, TailExactly DEF HoldInv
  <2>4. IsInjective(<<>>) /\ ToSet(<<>>) = {}
    BY DEF IsInjective, ToSet
  <2>5. free \in Int
    BY <1>0, PermitsAssumption DEF free, Typed
  <2>6. CASE free > 0 /\ Fits(c)
    <3>1. Grant(c) /\ waiters' = Delete(c) /\ waking' = Tail(waking)
      BY <1>6, <2>5, <2>6 DEF Wake, RestAfter
    <3>2. /\ IsInjective(waiters') /\ ToSet(waiters') = ToSet(waiters) \ {c}
          /\ IsInjective(waking') /\ ToSet(waking') \subseteq ToSet(waking) \ {c}
      BY <1>0, <2>2, <2>3, <3>1, DeleteExactly DEF HoldInv
    <3>. QED BY <1>0, <2>1, <2>2, <3>1, <3>2, HoldGrant
  <2>7. CASE ~(free > 0 /\ Fits(c))
    <3>1. (waking' = <<>> \/ waking' = Tail(waking)) /\ UNCHANGED <<taken, waiters, pc, holding>>
      BY <1>6, <2>5, <2>7 DEF Wake, RestAfter
    <3>2. IsInjective(waking') /\ ToSet(waking') \subseteq ToSet(waking)
      BY <2>3, <2>4, <3>1
    <3>. QED BY <1>0, <2>1, <3>1, <3>2, HoldKept DEF HoldInv, Typed
  <2>. QED BY <2>6, <2>7
<1>7. ASSUME NEW c \in Client, Resume(c) \/ Interrupt(c) PROVE HoldInv'
  <2>1. /\ UNCHANGED <<taken, waiters, waking, need, released, holding>>
        /\ \A d \in Client : pc'[d] # pc[d] => pc[d] = "granted" /\ pc'[d] \in {"ended", "using"}
    BY <1>0, <1>7 DEF Resume, Interrupt, Typed
  <2>2. {d \in Client : pc'[d] = "waiting"} = {d \in Client : pc[d] = "waiting"}
    BY <2>1
  <2>3. /\ pc' \in [Client -> {"idle", "waiting", "granted", "using", "ended"}]
        /\ IsInjective(waiters') /\ ToSet(waiters') = {d \in Client : pc'[d] = "waiting"}
        /\ IsInjective(waking') /\ ToSet(waking') \subseteq ToSet(waiters') /\ released' \in BOOLEAN
    BY <1>0, <2>1, <2>2 DEF HoldInv, Typed
  <2>. QED BY <1>0, <2>1, <2>3, HoldKept
<1>8. ASSUME NEW c \in Client, Cancel(c) PROVE HoldInv'
  <2>1. /\ UNCHANGED <<taken, waking, need, released, holding>> /\ pc[c] = "waiting"
        /\ waiters' = Delete(c) /\ pc' = [pc EXCEPT ![c] = "ended"] /\ waking = <<>>
    BY <1>8 DEF Cancel, Idle
  <2>2. c \in ToSet(waiters)
    BY <2>1 DEF HoldInv
  <2>3. IsInjective(waiters') /\ ToSet(waiters') = ToSet(waiters) \ {c}
    BY <1>0, <2>1, <2>2, DeleteExactly DEF HoldInv
  <2>4. ToSet(waiters') = {d \in Client : pc'[d] = "waiting"}
    BY <1>0, <2>1, <2>3 DEF HoldInv, Typed
  <2>5. IsInjective(waking') /\ ToSet(waking') \subseteq ToSet(waiters')
    BY <2>1 DEF IsInjective, ToSet
  <2>6. \A d \in Client : /\ pc'[d] \in {"granted", "using"} => d \in holding'
                          /\ pc'[d] \in {"idle", "waiting"} => d \notin holding'
    BY <1>0, <2>1 DEF HoldInv, Typed
  <2>7. Asked(holding)' = Asked(holding) /\ Slips(holding)' = Slips(holding)
    BY <2>1 DEF Asked, Slips
  <2>. QED BY <2>1, <2>3, <2>4, <2>5, <2>6, <2>7 DEF HoldInv
<1>. QED BY <1>1, <1>2, <1>3, <1>4, <1>5, <1>6, <1>7, <1>8 DEF Next, Step

(* Whatever is asked for, given back and interrupted: until somebody calls   *)
(* releaseAll, every permit taken is somebody's, and the effects that run    *)
(* hold no more than there are.                                             *)
THEOREM PermitsRespected == Spec => []NeverOversubscribed
<1>1. Init => WakeInv /\ HoldInv
  <2>. SUFFICES ASSUME Init PROVE WakeInv /\ HoldInv
    OBVIOUS
  <2>1. WakeInv
    BY PermitsAssumption DEF Init, WakeInv, Typed, ToldOf
  <2>2. Slips({}) = {}
    BY DEF Slips
  <2>3. IsFiniteSet(Slips(holding)) /\ Asked(holding) = 0
    BY <2>2, FS_EmptySet DEF Init, Asked
  <2>4. IsInjective(<<>>) /\ ToSet(<<>>) = {}
    BY DEF IsInjective, ToSet
  <2>. QED BY <2>1, <2>3, <2>4 DEF Init, HoldInv
<1>2. WakeInv /\ HoldInv /\ [Next]_vars => (WakeInv /\ HoldInv)'
  BY WakeNext, HoldNext
<1>3. WakeInv /\ HoldInv => NeverOversubscribed
  <2>. SUFFICES ASSUME WakeInv, HoldInv, ~released
                PROVE  Asked({c \in Client : pc[c] = "using"}) <= Permits /\ taken = Asked(holding)
    BY DEF NeverOversubscribed
  <2>. DEFINE atWork == {c \in Client : pc[c] = "using"}
  <2>1. Slips(atWork) \subseteq Slips(holding)
    BY DEF HoldInv, Slips
  <2>. HIDE DEF atWork
  <2>2. IsFiniteSet(Slips(atWork)) /\ Asked(atWork) <= Asked(holding)
    BY <2>1, FS_Subset DEF HoldInv, Asked
  <2>3. Asked(atWork) \in Nat /\ taken = Asked(holding) /\ taken \in Int /\ taken <= Permits
    BY <2>2, FS_CardinalityType DEF WakeInv, Typed, HoldInv, Asked
  <2>. QED BY <2>2, <2>3, PermitsAssumption DEF atWork
<1>. QED BY <1>1, <1>2, <1>3, PTL DEF Spec

-----------------------------------------------------------------------------
(* The fibers a MapValue names: who looks the value up, and whose value it is. *)
Named(v) == {v.of, C!ValueOf(v)}

(* What the map has of a key is of that key and was not invalidated; what a    *)
(* client found had not been when it began.  Only who has written its value    *)
(* can be outdated.                                                         *)
CacheType ==
  /\ job \in [Asker -> C!Operations \X CacheKey]
  /\ DOMAIN map = CacheKey /\ outdated \subseteq Asker
  /\ DOMAIN asks = Asker /\ DOMAIN found = Asker /\ DOMAIN answer = Asker
  /\ deferred \in [Asker -> {"pending", "done", "interrupted"}]
  /\ barred \in [Asker -> SUBSET Asker]
Current ==
  \A k \in CacheKey : map[k] # Absent =>
    \A x \in Named(map[k]) : x \in Asker /\ C!KeyOf(x) = k /\ x \notin outdated
FoundThen ==
  \A x \in Asker :
    /\ found[x] # Absent =>
         \A y \in Named(found[x]) : y \in Asker /\ C!KeyOf(y) = C!KeyOf(x) /\ y \notin barred[x]
    /\ asks[x] \in {"resolve", "renew", "waiting"} => found[x] # Absent
Wrote ==
  \A x \in Asker :
    /\ x \in outdated => asks[x] \in {"announce", "ended"}
    /\ deferred[x] = "done" => asks[x] = "ended"
    /\ asks[x] # "ended" => answer[x] = "none"
    /\ barred[x] \subseteq outdated /\ x \notin barred[x]
CacheInv == CacheType /\ Current /\ FoundThen /\ Wrote /\ C!NoStaleAnswer

(* A client asks about a key of the cache.                                   *)
LEMMA CacheKeys == ASSUME CacheType, NEW x \in Asker PROVE C!KeyOf(x) \in CacheKey
BY DEF CacheType, C!KeyOf, C!Operations

(* To track an access only removes entries.                                  *)
LEMMA OnlyRemoves ==
  ASSUME NEW m, NEW mk
  PROVE  /\ DOMAIN C!Tracked(m, mk).map = CacheKey
         /\ \A k \in CacheKey : C!Tracked(m, mk).map[k] \in {Absent, m[k]}
BY DEF C!Tracked, C!Without

(* Who a new MapValue names.                                                 *)
LEMMA NamedBy ==
  ASSUME NEW k, NEW x, NEW v
  PROVE  /\ Named(C!Complete(k, x)) = {x} /\ Named(C!Pending(k, x)) = {x}
         /\ Named(C!Refreshing(v, x)) = {x, v.of}
BY DEF Named, C!Complete, C!Pending, C!Refreshing, C!ValueOf

(* A MapValue of a key that names nobody outdated.                            *)
ByThen(v, k) == \A x \in Named(v) : x \in Asker /\ C!KeyOf(x) = k /\ x \notin outdated

(* The map changes by removing entries and by one that a fiber that is not     *)
(* outdated, and perhaps the one it refreshes, put under its key.             *)
LEMMA CurrentStep ==
  ASSUME CacheInv, NEW c \in Asker, DOMAIN map' = CacheKey, UNCHANGED <<job, outdated>>,
         \A k \in CacheKey : map'[k] \in {Absent, map[k]} \/ (k = C!KeyOf(c) /\ ByThen(map'[k], k))
  PROVE  Current'
<1>. SUFFICES ASSUME NEW k \in CacheKey, map'[k] # Absent, NEW x \in Named(map'[k])
              PROVE  x \in Asker /\ C!KeyOf(x)' = k /\ x \notin outdated'
  BY DEF Current, Named, C!ValueOf
<1>1. C!KeyOf(x)' = C!KeyOf(x)
  BY DEF C!KeyOf
<1>2. CASE map'[k] = map[k]
  BY <1>1, <1>2 DEF CacheInv, Current
<1>3. CASE k = C!KeyOf(c) /\ ByThen(map'[k], k)
  BY <1>1, <1>3 DEF ByThen, Named, C!ValueOf
<1>. QED BY <1>2, <1>3

-----------------------------------------------------------------------------
(* A client that begins is told only what is current.                        *)
LEMMA BeginsThen ==
  ASSUME CacheInv, NEW c \in Asker, asks[c] \in C!Operations, C!Begins(c),
         UNCHANGED <<job, answer, outdated, deferred>>, DOMAIN map' = CacheKey,
         NEW where, where \notin {"resolve", "renew", "waiting"} \/ map[C!KeyOf(c)] # Absent,
         asks' = [asks EXCEPT ![c] = where],
         \/ found' = [found EXCEPT ![c] = map[C!KeyOf(c)]]
         \/ found' = found /\ where \notin {"resolve", "renew", "waiting"}
  PROVE  FoundThen' /\ Wrote' /\ C!NoStaleAnswer' /\ CacheType'
<1>. USE DEF CacheInv, CacheType
<1>1. /\ barred' \in [Asker -> SUBSET Asker]
      /\ \A x \in Asker : x # c => barred'[x] = barred[x]
      /\ barred'[c] \in {barred[c], outdated} /\ (found[c] # Absent => barred'[c] = barred[c])
  BY DEF C!Begins
<1>2. /\ c \notin outdated /\ barred[c] \subseteq outdated /\ deferred[c] # "done"
      /\ answer[c] = "none"
  BY DEF Wrote, C!Operations
<1>3. C!KeyOf(c) \in CacheKey /\ \A x \in Asker : C!KeyOf(x)' = C!KeyOf(x)
  BY CacheKeys DEF C!KeyOf
<1>4. Wrote'
  BY <1>1, <1>2 DEF Wrote
<1>5. FoundThen'
  <2>. SUFFICES ASSUME NEW x \in Asker
                PROVE  /\ found'[x] # Absent =>
                            \A y \in Named(found'[x]) :
                              y \in Asker /\ C!KeyOf(y)' = C!KeyOf(x)' /\ y \notin barred'[x]
                       /\ asks'[x] \in {"resolve", "renew", "waiting"} => found'[x] # Absent
    BY DEF FoundThen, Named, C!ValueOf
  <2>1. CASE x # c
    BY <1>1, <1>3, <2>1 DEF FoundThen
  <2>2. CASE x = c /\ found' = found
    BY <1>1, <1>3, <2>2 DEF FoundThen
  <2>3. CASE x = c /\ found' = [found EXCEPT ![c] = map[C!KeyOf(c)]]
    BY <1>1, <1>2, <1>3, <2>3 DEF Current
  <2>. QED BY <2>1, <2>2, <2>3
<1>6. C!NoStaleAnswer'
  BY <1>1, <1>2, AskerAssumption DEF C!NoStaleAnswer
<1>. QED BY <1>1, <1>4, <1>5, <1>6

-----------------------------------------------------------------------------
(* get, getOption and refresh look into the map and perhaps put a lookup there. *)
LEMMA CacheAsks ==
  ASSUME CacheInv, NEW c \in Asker, C!Get(c) \/ C!GetOption(c) \/ C!Refresh(c) PROVE CacheInv'
<1>. DEFINE k == C!KeyOf(c)
            new == C!Pending(k, c)
<1>0. k \in CacheKey /\ UNCHANGED <<job, answer, outdated, deferred>> /\ C!Begins(c)
      /\ asks[c] \in C!Operations
  BY CacheKeys DEF CacheInv, C!Get, C!GetOption, C!Refresh, C!At, C!Operations
<1>1. c \notin outdated
  BY <1>0 DEF CacheInv, Wrote, C!Operations
<1>2. ByThen(new, k)
  BY <1>1, NamedBy DEF ByThen
<1>3. DOMAIN map = CacheKey
  BY DEF CacheInv, CacheType
<1>4. /\ DOMAIN map' = CacheKey
      /\ \A j \in CacheKey : map'[j] \in {Absent, map[j]} \/ (j = k /\ map'[j] = new)
  <2>1. CASE C!Get(c)
    <3>1. CASE UNCHANGED map
      BY <1>3, <3>1
    <3>2. CASE map' = C!Tracked([map EXCEPT ![k] = new], <<k, c, "pending">>).map
      <4>1. /\ DOMAIN map' = CacheKey
            /\ \A j \in CacheKey : map'[j] \in {Absent, [map EXCEPT ![k] = new][j]}
        BY <3>2, OnlyRemoves
      <4>. QED BY <1>0, <1>3, <4>1
    <3>. QED BY <2>1, <3>1, <3>2 DEF C!Get, C!Find, C!state, C!Track, C!Put
  <2>2. CASE C!GetOption(c)
    BY <1>0, <1>3, <2>2, OnlyRemoves DEF C!GetOption, C!Find, C!state, C!Track
  <2>3. CASE C!Refresh(c)
    BY <1>0, <1>3, <2>3 DEF C!Refresh, C!Put
  <2>. QED BY <2>1, <2>2, <2>3
<1>5. Current'
  BY <1>0, <1>2, <1>4, CurrentStep
<1>6. PICK where : /\ asks' = [asks EXCEPT ![c] = where]
                   /\ where \notin {"resolve", "renew", "waiting"} \/ map[k] # Absent
                   /\ \/ found' = [found EXCEPT ![c] = map[k]]
                      \/ found' = found /\ where \notin {"resolve", "renew", "waiting"}
  <2>1. CASE C!Get(c)
    BY <2>1 DEF C!Get, C!Find, C!Goto
  <2>2. CASE C!GetOption(c)
    BY <2>2 DEF C!GetOption, C!Find, C!Goto
  <2>3. CASE C!Refresh(c)
    BY <2>3 DEF C!Refresh, C!Goto
  <2>. QED BY <2>1, <2>2, <2>3
<1>. HIDE DEF new
<1>7. FoundThen' /\ Wrote' /\ C!NoStaleAnswer' /\ CacheType'
  BY <1>0, <1>4, <1>6, BeginsThen
<1>. QED BY <1>5, <1>7 DEF CacheInv

(* What a client found or looked up is its answer, or it writes that.         *)
LEMMA CacheGoesOn ==
  ASSUME CacheInv, NEW c \in Asker,
         C!Resolve(c) \/ C!Await(c) \/ C!Lookup(c) \/ C!Write(c) \/ C!Announce(c)
           \/ C!Interrupt(c) \/ C!Renew(c) \/ C!Set(c)
  PROVE  CacheInv'
<1>. DEFINE k == C!KeyOf(c)
<1>0. /\ k \in CacheKey /\ UNCHANGED <<job, found, outdated, barred>>
      /\ \A x \in Asker : C!KeyOf(x)' = C!KeyOf(x)
      /\ DOMAIN map = CacheKey /\ DOMAIN asks = Asker /\ DOMAIN answer = Asker
      /\ DOMAIN deferred = Asker
  BY CacheKeys DEF CacheInv, CacheType, C!Resolve, C!Await, C!Lookup, C!Write, C!Announce,
                   C!Interrupt, C!Renew, C!Set, C!KeyOf, C!history
<1>1. asks[c] # "ended" /\ answer[c] = "none"
  BY DEF CacheInv, Wrote, C!Resolve, C!Await, C!Lookup, C!Write, C!Announce, C!Interrupt,
         C!Renew, C!Set, C!At
<1>2. /\ DOMAIN map' = CacheKey
      /\ \A j \in CacheKey : map'[j] \in {Absent, map[j]} \/ (j = k /\ ByThen(map'[j], j))
  <2>1. CASE C!Resolve(c)
    <3>1. map' = C!Tracked(map, found[c].key).map
            \/ map' = [C!Tracked(map, found[c].key).map EXCEPT ![k] = Absent]
      BY <2>1 DEF C!Resolve
    <3>2. DOMAIN map' = CacheKey /\ \A j \in CacheKey : map'[j] \in {Absent, map[j]}
      BY <1>0, <3>1, OnlyRemoves
    <3>. QED BY <3>2
  <2>2. CASE C!Await(c) \/ C!Lookup(c) \/ C!Announce(c) \/ C!Interrupt(c)
    <3>1. map' \in {map, [map EXCEPT ![k] = Absent]}
      BY <2>2 DEF C!Await, C!Lookup, C!Announce, C!Interrupt, C!Put, C!state
    <3>. QED BY <1>0, <3>1
  <2>3. CASE C!Write(c) \/ C!Set(c)
    <3>1. c \notin outdated
      BY <2>3 DEF C!Write, C!Set, C!At, CacheInv, Wrote
    <3>2. ByThen(C!Complete(k, c), k)
      BY <3>1, NamedBy DEF ByThen
    <3>3. map' = [map EXCEPT ![k] = C!Complete(k, c)]
      BY <2>3 DEF C!Write, C!Set, C!Put
    <3>. QED BY <1>0, <3>2, <3>3
  <2>4. CASE C!Renew(c)
    <3>1. c \notin outdated /\ found[c] # Absent
      BY <2>4 DEF C!Renew, C!At, CacheInv, Wrote, FoundThen
    <3>2. CASE map[k] = found[c]
      <4>1. ByThen(C!Refreshing(found[c], c), k)
        BY <1>0, <3>1, <3>2, NamedBy DEF CacheInv, Current, Named, ByThen
      <4>2. map' = [map EXCEPT ![k] = C!Refreshing(found[c], c)]
        BY <2>4, <3>2 DEF C!Renew, C!IsCurrent, C!Put
      <4>. QED BY <1>0, <4>1, <4>2
    <3>3. CASE map[k] # found[c]
      BY <1>0, <2>4, <3>3 DEF C!Renew, C!IsCurrent
    <3>. QED BY <3>2, <3>3
  <2>. QED BY <2>1, <2>2, <2>3, <2>4
<1>3. Current'
  BY <1>0, <1>2, CurrentStep
<1>4. /\ asks' = [asks EXCEPT ![c] = asks'[c]]
      /\ asks'[c] \in {"resolve", "renew", "waiting"} => asks[c] \in {"resolve", "renew", "waiting"}
      /\ c \in outdated => asks'[c] \in {"announce", "ended"}
      /\ \/ deferred' = deferred
         \/ asks'[c] = "ended" /\ \E d \in {"done", "interrupted"} : deferred' = [deferred EXCEPT ![c] = d]
      /\ \/ answer' = answer
         \/ /\ asks'[c] = "ended" /\ answer' = [answer EXCEPT ![c] = answer'[c]]
            /\ answer'[c] \notin barred[c]
  <2>1. CASE C!Resolve(c)
    <3>1. found[c] # Absent
      BY <2>1 DEF C!Resolve, C!At, CacheInv, FoundThen
    <3>2. C!ValueOf(found[c]) \notin barred[c]
      BY <3>1 DEF CacheInv, FoundThen, Named
    <3>. QED BY <1>0, <2>1, <3>2 DEF C!Resolve, C!Goto, C!At, CacheInv, Wrote
  <2>2. CASE C!Await(c)
    <3>1. found[c].of \notin barred[c]
      BY <2>2 DEF C!Await, C!At, CacheInv, FoundThen, Named
    <3>. QED BY <1>0, <2>2, <3>1 DEF C!Await, C!Goto, C!At, CacheInv, Wrote
  <2>3. CASE C!Lookup(c) \/ C!Write(c) \/ C!Announce(c)
    BY <1>0, <2>3 DEF C!Lookup, C!Write, C!Announce, C!Goto, C!At, CacheInv, Wrote
  <2>4. CASE C!Interrupt(c) \/ C!Renew(c) \/ C!Set(c)
    BY <1>0, <2>4 DEF C!Interrupt, C!Interrupted, C!Renew, C!Set, C!Goto, C!At, CacheInv, Wrote
  <2>. QED BY <2>1, <2>2, <2>3, <2>4
<1>5. CacheType'
  BY <1>0, <1>2, <1>4 DEF CacheInv, CacheType
<1>6. FoundThen'
  BY <1>0, <1>4 DEF CacheInv, FoundThen, Named, C!ValueOf
<1>7. Wrote'
  BY <1>0, <1>1, <1>4 DEF CacheInv, Wrote
<1>8. C!NoStaleAnswer'
  BY <1>0, <1>4 DEF CacheInv, C!NoStaleAnswer
<1>. QED BY <1>3, <1>5, <1>6, <1>7, <1>8 DEF CacheInv

(* What is invalidated is no longer in the map.                              *)
LEMMA CacheForgets ==
  ASSUME CacheInv, NEW c \in Asker, C!Invalidate(c) PROVE CacheInv'
<1>. DEFINE k == C!KeyOf(c)
<1>0. /\ k \in CacheKey /\ UNCHANGED <<job, found, answer, deferred, barred>>
      /\ \A x \in Asker : C!KeyOf(x)' = C!KeyOf(x)
  BY CacheKeys DEF CacheInv, C!Invalidate, C!KeyOf
<1>1. \A j \in CacheKey : \A x \in C!Written(j) :
        x \in Asker /\ C!KeyOf(x) = j /\ asks[x] \in {"announce", "ended"} /\ x # c
  BY DEF C!Written, C!Invalidate, C!At, CacheInv, Wrote
<1>2. /\ DOMAIN map' = CacheKey /\ outdated \subseteq outdated' /\ outdated' \subseteq Asker
      /\ \A x \in outdated' \ outdated : asks[x] \in {"announce", "ended"} /\ x # c
      /\ \A j \in CacheKey :
           \/ map'[j] = Absent
           \/ map'[j] = map[j] /\ (\A x \in outdated' \ outdated : C!KeyOf(x) # j)
  <2>1. CASE asks[c] = "invalidate"
    <3>1. map' = [map EXCEPT ![k] = Absent] /\ outdated' = outdated \cup C!Written(k)
      BY <2>1 DEF C!Invalidate, C!At, C!Put
    <3>2. outdated \subseteq Asker /\ DOMAIN map = CacheKey
      BY DEF CacheInv, CacheType
    <3>. HIDE DEF k
    <3>. QED BY <1>0, <1>1, <3>1, <3>2
  <2>2. CASE asks[c] # "invalidate"
    <3>1. /\ map' = [j \in CacheKey |-> Absent]
          /\ outdated' = outdated \cup UNION {C!Written(j) : j \in CacheKey}
      BY <2>2 DEF C!Invalidate, C!At
    <3>2. outdated \subseteq Asker
      BY DEF CacheInv, CacheType
    <3>3. \A x \in outdated' \ outdated : \E j \in CacheKey : x \in C!Written(j)
      BY <3>1
    <3>. QED BY <1>1, <3>1, <3>2, <3>3
  <2>. QED BY <2>1, <2>2
<1>3. asks' = [asks EXCEPT ![c] = "ended"]
  BY DEF C!Invalidate, C!Goto
<1>4. Current'
  BY <1>0, <1>2 DEF CacheInv, Current, Named, C!ValueOf
<1>5. FoundThen'
  BY <1>0, <1>3 DEF CacheInv, CacheType, FoundThen, Named, C!ValueOf
<1>6. Wrote'
  BY <1>0, <1>2, <1>3 DEF CacheInv, CacheType, Wrote
<1>. QED BY <1>0, <1>2, <1>3, <1>4, <1>5, <1>6 DEF CacheInv, CacheType, C!NoStaleAnswer

-----------------------------------------------------------------------------
(* Every step of the cache keeps the invariant.                              *)
LEMMA CacheStep == ASSUME CacheInv, C!Next PROVE CacheInv'
<1>1. ASSUME NEW c \in Asker, C!Expire(c) PROVE CacheInv'
  BY <1>1 DEF C!Expire, CacheInv, CacheType, Current, FoundThen, Wrote, Named, C!KeyOf, C!ValueOf,
              C!NoStaleAnswer, C!state, C!history
<1>. QED BY <1>1, CacheAsks, CacheGoesOn, CacheForgets DEF C!Next, C!ClientStep

(* It is kept when nothing of the cache changes.                               *)
LEMMA CacheKept == ASSUME CacheInv, UNCHANGED cache PROVE CacheInv'
BY DEF cache, CacheInv, CacheType, Current, FoundThen, Wrote, Named, C!KeyOf, C!ValueOf,
       C!NoStaleAnswer

(* An empty cache satisfies it.                                             *)
LEMMA CacheBegins == ASSUME C!Init PROVE CacheInv
<1>. job \in [Asker -> C!Operations \X CacheKey] /\ \A x \in Asker : job[x][1] \in C!Operations
  BY CacheAssumption DEF C!Init
<1>. QED BY AskerAssumption DEF C!Init, CacheInv, CacheType, Current, FoundThen, Wrote, Named, C!NoStaleAnswer,
            C!Operations

(* Whatever clients do with whatever keys, within whatever capacity, nobody who *)
(* asks a cache after a key was invalidated is given what it had before: not   *)
(* by a lookup in progress, by a refresh, nor by an entry put back late.       *)
THEOREM NeverStale == SharedSpec => []NoStaleAnswer
<1>. DEFINE Inv == (runs = "cache" => CacheInv) /\ (runs # "cache" => CacheRests)
<1>1. SharedInit => Inv
  BY CacheBegins DEF SharedInit
<1>2. Inv /\ [SharedNext]_shared => Inv'
  <2>. SUFFICES ASSUME Inv, [SharedNext]_shared PROVE Inv'
    OBVIOUS
  <2>1. CASE C!Next /\ runs = "cache" /\ runs' = runs
    BY <2>1, CacheStep
  <2>2. CASE UNCHANGED <<runs, cache>>
    <3>1. CASE runs = "cache"
      BY <2>2, <3>1, CacheKept
    <3>2. CASE runs # "cache"
      BY <2>2, <3>2 DEF CacheRests, cache
    <3>. QED BY <3>1, <3>2
  <2>. QED BY <2>1, <2>2 DEF SharedNext, shared, InCache, InMemo, InScopes, InHandoff, InInput,
              InLimiter, Others, InScoped, InSubscription, InClock
<1>3. Inv => NoStaleAnswer
  BY DEF CacheInv, CacheRests, NoStaleAnswer, C!NoStaleAnswer
<1>. QED BY <1>1, <1>2, <1>3, PTL DEF SharedSpec

-----------------------------------------------------------------------------
(* What a user has yet to run, now or when its scope is closed.               *)
Registered(u) == {<<>>, << <<"forget", of[u]>> >>, << <<"release", of[u]>> >>}
AtMostOne(u) == Registered(u) \cup {<< <<"close", of[u]>> >>}
Owed(u) ==
  scope[u].finalizers # <<>> \/ duties[<<"user", u>>] # <<>> \/ duties[<<"closer", u>>] # <<>>

(* It was the last, and has counted down: the inner scope is what it closes next. *)
ToClose(u) ==
  LET close == << <<"close", of[u]>> >>
  IN duties[<<"user", u>>] = close \/ duties[<<"closer", u>>] = close

(* A user is counted from `count` or `cached` until its finalizer has counted   *)
(* down; for ever, if it is interrupted before it has one.                    *)
Holds(u) ==
  \/ at[u] \in {"register", "enlist"} \/ (Owed(u) /\ ~ToClose(u))
  \/ at[u] = "ended" /\ cutAt[u] = "enlist"
Holders(b) == {u \in Caller : of[u] = b /\ Holds(u)}

(* The layer is open, and nobody is about to close it.                        *)
Kept(b) == inner[b] = "open" /\ \A v \in Caller : of[v] = b => ~ToClose(v)

MemoType ==
  /\ scope \in [Caller -> [exited : BOOLEAN, finalizers : Seq(L!Finalizer)]]
  /\ DOMAIN duties = L!Runner /\ observers \in [Caller -> Int]
  /\ DOMAIN at = Caller /\ DOMAIN of = Caller /\ DOMAIN built = Caller /\ DOMAIN inner = Caller
  /\ DOMAIN cutAt = Caller /\ entry \in Caller \cup {Nobody}
Duty(u) ==
  /\ scope[u].finalizers \in Registered(u)
  /\ duties[<<"user", u>>] \in AtMostOne(u) /\ duties[<<"closer", u>>] \in AtMostOne(u)
  /\ ~scope[u].exited => duties[<<"user", u>>] = <<>> /\ duties[<<"closer", u>>] = <<>>
  /\ scope[u].exited => scope[u].finalizers = <<>>
  /\ duties[<<"user", u>>] = <<>> \/ duties[<<"closer", u>>] = <<>>
  /\ Owed(u) => /\ at[u] \in {"announce", "using", "ended"}
                /\ ~(at[u] = "ended" /\ cutAt[u] = "enlist")
  /\ at[u] \in {"announce", "using"} /\ ~scope[u].exited => scope[u].finalizers # <<>>
Progress(u) ==
  /\ at[u] \in {"start", "building", "count", "register", "announce"} => of[u] = u
  /\ at[u] \in {"await", "enlist"} \/ Holds(u) \/ Owed(u) => of[u] \in Caller
  /\ at[u] # "ended" => cutAt[u] = "nowhere"
  /\ u \in tooLate => at[u] \in {"enlist", "using", "ended"}
  /\ built[u] # "pending" => at[u] \in {"using", "ended"}
  /\ at[u] \in {"building", "count"} => inner[u] = "open"
  /\ at[u] \in {"register", "announce"} \/ built[u] = "done" => inner[u] \in {"open", "closed"}
Opened(u) ==
  /\ (Holds(u) \/ Owed(u)) /\ of[u] # u => built[of[u]] = "done"
  /\ Holds(u) /\ u \notin tooLate => Kept(of[u])
Observed(b) == observers[b] = Cardinality(Holders(b))

MemoInv ==
  MemoType /\ \A u \in Caller : Duty(u) /\ Progress(u) /\ Opened(u) /\ Observed(u)

-----------------------------------------------------------------------------
(* The state of a scope once its finalizers are replaced.                     *)
LEMMA WithFinalizers ==
  ASSUME NEW F, NEW r \in [exited : BOOLEAN, finalizers : F], NEW v
  PROVE  [r EXCEPT !.finalizers = v] = [exited |-> r.exited, finalizers |-> v]
OBVIOUS

(* To close the layer is something to do.                                     *)
LEMMA CloseIsOwed ==
  /\ \A x : << <<"close", x>> >> # <<>> /\ << <<"release", x>> >> # << <<"close", x>> >>
  /\ \A u : ToClose(u) => Owed(u)
  /\ \A u : duties[<<"user", u>>] = <<>> /\ duties[<<"closer", u>>] = <<>> => ~ToClose(u)
<1>1. \A x : << <<"close", x>> >> # <<>> /\ << <<"release", x>> >> # << <<"close", x>> >>
  OBVIOUS
<1>. QED BY <1>1, Zenon DEF ToClose, Owed

(* Who is counted can be counted.                                           *)
LEMMA HoldersFinite == \A b : IsFiniteSet(Holders(b)) /\ Cardinality(Holders(b)) \in Nat
<1>. SUFFICES ASSUME NEW b PROVE IsFiniteSet(Holders(b)) /\ Cardinality(Holders(b)) \in Nat
  OBVIOUS
<1>1. Holders(b) \subseteq Caller
  BY DEF Holders
<1>. QED BY <1>1, CallerAssumption, FS_Subset, FS_CardinalityType

(* Who is counted in a step in which only one user moves.                    *)
LEMMA HoldersStep ==
  ASSUME NEW u \in Caller, NEW b,
         \A v \in Caller \ {u} : (Holds(v)' <=> Holds(v)) /\ of'[v] = of[v]
  PROVE  /\ (u \in Holders(b)' <=> u \in Holders(b)) => Cardinality(Holders(b))' = Cardinality(Holders(b))
         /\ u \in Holders(b)' /\ u \notin Holders(b) =>
              Cardinality(Holders(b))' = Cardinality(Holders(b)) + 1
         /\ u \notin Holders(b)' /\ u \in Holders(b) =>
              Cardinality(Holders(b))' = Cardinality(Holders(b)) - 1
<1>1. \A v \in Caller \ {u} : v \in Holders(b)' <=> v \in Holders(b)
  BY DEF Holders
<1>2. Holders(b) \subseteq Caller /\ Holders(b)' \subseteq Caller
  BY DEF Holders
<1>3. IsFiniteSet(Holders(b)) /\ Cardinality(Holders(b)) \in Nat
  BY HoldersFinite
<1>4. CASE u \in Holders(b)' <=> u \in Holders(b)
  <2>1. Holders(b)' = Holders(b)
    BY <1>1, <1>2, <1>4
  <2>. QED BY <1>4, <2>1
<1>5. CASE u \in Holders(b)' /\ u \notin Holders(b)
  <2>1. Holders(b)' = Holders(b) \cup {u}
    BY <1>1, <1>2, <1>5
  <2>2. Cardinality(Holders(b) \cup {u}) = Cardinality(Holders(b)) + 1
    BY <1>3, <1>5, FS_AddElement
  <2>. QED BY <1>5, <2>1, <2>2
<1>6. CASE u \notin Holders(b)' /\ u \in Holders(b)
  <2>1. Holders(b)' = Holders(b) \ {u}
    BY <1>1, <1>2, <1>6
  <2>2. Cardinality(Holders(b) \ {u}) = Cardinality(Holders(b)) - 1
    BY <1>3, <1>6, FS_RemoveElement
  <2>. QED BY <1>6, <2>1, <2>2
<1>. QED BY <1>4, <1>5, <1>6

(* The last who is counted.                                                  *)
LEMMA LastHolder ==
  ASSUME MemoInv, NEW u \in Caller, NEW b \in Caller, u \in Holders(b), observers[b] = 1
  PROVE  Holders(b) = {u}
<1>1. IsFiniteSet(Holders(b)) /\ Cardinality(Holders(b)) = 1
  BY HoldersFinite DEF MemoInv, Observed
<1>2. IsFiniteSet(Holders(b) \ {u}) /\ Cardinality(Holders(b) \ {u}) = 0
  BY <1>1, FS_RemoveElement
<1>. QED BY <1>2, FS_EmptySet

(* A step of one user.                                                       *)
Alone(u) ==
  \A v \in Caller \ {u} :
    /\ at'[v] = at[v] /\ of'[v] = of[v] /\ cutAt'[v] = cutAt[v] /\ scope'[v] = scope[v]
    /\ duties'[<<"user", v>>] = duties[<<"user", v>>]
    /\ duties'[<<"closer", v>>] = duties[<<"closer", v>>]
    /\ (v \in tooLate' <=> v \in tooLate)
    /\ built'[v] = built[v]

(* It remains to show what becomes of it.                                    *)
LEMMA MemoFrame ==
  ASSUME MemoInv, NEW u \in Caller, MemoType', Alone(u), Duty(u)', Progress(u)'
  PROVE  /\ \A v \in Caller \ {u} : (Holds(v)' <=> Holds(v)) /\ Duty(v)'
         /\ \A v \in Caller \ {u} : (Owed(v)' <=> Owed(v)) /\ (ToClose(v)' <=> ToClose(v))
         /\ (\A v \in Caller \ {u} : inner'[v] = inner[v]) => \A v \in Caller : Progress(v)'
<1>1. ASSUME NEW v \in Caller \ {u}
      PROVE  /\ (Holds(v)' <=> Holds(v)) /\ Duty(v)'
             /\ (Owed(v)' <=> Owed(v)) /\ (ToClose(v)' <=> ToClose(v))
  <2>1. /\ at'[v] = at[v] /\ of'[v] = of[v] /\ cutAt'[v] = cutAt[v] /\ scope'[v] = scope[v]
        /\ duties'[<<"user", v>>] = duties[<<"user", v>>]
        /\ duties'[<<"closer", v>>] = duties[<<"closer", v>>]
    BY <1>1 DEF Alone
  <2>2. /\ (Holds(v)' <=> Holds(v)) /\ (Owed(v)' <=> Owed(v)) /\ (ToClose(v)' <=> ToClose(v))
        /\ AtMostOne(v)' = AtMostOne(v) /\ Registered(v)' = Registered(v)
    BY <2>1 DEF Holds, Owed, ToClose, AtMostOne, Registered
  <2>3. Duty(v)
    BY <1>1 DEF MemoInv
  <2>. QED BY <2>1, <2>2, <2>3 DEF Duty
<1>2. ASSUME NEW v \in Caller \ {u}, inner'[v] = inner[v] PROVE Progress(v)'
  <2>1. Progress(v) /\ (Holds(v)' <=> Holds(v)) /\ (Owed(v)' <=> Owed(v))
    BY <1>1 DEF MemoInv
  <2>2. /\ at'[v] = at[v] /\ of'[v] = of[v] /\ cutAt'[v] = cutAt[v] /\ built'[v] = built[v]
        /\ (v \in tooLate' <=> v \in tooLate)
    BY DEF Alone
  <2>. QED BY <1>2, <2>1, <2>2 DEF Progress
<1>. QED BY <1>1, <1>2

(* How the counts follow, and who is served by a layer that is closed.         *)
LEMMA MemoFollows ==
  ASSUME MemoInv, NEW u \in Caller, MemoType', Alone(u), Duty(u)', Progress(u)', Opened(u)',
         built[u] = "done" => built'[u] = "done",
         \A b \in Caller \ {u} : inner'[b] = inner[b] \/ (inner'[b] = "closed" /\ inner[b] = "open"),
         \A b \in Caller : Kept(b) => Kept(b)' \/ Holders(b) \ {u} = {},
         \A b \in Caller :
           \/ observers'[b] = observers[b] /\ (u \in Holders(b)' <=> u \in Holders(b))
           \/ observers'[b] = observers[b] + 1 /\ u \in Holders(b)' /\ u \notin Holders(b)
           \/ observers'[b] = observers[b] - 1 /\ u \notin Holders(b)' /\ u \in Holders(b),
         \A b \in Caller \ {u} : inner'[b] # inner[b] => at[b] \in {"using", "ended"}
  PROVE  MemoInv'
<1>1. \A v \in Caller \ {u} : (Holds(v)' <=> Holds(v)) /\ (Owed(v)' <=> Owed(v)) /\ Duty(v)'
  BY MemoFrame
<1>2. ASSUME NEW v \in Caller \ {u} PROVE Progress(v)' /\ Opened(v)'
  <2>1. Progress(v)'
    <3>1. /\ at'[v] = at[v] /\ of'[v] = of[v] /\ cutAt'[v] = cutAt[v] /\ built'[v] = built[v]
          /\ (v \in tooLate' <=> v \in tooLate) /\ (Holds(v)' <=> Holds(v)) /\ (Owed(v)' <=> Owed(v))
      BY <1>1, <1>2 DEF Alone
    <3>2. Progress(v) /\ (inner'[v] = inner[v] \/ (inner'[v] = "closed" /\ at[v] \in {"using", "ended"}))
      BY <1>2 DEF MemoInv
    <3>. QED BY <3>1, <3>2 DEF Progress
  <2>2. Opened(v)'
    <3>. SUFFICES ASSUME Holds(v)' \/ Owed(v)'
                  PROVE  /\ of'[v] # v => built'[of'[v]] = "done"
                         /\ Holds(v)' /\ v \notin tooLate' => Kept(of[v])'
      BY DEF Opened
    <3>1. /\ Holds(v) \/ Owed(v)
          /\ of'[v] = of[v] /\ of[v] \in Caller /\ (Holds(v)' <=> Holds(v))
      BY <1>1, <1>2 DEF MemoInv, Alone, Progress
    <3>2. Holds(v) => v \in Holders(of[v]) \ {u}
      BY <1>2, <3>1 DEF Holders
    <3>3. of[v] # v => built'[of[v]] = "done"
      <4>1. of[v] # v => built[of[v]] = "done"
        BY <3>1 DEF MemoInv, Opened
      <4>2. built[of[v]] = "done" => built'[of[v]] = "done"
        BY <3>1 DEF Alone
      <4>. QED BY <4>1, <4>2
    <3>4. Holds(v) /\ v \notin tooLate' => Kept(of[v])'
      <4>1. Holds(v) /\ v \notin tooLate' => Kept(of[v])
        BY <3>1 DEF MemoInv, Opened, Alone
      <4>2. Holds(v) /\ Kept(of[v]) => \E b \in Caller : b = of[v] /\ Kept(b)'
        BY <3>1, <3>2
      <4>. QED BY <3>1, <4>1, <4>2 DEF Kept
    <3>. QED BY <3>1, <3>3, <3>4
  <2>. QED BY <2>1, <2>2
<1>3. ASSUME NEW b \in Caller PROVE Observed(b)'
  <2>1. observers[b] = Cardinality(Holders(b)) /\ Cardinality(Holders(b)) \in Nat
    BY HoldersFinite DEF MemoInv, Observed
  <2>2. \A v \in Caller \ {u} : (Holds(v)' <=> Holds(v)) /\ of'[v] = of[v]
    BY <1>1 DEF Alone
  <2>. QED BY <2>1, <2>2, HoldersStep DEF Observed
<1>. QED BY <1>1, <1>2, <1>3 DEF MemoInv

(* Of a step that counts nobody and closes nothing.                          *)
LEMMA MemoQuiet ==
  ASSUME MemoInv, NEW u \in Caller, MemoType', Alone(u), Duty(u)', Progress(u)',
         UNCHANGED observers, built[u] = "done" => built'[u] = "done",
         u \in tooLate' <=> u \in tooLate,
         inner' = inner \/ (inner' = [inner EXCEPT ![u] = "open"]),
         Holds(u)' <=> Holds(u), Owed(u)' => Holds(u) \/ Owed(u), ToClose(u)' <=> ToClose(u),
         Holds(u) \/ Owed(u) => of'[u] = of[u]
  PROVE  MemoInv'
<1>. DOMAIN inner = Caller
  BY DEF MemoInv, MemoType
<1>1. \A b : u \in Holders(b)' <=> u \in Holders(b)
  BY DEF Holders
<1>3. \A b \in Caller \ {u} : inner'[b] = inner[b]
  OBVIOUS
<1>4. ASSUME NEW b \in Caller, Kept(b) PROVE Kept(b)'
  <2>1. inner'[b] = "open"
    BY <1>4 DEF Kept
  <2>2. ASSUME NEW v \in Caller, of'[v] = b PROVE ~ToClose(v)'
    <3>1. CASE v = u
      <4>1. ToClose(u) => of'[u] = of[u]
        BY DEF ToClose, Owed
      <4>. QED BY <1>4, <2>2, <3>1, <4>1 DEF Kept
    <3>2. CASE v # u
      <4>1. of'[v] = of[v]
        BY <3>2 DEF Alone
      <4>. QED BY <1>4, <2>2, <3>2, <4>1, MemoFrame DEF Kept
    <3>. QED BY <3>1, <3>2
  <2>. QED BY <2>1, <2>2 DEF Kept
<1>2. Opened(u)'
  <2>. SUFFICES ASSUME Holds(u) \/ Owed(u)
                PROVE  /\ of'[u] # u => built'[of'[u]] = "done"
                       /\ Holds(u) /\ u \notin tooLate' => Kept(of[u])'
    BY DEF Opened
  <2>1. Opened(u) /\ Progress(u) /\ of'[u] = of[u]
    BY DEF MemoInv
  <2>2. of[u] \in Caller /\ (of[u] # u => built[of[u]] = "done" /\ built'[of[u]] = built[of[u]])
    BY <2>1 DEF Opened, Progress, Alone
  <2>3. Kept(of[u]) => \E b \in Caller : b = of[u] /\ Kept(b)'
    BY <1>4, <2>2
  <2>4. Holds(u) /\ u \notin tooLate' => Kept(of[u])'
    BY <2>1, <2>3 DEF Opened, Kept
  <2>. QED BY <2>1, <2>2, <2>4
<1>5. \A b \in Caller : observers'[b] = observers[b]
  OBVIOUS
<1>. QED BY <1>1, <1>2, <1>3, <1>4, <1>5, MemoFollows

-----------------------------------------------------------------------------
(* A user that has not registered its finalizer has nothing to run.            *)
LEMMA Unowed ==
  ASSUME MemoInv, NEW u \in Caller, at[u] \notin {"announce", "using", "ended"}
  PROVE  /\ scope[u].finalizers = <<>>
         /\ duties[<<"user", u>>] = <<>> /\ duties[<<"closer", u>>] = <<>>
BY DEF MemoInv, Duty, Owed

(* What is known of each user.                                              *)
LEMMA MemoTyped ==
  ASSUME MemoInv, NEW u \in Caller
  PROVE  /\ scope[u] \in [exited : BOOLEAN, finalizers : Seq(L!Finalizer)]
         /\ <<"user", u>> \in DOMAIN duties /\ <<"closer", u>> \in DOMAIN duties
         /\ MemoType /\ Duty(u) /\ Progress(u) /\ Opened(u)
BY DEF MemoInv, MemoType, L!Runner

(* Steps of a user on its way, which it is not counted by.                    *)
LEMMA MemoGoes ==
  ASSUME MemoInv, NEW u \in Caller,
         L!Ask(u) \/ L!Start(u) \/ L!Built(u) \/ L!Announce(u) \/ L!Interrupt(u)
  PROVE  MemoInv'
<1>0. /\ UNCHANGED <<observers, scope, duties, tooLate>>
      /\ Duty(u) /\ Progress(u) /\ MemoType /\ DOMAIN at = Caller
  BY MemoTyped DEF L!Ask, L!Start, L!Built, L!Announce, L!Interrupt, L!memo, L!history, MemoType
<1>1. MemoType'
  BY <1>0 DEF MemoType, L!Ask, L!Start, L!Built, L!Announce, L!Interrupt, L!memo, L!history, L!Goto
<1>2. Alone(u)
  BY <1>0 DEF Alone, L!Ask, L!Start, L!Built, L!Announce, L!Interrupt, L!memo, L!history, L!Goto, MemoType
<1>3. CASE L!Ask(u)
  <2>1. /\ scope[u].finalizers = <<>> /\ duties[<<"user", u>>] = <<>> /\ duties[<<"closer", u>>] = <<>>
        /\ at[u] = "ask" /\ at'[u] \in {"start", "await"} /\ UNCHANGED <<built, inner, cutAt>>
        /\ of'[u] \in Caller /\ (at'[u] = "start" => of'[u] = u)
    BY <1>0, <1>3, Unowed DEF L!Ask, L!At, L!Goto, MemoType, L!history
  <2>2. Duty(u)' /\ ~Holds(u)' /\ ~Holds(u) /\ ~Owed(u)' /\ ~Owed(u) /\ ~ToClose(u)' /\ ~ToClose(u)
    BY <1>0, <2>1 DEF Duty, AtMostOne, Registered, Owed, ToClose, Holds
  <2>3. Progress(u)'
    BY <1>0, <2>1, <2>2 DEF Progress
  <2>. QED BY <1>0, <1>1, <1>2, <2>1, <2>2, <2>3, MemoQuiet
<1>4. CASE L!Start(u) \/ L!Built(u)
  <2>1. /\ scope[u].finalizers = <<>> /\ duties[<<"user", u>>] = <<>> /\ duties[<<"closer", u>>] = <<>>
        /\ UNCHANGED <<built, cutAt, of>>
        /\ \/ at[u] = "start" /\ at'[u] = "building" /\ inner' = [inner EXCEPT ![u] = "open"]
           \/ at[u] = "building" /\ at'[u] = "count" /\ inner' = inner
    BY <1>0, <1>4, Unowed DEF L!Start, L!Built, L!At, L!Goto, MemoType, L!history, L!memo
  <2>2. Duty(u)' /\ ~Holds(u)' /\ ~Holds(u) /\ ~Owed(u)' /\ ~Owed(u) /\ ~ToClose(u)' /\ ~ToClose(u)
    BY <1>0, <2>1 DEF Duty, AtMostOne, Registered, Owed, ToClose, Holds
  <2>3. Progress(u)'
    BY <1>0, <2>1, <2>2 DEF Progress, MemoType
  <2>. QED BY <1>0, <1>1, <1>2, <2>1, <2>2, <2>3, MemoQuiet
<1>5. CASE L!Announce(u)
  <2>1. /\ at[u] = "announce" /\ at'[u] = "using" /\ UNCHANGED <<inner, cutAt, of>>
        /\ built' = [built EXCEPT ![u] = "done"]
    BY <1>0, <1>5 DEF L!Announce, L!At, L!Goto, MemoType, L!history, L!memo
  <2>2. /\ Duty(u)' /\ (Holds(u)' <=> Holds(u)) /\ (Owed(u)' <=> Owed(u))
        /\ (ToClose(u)' <=> ToClose(u))
    BY <1>0, <2>1 DEF Duty, AtMostOne, Registered, Owed, ToClose, Holds
  <2>3. Progress(u)'
    BY <1>0, <2>1, <2>2 DEF Progress, MemoType
  <2>. QED BY <1>0, <1>1, <1>2, <2>1, <2>2, <2>3, MemoQuiet DEF MemoType
<1>6. CASE L!Interrupt(u)
  <2>1. /\ at[u] \in {"ask", "start", "await", "enlist"} /\ at'[u] = "ended"
        /\ cutAt'[u] = at[u] /\ UNCHANGED <<inner, of, built>>
    BY <1>0, <1>6 DEF L!Interrupt, L!Goto, MemoType, L!history, L!memo
  <2>2. scope[u].finalizers = <<>> /\ duties[<<"user", u>>] = <<>> /\ duties[<<"closer", u>>] = <<>>
    BY <2>1, Unowed
  <2>3. Duty(u)' /\ (Holds(u)' <=> Holds(u)) /\ ~Owed(u)' /\ ~Owed(u) /\ ~ToClose(u)' /\ ~ToClose(u)
    BY <1>0, <2>1, <2>2 DEF Duty, AtMostOne, Registered, Owed, ToClose, Holds
  <2>4. Progress(u)'
    BY <1>0, <2>1, <2>3 DEF Progress, MemoType
  <2>. QED BY <1>0, <1>1, <1>2, <2>1, <2>3, <2>4, MemoQuiet DEF MemoType
<1>. QED BY <1>3, <1>4, <1>5, <1>6

(* Its finalizer is registered, in its scope or at once.                      *)
LEMMA MemoRegisters ==
  ASSUME MemoInv, NEW u \in Caller, L!Register(u) \/ L!Enlist(u) PROVE MemoInv'
<1>0. /\ UNCHANGED <<entry, built, observers, inner, of, cutAt, tooLate>>
      /\ Duty(u) /\ Progress(u) /\ MemoType /\ DOMAIN at = Caller
      /\ at[u] \in {"register", "enlist"}
      /\ at' = [at EXCEPT ![u] = IF at[u] = "enlist" THEN "using" ELSE "announce"]
  BY MemoTyped DEF L!Register, L!Enlist, L!memo, L!history, MemoType, L!At, L!Goto
<1>1. /\ scope[u].finalizers = <<>> /\ duties[<<"user", u>>] = <<>> /\ duties[<<"closer", u>>] = <<>>
      /\ of[u] \in Caller /\ (at[u] = "register" => of[u] = u)
  BY <1>0, Unowed DEF Progress
<1>2. PICK f : /\ f \in {<<"forget", of[u]>>, <<"release", of[u]>>} /\ L!AddFinalizer(u, f)
  BY <1>0, <1>1 DEF L!Register, L!Enlist, L!At
<1>3. /\ f \in L!Finalizer /\ <<f>> \in Registered(u) /\ <<f>> # <<>> /\ <<f>> \in Seq(L!Finalizer)
      /\ <<f>> # << <<"close", of[u]>> >>
  BY <1>1, <1>2 DEF L!Finalizer, Registered
<1>4. scope[u] \in [exited : BOOLEAN, finalizers : Seq(L!Finalizer)]
      /\ <<"user", u>> \in DOMAIN duties /\ <<"closer", u>> \in DOMAIN duties
  BY MemoTyped
<1>5. /\ MemoType' /\ Alone(u) /\ scope'[u].exited = scope[u].exited
      /\ duties'[<<"closer", u>>] = <<>>
      /\ \/ scope[u].exited /\ scope'[u].finalizers = <<>> /\ duties'[<<"user", u>>] = <<f>>
         \/ ~scope[u].exited /\ scope'[u].finalizers = <<f>> /\ duties'[<<"user", u>>] = <<>>
  <2>1. CASE scope[u].exited
    <3>1. scope' = scope /\ duties' = [duties EXCEPT ![<<"user", u>>] = <<f>>]
      BY <1>2, <2>1 DEF L!AddFinalizer
    <3>2. MemoType'
      BY <1>0, <3>1 DEF MemoType
    <3>3. Alone(u)
      BY <1>0, <3>1 DEF MemoType, Alone
    <3>. QED BY <1>1, <1>4, <2>1, <3>1, <3>2, <3>3
  <2>2. CASE ~scope[u].exited
    <3>1. duties' = duties /\ scope' = [scope EXCEPT ![u].finalizers = Append(@, f)]
      BY <1>2, <2>2 DEF L!AddFinalizer
    <3>2. scope' = [scope EXCEPT ![u] = [exited |-> FALSE, finalizers |-> <<f>>]]
      <4>1. Append(scope[u].finalizers, f) = <<f>>
        BY <1>1
      <4>2. scope' = [scope EXCEPT ![u].finalizers = <<f>>]
        BY <3>1, <4>1
      <4>3. scope[u].exited = FALSE
        BY <1>4, <2>2
      <4>4. [scope[u] EXCEPT !.finalizers = <<f>>] = [exited |-> FALSE, finalizers |-> <<f>>]
        BY <1>4, <4>3, WithFinalizers, Zenon
      <4>5. scope' = [scope EXCEPT ![u] = [scope[u] EXCEPT !.finalizers = <<f>>]]
        BY <4>2, Zenon
      <4>. QED BY <4>4, <4>5, Zenon
    <3>3. [exited |-> FALSE, finalizers |-> <<f>>] \in [exited : BOOLEAN, finalizers : Seq(L!Finalizer)]
      BY <1>3
    <3>4. MemoType'
      <4>1. scope' \in [Caller -> [exited : BOOLEAN, finalizers : Seq(L!Finalizer)]]
        BY <1>0, <3>2, <3>3 DEF MemoType
      <4>. QED BY <1>0, <3>1, <4>1 DEF MemoType
    <3>5. Alone(u)
      BY <1>0, <3>1, <3>2 DEF MemoType, Alone
    <3>6. scope'[u] = [exited |-> FALSE, finalizers |-> <<f>>]
      BY <1>0, <3>2 DEF MemoType
    <3>. QED BY <1>1, <2>2, <3>1, <3>4, <3>5, <3>6
  <2>. QED BY <2>1, <2>2
<1>6. /\ Duty(u)' /\ Holds(u)' /\ Holds(u) /\ ~ToClose(u)' /\ ~ToClose(u)
  <2>1. ~ToClose(u)
    BY <1>1 DEF ToClose
  <2>2. ~ToClose(u)'
    BY <1>0, <1>3, <1>5 DEF ToClose
  <2>3. Owed(u)'
    BY <1>3, <1>5 DEF Owed
  <2>4. Duty(u)'
    BY <1>0, <1>1, <1>3, <1>5, <2>3 DEF Duty, AtMostOne, Registered
  <2>. QED BY <1>0, <2>1, <2>2, <2>3, <2>4 DEF Holds
<1>7. Progress(u)'
  BY <1>0, <1>6 DEF Progress, MemoType
<1>. QED BY <1>0, <1>5, <1>6, <1>7, MemoQuiet

(* The scope of a user is closed, and it, or who closed it, goes on to release. *)
LEMMA MemoCloses ==
  ASSUME MemoInv, NEW u \in Caller,
         L!Close(u) \/ \E w \in {"user", "closer"} : L!Forget(<<w, u>>)
  PROVE  MemoInv'
<1>0. /\ UNCHANGED <<at, built, observers, inner, of, cutAt, tooLate>>
      /\ Duty(u) /\ Progress(u) /\ MemoType
      /\ scope[u] \in [exited : BOOLEAN, finalizers : Seq(L!Finalizer)]
      /\ <<"user", u>> \in DOMAIN duties /\ <<"closer", u>> \in DOMAIN duties
  BY MemoTyped DEF L!Close, L!Forget, L!memo, L!history
<1>1. CASE L!Close(u)
  <2>1. /\ ~scope[u].exited /\ UNCHANGED entry
        /\ scope' = [scope EXCEPT ![u] = [exited |-> TRUE, finalizers |-> <<>>]]
        /\ duties' = [duties EXCEPT ![<<"closer", u>>] = scope[u].finalizers]
    BY <1>1 DEF L!Close, L!memo
  <2>2. MemoType' /\ Alone(u)
    BY <1>0, <2>1 DEF MemoType, Alone
  <2>3. /\ scope'[u].exited /\ scope'[u].finalizers = <<>>
        /\ duties'[<<"closer", u>>] = scope[u].finalizers
        /\ duties'[<<"user", u>>] = duties[<<"user", u>>]
    BY <1>0, <2>1 DEF MemoType
  <2>4. /\ Duty(u)' /\ (Holds(u)' <=> Holds(u)) /\ (Owed(u)' <=> Owed(u))
        /\ (ToClose(u)' <=> ToClose(u))
    BY <1>0, <2>1, <2>3 DEF Duty, AtMostOne, Registered, Owed, ToClose, Holds
  <2>5. Progress(u)'
    BY <1>0, <2>4 DEF Progress
  <2>. QED BY <1>0, <2>2, <2>4, <2>5, MemoQuiet
<1>2. ASSUME NEW w \in {"user", "closer"}, L!Forget(<<w, u>>) PROVE MemoInv'
  <2>1. /\ duties[<<w, u>>] = << <<"forget", of[u]>> >> /\ UNCHANGED scope /\ entry' = Nobody
        /\ duties' = [duties EXCEPT ![<<w, u>>] = <<<<"release", Head(@)[2]>>>> \o Tail(@)]
    <3>1. duties[<<w, u>>] \in AtMostOne(u)
      BY <1>0 DEF Duty
    <3>2. duties[<<w, u>>] # <<>> /\ Head(duties[<<w, u>>])[1] = "forget"
      BY <1>2 DEF L!Forget
    <3>3. duties[<<w, u>>] = << <<"forget", of[u]>> >>
      BY <3>1, <3>2 DEF AtMostOne, Registered
    <3>. QED BY <1>2, <3>3 DEF L!Forget
  <2>2. <<<<"release", Head(duties[<<w, u>>])[2]>>>> \o Tail(duties[<<w, u>>]) = << <<"release", of[u]>> >>
    BY <2>1
  <2>3. duties' = [duties EXCEPT ![<<w, u>>] = << <<"release", of[u]>> >>]
    BY <2>1, <2>2
  <2>4. MemoType' /\ Alone(u)
    BY <1>0, <2>1, <2>3 DEF MemoType, Alone
  <2>5. /\ Duty(u)' /\ (Holds(u)' <=> Holds(u)) /\ (Owed(u)' <=> Owed(u))
        /\ (ToClose(u)' <=> ToClose(u))
    BY <1>0, <2>1, <2>3 DEF Duty, AtMostOne, Registered, Owed, ToClose, Holds
  <2>6. Progress(u)'
    BY <1>0, <2>5 DEF Progress
  <2>. QED BY <1>0, <2>4, <2>5, <2>6, MemoQuiet
<1>. QED BY <1>1, <1>2

(* A build fails: nobody was counted.                                        *)
LEMMA MemoFails ==
  ASSUME MemoInv, NEW u \in Caller, L!Fail(u) PROVE MemoInv'
<1>0. /\ UNCHANGED <<entry, observers, of, scope, duties, cutAt, tooLate>>
      /\ Duty(u) /\ Progress(u) /\ MemoType
      /\ at[u] = "building" /\ at' = [at EXCEPT ![u] = "ended"]
      /\ built' = [built EXCEPT ![u] = "failed"] /\ inner' = [inner EXCEPT ![u] = "closed"]
  BY MemoTyped DEF L!Fail, L!At, L!Goto, L!history
<1>1. scope[u].finalizers = <<>> /\ duties[<<"user", u>>] = <<>> /\ duties[<<"closer", u>>] = <<>>
  BY <1>0, Unowed
<1>2. MemoType' /\ Alone(u)
  BY <1>0 DEF MemoType, Alone
<1>3. ~Holds(u) /\ built[u] = "pending"
  BY <1>0, <1>1 DEF Holds, Owed, Progress
<1>4. cutAt[u] # "enlist"
  BY <1>0 DEF Progress
<1>5. Duty(u)' /\ ~Holds(u)' /\ ~Owed(u)' /\ ~ToClose(u)'
  BY <1>0, <1>1, <1>4 DEF MemoType, Duty, AtMostOne, Registered, Owed, ToClose, Holds
<1>6. Progress(u)' /\ Opened(u)'
  BY <1>0, <1>5 DEF MemoType, Progress, Opened
<1>7. Holders(u) \ {u} = {}
  <2>. SUFFICES ASSUME NEW v \in Holders(u), v # u PROVE FALSE
    OBVIOUS
  <2>1. v \in Caller /\ of[v] = u /\ Holds(v)
    BY DEF Holders
  <2>2. built[u] = "done"
    BY <2>1 DEF MemoInv, Opened
  <2>. QED BY <1>3, <2>2
<1>8. \A b : u \notin Holders(b)' /\ u \notin Holders(b)
  BY <1>3, <1>5 DEF Holders
<1>9. ASSUME NEW b \in Caller, Kept(b), b # u PROVE Kept(b)'
  <2>1. inner'[b] = "open"
    BY <1>0, <1>9 DEF Kept, MemoType
  <2>. QED BY <1>0, <1>9, <2>1 DEF Kept, ToClose
<1>. QED BY <1>0, <1>2, <1>3, <1>5, <1>6, <1>7, <1>8, <1>9, MemoFollows DEF MemoType

-----------------------------------------------------------------------------
(* A layer that is open is kept unless it is being released.                   *)
LEMMA KeptOrReleased ==
  ASSUME MemoInv, NEW b \in Caller, inner[b] \in {"open", "closed"}, ~L!Releasing(b)
  PROVE  Kept(b)
<1>1. inner[b] = "open"
  BY DEF L!Releasing
<1>2. ASSUME NEW v \in Caller, of[v] = b, ToClose(v) PROVE FALSE
  <2>1. PICK w \in {"user", "closer"} : duties[<<w, v>>] = << <<"close", b>> >>
    BY <1>2 DEF ToClose
  <2>2. duties[<<w, v>>] # <<>> /\ Head(duties[<<w, v>>]) = <<"close", b>>
    BY <2>1
  <2>3. <<w, v>> \in L!Runner
    BY DEF L!Runner
  <2>. QED BY <2>2, <2>3 DEF L!Releasing
<1>. QED BY <1>1, <1>2 DEF Kept

(* A user is counted.                                                       *)
LEMMA MemoCounts ==
  ASSUME MemoInv, NEW u \in Caller, L!Count(u) \/ L!Joined(u) PROVE MemoInv'
<1>0. /\ UNCHANGED <<entry, built, inner, of, scope, duties, cutAt>>
      /\ Duty(u) /\ Progress(u) /\ Opened(u) /\ MemoType /\ at[u] \in {"count", "await"}
      /\ cutAt[u] = "nowhere" /\ u \notin tooLate
  BY MemoTyped DEF L!Count, L!Joined, L!At, L!history, Progress
<1>1. /\ scope[u].finalizers = <<>> /\ duties[<<"user", u>>] = <<>> /\ duties[<<"closer", u>>] = <<>>
      /\ of[u] \in Caller
  BY <1>0, Unowed DEF Progress
<1>2. ~Holds(u) /\ built[u] = "pending"
  BY <1>0, <1>1 DEF Holds, Owed, Progress
<1>6. \A b \in Caller : Kept(b)' <=> Kept(b)
  BY <1>0 DEF Kept, ToClose
<1>3. CASE L!Count(u)
  <2>1. /\ observers' = [observers EXCEPT ![u] = @ + 1] /\ at' = [at EXCEPT ![u] = "register"]
        /\ at[u] = "count" /\ UNCHANGED tooLate /\ of[u] = u /\ inner[u] = "open"
    BY <1>0, <1>3 DEF L!Count, L!At, L!Goto, L!history, Progress
  <2>2. MemoType' /\ Alone(u)
    BY <1>0, <2>1 DEF MemoType, Alone
  <2>3. Duty(u)' /\ Holds(u)' /\ ~Owed(u)' /\ ~Owed(u)
    BY <1>0, <1>1, <2>1 DEF MemoType, Duty, AtMostOne, Registered, Owed, Holds
  <2>6. Kept(u)
    <3>. SUFFICES ASSUME NEW v \in Caller, of[v] = u, ToClose(v) PROVE FALSE
      BY <2>1 DEF Kept
    <3>1. Owed(v)
      BY CloseIsOwed
    <3>2. Opened(v)
      BY DEF MemoInv
    <3>. QED BY <1>2, <2>3, <3>1, <3>2 DEF Opened
  <2>4. Progress(u)' /\ Opened(u)'
    <3>1. of'[u] = u /\ Kept(u)'
      BY <1>0, <1>6, <2>1, <2>6
    <3>2. Kept(of[u])'
      BY <3>1 DEF Kept
    <3>. QED BY <1>0, <2>1, <2>3, <3>1, <3>2 DEF MemoType, Progress, Opened
  <2>5. \A b \in Caller :
          \/ observers'[b] = observers[b] /\ (u \in Holders(b)' <=> u \in Holders(b))
          \/ observers'[b] = observers[b] + 1 /\ u \in Holders(b)' /\ u \notin Holders(b)
    BY <1>0, <1>2, <2>1, <2>3 DEF Holders, MemoType
  <2>. QED BY <1>0, <1>6, <2>2, <2>3, <2>4, <2>5, MemoFollows
<1>4. CASE L!Joined(u) /\ built[of[u]] = "done"
  <2>1. /\ observers' = [observers EXCEPT ![of[u]] = @ + 1] /\ at' = [at EXCEPT ![u] = "enlist"]
        /\ tooLate' = IF L!Releasing(of[u]) THEN tooLate \cup {u} ELSE tooLate
    BY <1>0, <1>4 DEF L!Joined, L!At, L!Goto, L!history
  <2>2. MemoType' /\ Alone(u)
    BY <1>0, <1>1, <2>1 DEF MemoType, Alone
  <2>3. Duty(u)' /\ Holds(u)' /\ ~Owed(u)'
    BY <1>0, <1>1, <2>1 DEF MemoType, Duty, AtMostOne, Registered, Owed, Holds
  <2>4. inner[of[u]] \in {"open", "closed"}
    BY <1>1, <1>4 DEF MemoInv, Progress
  <2>7. ~L!Releasing(of[u]) => Kept(of[u])
    BY <1>1, <2>4, KeptOrReleased
  <2>5. Progress(u)' /\ Opened(u)'
    <3>1. Kept(of[u])' <=> Kept(of[u])
      BY <1>0, <1>1, <1>6 DEF Kept, ToClose
    <3>2. Opened(u)'
      BY <1>0, <1>1, <1>4, <2>1, <2>3, <2>7, <3>1 DEF Opened
    <3>3. Progress(u)'
      BY <1>0, <1>1, <1>2, <1>4, <2>1, <2>3, <2>4 DEF MemoType, Progress
    <3>. QED BY <3>2, <3>3
  <2>6. \A b \in Caller :
          \/ observers'[b] = observers[b] /\ (u \in Holders(b)' <=> u \in Holders(b))
          \/ observers'[b] = observers[b] + 1 /\ u \in Holders(b)' /\ u \notin Holders(b)
    BY <1>0, <1>2, <2>1, <2>3 DEF Holders, MemoType
  <2>. QED BY <1>0, <1>6, <2>2, <2>3, <2>5, <2>6, MemoFollows
<1>5. CASE L!Joined(u) /\ built[of[u]] # "done"
  <2>1. /\ observers' = observers /\ at' = [at EXCEPT ![u] = "ended"] /\ UNCHANGED tooLate
    BY <1>0, <1>5 DEF L!Joined, L!At, L!Goto, L!history
  <2>2. MemoType' /\ Alone(u)
    BY <1>0, <1>1, <2>1 DEF MemoType, Alone
  <2>3. Duty(u)' /\ ~Holds(u)' /\ ~Owed(u)' /\ ~ToClose(u)' /\ ~Owed(u) /\ ~ToClose(u)
    BY <1>0, <1>1, <2>1 DEF MemoType, Duty, AtMostOne, Registered, Owed, ToClose, Holds
  <2>4. Progress(u)'
    BY <1>0, <1>2, <2>1, <2>3 DEF MemoType, Progress
  <2>. QED BY <1>0, <1>2, <2>1, <2>2, <2>3, <2>4, MemoQuiet
<1>. QED BY <1>3, <1>4, <1>5

(* What a user runs is all that it owes.                                       *)
LEMMA OnlyDuty ==
  ASSUME MemoInv, NEW u \in Caller, NEW w \in {"user", "closer"}, duties[<<w, u>>] # <<>>
  PROVE  /\ duties[<<w, u>>] \in AtMostOne(u)
         /\ \A x \in {"user", "closer"} : x # w => duties[<<x, u>>] = <<>>
         /\ scope[u].exited /\ scope[u].finalizers = <<>>
         /\ Owed(u) /\ of[u] \in Caller /\ at[u] \in {"announce", "using", "ended"}
         /\ ~(at[u] = "ended" /\ cutAt[u] = "enlist")
<1>1. Duty(u) /\ Progress(u) /\ scope[u].exited \in BOOLEAN
  BY MemoTyped
<1>2. Owed(u) /\ of[u] \in Caller
  BY <1>1 DEF Owed, Progress
<1>. QED BY <1>1, <1>2 DEF Duty

(* Its finalizer runs, and it is not counted any more; the layer is about to be  *)
(* closed if nobody else is.                                                *)
LEMMA MemoReleases ==
  ASSUME MemoInv, NEW u \in Caller, NEW w \in {"user", "closer"}, L!Release(<<w, u>>) PROVE MemoInv'
<1>. DEFINE b == of[u]
            left == IF observers[b] = 1 THEN << <<"close", b>> >> ELSE <<>>
<1>0. /\ UNCHANGED <<entry, at, built, inner, of, scope, cutAt, tooLate>>
      /\ Duty(u) /\ Progress(u) /\ Opened(u) /\ MemoType
      /\ <<"user", u>> \in DOMAIN duties /\ <<"closer", u>> \in DOMAIN duties
      /\ duties[<<w, u>>] # <<>> /\ Head(duties[<<w, u>>])[1] = "release"
  BY MemoTyped DEF L!Release, L!history
<1>1. /\ duties[<<w, u>>] = << <<"release", b>> >>
      /\ observers' = [observers EXCEPT ![b] = @ - 1]
      /\ duties' = [duties EXCEPT ![<<w, u>>] = left]
  <2>1. duties[<<w, u>>] \in AtMostOne(u)
    BY <1>0 DEF Duty
  <2>2. duties[<<w, u>>] = << <<"release", b>> >>
    BY <1>0, <2>1 DEF AtMostOne, Registered
  <2>3. Head(duties[<<w, u>>])[2] = b /\ Tail(duties[<<w, u>>]) = <<>>
    BY <2>2
  <2>4. <<<<"close", b>>>> \o <<>> = << <<"close", b>> >>
    OBVIOUS
  <2>. QED BY <2>2, <2>3, <2>4, Zenon DEF L!Release, L!IsLast
<1>2. /\ b \in Caller /\ at[u] \in {"announce", "using", "ended"} /\ scope[u].exited
      /\ ~(at[u] = "ended" /\ cutAt[u] = "enlist") /\ scope[u].finalizers = <<>>
      /\ \A x \in {"user", "closer"} : x # w => duties[<<x, u>>] = <<>>
      /\ Owed(u)
  BY <1>0, OnlyDuty
<1>3. MemoType' /\ Alone(u)
  <2>1. DOMAIN duties' = L!Runner
    BY <1>0, <1>1, Zenon DEF MemoType
  <2>2. observers' \in [Caller -> Int]
    BY <1>0, <1>1, <1>2 DEF MemoType
  <2>3. \A r \in L!Runner : r[2] # u => duties'[r] = duties[r]
    BY <1>1
  <2>. QED BY <1>0, <1>1, <1>2, <2>1, <2>2, <2>3 DEF MemoType, Alone
<1>4. /\ duties'[<<w, u>>] = left /\ left \in {<<>>, << <<"close", b>> >>}
      /\ \A x \in {"user", "closer"} : x # w => duties'[<<x, u>>] = <<>>
  BY <1>0, <1>1, <1>2
<1>5. Holds(u) /\ ~Holds(u)'
  <2>1. ~ToClose(u)
    BY <1>1, <1>2 DEF ToClose
  <2>2. Owed(u)' => ToClose(u)'
    BY <1>0, <1>2, <1>4 DEF Owed, ToClose
  <2>. QED BY <1>0, <1>2, <2>1, <2>2 DEF Holds
<1>6. Duty(u)'
  BY <1>0, <1>2, <1>4 DEF Duty, AtMostOne, Registered, Owed
<1>7. Progress(u)' /\ Opened(u)'
  BY <1>0, <1>2, <1>5 DEF Progress, Opened
<1>8. \A x \in Caller :
        \/ observers'[x] = observers[x] /\ (u \in Holders(x)' <=> u \in Holders(x))
        \/ observers'[x] = observers[x] - 1 /\ u \notin Holders(x)' /\ u \in Holders(x)
  BY <1>0, <1>1, <1>2, <1>5 DEF Holders, MemoType
<1>9. ASSUME NEW x \in Caller, Kept(x) PROVE Kept(x)' \/ Holders(x) \ {u} = {}
  <2>1. CASE x = b /\ observers[b] = 1
    BY <1>2, <1>5, <2>1, LastHolder DEF Holders
  <2>2. CASE ~(x = b /\ observers[b] = 1)
    <3>1. of[u] = x => ~ToClose(u)'
      <4>1. of[u] = x => left = <<>>
        BY <2>2
      <4>2. of[u] = x => duties'[<<"user", u>>] = <<>> /\ duties'[<<"closer", u>>] = <<>>
        BY <1>4, <4>1
      <4>. QED BY <4>2, CloseIsOwed DEF ToClose
    <3>2. \A v \in Caller \ {u} : ToClose(v)' <=> ToClose(v)
      BY <1>3, <1>6, <1>7, MemoFrame
    <3>. QED BY <1>0, <1>9, <3>1, <3>2 DEF Kept
  <2>. QED BY <2>1, <2>2
<1>. QED BY <1>0, <1>3, <1>6, <1>7, <1>8, <1>9, MemoFollows

(* The last closes the layer: whoever is counted by now came too late.         *)
LEMMA MemoShuts ==
  ASSUME MemoInv, NEW u \in Caller, NEW w \in {"user", "closer"}, L!CloseInner(<<w, u>>)
  PROVE  MemoInv'
<1>. DEFINE b == of[u]
<1>0. /\ UNCHANGED <<entry, at, built, observers, of, scope, cutAt, tooLate>>
      /\ Duty(u) /\ Progress(u) /\ Opened(u) /\ MemoType
      /\ <<"user", u>> \in DOMAIN duties /\ <<"closer", u>> \in DOMAIN duties
      /\ duties[<<w, u>>] # <<>> /\ Head(duties[<<w, u>>])[1] = "close"
  BY MemoTyped DEF L!CloseInner, L!history
<1>1. /\ duties[<<w, u>>] = << <<"close", b>> >>
      /\ inner' = [inner EXCEPT ![b] = "closed"]
      /\ duties' = [duties EXCEPT ![<<w, u>>] = <<>>]
  <2>1. duties[<<w, u>>] \in AtMostOne(u)
    BY <1>0 DEF Duty
  <2>2. duties[<<w, u>>] = << <<"close", b>> >>
    BY <1>0, <2>1 DEF AtMostOne, Registered
  <2>3. Head(duties[<<w, u>>])[2] = b /\ Tail(duties[<<w, u>>]) = <<>>
    BY <2>2
  <2>. QED BY <2>2, <2>3, Zenon DEF L!CloseInner
<1>2. /\ b \in Caller /\ at[u] \in {"announce", "using", "ended"} /\ scope[u].exited
      /\ ~(at[u] = "ended" /\ cutAt[u] = "enlist") /\ scope[u].finalizers = <<>>
      /\ \A x \in {"user", "closer"} : x # w => duties[<<x, u>>] = <<>>
      /\ Owed(u)
  BY <1>0, OnlyDuty
<1>3. MemoType' /\ Alone(u)
  <2>1. DOMAIN duties' = L!Runner /\ DOMAIN inner' = Caller
    BY <1>0, <1>1, Zenon DEF MemoType
  <2>2. \A r \in L!Runner : r[2] # u => duties'[r] = duties[r]
    BY <1>1
  <2>. QED BY <1>0, <1>1, <1>2, <2>1, <2>2 DEF MemoType, Alone
<1>4. \A x \in {"user", "closer"} : duties'[<<x, u>>] = <<>>
  BY <1>0, <1>1, <1>2
<1>5. ToClose(u) /\ ~Holds(u) /\ ~Holds(u)' /\ ~Owed(u)' /\ ~ToClose(u)'
  <2>1. ToClose(u)
    BY <1>1 DEF ToClose
  <2>2. duties'[<<"user", u>>] = <<>> /\ duties'[<<"closer", u>>] = <<>>
    BY <1>4
  <2>3. ~Owed(u)'
    BY <1>0, <1>2, <2>2 DEF Owed
  <2>4. ~ToClose(u)'
    BY <2>2, CloseIsOwed DEF ToClose
  <2>. QED BY <1>0, <1>2, <2>1, <2>3, <2>4 DEF Holds
<1>6. Duty(u)'
  BY <1>0, <1>2, <1>4 DEF Duty, AtMostOne, Registered, Owed
<1>7. Progress(u)' /\ Opened(u)'
  BY <1>0, <1>1, <1>2, <1>5 DEF MemoType, Progress, Opened
<1>8. \A x : u \notin Holders(x)' /\ u \notin Holders(x)
  BY <1>5 DEF Holders
<1>9. ASSUME NEW x \in Caller, Kept(x) PROVE Kept(x)'
  <2>1. x # b
    BY <1>5, <1>9 DEF Kept
  <2>2. inner'[x] = inner[x]
    BY <1>1, <2>1
  <2>3. \A v \in Caller \ {u} : ToClose(v)' <=> ToClose(v)
    BY <1>3, <1>6, <1>7, MemoFrame
  <2>. QED BY <1>0, <1>5, <1>9, <2>2, <2>3 DEF Kept
<1>10. ASSUME NEW x \in Caller \ {u}, inner'[x] # inner[x]
       PROVE  inner'[x] = "closed" /\ inner[x] = "open" /\ at[x] \in {"using", "ended"}
  <2>1. x = b /\ inner'[x] = "closed"
    BY <1>0, <1>1, <1>10 DEF MemoType
  <2>2. built[x] = "done"
    BY <1>0, <1>2, <2>1 DEF Opened
  <2>3. Progress(x)
    BY DEF MemoInv
  <2>. QED BY <1>10, <2>1, <2>2, <2>3 DEF Progress
<1>. QED BY <1>0, <1>3, <1>6, <1>7, <1>8, <1>9, <1>10, MemoFollows

-----------------------------------------------------------------------------
(* Every step of the memo map keeps the invariant.                              *)
LEMMA MemoStep == ASSUME MemoInv, L!Next PROVE MemoInv'
<1>1. ASSUME NEW u \in Caller, L!UserStep(u) \/ L!Interrupt(u) \/ L!Close(u) PROVE MemoInv'
  BY <1>1, MemoGoes, MemoRegisters, MemoCloses, MemoFails, MemoCounts DEF L!UserStep
<1>2. ASSUME NEW r \in L!Runner, L!Finalize(r) PROVE MemoInv'
  <2>1. PICK w \in {"user", "closer"}, u \in Caller : r = <<w, u>>
    BY DEF L!Runner
  <2>. QED BY <1>2, <2>1, MemoCloses, MemoReleases, MemoShuts DEF L!Finalize
<1>. QED BY <1>1, <1>2 DEF L!Next

(* It is kept when nothing of the memo map changes.                            *)
LEMMA MemoKept == ASSUME MemoInv, UNCHANGED memo PROVE MemoInv'
<1>1. UNCHANGED <<entry, at, of, built, observers, inner, scope, duties, cutAt, tooLate>>
  BY DEF memo
<1>2. \A u : /\ (Holds(u)' <=> Holds(u)) /\ (Owed(u)' <=> Owed(u)) /\ (ToClose(u)' <=> ToClose(u))
            /\ AtMostOne(u)' = AtMostOne(u) /\ Registered(u)' = Registered(u)
  BY <1>1 DEF Holds, Owed, ToClose, AtMostOne, Registered
<1>3. \A u : Holders(u)' = Holders(u) /\ (Kept(u)' <=> Kept(u))
  BY <1>1, <1>2 DEF Holders, Kept
<1>4. MemoType'
  BY <1>1 DEF MemoInv, MemoType
<1>5. ASSUME NEW u \in Caller PROVE Duty(u)' /\ Progress(u)' /\ Opened(u)' /\ Observed(u)'
  <2>1. Duty(u)'
    BY <1>1, <1>2 DEF MemoInv, Duty
  <2>2. Progress(u)' /\ Observed(u)'
    BY <1>1, <1>2, <1>3 DEF MemoInv, Progress, Observed
  <2>3. Opened(u)'
    <3>1. Kept(of[u])' <=> Kept(of[u])
      BY <1>1, <1>3 DEF Kept, ToClose
    <3>. QED BY <1>1, <1>2, <3>1 DEF MemoInv, Opened
  <2>. QED BY <2>1, <2>2, <2>3
<1>. QED BY <1>4, <1>5 DEF MemoInv

(* It holds of a map in which nobody has asked for the layer.                  *)
LEMMA MemoBegins == ASSUME L!Init PROVE MemoInv
<1>1. \A u \in Caller : scope[u] = [exited |-> FALSE, finalizers |-> <<>>]
        /\ duties[<<"user", u>>] = <<>> /\ duties[<<"closer", u>>] = <<>>
  BY DEF L!Init, L!Runner
<1>2. \A u \in Caller : ~Holds(u) /\ ~Owed(u)
  <2>1. ASSUME NEW u \in Caller PROVE ~Owed(u)
    <3>1. scope[u].finalizers = <<>>
      BY DEF L!Init
    <3>2. duties[<<"user", u>>] = <<>> /\ duties[<<"closer", u>>] = <<>>
      BY <1>1
    <3>. QED BY <3>1, <3>2, Zenon DEF Owed
  <2>. QED BY <2>1 DEF L!Init, Holds
<1>3. \A u \in Caller : Holders(u) = {}
  BY <1>2 DEF Holders
<1>4. MemoType
  BY DEF L!Init, MemoType
<1>5. ASSUME NEW u \in Caller PROVE Duty(u) /\ Progress(u) /\ Opened(u) /\ Observed(u)
  BY <1>1, <1>2, <1>3, FS_EmptySet DEF L!Init, Duty, Progress, Opened, Observed, AtMostOne, Registered
<1>. QED BY <1>4, <1>5 DEF MemoInv

(* Who uses a layer with its own scope open is counted.                       *)
LEMMA MemoOpen == ASSUME MemoInv PROVE L!UsedIsOpenIfCounted
<1>. SUFFICES ASSUME NEW u \in Caller \ tooLate, at[u] = "using", ~scope[u].exited
              PROVE  inner[of[u]] = "open"
  BY DEF L!UsedIsOpenIfCounted, L!Uses
<1>1. Duty(u) /\ Opened(u)
  BY DEF MemoInv
<1>2. Owed(u) /\ ~ToClose(u)
  BY <1>1, CloseIsOwed DEF Duty, Owed
<1>. QED BY <1>1, <1>2 DEF Holds, Opened, Kept

(* However many fibers build, join, leave and are interrupted, a layer is kept   *)
(* for every user that was counted with another, until that user's own scope is  *)
(* closed: the count is that of those who have yet to count down, and who counts *)
(* down to nothing closes it an operation later.                             *)
THEOREM CountedIsOpen == SharedSpec => []UsedIsOpenIfCounted
<1>. DEFINE Inv == (runs = "memo" => MemoInv) /\ (runs # "memo" => MemoRests)
<1>1. SharedInit => Inv
  BY MemoBegins DEF SharedInit
<1>2. Inv /\ [SharedNext]_shared => Inv'
  <2>. SUFFICES ASSUME Inv, [SharedNext]_shared PROVE Inv'
    OBVIOUS
  <2>1. CASE L!Next /\ runs = "memo" /\ runs' = runs
    BY <2>1, MemoStep
  <2>2. CASE UNCHANGED <<runs, memo>>
    <3>1. CASE runs = "memo"
      BY <2>2, <3>1, MemoKept
    <3>2. CASE runs # "memo"
      BY <2>2, <3>2 DEF MemoRests, memo
    <3>. QED BY <3>1, <3>2
  <2>. QED BY <2>1, <2>2 DEF SharedNext, shared, InCache, InMemo, InScopes, InHandoff, InInput,
              InLimiter, Others, InScoped, InSubscription, InClock
<1>3. Inv => UsedIsOpenIfCounted
  <2>1. MemoRests => L!UsedIsOpenIfCounted
    BY DEF MemoRests, L!UsedIsOpenIfCounted, L!Uses
  <2>. QED BY <2>1, MemoOpen DEF UsedIsOpenIfCounted
<1>. QED BY <1>1, <1>2, <1>3, PTL DEF SharedSpec

-----------------------------------------------------------------------------
(* Of a handoff.  An offer that has not put its value in is nobody's yet; one   *)
(* that has put it in is in the handoff, was taken, or somebody is about to    *)
(* say that it was.                                                        *)
Fresh(c) ==
  /\ plan[c] = "offer"
  /\ step[c] = "begins" \/ (step[c] = "waits" /\ awaits[c] # <<"offer", c>>)
Tells(d, what) ==
  /\ step[d] = "notifies"
  /\ IF plan[d] = "offer" THEN awaits[d] = what ELSE what = <<"offer", got[d]>>
Told(what) == H!IsDone(what) \/ cutOff # {} \/ \E d \in Asker : Tells(d, what)

HandoffType ==
  /\ plan \in [Asker -> {"offer", "take", "poll"}]
  /\ DOMAIN step = Asker /\ DOMAIN awaits = Asker /\ got \in [Asker -> Asker \cup {Nobody}]
  /\ ref \in Asker \cup {Nobody} /\ accepted \subseteq Asker
OfferOf(c) ==
  /\ Fresh(c) => ref # c /\ \A d \in Asker : got[d] # c
  /\ plan[c] = "offer" /\ step[c] = "ended" => c \in accepted
  /\ plan[c] = "offer" /\ step[c] = "notifies" =>
       /\ awaits[c] = <<"turn", awaits[c][2]>>
       /\ ref = c \/ Told(<<"offer", c>>)
TakeOf(c) ==
  /\ got[c] # Nobody => plan[c] # "offer" /\ step[c] \in {"notifies", "ended", "stopped"}
  /\ plan[c] # "offer" /\ step[c] = "notifies" => got[c] # Nobody
WaitOf(c) ==
  step[c] = "waits" =>
    /\ awaits[c][1] \in {"turn", "offer"}
    /\ awaits[c][1] = "offer" => awaits[c] = <<"offer", awaits[c][2]>> /\ awaits[c][2] \in Asker
    /\ \/ Told(awaits[c])
       \/ awaits[c] = <<"turn", turn>> /\ ref = Nobody
       \/ awaits[c] = <<"offer", ref>>
Given ==
  /\ ref # Nobody => \A d \in Asker : got[d] # ref
  /\ \A c, d \in Asker : got[c] = got[d] /\ got[c] # Nobody => c = d
  /\ \A c \in accepted : \E d \in Asker : got[d] = c
HandoffInv ==
  HandoffType /\ Given /\ \A c \in Asker : OfferOf(c) /\ TakeOf(c) /\ WaitOf(c)

(* A value is put in.                                                        *)
LEMMA HandoffOffers == ASSUME HandoffInv, NEW c \in Asker, H!Offer(c) PROVE HandoffInv'
<1>0. /\ UNCHANGED <<plan, turn, announced, accepted, got, cutOff>> /\ HandoffType
      /\ step[c] = "begins" /\ plan[c] = "offer" /\ Fresh(c) /\ got[c] = Nobody
      /\ OfferOf(c) /\ Nobody \notin Asker
  BY AskerAssumption DEF HandoffInv, H!Offer, H!deferreds, Fresh, TakeOf
<1>1. CASE ref = Nobody
  <2>1. /\ ref' = c /\ step' = [step EXCEPT ![c] = "notifies"]
        /\ awaits' = [awaits EXCEPT ![c] = <<"turn", turn>>]
    BY <1>1 DEF H!Offer, H!Goto
  <2>2. HandoffType' /\ Given'
    BY <1>0, <2>1 DEF HandoffInv, HandoffType, Given, OfferOf
  <2>3. Tells(c, <<"turn", turn>>)'
    BY <1>0, <2>1 DEF HandoffType, Tells
  <2>4. \A what : Told(what) => Told(what)'
    BY <1>0, <2>1 DEF HandoffType, Told, Tells, H!IsDone
  <2>5. ASSUME NEW e \in Asker PROVE OfferOf(e)' /\ TakeOf(e)' /\ WaitOf(e)'
    <3>1. CASE e = c
      BY <1>0, <2>1, <3>1 DEF HandoffType, OfferOf, TakeOf, WaitOf, Fresh
    <3>2. CASE e # c
      <4>1. step'[e] = step[e] /\ awaits'[e] = awaits[e] /\ (Fresh(e)' <=> Fresh(e))
        BY <1>0, <2>1, <3>2 DEF HandoffType, Fresh
      <4>2. OfferOf(e) /\ TakeOf(e) /\ WaitOf(e)
        BY DEF HandoffInv
      <4>3. OfferOf(e)'
        BY <1>0, <1>1, <2>1, <2>4, <3>2, <4>1, <4>2 DEF OfferOf
      <4>4. TakeOf(e)'
        BY <1>0, <4>1, <4>2 DEF TakeOf
      <4>5. WaitOf(e)'
        BY <1>0, <1>1, <2>1, <2>3, <2>4, <4>1, <4>2 DEF WaitOf, Told
      <4>. QED BY <4>3, <4>4, <4>5
    <3>. QED BY <3>1, <3>2
  <2>. QED BY <2>2, <2>5 DEF HandoffInv
<1>2. CASE ref # Nobody
  <2>1. /\ ref' = ref /\ step' = [step EXCEPT ![c] = "waits"]
        /\ awaits' = [awaits EXCEPT ![c] = <<"offer", ref>>]
    BY <1>2 DEF H!Offer, H!Goto, H!WaitFor
  <2>2. HandoffType' /\ Given'
    BY <1>0, <2>1 DEF HandoffInv, HandoffType, Given
  <2>3. \A what : Told(what) => Told(what)'
    BY <1>0, <2>1 DEF HandoffType, Told, Tells, H!IsDone
  <2>4. ASSUME NEW e \in Asker PROVE OfferOf(e)' /\ TakeOf(e)' /\ WaitOf(e)'
    <3>1. CASE e = c
      BY <1>0, <1>2, <2>1, <3>1 DEF HandoffType, OfferOf, TakeOf, WaitOf, Fresh
    <3>2. CASE e # c
      BY <1>0, <2>1, <2>3, <3>2 DEF HandoffInv, HandoffType, OfferOf, TakeOf, WaitOf, Fresh
    <3>. QED BY <3>1, <3>2
  <2>. QED BY <2>2, <2>4 DEF HandoffInv
<1>. QED BY <1>1, <1>2

(* A value is taken, or waited for.                                          *)
LEMMA HandoffTakes == ASSUME HandoffInv, NEW c \in Asker, H!Take(c) PROVE HandoffInv'
<1>0. /\ UNCHANGED <<plan, announced, accepted, cutOff>> /\ HandoffType
      /\ step[c] = "begins" /\ plan[c] # "offer" /\ got[c] = Nobody
      /\ OfferOf(c) /\ Nobody \notin Asker
  BY AskerAssumption DEF HandoffInv, H!Take, H!deferreds, Fresh, TakeOf
<1>1. CASE ref = Nobody
  <2>1. /\ UNCHANGED <<ref, turn, got>>
        /\ \/ step' = [step EXCEPT ![c] = "empty"] /\ awaits' = awaits
           \/ /\ step' = [step EXCEPT ![c] = "waits"]
              /\ awaits' = [awaits EXCEPT ![c] = <<"turn", turn>>]
    BY <1>1 DEF H!Take, H!Goto, H!WaitFor, H!state
  <2>2. HandoffType' /\ Given'
    BY <1>0, <2>1 DEF HandoffInv, HandoffType, Given
  <2>3. \A what : Told(what) => Told(what)'
    BY <1>0, <2>1 DEF HandoffType, Told, Tells, H!IsDone
  <2>4. ASSUME NEW e \in Asker PROVE OfferOf(e)' /\ TakeOf(e)' /\ WaitOf(e)'
    <3>1. CASE e = c
      BY <1>0, <1>1, <2>1, <3>1 DEF HandoffType, OfferOf, TakeOf, WaitOf, Fresh
    <3>2. CASE e # c
      BY <1>0, <2>1, <2>3, <3>2 DEF HandoffInv, HandoffType, OfferOf, TakeOf, WaitOf, Fresh
    <3>. QED BY <3>1, <3>2
  <2>. QED BY <2>2, <2>4 DEF HandoffInv
<1>2. CASE ref # Nobody
  <2>1. /\ ref' = Nobody /\ step' = [step EXCEPT ![c] = "notifies"] /\ awaits' = awaits
        /\ got' = [got EXCEPT ![c] = ref]
    BY <1>2 DEF H!Take, H!Goto
  <2>2. HandoffType' /\ Given'
    <3>1. HandoffType' /\ got'[c] = ref /\ \A d \in Asker : d # c => got'[d] = got[d]
      BY <1>0, <1>2, <2>1 DEF HandoffType
    <3>2. (\A d \in Asker : got[d] # ref) /\ Given
      BY <1>2 DEF HandoffInv, Given
    <3>3. \A e \in accepted : \E d \in Asker : got'[d] = e
      <4>. SUFFICES ASSUME NEW e \in accepted PROVE \E d \in Asker : got'[d] = e
        OBVIOUS
      <4>1. PICK d \in Asker : got[d] = e
        BY <3>2 DEF Given
      <4>2. d # c
        BY <1>0, <4>1 DEF HandoffType
      <4>. QED BY <3>1, <4>1, <4>2
    <3>. QED BY <1>0, <2>1, <3>1, <3>2, <3>3 DEF Given
  <2>3. \A what : Told(what) => Told(what)'
    BY <1>0, <2>1 DEF HandoffType, Told, Tells, H!IsDone
  <2>. PICK v \in Asker : v = ref
    BY <1>0, <1>2 DEF HandoffType
  <2>4. Told(<<"offer", v>>)'
    <3>1. Tells(c, <<"offer", v>>)'
      BY <1>0, <2>1 DEF HandoffType, Tells
    <3>. QED BY <3>1 DEF Told
  <2>5. ASSUME NEW e \in Asker PROVE OfferOf(e)' /\ TakeOf(e)' /\ WaitOf(e)'
    <3>1. CASE e = c
      BY <1>0, <1>2, <2>1, <3>1 DEF HandoffType, OfferOf, TakeOf, WaitOf, Fresh
    <3>2. CASE e # c
      <4>1. /\ step'[e] = step[e] /\ awaits'[e] = awaits[e] /\ (Fresh(e)' <=> Fresh(e))
            /\ got'[e] = got[e]
        BY <1>0, <2>1, <3>2 DEF HandoffType, Fresh
      <4>2. OfferOf(e) /\ TakeOf(e) /\ WaitOf(e)
        BY DEF HandoffInv
      <4>3. OfferOf(e)'
        BY <1>0, <1>2, <2>1, <2>3, <2>4, <3>2, <4>1, <4>2 DEF HandoffType, OfferOf
      <4>4. TakeOf(e)'
        BY <1>0, <4>1, <4>2 DEF TakeOf
      <4>5. WaitOf(e)'
        BY <1>0, <1>2, <2>1, <2>3, <2>4, <4>1, <4>2 DEF WaitOf
      <4>. QED BY <4>3, <4>4, <4>5
    <3>. QED BY <3>1, <3>2
  <2>. QED BY <2>2, <2>5 DEF HandoffInv
<1>. QED BY <1>1, <1>2

(* Those who wait are told: that there is a value, or that theirs was taken.   *)
LEMMA HandoffTells ==
  ASSUME HandoffInv, NEW c \in Asker, H!Announce(c) \/ H!Accept(c) PROVE HandoffInv'
<1>0. /\ UNCHANGED <<plan, ref, turn, got, cutOff>> /\ HandoffType
      /\ step[c] = "notifies" /\ OfferOf(c) /\ TakeOf(c) /\ Nobody \notin Asker
  BY AskerAssumption DEF HandoffInv, H!Announce, H!Accept, H!state
<1>1. CASE H!Announce(c)
  <2>1. /\ plan[c] = "offer" /\ announced' = announced \cup {awaits[c][2]} /\ accepted' = accepted
        /\ step' = [step EXCEPT ![c] = "waits"] /\ awaits' = [awaits EXCEPT ![c] = <<"offer", c>>]
    BY <1>1 DEF H!Announce, H!Goto, H!WaitFor
  <2>2. HandoffType' /\ Given'
    BY <1>0, <2>1 DEF HandoffInv, HandoffType, Given
  <2>3. ASSUME NEW what, Told(what) PROVE Told(what)'
    <3>1. CASE Tells(c, what)
      <4>1. what = <<"turn", awaits[c][2]>>
        BY <1>0, <2>1, <3>1 DEF Tells, OfferOf
      <4>. QED BY <2>1, <4>1 DEF Told, H!IsDone
    <3>2. CASE ~Tells(c, what)
      BY <1>0, <2>1, <2>3, <3>2 DEF HandoffType, Told, Tells, H!IsDone
    <3>. QED BY <3>1, <3>2
  <2>4. ASSUME NEW e \in Asker PROVE OfferOf(e)' /\ TakeOf(e)' /\ WaitOf(e)'
    <3>1. CASE e = c
      BY <1>0, <2>1, <2>3, <3>1 DEF HandoffType, OfferOf, TakeOf, WaitOf, Fresh
    <3>2. CASE e # c
      BY <1>0, <2>1, <2>3, <3>2 DEF HandoffInv, HandoffType, OfferOf, TakeOf, WaitOf, Fresh
    <3>. QED BY <3>1, <3>2
  <2>. QED BY <2>2, <2>4 DEF HandoffInv
<1>2. CASE H!Accept(c)
  <2>1. /\ plan[c] # "offer" /\ accepted' = accepted \cup {got[c]} /\ UNCHANGED <<announced, awaits>>
        /\ step' = [step EXCEPT ![c] = "ended"]
    BY <1>2 DEF H!Accept, H!Goto
  <2>2. HandoffType' /\ Given'
    BY <1>0, <2>1 DEF HandoffInv, HandoffType, Given, TakeOf
  <2>3. ASSUME NEW what, Told(what) PROVE Told(what)'
    <3>1. CASE Tells(c, what)
      <4>1. what = <<"offer", got[c]>>
        BY <2>1, <3>1 DEF Tells
      <4>. QED BY <2>1, <4>1 DEF Told, H!IsDone
    <3>2. CASE ~Tells(c, what)
      BY <1>0, <2>1, <2>3, <3>2 DEF HandoffType, Told, Tells, H!IsDone
    <3>. QED BY <3>1, <3>2
  <2>4. ASSUME NEW e \in Asker PROVE OfferOf(e)' /\ TakeOf(e)' /\ WaitOf(e)'
    <3>1. CASE e = c
      BY <1>0, <2>1, <2>3, <3>1 DEF HandoffType, OfferOf, TakeOf, WaitOf, Fresh
    <3>2. CASE e # c
      BY <1>0, <2>1, <2>3, <3>2 DEF HandoffInv, HandoffType, OfferOf, TakeOf, WaitOf, Fresh
    <3>. QED BY <3>1, <3>2
  <2>. QED BY <2>2, <2>4 DEF HandoffInv
<1>. QED BY <1>1, <1>2

(* A client goes on, or is interrupted.                                      *)
LEMMA HandoffResumes ==
  ASSUME HandoffInv, NEW c \in Asker, H!Resume(c) \/ H!Interrupt(c) PROVE HandoffInv'
<1>0. /\ UNCHANGED <<plan, ref, turn, announced, accepted, awaits, got>> /\ HandoffType
      /\ OfferOf(c) /\ TakeOf(c) /\ WaitOf(c) /\ Nobody \notin Asker
  BY AskerAssumption DEF HandoffInv, H!Resume, H!Interrupt, H!state, H!deferreds
<1>1. /\ step' = [step EXCEPT ![c] = step'[c]] /\ step'[c] \in {"ended", "begins", "stopped"}
      /\ step'[c] = "begins" => step[c] = "waits" /\ ~(plan[c] = "offer" /\ awaits[c] = <<"offer", c>>)
      /\ step'[c] = "ended" => step[c] = "waits" /\ plan[c] = "offer" /\ awaits[c] = <<"offer", c>>
                               /\ H!IsDone(awaits[c])
      /\ step[c] = "notifies" => cutOff' # {}
      /\ cutOff \subseteq cutOff'
  BY <1>0 DEF H!Resume, H!Interrupt, H!Goto, H!IsMine, HandoffType
<1>2. HandoffType' /\ Given'
  BY <1>0, <1>1 DEF HandoffInv, HandoffType, Given
<1>3. \A what : Told(what) => Told(what)'
  BY <1>0, <1>1 DEF HandoffType, Told, Tells, H!IsDone
<1>4. ASSUME NEW e \in Asker PROVE OfferOf(e)' /\ TakeOf(e)' /\ WaitOf(e)'
  <2>1. CASE e = c
    <3>1. Fresh(c)' => Fresh(c)
      BY <1>0, <1>1 DEF Fresh, HandoffType
    <3>. QED BY <1>0, <1>1, <1>3, <2>1, <3>1 DEF HandoffType, OfferOf, TakeOf, WaitOf, Fresh, H!IsDone
  <2>2. CASE e # c
    BY <1>0, <1>1, <1>3, <2>2 DEF HandoffInv, HandoffType, OfferOf, TakeOf, WaitOf, Fresh
  <2>. QED BY <2>1, <2>2
<1>. QED BY <1>2, <1>4 DEF HandoffInv

-----------------------------------------------------------------------------
(* Every step of a handoff keeps the invariant.                              *)
LEMMA HandoffStep == ASSUME HandoffInv, H!Next PROVE HandoffInv'
BY HandoffOffers, HandoffTakes, HandoffTells, HandoffResumes DEF H!Next, H!Step

(* It is kept when nothing of the handoff changes.                            *)
LEMMA HandoffKept == ASSUME HandoffInv, UNCHANGED handoff PROVE HandoffInv'
<1>1. UNCHANGED <<plan, ref, turn, announced, accepted, step, awaits, got, cutOff>>
  BY DEF handoff
<1>2. \A what : Told(what)' = Told(what)
  BY <1>1 DEF Told, Tells, H!IsDone
<1>. QED BY <1>1, <1>2 DEF HandoffInv, HandoffType, Given, OfferOf, TakeOf, WaitOf, Fresh

(* An empty handoff satisfies it.                                            *)
LEMMA HandoffBegins == ASSUME H!Init PROVE HandoffInv
BY HandoffAssumption, AskerAssumption DEF H!Init, HandoffInv, HandoffType, Given, OfferOf, TakeOf, WaitOf, Fresh

(* What it says of the handoff.                                              *)
LEMMA HandoffHands == ASSUME HandoffInv PROVE H!HandedOver
<1>1. H!GivenOnce
  BY DEF HandoffInv, Given, OfferOf, H!GivenOnce
<1>2. H!NobodyMissedIt
  <2>. SUFFICES ASSUME NEW c \in Asker, step[c] = "waits", ~H!IsDone(awaits[c]), cutOff = {}
                PROVE  \/ awaits[c] = <<"turn", turn>> /\ ref = Nobody
                       \/ awaits[c] = <<"offer", ref>>
                       \/ \E d \in Asker : /\ step[d] = "notifies"
                                          /\ awaits[c] \in {awaits[d], <<"offer", got[d]>>}
    BY DEF H!NobodyMissedIt
  <2>. QED BY DEF HandoffInv, WaitOf, Told, Tells
<1>. QED BY <1>1, <1>2 DEF H!HandedOver

-----------------------------------------------------------------------------
(* Of the input of a channel.  The drainer runs only with a consumer there: a   *)
(* notifyProducer that is done, or about to be, is of an earlier round or of    *)
(* this one, and then somebody has asked.                                    *)
Past(r) == r < round \/ (r = round /\ tag # "empty")
Receivers == {hands[i][1] : i \in DOMAIN hands}
Outcome == {"element"} \X Nat \cup I!Signal \X {0}

InputState ==
  /\ tag \in {"empty", "emit"} \cup I!Signal
  /\ consumers \in Seq(Consumer) /\ IsInjective(consumers)
  /\ consumers # <<>> <=> tag = "emit"
  /\ round \in Nat /\ notified \subseteq Nat /\ emitted \in Nat /\ listens \in Nat
  /\ does \in [Consumer -> {"idle", "notifies", "waits", "over", "stopped"}]
  /\ owes \in [Consumer -> Nat]
  /\ producer \in {"awaits", "listens", "runs", "hands", "over"}
  /\ hands # <<>> => producer = "hands"
  /\ tag \in I!Signal => producer \in {"hands", "over"}
  /\ producer = "runs" => tag = "emit"
  /\ producer = "listens" => tag = "emit" \/ (tag = "empty" /\ listens = round)
  /\ \A r \in notified : Past(r)
  /\ \A x \in Consumer : does[x] = "notifies" => Past(owes[x])

(* Who waits is known to the state or to the drainer, and has nothing yet.     *)
HasAsked(x) ==
  /\ x \in ToSet(consumers) \cup Receivers =>
       does[x] \in {"notifies", "waits", "stopped"} /\ given[x] = I!Pending
  /\ x \in ToSet(consumers) => x \notin Receivers
  /\ does[x] \in {"notifies", "waits"} /\ given[x] = I!Pending =>
       x \in ToSet(consumers) \cup Receivers
InputAsks ==
  /\ given \in [Consumer -> {I!Pending} \cup Outcome]
  /\ hands \in Seq(Consumer \X Outcome)
  /\ \A i, j \in DOMAIN hands : hands[i][1] = hands[j][1] => i = j
  /\ \A x \in Consumer : HasAsked(x)

(* An element is a consumer's, or it is the last one, on its way to one.        *)
Has(x, e) == e \in ToSet(seen[x]) \/ given[x] = <<"element", e>>
FedTo(x) ==
  /\ \A i, j \in DOMAIN seen[x] : i < j => seen[x][i] < seen[x][j]
  /\ given[x][1] = "element" =>
       IF does[x] = "idle" THEN given[x][2] \in ToSet(seen[x])
       ELSE does[x] \in {"notifies", "waits"} => \A e \in ToSet(seen[x]) : e < given[x][2]
InputFeeds ==
  /\ seen \in [Consumer -> Seq(Nat)]
  /\ \A x \in Consumer : FedTo(x) /\ \A e \in Nat : Has(x, e) => e \in 1..emitted
  /\ \A x, y \in Consumer : \A e \in Nat : Has(x, e) /\ Has(y, e) => x = y
  /\ \A i \in DOMAIN hands : hands[i][2][1] = "element" =>
       /\ Len(hands) = 1 /\ hands[i][2] = <<"element", emitted>> /\ emitted > 0
       /\ \A x \in Consumer : ~Has(x, emitted)
  /\ \A e \in 1..emitted :
       \/ \E x \in Consumer : Has(x, e)
       \/ \E i \in DOMAIN hands : hands[i][2] = <<"element", e>>

InputInv == InputState /\ InputAsks /\ InputFeeds

(* Of what the consumers have.  It is theirs as long as nothing but the place   *)
(* where they have it changes.                                              *)
LEMMA StillFed ==
  ASSUME InputFeeds, emitted \in Nat, UNCHANGED <<emitted, hands>>, (seen \in [Consumer -> Seq(Nat)])',
         \A x \in Consumer : FedTo(x)' /\ \A e \in Nat : Has(x, e)' <=> Has(x, e)
  PROVE  InputFeeds'
<1>1. /\ \A x \in Consumer : \A e \in Nat : Has(x, e)' => e \in 1..emitted'
      /\ \A x, y \in Consumer : \A e \in Nat : Has(x, e)' /\ Has(y, e)' => x = y
  BY DEF InputFeeds
<1>2. ASSUME NEW i \in DOMAIN hands', hands'[i][2][1] = "element"
      PROVE  /\ Len(hands') = 1 /\ hands'[i][2] = <<"element", emitted'>> /\ emitted' > 0
             /\ \A x \in Consumer : ~Has(x, emitted)'
  <2>1. PICK last \in Nat : last = emitted /\ last = emitted'
    OBVIOUS
  <2>. QED BY <1>2, <2>1 DEF InputFeeds
<1>3. ASSUME NEW e \in 1..emitted'
      PROVE  \/ \E x \in Consumer : Has(x, e)'
             \/ \E i \in DOMAIN hands' : hands'[i][2] = <<"element", e>>
  <2>1. e \in Nat /\ e \in 1..emitted
    BY <1>3
  <2>2. CASE \E i \in DOMAIN hands : hands[i][2] = <<"element", e>>
    BY <2>2
  <2>3. CASE \E x \in Consumer : Has(x, e)
    BY <2>1, <2>3
  <2>. QED BY <2>1, <2>2, <2>3 DEF InputFeeds
<1>. QED BY <1>1, <1>2, <1>3 DEF InputFeeds

(* A consumer asks.                                                         *)
LEMMA InputTakes == ASSUME InputInv, NEW x \in Consumer, I!Take(x) PROVE InputInv'
<1>0. /\ UNCHANGED <<round, notified, seen, producer, listens, hands, emitted>>
      /\ does[x] = "idle" /\ given' = [given EXCEPT ![x] = I!Pending]
      /\ InputState /\ InputAsks /\ InputFeeds
      /\ x \notin ToSet(consumers) \cup Receivers
  BY DEF I!Take, InputInv, InputAsks, HasAsked
<1>1. \/ /\ tag \in {"empty", "emit"} /\ tag' = "emit" /\ consumers' = Append(consumers, x)
         /\ \/ /\ does' = [does EXCEPT ![x] = "notifies"]
               /\ tag = "empty" /\ owes' = [owes EXCEPT ![x] = round]
            \/ does' = [does EXCEPT ![x] = "waits"] /\ owes' = owes
      \/ /\ tag \in I!Signal /\ UNCHANGED <<tag, consumers, owes>>
         /\ does' = [does EXCEPT ![x] = "over"]
  <2>1. tag = "empty" => consumers = <<>> /\ Append(consumers, x) = <<x>>
    BY <1>0 DEF InputState
  <2>. QED BY <1>0, <2>1 DEF I!Take, I!Goto, InputState, I!Signal
<1>2. /\ consumers' \in Seq(Consumer) /\ IsInjective(consumers')
      /\ consumers' # <<>> <=> tag' = "emit"
      /\ ToSet(consumers') = IF tag \in I!Signal THEN ToSet(consumers)
                                                 ELSE ToSet(consumers) \cup {x}
  <2>1. CASE tag \in I!Signal
    BY <1>0, <1>1, <2>1 DEF InputState, I!Signal
  <2>2. CASE tag \notin I!Signal
    <3>1. consumers \in Seq(Consumer) /\ IsInjective(consumers) /\ x \notin ToSet(consumers)
      BY <1>0 DEF InputState
    <3>2. /\ consumers' \in Seq(Consumer) /\ IsInjective(consumers')
          /\ ToSet(consumers') = ToSet(consumers) \cup {x}
      <4>1. consumers' = Append(consumers, x)
        BY <1>1, <2>2
      <4>. QED BY <3>1, <4>1, AppendExactly, Appended
    <3>. QED BY <1>1, <2>2, <3>1, <3>2
  <2>. QED BY <2>1, <2>2
<1>3. InputState'
  <2>1. \A r \in Nat : Past(r) => Past(r)'
    BY <1>0, <1>1 DEF InputState, Past, I!Signal
  <2>2. ASSUME NEW y \in Consumer, does'[y] = "notifies" PROVE Past(owes[y])'
    <3>1. CASE y = x
      BY <1>0, <1>1, <2>2, <3>1 DEF InputState, Past, I!Signal
    <3>2. CASE y # x
      <4>1. owes'[y] = owes[y] /\ Past(owes[y]) /\ owes[y] \in Nat
        BY <1>0, <1>1, <2>2, <3>2 DEF InputState
      <4>. QED BY <1>0, <1>1, <4>1 DEF Past, I!Signal, InputState
    <3>. QED BY <3>1, <3>2
  <2>3. /\ does' \in [Consumer -> {"idle", "notifies", "waits", "over", "stopped"}]
        /\ owes' \in [Consumer -> Nat]
    BY <1>0, <1>1 DEF InputState
  <2>4. \A r \in notified' : Past(r)'
    BY <1>0, <2>1 DEF InputState
  <2>. QED BY <1>0, <1>1, <1>2, <2>2, <2>3, <2>4 DEF InputState, I!Signal
<1>4. InputAsks'
  <2>1. Receivers' = Receivers
    BY <1>0 DEF Receivers
  <2>2. ASSUME NEW y \in Consumer PROVE HasAsked(y)'
    <3>1. CASE y = x
      BY <1>0, <1>1, <1>2, <2>1, <3>1 DEF InputState, InputAsks, HasAsked, I!Signal
    <3>2. CASE y # x
      <4>1. does'[y] = does[y] /\ given'[y] = given[y] /\ HasAsked(y)
        BY <1>0, <1>1, <3>2 DEF InputState, InputAsks
      <4>. QED BY <1>2, <2>1, <3>2, <4>1 DEF HasAsked
    <3>. QED BY <3>1, <3>2
  <2>. QED BY <1>0, <2>2 DEF InputAsks
<1>5. InputFeeds'
  <2>1. ASSUME NEW y \in Consumer PROVE FedTo(y)' /\ \A e \in Nat : Has(y, e)' <=> Has(y, e)
    <3>1. CASE y = x
      <4>1. given'[y] = I!Pending /\ seen'[y] = seen[y]
        BY <1>0, <3>1 DEF InputAsks
      <4>. QED BY <1>0, <3>1, <4>1 DEF InputFeeds, FedTo, Has, I!Pending
    <3>2. CASE y # x
      <4>1. does'[y] = does[y] /\ given'[y] = given[y] /\ FedTo(y) /\ seen' = seen
        BY <1>0, <1>1, <3>2 DEF InputState, InputAsks, InputFeeds
      <4>. QED BY <4>1 DEF FedTo, Has
    <3>. QED BY <3>1, <3>2
  <2>2. (seen \in [Consumer -> Seq(Nat)])' /\ emitted \in Nat
    BY <1>0 DEF InputFeeds, InputState
  <2>. QED BY <1>0, <2>1, <2>2, StillFed
<1>. QED BY <1>3, <1>4, <1>5 DEF InputInv

(* It tells the drainer, or is interrupted.                                   *)
LEMMA InputGoes ==
  ASSUME InputInv, NEW x \in Consumer, I!Notify(x) \/ I!Interrupt(x)
  PROVE  InputInv'
<1>0. /\ UNCHANGED <<tag, consumers, round, owes, given, seen, producer, listens, hands, emitted>>
      /\ InputState /\ InputAsks /\ InputFeeds
      /\ \/ /\ does[x] = "notifies" /\ does' = [does EXCEPT ![x] = "waits"]
            /\ notified' = notified \cup {owes[x]}
         \/ /\ does[x] \in {"idle", "notifies", "waits"} /\ notified' = notified
            /\ does' = [does EXCEPT ![x] = "stopped"]
  BY DEF I!Notify, I!Interrupt, I!Goto, I!state, InputInv
<1>1. InputState'
  BY <1>0 DEF InputState, Past
<1>2. InputAsks'
  <2>1. Receivers' = Receivers
    BY <1>0 DEF Receivers
  <2>2. ASSUME NEW y \in Consumer PROVE HasAsked(y)'
    BY <1>0, <2>1 DEF InputState, InputAsks, HasAsked
  <2>. QED BY <1>0, <2>2 DEF InputAsks
<1>3. InputFeeds'
  <2>1. ASSUME NEW y \in Consumer PROVE FedTo(y)' /\ \A e \in Nat : Has(y, e)' <=> Has(y, e)
    <3>1. FedTo(y)
      BY <1>0 DEF InputFeeds
    <3>. QED BY <1>0, <3>1 DEF InputState, FedTo, Has
  <2>2. (seen \in [Consumer -> Seq(Nat)])' /\ emitted \in Nat
    BY <1>0 DEF InputFeeds, InputState
  <2>. QED BY <1>0, <2>1, <2>2, StillFed
<1>. QED BY <1>1, <1>2, <1>3 DEF InputInv

(* It goes on with what it was given.                                        *)
LEMMA InputReceives == ASSUME InputInv, NEW x \in Consumer, I!Receive(x) PROVE InputInv'
<1>0. /\ UNCHANGED <<tag, consumers, round, notified, owes, given, producer, listens, hands, emitted>>
      /\ InputState /\ InputAsks /\ InputFeeds
      /\ does[x] = "waits" /\ given[x] # I!Pending
  BY DEF I!Receive, I!state, InputInv
<1>1. \/ /\ given[x][1] = "element" /\ does' = [does EXCEPT ![x] = "idle"]
         /\ seen' = [seen EXCEPT ![x] = Append(seen[x], given[x][2])]
      \/ /\ given[x][1] # "element" /\ does' = [does EXCEPT ![x] = "over"] /\ seen' = seen
  BY DEF I!Receive, I!Goto
<1>2. x \notin ToSet(consumers) \cup Receivers
  BY <1>0 DEF InputAsks, HasAsked
<1>3. InputState'
  BY <1>0, <1>1 DEF InputState, Past
<1>4. InputAsks'
  <2>1. Receivers' = Receivers
    BY <1>0 DEF Receivers
  <2>2. ASSUME NEW y \in Consumer PROVE HasAsked(y)'
    <3>1. CASE y = x
      BY <1>0, <1>1, <1>2, <2>1, <3>1 DEF InputState, HasAsked
    <3>2. CASE y # x
      <4>1. does'[y] = does[y] /\ HasAsked(y)
        BY <1>0, <1>1, <3>2 DEF InputState, InputAsks
      <4>. QED BY <1>0, <2>1, <4>1 DEF HasAsked
    <3>. QED BY <3>1, <3>2
  <2>. QED BY <1>0, <2>2 DEF InputAsks
<1>5. CASE given[x][1] # "element"
  <2>1. ASSUME NEW y \in Consumer PROVE FedTo(y)' /\ \A e \in Nat : Has(y, e)' <=> Has(y, e)
    <3>1. FedTo(y)
      BY <1>0 DEF InputFeeds
    <3>. QED BY <1>0, <1>1, <1>5, <3>1 DEF InputState, FedTo, Has
  <2>2. (seen \in [Consumer -> Seq(Nat)])' /\ emitted \in Nat
    BY <1>0, <1>1, <1>5 DEF InputFeeds, InputState
  <2>. QED BY <1>0, <2>1, <2>2, StillFed, <1>3, <1>4 DEF InputInv
<1>6. CASE given[x][1] = "element"
  <2>. PICK n \in Nat : given[x] = <<"element", n>>
    BY <1>0, <1>6 DEF InputAsks, Outcome, I!Signal, I!Pending
  <2>0. /\ seen[x] \in Seq(Nat) /\ seen'[x] = Append(seen[x], n) /\ does'[x] = "idle"
        /\ \A e \in ToSet(seen[x]) : e < n
        /\ \A i, j \in DOMAIN seen[x] : i < j => seen[x][i] < seen[x][j]
        /\ (seen \in [Consumer -> Seq(Nat)])' /\ emitted \in Nat
    <3>1. FedTo(x) /\ seen \in [Consumer -> Seq(Nat)] /\ DOMAIN does = Consumer /\ emitted \in Nat
      BY <1>0 DEF InputFeeds, InputState
    <3>2. seen'[x] = Append(seen[x], n) /\ does'[x] = "idle" /\ (seen \in [Consumer -> Seq(Nat)])'
      <4>1. Append(seen[x], n) \in Seq(Nat) /\ given[x][2] = n
        BY <3>1
      <4>. QED BY <1>1, <1>6, <3>1, <4>1
    <3>. QED BY <1>0, <3>1, <3>2 DEF FedTo
  <2>1. /\ ToSet(seen'[x]) = ToSet(seen[x]) \cup {n}
        /\ \A i, j \in DOMAIN seen'[x] : i < j => seen'[x][i] < seen'[x][j]
    <3>1. \A i \in DOMAIN seen[x] : seen[x][i] \in ToSet(seen[x])
      BY DEF ToSet
    <3>2. ToSet(seen'[x]) = ToSet(seen[x]) \cup {n}
      BY <2>0, Appended
    <3>3. /\ DOMAIN seen'[x] = 1..(Len(seen[x]) + 1) /\ seen'[x][Len(seen[x]) + 1] = n
          /\ DOMAIN seen[x] = 1..Len(seen[x]) /\ Len(seen[x]) \in Nat
          /\ \A i \in 1..Len(seen[x]) : seen'[x][i] = seen[x][i]
      BY <2>0
    <3>4. ASSUME NEW i \in DOMAIN seen'[x], NEW j \in DOMAIN seen'[x], i < j
          PROVE  seen'[x][i] < seen'[x][j]
      <4>1. i \in DOMAIN seen[x]
        BY <3>3, <3>4
      <4>2. CASE j \in DOMAIN seen[x]
        BY <2>0, <3>3, <3>4, <4>1, <4>2
      <4>3. CASE j = Len(seen[x]) + 1
        BY <2>0, <3>1, <3>3, <4>1, <4>3
      <4>. QED BY <3>3, <4>2, <4>3
    <3>. QED BY <3>2, <3>4
  <2>2. ASSUME NEW y \in Consumer PROVE FedTo(y)' /\ \A e \in Nat : Has(y, e)' <=> Has(y, e)
    <3>1. CASE y = x
      <4>1. given'[x] = <<"element", n>> /\ given[x] = <<"element", n>>
        BY <1>0
      <4>2. \A e \in Nat : Has(x, e)' <=> Has(x, e)
        BY <2>1, <4>1 DEF Has
      <4>3. FedTo(x)'
        <5>1. given'[x][2] = n /\ n \in ToSet(seen'[x])
          BY <2>1, <4>1
        <5>. QED BY <2>0, <2>1, <5>1 DEF FedTo
      <4>. QED BY <3>1, <4>2, <4>3
    <3>2. CASE y # x
      <4>1. does'[y] = does[y] /\ seen'[y] = seen[y] /\ FedTo(y)
        BY <1>0, <1>1, <3>2 DEF InputState, InputFeeds
      <4>. QED BY <1>0, <4>1 DEF FedTo, Has
    <3>. QED BY <3>1, <3>2
  <2>. QED BY <1>0, <1>3, <1>4, <2>0, <2>2, StillFed DEF InputInv
<1>. QED BY <1>5, <1>6

-----------------------------------------------------------------------------
(* The drainer awaits a reader, and runs once there is one.                   *)
LEMMA InputDrains ==
  ASSUME InputInv, I!AwaitRead \/ I!Listened \/ I!Pull
  PROVE  InputInv'
<1>0. /\ UNCHANGED <<tag, consumers, round, notified, given, does, owes, seen, hands, emitted>>
      /\ InputState /\ InputAsks /\ InputFeeds
      /\ \/ /\ producer = "awaits"
            /\ \/ tag = "empty" /\ producer' = "listens" /\ listens' = round
               \/ tag # "empty" /\ producer' = "runs" /\ listens' = listens
         \/ producer = "listens" /\ listens \in notified /\ producer' = "runs" /\ listens' = listens
         \/ producer = "runs" /\ producer' = "awaits" /\ listens' = listens
  BY DEF I!AwaitRead, I!Listened, I!Pull, I!AndThen, I!state, InputInv, InputState
<1>1. InputState'
  BY <1>0 DEF InputState, Past, I!Signal
<1>2. InputAsks'
  BY <1>0 DEF InputAsks, HasAsked, Receivers
<1>3. InputFeeds'
  <2>1. ASSUME NEW y \in Consumer PROVE FedTo(y)' /\ \A e \in Nat : Has(y, e)' <=> Has(y, e)
    BY <1>0 DEF InputFeeds, FedTo, Has
  <2>2. (seen \in [Consumer -> Seq(Nat)])' /\ emitted \in Nat
    BY <1>0 DEF InputFeeds, InputState
  <2>. QED BY <1>0, <2>1, <2>2, StillFed
<1>. QED BY <1>1, <1>2, <1>3 DEF InputInv

(* The upstream emits, for the consumer that has waited longest.               *)
LEMMA InputEmits == ASSUME InputInv, I!Emit PROVE InputInv'
<1>0. /\ InputState /\ InputAsks /\ InputFeeds
      /\ producer = "runs" /\ tag = "emit" /\ hands = <<>> /\ consumers # <<>>
      /\ emitted' = emitted + 1 /\ emitted \in Nat /\ consumers \in Seq(Consumer)
      /\ UNCHANGED <<notified, given, does, owes, seen, listens>>
      /\ producer' = "hands"
  BY DEF I!Emit, InputInv, InputState
<1>. DEFINE h == Head(consumers)
<1>1. /\ hands' = << <<h, <<"element", emitted + 1>> >> >>
      /\ consumers' = Tail(consumers)
      /\ IF Len(consumers) = 1 THEN tag' = "empty" /\ round' = round + 1
                               ELSE tag' = tag /\ round' = round
  <2>1. Len(consumers) = 1 => Tail(consumers) = <<>>
    BY <1>0
  <2>. QED BY <1>0, <2>1 DEF I!Emit, I!WasTheLast
<1>2. /\ consumers' \in Seq(Consumer) /\ IsInjective(consumers')
      /\ ToSet(consumers') = ToSet(consumers) \ {h} /\ h \in ToSet(consumers) /\ h \in Consumer
      /\ consumers' # <<>> <=> Len(consumers) # 1
  <2>1. IsInjective(consumers') /\ ToSet(consumers') = ToSet(consumers) \ {h}
    BY <1>0, <1>1, TailExactly DEF InputState
  <2>2. h \in ToSet(consumers) /\ h \in Consumer /\ consumers' \in Seq(Consumer)
    BY <1>0, <1>1, HeadAndTail
  <2>3. consumers' # <<>> <=> Len(consumers) # 1
    <3>1. Len(consumers) = Len(consumers') + 1 /\ consumers' \in Seq(Consumer)
      BY <1>0, <1>1, HeadAndTail
    <3>. QED BY <3>1
  <2>. QED BY <2>1, <2>2, <2>3
<1>3. InputState'
  <2>1. \A r \in Nat : Past(r) => Past(r)'
    BY <1>0, <1>1 DEF InputState, Past
  <2>2. \A r \in notified' : Past(r)'
    BY <1>0, <2>1 DEF InputState
  <2>3. ASSUME NEW y \in Consumer, does'[y] = "notifies" PROVE Past(owes[y])'
    <3>. PICK r \in Nat : r = owes[y] /\ r = owes'[y]
      BY <1>0 DEF InputState
    <3>1. Past(r)
      BY <1>0, <2>3 DEF InputState
    <3>2. Past(r)'
      BY <2>1, <3>1
    <3>. QED BY <3>2 DEF Past
  <2>4. tag' \in {"empty", "emit"} /\ round' \in Nat /\ (tag' = "emit" <=> Len(consumers) # 1)
    BY <1>0, <1>1 DEF InputState
  <2>. QED BY <1>0, <1>1, <1>2, <2>2, <2>3, <2>4 DEF InputState, I!Signal
<1>4. DOMAIN hands' = {1} /\ hands'[1] = <<h, <<"element", emitted + 1>> >> /\ Len(hands') = 1
  BY <1>1
<1>5. InputAsks'
  <2>1. Receivers' = {h} /\ Receivers = {}
    BY <1>0, <1>4 DEF Receivers
  <2>2. ASSUME NEW y \in Consumer PROVE HasAsked(y)'
    <3>1. HasAsked(y) /\ does'[y] = does[y] /\ given'[y] = given[y]
      BY <1>0 DEF InputAsks
    <3>. QED BY <1>2, <2>1, <3>1 DEF HasAsked
  <2>3. hands' \in Seq(Consumer \X Outcome)
    BY <1>0, <1>1, <1>2 DEF Outcome
  <2>. QED BY <1>0, <1>4, <2>2, <2>3 DEF InputAsks
<1>6. InputFeeds'
  <2>. PICK n \in Nat : n = emitted + 1 /\ n = emitted'
    BY <1>0
  <2>1. ASSUME NEW y \in Consumer
        PROVE  FedTo(y)' /\ \A e \in Nat : (Has(y, e)' <=> Has(y, e)) /\ (Has(y, e) => e \in 1..emitted)
    BY <1>0 DEF InputFeeds, FedTo, Has
  <2>2. \A y \in Consumer : ~Has(y, n)'
    BY <1>0, <2>1
  <2>3. ASSUME NEW e \in 1..n
        PROVE  \/ \E y \in Consumer : Has(y, e)'
               \/ \E i \in DOMAIN hands' : hands'[i][2] = <<"element", e>>
    <3>1. CASE e = n
      BY <1>4, <3>1
    <3>2. CASE e # n
      <4>1. e \in 1..emitted /\ e \in Nat
        BY <1>0, <3>2
      <4>2. \E y \in Consumer : Has(y, e)
        BY <1>0, <4>1 DEF InputFeeds
      <4>. QED BY <2>1, <4>1, <4>2
    <3>. QED BY <3>1, <3>2
  <2>4. \A y, z \in Consumer : \A e \in Nat : Has(y, e)' /\ Has(z, e)' => y = z
    BY <1>0, <2>1 DEF InputFeeds
  <2>5. ASSUME NEW i \in DOMAIN hands'
        PROVE  /\ Len(hands') = 1 /\ hands'[i][2] = <<"element", emitted'>> /\ emitted' > 0
               /\ \A y \in Consumer : ~Has(y, emitted)'
    <3>1. i = 1 /\ hands'[i][2] = <<"element", n>>
      BY <1>4, <2>5
    <3>2. \A y \in Consumer : ~Has(y, emitted)'
      BY <2>2 DEF Has
    <3>. QED BY <1>0, <1>4, <3>1, <3>2
  <2>6. \A y \in Consumer : \A e \in Nat : Has(y, e)' => e \in 1..emitted'
    BY <1>0, <2>1
  <2>7. (seen \in [Consumer -> Seq(Nat)])'
    BY <1>0 DEF InputFeeds
  <2>. QED BY <2>1, <2>3, <2>4, <2>5, <2>6, <2>7 DEF InputFeeds
<1>. QED BY <1>3, <1>5, <1>6 DEF InputInv

(* It ends, for everybody.                                                   *)
LEMMA InputEnds == ASSUME InputInv, NEW signal \in I!Signal, I!End(signal) PROVE InputInv'
<1>0. /\ InputState /\ InputAsks /\ InputFeeds
      /\ producer = "runs" /\ tag = "emit" /\ hands = <<>>
      /\ consumers \in Seq(Consumer) /\ IsInjective(consumers)
      /\ UNCHANGED <<round, notified, given, does, owes, seen, listens, emitted>>
      /\ producer' = "hands" /\ consumers' = <<>> /\ tag' = signal
      /\ hands' = [i \in DOMAIN consumers |-> <<consumers[i], <<signal, 0>> >>]
  BY DEF I!End, InputInv, InputState
<1>1. InputState'
  <2>1. \A r \in Nat : Past(r) => Past(r)'
    BY <1>0 DEF InputState, Past, I!Signal
  <2>2. consumers' \in Seq(Consumer) /\ IsInjective(consumers')
    BY <1>0 DEF IsInjective
  <2>3. ASSUME NEW y \in Consumer, does'[y] = "notifies" PROVE Past(owes[y])'
    <3>. PICK r \in Nat : r = owes[y] /\ r = owes'[y]
      BY <1>0 DEF InputState
    <3>1. Past(r)
      BY <1>0, <2>3 DEF InputState
    <3>2. Past(r)'
      BY <2>1, <3>1
    <3>. QED BY <3>2 DEF Past
  <2>4. \A r \in notified' : Past(r)'
    BY <1>0, <2>1 DEF InputState
  <2>. QED BY <1>0, <2>2, <2>3, <2>4 DEF InputState, I!Signal
<1>2. /\ DOMAIN hands' = DOMAIN consumers /\ Len(hands') = Len(consumers)
      /\ hands' \in Seq(Consumer \X Outcome)
      /\ \A i \in DOMAIN hands' : hands'[i][1] = consumers[i] /\ hands'[i][2] = <<signal, 0>>
  BY <1>0 DEF Outcome
<1>3. InputAsks'
  <2>1. Receivers' = ToSet(consumers) /\ ToSet(consumers') = {} /\ Receivers = {}
    BY <1>0, <1>2 DEF Receivers, ToSet
  <2>2. ASSUME NEW y \in Consumer PROVE HasAsked(y)'
    <3>1. HasAsked(y) /\ does'[y] = does[y] /\ given'[y] = given[y]
      BY <1>0 DEF InputAsks
    <3>. QED BY <2>1, <3>1 DEF HasAsked
  <2>3. \A i, j \in DOMAIN hands' : hands'[i][1] = hands'[j][1] => i = j
    BY <1>0, <1>2 DEF IsInjective
  <2>. QED BY <1>0, <1>2, <2>2, <2>3 DEF InputAsks
<1>4. InputFeeds'
  <2>1. ASSUME NEW y \in Consumer PROVE FedTo(y)' /\ \A e \in Nat : Has(y, e)' <=> Has(y, e)
    BY <1>0 DEF InputFeeds, FedTo, Has
  <2>2. ASSUME NEW i \in DOMAIN hands' PROVE hands'[i][2][1] # "element"
    BY <1>2, <2>2 DEF I!Signal
  <2>3. ASSUME NEW e \in 1..emitted PROVE e \in Nat /\ \E y \in Consumer : Has(y, e)
    BY <1>0 DEF InputFeeds, InputState
  <2>. QED BY <1>0, <2>1, <2>2, <2>3 DEF InputFeeds
<1>. QED BY <1>1, <1>3, <1>4 DEF InputInv

(* The drainer tells the next one.                                           *)
LEMMA InputHands == ASSUME InputInv, I!Hand PROVE InputInv'
<1>0. /\ InputState /\ InputAsks /\ InputFeeds
      /\ producer = "hands" /\ hands # <<>> /\ hands \in Seq(Consumer \X Outcome)
      /\ hands' = Tail(hands)
      /\ producer' = IF Len(hands) > 1 THEN "hands"
                     ELSE IF tag \in I!Signal THEN "over" ELSE "awaits"
      /\ UNCHANGED <<tag, consumers, round, notified, does, owes, seen, listens, emitted>>
  BY DEF I!Hand, I!state, InputInv, InputAsks
<1>. PICK to \in Consumer, what \in Outcome : hands[1] = <<to, what>>
  BY <1>0
<1>1. /\ to \in Receivers /\ to \notin ToSet(consumers)
      /\ given' = [given EXCEPT ![to] = what]
  <2>1. to \in Receivers
    BY <1>0 DEF Receivers
  <2>2. given[to] = I!Pending /\ to \notin ToSet(consumers)
    BY <1>0, <2>1 DEF InputAsks, HasAsked
  <2>. QED BY <2>1, <2>2 DEF I!Hand
<1>2. /\ hands' \in Seq(Consumer \X Outcome) /\ Len(hands') = Len(hands) - 1
      /\ DOMAIN hands' = 1..(Len(hands) - 1) /\ DOMAIN hands = 1..Len(hands)
      /\ Len(hands) \in Nat /\ Len(hands) > 0
      /\ \A i \in DOMAIN hands' : i + 1 \in DOMAIN hands /\ hands'[i] = hands[i + 1]
  BY <1>0
<1>3. InputState'
  BY <1>0, <1>2 DEF InputState, Past
<1>4. InputAsks'
  <2>1. \A i, j \in DOMAIN hands' : hands'[i][1] = hands'[j][1] => i = j
    BY <1>0, <1>2 DEF InputAsks
  <2>2. Receivers' = Receivers \ {to}
    <3>1. ASSUME NEW i \in DOMAIN hands' PROVE hands'[i][1] \in Receivers \ {to}
      BY <1>0, <1>2, <3>1 DEF InputAsks, Receivers
    <3>2. ASSUME NEW i \in DOMAIN hands, i # 1 PROVE hands[i][1] \in Receivers'
      <4>1. i - 1 \in DOMAIN hands' /\ hands'[i - 1] = hands[i]
        BY <1>2, <3>2
      <4>. QED BY <4>1 DEF Receivers
    <3>3. hands[1][1] = to
      OBVIOUS
    <3>. QED BY <3>1, <3>2, <3>3 DEF Receivers
  <2>3. what # I!Pending
    BY DEF Outcome, I!Pending, I!Signal
  <2>4. ASSUME NEW y \in Consumer PROVE HasAsked(y)'
    <3>1. HasAsked(y) /\ (y # to => given'[y] = given[y]) /\ given'[to] = what /\ does' = does
      BY <1>0, <1>1 DEF InputAsks
    <3>. QED BY <1>0, <1>1, <2>2, <2>3, <3>1 DEF HasAsked
  <2>5. given' \in [Consumer -> {I!Pending} \cup Outcome]
    BY <1>0, <1>1 DEF InputAsks
  <2>. QED BY <1>2, <2>1, <2>4, <2>5 DEF InputAsks
<1>5. CASE what[1] # "element"
  <2>1. ASSUME NEW y \in Consumer PROVE FedTo(y)' /\ \A e \in Nat : Has(y, e)' <=> Has(y, e)
    <3>1. CASE y = to
      <4>1. given'[to] = what /\ given[to] = I!Pending /\ DOMAIN given = Consumer
        BY <1>0, <1>1 DEF InputAsks, HasAsked
      <4>2. \A e \in Nat : what # <<"element", e>> /\ given[to] # <<"element", e>>
        BY <1>5, <4>1 DEF I!Pending
      <4>. QED BY <1>0, <1>5, <3>1, <4>1, <4>2 DEF InputFeeds, FedTo, Has
    <3>2. CASE y # to
      <4>1. given'[y] = given[y] /\ FedTo(y)
        BY <1>0, <1>1, <3>2 DEF InputAsks, InputFeeds
      <4>. QED BY <1>0, <4>1 DEF FedTo, Has
    <3>. QED BY <3>1, <3>2
  <2>2. ASSUME NEW i \in DOMAIN hands PROVE hands[i][2][1] # "element"
    BY <1>0, <1>2, <1>5, <2>2 DEF InputFeeds
  <2>3. ASSUME NEW i \in DOMAIN hands' PROVE hands'[i][2][1] # "element"
    BY <1>2, <2>2, <2>3
  <2>4. ASSUME NEW e \in 1..emitted PROVE e \in Nat /\ \E y \in Consumer : Has(y, e)
    <3>1. \A i \in DOMAIN hands : hands[i][2] # <<"element", e>>
      BY <2>2
    <3>2. e \in Nat /\ e \in 1..emitted
      BY <1>0 DEF InputState
    <3>. QED BY <1>0, <3>1, <3>2 DEF InputFeeds
  <2>. QED BY <1>0, <1>3, <1>4, <2>1, <2>3, <2>4 DEF InputFeeds, InputInv
<1>6. CASE what[1] = "element"
  <2>. PICK n \in Nat : n = emitted
    BY <1>0 DEF InputState
  <2>1. /\ Len(hands) = 1 /\ what = <<"element", n>> /\ n > 0
        /\ \A y \in Consumer : ~Has(y, n)
    <3>1. 1 \in DOMAIN hands /\ hands[1][2] = what
      BY <1>2
    <3>. QED BY <1>0, <1>6, <3>1 DEF InputFeeds
  <2>2. DOMAIN hands' = {}
    BY <1>2, <2>1
  <2>3. ASSUME NEW y \in Consumer
        PROVE  FedTo(y)' /\ \A e \in Nat : Has(y, e)' <=> Has(y, e) \/ (y = to /\ e = n)
    <3>1. CASE y = to
      <4>1. /\ given'[to] = <<"element", n>> /\ given[to] = I!Pending /\ does[to] # "idle"
        BY <1>0, <1>1, <2>1 DEF InputAsks, HasAsked
      <4>2. \A e \in ToSet(seen[to]) : e < n
        <5>1. ASSUME NEW e \in ToSet(seen[to]) PROVE e \in Nat /\ e \in 1..n /\ e # n
          <6>1. seen[to] \in Seq(Nat)
            BY <1>0 DEF InputFeeds
          <6>2. e \in Nat /\ Has(to, e)
            BY <5>1, <6>1 DEF Has, ToSet
          <6>. QED BY <1>0, <2>1, <6>2 DEF InputFeeds
        <5>. QED BY <5>1
      <4>3. \A e \in Nat : given[to] # <<"element", e>> /\ (given'[to] = <<"element", e>> <=> e = n)
        BY <4>1 DEF I!Pending
      <4>4. given'[to][2] = n /\ FedTo(to)
        BY <1>0, <4>1 DEF InputFeeds
      <4>5. FedTo(to)'
        BY <1>0, <4>1, <4>2, <4>4 DEF FedTo
      <4>6. \A e \in Nat : Has(to, e)' <=> Has(to, e) \/ e = n
        BY <1>0, <4>3 DEF Has
      <4>. QED BY <3>1, <4>5, <4>6
    <3>2. CASE y # to
      <4>1. given'[y] = given[y] /\ FedTo(y)
        BY <1>0, <1>1, <3>2 DEF InputAsks, InputFeeds
      <4>. QED BY <1>0, <3>2, <4>1 DEF FedTo, Has
    <3>. QED BY <3>1, <3>2
  <2>4. ASSUME NEW e \in 1..n PROVE \E y \in Consumer : Has(y, e)'
    <3>1. CASE e = n
      BY <2>3, <3>1
    <3>2. CASE e # n
      <4>1. DOMAIN hands = {1} /\ hands[1][2] = <<"element", n>>
        BY <1>2, <2>1
      <4>2. \A i \in DOMAIN hands : hands[i][2] # <<"element", e>>
        BY <3>2, <4>1
      <4>3. e \in Nat /\ \E y \in Consumer : Has(y, e)
        <5>1. e \in 1..emitted /\ e \in Nat
          OBVIOUS
        <5>. QED BY <1>0, <4>2, <5>1 DEF InputFeeds
      <4>. QED BY <2>3, <4>3
    <3>. QED BY <3>1, <3>2
  <2>5. \A y, z \in Consumer : \A e \in Nat : Has(y, e)' /\ Has(z, e)' => y = z
    BY <1>0, <2>1, <2>3 DEF InputFeeds
  <2>6. \A y \in Consumer : \A e \in Nat : Has(y, e)' => e \in 1..emitted'
    BY <1>0, <2>1, <2>3 DEF InputFeeds
  <2>7. InputFeeds'
    BY <1>0, <2>2, <2>3, <2>4, <2>5, <2>6 DEF InputFeeds
  <2>. QED BY <1>3, <1>4, <2>7 DEF InputInv
<1>. QED BY <1>5, <1>6

-----------------------------------------------------------------------------
LEMMA InputStep == ASSUME InputInv, I!Next PROVE InputInv'
BY InputTakes, InputGoes, InputReceives, InputDrains, InputEmits, InputEnds, InputHands
   DEF I!Next, I!ProducerStep, I!ConsumerStep

LEMMA InputKept == ASSUME InputInv, UNCHANGED input PROVE InputInv'
<1>0. /\ UNCHANGED <<tag, consumers, round, notified, given, does, owes, seen, producer, listens,
                     hands, emitted>>
      /\ InputState /\ InputAsks /\ InputFeeds
  BY DEF input, InputInv
<1>1. InputState' /\ InputAsks'
  BY <1>0 DEF InputState, Past, InputAsks, HasAsked, Receivers
<1>2. ASSUME NEW y \in Consumer PROVE FedTo(y)' /\ \A e \in Nat : Has(y, e)' <=> Has(y, e)
  BY <1>0 DEF InputFeeds, FedTo, Has
<1>3. (seen \in [Consumer -> Seq(Nat)])' /\ emitted \in Nat
  BY <1>0 DEF InputFeeds, InputState
<1>. QED BY <1>0, <1>1, <1>2, <1>3, StillFed DEF InputInv

LEMMA InputBegins == ASSUME I!Init PROVE InputInv
<1>1. ToSet(consumers) = {} /\ Receivers = {} /\ IsInjective(consumers)
  BY DEF I!Init, ToSet, Receivers, IsInjective
<1>2. InputState
  BY <1>1 DEF I!Init, InputState, I!Signal
<1>a. InputAsks
  BY <1>1 DEF I!Init, InputAsks, HasAsked
<1>3. \A x \in Consumer : ToSet(seen[x]) = {} /\ given[x][1] # "element"
  BY DEF I!Init, ToSet, I!Pending
<1>4. \A x \in Consumer : \A e \in Nat : ~Has(x, e)
  BY <1>3 DEF Has
<1>5. InputFeeds
  BY <1>3, <1>4 DEF I!Init, InputFeeds, FedTo
<1>. QED BY <1>2, <1>a, <1>5 DEF InputInv

(* Each element goes to one consumer, in order, and nobody waits unseen.        *)
LEMMA InputFed == ASSUME InputInv PROVE I!FedInOrder
<1>0. InputState /\ InputAsks /\ InputFeeds
  BY DEF InputInv
<1>1. ASSUME NEW x \in Consumer, NEW y \in Consumer, x # y
      PROVE  ToSet(seen[x]) \cap ToSet(seen[y]) = {}
  <2>1. \A e \in ToSet(seen[x]) : e \in Nat /\ Has(x, e)
    BY <1>0 DEF InputFeeds, Has, ToSet
  <2>2. \A e \in ToSet(seen[y]) : e \in Nat /\ Has(y, e)
    BY <1>0 DEF InputFeeds, Has, ToSet
  <2>. QED BY <1>0, <1>1, <2>1, <2>2 DEF InputFeeds
<1>2. \A x \in Consumer : \A i, j \in DOMAIN seen[x] : i < j => seen[x][i] < seen[x][j]
  BY <1>0 DEF InputFeeds, FedTo
<1>3. I!SeenOnce
  <2>1. ASSUME NEW e \in 1..emitted
        PROVE  \/ \E x \in Consumer : e \in ToSet(seen[x]) \/ given[x] = <<"element", e>>
               \/ \E i \in DOMAIN hands : hands[i][2] = <<"element", e>>
    BY <1>0 DEF InputFeeds, Has
  <2>. QED BY <1>1, <1>2, <2>1 DEF I!SeenOnce, I!ToSet, ToSet
<1>4. I!ReaderFirst
  <2>1. producer = "runs" => tag = "emit" /\ consumers # <<>>
    BY <1>0 DEF InputState
  <2>2. ASSUME NEW x \in Consumer, does[x] \in {"notifies", "waits"}, given[x] = I!Pending
        PROVE  x \in ToSet(consumers) \/ \E i \in DOMAIN hands : hands[i][1] = x
    BY <1>0, <2>2 DEF InputAsks, HasAsked, Receivers
  <2>. QED BY <2>1, <2>2 DEF I!ReaderFirst, I!ToSet, ToSet
<1>. QED BY <1>3, <1>4 DEF I!FedInOrder

-----------------------------------------------------------------------------
(* Of a SubscriptionRef.  Whoever reads, sets, publishes or subscribes has the  *)
(* lock, so that a stream begins with a value that is not about to be published *)
(* and has every later one that was.                                        *)
AtWorkOn == {"reads", "sets", "publishes", "subscribes", "unlocks"}
Publishing == \E u \in Updater : phase[u] = "publishes"
Gap == skipped \cup (IF Publishing THEN {value} ELSE {})
Stream(s) == saw[s] \o queue[s]

ReferenceInv ==
  /\ value \in Nat /\ DOMAIN phase = U!Fiber /\ read \in [Updater -> Nat]
  /\ IsFiniteSet(did) /\ value = Cardinality(did) /\ did \subseteq Updater
  /\ skipped \subseteq 0..value /\ (Publishing => value \notin skipped)
  /\ \A f \in U!Fiber : phase[f] \in AtWorkOn => holder = f
  /\ \A u \in Updater :
       /\ phase[u] = "sets" => read[u] = value
       /\ phase[u] = "publishes" => read[u] + 1 = value
       /\ u \in did => phase[u] \in {"publishes", "unlocks", "ended"}

Complete(s) ==
  /\ saw[s] # <<>> /\ saw[s][1] <= value /\ (Publishing => saw[s][1] < value)
  /\ ToSet(Stream(s)) = {saw[s][1]} \cup (((saw[s][1] + 1)..value) \ Gap)
  /\ \A i \in 2..Len(Stream(s)) : Stream(s)[i - 1] < Stream(s)[i]
StreamOf(s) ==
  /\ s \in subscribed => phase[s] \in {"unlocks", "listens"} /\ Complete(s)
  /\ s \notin subscribed => queue[s] = <<>>
  /\ phase[s] = "subscribes" => saw[s] = <<value>>
StreamsInv ==
  /\ subscribed \subseteq Subscriber
  /\ queue \in [Subscriber -> Seq(Nat)] /\ saw \in [Subscriber -> Seq(Nat)]
  /\ \A s \in Subscriber : StreamOf(s)

SubscriptionInv == ReferenceInv /\ StreamsInv

(* One element goes from one sequence to the end of another, or comes in.       *)
LEMMA HandsOver ==
  ASSUME NEW D, NEW a \in Seq(D), NEW b \in Seq(D), NEW e \in D
  PROVE  /\ b # <<>> => Append(a, Head(b)) \o Tail(b) = a \o b
         /\ a \o Append(b, e) = Append(a \o b, e)
<1>1. \A t \in Seq(D) : \A x \in D : Append(t, x) = t \o <<x>>
  OBVIOUS
<1>2. a \o b \in Seq(D) /\ <<e>> \in Seq(D)
  BY Concats
<1>3. a \o (b \o <<e>>) = (a \o b) \o <<e>>
  BY <1>2, Concats
<1>4. b # <<>> => Append(a, Head(b)) \o Tail(b) = a \o b
  <2>. SUFFICES ASSUME b # <<>> PROVE Append(a, Head(b)) \o Tail(b) = a \o b
    OBVIOUS
  <2>1. Head(b) \in D /\ Tail(b) \in Seq(D) /\ b = <<Head(b)>> \o Tail(b)
    BY HeadAndTail
  <2>2. <<Head(b)>> \in Seq(D)
    BY <2>1
  <2>3. (a \o <<Head(b)>>) \o Tail(b) = a \o (<<Head(b)>> \o Tail(b))
    BY <2>1, <2>2, Concats
  <2>. QED BY <1>1, <2>1, <2>3
<1>. QED BY <1>1, <1>2, <1>3, <1>4

(* Only one is at work, and a stream is what it was while it neither publishes, *)
(* sets nor begins one.                                                     *)
LEMMA OneAtWork ==
  ASSUME ReferenceInv, NEW f \in U!Fiber, NEW g \in U!Fiber,
         phase[f] \in AtWorkOn, phase[g] \in AtWorkOn
  PROVE  f = g
BY DEF ReferenceInv

LEMMA StillComplete ==
  ASSUME NEW s, Complete(s), UNCHANGED <<value, Gap, Stream(s), saw[s]>>, Publishing' => Publishing
  PROVE  Complete(s)'
BY DEF Complete

(* Somebody gets the lock, gives it back, reads, or is told to stop.            *)
LEMMA SubscriptionMoves ==
  ASSUME SubscriptionInv,
         \/ \E f \in U!Fiber : U!Lock(f) \/ U!Unlock(f)
         \/ \E u \in Updater : U!Read(u) \/ U!Interrupt(u)
  PROVE  SubscriptionInv'
<1>0. /\ UNCHANGED <<value, did, skipped, subscribed, queue, saw>>
      /\ ReferenceInv /\ StreamsInv
  BY DEF U!Lock, U!Unlock, U!Read, U!Interrupt, U!reference, U!subscriptions, SubscriptionInv
<1>1. ReferenceInv'
  <2>. USE <1>0 DEF ReferenceInv, AtWorkOn, Publishing, U!Goto
  <2>1. CASE \E f \in U!Fiber : U!Lock(f)
    <3>. PICK f \in U!Fiber : U!Lock(f)
      BY <2>1
    <3>1. /\ holder = Nobody /\ holder' = f /\ read' = read
          /\ phase[f] = "begins" /\ phase' = [phase EXCEPT ![f] = "reads"]
      BY DEF U!Lock, U!MayEnter
    <3>2. \A g \in U!Fiber : phase[g] \notin AtWorkOn
      BY <3>1, SubscriptionAssumption DEF U!Fiber
    <3>. QED BY <3>1, <3>2 DEF U!Fiber
  <2>2. CASE \E f \in U!Fiber : U!Unlock(f)
    <3>. PICK f \in U!Fiber : U!Unlock(f)
      BY <2>2
    <3>1. /\ phase[f] = "unlocks" /\ read' = read
          /\ phase' = [phase EXCEPT ![f] = IF f \in Subscriber THEN "listens" ELSE "ended"]
      BY DEF U!Unlock
    <3>2. \A g \in U!Fiber : phase[g] \in AtWorkOn => g = f
      BY <3>1, OneAtWork
    <3>. QED BY <3>1, <3>2, SubscriptionAssumption DEF U!Fiber
  <2>3. CASE \E u \in Updater : U!Read(u)
    <3>. PICK u \in Updater : U!Read(u)
      BY <2>3
    <3>1. /\ phase[u] = "reads" /\ phase' = [phase EXCEPT ![u] = "sets"]
          /\ read' = [read EXCEPT ![u] = value] /\ holder' = holder
      BY DEF U!Read, U!reference
    <3>. QED BY <3>1 DEF U!Fiber
  <2>4. CASE \E u \in Updater : U!Interrupt(u)
    BY <2>4 DEF U!Interrupt, U!reference
  <2>. QED BY <2>1, <2>2, <2>3, <2>4
<1>2. /\ Publishing' <=> Publishing
      /\ \A s \in Subscriber :
           \/ phase'[s] = phase[s]
           \/ s \notin subscribed /\ phase'[s] = "reads"
           \/ phase[s] = "unlocks" /\ phase'[s] = "listens"
  <2>. USE <1>0 DEF ReferenceInv, Publishing, U!Goto, U!Fiber
  <2>1. CASE \E f \in U!Fiber : U!Lock(f)
    BY <2>1 DEF U!Lock, StreamsInv, StreamOf
  <2>2. CASE \E f \in U!Fiber : U!Unlock(f)
    BY <2>2, SubscriptionAssumption DEF U!Unlock
  <2>3. CASE \E u \in Updater : U!Read(u)
    BY <2>3, SubscriptionAssumption DEF U!Read
  <2>4. CASE \E u \in Updater : U!Interrupt(u)
    BY <2>4 DEF U!Interrupt
  <2>. QED BY <2>1, <2>2, <2>3, <2>4
<1>3. UNCHANGED Gap
  BY <1>0, <1>2 DEF Gap
<1>4. ASSUME NEW s \in Subscriber PROVE StreamOf(s)'
  <2>1. StreamOf(s) /\ UNCHANGED Stream(s)
    BY <1>0 DEF StreamsInv, Stream
  <2>2. Complete(s) => Complete(s)'
    BY <1>0, <1>2, <1>3, <2>1, StillComplete
  <2>. QED BY <1>0, <1>2, <2>1, <2>2 DEF StreamOf
<1>. QED BY <1>0, <1>1, <1>4 DEF StreamsInv, SubscriptionInv

(* An update.                                                               *)
LEMMA SubscriptionSets == ASSUME SubscriptionInv, NEW u \in Updater, U!Set(u) PROVE SubscriptionInv'
<1>0. /\ UNCHANGED <<holder, read, skipped, subscribed, queue, saw>>
      /\ phase[u] = "sets" /\ phase' = [phase EXCEPT ![u] = "publishes"]
      /\ value' = read[u] + 1 /\ did' = did \cup {u}
      /\ ReferenceInv /\ StreamsInv
  BY DEF U!Set, U!Goto, U!subscriptions, SubscriptionInv
<1>1. value' = value + 1 /\ value \in Nat /\ u \notin did /\ DOMAIN phase = U!Fiber /\ u \in U!Fiber
  BY <1>0 DEF ReferenceInv, U!Fiber
<1>2. \A f \in U!Fiber : phase[f] \in AtWorkOn => f = u
  BY <1>0, <1>1, OneAtWork DEF AtWorkOn
<1>3. ~Publishing /\ Publishing'
  BY <1>0, <1>1, <1>2 DEF Publishing, AtWorkOn, U!Fiber
<1>4. IsFiniteSet(did') /\ Cardinality(did') = value'
  BY <1>0, <1>1, FS_AddElement DEF ReferenceInv
<1>5. value' \notin skipped /\ skipped \subseteq 0..value'
  BY <1>0, <1>1 DEF ReferenceInv
<1>6. ReferenceInv'
  BY <1>0, <1>1, <1>2, <1>3, <1>4, <1>5 DEF ReferenceInv, AtWorkOn, U!Fiber
<1>7. ASSUME NEW s \in Subscriber PROVE StreamOf(s)'
  <2>1. s # u /\ phase'[s] = phase[s] /\ StreamOf(s) /\ s \in U!Fiber /\ UNCHANGED Stream(s)
    BY <1>0, <1>1, SubscriptionAssumption DEF StreamsInv, U!Fiber, Stream
  <2>2. phase[s] # "subscribes"
    BY <1>2, <2>1 DEF AtWorkOn
  <2>3. ASSUME Complete(s), s \in subscribed PROVE Complete(s)'
    <3>1. saw[s] \in Seq(Nat) /\ saw[s] # <<>>
      BY <1>0, <2>3 DEF Complete, StreamsInv
    <3>. PICK v \in Nat : v = saw[s][1] /\ v = saw'[s][1]
      BY <1>0, <3>1
    <3>2. (((v + 1)..value) \ Gap) = (((v + 1)..value') \ Gap')
      <4>1. Gap = skipped /\ Gap' = skipped \cup {value'}
        BY <1>0, <1>3 DEF Gap
      <4>2. (v + 1)..value = ((v + 1)..value') \ {value'}
        BY <1>1
      <4>. QED BY <4>1, <4>2
    <3>3. v <= value' /\ v < value'
      BY <1>1, <2>3 DEF Complete
    <3>. QED BY <1>0, <2>1, <2>3, <3>1, <3>2, <3>3 DEF Complete
  <2>. QED BY <1>0, <2>1, <2>2, <2>3 DEF StreamOf
<1>. QED BY <1>0, <1>6, <1>7 DEF StreamsInv, SubscriptionInv

(* It is published, to all subscriptions there are.                           *)
LEMMA SubscriptionPublishes ==
  ASSUME SubscriptionInv, NEW u \in Updater, U!Publish(u)
  PROVE  SubscriptionInv'
<1>0. /\ UNCHANGED <<value, holder, read, subscribed, saw, did, skipped>>
      /\ phase[u] = "publishes" /\ phase' = [phase EXCEPT ![u] = "unlocks"]
      /\ queue' = [s \in Subscriber |-> IF s \in subscribed THEN Append(queue[s], read[u] + 1)
                                                            ELSE queue[s]]
      /\ ReferenceInv /\ StreamsInv
  BY DEF U!Publish, U!Goto, U!reference, SubscriptionInv
<1>1. read[u] + 1 = value /\ value \in Nat /\ DOMAIN phase = U!Fiber /\ u \in U!Fiber
  BY <1>0 DEF ReferenceInv, U!Fiber
<1>2. \A f \in U!Fiber : phase[f] \in AtWorkOn => f = u
  BY <1>0, <1>1, OneAtWork DEF AtWorkOn
<1>3. Publishing /\ ~Publishing'
  BY <1>0, <1>1, <1>2 DEF Publishing, AtWorkOn, U!Fiber
<1>4. ReferenceInv'
  BY <1>0, <1>1, <1>2, <1>3 DEF ReferenceInv, AtWorkOn, U!Fiber
<1>5. queue' \in [Subscriber -> Seq(Nat)]
  BY <1>0, <1>1 DEF StreamsInv
<1>6. ASSUME NEW s \in Subscriber PROVE StreamOf(s)'
  <2>1. s # u /\ phase'[s] = phase[s] /\ StreamOf(s)
    BY <1>0, <1>1, SubscriptionAssumption DEF StreamsInv, U!Fiber
  <2>2. ASSUME s \in subscribed, Complete(s) PROVE Complete(s)'
    <3>1. saw[s] \in Seq(Nat) /\ queue[s] \in Seq(Nat) /\ saw[s] # <<>>
      BY <1>0, <2>2 DEF Complete, StreamsInv
    <3>2. Stream(s) \in Seq(Nat) /\ Stream(s)' = Append(Stream(s), value)
      <4>1. queue'[s] = Append(queue[s], value) /\ saw' = saw
        BY <1>0, <1>1, <2>2
      <4>2. saw[s] \o Append(queue[s], value) = Append(saw[s] \o queue[s], value)
        <5>1. value \in Nat
          BY <1>1
        <5>. QED BY <3>1, <5>1, HandsOver
      <4>3. saw[s] \o queue[s] \in Seq(Nat)
        BY <3>1, Concats
      <4>. QED BY <4>1, <4>2, <4>3 DEF Stream
    <3>. PICK v \in Nat : v = saw[s][1] /\ v = saw'[s][1]
      BY <1>0, <3>1
    <3>3. /\ v < value /\ ToSet(Stream(s)) = {v} \cup (((v + 1)..value) \ Gap)
          /\ value \notin skipped /\ Gap = skipped \cup {value} /\ Gap' = skipped
      BY <1>0, <1>3, <2>2 DEF Complete, ReferenceInv, Gap
    <3>4. ToSet(Stream(s)') = {v} \cup (((v + 1)..value) \ Gap')
      <4>1. ToSet(Stream(s)') = ToSet(Stream(s)) \cup {value}
        BY <1>1, <3>2, Appended
      <4>2. value \in (v + 1)..value
        BY <1>1, <3>3
      <4>. QED BY <3>3, <4>1, <4>2
    <3>5. \A x \in ToSet(Stream(s)) : x < value
      BY <1>1, <3>3
    <3>6. \A i \in 2..Len(Stream(s)') : Stream(s)'[i - 1] < Stream(s)'[i]
      <4>1. \A i \in 1..Len(Stream(s)) : Stream(s)[i] < value
        BY <3>2, <3>5 DEF ToSet
      <4>2. /\ Len(Stream(s)') = Len(Stream(s)) + 1 /\ Len(Stream(s)) \in Nat
            /\ Stream(s)'[Len(Stream(s)) + 1] = value
            /\ \A i \in 1..Len(Stream(s)) : Stream(s)'[i] = Stream(s)[i]
        BY <1>1, <3>2
      <4>3. \A i \in 2..Len(Stream(s)) : Stream(s)[i - 1] < Stream(s)[i]
        BY <2>2 DEF Complete
      <4>. QED BY <4>1, <4>2, <4>3
    <3>7. v <= value
      BY <1>1, <3>3
    <3>. QED BY <1>0, <1>3, <3>1, <3>4, <3>6, <3>7 DEF Complete
  <2>. QED BY <1>0, <2>1, <2>2 DEF StreamOf
<1>. QED BY <1>0, <1>4, <1>5, <1>6 DEF StreamsInv, SubscriptionInv

(* An updater stops, perhaps with a value that nobody will hear of.            *)
LEMMA SubscriptionStops == ASSUME SubscriptionInv, NEW u \in Updater, U!Stop(u) PROVE SubscriptionInv'
<1>0. /\ UNCHANGED <<value, holder, read, subscribed, queue, saw, did>>
      /\ phase[u] \in {"begins", "reads", "sets", "publishes"}
      /\ phase' = [phase EXCEPT ![u] = IF holder = u THEN "unlocks" ELSE "ended"]
      /\ skipped' = IF phase[u] = "publishes" THEN skipped \cup {value} ELSE skipped
      /\ ReferenceInv /\ StreamsInv
  BY DEF U!Stop, U!Goto, U!reference, U!subscriptions, SubscriptionInv
<1>1. value \in Nat /\ DOMAIN phase = U!Fiber /\ u \in U!Fiber
  BY <1>0 DEF ReferenceInv, U!Fiber
<1>2. phase[u] = "publishes" => Publishing /\ ~Publishing'
  <2>. SUFFICES ASSUME phase[u] = "publishes" PROVE Publishing /\ ~Publishing'
    OBVIOUS
  <2>1. \A f \in U!Fiber : phase[f] \in AtWorkOn => f = u
    BY <1>0, <1>1, OneAtWork DEF AtWorkOn
  <2>. QED BY <1>0, <1>1, <2>1 DEF Publishing, AtWorkOn, U!Fiber
<1>3. phase[u] # "publishes" => (Publishing' <=> Publishing)
  BY <1>0, <1>1 DEF Publishing, U!Fiber
<1>4. UNCHANGED Gap /\ (Publishing' => Publishing)
  BY <1>0, <1>2, <1>3 DEF Gap
<1>5. skipped' \subseteq 0..value /\ (Publishing' => value \notin skipped')
  <2>1. CASE phase[u] = "publishes"
    <3>1. value \in 0..value /\ skipped \subseteq 0..value
      BY <1>0, <1>1 DEF ReferenceInv
    <3>. QED BY <1>0, <1>2, <2>1, <3>1
  <2>2. CASE phase[u] # "publishes"
    BY <1>0, <1>1, <1>3, <2>2 DEF ReferenceInv
  <2>. QED BY <2>1, <2>2
<1>6. ReferenceInv'
  BY <1>0, <1>1, <1>5 DEF ReferenceInv, AtWorkOn, U!Fiber
<1>7. ASSUME NEW s \in Subscriber PROVE StreamOf(s)'
  <2>1. s # u /\ phase'[s] = phase[s] /\ StreamOf(s) /\ UNCHANGED Stream(s)
    BY <1>0, <1>1, SubscriptionAssumption DEF StreamsInv, U!Fiber, Stream
  <2>2. Complete(s) => Complete(s)'
    BY <1>0, <1>4, <2>1, StillComplete
  <2>. QED BY <1>0, <2>1, <2>2 DEF StreamOf
<1>. QED BY <1>0, <1>6, <1>7 DEF StreamsInv, SubscriptionInv

(* A stream begins, or goes on.                                              *)
LEMMA SubscriptionStreams ==
  ASSUME SubscriptionInv, NEW s \in Subscriber, U!First(s) \/ U!Subscribe(s) \/ U!Take(s)
  PROVE  SubscriptionInv'
<1>0. /\ UNCHANGED <<value, holder, read, did, skipped>>
      /\ ReferenceInv /\ StreamsInv /\ s \in U!Fiber /\ s \notin Updater /\ StreamOf(s)
      /\ DOMAIN phase = U!Fiber
  BY SubscriptionAssumption
     DEF U!First, U!Subscribe, U!Take, U!reference, SubscriptionInv, ReferenceInv, StreamsInv, U!Fiber
<1>1. \/ /\ phase[s] = "reads" /\ phase' = [phase EXCEPT ![s] = "subscribes"]
         /\ saw' = [saw EXCEPT ![s] = <<value>>] /\ UNCHANGED <<subscribed, queue>>
      \/ /\ phase[s] = "subscribes" /\ phase' = [phase EXCEPT ![s] = "unlocks"]
         /\ subscribed' = subscribed \cup {s} /\ UNCHANGED <<queue, saw>>
      \/ /\ phase[s] = "listens" /\ phase' = phase /\ queue[s] # <<>> /\ subscribed' = subscribed
         /\ saw' = [saw EXCEPT ![s] = Append(saw[s], Head(queue[s]))]
         /\ queue' = [queue EXCEPT ![s] = Tail(queue[s])]
  BY DEF U!First, U!Subscribe, U!Take, U!Goto
<1>2. ReferenceInv' /\ (Publishing' <=> Publishing) /\ UNCHANGED Gap
  <2>1. /\ Publishing' <=> Publishing
        /\ \A f \in U!Fiber : phase'[f] \in AtWorkOn => phase[f] \in AtWorkOn
        /\ \A v \in Updater : phase'[v] = phase[v]
    BY <1>0, <1>1 DEF Publishing, AtWorkOn, U!Fiber
  <2>2. DOMAIN phase' = U!Fiber
    BY <1>0, <1>1
  <2>. QED BY <1>0, <2>1, <2>2 DEF ReferenceInv, Gap
<1>3. ASSUME NEW r \in Subscriber, r # s PROVE StreamOf(r)'
  <2>1. /\ phase'[r] = phase[r] /\ StreamOf(r) /\ queue'[r] = queue[r] /\ saw'[r] = saw[r]
        /\ r \in subscribed' <=> r \in subscribed
    BY <1>0, <1>1, <1>3 DEF StreamsInv, U!Fiber
  <2>2. Complete(r) => Complete(r)'
    BY <1>0, <1>2, <2>1, StillComplete DEF Stream
  <2>. QED BY <1>0, <2>1, <2>2 DEF StreamOf
<1>4. queue[s] \in Seq(Nat) /\ saw[s] \in Seq(Nat) /\ DOMAIN queue = Subscriber /\ DOMAIN saw = Subscriber
  BY <1>0 DEF StreamsInv
<1>5. CASE phase[s] = "reads"
  <2>1. s \notin subscribed /\ saw'[s] = <<value>> /\ phase'[s] = "subscribes"
    BY <1>0, <1>1, <1>4, <1>5 DEF StreamOf
  <2>2. StreamOf(s)'
    BY <1>0, <1>1, <1>5, <2>1 DEF StreamOf
  <2>3. saw' \in [Subscriber -> Seq(Nat)] /\ queue' = queue /\ subscribed' = subscribed
    <3>1. <<value>> \in Seq(Nat)
      BY <1>0 DEF ReferenceInv
    <3>. QED BY <1>0, <1>1, <1>5, <3>1 DEF StreamsInv
  <2>. QED BY <1>0, <1>2, <1>3, <2>2, <2>3 DEF StreamsInv, SubscriptionInv
<1>6. CASE phase[s] = "subscribes"
  <2>1. /\ saw[s] = <<value>> /\ queue[s] = <<>> /\ UNCHANGED <<saw, queue>>
        /\ phase'[s] = "unlocks" /\ subscribed' = subscribed \cup {s}
    BY <1>0, <1>1, <1>6 DEF StreamOf
  <2>2. ~Publishing
    <3>1. \A f \in U!Fiber : phase[f] \in AtWorkOn => f = s
      BY <1>0, <1>6, OneAtWork DEF AtWorkOn
    <3>. QED BY <1>0, <3>1 DEF Publishing, AtWorkOn, U!Fiber
  <2>3. Stream(s) = <<value>> /\ value \in Nat
    BY <1>0, <2>1 DEF Stream, ReferenceInv
  <2>4. Complete(s)
    <3>1. ToSet(<<value>>) = {value} /\ (value + 1)..value = {}
      BY <2>3, Heads
    <3>. QED BY <2>1, <2>2, <2>3, <3>1 DEF Complete
  <2>5. Complete(s)'
    BY <1>0, <1>2, <2>1, <2>4, StillComplete DEF Stream
  <2>6. StreamOf(s)'
    BY <2>1, <2>5 DEF StreamOf
  <2>. QED BY <1>0, <1>2, <1>3, <2>1, <2>6 DEF StreamsInv, SubscriptionInv
<1>7. CASE phase[s] = "listens"
  <2>1. /\ saw'[s] = Append(saw[s], Head(queue[s])) /\ queue'[s] = Tail(queue[s])
        /\ queue[s] # <<>> /\ s \in subscribed /\ phase' = phase /\ subscribed' = subscribed
    BY <1>0, <1>1, <1>4, <1>7 DEF StreamOf
  <2>2. UNCHANGED Stream(s)
    <3>1. Append(saw[s], Head(queue[s])) \o Tail(queue[s]) = saw[s] \o queue[s]
      BY <1>4, <2>1, HandsOver, 0 \in Nat
    <3>. QED BY <2>1, <3>1 DEF Stream
  <2>3. Complete(s)
    BY <1>0, <2>1 DEF StreamOf
  <2>4. saw'[s][1] = saw[s][1] /\ saw'[s] # <<>>
    <3>1. Head(queue[s]) \in Nat /\ saw[s] # <<>>
      BY <1>4, <2>1, <2>3, HeadAndTail DEF Complete
    <3>. PICK a \in Seq(Nat) : a = saw[s]
      BY <1>4
    <3>. PICK e \in Nat : e = Head(queue[s])
      BY <3>1
    <3>2. Append(a, e)[1] = a[1] /\ Append(a, e) # <<>>
      BY <3>1
    <3>. QED BY <2>1, <3>2
  <2>5. Complete(s)'
    BY <1>0, <1>2, <2>2, <2>3, <2>4 DEF Complete
  <2>6. StreamOf(s)'
    BY <1>7, <2>1, <2>5 DEF StreamOf
  <2>7. saw' \in [Subscriber -> Seq(Nat)] /\ queue' \in [Subscriber -> Seq(Nat)]
    <3>1. Append(saw[s], Head(queue[s])) \in Seq(Nat) /\ Tail(queue[s]) \in Seq(Nat)
      BY <1>4, <2>1, HeadAndTail
    <3>. QED BY <1>0, <1>1, <1>7, <3>1 DEF StreamsInv
  <2>. QED BY <1>0, <1>2, <1>3, <2>1, <2>6, <2>7 DEF StreamsInv, SubscriptionInv
<1>. QED BY <1>1, <1>5, <1>6, <1>7

-----------------------------------------------------------------------------
LEMMA SubscriptionStep == ASSUME SubscriptionInv, U!Next PROVE SubscriptionInv'
BY SubscriptionMoves, SubscriptionSets, SubscriptionPublishes, SubscriptionStops, SubscriptionStreams
   DEF U!Next, U!Step, U!UpdaterStep, U!SubscriberStep

LEMMA SubscriptionKept == ASSUME SubscriptionInv, UNCHANGED subscription PROVE SubscriptionInv'
<1>1. /\ UNCHANGED <<value, holder, phase, read, subscribed, queue, saw, did, skipped>>
      /\ ReferenceInv /\ StreamsInv
  BY DEF subscription, SubscriptionInv
<1>2. ReferenceInv' /\ (Publishing' <=> Publishing) /\ UNCHANGED Gap
  BY <1>1 DEF ReferenceInv, Publishing, Gap
<1>3. ASSUME NEW s \in Subscriber PROVE StreamOf(s)'
  <2>1. StreamOf(s)
    BY <1>1 DEF StreamsInv
  <2>2. Complete(s) => Complete(s)'
    BY <1>1, <1>2, StillComplete DEF Stream
  <2>. QED BY <1>1, <2>1, <2>2 DEF StreamOf
<1>. QED BY <1>1, <1>2, <1>3 DEF StreamsInv, SubscriptionInv

LEMMA SubscriptionBegins == ASSUME U!Init PROVE SubscriptionInv
<1>1. ReferenceInv
  BY FS_EmptySet DEF U!Init, ReferenceInv, AtWorkOn, U!Fiber
<1>2. StreamsInv
  BY DEF U!Init, StreamsInv, StreamOf, U!Fiber
<1>. QED BY <1>1, <1>2 DEF SubscriptionInv

(* No update is lost, and every subscriber sees the changes.                   *)
LEMMA SubscriptionSeen == ASSUME SubscriptionInv PROVE U!Changes
<1>1. U!NoLostUpdate
  <2>1. \A x : U!Cardinality(x) = Cardinality(x)
    BY DEF U!Cardinality, Cardinality
  <2>. QED BY <2>1 DEF SubscriptionInv, ReferenceInv, U!NoLostUpdate
<1>2. U!Unpublished = Gap
  BY DEF U!Unpublished, Gap, Publishing
<1>3. ASSUME NEW s \in subscribed
      PROVE  LET stream == saw[s] \o queue[s]
             IN /\ U!ToSet(stream) = {stream[1]} \cup (((stream[1] + 1)..value) \ U!Unpublished)
                /\ \A i \in 2..Len(stream) : stream[i - 1] < stream[i]
  <2>1. s \in Subscriber /\ Complete(s) /\ saw[s] \in Seq(Nat) /\ queue[s] \in Seq(Nat)
    BY DEF SubscriptionInv, StreamsInv, StreamOf
  <2>2. saw[s][1] = Stream(s)[1]
    <3>1. 1 \in 1..Len(saw[s])
      BY <2>1 DEF Complete
    <3>2. (saw[s] \o queue[s])[1] = saw[s][1]
      <4>1. saw[s] \in Seq(Nat) /\ queue[s] \in Seq(Nat)
        BY <2>1
      <4>2. \A p, q \in Seq(Nat) : 1 \in 1..Len(p) => (p \o q)[1] = p[1]
        BY ConcatProperties
      <4>. QED BY <3>1, <4>1, <4>2
    <3>. QED BY <3>2 DEF Stream
  <2>. QED BY <1>2, <2>1, <2>2 DEF Complete, Stream, U!ToSet, ToSet
<1>. QED BY <1>1, <1>3 DEF U!ChangesSeen, U!Changes

-----------------------------------------------------------------------------
(* A value that is offered is taken by one who asked and by nobody else, and    *)
(* its offer is told; the elements of an upstream come to its consumers in      *)
(* order and once; every change comes to whoever subscribed before it; however  *)
(* many fibers offer, take, consume, update, subscribe or stop.               *)
THEOREM DeliveredOnce == SharedSpec => []HandedOver
<1>. DEFINE Inv == /\ IF runs = "handoff" THEN HandoffInv ELSE HandoffRests
                   /\ IF runs = "input" THEN InputInv ELSE InputRests
                   /\ SubscriptionInv
<1>1. SharedInit => Inv
  BY HandoffBegins, InputBegins, SubscriptionBegins DEF SharedInit
<1>2. Inv /\ [SharedNext]_shared => Inv'
  <2>. SUFFICES ASSUME Inv, [SharedNext]_shared PROVE Inv'
    OBVIOUS
  <2>1. runs' = runs
    BY DEF SharedNext, shared, InCache, InMemo, InScopes, InHandoff, InInput, InLimiter, Others,
           InScoped, InSubscription, InClock
  <2>2. \/ UNCHANGED handoff
        \/ runs = "handoff" /\ H!Next
    BY DEF SharedNext, shared, InCache, InMemo, InScopes, InHandoff, InInput, InLimiter, Others,
           InScoped, InSubscription, InClock
  <2>3. \/ UNCHANGED input
        \/ runs = "input" /\ I!Next
    BY DEF SharedNext, shared, InCache, InMemo, InScopes, InHandoff, InInput, InLimiter, Others,
           InScoped, InSubscription, InClock
  <2>4. UNCHANGED subscription \/ U!Next
    BY DEF SharedNext, shared, refs, InCache, InMemo, InScopes, InHandoff, InInput, InLimiter, Others,
           InScoped, InSubscription, InClock
  <2>5. IF runs' = "handoff" THEN HandoffInv' ELSE HandoffRests'
    <3>1. UNCHANGED handoff /\ HandoffRests => HandoffRests'
      BY DEF handoff, HandoffRests, H!Nothing
    <3>. QED BY <2>1, <2>2, <3>1, HandoffStep, HandoffKept
  <2>6. IF runs' = "input" THEN InputInv' ELSE InputRests'
    <3>1. UNCHANGED input /\ InputRests => InputRests'
      BY DEF input, InputRests, I!Pending
    <3>. QED BY <2>1, <2>3, <3>1, InputStep, InputKept
  <2>7. SubscriptionInv'
    BY <2>4, SubscriptionStep, SubscriptionKept
  <2>. QED BY <2>5, <2>6, <2>7
<1>3. Inv => HandedOver
  <2>1. HandoffRests => H!HandedOver
    BY DEF HandoffRests, H!HandedOver, H!GivenOnce, H!NobodyMissedIt
  <2>2. InputRests => I!FedInOrder
    BY DEF InputRests, I!FedInOrder, I!SeenOnce, I!ReaderFirst, I!ToSet, I!Pending
  <2>. QED BY <2>1, <2>2, HandoffHands, InputFed, SubscriptionSeen DEF HandedOver
<1>. QED BY <1>1, <1>2, <1>3, PTL DEF SharedSpec

-----------------------------------------------------------------------------
(* Of a rate limiter.  The tokens taken are as many as the signals to come and  *)
(* those there are, and one more while the fiber that refills is at work, which *)
(* is the one that it gives back; a caller that is late is counted no more.    *)
TokensOwed ==
  /\ refill \in {"takes", "waits"} => spent >= Cardinality(T!Granted) + signals
  /\ refill = "sleeps" => spent >= 1 + Cardinality(T!Granted \ before)
  /\ refill = "drains" => spent >= 1 + Cardinality(T!Granted)
  /\ refill = "gives" => spent >= 1 + Cardinality(T!Granted) + signals

LimiterInv ==
  /\ algorithm \in {"token-bucket", "fixed-window"} /\ cost \in [Caller -> Nat \ {0}]
  /\ spent \in Int /\ signals \in Nat /\ line \in Seq(Caller)
  /\ refill \in {"takes", "waits", "sleeps", "drains", "gives"} /\ DOMAIN place = Caller
  /\ \A x \in ToSet(line) : place[x] = "waiting"
  /\ algorithm = "fixed-window" => spent >= 0
  /\ algorithm = "token-bucket" /\ ~lagged => TokensOwed
  /\ refill \in {"takes", "waits"} => spent = 0 \/ leaked \/ T!Granted # {} \/ signals > 0

LEMMA FewGranted ==
  /\ IsFiniteSet(T!Granted) /\ Cardinality(T!Granted) \in Nat
  /\ IsFiniteSet(T!Granted \ before) /\ Cardinality(T!Granted \ before) \in Nat
  /\ Cardinality(T!Granted \ before) <= Cardinality(T!Granted)
BY CallerAssumption, FS_Subset, FS_CardinalityType DEF T!Granted

(* Tokens taken cover whom they are given to, in any step of the clients but a  *)
(* call.                                                                    *)
LEMMA GivenToOthers ==
  ASSUME LimiterInv, UNCHANGED <<algorithm, cost, signals, refill, before, lagged>>,
         NEW who \in SUBSET Caller, T!Granted' \subseteq T!Granted \cup who,
         spent' \in Int, spent' >= spent + Cardinality(who),
         (line \in Seq(Caller))', (DOMAIN place = Caller)',
         (\A x \in ToSet(line) : place[x] = "waiting")',
         \/ leaked'
         \/ who # {} /\ T!Granted' # {}
         \/ spent' = spent /\ T!Granted' = T!Granted /\ (leaked => leaked')
  PROVE  LimiterInv'
<1>1. /\ IsFiniteSet(who) /\ Cardinality(who) \in Nat
      /\ IsFiniteSet(who \ before) /\ Cardinality(who \ before) <= Cardinality(who)
      /\ Cardinality(who \ before) \in Nat
  BY CallerAssumption, FS_Subset, FS_CardinalityType
<1>2. \A p, q : IsFiniteSet(p) /\ IsFiniteSet(q) =>
        \A r \in SUBSET (p \cup q) : IsFiniteSet(r) /\ Cardinality(r) \in Nat
                                     /\ Cardinality(r) <= Cardinality(p) + Cardinality(q)
  <2>. SUFFICES ASSUME NEW p, NEW q, IsFiniteSet(p), IsFiniteSet(q), NEW r \in SUBSET (p \cup q)
                PROVE  IsFiniteSet(r) /\ Cardinality(r) \in Nat
                       /\ Cardinality(r) <= Cardinality(p) + Cardinality(q)
    OBVIOUS
  <2>1. /\ IsFiniteSet(p \cup q)
        /\ Cardinality(p \cup q) = Cardinality(p) + Cardinality(q) - Cardinality(p \cap q)
    BY FS_Union
  <2>2. IsFiniteSet(p \cap q)
    BY FS_Subset
  <2>3. IsFiniteSet(r) /\ Cardinality(r) <= Cardinality(p \cup q)
    BY <2>1, FS_Subset
  <2>4. /\ Cardinality(p) \in Nat /\ Cardinality(q) \in Nat /\ Cardinality(p \cap q) \in Nat
        /\ Cardinality(r) \in Nat /\ Cardinality(p \cup q) \in Nat
    BY <2>1, <2>2, <2>3, FS_CardinalityType
  <2>. QED BY <2>1, <2>3, <2>4
<1>3. /\ Cardinality(T!Granted') <= Cardinality(T!Granted) + Cardinality(who)
      /\ Cardinality(T!Granted') \in Nat
      /\ Cardinality(T!Granted' \ before') <= Cardinality(T!Granted \ before) + Cardinality(who)
      /\ Cardinality(T!Granted' \ before') \in Nat
  <2>1. /\ Cardinality(T!Granted') <= Cardinality(T!Granted) + Cardinality(who)
        /\ Cardinality(T!Granted') \in Nat
    BY <1>1, <1>2, FewGranted
  <2>2. /\ Cardinality(T!Granted' \ before) <= Cardinality(T!Granted \ before) + Cardinality(who \ before)
        /\ Cardinality(T!Granted' \ before) \in Nat
    <3>1. T!Granted' \ before \in SUBSET ((T!Granted \ before) \cup (who \ before))
      OBVIOUS
    <3>. QED BY <1>1, <1>2, <3>1, FewGranted
  <2>. QED BY <1>1, <2>1, <2>2, FewGranted
<1>4. spent \in Int /\ signals \in Nat
  BY DEF LimiterInv
<1>5. TokensOwed => TokensOwed'
  <2>. SUFFICES ASSUME TokensOwed PROVE TokensOwed'
    OBVIOUS
  <2>1. Cardinality(T!Granted) \in Nat /\ Cardinality(T!Granted \ before) \in Nat
    BY FewGranted
  <2>2. refill' \in {"takes", "waits"} => spent' >= Cardinality(T!Granted') + signals'
    BY <1>1, <1>3, <1>4, <2>1 DEF TokensOwed
  <2>3. refill' = "sleeps" => spent' >= 1 + Cardinality(T!Granted' \ before')
    BY <1>1, <1>3, <1>4, <2>1 DEF TokensOwed
  <2>4. refill' = "drains" => spent' >= 1 + Cardinality(T!Granted')
    BY <1>1, <1>3, <1>4, <2>1 DEF TokensOwed
  <2>5. refill' = "gives" => spent' >= 1 + Cardinality(T!Granted') + signals'
    BY <1>1, <1>3, <1>4, <2>1 DEF TokensOwed
  <2>6. (Cardinality(T!Granted))' = Cardinality(T!Granted')
        /\ (Cardinality(T!Granted \ before))' = Cardinality(T!Granted' \ before')
    OBVIOUS
  <2>. QED BY <2>2, <2>3, <2>4, <2>5, <2>6 DEF TokensOwed
<1>6. algorithm = "fixed-window" => spent' >= 0
  BY <1>1, <1>4 DEF LimiterInv
<1>7. refill' \in {"takes", "waits"} => spent' = 0 \/ leaked' \/ T!Granted' # {} \/ signals' > 0
  BY <1>4 DEF LimiterInv
<1>. QED BY <1>4, <1>5, <1>6, <1>7 DEF LimiterInv

(* What the wake task gives: at most what there is, and to those in line.      *)
Offers(n, h) ==
  h = [i \in 0..n |-> IF i = 0 THEN [free |-> T!free, to |-> {}] ELSE T!Offer(h[i - 1], line[i])]

LEMMA OffersExists == \A n \in Nat : \E h : Offers(n, h)
<1>. DEFINE all == {n \in Nat : \E h : Offers(n, h)}
<1>1. 0 \in all
  <2>. DEFINE h == [i \in 0..0 |-> [free |-> T!free, to |-> {}]]
  <2>1. Offers(0, h)
    BY DEF Offers
  <2>. QED BY <2>1
<1>2. ASSUME NEW n \in Nat, n \in all PROVE n + 1 \in all
  <2>1. PICK g : Offers(n, g)
    BY <1>2
  <2>. DEFINE h == [i \in 0..(n + 1) |-> IF i \in 0..n THEN g[i] ELSE T!Offer(g[n], line[n + 1])]
              k == [i \in 0..(n + 1) |-> IF i = 0 THEN [free |-> T!free, to |-> {}]
                                         ELSE T!Offer(h[i - 1], line[i])]
  <2>2. ASSUME NEW i \in 0..(n + 1) PROVE h[i] = k[i]
    <3>1. CASE i = n + 1
      <4>1. i \notin 0..n /\ n \in 0..n /\ n \in 0..(n + 1) /\ i - 1 = n /\ i # 0
        BY <3>1
      <4>. QED BY <3>1, <4>1
    <3>2. CASE i = 0
      <4>1. g[0] = [free |-> T!free, to |-> {}] /\ 0 \in 0..n /\ 0 \in 0..(n + 1)
        BY <2>1 DEF Offers
      <4>. QED BY <3>2, <4>1
    <3>3. CASE i \in 1..n
      <4>1. i \in 0..n /\ i - 1 \in 0..n /\ i - 1 \in 0..(n + 1) /\ i # 0
        BY <3>3
      <4>2. g[i] = T!Offer(g[i - 1], line[i])
        BY <2>1, <4>1 DEF Offers
      <4>. QED BY <4>1, <4>2
    <3>. QED BY <3>1, <3>2, <3>3
  <2>3. h = k
    <3>. HIDE DEF h
    <3>1. h = [i \in 0..(n + 1) |-> h[i]]
      BY DEF h
    <3>2. k = [i \in 0..(n + 1) |-> k[i]]
      OBVIOUS
    <3>. HIDE DEF k
    <3>. QED BY <2>2, <3>1, <3>2
  <2>4. Offers(n + 1, h)
    BY <2>3, Zenon DEF Offers
  <2>. QED BY <2>4
<1>. HIDE DEF all
<1>3. \A n \in Nat : n \in all
  BY <1>1, <1>2, CountUp
<1>. QED BY <1>3 DEF all

LEMMA OfferedIs == ASSUME line \in Seq(Caller) PROVE Offers(Len(line), T!Offered)
<1>1. \E h : Offers(Len(line), h)
  BY OffersExists
<1>. QED BY <1>1, Zenon DEF Offers, T!Offered

LEMMA OfferedFew ==
  ASSUME LimiterInv
  PROVE  LET end == T!Offered[Len(line)]
         IN /\ end.to \subseteq ToSet(line) /\ IsFiniteSet(end.to) /\ end.free \in Int
            /\ end.free + Cardinality(end.to) <= T!free
            /\ end.to = {} => end.free = T!free
<1>1. /\ line \in Seq(Caller) /\ spent \in Int /\ cost \in [Caller -> Nat \ {0}] /\ T!free \in Int
  BY CostAssumption DEF LimiterInv, T!free
<1>. DEFINE Fit(left) == /\ left.to \subseteq ToSet(line) /\ IsFiniteSet(left.to) /\ left.free \in Int
                         /\ left.free + Cardinality(left.to) <= T!free
                         /\ left.to = {} => left.free = T!free
            f == T!Offered
            all == {n \in Nat : n <= Len(line) => Fit(f[n])}
<1>2. /\ f[0] = [free |-> T!free, to |-> {}]
      /\ \A n \in 1..Len(line) : f[n] = T!Offer(f[n - 1], line[n])
  <2>. HIDE DEF f
  <2>1. Offers(Len(line), f)
    BY <1>1, OfferedIs DEF f
  <2>2. 0 \in 0..Len(line) /\ \A n \in 1..Len(line) : n \in 0..Len(line) /\ n # 0
    BY <1>1
  <2>. QED BY <2>1, <2>2 DEF Offers
<1>. HIDE DEF f
<1>3. 0 \in all
  <2>1. f[0].free = T!free /\ f[0].to = {}
    BY <1>2
  <2>2. IsFiniteSet({}) /\ Cardinality({}) = 0
    BY FS_EmptySet
  <2>3. Fit(f[0])
    BY <1>1, <2>1, <2>2
  <2>. QED BY <2>3
<1>4. ASSUME NEW n \in Nat, n \in all PROVE n + 1 \in all
  <2>. SUFFICES ASSUME n + 1 <= Len(line) PROVE Fit(f[n + 1])
    OBVIOUS
  <2>1. Fit(f[n]) /\ n + 1 \in 1..Len(line) /\ (n + 1) - 1 = n
    BY <1>1, <1>4
  <2>2. f[n + 1] = T!Offer(f[n], line[n + 1])
    BY <1>2, <2>1
  <2>. PICK x \in Caller : x = line[n + 1]
    BY <1>1, <2>1
  <2>3. x \in ToSet(line) /\ cost[x] \in Nat \ {0}
    BY <1>1, <2>1 DEF ToSet
  <2>4. CASE f[n].free > 0 /\ f[n].free >= cost[x]
    <3>1. f[n + 1] = [free |-> f[n].free - cost[x], to |-> f[n].to \cup {x}]
      BY <2>2, <2>4 DEF T!Offer
    <3>2. /\ IsFiniteSet(f[n].to \cup {x}) /\ Cardinality(f[n].to) \in Nat
          /\ Cardinality(f[n].to \cup {x}) \in Nat
          /\ Cardinality(f[n].to \cup {x}) <= Cardinality(f[n].to) + 1
      <4>1. /\ IsFiniteSet(f[n].to \cup {x})
            /\ x \in f[n].to => f[n].to \cup {x} = f[n].to
            /\ x \notin f[n].to => Cardinality(f[n].to \cup {x}) = Cardinality(f[n].to) + 1
        BY <2>1, FS_AddElement
      <4>2. Cardinality(f[n].to) \in Nat /\ Cardinality(f[n].to \cup {x}) \in Nat
        BY <2>1, <4>1, FS_CardinalityType
      <4>3. Cardinality(f[n].to \cup {x}) <= Cardinality(f[n].to) + 1
        <5>1. CASE x \in f[n].to
          <6>1. f[n].to \cup {x} = f[n].to
            BY <4>1, <5>1
          <6>2. Cardinality(f[n].to \cup {x}) = Cardinality(f[n].to)
            BY <6>1, Zenon
          <6>. QED BY <4>2, <6>2
        <5>2. CASE x \notin f[n].to
          BY <4>1, <4>2, <5>2
        <5>. QED BY <5>1, <5>2
      <4>. QED BY <4>1, <4>2, <4>3
    <3>3. f[n + 1].free = f[n].free - cost[x] /\ f[n + 1].to = f[n].to \cup {x}
      BY <3>1
    <3>4. f[n + 1].free \in Int /\ f[n + 1].free + Cardinality(f[n + 1].to) <= T!free
      <4>. PICK was \in Int : was = f[n].free
        BY <2>1
      <4>. PICK is \in Nat : is = Cardinality(f[n + 1].to)
        BY <3>2, <3>3
      <4>. PICK some \in Nat : some = Cardinality(f[n].to)
        BY <3>2
      <4>. PICK needed \in Nat \ {0} : needed = cost[x]
        BY <2>3
      <4>. PICK room \in Int : room = T!free
        BY <1>1
      <4>1. f[n + 1].free = was - needed /\ is <= some + 1 /\ was + some <= room
        BY <2>1, <3>2, <3>3
      <4>2. was - needed \in Int /\ (was - needed) + is <= room
        BY <4>1
      <4>. QED BY <4>1, <4>2
    <3>5. f[n + 1].to \subseteq ToSet(line) /\ IsFiniteSet(f[n + 1].to) /\ f[n + 1].to # {}
      BY <2>1, <2>3, <3>2, <3>3
    <3>. QED BY <3>4, <3>5
  <2>5. CASE ~(f[n].free > 0 /\ f[n].free >= cost[x])
    BY <2>1, <2>2, <2>5 DEF T!Offer
  <2>. QED BY <2>4, <2>5
<1>5. Len(line) \in all
  <2>. HIDE DEF all
  <2>1. \A n \in Nat : n \in all
    BY <1>3, <1>4, CountUp
  <2>. QED BY <1>1, <2>1
<1>6. Fit(f[Len(line)])
  BY <1>1, <1>5
<1>. QED BY <1>6 DEF f

-----------------------------------------------------------------------------
(* The filter is that of SequenceLemmas.                                     *)
LEMMA SameKeep == \A s, P : T!Keep(s, P) = Keep(s, P)
BY DEF T!Keep, Keep

LEMMA LimiterTakes == ASSUME LimiterInv, NEW x \in Caller, T!Take(x) PROVE LimiterInv'
<1>0. /\ UNCHANGED <<algorithm, cost, signals, refill, before, lagged, leaked>>
      /\ place[x] = "idle" /\ DOMAIN place = Caller /\ line \in Seq(Caller)
      /\ \A y \in ToSet(line) : place[y] = "waiting"
      /\ spent \in Int /\ cost[x] \in Nat \ {0}
  BY DEF T!Take, T!constants, T!history, LimiterInv
<1>1. CASE T!free < cost[x]
  <2>1. /\ line' = Append(line, x) /\ place' = [place EXCEPT ![x] = "waiting"] /\ spent' = spent
    BY <1>1 DEF T!Take
  <2>2. T!Granted' = T!Granted
    BY <1>0, <2>1 DEF T!Granted
  <2>3. (line \in Seq(Caller))' /\ ToSet(line') = ToSet(line) \cup {x}
    BY <1>0, <2>1, Appended
  <2>4. (\A y \in ToSet(line) : place[y] = "waiting")' /\ (DOMAIN place = Caller)'
    <3>1. \A y \in ToSet(line) : y \in Caller
      BY <1>0 DEF ToSet
    <3>. QED BY <1>0, <2>1, <2>3, <3>1
  <2>5. spent' \in Int /\ spent' >= spent + Cardinality({})
    BY <1>0, <2>1, FS_EmptySet
  <2>6. {} \in SUBSET Caller
    OBVIOUS
  <2>. QED BY <1>0, <2>1, <2>2, <2>3, <2>4, <2>5, <2>6, GivenToOthers
<1>2. CASE ~(T!free < cost[x])
  <2>1. /\ line' = line /\ place' = [place EXCEPT ![x] = "granted"] /\ spent' = spent + cost[x]
    BY <1>2 DEF T!Take
  <2>2. T!Granted' = T!Granted \cup {x}
    BY <1>0, <2>1 DEF T!Granted
  <2>3. (\A y \in ToSet(line) : place[y] = "waiting")' /\ (DOMAIN place = Caller)'
    BY <1>0, <2>1
  <2>4. spent' \in Int /\ spent' >= spent + Cardinality({x})
    <3>1. Cardinality({x}) = 1 /\ cost[x] >= 1 /\ cost[x] \in Int
      <4>1. Cardinality({x}) = 1
        BY FS_Singleton
      <4>. QED BY <1>0, <4>1
    <3>. QED BY <1>0, <2>1, <3>1
  <2>. QED BY <1>0, <2>1, <2>2, <2>3, <2>4, GivenToOthers, {x} \in SUBSET Caller
<1>. QED BY <1>1, <1>2

LEMMA LimiterInterrupts == ASSUME LimiterInv, NEW x \in Caller, T!Interrupt(x) PROVE LimiterInv'
<1>0. /\ UNCHANGED <<algorithm, cost, signals, refill, before, lagged, spent>>
      /\ DOMAIN place = Caller /\ line \in Seq(Caller)
      /\ \A y \in ToSet(line) : place[y] = "waiting"
      /\ spent \in Int /\ place' = [place EXCEPT ![x] = "cut"]
      /\ line' = Keep(line, Caller \ {x}) /\ leaked' = (leaked \/ place[x] = "granted")
  BY SameKeep DEF T!Interrupt, T!constants, LimiterInv
<1>1. line' \in Seq(Caller) /\ ToSet(line') = ToSet(line) \cap (Caller \ {x})
  BY <1>0, KeepMembers
<1>2. (\A y \in ToSet(line) : place[y] = "waiting")' /\ (DOMAIN place = Caller)'
  BY <1>0, <1>1
<1>3. T!Granted' \subseteq T!Granted /\ (place[x] # "granted" => T!Granted' = T!Granted)
  BY <1>0 DEF T!Granted
<1>4. spent' \in Int /\ spent' >= spent + Cardinality({}) /\ {} \in SUBSET Caller
  BY <1>0, FS_EmptySet
<1>5. leaked' \/ (spent' = spent /\ T!Granted' = T!Granted /\ (leaked => leaked'))
  BY <1>0, <1>3
<1>6. (line \in Seq(Caller))'
  BY <1>1
<1>7. T!Granted' \subseteq T!Granted \cup {}
  BY <1>3
<1>. QED BY <1>0, <1>2, <1>4, <1>5, <1>6, <1>7, GivenToOthers

LEMMA LimiterWakes == ASSUME LimiterInv, T!RunWake PROVE LimiterInv'
<1>. DEFINE end == T!Offered[Len(line)]
<1>0. /\ UNCHANGED <<algorithm, cost, signals, refill, before, lagged, leaked>>
      /\ DOMAIN place = Caller /\ line \in Seq(Caller)
      /\ \A y \in ToSet(line) : place[y] = "waiting"
      /\ spent \in Int
      /\ spent' = Limit - end.free /\ line' = Keep(line, Caller \ end.to)
      /\ place' = [y \in Caller |-> IF y \in end.to THEN "granted" ELSE place[y]]
  BY SameKeep DEF T!RunWake, T!constants, T!history, LimiterInv
<1>1. /\ end.to \subseteq ToSet(line) /\ IsFiniteSet(end.to) /\ end.free \in Int
      /\ end.free + Cardinality(end.to) <= T!free
      /\ end.to = {} => end.free = T!free
  BY OfferedFew
<1>. HIDE DEF end
<1>2. end.to \in SUBSET Caller /\ Cardinality(end.to) \in Nat
  <2>1. ToSet(line) \subseteq Caller
    BY <1>0 DEF ToSet
  <2>. QED BY <1>1, <2>1, FS_CardinalityType
<1>3. spent' \in Int /\ spent' >= spent + Cardinality(end.to) /\ (end.to = {} => spent' = spent)
  BY <1>0, <1>1, <1>2, CostAssumption DEF T!free
<1>4. T!Granted' = T!Granted \cup end.to
  BY <1>0, <1>2 DEF T!Granted
<1>5. line' \in Seq(Caller) /\ ToSet(line') = ToSet(line) \cap (Caller \ end.to)
  BY <1>0, KeepMembers
<1>6. (\A y \in ToSet(line) : place[y] = "waiting")' /\ (DOMAIN place = Caller)'
  BY <1>0, <1>5
<1>7. (line \in Seq(Caller))'
  BY <1>5
<1>8. \/ leaked'
      \/ end.to # {} /\ T!Granted' # {}
      \/ spent' = spent /\ T!Granted' = T!Granted /\ (leaked => leaked')
  BY <1>0, <1>3, <1>4
<1>9. T!Granted' \subseteq T!Granted \cup end.to
  BY <1>4
<1>. QED BY <1>0, <1>2, <1>3, <1>6, <1>7, <1>8, <1>9, GivenToOthers

LEMMA LimiterCalls == ASSUME LimiterInv, NEW x \in Caller, T!Call(x) PROVE LimiterInv'
<1>0. /\ UNCHANGED <<algorithm, cost, spent, line, refill, before, lagged, leaked>>
      /\ place[x] = "granted" /\ place' = [place EXCEPT ![x] = "called"] /\ signals' = signals + 1
      /\ DOMAIN place = Caller /\ signals \in Nat /\ spent \in Int
  BY DEF T!Call, T!constants, T!semaphore, T!history, LimiterInv
<1>1. T!Granted' = T!Granted \ {x} /\ x \in T!Granted
  BY <1>0 DEF T!Granted
<1>2. /\ Cardinality(T!Granted') = Cardinality(T!Granted) - 1
      /\ Cardinality(T!Granted' \ before') <= Cardinality(T!Granted \ before)
      /\ Cardinality(T!Granted' \ before') \in Nat /\ Cardinality(T!Granted') \in Nat
  <2>1. Cardinality(T!Granted') = Cardinality(T!Granted) - 1 /\ IsFiniteSet(T!Granted')
    BY <1>1, FewGranted, FS_RemoveElement
  <2>2. /\ Cardinality(T!Granted' \ before') <= Cardinality(T!Granted \ before)
        /\ IsFiniteSet(T!Granted' \ before')
    <3>1. T!Granted' \ before' \subseteq T!Granted \ before
      BY <1>0, <1>1
    <3>. QED BY <3>1, FewGranted, FS_Subset
  <2>. QED BY <2>1, <2>2, FS_CardinalityType
<1>3. TokensOwed => TokensOwed'
  BY <1>0, <1>2, FewGranted DEF TokensOwed
<1>4. (\A y \in ToSet(line) : place[y] = "waiting")' /\ signals' \in Nat /\ signals' > 0
      /\ (DOMAIN place = Caller)'
  <2>1. \A y \in ToSet(line) : y \in Caller
    BY DEF LimiterInv, ToSet
  <2>. QED BY <1>0, <2>1 DEF LimiterInv
<1>. QED BY <1>0, <1>3, <1>4 DEF LimiterInv

(* The fiber that refills gives back the one token that it was woken for.       *)
LEMMA LimiterRefills == ASSUME LimiterInv, T!Refill PROVE LimiterInv'
<1>0. /\ UNCHANGED <<algorithm, cost, line, place, leaked>>
      /\ spent \in Int /\ signals \in Nat
      /\ \/ /\ refill \in {"takes", "waits"} /\ UNCHANGED <<spent, lagged>>
            /\ \/ /\ signals > 0 /\ signals' = signals - 1
                  /\ refill' = "sleeps" /\ before' = T!Granted
               \/ refill' = "waits" /\ UNCHANGED <<signals, before>>
         \/ /\ refill = "sleeps" /\ refill' = "drains" /\ UNCHANGED <<spent, signals>>
            /\ lagged' = (lagged \/ before \cap T!Granted # {})
         \/ /\ refill = "drains" /\ refill' = "gives" /\ signals' = 0
            /\ UNCHANGED <<spent, before, lagged>>
         \/ /\ refill = "gives" /\ UNCHANGED <<signals, lagged>>
            /\ \/ algorithm = "fixed-window" /\ spent' = 0 /\ refill' = "takes"
               \/ /\ algorithm # "fixed-window" /\ spent' = spent - 1
                  /\ \/ spent' = 0 /\ refill' = "takes"
                     \/ spent' # 0 /\ refill' = "sleeps" /\ before' = T!Granted
  BY DEF T!Refill, T!Listen, T!Sleep, T!Awake, T!Drain, T!Drained, T!Give, T!UpdateTaken, T!constants,
         T!semaphore, T!history, LimiterInv
<1>1. T!Granted' = T!Granted
  BY <1>0 DEF T!Granted
<1>. DEFINE n == Cardinality(T!Granted)
<1>2. n \in Nat /\ Cardinality(T!Granted \ before) \in Nat
  BY FewGranted
<1>3. before' = T!Granted => Cardinality(T!Granted' \ before') = 0
  BY <1>1, FS_EmptySet
<1>4. ~lagged' => ~lagged /\ (refill = "sleeps" => T!Granted \ before = T!Granted)
  BY <1>0
<1>5. CASE algorithm = "token-bucket" /\ ~lagged'
  <2>1. TokensOwed
    BY <1>0, <1>4, <1>5 DEF LimiterInv
  <2>2. TokensOwed'
    BY <1>0, <1>1, <1>2, <1>3, <1>4, <1>5, <2>1 DEF TokensOwed
  <2>3. refill' \in {"takes", "waits"} => spent' = 0 \/ leaked' \/ T!Granted' # {} \/ signals' > 0
    BY <1>0, <1>1 DEF LimiterInv
  <2>. QED BY <1>0, <1>1, <1>5, <2>2, <2>3 DEF LimiterInv
<1>6. CASE ~(algorithm = "token-bucket" /\ ~lagged')
  <2>1. refill' \in {"takes", "waits"} => spent' = 0 \/ leaked' \/ T!Granted' # {} \/ signals' > 0
    BY <1>0, <1>1 DEF LimiterInv
  <2>. QED BY <1>0, <1>1, <1>6, <2>1 DEF LimiterInv
<1>. QED BY <1>5, <1>6

-----------------------------------------------------------------------------
LEMMA LimiterStep == ASSUME LimiterInv, T!Next PROVE LimiterInv'
BY LimiterTakes, LimiterInterrupts, LimiterWakes, LimiterCalls, LimiterRefills
   DEF T!Next, T!ClientStep

LEMMA LimiterKept == ASSUME LimiterInv, UNCHANGED limiter PROVE LimiterInv'
<1>1. UNCHANGED <<algorithm, cost, spent, line, signals, refill, place, before, lagged, leaked>>
  BY DEF limiter
<1>2. T!Granted' = T!Granted
  BY <1>1 DEF T!Granted
<1>. QED BY <1>1, <1>2 DEF LimiterInv, TokensOwed

LEMMA LimiterBegins == ASSUME T!Init PROVE LimiterInv
<1>1. T!Granted = {} /\ ToSet(line) = {}
  BY DEF T!Init, T!Granted, ToSet
<1>2. spent = 0 /\ signals = 0 /\ refill = "takes" /\ line \in Seq(Caller)
  BY DEF T!Init
<1>3. TokensOwed
  BY <1>1, <1>2, FS_EmptySet DEF TokensOwed
<1>. QED BY <1>1, <1>2, <1>3, CostAssumption DEF T!Init, LimiterInv

LEMMA LimiterReturns == ASSUME LimiterInv PROVE T!TokensReturn
<1>1. ~lagged => spent >= 0
  BY FewGranted DEF LimiterInv, TokensOwed
<1>2. refill = "waits" /\ signals = 0 /\ T!Granted = {} => spent = 0 \/ leaked
  BY DEF LimiterInv
<1>. QED BY <1>1, <1>2 DEF T!TokensReturn, T!NeverTooMany, T!NothingToRefill

-----------------------------------------------------------------------------
(* Of a test clock.  A sleeper waits in one place: among the sleeps, until the   *)
(* end it asked for, or with the one fiber that is about to wake it.  As long   *)
(* as one fiber at a time moves the clock, it does so while everybody else is    *)
(* suspended, and whoever is not goes on at the end of its last nap.            *)
Place(s) == <<due[s], s>>

ClockType ==
  /\ instant \in Nat /\ sleeps \in Seq(Nat \X Sleeper)
  /\ naps \in [Sleeper -> Seq(Nat)] /\ due \in [Sleeper -> Nat]
  /\ stage \in [Sleeper -> {"runs", "waits", "woken", "ended"}]
  /\ jumps \in [Adjuster -> Seq({"adjust", "setTime"} \X Nat)]
  /\ adjusts \in [Adjuster -> {"idle", "awaits", "modifies", "wakes"}]
  /\ goal \in [Adjuster -> Nat \cup {K!Unknown}]
  /\ DOMAIN rouses = Adjuster
  /\ \A x \in Adjuster : adjusts[x] # "idle" => jumps[x] # <<>>

SleepersWait ==
  /\ IsInjective(sleeps)
  /\ \A e \in ToSet(sleeps) : e = Place(e[2]) /\ stage[e[2]] = "waits"
  /\ \A x \in Adjuster : adjusts[x] = "wakes" =>
       /\ rouses[x] \in Sleeper /\ stage[rouses[x]] = "waits"
       /\ Place(rouses[x]) \notin ToSet(sleeps)
       /\ \A y \in Adjuster \ {x} : adjusts[y] = "wakes" => rouses[y] # rouses[x]
  /\ (\A x \in Adjuster : adjusts[x] = "idle") => \A e \in ToSet(sleeps) : e[1] > instant

ClockStands ==
  ~crossed =>
    /\ \A x, y \in Adjuster : adjusts[x] # "idle" /\ adjusts[y] # "idle" => x = y
    /\ \A x \in Adjuster :
         /\ adjusts[x] \in {"modifies", "wakes"} => K!AllSuspended
         /\ adjusts[x] = "wakes" => instant = due[rouses[x]]
    /\ \A s \in Sleeper : stage[s] \in {"runs", "woken"} => instant = due[s]

ClockInv == ClockType /\ SleepersWait /\ ClockStands

LEMMA SameRemoval == \A s, i : K!RemoveAt(s, i) = RemoveAt(s, i)
BY DEF K!RemoveAt, RemoveAt

(* The one to wake next exists: the first in line of those that end first.      *)
LEMMA NextIs ==
  ASSUME sleeps \in Seq(Nat \X Sleeper), sleeps # <<>>
  PROVE  /\ K!NextSleep \in DOMAIN sleeps
         /\ \A e \in ToSet(sleeps) : sleeps[K!NextSleep][1] <= e[1]
<1>. DEFINE ends == {sleeps[i][1] : i \in DOMAIN sleeps}
            firsts(t) == {i \in DOMAIN sleeps : sleeps[i][1] = t}
            Foremost(i) == /\ \A j \in DOMAIN sleeps : sleeps[i][1] <= sleeps[j][1]
                           /\ \A j \in 1..(i - 1) : sleeps[i][1] < sleeps[j][1]
<1>1. /\ ends \in SUBSET Nat /\ ends # {} /\ DOMAIN sleeps = 1..Len(sleeps) /\ Len(sleeps) \in Nat
      /\ \A i \in DOMAIN sleeps : sleeps[i][1] \in Nat
  OBVIOUS
<1>2. PICK t \in ends : \A u \in ends : t <= u
  BY <1>1, LeastNumber
<1>3. firsts(t) \in SUBSET Nat /\ firsts(t) # {}
  BY <1>1, <1>2
<1>4. PICK i \in firsts(t) : \A j \in firsts(t) : i <= j
  <2>. HIDE DEF firsts
  <2>. QED BY <1>3, LeastNumber
<1>5. i \in DOMAIN sleeps /\ sleeps[i][1] = t /\ t \in Nat /\ i \in Nat
  BY <1>1, <1>4
<1>6. Foremost(i)
  <2>1. ASSUME NEW j \in DOMAIN sleeps PROVE sleeps[i][1] <= sleeps[j][1]
    BY <1>2, <1>5
  <2>2. ASSUME NEW j \in 1..(i - 1) PROVE sleeps[i][1] < sleeps[j][1]
    <3>1. j \in DOMAIN sleeps /\ j < i /\ j \in Nat
      BY <1>1, <1>5
    <3>2. j \notin firsts(t)
      BY <1>4, <1>5, <3>1
    <3>3. sleeps[j][1] # t /\ sleeps[j][1] \in Nat
      BY <1>1, <3>1, <3>2
    <3>. QED BY <1>5, <2>1, <3>1, <3>3
  <2>. QED BY <2>1, <2>2
<1>7. K!NextSleep \in DOMAIN sleeps /\ Foremost(K!NextSleep)
  BY <1>5, <1>6, Zenon DEF K!NextSleep
<1>. QED BY <1>7 DEF ToSet

(* A nap.                                                                   *)
LEMMA ClockSleeps == ASSUME ClockInv, NEW s \in Sleeper, K!Sleep(s) PROVE ClockInv'
<1>0. /\ UNCHANGED <<instant, jumps, adjusts, goal, rouses, crossed>>
      /\ stage[s] = "runs" /\ naps[s] # <<>>
      /\ naps' = [naps EXCEPT ![s] = Tail(naps[s])]
      /\ due' = [due EXCEPT ![s] = instant + Head(naps[s])]
      /\ ClockType /\ SleepersWait /\ ClockStands
  BY DEF K!Sleep, K!adjusters, ClockInv
<1>1. /\ Head(naps[s]) \in Nat /\ Tail(naps[s]) \in Seq(Nat) /\ instant \in Nat
      /\ sleeps \in Seq(Nat \X Sleeper) /\ DOMAIN due = Sleeper /\ DOMAIN stage = Sleeper
  BY <1>0, HeadAndTail DEF ClockType
<1>2. /\ naps' \in [Sleeper -> Seq(Nat)] /\ due' \in [Sleeper -> Nat]
      /\ due'[s] = instant + Head(naps[s]) /\ \A r \in Sleeper \ {s} : due'[r] = due[r]
  <2>1. naps' \in [Sleeper -> Seq(Nat)]
    BY <1>0, <1>1 DEF ClockType
  <2>2. instant + Head(naps[s]) \in Nat
    BY <1>1
  <2>. QED BY <1>0, <2>1, <2>2 DEF ClockType
<1>3. /\ \A e \in ToSet(sleeps) : e[2] \in Sleeper /\ e[2] # s /\ e = Place(e[2]) /\ e = Place(e[2])'
      /\ Place(s)' \notin ToSet(sleeps)
  <2>1. \A e \in ToSet(sleeps) : e[2] \in Sleeper
    BY <1>1 DEF ToSet
  <2>2. \A e \in ToSet(sleeps) : e[2] # s /\ e = Place(e[2])
    BY <1>0 DEF SleepersWait
  <2>3. \A e \in ToSet(sleeps) : e = Place(e[2])'
    BY <1>2, <2>1, <2>2 DEF Place
  <2>4. Place(s)'[2] = s
    BY DEF Place
  <2>. QED BY <2>1, <2>2, <2>3, <2>4
<1>4. \A x \in Adjuster : adjusts[x] = "wakes" => rouses[x] \in Sleeper \ {s}
  BY <1>0 DEF SleepersWait
<1>5. ClockStands' \/ ~(stage'[s] \in {"runs", "woken"} => instant = due'[s])
      \/ ~\A r \in Sleeper \ {s} : stage'[r] = stage[r]
      \/ (K!AllSuspended /\ stage'[s] # "waits")
  <2>1. ~K!AllSuspended
    BY <1>0 DEF K!AllSuspended
  <2>. QED BY <1>0, <1>2, <1>4, <2>1 DEF ClockStands
<1>6. CASE Head(naps[s]) > 0
  <2>. PICK end \in Nat : end = instant + Head(naps[s])
    BY <1>1
  <2>1. /\ sleeps' = <<<<end, s>>>> \o sleeps /\ stage' = [stage EXCEPT ![s] = "waits"]
        /\ Place(s)' = <<end, s>>
    BY <1>2, <1>6 DEF K!Sleep, Place
  <2>2. ClockType'
    <3>1. <<<<end, s>>>> \o sleeps \in Seq(Nat \X Sleeper)
      BY <1>1
    <3>2. stage' \in [Sleeper -> {"runs", "waits", "woken", "ended"}]
      BY <1>0, <2>1 DEF ClockType
    <3>. QED BY <1>0, <1>2, <2>1, <3>1, <3>2 DEF ClockType
  <2>3. ToSet(sleeps') = ToSet(sleeps) \cup {<<end, s>>} /\ IsInjective(sleeps')
    <3>1. <<<<end, s>>>> \in Seq(Nat \X Sleeper) /\ IsInjective(<<<<end, s>>>>)
      BY DEF IsInjective
    <3>2. ToSet(<<<<end, s>>>>) = {<<end, s>>}
      BY Heads
    <3>3. ToSet(<<<<end, s>>>>) \cap ToSet(sleeps) = {} /\ IsInjective(sleeps)
      BY <1>0, <1>3, <2>1, <3>2 DEF SleepersWait
    <3>. PICK one \in Seq(Nat \X Sleeper) : one = <<<<end, s>>>>
      BY <3>1
    <3>4. ToSet(one \o sleeps) = ToSet(one) \cup ToSet(sleeps) /\ IsInjective(one \o sleeps)
      <4>1. IsInjective(one) /\ ToSet(one) \cap ToSet(sleeps) = {} /\ IsInjective(sleeps)
        BY <3>1, <3>3
      <4>2. sleeps \in Seq(Nat \X Sleeper)
        BY <1>1
      <4>. QED BY ONLY one \in Seq(Nat \X Sleeper), <4>1, <4>2, Union
    <3>. QED BY <2>1, <3>2, <3>4
  <2>4. \A r \in Sleeper \ {s} : stage'[r] = stage[r] /\ Place(r)' = Place(r)
    BY <1>1, <1>2, <2>1 DEF Place
  <2>5. stage'[s] = "waits"
    BY <1>1, <2>1
  <2>6. \A e \in ToSet(sleeps') : e = Place(e[2])' /\ stage'[e[2]] = "waits"
    <3>1. ASSUME NEW e \in ToSet(sleeps) PROVE e = Place(e[2])' /\ stage'[e[2]] = "waits"
      BY <1>0, <1>3, <2>4 DEF SleepersWait
    <3>2. <<end, s>> = Place(<<end, s>>[2])' /\ stage'[<<end, s>>[2]] = "waits"
      BY <1>2, <2>1, <2>5 DEF Place
    <3>. QED BY <2>3, <3>1, <3>2
  <2>7. ASSUME NEW x \in Adjuster, adjusts[x] = "wakes"
        PROVE  stage'[rouses[x]] = "waits" /\ Place(rouses[x])' \notin ToSet(sleeps')
    <3>. PICK r \in Sleeper \ {s} : r = rouses[x]
      BY <1>4, <2>7
    <3>1. stage[r] = "waits" /\ Place(r) \notin ToSet(sleeps)
      BY <1>0, <2>7 DEF SleepersWait
    <3>2. Place(r)' # <<end, s>>
      BY DEF Place
    <3>3. stage'[r] = "waits" /\ Place(r)' \notin ToSet(sleeps')
      BY <2>3, <2>4, <3>1, <3>2
    <3>. QED BY <1>0, <3>3 DEF Place
  <2>8. (\A x \in Adjuster : adjusts[x] = "idle") => \A e \in ToSet(sleeps') : e[1] > instant
    BY <1>0, <1>1, <1>6, <2>3 DEF SleepersWait
  <2>9. SleepersWait'
    BY <1>0, <2>3, <2>6, <2>7, <2>8 DEF SleepersWait, Place
  <2>10. ClockStands'
    BY <1>5, <2>4, <2>5
  <2>. QED BY <2>2, <2>9, <2>10 DEF ClockInv
<1>7. CASE ~(Head(naps[s]) > 0)
  <2>1. sleeps' = sleeps /\ stage' = stage /\ due'[s] = instant
    BY <1>1, <1>2, <1>7 DEF K!Sleep
  <2>2. ClockType'
    BY <1>0, <1>1, <1>2, <2>1 DEF ClockType
  <2>3. ASSUME NEW x \in Adjuster, adjusts[x] = "wakes"
        PROVE  Place(rouses[x])' \notin ToSet(sleeps')
    <3>. PICK r \in Sleeper \ {s} : r = rouses[x]
      BY <1>4, <2>3
    <3>1. Place(r) \notin ToSet(sleeps) /\ Place(r)' = Place(r)
      BY <1>0, <1>2, <2>3 DEF SleepersWait, Place
    <3>. QED BY <1>0, <2>1, <3>1 DEF Place
  <2>4. SleepersWait'
    BY <1>0, <1>3, <2>1, <2>3 DEF SleepersWait, Place
  <2>5. ClockStands'
    <3>1. ~K!AllSuspended
      BY <1>0 DEF K!AllSuspended
    <3>. QED BY <1>0, <1>5, <2>1, <3>1
  <2>. QED BY <2>2, <2>4, <2>5 DEF ClockInv
<1>. QED BY <1>6, <1>7

(* Who was woken goes on; who has no naps left ends.                           *)
LEMMA ClockResumes == ASSUME ClockInv, NEW s \in Sleeper, K!Resume(s) PROVE ClockInv'
<1>0. /\ UNCHANGED <<instant, sleeps, naps, due, jumps, adjusts, goal, rouses, crossed>>
      /\ stage[s] \in {"runs", "woken"}
      /\ \/ stage' = [stage EXCEPT ![s] = "runs"]
         \/ stage' = [stage EXCEPT ![s] = "ended"]
      /\ ClockType /\ SleepersWait /\ ClockStands
  BY DEF K!Resume, K!adjusters, ClockInv
<1>1. ClockType'
  BY <1>0 DEF ClockType
<1>2. \A r \in Sleeper \ {s} : stage'[r] = stage[r]
  BY <1>0 DEF ClockType
<1>3. \A e \in ToSet(sleeps) : e[2] \in Sleeper \ {s}
  <2>1. \A e \in ToSet(sleeps) : e[2] \in Sleeper
    BY <1>0 DEF ClockType, ToSet
  <2>. QED BY <1>0, <2>1 DEF SleepersWait
<1>4. \A x \in Adjuster : adjusts[x] = "wakes" => rouses[x] \in Sleeper \ {s}
  BY <1>0 DEF SleepersWait
<1>5. SleepersWait'
  BY <1>0, <1>2, <1>3, <1>4 DEF SleepersWait, Place
<1>6. ~K!AllSuspended
  BY <1>0 DEF K!AllSuspended
<1>7. ClockStands'
  BY <1>0, <1>2, <1>6 DEF ClockStands
<1>. QED BY <1>1, <1>5, <1>7 DEF ClockInv

-----------------------------------------------------------------------------
(* Somebody begins to move the clock, or finds that all are suspended.          *)
LEMMA ClockAdjusts ==
  ASSUME ClockInv, NEW x \in Adjuster, K!Adjust(x) \/ K!AwaitSuspended(x)
  PROVE  ClockInv'
<1>0. /\ UNCHANGED <<instant, sleeps, naps, stage, due, jumps, goal, rouses>>
      /\ \/ /\ adjusts[x] = "idle" /\ jumps[x] # <<>> /\ adjusts' = [adjusts EXCEPT ![x] = "awaits"]
            /\ crossed' = (crossed \/ \E y \in Adjuster : adjusts[y] # "idle")
         \/ /\ adjusts[x] = "awaits" /\ K!AllSuspended /\ crossed' = crossed
            /\ adjusts' = [adjusts EXCEPT ![x] = "modifies"]
      /\ ClockType /\ SleepersWait /\ ClockStands
  BY DEF K!Adjust, K!AwaitSuspended, K!sleepers, ClockInv
<1>1. ClockType'
  BY <1>0 DEF ClockType
<1>2. /\ adjusts'[x] # "idle" /\ adjusts'[x] # "wakes"
      /\ \A y \in Adjuster \ {x} : adjusts'[y] = adjusts[y]
  BY <1>0 DEF ClockType
<1>3. SleepersWait'
  BY <1>0, <1>2 DEF SleepersWait, Place
<1>4. (K!AllSuspended)' <=> K!AllSuspended
  BY <1>0 DEF K!AllSuspended
<1>5. ASSUME ~crossed'
      PROVE  /\ ~crossed
             /\ adjusts[x] # "idle" \/ \A y \in Adjuster : adjusts[y] = "idle"
             /\ adjusts'[x] = "modifies" => K!AllSuspended
  <2>1. CASE adjusts[x] = "idle" /\ crossed' = (crossed \/ \E y \in Adjuster : adjusts[y] # "idle")
             /\ adjusts' = [adjusts EXCEPT ![x] = "awaits"]
    <3>1. ~crossed /\ ~\E y \in Adjuster : adjusts[y] # "idle"
      BY <1>5, <2>1
    <3>2. adjusts'[x] = "awaits"
      BY <1>0, <2>1 DEF ClockType
    <3>. QED BY <3>1, <3>2
  <2>2. CASE adjusts[x] = "awaits" /\ K!AllSuspended /\ crossed' = crossed
    BY <1>5, <2>2
  <2>. QED BY <1>0, <2>1, <2>2
<1>6. ClockStands'
  BY <1>0, <1>2, <1>4, <1>5 DEF ClockStands
<1>. QED BY <1>1, <1>3, <1>6 DEF ClockInv

(* It wakes the next sleeper, or comes to where it goes.                       *)
LEMMA ClockModifies == ASSUME ClockInv, NEW x \in Adjuster, K!Modify(x) PROVE ClockInv'
<1>. DEFINE end == K!Target(x)
            next == sleeps[K!NextSleep]
<1>0. /\ UNCHANGED <<naps, stage, due, crossed>>
      /\ adjusts[x] = "modifies"
      /\ ClockType /\ SleepersWait /\ ClockStands
  BY DEF K!Modify, K!sleepers, ClockInv
<1>1. end \in Nat
  <2>1. jumps[x] # <<>> /\ jumps[x] \in Seq({"adjust", "setTime"} \X Nat) /\ instant \in Nat
        /\ goal[x] \in Nat \cup {K!Unknown}
    BY <1>0 DEF ClockType
  <2>2. PICK jump \in {"adjust", "setTime"} \X Nat : jump = Head(jumps[x])
    BY <2>1, HeadAndTail
  <2>3. jump[2] \in Nat
    OBVIOUS
  <2>. QED BY <2>1, <2>2, <2>3 DEF K!Target
<1>2. (K!AllSuspended)' <=> K!AllSuspended
  BY <1>0 DEF K!AllSuspended
<1>a. ~crossed => \A s \in Sleeper : stage[s] \notin {"runs", "woken"}
  BY <1>0 DEF ClockStands, K!AllSuspended
<1>3. CASE sleeps # <<>> /\ next[1] <= end
  <2>1. /\ instant' = next[1] /\ rouses' = [rouses EXCEPT ![x] = next[2]]
        /\ sleeps' = RemoveAt(sleeps, K!NextSleep) /\ goal' = [goal EXCEPT ![x] = end]
        /\ adjusts' = [adjusts EXCEPT ![x] = "wakes"] /\ jumps' = jumps
    BY <1>3, SameRemoval DEF K!Modify
  <2>2. K!NextSleep \in 1..Len(sleeps) /\ next \in Nat \X Sleeper /\ next \in ToSet(sleeps)
    <3>1. K!NextSleep \in DOMAIN sleeps /\ sleeps \in Seq(Nat \X Sleeper)
      BY <1>0, <1>3, NextIs DEF ClockType
    <3>. QED BY <3>1 DEF ToSet
  <2>. HIDE DEF end, next
  <2>3. /\ sleeps' \in Seq(Nat \X Sleeper) /\ IsInjective(sleeps')
        /\ ToSet(sleeps') = ToSet(sleeps) \ {next}
    <3>1. sleeps \in Seq(Nat \X Sleeper) /\ IsInjective(sleeps)
      BY <1>0 DEF ClockType, SleepersWait
    <3>. QED BY <2>1, <2>2, <3>1, RemoveExactly, RemoveOne DEF next
  <2>. PICK n \in Nat, s \in Sleeper : next = <<n, s>>
    BY <2>2
  <2>4. instant' = n /\ rouses'[x] = s /\ adjusts'[x] = "wakes" /\ DOMAIN rouses = Adjuster
        /\ \A y \in Adjuster \ {x} : rouses'[y] = rouses[y] /\ adjusts'[y] = adjusts[y]
    BY <1>0, <2>1 DEF ClockType
  <2>5. next = Place(s) /\ stage[s] = "waits" /\ due[s] = n
    <3>1. next = Place(next[2]) /\ stage[next[2]] = "waits"
      BY <1>0, <2>2 DEF SleepersWait
    <3>. QED BY <3>1 DEF Place
  <2>6. ClockType'
    BY <1>0, <1>1, <2>1, <2>3, <2>4 DEF ClockType
  <2>7. \A y \in Adjuster \ {x} : adjusts[y] = "wakes" => rouses[y] # s
    BY <1>0, <2>2, <2>5 DEF SleepersWait
  <2>8. SleepersWait'
    <3>1. \A e \in ToSet(sleeps') : e = Place(e[2])' /\ stage'[e[2]] = "waits"
      BY <1>0, <2>3 DEF SleepersWait, Place
    <3>2. ASSUME NEW y \in Adjuster, adjusts'[y] = "wakes"
          PROVE  /\ rouses'[y] \in Sleeper /\ stage'[rouses'[y]] = "waits"
                 /\ Place(rouses[y])' \notin ToSet(sleeps')
                 /\ \A z \in Adjuster \ {y} : adjusts'[z] = "wakes" => rouses'[z] # rouses'[y]
      <4>1. CASE y = x
        BY <1>0, <2>3, <2>4, <2>5, <2>7, <4>1 DEF Place
      <4>2. CASE y # x
        <5>. PICK r \in Sleeper : r = rouses[y]
          BY <1>0, <2>4, <3>2, <4>2 DEF SleepersWait
        <5>1. adjusts[y] = "wakes" /\ rouses'[y] = r /\ r # s
          BY <2>4, <2>7, <3>2, <4>2
        <5>2. stage[r] = "waits" /\ Place(r) \notin ToSet(sleeps)
              /\ \A z \in Adjuster \ {y} : adjusts[z] = "wakes" => rouses[z] # r
          BY <1>0, <5>1 DEF SleepersWait
        <5>3. Place(rouses[y])' = Place(r)
          BY <1>0, <5>1 DEF Place
        <5>4. \A z \in Adjuster \ {y} : adjusts'[z] = "wakes" => rouses'[z] # r
          BY <2>4, <5>1, <5>2
        <5>. QED BY <1>0, <2>3, <5>1, <5>2, <5>3, <5>4
      <4>. QED BY <4>1, <4>2
    <3>. QED BY <2>3, <2>4, <3>1, <3>2 DEF SleepersWait
  <2>9. ClockStands'
    BY <1>0, <1>2, <1>a, <2>4, <2>5 DEF ClockStands
  <2>. QED BY <2>6, <2>8, <2>9 DEF ClockInv
<1>4. CASE ~(sleeps # <<>> /\ next[1] <= end)
  <2>1. /\ instant' = end /\ jumps' = [jumps EXCEPT ![x] = Tail(jumps[x])]
        /\ goal' = [goal EXCEPT ![x] = K!Unknown] /\ adjusts' = [adjusts EXCEPT ![x] = "idle"]
        /\ UNCHANGED <<sleeps, rouses>>
    BY <1>4 DEF K!Modify
  <2>2. \A e \in ToSet(sleeps) : e[1] > end
    <3>1. CASE sleeps = <<>>
      BY <3>1, Heads
    <3>2. CASE sleeps # <<>>
      <4>1. sleeps \in Seq(Nat \X Sleeper) /\ K!NextSleep \in DOMAIN sleeps
            /\ \A e \in ToSet(sleeps) : next[1] <= e[1]
        BY <1>0, <3>2, NextIs DEF ClockType
      <4>2. next[1] \in Nat /\ \A e \in ToSet(sleeps) : e[1] \in Nat
        BY <4>1 DEF ToSet
      <4>3. next[1] > end
        BY <1>1, <1>4, <3>2, <4>2
      <4>. HIDE DEF next, end
      <4>. QED BY <1>1, <4>1, <4>2, <4>3
    <3>. QED BY <3>1, <3>2
  <2>. HIDE DEF end, next
  <2>3. /\ adjusts'[x] = "idle" /\ \A y \in Adjuster \ {x} : adjusts'[y] = adjusts[y] /\ jumps'[y] = jumps[y]
    BY <1>0, <2>1 DEF ClockType
  <2>4. ClockType'
    <3>1. Tail(jumps[x]) \in Seq({"adjust", "setTime"} \X Nat)
      BY <1>0, HeadAndTail DEF ClockType
    <3>2. jumps' \in [Adjuster -> Seq({"adjust", "setTime"} \X Nat)]
      BY <1>0, <2>1, <3>1 DEF ClockType
    <3>. QED BY <1>0, <1>1, <2>1, <2>3, <3>2 DEF ClockType
  <2>5. SleepersWait'
    BY <1>0, <2>1, <2>2, <2>3 DEF SleepersWait, Place
  <2>6. ClockStands'
    BY <1>0, <1>2, <1>a, <2>1, <2>3 DEF ClockStands
  <2>. QED BY <2>4, <2>5, <2>6 DEF ClockInv
<1>. QED BY <1>3, <1>4

LEMMA ClockWakes == ASSUME ClockInv, NEW x \in Adjuster, K!Wake(x) PROVE ClockInv'
<1>0. /\ UNCHANGED <<instant, sleeps, naps, due, jumps, goal, rouses, crossed>>
      /\ adjusts[x] = "wakes" /\ adjusts' = [adjusts EXCEPT ![x] = "awaits"]
      /\ stage' = [stage EXCEPT ![rouses[x]] = "woken"]
      /\ ClockType /\ SleepersWait /\ ClockStands
  BY DEF K!Wake, ClockInv
<1>. PICK s \in Sleeper : s = rouses[x]
  BY <1>0 DEF SleepersWait
<1>1. /\ stage[s] = "waits" /\ Place(s) \notin ToSet(sleeps) /\ stage'[s] = "woken"
      /\ \A r \in Sleeper \ {s} : stage'[r] = stage[r]
  BY <1>0 DEF SleepersWait, ClockType
<1>2. adjusts'[x] = "awaits" /\ \A y \in Adjuster \ {x} : adjusts'[y] = adjusts[y]
  BY <1>0 DEF ClockType
<1>3. ClockType'
  BY <1>0 DEF ClockType
<1>4. \A e \in ToSet(sleeps) : e[2] \in Sleeper \ {s}
  <2>1. \A e \in ToSet(sleeps) : e[2] \in Sleeper
    BY <1>0 DEF ClockType, ToSet
  <2>2. \A e \in ToSet(sleeps) : e = Place(e[2])
    BY <1>0 DEF SleepersWait
  <2>3. \A e \in ToSet(sleeps) : e[2] # s
    BY <1>1, <2>2
  <2>. QED BY <2>1, <2>3
<1>5. \A y \in Adjuster : adjusts'[y] = "wakes" => y # x /\ adjusts[y] = "wakes" /\ rouses[y] \in Sleeper \ {s}
  BY <1>0, <1>2 DEF SleepersWait
<1>6. SleepersWait'
  BY <1>0, <1>1, <1>2, <1>4, <1>5 DEF SleepersWait, Place
<1>7. ClockStands'
  BY <1>0, <1>1, <1>2 DEF ClockStands
<1>. QED BY <1>3, <1>6, <1>7 DEF ClockInv

-----------------------------------------------------------------------------
LEMMA ClockStep == ASSUME ClockInv, K!Next PROVE ClockInv'
BY ClockSleeps, ClockResumes, ClockAdjusts, ClockModifies, ClockWakes
   DEF K!Next, K!SleeperStep, K!AdjusterStep

LEMMA ClockKept == ASSUME ClockInv, UNCHANGED clock PROVE ClockInv'
BY DEF clock, ClockInv, ClockType, SleepersWait, ClockStands, Place, K!AllSuspended

LEMMA ClockBegins == ASSUME K!Init PROVE ClockInv
<1>1. naps \in [Sleeper -> Seq(Nat)] /\ jumps \in [Adjuster -> Seq({"adjust", "setTime"} \X Nat)]
  BY ClockAssumption DEF K!Init
<1>2. ToSet(sleeps) = {} /\ IsInjective(sleeps)
  BY DEF K!Init, ToSet, IsInjective
<1>3. ClockType
  BY <1>1 DEF K!Init, ClockType
<1>. QED BY <1>2, <1>3 DEF K!Init, ClockInv, SleepersWait, ClockStands

LEMMA ClockTrue == ASSUME ClockInv PROVE K!TimeIsKept
<1>1. K!OnTime /\ K!NoTimePasses
  BY DEF ClockInv, ClockStands, K!OnTime, K!NoTimePasses
<1>2. K!NobodyOversleeps
  <2>1. \A i \in DOMAIN sleeps : sleeps[i] \in ToSet(sleeps)
    BY DEF ToSet
  <2>. QED BY <2>1 DEF ClockInv, SleepersWait, K!NobodyOversleeps
<1>. QED BY <1>1, <1>2 DEF K!TimeIsKept

-----------------------------------------------------------------------------
(* A token bucket never holds more tokens than its limit, unless a caller with   *)
(* its tokens sat out a whole sleep, and the fiber that refills rests only when   *)
(* nothing was taken; whoever sleeps on a test clock goes on at the time it       *)
(* asked for, no time passes while it runs, and nobody oversleeps; however many   *)
(* clients, sleepers and adjusters there are, whatever they ask for.            *)
THEOREM TimersTrue == SharedSpec => []TimersAreTrue
<1>. DEFINE Inv == /\ IF runs = "limiter" THEN LimiterInv ELSE LimiterRests
                   /\ IF runs = "clock" THEN ClockInv ELSE ClockRests
<1>1. SharedInit => Inv
  BY LimiterBegins, ClockBegins DEF SharedInit
<1>2. Inv /\ [SharedNext]_shared => Inv'
  <2>. SUFFICES ASSUME Inv, [SharedNext]_shared PROVE Inv'
    OBVIOUS
  <2>1. runs' = runs
    BY DEF SharedNext, shared, InCache, InMemo, InScopes, InHandoff, InInput, InLimiter, Others,
           InScoped, InSubscription, InClock
  <2>2. \/ UNCHANGED limiter
        \/ runs = "limiter" /\ T!Next
    BY DEF SharedNext, shared, InCache, InMemo, InScopes, InHandoff, InInput, InLimiter, Others,
           InScoped, InSubscription, InClock
  <2>3. \/ UNCHANGED clock
        \/ runs = "clock" /\ K!Next
    BY DEF SharedNext, shared, InCache, InMemo, InScopes, InHandoff, InInput, InLimiter, Others,
           InScoped, InSubscription, InClock
  <2>4. IF runs' = "limiter" THEN LimiterInv' ELSE LimiterRests'
    <3>1. UNCHANGED limiter /\ LimiterRests => LimiterRests'
      BY DEF limiter, LimiterRests
    <3>. QED BY <2>1, <2>2, <3>1, LimiterStep, LimiterKept
  <2>5. IF runs' = "clock" THEN ClockInv' ELSE ClockRests'
    <3>1. UNCHANGED clock /\ ClockRests => ClockRests'
      BY DEF clock, ClockRests
    <3>. QED BY <2>1, <2>3, <3>1, ClockStep, ClockKept
  <2>. QED BY <2>4, <2>5
<1>3. Inv => TimersAreTrue
  <2>1. LimiterRests => T!TokensReturn
    BY DEF LimiterRests, T!TokensReturn, T!NeverTooMany, T!NothingToRefill
  <2>2. ClockRests => K!TimeIsKept
    BY DEF ClockRests, K!TimeIsKept, K!OnTime, K!NoTimePasses, K!NobodyOversleeps
  <2>. QED BY <2>1, <2>2, LimiterReturns, ClockTrue DEF TimersAreTrue
<1>. QED BY <1>1, <1>2, <1>3, PTL DEF SharedSpec

-----------------------------------------------------------------------------
(* Of scopes.  The finalizers of users rise in an open scope and fall in one     *)
(* that is being closed; each is in the scope it was added to, until it begins,  *)
(* and its state says where.  A fork is in its parent until one of the two is    *)
(* closed; a scope closed by its parent is over before that goes on; but for     *)
(* what an interrupted close leaves behind.                                   *)
Rises(q) ==
  \A u, v \in S!User : \A i, j \in DOMAIN q :
    i < j /\ q[i] = S!Uses(u) /\ q[j] = S!Uses(v) => u < v
Falls(q) ==
  \A u, v \in S!User : \A i, j \in DOMAIN q :
    i < j /\ q[i] = S!Uses(u) /\ q[j] = S!Uses(v) => v < u

HeldBy(s) == ToSet(IF open[s] = "open" THEN finalizers[s] ELSE pending[s])
Lined(s) == ToSet(finalizers[s]) \cup ToSet(pending[s])

ScopeShape(s) ==
  /\ open[s] # "exited" => pending[s] = <<>> /\ active[s] = {} /\ closer[s] = "nobody"
  /\ open[s] # "open" => finalizers[s] = <<>>
  /\ Rises(finalizers[s]) /\ Falls(pending[s])
  /\ caller[s] # "none" => closer[s] = "caller"
  /\ caller[s] = "returned" => S!Over(s)
  /\ s \notin S!Child => open[s] # "none"

ScopePlaced(s) ==
  /\ \A u \in S!User : S!Uses(u) \in Lined(s) => home[u] = s /\ life[u] = "added"
  /\ \A u \in S!User : S!Uses(u) \in active[s] => home[u] = s /\ life[u] = "runs"
  /\ \A c \in S!Child : S!Closes(c) \in Lined(s) => Parent[c] = s

ForkState(c) ==
  /\ fork[c] = "none" <=> open[c] = "none"
  /\ closer[c] = "parent" /\ ~S!Over(c) => S!Closes(c) \in active[Parent[c]]
  /\ fork[c] = "linked" /\ open[c] = "exited" => open[Parent[c]] = "exited"
  /\ open[c] = "open" => S!Closes(c) \in HeldBy(Parent[c]) \/ S!CutShort(Parent[c])
  /\ fork[c] = "forked" /\ S!Closes(c) \in ToSet(finalizers[Parent[c]])
       => S!Forgets(c) \in HeldBy(c) \/ S!CutShort(c)

LifeState(u) ==
  /\ life[u] = "new" <=> home[u] = "none"
  /\ life[u] = "new" => \A v \in S!User : v > u => life[v] = "new"
  /\ life[u] = "added" => S!Uses(u) \in HeldBy(home[u])
  /\ life[u] = "runs" => S!Uses(u) \in active[home[u]]
  /\ life[u] \in {"runs", "ran", "lost"} => open[home[u]] = "exited"
  /\ life[u] = "lost" => S!CutShort(home[u])

ScopeInv ==
  /\ S!TypeOK
  /\ \A s \in S!Scope : ScopeShape(s) /\ ScopePlaced(s)
  /\ \A c \in S!Child : ForkState(c)
  /\ \A u \in S!User : LifeState(u)
  /\ S!LastAddedFirst

-----------------------------------------------------------------------------
(* What is done to the lines of finalizers.                                  *)
LEMMA EntriesDiffer ==
  /\ \A u, v : S!Uses(u) = S!Uses(v) => u = v
  /\ \A c, d : S!Closes(c) = S!Closes(d) => c = d
  /\ \A c, d : S!Forgets(c) = S!Forgets(d) => c = d
  /\ \A u, c : S!Uses(u) # S!Closes(c) /\ S!Uses(u) # S!Forgets(c)
  /\ \A c, d : S!Closes(c) # S!Forgets(d)
  /\ \A u \in S!User : S!Uses(u) \in S!Entry
  /\ \A c \in S!Child : S!Closes(c) \in S!Entry /\ S!Forgets(c) \in S!Entry
  /\ S!User \subseteq Nat
BY ScopeAssumption DEF S!Uses, S!Closes, S!Forgets, S!Entry, S!User

LEMMA SameLines ==
  /\ \A q : S!ToSet(q) = ToSet(q) /\ S!Reverse(q) = Reverse(q)
  /\ \A q, P : S!Keep(q, P) = Keep(q, P)
BY DEF S!ToSet, ToSet, S!Reverse, Reverse, S!Keep, Keep

LEMMA RisesOn ==
  ASSUME NEW q \in Seq(S!Entry), NEW e \in S!Entry, Rises(q),
         \A u, v \in S!User : e = S!Uses(v) /\ S!Uses(u) \in ToSet(q) => u < v
  PROVE  /\ Append(q, e) \in Seq(S!Entry) /\ Rises(Append(q, e))
         /\ ToSet(Append(q, e)) = ToSet(q) \cup {e}
<1>. PICK t \in Seq(S!Entry) : t = Append(q, e)
  BY Appended
<1>1. ToSet(t) = ToSet(q) \cup {e}
  BY Appended
<1>2. /\ DOMAIN t = 1..(Len(q) + 1) /\ t[Len(q) + 1] = e /\ Len(q) \in Nat /\ DOMAIN q = 1..Len(q)
      /\ \A i \in 1..Len(q) : t[i] = q[i]
  OBVIOUS
<1>3. ASSUME NEW u \in S!User, NEW v \in S!User, NEW i \in DOMAIN t, NEW j \in DOMAIN t,
             i < j, t[i] = S!Uses(u), t[j] = S!Uses(v)
      PROVE  u < v
  <2>1. i \in DOMAIN q /\ q[i] = S!Uses(u)
    BY <1>2, <1>3
  <2>2. CASE j \in DOMAIN q
    BY <1>2, <1>3, <2>1, <2>2 DEF Rises
  <2>3. CASE j = Len(q) + 1
    BY <1>2, <1>3, <2>1, <2>3 DEF ToSet
  <2>. QED BY <1>2, <2>2, <2>3
<1>. QED BY <1>1, <1>3 DEF Rises

LEMMA RisesStill ==
  ASSUME NEW q \in Seq(S!Entry), NEW P, Rises(q)
  PROVE  /\ Keep(q, P) \in Seq(S!Entry) /\ Rises(Keep(q, P)) /\ ToSet(Keep(q, P)) = ToSet(q) \cap P
<1>. DEFINE t == Keep(q, P)
<1>1. /\ t \in Seq(S!Entry) /\ ToSet(t) = ToSet(q) \cap P
      /\ \A i, j \in 1..Len(t) : i < j => \E k, l \in 1..Len(q) : k < l /\ q[k] = t[i] /\ q[l] = t[j]
  BY KeepMembers
<1>. HIDE DEF t
<1>2. DOMAIN t = 1..Len(t) /\ DOMAIN q = 1..Len(q)
  BY <1>1
<1>3. ASSUME NEW u \in S!User, NEW v \in S!User, NEW i \in DOMAIN t, NEW j \in DOMAIN t,
             i < j, t[i] = S!Uses(u), t[j] = S!Uses(v)
      PROVE  u < v
  <2>0. i \in 1..Len(t) /\ j \in 1..Len(t)
    BY <1>2, <1>3
  <2>1. PICK k \in 1..Len(q), l \in 1..Len(q) : k < l /\ q[k] = t[i] /\ q[l] = t[j]
    BY <1>1, <1>3, <2>0
  <2>2. q[k] = S!Uses(u) /\ q[l] = S!Uses(v) /\ k \in DOMAIN q /\ l \in DOMAIN q
    BY <1>2, <1>3, <2>1
  <2>3. \A w, x \in S!User : \A m, n \in DOMAIN q : m < n /\ q[m] = S!Uses(w) /\ q[n] = S!Uses(x) => w < x
    BY DEF Rises
  <2>. QED BY <2>1, <2>2, <2>3
<1>. QED BY <1>1, <1>3 DEF t, Rises

LEMMA FallsThen ==
  ASSUME NEW q \in Seq(S!Entry), Rises(q)
  PROVE  Reverse(q) \in Seq(S!Entry) /\ Falls(Reverse(q)) /\ ToSet(Reverse(q)) = ToSet(q)
<1>. DEFINE t == Reverse(q)
            back(i) == (Len(q) - i) + 1
<1>1. /\ t \in Seq(S!Entry) /\ DOMAIN t = 1..Len(q) /\ DOMAIN q = 1..Len(q) /\ Len(q) \in Nat
      /\ \A i \in 1..Len(q) : back(i) \in 1..Len(q) /\ t[i] = q[back(i)] /\ back(back(i)) = i
  BY DEF Reverse
<1>2. \A i, j \in 1..Len(q) : i < j => back(j) < back(i)
  OBVIOUS
<1>. HIDE DEF t, back
<1>3. ToSet(t) = ToSet(q)
  BY <1>1 DEF ToSet
<1>4. Falls(t)
  BY <1>1, <1>2 DEF Falls, Rises
<1>. QED BY <1>1, <1>3, <1>4 DEF t

LEMMA FallsOn ==
  ASSUME NEW q \in Seq(S!Entry), q # <<>>, Falls(q)
  PROVE  /\ Tail(q) \in Seq(S!Entry) /\ Falls(Tail(q)) /\ Head(q) \in S!Entry
         /\ ToSet(q) = {Head(q)} \cup ToSet(Tail(q))
         /\ \A u, v \in S!User : Head(q) = S!Uses(u) /\ S!Uses(v) \in ToSet(Tail(q)) => v < u
<1>. PICK t \in Seq(S!Entry) : t = Tail(q)
  BY HeadAndTail
<1>1. /\ Head(q) \in S!Entry /\ ToSet(q) = {Head(q)} \cup ToSet(t)
  BY HeadAndTail
<1>2. /\ DOMAIN t = 1..Len(t) /\ Len(t) \in Nat /\ 1 \in DOMAIN q /\ Head(q) = q[1]
      /\ \A i \in 1..Len(t) : i + 1 \in DOMAIN q /\ t[i] = q[i + 1]
  OBVIOUS
<1>3. Falls(t)
  <2>1. \A i, j \in 1..Len(t) : i < j => i + 1 < j + 1
    BY <1>2
  <2>. QED BY <1>2, <2>1 DEF Falls
<1>4. ASSUME NEW u \in S!User, NEW v \in S!User, Head(q) = S!Uses(u), S!Uses(v) \in ToSet(t)
      PROVE  v < u
  <2>1. PICK i \in 1..Len(t) : t[i] = S!Uses(v)
    BY <1>2, <1>4 DEF ToSet
  <2>2. 1 < i + 1 /\ i + 1 \in DOMAIN q /\ q[i + 1] = S!Uses(v) /\ q[1] = S!Uses(u)
    BY <1>2, <1>4, <2>1
  <2>. QED BY <1>2, <2>2 DEF Falls
<1>. QED BY <1>1, <1>3, <1>4

-----------------------------------------------------------------------------
(* What is closed stays closed, and who was cut short remains so.               *)
Onward ==
  /\ \A c \in S!Child : closer[c] = "parent" => closer'[c] = "parent"
  /\ \A s \in S!Scope : (caller[s] = "cut" => caller'[s] = "cut") /\ (open[s] = "exited" => open'[s] = "exited")

LEMMA CutsRemain == ASSUME Onward PROVE \A s \in S!Scope : S!CutShort(s) => S!CutShort(s)'
<1>1. ASSUME NEW group \in SUBSET S!Scope, S!WithThoseTheyClose(group)'
      PROVE  S!WithThoseTheyClose(group)
  BY <1>1 DEF Onward, S!WithThoseTheyClose
<1>2. \A s, t \in S!Scope : t \in S!Under(s) => t \in S!Under(s)'
  BY <1>1 DEF S!Under
<1>. QED BY <1>2 DEF Onward, S!CutShort

(* Whom a close reaches: itself, and what those it reaches close; two callers   *)
(* of close reach nothing in common.                                         *)
LEMMA Reached ==
  ASSUME NEW s \in S!Scope
  PROVE  /\ s \in S!Under(s) /\ S!Under(s) \subseteq S!Scope
         /\ \A c \in S!Child : closer[c] = "parent" /\ Parent[c] \in S!Under(s) => c \in S!Under(s)
         /\ \A group \in SUBSET S!Scope :
              s \in group /\ S!WithThoseTheyClose(group) => S!Under(s) \subseteq group
<1>1. s \in S!Under(s) /\ S!Under(s) \subseteq S!Scope
  BY DEF S!Under
<1>2. \A group \in SUBSET S!Scope :
        s \in group /\ S!WithThoseTheyClose(group) => S!Under(s) \subseteq group
  BY DEF S!Under
<1>3. ASSUME NEW c \in S!Child, closer[c] = "parent", Parent[c] \in S!Under(s) PROVE c \in S!Under(s)
  <2>1. ASSUME NEW group \in SUBSET S!Scope, s \in group, S!WithThoseTheyClose(group) PROVE c \in group
    <3>1. Parent[c] \in group
      BY <1>2, <1>3, <2>1
    <3>. QED BY <1>3, <2>1, <3>1 DEF S!WithThoseTheyClose
  <2>2. c \in S!Scope
    BY DEF S!Scope
  <2>. QED BY <2>1, <2>2 DEF S!Under
<1>. QED BY <1>1, <1>2, <1>3

LEMMA ReachApart ==
  ASSUME NEW s \in S!Scope, NEW r \in S!Scope, s # r, closer[s] # "parent", closer[r] # "parent"
  PROVE  S!Under(s) \cap S!Under(r) = {}
<1>. DEFINE apart == S!Scope \ S!Under(r)
<1>1. s \in apart
  <2>1. S!WithThoseTheyClose(S!Scope \ {s})
    BY DEF S!WithThoseTheyClose, S!Scope
  <2>2. S!Under(r) \subseteq S!Scope \ {s}
    BY <2>1, Reached
  <2>. QED BY <2>2
<1>2. ASSUME NEW c \in S!Child, closer[c] = "parent", Parent[c] \in apart PROVE c \in apart
  <2>. DEFINE group == S!Under(r) \ {c}
  <2>1. r \in group /\ group \in SUBSET S!Scope
    BY <1>2, Reached
  <2>2. S!WithThoseTheyClose(group)
    BY <1>2, Reached DEF S!WithThoseTheyClose
  <2>3. S!Under(r) \subseteq group
    BY <2>1, <2>2, Reached
  <2>. QED BY <2>3 DEF S!Scope
<1>3. S!Under(s) \subseteq apart
  <2>1. S!WithThoseTheyClose(apart)
    BY <1>2 DEF S!WithThoseTheyClose
  <2>. QED BY <1>1, <2>1, Reached
<1>. QED BY <1>3

-----------------------------------------------------------------------------
(* A step after which users and what they have are as before.                  *)
LEMMA LivesRemain ==
  ASSUME ScopeInv, Onward, UNCHANGED <<home, life>>,
         \A u \in S!User : home[u] \in S!Scope =>
           /\ life[u] = "added" /\ S!Uses(u) \in HeldBy(home[u]) => S!Uses(u) \in HeldBy(home[u])'
           /\ S!Uses(u) \in active[home[u]] => S!Uses(u) \in active'[home[u]]
  PROVE  (\A u \in S!User : LifeState(u)') /\ S!LastAddedFirst'
<1>1. S!LastAddedFirst'
  BY DEF ScopeInv, S!LastAddedFirst, S!Added
<1>2. ASSUME NEW u \in S!User PROVE LifeState(u)'
  <2>1. LifeState(u) /\ (life[u] # "new" => home[u] \in S!Scope) /\ life' = life /\ home' = home
    BY DEF ScopeInv, LifeState, S!TypeOK
  <2>2. life[u] # "new" => /\ open[home[u]] = "exited" => open'[home[u]] = "exited"
                           /\ S!CutShort(home[u]) => S!CutShort(home[u])'
    BY <2>1, CutsRemain DEF Onward
  <2>. QED BY <2>1, <2>2 DEF LifeState
<1>. QED BY <1>1, <1>2

LEMMA ScopeLinks == ASSUME ScopeInv, NEW c \in S!Child, S!Link(c) PROVE ScopeInv'
<1>. DEFINE p == Parent[c]
<1>0. /\ UNCHANGED <<pending, active, closer, caller, home, life>>
      /\ fork[c] = "none" /\ S!Known(p) /\ fork' = [fork EXCEPT ![c] = "linked"]
      /\ \/ /\ open[p] = "open" /\ open' = [open EXCEPT ![c] = "open"]
            /\ finalizers' = [finalizers EXCEPT ![p] = Append(finalizers[p], S!Closes(c))]
         \/ open[p] # "open" /\ open' = [open EXCEPT ![c] = "exited"] /\ finalizers' = finalizers
      /\ S!TypeOK /\ \A s \in S!Scope : ScopeShape(s) /\ ScopePlaced(s)
      /\ \A d \in S!Child : ForkState(d)
  BY DEF S!Link, S!release, S!users, ScopeInv
<1>1. /\ p \in S!Scope /\ c \in S!Scope /\ p # c /\ open[p] # "none" /\ open[c] = "none"
      /\ \A d \in S!Child : Parent[d] \in S!Scope
  BY <1>0, ScopeAssumption DEF S!Known, S!Scope, S!Child, ForkState, ScopeShape
<1>2. /\ pending[c] = <<>> /\ active[c] = {} /\ finalizers[c] = <<>> /\ closer[c] = "nobody"
  BY <1>0, <1>1 DEF ScopeShape
<1>3. /\ fork'[c] = "linked" /\ \A d \in S!Child \ {c} : fork'[d] = fork[d]
      /\ \A s \in S!Scope \ {c} : open'[s] = open[s]
      /\ open'[c] \in {"open", "exited"} /\ (open'[c] = "open" <=> open[p] = "open")
      /\ \A s \in S!Scope \ {p} : finalizers'[s] = finalizers[s]
  BY <1>0, <1>1 DEF S!TypeOK
<1>4. /\ finalizers'[p] \in Seq(S!Entry) /\ Rises(finalizers'[p])
      /\ IF open[p] = "open" THEN ToSet(finalizers'[p]) = ToSet(finalizers[p]) \cup {S!Closes(c)}
                             ELSE finalizers'[p] = finalizers[p]
  <2>1. finalizers[p] \in Seq(S!Entry) /\ Rises(finalizers[p])
    BY <1>0, <1>1 DEF S!TypeOK, ScopeShape
  <2>2. CASE open[p] = "open"
    <3>1. finalizers'[p] = Append(finalizers[p], S!Closes(c))
      BY <1>0, <1>1, <2>2 DEF S!TypeOK
    <3>. QED BY <2>1, <2>2, <3>1, EntriesDiffer, RisesOn
  <2>3. CASE open[p] # "open"
    BY <1>0, <2>1, <2>3
  <2>. QED BY <2>2, <2>3
<1>. HIDE DEF p
<1>5. S!TypeOK'
  <2>1. finalizers' \in [S!Scope -> Seq(S!Entry)]
    BY <1>0, <1>1, <1>4 DEF S!TypeOK
  <2>. QED BY <1>0, <1>1, <2>1 DEF S!TypeOK
<1>6. Onward
  BY <1>0, <1>1, <1>3 DEF Onward
<1>7. /\ \A s \in S!Scope \ {p} : HeldBy(s)' = HeldBy(s)
      /\ HeldBy(p)' = HeldBy(p) \cup (IF open[p] = "open" THEN {S!Closes(c)} ELSE {})
      /\ \A s \in S!Scope : HeldBy(s) \subseteq HeldBy(s)'
  <2>1. ASSUME NEW s \in S!Scope \ {p} PROVE HeldBy(s)' = HeldBy(s)
    BY <1>0, <1>1, <1>2, <1>3 DEF HeldBy
  <2>2. HeldBy(p)' = HeldBy(p) \cup (IF open[p] = "open" THEN {S!Closes(c)} ELSE {})
    BY <1>0, <1>1, <1>3, <1>4 DEF HeldBy
  <2>. QED BY <2>1, <2>2
<1>8. ASSUME NEW s \in S!Scope PROVE ScopeShape(s)' /\ ScopePlaced(s)'
  <2>1. S!Over(s)' = S!Over(s)
    BY <1>0 DEF S!Over
  <2>2. ScopeShape(s)'
    BY <1>0, <1>1, <1>2, <1>3, <1>4, <2>1 DEF ScopeShape
  <2>3. /\ \A u \in S!User : S!Uses(u) \in Lined(s)' => S!Uses(u) \in Lined(s)
        /\ \A d \in S!Child : S!Closes(d) \in Lined(s)' => S!Closes(d) \in Lined(s) \/ (d = c /\ s = Parent[c])
    BY <1>0, <1>1, <1>3, <1>4, EntriesDiffer DEF Lined, p
  <2>4. ScopePlaced(s)'
    BY <1>0, <2>3 DEF ScopePlaced
  <2>. QED BY <2>2, <2>4
<1>9. ASSUME NEW d \in S!Child PROVE ForkState(d)'
  <2>0. ForkState(d) /\ d \in S!Scope /\ Parent[d] \in S!Scope /\ S!Over(d)' = S!Over(d)
    BY <1>0, <1>1 DEF S!Scope, S!Over
  <2>1. CASE d = c
    <3>1. open'[d] = "open" => S!Closes(d) \in HeldBy(Parent[d])'
      BY <1>3, <1>7, <2>1 DEF p
    <3>2. open'[d] = "exited" => open'[Parent[d]] = "exited"
      <4>1. open[p] \in {"none", "open", "exited"}
        BY <1>0, <1>1 DEF S!TypeOK
      <4>. QED BY <1>1, <1>3, <2>1, <4>1 DEF p
    <3>. QED BY <1>0, <1>2, <1>3, <2>1, <3>1, <3>2 DEF ForkState
  <2>2. CASE d # c
    <3>1. /\ open'[d] = open[d] /\ fork'[d] = fork[d] /\ closer' = closer /\ active' = active
          /\ open[Parent[d]] = "exited" => open'[Parent[d]] = "exited"
      BY <1>0, <1>3, <1>6, <2>0, <2>2 DEF Onward
    <3>2. /\ HeldBy(Parent[d]) \subseteq HeldBy(Parent[d])' /\ HeldBy(d) \subseteq HeldBy(d)'
          /\ S!CutShort(d) => S!CutShort(d)'
          /\ S!CutShort(Parent[d]) => S!CutShort(Parent[d])'
      BY <1>6, <1>7, <2>0, CutsRemain
    <3>3. S!Closes(d) \in ToSet(finalizers'[Parent[d]]) => S!Closes(d) \in ToSet(finalizers[Parent[d]])
      BY <1>3, <1>4, <2>0, <2>2, EntriesDiffer
    <3>. QED BY <2>0, <3>1, <3>2, <3>3 DEF ForkState
  <2>. QED BY <2>1, <2>2
<1>10. (\A u \in S!User : LifeState(u)') /\ S!LastAddedFirst'
  BY <1>0, <1>6, <1>7, LivesRemain
<1>. QED BY <1>5, <1>8, <1>9, <1>10 DEF ScopeInv

LEMMA ScopeRegisters == ASSUME ScopeInv, NEW c \in S!Child, S!Register(c) PROVE ScopeInv'
<1>0. /\ UNCHANGED <<open, pending, active, closer, caller, home, life>>
      /\ fork[c] = "linked" /\ fork' = [fork EXCEPT ![c] = "forked"]
      /\ finalizers' = IF open[c] = "open"
                         THEN [finalizers EXCEPT ![c] = Append(finalizers[c], S!Forgets(c))]
                         ELSE finalizers
      /\ S!TypeOK /\ \A s \in S!Scope : ScopeShape(s) /\ ScopePlaced(s)
      /\ \A d \in S!Child : ForkState(d)
  BY DEF S!Register, S!release, S!users, ScopeInv
<1>1. /\ c \in S!Scope /\ \A d \in S!Child : d \in S!Scope /\ Parent[d] \in S!Scope
  BY ScopeAssumption DEF S!Scope, S!Child
<1>3. /\ fork'[c] = "forked" /\ \A d \in S!Child \ {c} : fork'[d] = fork[d]
      /\ \A s \in S!Scope \ {c} : finalizers'[s] = finalizers[s]
  BY <1>0, <1>1 DEF S!TypeOK
<1>4. /\ finalizers'[c] \in Seq(S!Entry) /\ Rises(finalizers'[c])
      /\ IF open[c] = "open" THEN ToSet(finalizers'[c]) = ToSet(finalizers[c]) \cup {S!Forgets(c)}
                             ELSE finalizers'[c] = finalizers[c]
  <2>1. finalizers[c] \in Seq(S!Entry) /\ Rises(finalizers[c])
    BY <1>0, <1>1 DEF S!TypeOK, ScopeShape
  <2>2. CASE open[c] = "open"
    <3>1. finalizers'[c] = Append(finalizers[c], S!Forgets(c))
      BY <1>0, <1>1, <2>2 DEF S!TypeOK
    <3>. QED BY <2>1, <2>2, <3>1, EntriesDiffer, RisesOn
  <2>3. CASE open[c] # "open"
    BY <1>0, <2>1, <2>3
  <2>. QED BY <2>2, <2>3
<1>5. S!TypeOK'
  <2>1. finalizers' \in [S!Scope -> Seq(S!Entry)]
    BY <1>0, <1>1, <1>4 DEF S!TypeOK
  <2>. QED BY <1>0, <1>1, <2>1 DEF S!TypeOK
<1>6. Onward
  BY <1>0, <1>1, <1>3 DEF Onward
<1>7. \A s \in S!Scope : HeldBy(s) \subseteq HeldBy(s)'
  BY <1>0, <1>1, <1>3, <1>4 DEF HeldBy
<1>8. ASSUME NEW s \in S!Scope PROVE ScopeShape(s)' /\ ScopePlaced(s)'
  <2>1. S!Over(s)' = S!Over(s)
    BY <1>0 DEF S!Over
  <2>2. ScopeShape(s)'
    BY <1>0, <1>1, <1>3, <1>4, <2>1 DEF ScopeShape
  <2>3. /\ \A u \in S!User : S!Uses(u) \in Lined(s)' => S!Uses(u) \in Lined(s)
        /\ \A d \in S!Child : S!Closes(d) \in Lined(s)' => S!Closes(d) \in Lined(s)
    BY <1>0, <1>1, <1>3, <1>4, EntriesDiffer DEF Lined
  <2>4. ScopePlaced(s)'
    BY <1>0, <2>3 DEF ScopePlaced
  <2>. QED BY <2>2, <2>4
<1>9. ASSUME NEW d \in S!Child PROVE ForkState(d)'
  <2>0. ForkState(d) /\ d \in S!Scope /\ Parent[d] \in S!Scope /\ S!Over(d)' = S!Over(d)
    BY <1>0, <1>1 DEF S!Over
  <2>1. /\ open' = open /\ closer' = closer /\ active' = active
        /\ HeldBy(Parent[d]) \subseteq HeldBy(Parent[d])' /\ HeldBy(d) \subseteq HeldBy(d)'
        /\ S!CutShort(d) => S!CutShort(d)'
        /\ S!CutShort(Parent[d]) => S!CutShort(Parent[d])'
    BY <1>0, <1>6, <1>7, <2>0, CutsRemain
  <2>2. S!Closes(d) \in ToSet(finalizers'[Parent[d]]) => S!Closes(d) \in ToSet(finalizers[Parent[d]])
    BY <1>0, <1>1, <1>3, <1>4, EntriesDiffer
  <2>3. CASE d = c
    <3>1. CASE open[c] = "open"
      <4>1. S!Forgets(c) \in HeldBy(c)'
        BY <1>0, <1>4, <3>1 DEF HeldBy
      <4>. QED BY <1>3, <2>0, <2>1, <2>3, <3>1, <4>1 DEF ForkState
    <3>2. CASE open[c] # "open"
      <4>1. open[c] = "exited" /\ open[Parent[c]] = "exited"
        BY <1>0, <1>1, <3>2 DEF ForkState, S!TypeOK
      <4>2. finalizers[Parent[c]] = <<>>
        BY <1>0, <1>1, <4>1 DEF ScopeShape
      <4>3. S!Closes(c) \notin ToSet(finalizers[Parent[c]])
        BY <4>2, Heads
      <4>. QED BY <1>3, <2>0, <2>1, <2>2, <2>3, <4>1, <4>3 DEF ForkState
    <3>. QED BY <3>1, <3>2
  <2>4. CASE d # c
    BY <1>3, <2>0, <2>1, <2>2, <2>4 DEF ForkState
  <2>. QED BY <2>3, <2>4
<1>10. (\A u \in S!User : LifeState(u)') /\ S!LastAddedFirst'
  BY <1>0, <1>6, <1>7, LivesRemain
<1>. QED BY <1>5, <1>8, <1>9, <1>10 DEF ScopeInv

-----------------------------------------------------------------------------
(* A user adds a finalizer.                                                   *)
LEMMA ScopeAdds == ASSUME ScopeInv, NEW s \in S!Scope, NEW u \in S!User, S!Add(s, u) PROVE ScopeInv'
<1>0. /\ UNCHANGED <<open, fork, pending, active, closer, caller>>
      /\ life[u] = "new" /\ \A v \in 1..(u - 1) : life[v] # "new"
      /\ home' = [home EXCEPT ![u] = s]
      /\ \/ /\ open[s] = "open" /\ life' = [life EXCEPT ![u] = "added"]
            /\ finalizers' = [finalizers EXCEPT ![s] = Append(finalizers[s], S!Uses(u))]
         \/ open[s] # "open" /\ life' = [life EXCEPT ![u] = "late"] /\ finalizers' = finalizers
      /\ S!TypeOK /\ \A t \in S!Scope : ScopeShape(t) /\ ScopePlaced(t)
      /\ \A d \in S!Child : ForkState(d)
      /\ \A v \in S!User : LifeState(v)
      /\ S!LastAddedFirst
  BY DEF S!Add, S!release, ScopeInv
<1>1. /\ "none" \notin S!Scope /\ \A d \in S!Child : d \in S!Scope /\ Parent[d] \in S!Scope
  BY ScopeAssumption DEF S!Scope, S!Child
<1>2. /\ home'[u] = s /\ \A v \in S!User \ {u} : home'[v] = home[v] /\ life'[v] = life[v]
      /\ life'[u] = IF open[s] = "open" THEN "added" ELSE "late"
      /\ \A t \in S!Scope \ {s} : finalizers'[t] = finalizers[t]
  BY <1>0, <1>1 DEF S!TypeOK
<1>3. \A v \in S!User : life[v] # "new" => v < u
  <2>1. u \in Nat /\ S!User \subseteq Nat
    BY EntriesDiffer
  <2>2. \A v \in S!User : v > u => life[v] = "new"
    BY <1>0 DEF LifeState
  <2>. QED BY <1>0, <2>1, <2>2
<1>4. /\ home[u] = "none"
      /\ \A t \in S!Scope : S!Uses(u) \notin Lined(t) /\ S!Uses(u) \notin active[t]
  BY <1>0, <1>1 DEF LifeState, ScopePlaced
<1>5. /\ finalizers'[s] \in Seq(S!Entry) /\ Rises(finalizers'[s])
      /\ IF open[s] = "open" THEN ToSet(finalizers'[s]) = ToSet(finalizers[s]) \cup {S!Uses(u)}
                             ELSE finalizers'[s] = finalizers[s]
  <2>1. finalizers[s] \in Seq(S!Entry) /\ Rises(finalizers[s])
    BY <1>0 DEF S!TypeOK, ScopeShape
  <2>2. CASE open[s] = "open"
    <3>1. finalizers'[s] = Append(finalizers[s], S!Uses(u))
      BY <1>0, <2>2 DEF S!TypeOK
    <3>2. \A v \in S!User : S!Uses(v) \in ToSet(finalizers[s]) => v < u
      BY <1>0, <1>3 DEF ScopePlaced, Lined
    <3>. QED BY <2>1, <2>2, <3>1, <3>2, EntriesDiffer, RisesOn
  <2>3. CASE open[s] # "open"
    BY <1>0, <2>1, <2>3
  <2>. QED BY <2>2, <2>3
<1>6. S!TypeOK'
  <2>1. finalizers' \in [S!Scope -> Seq(S!Entry)]
    BY <1>0, <1>5 DEF S!TypeOK
  <2>. QED BY <1>0, <2>1 DEF S!TypeOK
<1>7. Onward /\ \A t \in S!Scope : S!CutShort(t) => S!CutShort(t)'
  BY <1>0, CutsRemain DEF Onward
<1>8. /\ \A t \in S!Scope : HeldBy(t) \subseteq HeldBy(t)'
      /\ open[s] = "open" => S!Uses(u) \in HeldBy(s)'
  BY <1>0, <1>2, <1>5 DEF HeldBy
<1>9. ASSUME NEW t \in S!Scope PROVE ScopeShape(t)' /\ ScopePlaced(t)'
  <2>1. S!Over(t)' = S!Over(t)
    BY <1>0 DEF S!Over
  <2>2. ScopeShape(t)'
    BY <1>0, <1>2, <1>5, <2>1 DEF ScopeShape
  <2>3. /\ \A v \in S!User : S!Uses(v) \in Lined(t)' =>
             S!Uses(v) \in Lined(t) \/ (v = u /\ t = s /\ open[s] = "open")
        /\ \A d \in S!Child : S!Closes(d) \in Lined(t)' => S!Closes(d) \in Lined(t)
    BY <1>0, <1>2, <1>5, EntriesDiffer DEF Lined
  <2>4. ScopePlaced(t)'
    BY <1>0, <1>2, <1>4, <2>3 DEF ScopePlaced
  <2>. QED BY <2>2, <2>4
<1>10. ASSUME NEW d \in S!Child PROVE ForkState(d)'
  <2>0. ForkState(d) /\ d \in S!Scope /\ Parent[d] \in S!Scope /\ S!Over(d)' = S!Over(d)
    BY <1>0, <1>1 DEF S!Over
  <2>1. /\ HeldBy(Parent[d]) \subseteq HeldBy(Parent[d])' /\ HeldBy(d) \subseteq HeldBy(d)'
        /\ S!CutShort(d) => S!CutShort(d)'
        /\ S!CutShort(Parent[d]) => S!CutShort(Parent[d])'
    BY <1>7, <1>8, <2>0
  <2>2. S!Closes(d) \in ToSet(finalizers'[Parent[d]]) => S!Closes(d) \in ToSet(finalizers[Parent[d]])
    BY <1>2, <1>5, <2>0, EntriesDiffer
  <2>. QED BY <1>0, <2>0, <2>1, <2>2 DEF ForkState
<1>11. ASSUME NEW v \in S!User PROVE LifeState(v)'
  <2>0. LifeState(v) /\ S!User \subseteq Nat
    BY <1>0, EntriesDiffer
  <2>1. CASE v = u
    BY <1>1, <1>2, <1>8, <2>1 DEF LifeState
  <2>2. CASE v # u
    <3>1. /\ home'[v] = home[v] /\ life'[v] = life[v] /\ open' = open /\ active' = active
          /\ life[v] # "new" => home[v] \in S!Scope
      BY <1>0, <1>2, <2>0, <2>2 DEF S!TypeOK, LifeState
    <3>2. life[v] # "new" => /\ HeldBy(home[v]) \subseteq HeldBy(home[v])'
                             /\ S!CutShort(home[v]) => S!CutShort(home[v])'
      <4>. SUFFICES ASSUME life[v] # "new" PROVE /\ HeldBy(home[v]) \subseteq HeldBy(home[v])'
                                                 /\ S!CutShort(home[v]) => S!CutShort(home[v])'
        OBVIOUS
      <4>. PICK t \in S!Scope : t = home[v] /\ t = home'[v]
        BY <3>1
      <4>1. HeldBy(t) \subseteq HeldBy(t)' /\ (S!CutShort(t) => S!CutShort(t)')
        BY <1>7, <1>8
      <4>. QED BY <4>1 DEF HeldBy, S!CutShort
    <3>3. life[v] = "new" => \A w \in S!User : w > v => life'[w] = "new"
      <4>. SUFFICES ASSUME life[v] = "new", NEW w \in S!User, w > v PROVE life'[w] = "new"
        OBVIOUS
      <4>1. v \notin 1..(u - 1) /\ v \in 1..Finalizers /\ u \in 1..Finalizers
        BY <1>0 DEF S!User
      <4>2. v > u
        BY <2>2, <4>1, ScopeAssumption
      <4>3. w # u /\ life[w] = "new"
        BY <2>0, <4>2 DEF LifeState
      <4>. QED BY <1>2, <4>3
    <3>. QED BY <2>0, <3>1, <3>2, <3>3 DEF LifeState
  <2>. QED BY <2>1, <2>2
<1>12. S!LastAddedFirst'
  <2>. SUFFICES ASSUME NEW t \in S!Scope, NEW v \in S!User, NEW w \in S!User, Width[t] = 1, v < w,
                       S!Added(t, v)', S!Added(t, w)', life'[v] \in {"runs", "ran"}
                PROVE  life'[w] \in {"ran", "lost"}
    BY DEF S!LastAddedFirst
  <2>1. v # u /\ home[v] = t /\ life[v] \in {"runs", "ran"} /\ open[t] = "exited"
    BY <1>0, <1>2 DEF S!Added, LifeState
  <2>2. w # u
    BY <1>2, <2>1 DEF S!Added
  <2>. QED BY <1>0, <1>2, <2>1, <2>2 DEF S!LastAddedFirst, S!Added
<1>. QED BY <1>6, <1>9, <1>10, <1>11, <1>12 DEF ScopeInv

-----------------------------------------------------------------------------
(* A user that has nothing to do with a step; and forks, if what is in line     *)
(* stays there.                                                             *)
LEMMA LifeRemains ==
  ASSUME ScopeInv, Onward, NEW v \in S!User, home'[v] = home[v], life'[v] = life[v],
         life[v] = "new" => \A w \in S!User : w > v => life'[w] = "new",
         \A t \in S!Scope : t = home[v] =>
           /\ life[v] = "added" /\ S!Uses(v) \in HeldBy(t) => S!Uses(v) \in HeldBy(t)'
           /\ life[v] = "runs" /\ S!Uses(v) \in active[t] => S!Uses(v) \in active'[t]
  PROVE  LifeState(v)'
<1>1. LifeState(v)
  BY DEF ScopeInv
<1>2. CASE life[v] = "new"
  BY <1>1, <1>2 DEF LifeState
<1>3. CASE life[v] # "new"
  <2>. PICK t \in S!Scope : t = home[v] /\ t = home'[v]
    BY <1>1, <1>3 DEF ScopeInv, LifeState, S!TypeOK
  <2>1. /\ open[t] = "exited" => open'[t] = "exited"
        /\ S!CutShort(t) => S!CutShort(t)'
    BY CutsRemain DEF Onward
  <2>2. /\ (HeldBy(t))' = (HeldBy(home[v]))' /\ HeldBy(t) = HeldBy(home[v])
        /\ (S!CutShort(t))' = (S!CutShort(home[v]))' /\ S!CutShort(t) = S!CutShort(home[v])
    BY DEF HeldBy, S!CutShort
  <2>3. home'[v] # "none"
    BY <1>1, <1>3 DEF LifeState
  <2>. QED BY <1>1, <1>3, <2>1, <2>2, <2>3 DEF LifeState
<1>. QED BY <1>2, <1>3

LEMMA ForkRemains ==
  ASSUME ScopeInv, Onward, NEW d \in S!Child, UNCHANGED <<open, fork, closer>>,
         S!Over(d) => S!Over(d)',
         ~S!Over(d)' /\ S!Closes(d) \in active[Parent[d]] => S!Closes(d) \in active'[Parent[d]],
         S!Closes(d) \in HeldBy(Parent[d]) => S!Closes(d) \in HeldBy(Parent[d])' \/ open[d] # "open",
         S!Closes(d) \in ToSet(finalizers'[Parent[d]]) => S!Closes(d) \in ToSet(finalizers[Parent[d]]),
         S!Forgets(d) \in HeldBy(d)
           => S!Forgets(d) \in HeldBy(d)' \/ S!Closes(d) \notin ToSet(finalizers'[Parent[d]])
  PROVE  ForkState(d)'
<1>1. /\ S!CutShort(d) => S!CutShort(d)'
      /\ S!CutShort(Parent[d]) => S!CutShort(Parent[d])'
  BY ScopeAssumption, CutsRemain DEF S!Scope, S!Child
<1>2. ForkState(d)
  BY DEF ScopeInv
<1>. QED BY <1>1, <1>2 DEF ForkState

-----------------------------------------------------------------------------
(* A finalizer ends, or a call of close.                                      *)
LEMMA ScopeEndsLate == ASSUME ScopeInv, NEW u \in S!User, S!EndLate(u) PROVE ScopeInv'
<1>0. /\ UNCHANGED <<open, fork, finalizers, pending, active, closer, caller, home>>
      /\ life[u] = "late" /\ life' = [life EXCEPT ![u] = "ranLate"]
      /\ S!TypeOK /\ \A t \in S!Scope : ScopeShape(t) /\ ScopePlaced(t)
      /\ \A d \in S!Child : ForkState(d)
      /\ \A v \in S!User : LifeState(v)
      /\ S!LastAddedFirst
  BY DEF S!EndLate, S!release, ScopeInv
<1>1. life'[u] = "ranLate" /\ \A v \in S!User \ {u} : life'[v] = life[v]
  BY <1>0 DEF S!TypeOK
<1>2. S!TypeOK'
  BY <1>0 DEF S!TypeOK
<1>3. Onward
  BY <1>0 DEF Onward
<1>4. ASSUME NEW t \in S!Scope PROVE ScopeShape(t)' /\ ScopePlaced(t)' /\ HeldBy(t)' = HeldBy(t)
  <2>1. ScopeShape(t)'
    BY <1>0 DEF ScopeShape, S!Over
  <2>2. ScopePlaced(t)'
    BY <1>0, <1>1 DEF ScopePlaced, Lined
  <2>. QED BY <1>0, <2>1, <2>2 DEF HeldBy
<1>5. ASSUME NEW d \in S!Child PROVE ForkState(d)'
  <2>1. HeldBy(d)' = HeldBy(d) /\ HeldBy(Parent[d])' = HeldBy(Parent[d]) /\ S!Over(d)' = S!Over(d)
    BY <1>0 DEF HeldBy, S!Over
  <2>. QED BY <1>0, <1>3, <2>1, ForkRemains
<1>6. ASSUME NEW v \in S!User PROVE LifeState(v)'
  <2>1. CASE v = u
    BY <1>0, <1>1, <2>1 DEF LifeState
  <2>2. CASE v # u
    <3>1. life[v] = "new" => \A w \in S!User : w > v => life'[w] = "new"
      BY <1>0, <1>1 DEF LifeState
    <3>. QED BY <1>0, <1>1, <1>3, <1>4, <2>2, <3>1, LifeRemains
  <2>. QED BY <2>1, <2>2
<1>7. S!LastAddedFirst'
  BY <1>0, <1>1 DEF S!LastAddedFirst, S!Added
<1>. QED BY <1>2, <1>4, <1>5, <1>6, <1>7 DEF ScopeInv

LEMMA ScopeEndsUser == ASSUME ScopeInv, NEW s \in S!Scope, NEW u \in S!User, S!EndUser(s, u) PROVE ScopeInv'
<1>0. /\ UNCHANGED <<open, fork, finalizers, pending, closer, caller, home>>
      /\ S!Uses(u) \in active[s] /\ active' = [active EXCEPT ![s] = active[s] \ {S!Uses(u)}]
      /\ life' = [life EXCEPT ![u] = "ran"]
      /\ S!TypeOK /\ \A t \in S!Scope : ScopeShape(t) /\ ScopePlaced(t)
      /\ \A d \in S!Child : ForkState(d)
      /\ \A v \in S!User : LifeState(v)
      /\ S!LastAddedFirst
  BY DEF S!EndUser, ScopeInv
<1>1. /\ life'[u] = "ran" /\ \A v \in S!User \ {u} : life'[v] = life[v]
      /\ active'[s] = active[s] \ {S!Uses(u)} /\ \A t \in S!Scope \ {s} : active'[t] = active[t]
  BY <1>0 DEF S!TypeOK
<1>2. S!TypeOK'
  BY <1>0 DEF S!TypeOK
<1>3. Onward
  BY <1>0 DEF Onward
<1>4. life[u] = "runs" /\ home[u] = s /\ open[s] = "exited"
  BY <1>0 DEF ScopePlaced, LifeState
<1>5. ASSUME NEW t \in S!Scope PROVE ScopeShape(t)' /\ ScopePlaced(t)' /\ HeldBy(t)' = HeldBy(t)
  <2>1. S!Over(t) => S!Over(t)'
    BY <1>0, <1>1 DEF S!Over
  <2>2. ScopeShape(t)'
    BY <1>0, <1>1, <1>4, <2>1 DEF ScopeShape
  <2>3. ScopePlaced(t)'
    BY <1>0, <1>1, <1>4, EntriesDiffer DEF ScopePlaced, Lined
  <2>. QED BY <1>0, <2>2, <2>3 DEF HeldBy
<1>6. ASSUME NEW d \in S!Child PROVE ForkState(d)'
  <2>1. HeldBy(d)' = HeldBy(d) /\ HeldBy(Parent[d])' = HeldBy(Parent[d])
    BY <1>0 DEF HeldBy
  <2>2. d \in S!Scope /\ Parent[d] \in S!Scope
    BY ScopeAssumption DEF S!Scope, S!Child
  <2>3. S!Over(d) => S!Over(d)'
    BY <1>0, <1>1, <2>2 DEF S!Over
  <2>4. S!Closes(d) \in active[Parent[d]] => S!Closes(d) \in active'[Parent[d]]
    BY <1>1, <2>2, EntriesDiffer
  <2>. QED BY <1>0, <1>3, <2>1, <2>3, <2>4, ForkRemains
<1>7. ASSUME NEW v \in S!User PROVE LifeState(v)'
  <2>1. CASE v = u
    BY <1>0, <1>1, <1>4, <2>1 DEF LifeState
  <2>2. CASE v # u
    <3>1. life[v] = "new" => \A w \in S!User : w > v => life'[w] = "new"
      BY <1>0, <1>1, <1>4 DEF LifeState
    <3>2. \A t \in S!Scope : S!Uses(v) \in active[t] => S!Uses(v) \in active'[t]
      BY <1>1, <2>2, EntriesDiffer
    <3>. QED BY <1>0, <1>1, <1>3, <1>5, <2>2, <3>1, <3>2, LifeRemains
  <2>. QED BY <2>1, <2>2
<1>8. S!LastAddedFirst'
  BY <1>0, <1>1, <1>4 DEF S!LastAddedFirst, S!Added
<1>. QED BY <1>2, <1>5, <1>6, <1>7, <1>8 DEF ScopeInv

LEMMA ScopeEndsClose == ASSUME ScopeInv, NEW s \in S!Scope, NEW c \in S!Child, S!EndClose(s, c) PROVE ScopeInv'
<1>0. /\ UNCHANGED <<open, fork, finalizers, pending, closer, caller, home, life>>
      /\ S!Closes(c) \in active[s] /\ S!Over(c) /\ active' = [active EXCEPT ![s] = active[s] \ {S!Closes(c)}]
      /\ S!TypeOK /\ \A t \in S!Scope : ScopeShape(t) /\ ScopePlaced(t)
  BY DEF S!EndClose, S!users, ScopeInv
<1>1. active'[s] = active[s] \ {S!Closes(c)} /\ \A t \in S!Scope \ {s} : active'[t] = active[t]
  BY <1>0 DEF S!TypeOK
<1>2. S!TypeOK'
  BY <1>0 DEF S!TypeOK
<1>3. Onward
  BY <1>0 DEF Onward
<1>4. ASSUME NEW t \in S!Scope
      PROVE  ScopeShape(t)' /\ ScopePlaced(t)' /\ HeldBy(t)' = HeldBy(t) /\ (S!Over(t) => S!Over(t)')
  <2>1. S!Over(t) => S!Over(t)'
    BY <1>0, <1>1 DEF S!Over
  <2>2. ScopeShape(t)'
    BY <1>0, <1>1, <2>1 DEF ScopeShape
  <2>3. ScopePlaced(t)'
    BY <1>0, <1>1 DEF ScopePlaced, Lined
  <2>. QED BY <1>0, <2>1, <2>2, <2>3 DEF HeldBy
<1>5. ASSUME NEW d \in S!Child PROVE ForkState(d)'
  <2>1. d \in S!Scope /\ Parent[d] \in S!Scope
    BY ScopeAssumption DEF S!Scope, S!Child
  <2>2. /\ HeldBy(d)' = HeldBy(d) /\ HeldBy(Parent[d])' = HeldBy(Parent[d]) /\ (S!Over(d) => S!Over(d)')
    BY <1>4, <2>1
  <2>3. ~S!Over(d)' /\ S!Closes(d) \in active[Parent[d]] => S!Closes(d) \in active'[Parent[d]]
    BY <1>0, <1>1, <2>1, <2>2, EntriesDiffer
  <2>. QED BY <1>0, <1>3, <2>2, <2>3, ForkRemains
<1>6. (\A u \in S!User : LifeState(u)') /\ S!LastAddedFirst'
  <2>1. \A u \in S!User, t \in S!Scope : S!Uses(u) \in active[t] => S!Uses(u) \in active'[t]
    BY <1>1, EntriesDiffer
  <2>2. \A u \in S!User : HeldBy(home[u])' = HeldBy(home[u])
    BY <1>0 DEF HeldBy
  <2>. QED BY <1>0, <1>3, <2>1, <2>2, LivesRemain
<1>. QED BY <1>2, <1>4, <1>5, <1>6 DEF ScopeInv

LEMMA ScopeReturns == ASSUME ScopeInv, NEW s \in S!Scope, S!Return(s) PROVE ScopeInv'
<1>0. /\ UNCHANGED <<open, fork, finalizers, pending, active, closer, home, life>>
      /\ caller[s] = "closes" /\ S!Over(s) /\ caller' = [caller EXCEPT ![s] = "returned"]
      /\ S!TypeOK /\ \A t \in S!Scope : ScopeShape(t) /\ ScopePlaced(t)
  BY DEF S!Return, S!release, S!users, ScopeInv
<1>1. S!TypeOK'
  BY <1>0 DEF S!TypeOK
<1>2. caller'[s] = "returned" /\ \A t \in S!Scope \ {s} : caller'[t] = caller[t]
  BY <1>0 DEF S!TypeOK
<1>3. Onward
  BY <1>0, <1>2 DEF Onward
<1>4. ASSUME NEW t \in S!Scope PROVE ScopeShape(t)' /\ ScopePlaced(t)'
  <2>1. ScopeShape(t)'
    BY <1>0, <1>2 DEF ScopeShape, S!Over
  <2>. QED BY <1>0, <2>1 DEF ScopePlaced, Lined
<1>5. ASSUME NEW d \in S!Child PROVE ForkState(d)'
  <2>1. HeldBy(d)' = HeldBy(d) /\ HeldBy(Parent[d])' = HeldBy(Parent[d]) /\ S!Over(d)' = S!Over(d)
    BY <1>0 DEF HeldBy, S!Over
  <2>. QED BY <1>0, <1>3, <2>1, ForkRemains
<1>6. (\A u \in S!User : LifeState(u)') /\ S!LastAddedFirst'
  <2>1. \A u \in S!User : HeldBy(home[u])' = HeldBy(home[u])
    BY <1>0 DEF HeldBy
  <2>. QED BY <1>0, <1>3, <2>1, LivesRemain
<1>. QED BY <1>1, <1>4, <1>5, <1>6 DEF ScopeInv

-----------------------------------------------------------------------------
(* A scope is closed.                                                         *)
LEMMA ScopeCloses == ASSUME ScopeInv, NEW s \in S!Scope, S!Close(s) PROVE ScopeInv'
<1>0. /\ UNCHANGED <<fork, active, home, life>>
      /\ S!Known(s) /\ open[s] = "open" /\ open' = [open EXCEPT ![s] = "exited"]
      /\ closer' = [closer EXCEPT ![s] = "caller"] /\ caller' = [caller EXCEPT ![s] = "closes"]
      /\ pending' = [pending EXCEPT ![s] = Reverse(finalizers[s])]
      /\ finalizers' = [finalizers EXCEPT ![s] = <<>>]
      /\ S!TypeOK /\ \A t \in S!Scope : ScopeShape(t) /\ ScopePlaced(t)
      /\ \A d \in S!Child : ForkState(d)
  BY SameLines DEF S!Close, S!Exited, S!LastFirst, S!users, ScopeInv
<1>1. /\ open'[s] = "exited" /\ closer'[s] = "caller" /\ caller'[s] = "closes"
      /\ finalizers'[s] = <<>> /\ pending'[s] = Reverse(finalizers[s])
      /\ \A t \in S!Scope \ {s} :
           /\ open'[t] = open[t] /\ closer'[t] = closer[t] /\ caller'[t] = caller[t]
           /\ finalizers'[t] = finalizers[t] /\ pending'[t] = pending[t]
  BY <1>0 DEF S!TypeOK
<1>2. /\ pending'[s] \in Seq(S!Entry) /\ Falls(pending'[s]) /\ ToSet(pending'[s]) = ToSet(finalizers[s])
  <2>1. finalizers[s] \in Seq(S!Entry) /\ Rises(finalizers[s])
    BY <1>0 DEF S!TypeOK, ScopeShape
  <2>. QED BY <1>1, <2>1, FallsThen
<1>3. closer[s] = "nobody" /\ caller[s] = "none" /\ pending[s] = <<>> /\ active[s] = {}
  BY <1>0 DEF ScopeShape
<1>4. S!TypeOK'
  <2>1. pending' \in [S!Scope -> Seq(S!Entry)] /\ finalizers' \in [S!Scope -> Seq(S!Entry)]
    BY <1>0, <1>1, <1>2 DEF S!TypeOK
  <2>. QED BY <1>0, <2>1 DEF S!TypeOK
<1>5. Onward
  BY <1>0, <1>1, <1>3 DEF Onward, S!Child, S!Scope
<1>6. \A t \in S!Scope : HeldBy(t)' = HeldBy(t)
  BY <1>0, <1>1, <1>2 DEF HeldBy
<1>7. ASSUME NEW t \in S!Scope PROVE ScopeShape(t)' /\ ScopePlaced(t)'
  <2>1. CASE t = s
    <3>1. Rises(<<>>) /\ ToSet(<<>>) = {}
      BY Heads DEF Rises
    <3>2. Lined(t)' = Lined(t)
      <4>1. ToSet(pending[s]) = {} /\ ToSet(finalizers'[s]) = {}
        BY <1>1, <1>3, <3>1
      <4>. QED BY <1>2, <2>1, <4>1 DEF Lined
    <3>3. ScopeShape(t)'
      BY <1>0, <1>1, <1>2, <2>1, <3>1 DEF ScopeShape
    <3>. QED BY <1>0, <2>1, <3>2, <3>3 DEF ScopePlaced
  <2>2. CASE t # s
    BY <1>0, <1>1, <2>2 DEF ScopeShape, ScopePlaced, S!Over, Lined
  <2>. QED BY <2>1, <2>2
<1>8. ASSUME NEW d \in S!Child PROVE ForkState(d)'
  <2>0. ForkState(d) /\ d \in S!Scope /\ Parent[d] \in S!Scope
    BY <1>0, ScopeAssumption DEF S!Scope, S!Child
  <2>1. /\ HeldBy(d)' = HeldBy(d) /\ HeldBy(Parent[d])' = HeldBy(Parent[d])
        /\ S!CutShort(d) => S!CutShort(d)'
        /\ S!CutShort(Parent[d]) => S!CutShort(Parent[d])'
        /\ open[Parent[d]] = "exited" => open'[Parent[d]] = "exited"
    BY <1>5, <1>6, <2>0, CutsRemain DEF Onward
  <2>2. S!Closes(d) \in ToSet(finalizers'[Parent[d]]) => S!Closes(d) \in ToSet(finalizers[Parent[d]])
    BY <1>1, <2>0, Heads
  <2>3. CASE d = s
    <3>1. fork[d] = "forked"
      BY <1>0, <2>3 DEF S!Known
    <3>. QED BY <1>0, <1>1, <2>0, <2>1, <2>2, <2>3, <3>1 DEF ForkState
  <2>4. CASE d # s
    <3>1. S!Over(d)' = S!Over(d) /\ open'[d] = open[d] /\ closer'[d] = closer[d]
      BY <1>0, <1>1, <2>0, <2>4 DEF S!Over
    <3>. QED BY <1>0, <2>0, <2>1, <2>2, <3>1 DEF ForkState
  <2>. QED BY <2>3, <2>4
<1>9. (\A u \in S!User : LifeState(u)') /\ S!LastAddedFirst'
  <2>1. \A u \in S!User : home[u] \in S!Scope => HeldBy(home[u])' = HeldBy(home[u])
    <3>. SUFFICES ASSUME NEW u \in S!User, home[u] \in S!Scope PROVE HeldBy(home[u])' = HeldBy(home[u])
      OBVIOUS
    <3>. PICK t \in S!Scope : t = home[u] /\ t = home'[u]
      BY <1>0
    <3>1. HeldBy(t)' = HeldBy(t)
      BY <1>6
    <3>. QED BY <3>1 DEF HeldBy
  <2>. QED BY <1>0, <1>5, <2>1, LivesRemain
<1>. QED BY <1>4, <1>7, <1>8, <1>9 DEF ScopeInv

-----------------------------------------------------------------------------
(* The next finalizer of a scope that is being closed begins.                   *)
LEMMA NextBegins ==
  ASSUME ScopeInv, NEW s \in S!Scope, S!Next1(s)
  PROVE  /\ open[s] = "exited" /\ ~S!Over(s) /\ finalizers[s] = <<>> /\ caller[s] # "returned"
         /\ Tail(pending[s]) \in Seq(S!Entry) /\ Falls(Tail(pending[s])) /\ Head(pending[s]) \in S!Entry
         /\ ToSet(pending[s]) = {Head(pending[s])} \cup ToSet(Tail(pending[s]))
         /\ HeldBy(s) = ToSet(pending[s]) /\ Lined(s) = ToSet(pending[s])
         /\ \A u, v \in S!User :
              Head(pending[s]) = S!Uses(u) /\ S!Uses(v) \in ToSet(Tail(pending[s])) => v < u
         /\ S!Others(s) \in [S!Scope -> Seq(S!Entry)]
         /\ S!Others(s)[s] = Tail(pending[s])
         /\ \A t \in S!Scope \ {s} : S!Others(s)[t] = pending[t]
<1>1. pending[s] # <<>> /\ pending \in [S!Scope -> Seq(S!Entry)] /\ ScopeShape(s)
  BY DEF ScopeInv, S!Next1, S!TypeOK
<1>2. /\ open[s] = "exited" /\ ~S!Over(s) /\ finalizers[s] = <<>> /\ caller[s] # "returned" /\ Falls(pending[s])
  BY <1>1 DEF ScopeShape, S!Over
<1>3. HeldBy(s) = ToSet(pending[s]) /\ Lined(s) = ToSet(pending[s])
  BY <1>2, Heads DEF HeldBy, Lined
<1>4. /\ Tail(pending[s]) \in Seq(S!Entry) /\ Falls(Tail(pending[s])) /\ Head(pending[s]) \in S!Entry
      /\ ToSet(pending[s]) = {Head(pending[s])} \cup ToSet(Tail(pending[s]))
      /\ \A u, v \in S!User :
           Head(pending[s]) = S!Uses(u) /\ S!Uses(v) \in ToSet(Tail(pending[s])) => v < u
  BY <1>1, <1>2, FallsOn
<1>5. /\ S!Others(s) \in [S!Scope -> Seq(S!Entry)]
      /\ S!Others(s)[s] = Tail(pending[s])
      /\ \A t \in S!Scope \ {s} : S!Others(s)[t] = pending[t]
  BY <1>1, <1>4 DEF S!Others
<1>. QED BY <1>2, <1>3, <1>4, <1>5

LEMMA SameSize == \A x : S!Cardinality(x) = Cardinality(x)
BY DEF S!Cardinality, Cardinality

LEMMA FewActive == \A s \in S!Scope : S!TypeOK => IsFiniteSet(active[s]) /\ Cardinality(active[s]) \in Nat
<1>1. IsFiniteSet(S!User) /\ IsFiniteSet(S!Child)
  BY ScopeAssumption, FS_Interval DEF S!User, S!Child
<1>2. IsFiniteSet({"user", "close", "forget"})
  <2>1. IsFiniteSet({}) /\ IsFiniteSet({} \cup {"user"})
    BY FS_EmptySet, FS_AddElement
  <2>2. IsFiniteSet(({} \cup {"user"}) \cup {"close"})
    BY <2>1, FS_AddElement
  <2>3. IsFiniteSet((({} \cup {"user"}) \cup {"close"}) \cup {"forget"})
    BY <2>2, FS_AddElement
  <2>4. (({} \cup {"user"}) \cup {"close"}) \cup {"forget"} = {"user", "close", "forget"}
    OBVIOUS
  <2>. QED BY <2>3, <2>4
<1>3. IsFiniteSet({"user", "close", "forget"} \X (S!User \cup S!Child))
  <2>1. IsFiniteSet(S!User \cup S!Child)
    BY <1>1, FS_Union
  <2>. QED BY <1>2, <2>1, FS_Product
<1>4. IsFiniteSet(S!Entry)
  <2>1. S!Entry \subseteq {"user", "close", "forget"} \X (S!User \cup S!Child)
    BY DEF S!Entry, S!Uses, S!Closes, S!Forgets
  <2>. QED BY <1>3, <2>1, FS_Subset
<1>. QED BY <1>4, FS_Subset, FS_CardinalityType DEF S!TypeOK

LEMMA ScopeBeginsUser ==
  ASSUME ScopeInv, NEW s \in S!Scope, NEW u \in S!User, S!BeginUser(s, u)
  PROVE  ScopeInv'
<1>0. /\ UNCHANGED <<open, fork, finalizers, closer, caller, home>>
      /\ S!Next1(s) /\ Head(pending[s]) = S!Uses(u) /\ pending' = S!Others(s)
      /\ active' = [active EXCEPT ![s] = active[s] \cup {S!Uses(u)}]
      /\ life' = [life EXCEPT ![u] = "runs"]
      /\ S!TypeOK /\ \A t \in S!Scope : ScopeShape(t) /\ ScopePlaced(t)
      /\ \A d \in S!Child : ForkState(d)
      /\ \A v \in S!User : LifeState(v)
      /\ S!LastAddedFirst
  BY DEF S!BeginUser, ScopeInv
<1>. PICK rest \in Seq(S!Entry) : rest = Tail(pending[s])
  BY <1>0, NextBegins
<1>1. /\ pending'[s] = rest /\ Falls(rest) /\ pending' \in [S!Scope -> Seq(S!Entry)]
      /\ \A t \in S!Scope \ {s} : pending'[t] = pending[t]
      /\ open[s] = "exited" /\ ~S!Over(s) /\ finalizers[s] = <<>> /\ caller[s] # "returned"
      /\ ToSet(pending[s]) = {S!Uses(u)} \cup ToSet(rest)
      /\ \A v \in S!User : S!Uses(v) \in ToSet(rest) => v < u
      /\ HeldBy(s) = ToSet(pending[s]) /\ Lined(s) = ToSet(pending[s])
  BY <1>0, NextBegins
<1>2. /\ life'[u] = "runs" /\ \A v \in S!User \ {u} : life'[v] = life[v]
      /\ active'[s] = active[s] \cup {S!Uses(u)} /\ \A t \in S!Scope \ {s} : active'[t] = active[t]
  BY <1>0 DEF S!TypeOK
<1>3. S!TypeOK'
  BY <1>0, <1>1, EntriesDiffer DEF S!TypeOK
<1>4. Onward
  BY <1>0 DEF Onward
<1>5. home[u] = s /\ life[u] = "added" /\ S!Uses(u) \notin ToSet(rest) /\ S!Uses(u) \notin active[s]
  <2>1. home[u] = s /\ life[u] = "added"
    BY <1>0, <1>1 DEF ScopePlaced
  <2>2. u \in Nat
    BY EntriesDiffer
  <2>. QED BY <1>0, <1>1, <2>1, <2>2 DEF ScopePlaced
<1>6. /\ HeldBy(s)' = ToSet(rest) /\ Lined(s)' = ToSet(rest)
      /\ \A t \in S!Scope \ {s} : HeldBy(t)' = HeldBy(t) /\ Lined(t)' = Lined(t)
  BY <1>0, <1>1, Heads DEF HeldBy, Lined
<1>7. ASSUME NEW t \in S!Scope PROVE ScopeShape(t)' /\ ScopePlaced(t)'
  <2>1. CASE t = s
    <3>1. ScopeShape(t)'
      BY <1>0, <1>1, <2>1 DEF ScopeShape
    <3>2. ScopePlaced(t)'
      BY <1>0, <1>1, <1>2, <1>5, <1>6, <2>1, EntriesDiffer DEF ScopePlaced
    <3>. QED BY <3>1, <3>2
  <2>2. CASE t # s
    <3>1. ScopeShape(t)'
      BY <1>0, <1>1, <1>2, <2>2 DEF ScopeShape, S!Over
    <3>2. S!Uses(u) \notin Lined(t) /\ S!Uses(u) \notin active[t]
      BY <1>0, <1>5, <2>2 DEF ScopePlaced
    <3>3. ScopePlaced(t)'
      BY <1>0, <1>2, <1>6, <2>2, <3>2 DEF ScopePlaced
    <3>. QED BY <3>1, <3>3
  <2>. QED BY <2>1, <2>2
<1>8. ASSUME NEW d \in S!Child PROVE ForkState(d)'
  <2>0. d \in S!Scope /\ Parent[d] \in S!Scope
    BY ScopeAssumption DEF S!Scope, S!Child
  <2>1. S!Over(d) => S!Over(d)'
    BY <1>0, <1>1, <1>2, <2>0 DEF S!Over
  <2>2. \A t \in S!Scope : /\ S!Closes(d) \in HeldBy(t) => S!Closes(d) \in HeldBy(t)'
                           /\ S!Forgets(d) \in HeldBy(t) => S!Forgets(d) \in HeldBy(t)'
    BY <1>1, <1>6, EntriesDiffer
  <2>3. S!Closes(d) \in active[Parent[d]] => S!Closes(d) \in active'[Parent[d]]
    BY <1>2, <2>0
  <2>4. /\ S!Closes(d) \in HeldBy(Parent[d]) => S!Closes(d) \in HeldBy(Parent[d])'
        /\ S!Forgets(d) \in HeldBy(d) => S!Forgets(d) \in HeldBy(d)'
    BY <2>0, <2>2
  <2>5. UNCHANGED <<open, fork, closer>> /\ finalizers' = finalizers
    BY <1>0
  <2>. QED BY <1>4, <2>1, <2>3, <2>4, <2>5, ForkRemains
<1>9. ASSUME NEW v \in S!User PROVE LifeState(v)'
  <2>1. CASE v = u
    BY <1>0, <1>1, <1>2, <1>5, <2>1 DEF LifeState
  <2>2. CASE v # u
    <3>1. life[v] = "new" => \A w \in S!User : w > v => life'[w] = "new"
      BY <1>0, <1>2, <1>5 DEF LifeState
    <3>2. \A t \in S!Scope : /\ S!Uses(v) \in active[t] => S!Uses(v) \in active'[t]
                             /\ S!Uses(v) \in HeldBy(t) => S!Uses(v) \in HeldBy(t)'
      BY <1>1, <1>2, <1>6, <2>2, EntriesDiffer
    <3>. QED BY <1>0, <1>2, <1>4, <2>2, <3>1, <3>2, LifeRemains
  <2>. QED BY <2>1, <2>2
<1>10. S!LastAddedFirst'
  <2>. SUFFICES ASSUME NEW t \in S!Scope, NEW v \in S!User, NEW w \in S!User, Width[t] = 1, v < w,
                       S!Added(t, v)', S!Added(t, w)', life'[v] \in {"runs", "ran"}
                PROVE  life'[w] \in {"ran", "lost"}
    BY DEF S!LastAddedFirst
  <2>1. CASE v # u
    <3>1. S!Added(t, v) /\ life[v] \in {"runs", "ran"}
      BY <1>0, <1>2, <2>1 DEF S!Added
    <3>2. S!Added(t, w)
      BY <1>0, <1>2, <1>5 DEF S!Added
    <3>3. life[w] \in {"ran", "lost"}
      BY <1>0, <3>1, <3>2 DEF S!LastAddedFirst
    <3>. QED BY <1>2, <1>5, <3>3
  <2>2. CASE v = u
    <3>1. t = s /\ w # u /\ home[w] = s /\ life'[w] = life[w] /\ life[w] \notin {"late", "ranLate"}
      <4>1. u \in Nat
        BY EntriesDiffer
      <4>2. t = s /\ w # u
        BY <1>0, <1>5, <2>2, <4>1 DEF S!Added
      <4>. QED BY <1>0, <1>2, <4>2 DEF S!Added
    <3>2. active[s] = {}
      <4>1. IsFiniteSet(active[s]) /\ Cardinality(active[s]) \in Nat
        BY <1>0, FewActive
      <4>2. Cardinality(active[s]) < 1
        BY <1>0, <3>1, SameSize DEF S!Next1
      <4>3. Cardinality(active[s]) = 0
        BY <4>1, <4>2
      <4>. QED BY <4>1, <4>3, FS_EmptySet
    <3>3. life[w] # "runs"
      BY <1>0, <3>1, <3>2 DEF LifeState
    <3>4. life[w] # "added"
      <4>1. life[w] = "added" => S!Uses(w) \in ToSet(rest)
        BY <1>0, <1>1, <3>1, EntriesDiffer DEF LifeState
      <4>2. w \in Nat /\ u \in Nat
        BY EntriesDiffer
      <4>. QED BY <1>1, <2>2, <4>1, <4>2
    <3>5. life[w] # "new"
      BY <1>0, <3>1, ScopeAssumption DEF LifeState, S!Scope, S!Child
    <3>6. life[w] \in {"new", "added", "runs", "ran", "late", "ranLate", "lost"}
      BY <1>0 DEF S!TypeOK
    <3>. QED BY <3>1, <3>3, <3>4, <3>5, <3>6
  <2>. QED BY <2>1, <2>2
<1>. QED BY <1>3, <1>7, <1>8, <1>9, <1>10 DEF ScopeInv

LEMMA ScopePasses ==
  ASSUME ScopeInv, NEW s \in S!Scope, NEW c \in S!Child, S!BeginClose(s, c), open[c] # "open"
  PROVE  ScopeInv'
<1>0. /\ UNCHANGED <<open, fork, finalizers, active, closer, caller, home, life>>
      /\ S!Next1(s) /\ Head(pending[s]) = S!Closes(c) /\ pending' = S!Others(s)
      /\ S!TypeOK /\ \A t \in S!Scope : ScopeShape(t) /\ ScopePlaced(t)
  BY DEF S!BeginClose, S!users, ScopeInv
<1>. PICK rest \in Seq(S!Entry) : rest = Tail(pending[s])
  BY <1>0, NextBegins
<1>1. /\ pending'[s] = rest /\ Falls(rest) /\ pending' \in [S!Scope -> Seq(S!Entry)]
      /\ \A t \in S!Scope \ {s} : pending'[t] = pending[t]
      /\ open[s] = "exited" /\ ~S!Over(s) /\ finalizers[s] = <<>> /\ caller[s] # "returned"
      /\ ToSet(pending[s]) = {S!Closes(c)} \cup ToSet(rest)
      /\ HeldBy(s) = ToSet(pending[s]) /\ Lined(s) = ToSet(pending[s])
  BY <1>0, NextBegins
<1>2. S!TypeOK'
  BY <1>0, <1>1 DEF S!TypeOK
<1>3. Onward
  BY <1>0 DEF Onward
<1>4. /\ HeldBy(s)' = ToSet(rest) /\ Lined(s)' = ToSet(rest)
      /\ \A t \in S!Scope \ {s} : HeldBy(t)' = HeldBy(t) /\ Lined(t)' = Lined(t)
  BY <1>0, <1>1, Heads DEF HeldBy, Lined
<1>5. ASSUME NEW t \in S!Scope PROVE ScopeShape(t)' /\ ScopePlaced(t)'
  <2>1. ScopeShape(t)'
    BY <1>0, <1>1 DEF ScopeShape, S!Over
  <2>2. Lined(t)' \subseteq Lined(t)
    BY <1>1, <1>4
  <2>. QED BY <1>0, <2>1, <2>2 DEF ScopePlaced
<1>6. ASSUME NEW d \in S!Child PROVE ForkState(d)'
  <2>0. d \in S!Scope /\ Parent[d] \in S!Scope
    BY ScopeAssumption DEF S!Scope, S!Child
  <2>1. S!Over(d) => S!Over(d)'
    BY <1>0, <1>1, <2>0 DEF S!Over
  <2>2. \A t \in S!Scope : /\ S!Closes(d) \in HeldBy(t) => S!Closes(d) \in HeldBy(t)' \/ d = c
                           /\ S!Forgets(d) \in HeldBy(t) => S!Forgets(d) \in HeldBy(t)'
    BY <1>1, <1>4, EntriesDiffer
  <2>3. /\ S!Closes(d) \in HeldBy(Parent[d]) => S!Closes(d) \in HeldBy(Parent[d])' \/ open[d] # "open"
        /\ S!Forgets(d) \in HeldBy(d) => S!Forgets(d) \in HeldBy(d)'
    BY <2>0, <2>2
  <2>4. UNCHANGED <<open, fork, closer>> /\ finalizers' = finalizers /\ active' = active
    BY <1>0
  <2>. QED BY <1>3, <2>1, <2>3, <2>4, ForkRemains
<1>7. (\A u \in S!User : LifeState(u)') /\ S!LastAddedFirst'
  <2>. SUFFICES ASSUME NEW u \in S!User, home[u] \in S!Scope, S!Uses(u) \in HeldBy(home[u])
                PROVE  S!Uses(u) \in HeldBy(home[u])'
    BY <1>0, <1>3, LivesRemain
  <2>. PICK t \in S!Scope : t = home[u] /\ t = home'[u]
    BY <1>0
  <2>1. S!Uses(u) \in HeldBy(t) => S!Uses(u) \in HeldBy(t)'
    BY <1>1, <1>4, EntriesDiffer
  <2>. QED BY <2>1 DEF HeldBy
<1>. QED BY <1>2, <1>5, <1>6, <1>7 DEF ScopeInv

LEMMA ScopeClosesChild ==
  ASSUME ScopeInv, NEW s \in S!Scope, NEW c \in S!Child, S!BeginClose(s, c), open[c] = "open"
  PROVE  ScopeInv'
<1>0. /\ UNCHANGED <<fork, caller, home, life>>
      /\ S!Next1(s) /\ Head(pending[s]) = S!Closes(c)
      /\ open' = [open EXCEPT ![c] = "exited"] /\ closer' = [closer EXCEPT ![c] = "parent"]
      /\ pending' = [S!Others(s) EXCEPT ![c] = Reverse(finalizers[c])]
      /\ finalizers' = [finalizers EXCEPT ![c] = <<>>]
      /\ active' = [active EXCEPT ![s] = active[s] \cup {S!Closes(c)}]
      /\ S!TypeOK /\ \A t \in S!Scope : ScopeShape(t) /\ ScopePlaced(t)
      /\ \A d \in S!Child : ForkState(d)
  BY SameLines DEF S!BeginClose, S!Exited, S!LastFirst, S!users, ScopeInv
<1>. PICK rest \in Seq(S!Entry) : rest = Tail(pending[s])
  BY <1>0, NextBegins
<1>1. /\ S!Others(s)[s] = rest /\ Falls(rest) /\ S!Others(s) \in [S!Scope -> Seq(S!Entry)]
      /\ \A t \in S!Scope \ {s} : S!Others(s)[t] = pending[t]
      /\ open[s] = "exited" /\ ~S!Over(s) /\ finalizers[s] = <<>> /\ caller[s] # "returned"
      /\ ToSet(pending[s]) = {S!Closes(c)} \cup ToSet(rest)
      /\ HeldBy(s) = ToSet(pending[s]) /\ Lined(s) = ToSet(pending[s])
  BY <1>0, NextBegins
<1>2. /\ c \in S!Scope /\ c # s /\ Parent[c] = s
      /\ closer[c] = "nobody" /\ caller[c] = "none" /\ pending[c] = <<>> /\ active[c] = {}
  <2>1. c \in S!Scope /\ c # s
    BY <1>0, <1>1 DEF S!Scope
  <2>2. S!Closes(c) \in Lined(s)
    BY <1>1
  <2>3. Parent[c] = s
    BY <1>0, <2>2 DEF ScopePlaced
  <2>. QED BY <1>0, <2>1, <2>3 DEF ScopeShape
<1>3. /\ open'[c] = "exited" /\ closer'[c] = "parent" /\ finalizers'[c] = <<>>
      /\ pending'[c] = Reverse(finalizers[c]) /\ pending'[s] = rest
      /\ active'[s] = active[s] \cup {S!Closes(c)}
      /\ \A t \in S!Scope \ {c} : open'[t] = open[t] /\ closer'[t] = closer[t] /\ finalizers'[t] = finalizers[t]
      /\ \A t \in S!Scope \ {c, s} : pending'[t] = pending[t]
      /\ \A t \in S!Scope \ {s} : active'[t] = active[t]
  BY <1>0, <1>1, <1>2 DEF S!TypeOK
<1>4. /\ pending'[c] \in Seq(S!Entry) /\ Falls(pending'[c]) /\ ToSet(pending'[c]) = ToSet(finalizers[c])
  <2>1. finalizers[c] \in Seq(S!Entry) /\ Rises(finalizers[c])
    BY <1>0, <1>2 DEF S!TypeOK, ScopeShape
  <2>. QED BY <1>3, <2>1, FallsThen
<1>5. S!TypeOK'
  <2>1. pending' \in [S!Scope -> Seq(S!Entry)] /\ finalizers' \in [S!Scope -> Seq(S!Entry)]
    BY <1>0, <1>1, <1>3, <1>4 DEF S!TypeOK
  <2>2. active' \in [S!Scope -> SUBSET S!Entry]
    BY <1>0, EntriesDiffer DEF S!TypeOK
  <2>. QED BY <1>0, <2>1, <2>2 DEF S!TypeOK
<1>6. Onward
  BY <1>0, <1>3 DEF Onward, S!Child, S!Scope
<1>7. /\ HeldBy(s)' = ToSet(rest) /\ Lined(s)' = ToSet(rest)
      /\ HeldBy(c)' = HeldBy(c) /\ Lined(c)' = Lined(c)
      /\ \A t \in S!Scope \ {s, c} : HeldBy(t)' = HeldBy(t) /\ Lined(t)' = Lined(t)
  BY <1>0, <1>1, <1>2, <1>3, <1>4, Heads DEF HeldBy, Lined
<1>8. ASSUME NEW t \in S!Scope PROVE ScopeShape(t)' /\ ScopePlaced(t)'
  <2>1. CASE t = c
    <3>1. Rises(<<>>)
      BY DEF Rises
    <3>2. ScopeShape(t)'
      BY <1>0, <1>2, <1>3, <1>4, <2>1, <3>1 DEF ScopeShape
    <3>3. ScopePlaced(t)'
      BY <1>0, <1>2, <1>3, <1>7, <2>1 DEF ScopePlaced
    <3>. QED BY <3>2, <3>3
  <2>2. CASE t = s
    <3>1. ScopeShape(t)'
      BY <1>0, <1>1, <1>2, <1>3, <2>2 DEF ScopeShape
    <3>2. ScopePlaced(t)'
      BY <1>0, <1>1, <1>3, <1>7, <2>2, EntriesDiffer DEF ScopePlaced
    <3>. QED BY <3>1, <3>2
  <2>3. CASE t \notin {s, c}
    <3>1. ScopeShape(t)'
      BY <1>0, <1>3, <2>3 DEF ScopeShape, S!Over
    <3>2. ScopePlaced(t)'
      BY <1>0, <1>3, <1>7, <2>3 DEF ScopePlaced
    <3>. QED BY <3>1, <3>2
  <2>. QED BY <2>1, <2>2, <2>3
<1>9. ASSUME NEW d \in S!Child PROVE ForkState(d)'
  <2>0. ForkState(d) /\ d \in S!Scope /\ Parent[d] \in S!Scope
    BY <1>0, ScopeAssumption DEF S!Scope, S!Child
  <2>1. CASE d = c
    <3>1. S!Closes(c) \in active'[s] /\ open'[s] = "exited" /\ fork[c] # "none"
      BY <1>0, <1>1, <1>2, <1>3 DEF ForkState
    <3>2. S!Closes(c) \notin ToSet(finalizers'[s])
      BY <1>1, <1>2, <1>3, Heads
    <3>. QED BY <1>0, <1>2, <1>3, <2>1, <3>1, <3>2 DEF ForkState
  <2>2. CASE d # c
    <3>1. \A t \in S!Scope : /\ S!Closes(d) \in HeldBy(t) => S!Closes(d) \in HeldBy(t)'
                             /\ S!Forgets(d) \in HeldBy(t) => S!Forgets(d) \in HeldBy(t)'
      BY <1>1, <1>7, <2>2, EntriesDiffer
    <3>2. /\ S!Closes(d) \in HeldBy(Parent[d]) => S!Closes(d) \in HeldBy(Parent[d])'
          /\ S!Forgets(d) \in HeldBy(d) => S!Forgets(d) \in HeldBy(d)'
          /\ S!CutShort(d) => S!CutShort(d)'
          /\ S!CutShort(Parent[d]) => S!CutShort(Parent[d])'
          /\ open[Parent[d]] = "exited" => open'[Parent[d]] = "exited"
      BY <1>6, <2>0, <3>1, CutsRemain DEF Onward
    <3>3. S!Closes(d) \in ToSet(finalizers'[Parent[d]]) => S!Closes(d) \in ToSet(finalizers[Parent[d]])
      BY <1>3, <2>0, Heads
    <3>4. /\ fork'[d] = fork[d] /\ open'[d] = open[d] /\ closer'[d] = closer[d]
          /\ active[Parent[d]] \subseteq active'[Parent[d]]
          /\ S!Over(d) => S!Over(d)'
      BY <1>0, <1>1, <1>2, <1>3, <2>0, <2>2 DEF S!Over
    <3>. QED BY <2>0, <3>2, <3>3, <3>4 DEF ForkState
  <2>. QED BY <2>1, <2>2
<1>10. (\A u \in S!User : LifeState(u)') /\ S!LastAddedFirst'
  <2>. SUFFICES ASSUME NEW u \in S!User, home[u] \in S!Scope
                PROVE  /\ S!Uses(u) \in HeldBy(home[u]) => S!Uses(u) \in HeldBy(home[u])'
                       /\ S!Uses(u) \in active[home[u]] => S!Uses(u) \in active'[home[u]]
    BY <1>0, <1>6, LivesRemain
  <2>. PICK t \in S!Scope : t = home[u] /\ t = home'[u]
    BY <1>0
  <2>1. S!Uses(u) \in active[t] => S!Uses(u) \in active'[t]
    BY <1>3
  <2>2. S!Uses(u) \in HeldBy(t) => S!Uses(u) \in HeldBy(t)'
    <3>1. CASE t = s
      BY <1>1, <1>7, <3>1, EntriesDiffer
    <3>2. CASE t # s
      BY <1>7, <3>2
    <3>. QED BY <3>1, <3>2
  <2>. QED BY <2>1, <2>2 DEF HeldBy
<1>. QED BY <1>5, <1>8, <1>9, <1>10 DEF ScopeInv

LEMMA Contained ==
  ASSUME NEW q \in Seq(S!Entry)
  PROVE  ToSet(q) \subseteq S!Entry /\ (ToSet(q) = {} => q = <<>>)
<1>1. ToSet(q) \subseteq S!Entry
  BY DEF ToSet
<1>2. ASSUME q # <<>> PROVE ToSet(q) # {}
  BY <1>2, HeadAndTail
<1>. QED BY <1>1, <1>2

LEMMA ScopeForgets == ASSUME ScopeInv, NEW c \in S!Child, S!BeginForget(c) PROVE ScopeInv'
<1>. PICK p \in S!Scope : p = Parent[c]
  BY ScopeAssumption DEF S!Scope, S!Child
<1>0. /\ UNCHANGED <<open, fork, active, closer, caller, home, life>>
      /\ S!Next1(c) /\ Head(pending[c]) = S!Forgets(c) /\ pending' = S!Others(c)
      /\ finalizers' = [finalizers EXCEPT ![p] = Keep(finalizers[p], S!Entry \ {S!Closes(c)})]
      /\ S!TypeOK /\ \A t \in S!Scope : ScopeShape(t) /\ ScopePlaced(t)
  BY SameLines DEF S!BeginForget, S!users, ScopeInv
<1>. c \in S!Scope
  BY DEF S!Scope
<1>. PICK rest \in Seq(S!Entry) : rest = Tail(pending[c])
  BY <1>0, NextBegins
<1>1. /\ pending'[c] = rest /\ Falls(rest) /\ pending' \in [S!Scope -> Seq(S!Entry)]
      /\ \A t \in S!Scope \ {c} : pending'[t] = pending[t]
      /\ open[c] = "exited" /\ ~S!Over(c) /\ finalizers[c] = <<>> /\ caller[c] # "returned"
      /\ ToSet(pending[c]) = {S!Forgets(c)} \cup ToSet(rest)
      /\ HeldBy(c) = ToSet(pending[c]) /\ Lined(c) = ToSet(pending[c])
  BY <1>0, NextBegins
<1>2. /\ finalizers'[p] \in Seq(S!Entry) /\ Rises(finalizers'[p])
      /\ ToSet(finalizers'[p]) = ToSet(finalizers[p]) \ {S!Closes(c)}
      /\ \A t \in S!Scope \ {p} : finalizers'[t] = finalizers[t]
  <2>1. finalizers[p] \in Seq(S!Entry) /\ Rises(finalizers[p]) /\ ToSet(finalizers[p]) \subseteq S!Entry
    BY <1>0, Contained DEF S!TypeOK, ScopeShape
  <2>2. finalizers'[p] = Keep(finalizers[p], S!Entry \ {S!Closes(c)})
    BY <1>0 DEF S!TypeOK
  <2>3. /\ finalizers'[p] \in Seq(S!Entry) /\ Rises(finalizers'[p])
        /\ ToSet(finalizers'[p]) = ToSet(finalizers[p]) \cap (S!Entry \ {S!Closes(c)})
    BY <2>1, <2>2, RisesStill
  <2>. QED BY <1>0, <2>1, <2>3 DEF S!TypeOK
<1>3. \A t \in S!Scope : finalizers[t] = <<>> => finalizers'[t] = <<>>
  <2>1. finalizers[p] = <<>> => ToSet(finalizers'[p]) = {}
    BY <1>2, Heads
  <2>. QED BY <1>2, <2>1, Contained
<1>4. S!TypeOK'
  <2>1. finalizers' \in [S!Scope -> Seq(S!Entry)]
    BY <1>0, <1>2 DEF S!TypeOK
  <2>. QED BY <1>0, <1>1, <2>1 DEF S!TypeOK
<1>5. Onward
  BY <1>0 DEF Onward
<1>6. ASSUME NEW t \in S!Scope
      PROVE  /\ ToSet(finalizers'[t]) \subseteq ToSet(finalizers[t])
             /\ ToSet(finalizers[t]) \ {S!Closes(c)} \subseteq ToSet(finalizers'[t])
             /\ ToSet(pending'[t]) \subseteq ToSet(pending[t])
             /\ ToSet(pending[t]) \ {S!Forgets(c)} \subseteq ToSet(pending'[t])
  BY <1>1, <1>2
<1>7. ASSUME NEW t \in S!Scope
      PROVE  Lined(t)' \subseteq Lined(t) /\ HeldBy(t) \ {S!Closes(c), S!Forgets(c)} \subseteq HeldBy(t)'
  BY <1>0, <1>6 DEF HeldBy, Lined
<1>8. ASSUME NEW t \in S!Scope PROVE ScopeShape(t)' /\ ScopePlaced(t)'
  <2>1. Rises(finalizers'[t]) /\ Falls(pending'[t])
    BY <1>0, <1>1, <1>2 DEF ScopeShape
  <2>2. CASE t = c
    <3>1. ScopeShape(t)'
      BY <1>0, <1>1, <1>3, <2>1, <2>2 DEF ScopeShape
    <3>. QED BY <1>0, <1>7, <3>1 DEF ScopePlaced
  <2>3. CASE t # c
    <3>1. ScopeShape(t)'
      BY <1>0, <1>1, <1>3, <2>1, <2>3 DEF ScopeShape, S!Over
    <3>. QED BY <1>0, <1>7, <3>1 DEF ScopePlaced
  <2>. QED BY <2>2, <2>3
<1>9. ASSUME NEW d \in S!Child PROVE ForkState(d)'
  <2>0. d \in S!Scope /\ Parent[d] \in S!Scope
    BY ScopeAssumption DEF S!Scope, S!Child
  <2>1. S!Over(d) => S!Over(d)'
    BY <1>0, <1>1, <2>0 DEF S!Over
  <2>2. S!Closes(d) \in ToSet(finalizers'[Parent[d]]) => S!Closes(d) \in ToSet(finalizers[Parent[d]])
    BY <1>6, <2>0
  <2>3. /\ S!Closes(d) \in HeldBy(Parent[d]) => S!Closes(d) \in HeldBy(Parent[d])' \/ d = c
        /\ S!Forgets(d) \in HeldBy(d) => S!Forgets(d) \in HeldBy(d)' \/ d = c
    BY <1>7, <2>0, EntriesDiffer
  <2>4. S!Closes(c) \notin ToSet(finalizers'[Parent[c]])
    BY <1>2
  <2>5. UNCHANGED <<open, fork, closer>> /\ active' = active /\ open[c] = "exited"
    BY <1>0, <1>1
  <2>. QED BY <1>5, <2>1, <2>2, <2>3, <2>4, <2>5, ForkRemains
<1>10. (\A u \in S!User : LifeState(u)') /\ S!LastAddedFirst'
  <2>. SUFFICES ASSUME NEW u \in S!User, home[u] \in S!Scope, S!Uses(u) \in HeldBy(home[u])
                PROVE  S!Uses(u) \in HeldBy(home[u])'
    BY <1>0, <1>5, LivesRemain
  <2>. PICK t \in S!Scope : t = home[u] /\ t = home'[u]
    BY <1>0
  <2>1. S!Uses(u) \in HeldBy(t) => S!Uses(u) \in HeldBy(t)'
    BY <1>7, EntriesDiffer
  <2>. QED BY <2>1 DEF HeldBy
<1>. QED BY <1>4, <1>8, <1>9, <1>10 DEF ScopeInv

-----------------------------------------------------------------------------
(* A close is interrupted: all it reaches is cut short, and only that.          *)
Gone(s, u) == \E t \in S!Under(s) : S!Uses(u) \in ToSet(pending[t]) \cup active[t]

LEMMA WhoIsGone ==
  ASSUME ScopeInv, NEW s \in S!Scope, NEW u \in S!User, NEW t \in S!Under(s),
         S!Uses(u) \in ToSet(pending[t]) \cup active[t]
  PROVE  home[u] = t /\ life[u] \in {"added", "runs"} /\ open[t] = "exited" /\ finalizers[t] = <<>>
<1>1. t \in S!Scope /\ ScopeShape(t) /\ ScopePlaced(t)
  BY Reached DEF ScopeInv
<1>2. open[t] = "exited" /\ finalizers[t] = <<>>
  BY <1>1, Heads DEF ScopeShape
<1>3. home[u] = t /\ life[u] \in {"added", "runs"}
  BY <1>1 DEF ScopePlaced, Lined
<1>. QED BY <1>2, <1>3

LEMMA ScopeInterrupts == ASSUME ScopeInv, NEW s \in S!Scope, S!Interrupt(s) PROVE ScopeInv'
<1>0. /\ UNCHANGED <<open, fork, finalizers, closer, home>>
      /\ caller[s] = "closes" /\ caller' = [caller EXCEPT ![s] = "cut"]
      /\ pending' = [t \in S!Scope |-> IF t \in S!Under(s) THEN <<>> ELSE pending[t]]
      /\ active' = [t \in S!Scope |-> IF t \in S!Under(s) THEN {} ELSE active[t]]
      /\ life' = [u \in S!User |-> IF Gone(s, u) THEN "lost" ELSE life[u]]
      /\ S!TypeOK /\ \A t \in S!Scope : ScopeShape(t) /\ ScopePlaced(t)
      /\ \A d \in S!Child : ForkState(d)
      /\ \A v \in S!User : LifeState(v)
      /\ S!LastAddedFirst
  BY SameLines DEF S!Interrupt, ScopeInv, Gone
<1>1. /\ \A t \in S!Under(s) : t \in S!Scope /\ pending'[t] = <<>> /\ active'[t] = {}
      /\ \A t \in S!Scope \ S!Under(s) : pending'[t] = pending[t] /\ active'[t] = active[t]
      /\ caller'[s] = "cut" /\ \A t \in S!Scope \ {s} : caller'[t] = caller[t]
      /\ \A d \in S!Child : d \in S!Scope /\ Parent[d] \in S!Scope
  BY <1>0, Reached, ScopeAssumption DEF S!TypeOK, S!Scope, S!Child
<1>2. \A v \in S!User : life'[v] = IF Gone(s, v) THEN "lost" ELSE life[v]
  BY <1>0
<1>3. S!TypeOK'
  <2>1. pending' \in [S!Scope -> Seq(S!Entry)]
    BY <1>0 DEF S!TypeOK
  <2>2. active' \in [S!Scope -> SUBSET S!Entry]
    BY <1>0 DEF S!TypeOK
  <2>3. life' \in [S!User -> {"new", "added", "runs", "ran", "late", "ranLate", "lost"}]
    BY <1>0 DEF S!TypeOK
  <2>. QED BY <1>0, <2>1, <2>2, <2>3 DEF S!TypeOK
<1>4. Onward
  BY <1>0, <1>1 DEF Onward
<1>5. \A t \in S!Under(s) : S!CutShort(t)'
  <2>1. S!Under(s)' = S!Under(s)
    BY <1>0 DEF S!Under, S!WithThoseTheyClose
  <2>. QED BY <1>1, <2>1 DEF S!CutShort
<1>6. \A t \in S!Scope \ S!Under(s) : HeldBy(t)' = HeldBy(t) /\ Lined(t)' = Lined(t)
  BY <1>0, <1>1 DEF HeldBy, Lined
<1>7. \A v \in S!User : Gone(s, v) => life[v] \in {"added", "runs"} /\ home[v] \in S!Under(s) /\ open[home[v]] = "exited"
  BY WhoIsGone DEF Gone
<1>8. ASSUME NEW t \in S!Scope PROVE ScopeShape(t)' /\ ScopePlaced(t)'
  <2>1. CASE t \in S!Under(s)
    <3>1. Falls(<<>>)
      BY DEF Falls
    <3>2. ScopeShape(t)'
      BY <1>0, <1>1, <2>1, <3>1 DEF ScopeShape, S!Over
    <3>3. Lined(t)' = ToSet(finalizers[t])
      BY <1>0, <1>1, <2>1, Heads DEF Lined
    <3>4. \A v \in S!User : S!Uses(v) \in ToSet(finalizers[t]) => home[v] = t /\ life[v] = "added"
      BY <1>0 DEF ScopePlaced, Lined
    <3>5. \A v \in S!User : S!Uses(v) \in ToSet(finalizers[t]) => ~Gone(s, v)
      BY <3>4, WhoIsGone, Heads DEF Gone
    <3>6. \A d \in S!Child : S!Closes(d) \in ToSet(finalizers[t]) => Parent[d] = t
      BY <1>0 DEF ScopePlaced, Lined
    <3>7. ScopePlaced(t)'
      BY <1>0, <1>1, <1>2, <2>1, <3>3, <3>4, <3>5, <3>6 DEF ScopePlaced
    <3>. QED BY <3>2, <3>7
  <2>2. CASE t \notin S!Under(s)
    <3>1. t # s
      BY <2>2, Reached
    <3>2. ScopeShape(t)'
      BY <1>0, <1>1, <2>2, <3>1 DEF ScopeShape, S!Over
    <3>3. \A v \in S!User : home[v] = t => ~Gone(s, v)
      BY <1>7, <2>2
    <3>4. ScopePlaced(t)'
      BY <1>0, <1>1, <1>2, <1>6, <2>2, <3>3 DEF ScopePlaced
    <3>. QED BY <3>2, <3>4
  <2>. QED BY <2>1, <2>2
<1>9. ASSUME NEW d \in S!Child PROVE ForkState(d)'
  <2>0. ForkState(d) /\ d \in S!Scope /\ Parent[d] \in S!Scope
    BY <1>0, <1>1
  <2>1. closer[d] = "parent" /\ ~S!Over(d)' => S!Closes(d) \in active'[Parent[d]]
    <3>. SUFFICES ASSUME closer[d] = "parent", ~S!Over(d)' PROVE S!Closes(d) \in active'[Parent[d]]
      OBVIOUS
    <3>1. d \notin S!Under(s)
      BY <1>1 DEF S!Over
    <3>2. Parent[d] \notin S!Under(s)
      BY <3>1, Reached
    <3>3. ~S!Over(d)
      BY <1>1, <2>0, <3>1 DEF S!Over
    <3>. QED BY <1>1, <2>0, <3>2, <3>3 DEF ForkState
  <2>2. open[d] = "open" => S!Closes(d) \in HeldBy(Parent[d])' \/ S!CutShort(Parent[d])'
    <3>1. CASE Parent[d] \in S!Under(s)
      BY <1>5, <3>1
    <3>2. CASE Parent[d] \notin S!Under(s)
      <4>1. HeldBy(Parent[d])' = HeldBy(Parent[d]) /\ (S!CutShort(Parent[d]) => S!CutShort(Parent[d])')
        BY <1>4, <1>6, <2>0, <3>2, CutsRemain
      <4>. QED BY <2>0, <4>1 DEF ForkState
    <3>. QED BY <3>1, <3>2
  <2>3. fork[d] = "forked" /\ S!Closes(d) \in ToSet(finalizers[Parent[d]])
          => S!Forgets(d) \in HeldBy(d)' \/ S!CutShort(d)'
    <3>1. CASE d \in S!Under(s)
      BY <1>5, <3>1
    <3>2. CASE d \notin S!Under(s)
      <4>1. HeldBy(d)' = HeldBy(d) /\ (S!CutShort(d) => S!CutShort(d)')
        BY <1>4, <1>6, <2>0, <3>2, CutsRemain
      <4>. QED BY <2>0, <4>1 DEF ForkState
    <3>. QED BY <3>1, <3>2
  <2>. QED BY <1>0, <2>0, <2>1, <2>2, <2>3 DEF ForkState
<1>10. ASSUME NEW v \in S!User PROVE LifeState(v)'
  <2>1. CASE Gone(s, v)
    <3>. PICK t \in S!Under(s) : t = home[v] /\ t = home'[v]
      BY <1>0, <1>7, <2>1
    <3>1. life'[v] = "lost" /\ open'[t] = "exited" /\ S!CutShort(t)' /\ home[v] # "none"
      BY <1>0, <1>2, <1>5, <1>7, <2>1 DEF LifeState
    <3>2. (S!CutShort(t))' = (S!CutShort(home[v]))'
      BY DEF S!CutShort
    <3>. QED BY <1>0, <3>1, <3>2 DEF LifeState
  <2>2. CASE ~Gone(s, v)
    <3>1. life'[v] = life[v] /\ home'[v] = home[v]
      BY <1>0, <1>2, <2>2
    <3>2. life[v] = "new" => \A w \in S!User : w > v => life'[w] = "new"
      BY <1>0, <1>2, <1>7 DEF LifeState
    <3>3. ASSUME NEW t \in S!Scope, t = home[v]
          PROVE  /\ life[v] = "added" /\ S!Uses(v) \in HeldBy(t) => S!Uses(v) \in HeldBy(t)'
                 /\ S!Uses(v) \in active[t] => S!Uses(v) \in active'[t]
      <4>1. CASE t \in S!Under(s)
        <5>1. S!Uses(v) \notin ToSet(pending[t]) /\ S!Uses(v) \notin active[t]
          BY <2>2, <4>1 DEF Gone
        <5>. QED BY <1>0, <5>1 DEF HeldBy
      <4>2. CASE t \notin S!Under(s)
        BY <1>1, <1>6, <4>2
      <4>. QED BY <4>1, <4>2
    <3>. QED BY <1>4, <3>1, <3>2, <3>3, LifeRemains
  <2>. QED BY <2>1, <2>2
<1>11. S!LastAddedFirst'
  <2>. SUFFICES ASSUME NEW t \in S!Scope, NEW v \in S!User, NEW w \in S!User, Width[t] = 1, v < w,
                       S!Added(t, v)', S!Added(t, w)', life'[v] \in {"runs", "ran"}
                PROVE  life'[w] \in {"ran", "lost"}
    BY DEF S!LastAddedFirst
  <2>1. life[v] \in {"runs", "ran"} /\ S!Added(t, v)
    BY <1>0, <1>2 DEF S!Added
  <2>2. S!Added(t, w)
    BY <1>0, <1>2, <1>7 DEF S!Added
  <2>3. life[w] \in {"ran", "lost"}
    BY <1>0, <2>1, <2>2 DEF S!LastAddedFirst
  <2>. QED BY <1>2, <2>3
<1>. QED BY <1>3, <1>8, <1>9, <1>10, <1>11 DEF ScopeInv

-----------------------------------------------------------------------------
LEMMA ScopeStep == ScopeInv /\ S!Next => ScopeInv'
<1>. SUFFICES ASSUME ScopeInv, S!Next PROVE ScopeInv'
  OBVIOUS
<1>1. ASSUME NEW c \in S!Child, S!Link(c) \/ S!Register(c) PROVE ScopeInv'
  BY <1>1, ScopeLinks, ScopeRegisters
<1>2. ASSUME NEW u \in S!User, S!UserStep(u) PROVE ScopeInv'
  BY <1>2, ScopeAdds, ScopeEndsLate DEF S!UserStep
<1>3. ASSUME NEW s \in S!Scope, S!Close(s) \/ S!Interrupt(s) PROVE ScopeInv'
  BY <1>3, ScopeCloses, ScopeInterrupts
<1>4. ASSUME NEW s \in S!Scope, S!ReleaseStep(s) PROVE ScopeInv'
  <2>1. ASSUME NEW u \in S!User, S!BeginUser(s, u) \/ S!EndUser(s, u) PROVE ScopeInv'
    BY <2>1, ScopeBeginsUser, ScopeEndsUser
  <2>2. ASSUME NEW c \in S!Child, S!BeginClose(s, c) \/ S!EndClose(s, c) PROVE ScopeInv'
    BY <2>2, ScopePasses, ScopeClosesChild, ScopeEndsClose
  <2>3. ASSUME s \in S!Child, S!BeginForget(s) PROVE ScopeInv'
    BY <2>3, ScopeForgets
  <2>. QED BY <1>4, <2>1, <2>2, <2>3, ScopeReturns DEF S!ReleaseStep
<1>. QED BY <1>1, <1>2, <1>3, <1>4 DEF S!Next

LEMMA ScopeKept == ScopeInv /\ UNCHANGED scopes => ScopeInv'
<1>. SUFFICES ASSUME ScopeInv, UNCHANGED scopes PROVE ScopeInv'
  OBVIOUS
<1>1. UNCHANGED <<open, fork, finalizers, pending, active, closer, caller, home, life>>
  BY DEF scopes
<1>2. S!TypeOK'
  BY <1>1 DEF ScopeInv, S!TypeOK
<1>3. Onward
  BY <1>1 DEF Onward
<1>4. ASSUME NEW s \in S!Scope PROVE ScopeShape(s)' /\ ScopePlaced(s)'
  BY <1>1 DEF ScopeInv, ScopeShape, ScopePlaced, S!Over, Lined
<1>5. ASSUME NEW d \in S!Child PROVE ForkState(d)'
  <2>1. HeldBy(d)' = HeldBy(d) /\ HeldBy(Parent[d])' = HeldBy(Parent[d]) /\ S!Over(d)' = S!Over(d)
    BY <1>1 DEF HeldBy, S!Over
  <2>. QED BY <1>1, <1>3, <2>1, ForkRemains
<1>6. (\A u \in S!User : LifeState(u)') /\ S!LastAddedFirst'
  <2>1. \A u \in S!User : HeldBy(home[u])' = HeldBy(home[u])
    BY <1>1 DEF HeldBy
  <2>. QED BY <1>1, <1>3, <2>1, LivesRemain
<1>. QED BY <1>2, <1>4, <1>5, <1>6 DEF ScopeInv

LEMMA ScopeBegins == S!Init => ScopeInv
<1>. SUFFICES ASSUME S!Init PROVE ScopeInv
  OBVIOUS
<1>1. /\ open = [s \in S!Scope |-> IF s = "root" THEN "open" ELSE "none"]
      /\ fork = [c \in S!Child |-> "none"]
      /\ finalizers = [s \in S!Scope |-> <<>>] /\ pending = [s \in S!Scope |-> <<>>]
      /\ active = [s \in S!Scope |-> {}]
      /\ closer = [s \in S!Scope |-> "nobody"] /\ caller = [s \in S!Scope |-> "none"]
      /\ home = [u \in S!User |-> "none"] /\ life = [u \in S!User |-> "new"]
  BY DEF S!Init
<1>2. /\ "root" \notin S!Child /\ "root" \in S!Scope /\ \A s \in S!Scope : s # "root" => s \in S!Child
      /\ \A c \in S!Child : c \in S!Scope /\ Parent[c] \in S!Scope
  BY ScopeAssumption DEF S!Scope, S!Child
<1>3. S!TypeOK
  BY <1>1 DEF S!TypeOK
<1>4. ASSUME NEW s \in S!Scope PROVE ScopeShape(s) /\ ScopePlaced(s)
  <2>1. Lined(s) = {} /\ Rises(<<>>) /\ Falls(<<>>)
    BY <1>1, Heads DEF Lined, Rises, Falls
  <2>2. ScopeShape(s)
    BY <1>1, <1>2, <2>1 DEF ScopeShape
  <2>. QED BY <1>1, <2>1, <2>2 DEF ScopePlaced
<1>5. ASSUME NEW c \in S!Child PROVE ForkState(c)
  BY <1>1, <1>2 DEF ForkState
<1>6. (\A u \in S!User : LifeState(u)) /\ S!LastAddedFirst
  BY <1>1 DEF LifeState, S!LastAddedFirst
<1>. QED BY <1>3, <1>4, <1>5, <1>6 DEF ScopeInv

LEMMA ScopesEnd == ScopeInv => S!FinalizersRun
<1>. SUFFICES ASSUME ScopeInv PROVE S!FinalizersRun
  OBVIOUS
<1>0. /\ S!TypeOK /\ \A s \in S!Scope : ScopeShape(s) /\ ScopePlaced(s)
      /\ \A c \in S!Child : ForkState(c) /\ c \in S!Scope /\ Parent[c] \in S!Scope
      /\ \A u \in S!User : LifeState(u)
      /\ "none" \notin S!Scope
  BY ScopeAssumption DEF ScopeInv, S!Scope, S!Child
<1>1. S!NoneForgotten
  BY <1>0, SameLines DEF S!NoneForgotten, LifeState, HeldBy
<1>2. ASSUME NEW s \in S!Scope, open[s] = "exited", S!Over(s) PROVE HeldBy(s) = {} /\ active[s] = {}
  BY <1>2, Heads DEF HeldBy, S!Over
<1>3. S!ClosedIsOver
  <2>. SUFFICES ASSUME NEW s \in S!Scope, caller[s] = "returned", NEW t \in S!Under(s), NEW u \in S!User,
                       S!Added(t, u)
                PROVE  life[u] = "ran"
    BY DEF S!ClosedIsOver
  <2>. DEFINE group == {r \in S!Scope : open[r] = "exited" /\ S!Over(r)}
  <2>1. s \in group /\ closer[s] = "caller"
    BY <1>0 DEF ScopeShape
  <2>2. ASSUME NEW c \in S!Child, closer[c] = "parent", Parent[c] \in group PROVE c \in group
    <3>1. open[c] = "exited"
      BY <1>0, <2>2 DEF ScopeShape
    <3>2. S!Over(c)
      BY <1>0, <1>2, <2>2 DEF ForkState
    <3>. QED BY <1>0, <3>1, <3>2
  <2>3. t \in group
    <3>1. S!WithThoseTheyClose(group)
      BY <2>2 DEF S!WithThoseTheyClose
    <3>. QED BY <2>1, <3>1, Reached
  <2>4. HeldBy(t) = {} /\ active[t] = {} /\ home[u] = t /\ life[u] \notin {"late", "ranLate"}
    BY <1>2, <2>3 DEF S!Added
  <2>5. life[u] \notin {"new", "added", "runs"}
    BY <1>0, <2>3, <2>4 DEF LifeState
  <2>6. life[u] # "lost"
    <3>. SUFFICES ASSUME life[u] = "lost" PROVE FALSE
      OBVIOUS
    <3>1. S!CutShort(t)
      BY <1>0, <2>4 DEF LifeState
    <3>2. PICK r \in S!Scope : caller[r] = "cut" /\ t \in S!Under(r)
      BY <3>1 DEF S!CutShort
    <3>3. closer[r] = "caller" /\ r # s
      BY <1>0, <3>2 DEF ScopeShape
    <3>. QED BY <2>1, <3>2, <3>3, ReachApart
  <2>7. life[u] \in {"new", "added", "runs", "ran", "late", "ranLate", "lost"}
    BY <1>0 DEF S!TypeOK
  <2>. QED BY <2>4, <2>5, <2>6, <2>7
<1>4. S!ForksFollow
  <2>. SUFFICES ASSUME NEW c \in S!Child
                PROVE  /\ open[Parent[c]] = "exited" /\ S!Over(Parent[c]) /\ ~S!CutShort(Parent[c])
                            => open[c] # "open"
                       /\ open[c] = "exited" /\ fork[c] = "forked" /\ S!Over(c) /\ ~S!CutShort(c)
                            => S!Closes(c) \notin ToSet(finalizers[Parent[c]])
    BY SameLines DEF S!ForksFollow
  <2>1. ForkState(c) /\ c \in S!Scope /\ Parent[c] \in S!Scope
    BY <1>0
  <2>. QED BY <1>2, <2>1 DEF ForkState
<1>. QED BY <1>1, <1>3, <1>4 DEF ScopeInv, S!FinalizersRun

-----------------------------------------------------------------------------
(* Of references to values with resources.  Whoever holds the lock has, step by  *)
(* step, the old value's, none, or those of its own value; nobody else touches    *)
(* them but the finalizer of the reference, and that only closes.                *)
Live == {v \in R!Value : resources[v] = "open"} \ lost

HeldSo(s) ==
  /\ sets[s] = "reads" => /\ Live \subseteq {current}
                          /\ owner = "open" /\ ~broken => resources[current] = "open"
  /\ sets[s] \in {"makes", "fails"} => Live = {}
  /\ sets[s] \in {"acquires", "stores"} => /\ Live \subseteq {s}
                                           /\ owner = "open" => resources[s] = "open"
HeldFree ==
  lock = Nobody => /\ Live \subseteq {current}
                   /\ owner = "open" /\ ~broken => resources[current] = "open"
HeldLate ==
  /\ owner = "closes" => current = final \/ current \in late
  /\ owner = "closed" => current \in late \/ resources[current] # "open"
HeldBySetter(s) ==
  /\ lock = s <=> sets[s] \in {"reads", "makes", "acquires", "stores", "fails"}
  /\ current = s => sets[s] = "ended"

RefInv ==
  /\ R!TypeOK /\ HeldFree /\ HeldLate
  /\ \A s \in Caller : HeldBySetter(s) /\ HeldSo(s)

(* Who waits sees nothing of a step of the holder of the lock.                 *)
LEMMA OneHolder ==
  ASSUME RefInv, NEW s \in Caller, NEW t \in Caller, t # s, lock \in {s, Nobody}
  PROVE  sets[t] \notin {"reads", "makes", "acquires", "stores", "fails"}
BY CallerAssumption DEF RefInv, HeldBySetter

LEMMA RefLocks == ASSUME RefInv, NEW s \in Caller, R!Lock(s) PROVE RefInv'
<1>0. /\ UNCHANGED <<current, resources, owner, final, told, lost, late, broken>>
      /\ sets[s] = "begins" /\ lock = Nobody /\ lock' = s
      /\ sets' = [sets EXCEPT ![s] = "reads"]
      /\ R!TypeOK /\ HeldFree /\ HeldLate
      /\ \A t \in Caller : HeldBySetter(t) /\ HeldSo(t)
  BY DEF R!Lock, R!Goto, RefInv
<1>1. sets'[s] = "reads" /\ \A t \in Caller \ {s} : sets'[t] = sets[t]
  BY <1>0 DEF R!TypeOK
<1>2. R!TypeOK'
  BY <1>0 DEF R!TypeOK
<1>3. Live' = Live
  BY <1>0 DEF Live
<1>4. HeldFree' /\ HeldLate'
  BY <1>0, CallerAssumption DEF HeldFree, HeldLate
<1>5. ASSUME NEW t \in Caller PROVE HeldBySetter(t)' /\ HeldSo(t)'
  <2>1. CASE t = s
    BY <1>0, <1>1, <1>3, <2>1 DEF HeldBySetter, HeldSo, HeldFree
  <2>2. CASE t # s
    <3>1. sets'[t] \notin {"reads", "makes", "acquires", "stores", "fails"}
      BY <1>0, <1>1, <2>2, OneHolder
    <3>. QED BY <1>0, <1>1, <2>2, <3>1 DEF HeldBySetter, HeldSo
  <2>. QED BY <2>1, <2>2
<1>. QED BY <1>2, <1>4, <1>5 DEF RefInv

LEMMA RefCloses == ASSUME RefInv, NEW s \in Caller, R!CloseOld(s) PROVE RefInv'
<1>0. /\ UNCHANGED <<current, lock, owner, final, told, lost, late, broken>>
      /\ sets[s] = "reads" /\ resources' = [resources EXCEPT ![current] = "closed"]
      /\ sets' = [sets EXCEPT ![s] = "makes"]
      /\ R!TypeOK /\ HeldFree /\ HeldLate
      /\ \A t \in Caller : HeldBySetter(t) /\ HeldSo(t)
  BY DEF R!CloseOld, R!Closed, R!Goto, RefInv
<1>1. /\ sets'[s] = "makes" /\ \A t \in Caller \ {s} : sets'[t] = sets[t]
      /\ resources'[current] = "closed" /\ \A v \in R!Value \ {current} : resources'[v] = resources[v]
      /\ lock = s /\ lock # Nobody
  BY <1>0, CallerAssumption DEF R!TypeOK, HeldBySetter
<1>2. R!TypeOK'
  BY <1>0 DEF R!TypeOK
<1>3. Live' = {}
  BY <1>0, <1>1 DEF Live, HeldSo
<1>4. HeldFree' /\ HeldLate'
  BY <1>0, <1>1 DEF HeldFree, HeldLate
<1>5. ASSUME NEW t \in Caller PROVE HeldBySetter(t)' /\ HeldSo(t)'
  <2>1. CASE t = s
    BY <1>0, <1>1, <1>3, <2>1 DEF HeldBySetter, HeldSo
  <2>2. CASE t # s
    <3>1. sets'[t] \notin {"reads", "makes", "acquires", "stores", "fails"}
      BY <1>1, <2>2, OneHolder
    <3>. QED BY <1>0, <1>1, <2>2, <3>1 DEF HeldBySetter, HeldSo
  <2>. QED BY <2>1, <2>2
<1>. QED BY <1>2, <1>4, <1>5 DEF RefInv

LEMMA RefMakes == ASSUME RefInv, NEW s \in Caller, R!Make(s) PROVE RefInv'
<1>0. /\ UNCHANGED <<current, lock, owner, final, told, lost, late, broken>>
      /\ sets[s] = "makes" /\ resources' = [resources EXCEPT ![s] = "open"]
      /\ sets' = [sets EXCEPT ![s] = "acquires"]
      /\ R!TypeOK /\ HeldFree /\ HeldLate
      /\ \A t \in Caller : HeldBySetter(t) /\ HeldSo(t)
  BY DEF R!Make, R!Goto, RefInv
<1>1. /\ sets'[s] = "acquires" /\ \A t \in Caller \ {s} : sets'[t] = sets[t]
      /\ resources'[s] = "open" /\ \A v \in R!Value \ {s} : resources'[v] = resources[v]
      /\ lock = s /\ lock # Nobody /\ current # s
  BY <1>0, CallerAssumption DEF R!TypeOK, R!Value, HeldBySetter
<1>2. R!TypeOK'
  BY <1>0 DEF R!TypeOK
<1>3. Live' \subseteq {s}
  BY <1>0, <1>1 DEF Live, HeldSo
<1>4. HeldFree' /\ HeldLate'
  BY <1>0, <1>1 DEF HeldFree, HeldLate, R!TypeOK
<1>5. ASSUME NEW t \in Caller PROVE HeldBySetter(t)' /\ HeldSo(t)'
  <2>1. CASE t = s
    BY <1>0, <1>1, <1>3, <2>1 DEF HeldBySetter, HeldSo
  <2>2. CASE t # s
    <3>1. sets'[t] \notin {"reads", "makes", "acquires", "stores", "fails"}
      BY <1>1, <2>2, OneHolder
    <3>. QED BY <1>0, <1>1, <2>2, <3>1 DEF HeldBySetter, HeldSo
  <2>. QED BY <2>1, <2>2
<1>. QED BY <1>2, <1>4, <1>5 DEF RefInv

LEMMA RefAcquires == ASSUME RefInv, NEW s \in Caller, R!Acquire(s) PROVE RefInv'
<1>0. /\ UNCHANGED <<current, lock, owner, final, told, lost, late, broken>>
      /\ sets[s] = "acquires"
      /\ \/ sets' = [sets EXCEPT ![s] = "stores"] /\ resources' = resources
         \/ sets' = [sets EXCEPT ![s] = "fails"] /\ resources' = [resources EXCEPT ![s] = "closed"]
      /\ R!TypeOK /\ HeldFree /\ HeldLate
      /\ \A t \in Caller : HeldBySetter(t) /\ HeldSo(t)
  BY DEF R!Acquire, R!Goto, RefInv
<1>1. /\ \A t \in Caller \ {s} : sets'[t] = sets[t]
      /\ \A v \in R!Value \ {s} : resources'[v] = resources[v]
      /\ lock = s /\ lock # Nobody /\ current # s
      /\ \/ sets'[s] = "stores" /\ resources'[s] = resources[s]
         \/ sets'[s] = "fails" /\ resources'[s] = "closed"
  BY <1>0, CallerAssumption DEF R!TypeOK, R!Value, HeldBySetter
<1>2. R!TypeOK'
  BY <1>0 DEF R!TypeOK
<1>3. Live' \subseteq {s} /\ (resources'[s] = "closed" => Live' = {})
  BY <1>0, <1>1 DEF Live, HeldSo
<1>4. HeldFree' /\ HeldLate'
  BY <1>0, <1>1 DEF HeldFree, HeldLate, R!TypeOK
<1>5. ASSUME NEW t \in Caller PROVE HeldBySetter(t)' /\ HeldSo(t)'
  <2>1. CASE t = s
    BY <1>0, <1>1, <1>3, <2>1 DEF HeldBySetter, HeldSo
  <2>2. CASE t # s
    <3>1. sets'[t] \notin {"reads", "makes", "acquires", "stores", "fails"}
      BY <1>1, <2>2, OneHolder
    <3>. QED BY <1>0, <1>1, <2>2, <3>1 DEF HeldBySetter, HeldSo
  <2>. QED BY <2>1, <2>2
<1>. QED BY <1>2, <1>4, <1>5 DEF RefInv

LEMMA RefStores == ASSUME RefInv, NEW s \in Caller, R!Store(s) PROVE RefInv'
<1>0. /\ UNCHANGED <<resources, owner, final, told, lost>> /\ lock' = Nobody
      /\ \/ /\ sets[s] = "stores" /\ current' = s /\ broken' = FALSE
            /\ late' = (IF owner = "open" THEN late ELSE late \cup {s})
            /\ sets' = [sets EXCEPT ![s] = "ended"]
         \/ /\ sets[s] = "fails" /\ broken' = TRUE /\ current' = current /\ late' = late
            /\ sets' = [sets EXCEPT ![s] = "failed"]
      /\ R!TypeOK /\ HeldFree /\ HeldLate
      /\ \A t \in Caller : HeldBySetter(t) /\ HeldSo(t)
  BY DEF R!Store, R!Goto, RefInv
<1>1. /\ \A t \in Caller \ {s} : sets'[t] = sets[t]
      /\ lock = s /\ current # s
      /\ sets'[s] = IF sets[s] = "stores" THEN "ended" ELSE "failed"
  BY <1>0 DEF R!TypeOK, HeldBySetter
<1>2. R!TypeOK'
  BY <1>0 DEF R!TypeOK, R!Value, R!Ended
<1>3. Live' = Live
  BY <1>0 DEF Live
<1>4. HeldFree'
  BY <1>0, <1>3 DEF HeldFree, HeldSo
<1>5. HeldLate'
  BY <1>0 DEF HeldLate
<1>6. ASSUME NEW t \in Caller PROVE HeldBySetter(t)' /\ HeldSo(t)'
  <2>1. CASE t = s
    BY <1>0, <1>1, <2>1, CallerAssumption DEF HeldBySetter, HeldSo
  <2>2. CASE t # s
    <3>1. sets'[t] \notin {"reads", "makes", "acquires", "stores", "fails"}
      BY <1>1, <2>2, OneHolder
    <3>. QED BY <1>0, <1>1, <2>2, <3>1, CallerAssumption DEF HeldBySetter, HeldSo
  <2>. QED BY <2>1, <2>2
<1>. QED BY <1>2, <1>4, <1>5, <1>6 DEF RefInv

LEMMA RefStops == ASSUME RefInv, NEW s \in Caller, R!Stop(s) PROVE RefInv'
<1>0. /\ UNCHANGED <<current, resources, owner, final, told, late>>
      /\ sets[s] \in {"begins", "reads", "stores", "fails"}
      /\ sets' = [sets EXCEPT ![s] = "stopped"]
      /\ lock' = (IF lock = s THEN Nobody ELSE lock)
      /\ lost' = (IF sets[s] = "stores" THEN lost \cup {s} ELSE lost)
      /\ broken' = (broken \/ sets[s] \in {"stores", "fails"})
      /\ R!TypeOK /\ HeldFree /\ HeldLate
      /\ \A t \in Caller : HeldBySetter(t) /\ HeldSo(t)
  BY DEF R!Stop, R!Goto, RefInv
<1>1. /\ sets'[s] = "stopped" /\ \A t \in Caller \ {s} : sets'[t] = sets[t]
      /\ current # s /\ (lock = s <=> sets[s] # "begins") /\ s # Nobody
  BY <1>0, CallerAssumption DEF R!TypeOK, HeldBySetter
<1>2. R!TypeOK'
  BY <1>0 DEF R!TypeOK, R!Ended
<1>3. Live' = IF sets[s] = "stores" THEN Live \ {s} ELSE Live
  BY <1>0 DEF Live
<1>4. HeldFree'
  <2>1. CASE sets[s] = "begins"
    BY <1>0, <1>1, <1>3, <2>1 DEF HeldFree
  <2>2. CASE sets[s] # "begins"
    BY <1>0, <1>1, <1>3, <2>2 DEF HeldFree, HeldSo
  <2>. QED BY <2>1, <2>2
<1>5. HeldLate'
  BY <1>0 DEF HeldLate
<1>6. ASSUME NEW t \in Caller PROVE HeldBySetter(t)' /\ HeldSo(t)'
  <2>1. CASE t = s
    BY <1>0, <1>1, <2>1 DEF HeldBySetter, HeldSo
  <2>2. CASE t # s /\ lock = s
    <3>1. sets'[t] \notin {"reads", "makes", "acquires", "stores", "fails"}
      BY <1>1, <2>2, OneHolder
    <3>. QED BY <1>0, <1>1, <2>2, <3>1, CallerAssumption DEF HeldBySetter, HeldSo
  <2>3. CASE t # s /\ lock # s
    BY <1>0, <1>1, <1>3, <2>3 DEF HeldBySetter, HeldSo
  <2>. QED BY <2>1, <2>2, <2>3
<1>. QED BY <1>2, <1>4, <1>5, <1>6 DEF RefInv

LEMMA RefIsTold == ASSUME RefInv, NEW s \in Caller, R!Interrupt(s) PROVE RefInv'
<1>0. /\ UNCHANGED <<current, resources, lock, sets, owner, final, lost, late, broken>>
      /\ s \in Stoppable /\ told' = told \cup {s}
  BY DEF R!Interrupt
<1>1. R!TypeOK'
  BY <1>0 DEF RefInv, R!TypeOK
<1>2. Live' = Live
  BY <1>0 DEF Live
<1>3. HeldFree' /\ HeldLate'
  BY <1>0, <1>2 DEF RefInv, HeldFree, HeldLate
<1>4. ASSUME NEW t \in Caller PROVE HeldBySetter(t)' /\ HeldSo(t)'
  BY <1>0, <1>2 DEF RefInv, HeldBySetter, HeldSo
<1>. QED BY <1>1, <1>3, <1>4 DEF RefInv

(* The finalizer of the reference.                                             *)
LEMMA RefReads == ASSUME RefInv, R!ReadLast PROVE RefInv'
<1>0. /\ UNCHANGED <<current, resources, lock, sets, told, lost, late, broken>>
      /\ owner = "open" /\ owner' = "closes" /\ final' = current
  BY DEF R!ReadLast
<1>1. R!TypeOK'
  BY <1>0 DEF RefInv, R!TypeOK
<1>2. Live' = Live
  BY <1>0 DEF Live
<1>3. HeldFree' /\ HeldLate'
  BY <1>0, <1>2 DEF RefInv, HeldFree, HeldLate
<1>4. ASSUME NEW t \in Caller PROVE HeldBySetter(t)' /\ HeldSo(t)'
  BY <1>0, <1>2 DEF RefInv, HeldBySetter, HeldSo
<1>. QED BY <1>1, <1>3, <1>4 DEF RefInv

LEMMA RefEnds == ASSUME RefInv, R!CloseLast PROVE RefInv'
<1>0. /\ UNCHANGED <<current, lock, sets, final, told, lost, late, broken>>
      /\ owner = "closes" /\ owner' = "closed"
      /\ resources' = [resources EXCEPT ![final] = "closed"]
      /\ R!TypeOK /\ HeldFree /\ HeldLate
      /\ \A t \in Caller : HeldBySetter(t) /\ HeldSo(t)
  BY DEF R!CloseLast, RefInv
<1>1. /\ \A v \in R!Value \ {final} : resources'[v] = resources[v]
      /\ final \in R!Value => resources'[final] = "closed"
  BY <1>0 DEF R!TypeOK
<1>2. R!TypeOK'
  BY <1>0 DEF R!TypeOK
<1>3. Live' \subseteq Live
  BY <1>0, <1>1 DEF Live
<1>4. HeldFree' /\ HeldLate'
  BY <1>0, <1>1, <1>3 DEF HeldFree, HeldLate, R!TypeOK
<1>5. ASSUME NEW t \in Caller PROVE HeldBySetter(t)' /\ HeldSo(t)'
  BY <1>0, <1>3 DEF HeldBySetter, HeldSo
<1>. QED BY <1>2, <1>4, <1>5 DEF RefInv

-----------------------------------------------------------------------------
LEMMA RefStep == RefInv /\ R!Next => RefInv'
BY RefLocks, RefCloses, RefMakes, RefAcquires, RefStores, RefStops, RefIsTold, RefReads, RefEnds
   DEF R!Next, R!SetterStep

LEMMA RefKept == RefInv /\ UNCHANGED scoped => RefInv'
<1>. SUFFICES ASSUME RefInv, UNCHANGED scoped PROVE RefInv'
  OBVIOUS
<1>1. UNCHANGED <<current, resources, lock, sets, owner, final, told, lost, late, broken>>
  BY DEF scoped
<1>. QED BY <1>1 DEF RefInv, R!TypeOK, HeldFree, HeldLate, HeldBySetter, HeldSo, Live

LEMMA RefBegins == R!Init => RefInv
<1>. SUFFICES ASSUME R!Init PROVE RefInv
  OBVIOUS
<1>1. R!TypeOK
  BY DEF R!Init, R!TypeOK, R!Value
<1>2. Initial \in R!Value /\ Live \subseteq {Initial}
  BY DEF R!Init, Live, R!Value
<1>. QED BY <1>1, <1>2, CallerAssumption DEF R!Init, RefInv, HeldFree, HeldLate, HeldBySetter, HeldSo

LEMMA RefHeld == RefInv => R!RefIsHeld
<1>. SUFFICES ASSUME RefInv PROVE R!RefIsHeld
  OBVIOUS
<1>1. /\ R!TypeOK /\ HeldFree /\ HeldLate
      /\ \A t \in Caller : HeldBySetter(t) /\ HeldSo(t)
  BY DEF RefInv
<1>2. \E x : Live \subseteq {x}
  <2>1. CASE lock = Nobody
    BY <1>1, <2>1 DEF HeldFree
  <2>2. CASE lock # Nobody
    <3>1. lock \in Caller /\ sets[lock] \in {"reads", "makes", "acquires", "stores", "fails"}
      BY <1>1, <2>2 DEF R!TypeOK, HeldBySetter
    <3>. QED BY <1>1, <3>1 DEF HeldSo
  <2>. QED BY <2>1, <2>2
<1>3. R!OneHasResources
  <2>1. {v \in R!Value \ lost : resources[v] = "open"} = Live
    BY DEF Live
  <2>2. PICK x : Live \subseteq {x}
    BY <1>2
  <2>3. IsFiniteSet({x}) /\ Cardinality({x}) = 1
    BY FS_Singleton
  <2>4. Cardinality(Live) <= 1
    BY <2>2, <2>3, FS_Subset
  <2>5. \A y : R!Cardinality(y) = Cardinality(y)
    BY DEF R!Cardinality, Cardinality
  <2>. QED BY <2>1, <2>4, <2>5 DEF R!OneHasResources
<1>4. R!CurrentIsOpen
  BY <1>1 DEF HeldFree, R!CurrentIsOpen
<1>5. R!NothingLeft
  BY <1>1 DEF HeldFree, HeldLate, R!NothingLeft, Live
<1>. QED BY <1>3, <1>4, <1>5 DEF R!RefIsHeld

-----------------------------------------------------------------------------
(* A finalizer that was added is in its scope, or before whoever closes it, or    *)
(* it runs; in a sequential scope the last one that was added runs first; when a   *)
(* close returns the finalizers of all the scopes that it closed have run, none   *)
(* of them is open and none of them is left in its parent, however the forks and   *)
(* the closes of other fibers interleave, unless a close was interrupted; and a    *)
(* reference to values with resources has those of one value, until it is closed: *)
(* whatever the tree of the scopes, however many finalizers and setters there are. *)
THEOREM FinalizersAllRun == SharedSpec => []FinalizersRun
<1>. DEFINE Inv == /\ IF runs = "scopes" THEN ScopeInv ELSE ScopesRest
                   /\ RefInv
<1>1. SharedInit => Inv
  BY ScopeBegins, RefBegins DEF SharedInit
<1>2. Inv /\ [SharedNext]_shared => Inv'
  <2>. SUFFICES ASSUME Inv, [SharedNext]_shared PROVE Inv'
    OBVIOUS
  <2>1. runs' = runs
    BY DEF SharedNext, shared, InCache, InMemo, InScopes, InHandoff, InInput, InLimiter, Others,
           InScoped, InSubscription, InClock
  <2>2. \/ UNCHANGED scopes
        \/ runs = "scopes" /\ S!Next
    BY DEF SharedNext, shared, InCache, InMemo, InScopes, InHandoff, InInput, InLimiter, Others,
           InScoped, InSubscription, InClock
  <2>3. \/ UNCHANGED scoped
        \/ R!Next
    BY DEF SharedNext, shared, refs, InCache, InMemo, InScopes, InHandoff, InInput, InLimiter, Others,
           InScoped, InSubscription, InClock
  <2>4. IF runs' = "scopes" THEN ScopeInv' ELSE ScopesRest'
    <3>1. UNCHANGED scopes /\ ScopesRest => ScopesRest'
      BY DEF scopes, ScopesRest
    <3>. QED BY <2>1, <2>2, <3>1, ScopeStep, ScopeKept
  <2>5. RefInv'
    BY <2>3, RefStep, RefKept
  <2>. QED BY <2>4, <2>5
<1>3. Inv => FinalizersRun
  <2>1. ScopesRest => S!FinalizersRun
    <3>. SUFFICES ASSUME ScopesRest PROVE S!FinalizersRun
      OBVIOUS
    <3>1. \A c \in S!Child : c \in S!Scope /\ Parent[c] \in S!Scope
      BY ScopeAssumption DEF S!Scope, S!Child
    <3>2. S!NoneForgotten /\ S!LastAddedFirst /\ S!ClosedIsOver
      BY DEF ScopesRest, S!NoneForgotten, S!LastAddedFirst, S!ClosedIsOver, S!Added
    <3>3. S!ForksFollow
      BY <3>1, SameLines, Heads DEF ScopesRest, S!ForksFollow
    <3>. QED BY <3>2, <3>3 DEF S!FinalizersRun
  <2>. QED BY <2>1, ScopesEnd, RefHeld DEF FinalizersRun
<1>. QED BY <1>1, <1>2, <1>3, PTL DEF SharedSpec
=============================================================================
