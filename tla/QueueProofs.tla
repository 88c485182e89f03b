---------------------------- MODULE QueueProofs ----------------------------
(***************************************************************************)
(* What a queue promises, for any clients, programs, strategies and         *)
(* capacities: nobody waits in vain, the answers are true, and values leave *)
(* in the order in which they came in.                                     *)
(*                                                                         *)
(* None of the three is inductive.  A taker may stand beside a value while a *)
(* loop that will pair them is on the stack (LoopInv), and a loop may answer *)
(* whom it finds only because the lines are in order (LineInv) and hold     *)
(* those, and only those, who wait (WaitInv).  An answer is true because    *)
(* the values of an offer are always somewhere: with the client, in the     *)
(* line, in the queue or with a taker (AnswerInv).  And nothing is          *)
(* overtaken since each step appends to the stream of values, or takes some *)
(* out of it, and never brings in one that is there already (StreamInv).    *)
(***************************************************************************)
EXTENDS Queue, SequenceLemmas

(* The values a client offers.                                              *)
LEMMA ValuesType ==
  ASSUME TypeOK, NEW c \in Client
  PROVE  /\ Values(c) \in Seq(Value) /\ Len(Values(c)) = lo[c] /\ lo[c] \in Nat
         /\ \A k \in 1..lo[c] : Values(c)[k] = <<c, k>>
<1>1. lo[c] \in Nat
  BY DEF TypeOK
<1>2. \A k \in 1..lo[c] : <<c, k>> \in Value
  BY <1>1 DEF Value
<1>. QED BY <1>1, <1>2 DEF Values

(* A Deferred that is settled stays a Deferred, and only who is settled and  *)
(* was pending changes.                                                     *)
LEMMA SettleType ==
  ASSUME TypeOK, NEW S, NEW how \in {"done", "interrupted"}, Settle(S, how)
  PROVE  /\ deferred' \in [Client -> {"none", "pending", "done", "interrupted"}]
         /\ \A c \in Client :
              deferred'[c] = IF c \in S /\ deferred[c] = "pending" THEN how ELSE deferred[c]
BY DEF TypeOK, Settle

(* An offer to an open queue cuts its values in three: those given to       *)
(* takers, those that the backing queue accepts, and those left.            *)
Parted(c, told, given, kept, left) ==
  /\ told \in Seq(Client) /\ Len(told) = Len(given)
  /\ given \in Seq(Value) /\ kept \in Seq(Value) /\ left \in Seq(Value)
  /\ takers' \in Seq(Client) /\ takers = told \o takers'
  /\ Values(c) = given \o (kept \o left)
  /\ handed' = handed \o given
  /\ items' = items \o kept
  /\ rest' = [rest EXCEPT ![c] = left]
  /\ Settle(ToSet(told), "done")
  /\ told # <<>> => items = <<>>
  /\ items = <<>> => takers' = <<>> \/ (kept = <<>> /\ left = <<>>)
  /\ Len(kept) <= Room
  /\ calls' = IF kept = <<>> /\ left = <<>> THEN <<>> ELSE <<"complete">>
  /\ \A i \in 1..Len(left) : left[i] = <<c, lo[c] - Len(left) + i>>
  /\ pc' = [pc EXCEPT ![c] = IF left = <<>> THEN "accepted"
                             ELSE IF pc[c] = "unsafeOffer" \/ strategy = "dropping"
                             THEN "refused" ELSE "surplus"]

(* What an offer to an open queue does.                                      *)
LEMMA OfferParts ==
  ASSUME TypeOK, NEW c \in Client, Offer(c), ~isShutdown
  PROVE  \E told, given, kept, left : Parted(c, told, given, kept, left)
<1>. DEFINE direct == Direct(lo[c])
            others == After(Values(c), direct)
            fitting == Fitting(Len(others))
            surplus == After(others, fitting)
<1>1. /\ takers' = After(takers, direct)
      /\ handed' = handed \o First(Values(c), direct)
      /\ Settle(ToSet(First(takers, direct)), "done")
      /\ items' = items \o First(others, fitting)
      /\ rest' = [rest EXCEPT ![c] = surplus]
      /\ calls' = IF others = <<>> THEN <<>> ELSE <<"complete">>
      /\ pc' = [pc EXCEPT ![c] = IF surplus = <<>> THEN "accepted"
                                 ELSE IF pc[c] = "unsafeOffer" \/ strategy = "dropping"
                                 THEN "refused" ELSE "surplus"]
  BY DEF Offer, Goto
<1>2. /\ takers \in Seq(Client) /\ Len(takers) \in Nat /\ lo[c] \in Nat
      /\ items \in Seq(Value) /\ Len(items) \in Nat /\ capacity \in Nat /\ Room \in Nat
  BY CapacityAssumption DEF TypeOK, Room
<1>3. /\ direct \in 0..Len(takers) /\ direct \in 0..lo[c]
      /\ items # <<>> => direct = 0
      /\ items = <<>> => direct = Len(takers) \/ direct = lo[c]
  BY <1>2 DEF Direct, Least
<1>. HIDE DEF direct
<1>4. /\ Values(c) \in Seq(Value) /\ Len(Values(c)) = lo[c]
      /\ \A k \in 1..lo[c] : Values(c)[k] = <<c, k>>
  BY ValuesType
<1>5. /\ First(takers, direct) \in Seq(Client) /\ Len(First(takers, direct)) = direct
      /\ After(takers, direct) \in Seq(Client) /\ Len(After(takers, direct)) = Len(takers) - direct
      /\ First(takers, direct) \o After(takers, direct) = takers
  BY <1>2, <1>3, Cut, ZenonT(30) DEF First, After
<1>6. /\ First(Values(c), direct) \in Seq(Value) /\ Len(First(Values(c), direct)) = direct
      /\ others \in Seq(Value) /\ Len(others) = lo[c] - direct
      /\ \A k \in 1..(lo[c] - direct) : others[k] = Values(c)[direct + k]
      /\ First(Values(c), direct) \o others = Values(c)
  BY <1>3, <1>4, Cut, SMTT(30) DEF First, After
<1>. HIDE DEF others
<1>7. fitting \in 0..Len(others) /\ fitting <= Room /\ (fitting = Room \/ fitting = Len(others))
  BY <1>2, <1>6 DEF Fitting, Least
<1>. HIDE DEF fitting
<1>8. /\ First(others, fitting) \in Seq(Value) /\ Len(First(others, fitting)) = fitting
      /\ surplus \in Seq(Value) /\ Len(surplus) = Len(others) - fitting
      /\ \A k \in 1..(Len(others) - fitting) : surplus[k] = others[fitting + k]
      /\ First(others, fitting) \o surplus = others
  BY <1>6, <1>7, Cut DEF First, After
<1>. HIDE DEF surplus
<1>9. PICK told, given, kept, left :
        /\ told = First(takers, direct) /\ given = First(Values(c), direct)
        /\ kept = First(others, fitting) /\ left = surplus
  OBVIOUS
<1>10. told # <<>> => items = <<>>
  BY <1>3, <1>5, <1>9
<1>11. others = <<>> <=> kept = <<>> /\ left = <<>>
  <2>1. others = <<>> <=> Len(others) = 0
    BY <1>6
  <2>2. kept = <<>> <=> fitting = 0
    BY <1>8, <1>9
  <2>3. left = <<>> <=> Len(others) - fitting = 0
    BY <1>8, <1>9
  <2>. QED BY <1>6, <1>7, <2>1, <2>2, <2>3
<1>12. items = <<>> => takers' = <<>> \/ (kept = <<>> /\ left = <<>>)
  <2>1. ASSUME direct = Len(takers) PROVE takers' = <<>>
    BY <1>1, <1>2, <1>5, <2>1
  <2>2. ASSUME direct = lo[c] PROVE others = <<>>
    BY <1>2, <1>6, <2>2
  <2>. QED BY <1>3, <1>11, <2>1, <2>2
<1>13. ASSUME NEW i \in 1..Len(left) PROVE left[i] = <<c, lo[c] - Len(left) + i>>
  <2>0. \E l, m, d, f, n \in Nat :
          /\ l = Len(left) /\ m = Len(others) /\ d = direct /\ f = fitting /\ n = lo[c]
          /\ l = m - f /\ m = n - d
    BY <1>2, <1>3, <1>6, <1>7, <1>8, <1>9, SMTT(30)
  <2>1. i \in 1..(Len(others) - fitting) /\ fitting + i \in 1..(lo[c] - direct)
        /\ direct + (fitting + i) \in 1..lo[c]
        /\ direct + (fitting + i) = lo[c] - Len(left) + i
    BY <2>0
  <2>2. left[i] = others[fitting + i] /\ others[fitting + i] = Values(c)[direct + (fitting + i)]
    BY <1>6, <1>8, <1>9, <2>1
  <2>. QED BY <1>4, <2>1, <2>2
<1>14. Parted(c, told, given, kept, left)
  <2>1. told \in Seq(Client) /\ Len(told) = Len(given) /\ given \in Seq(Value)
        /\ kept \in Seq(Value) /\ left \in Seq(Value) /\ Len(kept) <= Room
    BY <1>5, <1>6, <1>7, <1>8, <1>9
  <2>2. takers' \in Seq(Client) /\ takers = told \o takers'
    BY <1>1, <1>5, <1>9
  <2>3. Values(c) = given \o (kept \o left)
    BY <1>6, <1>8, <1>9
  <2>4. /\ handed' = handed \o given /\ items' = items \o kept
        /\ rest' = [rest EXCEPT ![c] = left] /\ Settle(ToSet(told), "done")
    BY <1>1, <1>9
  <2>5. calls' = IF kept = <<>> /\ left = <<>> THEN <<>> ELSE <<"complete">>
    BY <1>1, <1>11
  <2>6. pc' = [pc EXCEPT ![c] = IF left = <<>> THEN "accepted"
                                ELSE IF pc[c] = "unsafeOffer" \/ strategy = "dropping"
                                THEN "refused" ELSE "surplus"]
    BY <1>1, <1>9
  <2>. QED BY <1>10, <1>12, <1>13, <2>1, <2>2, <2>3, <2>4, <2>5, <2>6 DEF Parted
<1>. QED BY <1>14

-----------------------------------------------------------------------------
(* While a loop is on the stack it may still find takers with values to      *)
(* give, or putters with room; otherwise there are none.                    *)
LoopInv ==
  /\ "complete" \in ToSet(calls) \/ (takers # <<>> => items = <<>> /\ putters = <<>>)
  /\ "space" \in ToSet(calls) \/ (putters # <<>> => Room = 0)

(* The two lines: a taker is there once, a putter's values are there in      *)
(* their order, and only a queue with back pressure has putters.            *)
LineInv ==
  /\ IsInjective(takers)
  /\ \A v \in ToSet(putters) : rest[v[1]] # <<>>
  /\ \A i, j \in 1..Len(putters) : i < j /\ putters[i][1] = putters[j][1] => ~IsLast(putters[i])
  /\ strategy # "backPressure" => putters = <<>>

(* A client and the lines: who waits for a Deferred is there, as a taker or  *)
(* with the last of its values, and whoever is there has not been answered. *)
WaitOf(c) ==
  /\ pc[c] = "waiting" /\ deferred[c] = "pending" /\ ~isShutdown =>
       c \in ToSet(takers) \/ <<c, lo[c]>> \in ToSet(putters)
  /\ Listed(c) => pc[c] \in {"waiting", "cancelling"} /\ deferred[c] # "done"
  /\ c \in ToSet(takers) => rest[c] = <<>>
  /\ pc[c] \in {"hook", "freeingTakers"} => isShutdown
  /\ pc[c] \in {"taking", "between", "polling", "joining"} => rest[c] = <<>>
  /\ pc[c] = "surplus" =>
       /\ rest[c] # <<>>
       /\ \A i \in 1..Len(rest[c]) : rest[c][i] = <<c, lo[c] - Len(rest[c]) + i>>

WaitInv == \A c \in Client : WaitOf(c)

USE DEF kind, buffers, closing, bounds

(* A sliding queue keeps the last values of the queue and of the surplus.    *)
LEMMA SlideParts ==
  ASSUME TypeOK, NEW c \in Client, WaitOf(c), Slide(c)
  PROVE  /\ items' \in Seq(Value) /\ Len(items') <= capacity
         /\ \E n \in 0..Len(items \o rest[c]) : items' = After(items \o rest[c], n)
<1>. DEFINE all == items \o rest[c]
            kept == IF items = <<>> THEN Least(1, capacity) ELSE Len(items)
<1>1. /\ items \in Seq(Value) /\ rest[c] \in Seq(Value) /\ rest[c] # <<>>
      /\ Len(items) <= capacity /\ capacity \in Nat /\ Len(items) \in Nat
  BY CapacityAssumption DEF TypeOK, WaitOf, Slide, At
<1>2. all \in Seq(Value) /\ Len(all) = Len(items) + Len(rest[c]) /\ Len(rest[c]) >= 1
      /\ Len(rest[c]) \in Nat
  BY <1>1, ConcatProperties
<1>3. items' = After(all, Len(all) - kept)
  BY DEF Slide
<1>4. items = <<>> => Len(items) = 0
  OBVIOUS
<1>. HIDE DEF all
<1>5. kept \in 0..Len(all) /\ kept <= capacity
  BY <1>1, <1>2, <1>4 DEF Least
<1>. HIDE DEF kept
<1>6. Len(all) - kept \in 0..Len(all) /\ Len(all) - (Len(all) - kept) = kept
  BY <1>2, <1>5
<1>7. After(all, Len(all) - kept) \in Seq(Value)
      /\ Len(After(all, Len(all) - kept)) = Len(all) - (Len(all) - kept)
  BY <1>2, <1>6, Cut DEF After
<1>. QED BY <1>3, <1>5, <1>6, <1>7 DEF all

(* Initially the types are right.                                            *)
LEMMA TypeInit == Init => TypeOK
<1>. SUFFICES ASSUME Init PROVE TypeOK
  OBVIOUS
<1>1. PICK program \in [Client -> UNION {Program[c] : c \in Client}] :
        /\ \A c \in Client : program[c] \in Program[c]
        /\ pc = [c \in Client |-> program[c][1]]
        /\ lo = [c \in Client |-> program[c][2]]
        /\ hi = [c \in Client |-> program[c][3]]
  BY DEF Init
<1>2. \A c \in Client : program[c] \in Operation \X Nat \X Nat
  BY <1>1, ProgramAssumption
<1>3. pc \in [Client -> Label] /\ lo \in [Client -> Nat] /\ hi \in [Client -> Nat]
  BY <1>1, <1>2 DEF Label
<1>4. capacity \in Nat /\ strategy \in Strategy /\ capacity \in Capacity
  BY CapacityAssumption DEF Init
<1>5. items = <<>> /\ putters = <<>> /\ takers = <<>> /\ handed = <<>> /\ calls = <<>>
  BY DEF Init
<1>6. /\ items \in Seq(Value) /\ Len(items) <= capacity /\ putters \in Seq(Value)
      /\ takers \in Seq(Client) /\ handed \in Seq(Value) /\ calls \in Seq({"complete", "space"})
  BY <1>4, <1>5
<1>7. /\ rest \in [Client -> Seq(Value)] /\ polled \in [Client -> Seq(Client)]
      /\ deferred \in [Client -> {"none", "pending", "done", "interrupted"}]
      /\ interrupted \in [Client -> BOOLEAN] /\ isShutdown \in BOOLEAN /\ hook \in BOOLEAN
  <2>1. <<>> \in Seq(Value) /\ <<>> \in Seq(Client)
    OBVIOUS
  <2>2. /\ rest = [c \in Client |-> <<>>] /\ polled = [c \in Client |-> <<>>]
        /\ deferred = [c \in Client |-> "none"] /\ interrupted = [c \in Client |-> FALSE]
        /\ isShutdown = FALSE /\ hook = FALSE
    BY DEF Init
  <2>. QED BY <2>1, <2>2
<1>. QED BY <1>3, <1>4, <1>6, <1>7 DEF TypeOK

(* The loops keep the types.                                                 *)
LEMMA TypeLoop ==
  ASSUME TypeOK, Loop
  PROVE  TypeOK'
<1>1. /\ calls # <<>> /\ calls \in Seq({"complete", "space"})
      /\ items \in Seq(Value) /\ putters \in Seq(Value) /\ takers \in Seq(Client)
      /\ handed \in Seq(Value) /\ Len(items) <= capacity /\ capacity \in Nat
  BY CapacityAssumption DEF Loop, Idle, TypeOK
<1>2. UNCHANGED <<kind, closing, pc, bounds, interrupted>>
  BY DEF Loop
<1>3. /\ calls' \in Seq({"complete", "space"}) /\ items' \in Seq(Value) /\ Len(items') <= capacity
      /\ putters' \in Seq(Value) /\ takers' \in Seq(Client) /\ handed' \in Seq(Value)
      /\ deferred' \in [Client -> {"none", "pending", "done", "interrupted"}]
  <2>1. CASE HandOver
    BY <1>1, <2>1, SettleType DEF HandOver
  <2>2. CASE Pair
    BY <1>1, <2>2, SettleType, SMTT(30) DEF Pair, TypeOK
  <2>3. CASE Refill
    BY <1>1, <2>3, SettleType DEF Refill, Room
  <2>4. CASE Return
    BY <1>1, <2>4 DEF Return, TypeOK
  <2>. QED BY <2>1, <2>2, <2>3, <2>4 DEF Loop
<1>. QED BY <1>2, <1>3 DEF TypeOK

(* Every step keeps the types.                                               *)
LEMMA TypeStep ==
  ASSUME TypeOK, NEW c \in Client, WaitOf(c), Step(c) \/ Interrupt(c)
  PROVE  TypeOK'
<1>1. /\ items \in Seq(Value) /\ putters \in Seq(Value) /\ takers \in Seq(Client)
      /\ handed \in Seq(Value) /\ Len(items) <= capacity /\ capacity \in Nat
      /\ Len(items) \in Nat /\ rest[c] \in Seq(Value) /\ polled[c] \in Seq(Client)
      /\ <<>> \in Seq(Value) /\ <<>> \in Seq(Client) /\ <<>> \in Seq({"complete", "space"})
      /\ lo[c] \in Nat /\ hi[c] \in Nat
  BY CapacityAssumption DEF TypeOK
<1>2. /\ <<"complete">> \in Seq({"complete", "space"})
      /\ <<"space">> \in Seq({"complete", "space"})
      /\ <<"space", "complete">> \in Seq({"complete", "space"})
  OBVIOUS
<1>3. ASSUME NEW label \in Label, Goto(c, label) PROVE pc' \in [Client -> Label]
  BY <1>3 DEF Goto, TypeOK
<1>4. ASSUME NEW n \in Nat, NEW next \in Label, Got(c, n, next)
      PROVE  /\ pc' \in [Client -> Label]
             /\ lo' \in [Client -> Nat] /\ hi' \in [Client -> Nat]
  <2>1. "taken" \in Label
    BY DEF Label
  <2>. QED BY <1>4, <2>1 DEF Got, Goto, TypeOK
<1>5. CASE Offer(c)
  <2>1. CASE isShutdown
    BY <1>5, <2>1 DEF Offer, Goto, Label, TypeOK
  <2>2. CASE ~isShutdown
    <3>1. PICK told, given, kept, left : Parted(c, told, given, kept, left)
      BY <1>5, <2>2, OfferParts
    <3>2. UNCHANGED <<putters, kind, closing, lo, hi, interrupted>>
      BY <1>5, <2>2 DEF Offer
    <3>3. /\ given \in Seq(Value) /\ kept \in Seq(Value) /\ left \in Seq(Value)
          /\ takers' \in Seq(Client) /\ handed' = handed \o given /\ items' = items \o kept
          /\ rest' = [rest EXCEPT ![c] = left] /\ Settle(ToSet(told), "done")
          /\ Len(kept) <= Room /\ calls' \in {<<>>, <<"complete">>}
          /\ \E label \in {"accepted", "refused", "surplus"} : pc' = [pc EXCEPT ![c] = label]
      BY <3>1 DEF Parted
    <3>4. Len(items') = Len(items) + Len(kept) /\ items' \in Seq(Value) /\ handed' \in Seq(Value)
      BY <1>1, <3>3, ConcatProperties
    <3>5. Len(items') <= capacity
      <4>1. Len(kept) <= capacity - Len(items) /\ Len(kept) \in Nat
        BY <3>3 DEF Room
      <4>. QED BY <1>1, <3>4, <4>1
    <3>6. pc' \in [Client -> Label] /\ rest' \in [Client -> Seq(Value)]
      BY <3>3 DEF TypeOK, Label
    <3>7. deferred' \in [Client -> {"none", "pending", "done", "interrupted"}]
      BY <3>3, SettleType
    <3>. QED BY <1>1, <1>2, <3>2, <3>3, <3>4, <3>5, <3>6, <3>7 DEF TypeOK
  <2>. QED BY <2>1, <2>2
<1>6. CASE Slide(c)
  <2>1. items' \in Seq(Value) /\ Len(items') <= capacity
    BY <1>6, SlideParts
  <2>. QED BY <1>2, <1>6, <2>1 DEF Slide, Goto, Label, TypeOK
<1>7. CASE Suspend(c)
  <2>1. putters' \in Seq(Value)
    BY <1>1, <1>7, ConcatProperties DEF Suspend
  <2>2. pc' \in [Client -> Label]
    BY <1>7 DEF Suspend, StopOrWait, Goto, Label, TypeOK
  <2>. QED BY <1>2, <1>7, <2>1, <2>2 DEF Suspend, LookAgain, TypeOK
<1>8. CASE Take(c)
  <2>1. CASE isShutdown \/ items = <<>>
    BY <1>8, <2>1 DEF Take, Goto, Label, TypeOK
  <2>2. CASE ~(isShutdown \/ items = <<>>)
    <3>1. "between" \in Label
      BY DEF Label, Operation
    <3>2. /\ pc' \in [Client -> Label]
          /\ lo' \in [Client -> Nat] /\ hi' \in [Client -> Nat]
      BY <1>4, <1>8, <2>2, <3>1 DEF Take
    <3>3. /\ items' \in Seq(Value) /\ Len(items') <= capacity /\ handed' \in Seq(Value)
          /\ calls' = <<"space">>
      <4>1. /\ items # <<>> /\ items' = Tail(items) /\ handed' = Append(handed, Head(items))
            /\ calls' = <<"space">>
        BY <1>8, <2>2 DEF Take
      <4>2. Head(items) \in Value /\ Tail(items) \in Seq(Value) /\ Len(Tail(items)) = Len(items) - 1
        BY <1>1, <4>1
      <4>. QED BY <1>1, <4>1, <4>2
    <3>. QED BY <1>2, <1>8, <3>2, <3>3 DEF Take, TypeOK
  <2>. QED BY <2>1, <2>2
<1>9. CASE Join(c)
  <2>1. pc' \in [Client -> Label]
    BY <1>9 DEF Join, StopOrWait, Goto, Label, TypeOK
  <2>2. takers' \in Seq(Client)
    BY <1>1, <1>9 DEF Join
  <2>. QED BY <1>2, <1>9, <2>1, <2>2 DEF Join, TypeOK
<1>10. CASE TakeBetween(c)
  BY <1>10 DEF TakeBetween, Goto, Label, TypeOK
<1>11. CASE Poll(c)
  <2>1. PICK n \in 0..Len(items) : /\ handed' = handed \o First(items, n)
                                   /\ items' = After(items, n)
                                   /\ Got(c, n, "taking")
    <3>1. Least(hi[c], Len(items)) \in 0..Len(items)
      BY <1>1 DEF Least
    <3>. QED BY <1>11, <3>1 DEF Poll, PollUpTo
  <2>2. /\ First(items, n) \in Seq(Value) /\ After(items, n) \in Seq(Value)
        /\ Len(After(items, n)) = Len(items) - n
    BY <1>1, Cut DEF First, After
  <2>3. items' \in Seq(Value) /\ handed' \in Seq(Value) /\ Len(items') <= capacity
    BY <1>1, <2>1, <2>2, ConcatProperties
  <2>4. "taking" \in Label /\ n \in Nat
    BY DEF Label, Operation
  <2>5. /\ pc' \in [Client -> Label]
        /\ lo' \in [Client -> Nat] /\ hi' \in [Client -> Nat]
    BY <1>4, <2>1, <2>4
  <2>. QED BY <1>2, <1>11, <2>3, <2>5 DEF Poll, TypeOK
<1>12. CASE Resume(c)
  <2>1. "between" \in Label /\ "cancelling" \in Label /\ "accepted" \in Label
    BY DEF Label, Operation
  <2>2. /\ pc' \in [Client -> Label]
        /\ lo' \in [Client -> Nat] /\ hi' \in [Client -> Nat]
    <3>1. CASE UNCHANGED <<lo, hi>>
      BY <1>3, <1>4, <1>12, <2>1, <3>1 DEF Resume, TypeOK
    <3>2. CASE Got(c, 1, "between")
      BY <1>4, <2>1, <3>2
    <3>. QED BY <1>12, <3>1, <3>2 DEF Resume
  <2>. QED BY <1>12, <2>2 DEF Resume, TypeOK
<1>13. CASE Stop(c)
  <2>1. pc' \in [Client -> Label]
    BY <1>13 DEF Stop, Goto, Label, TypeOK
  <2>. QED BY <1>13, <2>1 DEF Stop, TypeOK
<1>14. CASE Cancel(c)
  <2>1. takers' \in Seq(Client) /\ putters' \in Seq(Value)
    BY <1>1, <1>14, KeepMembers DEF Cancel, RemoveTaker
  <2>2. pc' \in [Client -> Label]
    BY <1>14 DEF Cancel, Goto, Label, TypeOK
  <2>. QED BY <1>14, <2>1, <2>2 DEF Cancel, TypeOK
<1>15. CASE Shutdown(c) \/ CompleteHook(c)
  <2>1. pc' \in [Client -> Label]
    BY <1>15 DEF Shutdown, CompleteHook, Goto, Label, TypeOK
  <2>. QED BY <1>1, <1>15, <2>1 DEF Shutdown, CompleteHook, TypeOK
<1>16. CASE Free(c)
  <2>1. PICK i \in 1..Len(polled[c]) : /\ polled' = [polled EXCEPT ![c] = RemoveAt(@, i)]
                                       /\ Settle({polled[c][i]}, "interrupted")
    <3>1. DOMAIN polled[c] = 1..Len(polled[c])
      BY <1>1
    <3>. QED BY <1>16, <3>1 DEF Free
  <2>2. RemoveAt(polled[c], i) \in Seq(Client)
    BY <1>1, RemoveOne
  <2>3. polled' \in [Client -> Seq(Client)]
    BY <2>1, <2>2 DEF TypeOK
  <2>4. deferred' \in [Client -> {"none", "pending", "done", "interrupted"}]
    BY <2>1, SettleType
  <2>. QED BY <1>16, <2>3, <2>4 DEF Free, TypeOK
<1>17. CASE ShutdownStrategy(c)
  <2>. DEFINE last == Keep(putters, {v \in Value : IsLast(v)})
  <2>1. last \in Seq(Value)
    BY <1>1, KeepMembers
  <2>. HIDE DEF last
  <2>2. [i \in DOMAIN last |-> last[i][1]] \in Seq(Client)
    <3>1. Len(last) \in Nat /\ DOMAIN last = 1..Len(last)
          /\ \A i \in 1..Len(last) : last[i][1] \in Client
      BY <2>1 DEF Value
    <3>. QED BY <3>1
  <2>3. polled' = [polled EXCEPT ![c] = [i \in DOMAIN last |-> last[i][1]]]
    BY <1>17 DEF ShutdownStrategy, last
  <2>4. polled' \in [Client -> Seq(Client)]
    BY <2>2, <2>3 DEF TypeOK
  <2>5. pc' \in [Client -> Label]
    BY <1>17 DEF ShutdownStrategy, Goto, Label, TypeOK
  <2>. QED BY <1>1, <1>17, <2>4, <2>5 DEF ShutdownStrategy, TypeOK
<1>18. CASE Closed(c)
  BY <1>18 DEF Closed, Goto, Label, TypeOK
<1>19. CASE Interrupt(c)
  BY <1>19 DEF Interrupt, TypeOK
<1>. QED BY <1>5, <1>6, <1>7, <1>8, <1>9, <1>10, <1>11, <1>12, <1>13, <1>14, <1>15, <1>16,
            <1>17, <1>18, <1>19 DEF Step

-----------------------------------------------------------------------------
(* The loops leave neither of the two things they look for, and an operation *)
(* that may have made one possible puts its loop on the stack.               *)
LEMMA LoopNext ==
  ASSUME TypeOK, LoopInv, LineInv, [Next]_vars
  PROVE  LoopInv'
<1>1. /\ calls \in Seq({"complete", "space"}) /\ takers \in Seq(Client) /\ putters \in Seq(Value)
      /\ items \in Seq(Value) /\ Len(items) <= capacity /\ capacity \in Nat /\ Len(items) \in Nat
  BY CapacityAssumption DEF TypeOK
<1>2. /\ calls # <<>> => ToSet(calls) = {Head(calls)} \cup ToSet(Tail(calls))
      /\ ToSet(<<"complete">> \o calls) = {"complete"} \cup ToSet(calls)
      /\ ToSet(<<"space">> \o calls) = {"space"} \cup ToSet(calls)
  <2>1. PICK S : S = {"complete", "space"}
    OBVIOUS
  <2>2. calls \in Seq(S)
    BY <1>1, <2>1
  <2>3. calls # <<>> => ToSet(calls) = {Head(calls)} \cup ToSet(Tail(calls))
    BY <2>2, HeadAndTail
  <2>4. ASSUME NEW x \in S PROVE ToSet(<<x>> \o calls) = {x} \cup ToSet(calls)
    <3>1. PICK a : a = <<x>>
      OBVIOUS
    <3>2. a \in Seq(S) /\ ToSet(a) = {x}
      BY <3>1, Heads
    <3>. QED BY <2>2, <3>1, <3>2, Union, ZenonT(30)
  <2>. QED BY <2>1, <2>3, <2>4
<1>3. ASSUME Idle
      PROVE  /\ takers # <<>> => items = <<>> /\ putters = <<>>
             /\ putters # <<>> => Room = 0
  BY <1>3, Heads DEF Idle, LoopInv
<1>4. CASE Loop
  <2>1. CASE HandOver
    <3>1. ToSet(calls') = {"space"} \cup ToSet(calls) /\ Head(calls) = "complete"
      BY <1>2, <1>4, <2>1 DEF Loop, HandOver, Refill, Return
    <3>. QED BY <1>2, <1>4, <2>1, <3>1 DEF Loop, LoopInv, Idle
  <2>2. CASE Pair
    BY <1>1, <1>2, <1>4, <2>2 DEF Loop, LoopInv, Idle, Pair, Room, Refill, Return
  <2>3. CASE Refill
    <3>1. ToSet(calls') = {"complete"} \cup ToSet(calls)
      BY <1>2, <2>3 DEF Refill
    <3>. QED BY <2>3, <3>1 DEF LoopInv, Refill
  <2>4. CASE Return
    <3>1. calls' = Tail(calls) /\ UNCHANGED <<items, takers, putters, capacity>> /\ calls # <<>>
      BY <1>4, <2>4 DEF Loop, Return, Idle
    <3>2. Head(calls) = "complete" => CompleteDone
      BY <1>4, <2>4 DEF Loop, HandOver, Pair, Refill, Return
    <3>3. Head(calls) = "space" => SpaceDone
      BY <1>4, <2>4 DEF Loop, HandOver, Pair, Refill, Return
    <3>. QED BY <1>2, <3>1, <3>2, <3>3 DEF LoopInv, CompleteDone, SpaceDone, Room
  <2>. QED BY <1>4, <2>1, <2>2, <2>3, <2>4 DEF Loop
<1>5. ASSUME NEW c \in Client, Step(c) \/ Interrupt(c) PROVE LoopInv'
  <2>1. CASE Offer(c)
    <3>1. CASE isShutdown
      BY <2>1, <3>1 DEF Offer, LoopInv, Room
    <3>2. CASE ~isShutdown
      <4>1. PICK told, given, kept, left : Parted(c, told, given, kept, left)
        BY <2>1, <3>2, OfferParts
      <4>2. Idle /\ putters' = putters /\ capacity' = capacity
        BY <2>1, <3>2 DEF Offer, At
      <4>3. /\ told \in Seq(Client) /\ kept \in Seq(Value) /\ Len(kept) <= Room
            /\ takers = told \o takers' /\ items' = items \o kept /\ takers' \in Seq(Client)
            /\ told # <<>> => items = <<>>
            /\ calls' = IF kept = <<>> /\ left = <<>> THEN <<>> ELSE <<"complete">>
        BY <4>1 DEF Parted
      <4>4. putters # <<>> => items' = items
        <5>1. SUFFICES ASSUME putters # <<>> PROVE kept = <<>>
          BY <1>1, <4>3
        <5>2. Room = 0 /\ Len(kept) = 0
          BY <1>3, <4>2, <4>3, <5>1
        <5>. QED BY <4>3, <5>2
      <4>5. ASSUME calls' = <<>>, takers' # <<>> PROVE items' = <<>> /\ putters = <<>>
        <5>1. takers # <<>>
          BY <4>3, <4>5
        <5>2. items = <<>> /\ putters = <<>> /\ kept = <<>>
          BY <1>3, <4>2, <4>3, <4>5, <5>1
        <5>. QED BY <4>3, <5>2
      <4>6. calls' = <<>> \/ "complete" \in ToSet(calls')
        BY <4>3, Heads
      <4>7. putters' # <<>> => Room' = 0
        BY <1>3, <4>2, <4>4 DEF Room
      <4>. QED BY <4>2, <4>5, <4>6, <4>7 DEF LoopInv
    <3>. QED BY <3>1, <3>2
  <2>2. CASE Slide(c)
    <3>1. putters' = <<>> /\ "complete" \in ToSet(calls')
      BY <2>2, Heads DEF Slide, LineInv
    <3>. QED BY <3>1 DEF LoopInv
  <2>3. CASE Suspend(c)
    BY <2>3, Heads DEF Suspend, LookAgain, LoopInv
  <2>4. CASE Take(c)
    <3>1. CASE isShutdown \/ items = <<>>
      BY <1>3, <2>4, <3>1 DEF Take, At, LoopInv, Room
    <3>2. CASE ~(isShutdown \/ items = <<>>)
      <4>1. takers = <<>> /\ takers' = takers /\ calls' = <<"space">>
        BY <1>3, <2>4, <3>2 DEF Take, At
      <4>. QED BY <4>1, Heads DEF LoopInv
    <3>. QED BY <3>1, <3>2
  <2>5. CASE Join(c)
    BY <1>3, <2>5, Heads DEF Join, At, LoopInv, Room
  <2>6. CASE Poll(c)
    <3>1. ASSUME items = <<>> PROVE items' = <<>>
      <4>1. PICK n \in 0..Len(items) : items' = After(items, n)
        <5>1. Least(hi[c], Len(items)) \in 0..Len(items)
          BY <1>1 DEF Least, TypeOK
        <5>. QED BY <2>6, <5>1 DEF Poll
      <4>2. n = 0 /\ Len(items) = 0
        BY <3>1, <4>1
      <4>3. items' \in Seq(Value) /\ Len(items') = 0
        BY <1>1, <4>1, <4>2, Cut DEF After
      <4>. QED BY <4>3
    <3>2. takers' # <<>> => items' = <<>> /\ putters' = <<>>
      BY <1>3, <2>6, <3>1 DEF Poll, At
    <3>3. "space" \in ToSet(calls')
      BY <2>6, Heads DEF Poll
    <3>. QED BY <3>2, <3>3 DEF LoopInv
  <2>7. CASE Cancel(c)
    <3>1. Idle /\ UNCHANGED <<items, capacity, calls>>
      BY <2>7 DEF Cancel
    <3>2. /\ takers' \in Seq(Client) /\ ToSet(takers') \subseteq ToSet(takers)
          /\ putters' \in Seq(Value) /\ ToSet(putters') \subseteq ToSet(putters)
      BY <1>1, <2>7, KeepMembers DEF Cancel, RemoveTaker
    <3>3. takers = <<>> => takers' = <<>>
      <4>1. takers' # <<>> => Head(takers') \in ToSet(takers')
        BY <3>2, HeadAndTail
      <4>. QED BY <3>2, <4>1, Heads
    <3>4. putters = <<>> => putters' = <<>>
      <4>1. putters' # <<>> => Head(putters') \in ToSet(putters')
        BY <3>2, HeadAndTail
      <4>. QED BY <3>2, <4>1, Heads
    <3>. QED BY <1>3, <3>1, <3>3, <3>4 DEF LoopInv, Room
  <2>8. CASE Shutdown(c) \/ ShutdownStrategy(c)
    BY <1>3, <2>8 DEF Shutdown, ShutdownStrategy, At, LoopInv, Room
  <2>9. CASE TakeBetween(c) \/ Resume(c) \/ Stop(c) \/ CompleteHook(c) \/ Free(c) \/ Closed(c)
             \/ Interrupt(c)
    BY <2>9 DEF TakeBetween, Resume, Stop, CompleteHook, Free, Closed, Interrupt, LoopInv, Room
  <2>. QED BY <1>5, <2>1, <2>2, <2>3, <2>4, <2>5, <2>6, <2>7, <2>8, <2>9 DEF Step
<1>6. CASE UNCHANGED vars
  BY <1>6 DEF vars, LoopInv, Room
<1>. QED BY <1>4, <1>5, <1>6 DEF Next

(* Whoever is at another step than waiting or giving up is in no line.       *)
LEMMA NotListed ==
  ASSUME WaitInv, NEW c \in Client, pc[c] \notin {"waiting", "cancelling"}
  PROVE  c \notin ToSet(takers) /\ \A v \in ToSet(putters) : v[1] # c
BY DEF WaitInv, WaitOf, Listed

(* The first putter: its last value is the last that the line holds of it.   *)
LEMMA FirstPutter ==
  ASSUME TypeOK, LineInv, WaitInv, putters # <<>>
  PROVE  \E v \in Value :
           /\ v = Head(putters) /\ v[1] \in Client /\ Tail(putters) \in Seq(Value)
           /\ ToSet(putters) = {v} \cup ToSet(Tail(putters))
           /\ v[1] \notin ToSet(takers)
           /\ IsLast(v) => \A w \in ToSet(Tail(putters)) : w[1] # v[1]
           /\ \A i, j \in 1..Len(Tail(putters)) : i < j =>
                \E k, m \in 1..Len(putters) :
                  k < m /\ Tail(putters)[i] = putters[k] /\ Tail(putters)[j] = putters[m]
<1>1. putters \in Seq(Value)
  BY DEF TypeOK
<1>2. PICK v \in Value, t \in Seq(Value) : v = Head(putters) /\ t = Tail(putters)
  BY <1>1, HeadAndTail
<1>3. /\ ToSet(putters) = {v} \cup ToSet(t) /\ Len(putters) = Len(t) + 1 /\ v = putters[1]
      /\ \A k \in 1..Len(t) : k + 1 \in 1..Len(putters) /\ t[k] = putters[k + 1]
  BY <1>1, <1>2, HeadAndTail
<1>4. v[1] \in Client /\ v[1] \notin ToSet(takers)
  BY <1>2, <1>3 DEF Value, LineInv, WaitInv, WaitOf
<1>5. ASSUME IsLast(v), NEW w \in ToSet(t) PROVE w[1] # v[1]
  <2>1. PICK k \in 1..Len(t) : w = t[k]
    BY <1>2 DEF ToSet
  <2>2. k + 1 \in 1..Len(putters) /\ putters[k + 1] = w /\ 1 \in 1..Len(putters) /\ 1 < k + 1
    BY <1>2, <1>3, <2>1
  <2>. QED BY <1>3, <1>5, <2>2 DEF LineInv
<1>6. ASSUME NEW i \in 1..Len(t), NEW j \in 1..Len(t), i < j
      PROVE  \E k, m \in 1..Len(putters) : k < m /\ t[i] = putters[k] /\ t[j] = putters[m]
  <2>1. i + 1 < j + 1
    BY <1>2, <1>6
  <2>. QED BY <1>3, <2>1
<1>. QED BY <1>2, <1>3, <1>4, <1>5, <1>6

(* The lines are kept in order by a step that lets nobody in.                *)
LEMMA LineKept ==
  ASSUME TypeOK, TypeOK', LineInv, IsInjective(takers'), strategy' = strategy,
         ToSet(putters') \subseteq ToSet(putters),
         \A i, j \in 1..Len(putters') : i < j =>
           \E k, m \in 1..Len(putters) : k < m /\ putters'[i] = putters[k] /\ putters'[j] = putters[m],
         \A v \in ToSet(putters) : rest'[v[1]] = rest[v[1]] /\ lo'[v[1]] = lo[v[1]]
  PROVE  LineInv'
<1>1. \A v \in ToSet(putters') : rest'[v[1]] # <<>>
  BY DEF LineInv
<1>2. ASSUME NEW i \in 1..Len(putters'), NEW j \in 1..Len(putters'),
             i < j, putters'[i][1] = putters'[j][1]
      PROVE  ~(putters'[i][2] = lo'[putters'[i][1]])
  <2>1. PICK k \in 1..Len(putters), m \in 1..Len(putters) :
          k < m /\ putters'[i] = putters[k] /\ putters'[j] = putters[m]
    BY <1>2
  <2>2. ~IsLast(putters[k])
    BY <1>2, <2>1 DEF LineInv
  <2>3. putters[k] \in ToSet(putters)
    BY DEF ToSet, TypeOK
  <2>. QED BY <2>1, <2>2, <2>3 DEF IsLast
<1>3. strategy' # "backPressure" => putters' = <<>>
  <2>1. putters' # <<>> => Head(putters') \in ToSet(putters')
    BY HeadAndTail DEF TypeOK
  <2>2. ToSet(<<>>) = {}
    BY Heads
  <2>. QED BY <2>1, <2>2 DEF LineInv
<1>. QED BY <1>1, <1>2, <1>3 DEF LineInv, IsLast

(* A client that a step leaves where it is still waits as it should.         *)
LEMMA Bystander ==
  ASSUME TypeOK, TypeOK', NEW e \in Client, WaitOf(e),
         pc'[e] = pc[e], rest'[e] = rest[e], lo'[e] = lo[e], isShutdown => isShutdown',
         e \in ToSet(takers') => e \in ToSet(takers),
         \A w \in ToSet(putters') : w[1] = e => w \in ToSet(putters),
         \/ deferred'[e] = deferred[e]
         \/ deferred'[e] = "interrupted"
         \/ e \notin ToSet(takers') /\ \A w \in ToSet(putters') : w[1] # e,
         deferred[e] = "pending" /\ deferred'[e] = "pending" /\ ~isShutdown' =>
           /\ e \in ToSet(takers) => e \in ToSet(takers')
           /\ <<e, lo[e]>> \in ToSet(putters) => <<e, lo[e]>> \in ToSet(putters'),
         deferred'[e] = "pending" => deferred[e] = "pending"
  PROVE  WaitOf(e)'
<1>1. e \in ToSet(takers') \/ (\E w \in ToSet(putters') : w[1] = e) =>
        pc'[e] \in {"waiting", "cancelling"} /\ deferred'[e] # "done"
  BY DEF WaitOf, Listed
<1>2. pc'[e] = "waiting" /\ deferred'[e] = "pending" /\ ~isShutdown' =>
        e \in ToSet(takers') \/ <<e, lo'[e]>> \in ToSet(putters')
  BY DEF WaitOf
<1>3. /\ e \in ToSet(takers') => rest'[e] = <<>>
      /\ pc'[e] \in {"hook", "freeingTakers"} => isShutdown'
      /\ pc'[e] \in {"taking", "between", "polling", "joining"} => rest'[e] = <<>>
      /\ pc'[e] = "surplus" =>
           /\ rest'[e] # <<>>
           /\ \A i \in 1..Len(rest'[e]) : rest'[e][i] = <<e, lo'[e] - Len(rest'[e]) + i>>
  BY DEF WaitOf
<1>. QED BY <1>1, <1>2, <1>3 DEF WaitOf, Listed

(* A step that leaves a line alone, or only loses some of it, keeps its order. *)
LEMMA SameOrder ==
  ASSUME UNCHANGED putters
  PROVE  \A i, j \in 1..Len(putters') : i < j =>
           \E k, m \in 1..Len(putters) : k < m /\ putters'[i] = putters[k] /\ putters'[j] = putters[m]
OBVIOUS

(* The lines stay in order, whatever the step.                               *)
LEMMA LineNext ==
  ASSUME TypeOK, TypeOK', LineInv, WaitInv, [Next]_vars
  PROVE  LineInv'
<1>1. /\ takers \in Seq(Client) /\ putters \in Seq(Value) /\ IsInjective(takers)
      /\ rest \in [Client -> Seq(Value)] /\ lo \in [Client -> Nat]
      /\ pc \in [Client -> Label]
  BY DEF TypeOK, LineInv
<1>2. \A v \in ToSet(putters) : v[1] \in Client
  BY <1>1 DEF ToSet, Value
<1>3. takers # <<>> => IsInjective(Tail(takers))
  BY <1>1, TailExactly
<1>4. IsInjective(<<>>) /\ ToSet(<<>>) = {}
  BY Heads DEF IsInjective
<1>5. ASSUME Loop PROVE LineInv'
  <2>1. UNCHANGED <<strategy, rest, lo>>
    BY <1>5 DEF Loop
  <2>2. CASE HandOver \/ Return
    <3>1. UNCHANGED putters /\ IsInjective(takers')
      BY <1>1, <1>3, <2>2 DEF HandOver, Return
    <3>. QED BY <2>1, <3>1, SameOrder, LineKept
  <2>3. CASE Pair \/ Refill
    <3>1. putters # <<>> /\ putters' = Tail(putters) /\ IsInjective(takers')
      BY <1>1, <1>3, <2>3 DEF Pair, Refill
    <3>2. PICK v \in Value :
           /\ ToSet(putters) = {v} \cup ToSet(Tail(putters))
           /\ \A i, j \in 1..Len(Tail(putters)) : i < j =>
                \E k, m \in 1..Len(putters) :
                  k < m /\ Tail(putters)[i] = putters[k] /\ Tail(putters)[j] = putters[m]
      BY <3>1, FirstPutter
    <3>. QED BY <2>1, <3>1, <3>2, LineKept
  <2>. QED BY <1>5, <2>2, <2>3 DEF Loop
<1>6. ASSUME NEW c \in Client, Step(c) \/ Interrupt(c) PROVE LineInv'
  <2>1. CASE Suspend(c)
    <3>1. /\ pc[c] = "surplus" /\ putters' = putters \o rest[c]
          /\ strategy = "backPressure" /\ UNCHANGED <<strategy, takers, rest, lo>>
      BY <2>1 DEF Suspend, At
    <3>2. /\ rest[c] # <<>> /\ rest[c] \in Seq(Value)
          /\ \A i \in 1..Len(rest[c]) : rest[c][i] = <<c, lo[c] - Len(rest[c]) + i>>
      BY <1>1, <3>1 DEF WaitInv, WaitOf
    <3>3. \A v \in ToSet(putters) : v[1] # c
      BY <3>1, NotListed
    <3>4. PICK r \in Seq(Value) : r = rest[c]
      BY <3>2
    <3>5. /\ ToSet(putters') = ToSet(putters) \cup ToSet(r)
          /\ Len(putters') = Len(putters) + Len(r)
          /\ \A k \in 1..Len(putters) : putters'[k] = putters[k]
          /\ \A k \in 1..Len(r) : putters'[Len(putters) + k] = r[k]
      BY <1>1, <3>1, <3>4, Union, Joined, ConcatProperties
    <3>6. \A v \in ToSet(putters') : rest'[v[1]] # <<>>
      <4>1. \A v \in ToSet(r) : v[1] = c
        BY <3>2, <3>4 DEF ToSet
      <4>. QED BY <3>1, <3>2, <3>5, <4>1 DEF LineInv
    <3>7. ASSUME NEW i \in 1..Len(putters'), NEW j \in 1..Len(putters'),
                 i < j, putters'[i][1] = putters'[j][1]
          PROVE  ~(putters'[i][2] = lo'[putters'[i][1]])
      <4>1. /\ Len(putters) \in Nat /\ Len(r) \in Nat /\ lo[c] \in Nat
            /\ \A k \in 1..Len(r) : r[k] = <<c, lo[c] - Len(r) + k>>
        BY <1>1, <3>2, <3>4
      <4>2. \A k \in 1..Len(putters) : putters[k] \in ToSet(putters)
        BY <1>1 DEF ToSet
      <4>3. CASE j \in 1..Len(putters)
        <5>1. i \in 1..Len(putters)
          BY <3>5, <3>7, <4>1, <4>3
        <5>. QED BY <3>1, <3>5, <3>7, <4>3, <5>1 DEF LineInv, IsLast
      <4>4. CASE j \notin 1..Len(putters) /\ i \in 1..Len(putters)
        <5>1. PICK m \in 1..Len(r) : j = Len(putters) + m
          <6>1. j - Len(putters) \in 1..Len(r) /\ j = Len(putters) + (j - Len(putters))
            BY <3>5, <4>1, <4>4
          <6>. QED BY <6>1
        <5>2. putters'[j] = r[m] /\ r[m][1] = c
          BY <3>5, <4>1, <5>1
        <5>. QED BY <3>3, <3>5, <3>7, <4>2, <4>4, <5>2
      <4>5. CASE i \notin 1..Len(putters)
        <5>1. PICK k \in 1..Len(r) : i = Len(putters) + k
          <6>1. i - Len(putters) \in 1..Len(r) /\ i = Len(putters) + (i - Len(putters))
            BY <3>5, <4>1, <4>5
          <6>. QED BY <6>1
        <5>2. k < Len(r)
          BY <3>5, <3>7, <4>1, <5>1
        <5>3. putters'[i] = <<c, lo[c] - Len(r) + k>>
          BY <3>5, <4>1, <5>1
        <5>. QED BY <3>1, <4>1, <5>2, <5>3
      <4>. QED BY <4>3, <4>4, <4>5
    <3>. QED BY <1>1, <3>1, <3>6, <3>7 DEF LineInv, IsLast
  <2>2. CASE Cancel(c)
    <3>1. UNCHANGED <<strategy, rest, lo>>
      BY <2>2 DEF Cancel
    <3>2. /\ IsInjective(takers')
          /\ ToSet(putters') \subseteq ToSet(putters)
          /\ \A i, j \in 1..Len(putters') : i < j =>
               \E k, m \in 1..Len(putters) :
                 k < m /\ putters'[i] = putters[k] /\ putters'[j] = putters[m]
      <4>1. PICK P, Q : takers' = Keep(takers, P) /\ putters' = Keep(putters, Q)
        BY <2>2 DEF Cancel, RemoveTaker
      <4>2. IsInjective(Keep(takers, P))
        BY <1>1, KeepMembers
      <4>3. /\ ToSet(Keep(putters, Q)) = ToSet(putters) \cap Q
            /\ \A i, j \in 1..Len(Keep(putters, Q)) : i < j =>
                 \E k, m \in 1..Len(putters) :
                   k < m /\ Keep(putters, Q)[i] = putters[k] /\ Keep(putters, Q)[j] = putters[m]
        BY <1>1, KeepMembers
      <4>. QED BY <4>1, <4>2, <4>3
    <3>. QED BY <3>1, <3>2, LineKept
  <2>3. CASE ShutdownStrategy(c)
    <3>1. putters' = <<>> /\ UNCHANGED takers
      BY <2>3 DEF ShutdownStrategy
    <3>. QED BY <1>1, <1>4, <3>1 DEF LineInv
  <2>4. ASSUME UNCHANGED <<strategy, putters>>, IsInjective(takers'),
               \A v \in ToSet(putters) : rest'[v[1]] = rest[v[1]] /\ lo'[v[1]] = lo[v[1]]
        PROVE  LineInv'
    BY <2>4, SameOrder, LineKept
  <2>5. CASE Offer(c)
    <3>1. \A v \in ToSet(putters) : v[1] # c
      BY <2>5, NotListed DEF Offer, At
    <3>2. UNCHANGED <<strategy, putters, lo>>
      BY <2>5 DEF Offer
    <3>3. CASE isShutdown
      BY <1>1, <2>4, <2>5, <3>2, <3>3 DEF Offer
    <3>4. CASE ~isShutdown
      <4>1. PICK told, given, kept, left : Parted(c, told, given, kept, left)
        BY <2>5, <3>4, OfferParts
      <4>2. /\ told \in Seq(Client) /\ takers' \in Seq(Client) /\ takers = told \o takers'
            /\ rest' = [rest EXCEPT ![c] = left]
        BY <4>1 DEF Parted
      <4>3. IsInjective(takers')
        BY <1>1, <4>2, Union
      <4>4. \A v \in ToSet(putters) : rest'[v[1]] = rest[v[1]]
        BY <1>1, <1>2, <3>1, <4>2
      <4>. QED BY <2>4, <3>2, <4>3, <4>4
    <3>. QED BY <3>3, <3>4
  <2>6. CASE Take(c) \/ Poll(c)
    <3>1. \A v \in ToSet(putters) : v[1] # c
      BY <2>6, NotListed DEF Take, Poll, At
    <3>2. UNCHANGED <<strategy, putters, takers, rest>>
      BY <2>6 DEF Take, Poll
    <3>3. \A v \in ToSet(putters) : lo'[v[1]] = lo[v[1]]
      BY <1>1, <1>2, <2>6, <3>1 DEF Take, Poll, Got
    <3>. QED BY <1>1, <2>4, <3>2, <3>3
  <2>7. CASE Resume(c)
    <3>1. UNCHANGED <<strategy, putters, takers, rest>>
      BY <2>7 DEF Resume
    <3>2. \A v \in ToSet(putters) : lo'[v[1]] = lo[v[1]]
      <4>1. CASE UNCHANGED lo
        BY <4>1
      <4>2. CASE ~Offers(c) /\ Got(c, 1, "between")
        <5>1. \A v \in ToSet(putters) : v[1] # c
          BY <4>2 DEF Offers, LineInv
        <5>. QED BY <1>1, <1>2, <4>2, <5>1 DEF Got
      <4>. QED BY <2>7, <4>1, <4>2 DEF Resume
    <3>. QED BY <1>1, <2>4, <3>1, <3>2
  <2>8. CASE Join(c)
    <3>1. c \notin ToSet(takers)
      BY <2>8, NotListed DEF Join, At
    <3>2. IsInjective(takers')
      BY <1>1, <2>8, <3>1, AppendExactly DEF Join
    <3>. QED BY <2>4, <2>8, <3>2 DEF Join
  <2>9. CASE Shutdown(c)
    BY <1>4, <2>4, <2>9 DEF Shutdown
  <2>10. CASE Slide(c) \/ TakeBetween(c) \/ Stop(c) \/ CompleteHook(c) \/ Free(c) \/ Closed(c)
              \/ Interrupt(c)
    <3>1. UNCHANGED <<strategy, putters, takers, rest, lo>>
      BY <2>10 DEF Slide, TakeBetween, Stop, CompleteHook, Free, Closed, Interrupt
    <3>. QED BY <1>1, <2>4, <3>1
  <2>. QED BY <1>6, <2>1, <2>2, <2>3, <2>5, <2>6, <2>7, <2>8, <2>9, <2>10 DEF Step
<1>7. CASE UNCHANGED vars
  <2>1. UNCHANGED <<strategy, putters, takers, rest, lo>>
    BY <1>7 DEF vars
  <2>. QED BY <1>1, <2>1, SameOrder, LineKept
<1>. QED BY <1>5, <1>6, <1>7 DEF Next

(* Who is freed of the wait by a loop is no longer in a line.                *)
LEMMA WaitLoop ==
  ASSUME TypeOK, TypeOK', LineInv, WaitInv, Loop
  PROVE  WaitInv'
<1>1. /\ takers \in Seq(Client) /\ putters \in Seq(Value) /\ IsInjective(takers)
      /\ deferred \in [Client -> {"none", "pending", "done", "interrupted"}]
  BY DEF TypeOK, LineInv
<1>2. UNCHANGED <<pc, rest, lo, isShutdown>>
  BY DEF Loop
<1>3. takers # <<>> => /\ ToSet(Tail(takers)) = ToSet(takers) \ {Head(takers)}
                       /\ Head(takers) \in ToSet(takers)
  <2>1. takers # <<>> => ToSet(Tail(takers)) = ToSet(takers) \ {Head(takers)}
    BY <1>1, TailExactly
  <2>2. takers # <<>> => ToSet(takers) = {Head(takers)} \cup ToSet(Tail(takers))
    BY <1>1, HeadAndTail
  <2>. QED BY <2>1, <2>2
<1>4. \A e \in Client : e \in ToSet(takers) => \A v \in ToSet(putters) : v[1] # e
  BY DEF LineInv, WaitInv, WaitOf
<1>5. ASSUME NEW e \in Client PROVE WaitOf(e)'
  <2>0. WaitOf(e)
    BY DEF WaitInv
  <2>1. CASE HandOver
    <3>1. /\ takers # <<>> /\ takers' = Tail(takers) /\ UNCHANGED putters
          /\ Settle({Head(takers)}, "done")
      BY <2>1 DEF HandOver
    <3>2. deferred'[e] = IF e = Head(takers) /\ deferred[e] = "pending" THEN "done" ELSE deferred[e]
      BY <3>1, SettleType
    <3>. QED BY <1>2, <1>3, <1>4, <2>0, <3>1, <3>2, Bystander
  <2>2. CASE Pair
    <3>1. /\ takers # <<>> /\ takers' = Tail(takers) /\ putters # <<>> /\ putters' = Tail(putters)
          /\ Settle({Head(takers)} \cup Putter(Head(putters)), "done")
      BY <2>2 DEF Pair
    <3>2. PICK v \in Value :
           /\ v = Head(putters) /\ v[1] \in Client
           /\ ToSet(putters) = {v} \cup ToSet(Tail(putters))
           /\ v[1] \notin ToSet(takers)
           /\ IsLast(v) => \A w \in ToSet(Tail(putters)) : w[1] # v[1]
      BY <3>1, FirstPutter
    <3>3. deferred'[e] = IF (e = Head(takers) \/ (e = v[1] /\ IsLast(v))) /\ deferred[e] = "pending"
                         THEN "done" ELSE deferred[e]
      BY <3>1, <3>2, SettleType DEF Putter
    <3>4. e = v[1] /\ v = <<e, lo[e]>> => IsLast(v)
      BY DEF IsLast
    <3>5. v = <<e, lo[e]>> => e = v[1]
      OBVIOUS
    <3>6. v \in ToSet(putters)
      BY <3>2
    <3>. QED BY <1>2, <1>3, <1>4, <2>0, <3>1, <3>2, <3>3, <3>4, <3>5, <3>6, Bystander
  <2>3. CASE Refill
    <3>1. /\ putters # <<>> /\ putters' = Tail(putters) /\ UNCHANGED takers
          /\ Settle(Putter(Head(putters)), "done")
      BY <2>3 DEF Refill
    <3>2. PICK v \in Value :
           /\ v = Head(putters) /\ v[1] \in Client
           /\ ToSet(putters) = {v} \cup ToSet(Tail(putters))
           /\ v[1] \notin ToSet(takers)
           /\ IsLast(v) => \A w \in ToSet(Tail(putters)) : w[1] # v[1]
      BY <3>1, FirstPutter
    <3>3. deferred'[e] = IF e = v[1] /\ IsLast(v) /\ deferred[e] = "pending"
                         THEN "done" ELSE deferred[e]
      BY <3>1, <3>2, SettleType DEF Putter
    <3>4. v = <<e, lo[e]>> => e = v[1] /\ IsLast(v)
      BY DEF IsLast
    <3>. QED BY <1>2, <2>0, <3>1, <3>2, <3>3, <3>4, Bystander
  <2>4. CASE Return
    <3>1. UNCHANGED <<takers, putters, deferred>>
      BY <2>4 DEF Return
    <3>. QED BY <1>2, <2>0, <3>1, Bystander
  <2>. QED BY <2>1, <2>2, <2>3, <2>4 DEF Loop
<1>. QED BY <1>5 DEF WaitInv

(* Whoever is not in the way of a step of another client still waits.        *)
LEMMA WaitOthers ==
  ASSUME TypeOK, TypeOK', LineInv, WaitInv,
         NEW c \in Client, Step(c) \/ Interrupt(c), NEW e \in Client, e # c
  PROVE  WaitOf(e)'
<1>1. /\ takers \in Seq(Client) /\ putters \in Seq(Value) /\ IsInjective(takers)
      /\ deferred \in [Client -> {"none", "pending", "done", "interrupted"}]
      /\ pc \in [Client -> Label] /\ rest \in [Client -> Seq(Value)]
      /\ lo \in [Client -> Nat] /\ isShutdown \in BOOLEAN
  BY DEF TypeOK, LineInv
<1>2. WaitOf(e)
  BY DEF WaitInv
<1>3. /\ pc'[e] = pc[e] /\ rest'[e] = rest[e] /\ lo'[e] = lo[e] /\ (isShutdown => isShutdown')
  <2>1. CASE Offer(c)
    <3>1. CASE isShutdown
      BY <1>1, <2>1, <3>1 DEF Offer, Goto
    <3>2. CASE ~isShutdown
      <4>1. PICK told, given, kept, left : Parted(c, told, given, kept, left)
        BY <2>1, <3>2, OfferParts
      <4>2. rest'[e] = rest[e] /\ pc'[e] = pc[e]
        BY <1>1, <4>1 DEF Parted
      <4>. QED BY <2>1, <3>2, <4>2 DEF Offer
    <3>. QED BY <3>1, <3>2
  <2>2. CASE Slide(c) \/ Suspend(c) \/ Join(c) \/ TakeBetween(c)
    BY <1>1, <2>2 DEF Slide, Suspend, Join, TakeBetween, Goto
  <2>3. CASE Take(c) \/ Poll(c)
    BY <1>1, <2>3 DEF Take, Poll, Goto, Got
  <2>4. CASE Resume(c)
    BY <1>1, <2>4 DEF Resume, Goto, Got
  <2>5. CASE Stop(c) \/ Cancel(c) \/ Shutdown(c) \/ CompleteHook(c) \/ Free(c)
             \/ ShutdownStrategy(c) \/ Closed(c) \/ Interrupt(c)
    BY <1>1, <2>5 DEF Stop, Cancel, Shutdown, CompleteHook, Free, ShutdownStrategy, Closed,
                      Interrupt, Goto
  <2>. QED BY <2>1, <2>2, <2>3, <2>4, <2>5 DEF Step
<1>4. ASSUME UNCHANGED deferred,
             e \in ToSet(takers') => e \in ToSet(takers),
             \A w \in ToSet(putters') : w[1] = e => w \in ToSet(putters),
             deferred[e] = "pending" /\ ~isShutdown' =>
               /\ e \in ToSet(takers) => e \in ToSet(takers')
               /\ <<e, lo[e]>> \in ToSet(putters) => <<e, lo[e]>> \in ToSet(putters')
      PROVE  WaitOf(e)'
  BY <1>2, <1>3, <1>4, Bystander
<1>5. CASE Offer(c)
  <2>1. CASE isShutdown
    BY <1>4, <1>5, <2>1 DEF Offer
  <2>2. CASE ~isShutdown
    <3>1. PICK told, given, kept, left : Parted(c, told, given, kept, left)
      BY <1>5, <2>2, OfferParts
    <3>2. /\ told \in Seq(Client) /\ takers' \in Seq(Client) /\ takers = told \o takers'
          /\ Settle(ToSet(told), "done")
      BY <3>1 DEF Parted
    <3>3. UNCHANGED putters
      BY <1>5 DEF Offer
    <3>4. ToSet(takers) = ToSet(told) \cup ToSet(takers') /\ ToSet(told) \cap ToSet(takers') = {}
      BY <1>1, <3>2, Union
    <3>5. deferred'[e] = IF e \in ToSet(told) /\ deferred[e] = "pending" THEN "done" ELSE deferred[e]
      BY <3>2, SettleType
    <3>6. e \in ToSet(told) => \A v \in ToSet(putters) : v[1] # e
      BY <1>2, <3>4 DEF LineInv, WaitOf
    <3>. QED BY <1>2, <1>3, <3>3, <3>4, <3>5, <3>6, Bystander
  <2>. QED BY <2>1, <2>2
<1>6. CASE Suspend(c)
  <2>1. /\ pc[c] = "surplus" /\ putters' = putters \o rest[c] /\ UNCHANGED takers
        /\ deferred'[e] = deferred[e]
    BY <1>1, <1>6 DEF Suspend, At
  <2>2. /\ rest[c] \in Seq(Value)
        /\ \A i \in 1..Len(rest[c]) : rest[c][i] = <<c, lo[c] - Len(rest[c]) + i>>
    BY <1>1, <2>1 DEF WaitInv, WaitOf
  <2>3. PICK r \in Seq(Value) : r = rest[c]
    BY <2>2
  <2>4. ToSet(putters') = ToSet(putters) \cup ToSet(r) /\ \A v \in ToSet(r) : v[1] = c
    <3>1. ToSet(putters \o r) = ToSet(putters) \cup ToSet(r)
      BY <1>1, Union
    <3>2. \A v \in ToSet(r) : v[1] = c
      BY <2>2, <2>3 DEF ToSet
    <3>. QED BY <2>1, <2>3, <3>1, <3>2
  <2>. QED BY <1>2, <1>3, <2>1, <2>4, Bystander
<1>7. CASE Join(c)
  <2>1. ToSet(takers') = ToSet(takers) \cup {c} /\ UNCHANGED putters /\ deferred'[e] = deferred[e]
    <3>1. c \notin ToSet(takers)
      BY <1>7, NotListed DEF Join, At
    <3>2. ToSet(Append(takers, c)) = ToSet(takers) \cup {c}
      BY <1>1, <3>1, AppendExactly
    <3>. QED BY <1>1, <1>7, <3>2 DEF Join
  <2>. QED BY <1>2, <1>3, <2>1, Bystander
<1>8. CASE Cancel(c)
  <2>1. PICK P, Q : /\ P = Client \ {c} /\ Q = {v \in Value : v[1] # c}
                    /\ takers' = Keep(takers, P) /\ putters' = Keep(putters, Q)
    BY <1>8 DEF Cancel, RemoveTaker
  <2>2. ToSet(takers') = ToSet(takers) \cap P /\ ToSet(putters') = ToSet(putters) \cap Q
    BY <1>1, <2>1, KeepMembers
  <2>3. e \in P /\ <<e, lo[e]>> \in Q
    BY <1>1, <2>1 DEF Value
  <2>4. UNCHANGED deferred
    BY <1>8 DEF Cancel
  <2>. QED BY <1>4, <2>2, <2>3, <2>4
<1>9. CASE Shutdown(c)
  <2>1. takers' = <<>> /\ isShutdown' /\ UNCHANGED <<putters, deferred>>
    BY <1>9 DEF Shutdown
  <2>. QED BY <1>4, <2>1, Heads
<1>10. CASE ShutdownStrategy(c)
  <2>1. putters' = <<>> /\ isShutdown' /\ UNCHANGED <<takers, deferred>>
    BY <1>10 DEF ShutdownStrategy, WaitInv, WaitOf, At
  <2>. QED BY <1>4, <2>1, Heads
<1>11. CASE Free(c)
  <2>1. UNCHANGED <<takers, putters>> /\ \E who : Settle({who}, "interrupted")
    BY <1>11 DEF Free
  <2>2. deferred'[e] = deferred[e] \/ (deferred[e] = "pending" /\ deferred'[e] = "interrupted")
    BY <2>1, SettleType
  <2>. QED BY <1>2, <1>3, <2>1, <2>2, Bystander
<1>12. CASE Slide(c) \/ Take(c) \/ TakeBetween(c) \/ Poll(c) \/ Resume(c) \/ Stop(c)
            \/ CompleteHook(c) \/ Closed(c) \/ Interrupt(c)
  <2>1. UNCHANGED <<takers, putters, deferred>>
    BY <1>12 DEF Slide, Take, TakeBetween, Poll, Resume, Stop, CompleteHook, Closed, Interrupt
  <2>. QED BY <1>4, <2>1
<1>. QED BY <1>5, <1>6, <1>7, <1>8, <1>9, <1>10, <1>11, <1>12 DEF Step

(* And so does the client whose step it is.                                  *)
LEMMA WaitSelf ==
  ASSUME TypeOK, TypeOK', LineInv, WaitInv, NEW c \in Client, Step(c) \/ Interrupt(c)
  PROVE  WaitOf(c)'
<1>1. /\ takers \in Seq(Client) /\ putters \in Seq(Value)
      /\ deferred \in [Client -> {"none", "pending", "done", "interrupted"}]
      /\ pc \in [Client -> Label] /\ rest \in [Client -> Seq(Value)]
      /\ lo \in [Client -> Nat] /\ isShutdown \in BOOLEAN
  BY DEF TypeOK
<1>2. WaitOf(c)
  BY DEF WaitInv
<1>3. pc[c] \notin {"waiting", "cancelling"} =>
        c \notin ToSet(takers) /\ \A v \in ToSet(putters) : v[1] # c
  BY NotListed
<1>4. ASSUME c \notin ToSet(takers'), \A v \in ToSet(putters') : v[1] # c,
             pc'[c] \notin {"waiting", "surplus"},
             pc'[c] \in {"hook", "freeingTakers"} => isShutdown',
             pc'[c] \in {"taking", "between", "polling", "joining"} => rest'[c] = <<>>
      PROVE  WaitOf(c)'
  BY <1>4 DEF WaitOf, Listed
<1>5. CASE Offer(c)
  <2>1. pc[c] \in {"offer", "unsafeOffer"} /\ UNCHANGED <<putters, lo>>
    BY <1>5 DEF Offer, At
  <2>2. CASE isShutdown
    <3>1. pc'[c] \in {"stopped", "refused"} /\ UNCHANGED takers
      BY <1>1, <1>5, <2>2 DEF Offer, Goto
    <3>. QED BY <1>3, <1>4, <2>1, <3>1
  <2>3. CASE ~isShutdown
    <3>1. PICK told, given, kept, left : Parted(c, told, given, kept, left)
      BY <1>5, <2>3, OfferParts
    <3>2. /\ told \in Seq(Client) /\ takers' \in Seq(Client) /\ takers = told \o takers'
          /\ left \in Seq(Value) /\ rest' = [rest EXCEPT ![c] = left]
          /\ \A i \in 1..Len(left) : left[i] = <<c, lo[c] - Len(left) + i>>
          /\ pc' = [pc EXCEPT ![c] = IF left = <<>> THEN "accepted"
                                     ELSE IF pc[c] = "unsafeOffer" \/ strategy = "dropping"
                                     THEN "refused" ELSE "surplus"]
      BY <3>1 DEF Parted
    <3>3. c \notin ToSet(takers') /\ \A v \in ToSet(putters') : v[1] # c
      <4>1. ToSet(takers) = ToSet(told) \cup ToSet(takers')
        BY <3>2, Union
      <4>. QED BY <1>3, <2>1, <4>1
    <3>4. pc'[c] \in {"accepted", "refused", "surplus"} /\ (pc'[c] = "surplus" => left # <<>>)
          /\ rest'[c] = left
      BY <1>1, <3>2
    <3>. QED BY <2>1, <3>2, <3>3, <3>4 DEF WaitOf, Listed
  <2>. QED BY <2>2, <2>3
<1>6. CASE Suspend(c)
  <2>1. /\ pc[c] = "surplus" /\ putters' = putters \o rest[c] /\ UNCHANGED <<takers, rest, lo>>
        /\ deferred'[c] = "pending" /\ pc'[c] \in {"waiting", "cancelling"}
    BY <1>1, <1>6 DEF Suspend, At, Goto, StopOrWait
  <2>2. /\ rest[c] \in Seq(Value) /\ rest[c] # <<>>
        /\ \A i \in 1..Len(rest[c]) : rest[c][i] = <<c, lo[c] - Len(rest[c]) + i>>
    BY <1>1, <1>2, <2>1 DEF WaitOf
  <2>3. PICK r \in Seq(Value) : r = rest[c]
    BY <2>2
  <2>4. <<c, lo[c]>> \in ToSet(putters')
    <3>1. Len(r) \in 1..Len(r) /\ Len(r) \in Nat /\ r[Len(r)] = <<c, lo[c] - Len(r) + Len(r)>>
      BY <2>2, <2>3
    <3>2. r[Len(r)] = <<c, lo[c]>>
      BY <1>1, <3>1
    <3>3. <<c, lo[c]>> \in ToSet(r)
      <4>1. \A i \in 1..Len(r) : r[i] \in ToSet(r)
        BY DEF ToSet
      <4>. QED BY <3>1, <3>2, <4>1
    <3>4. ToSet(putters \o r) = ToSet(putters) \cup ToSet(r)
      BY <1>1, Union
    <3>. QED BY <2>1, <2>3, <3>3, <3>4
  <2>5. c \notin ToSet(takers')
    BY <1>3, <2>1
  <2>. QED BY <2>1, <2>4, <2>5 DEF WaitOf, Listed
<1>7. CASE Join(c)
  <2>1. /\ pc[c] = "joining" /\ takers' = Append(takers, c) /\ UNCHANGED rest
        /\ deferred'[c] = "pending" /\ pc'[c] \in {"waiting", "cancelling"}
    BY <1>1, <1>7 DEF Join, At, Goto, StopOrWait
  <2>2. c \in ToSet(takers')
    BY <1>1, <2>1, AppendKeeps
  <2>3. rest[c] = <<>>
    BY <1>2, <2>1 DEF WaitOf
  <2>. QED BY <2>1, <2>2, <2>3 DEF WaitOf, Listed
<1>8. CASE Cancel(c)
  <2>1. PICK P, Q : /\ P = Client \ {c} /\ Q = {v \in Value : v[1] # c}
                    /\ takers' = Keep(takers, P) /\ putters' = Keep(putters, Q)
    BY <1>8 DEF Cancel, RemoveTaker
  <2>2. ToSet(takers') = ToSet(takers) \cap P /\ ToSet(putters') = ToSet(putters) \cap Q
    BY <1>1, <2>1, KeepMembers
  <2>3. pc'[c] = "stopped"
    BY <1>1, <1>8 DEF Cancel, Goto
  <2>. QED BY <1>4, <2>1, <2>2, <2>3
<1>9. CASE Shutdown(c) \/ ShutdownStrategy(c)
  <2>1. /\ pc[c] \notin {"waiting", "cancelling"}
        /\ ToSet(takers') \subseteq ToSet(takers) /\ ToSet(putters') \subseteq ToSet(putters)
    BY <1>9, Heads DEF Shutdown, ShutdownStrategy, At
  <2>2. (pc'[c] = "hook" /\ isShutdown') \/ pc'[c] = "freeingPutters"
    BY <1>1, <1>9 DEF Shutdown, ShutdownStrategy, Goto
  <2>. QED BY <1>3, <1>4, <2>1, <2>2
<1>10. CASE Stop(c)
  <2>1. UNCHANGED <<takers, putters, deferred, rest, lo, isShutdown>>
    BY <1>10 DEF Stop
  <2>2. CASE pc[c] = "waiting"
    <3>1. pc'[c] = "cancelling"
      BY <1>1, <1>10, <2>2 DEF Stop, Goto
    <3>. QED BY <1>2, <2>1, <2>2, <3>1 DEF WaitOf, Listed
  <2>3. CASE pc[c] # "waiting"
    <3>1. pc'[c] = "stopped" /\ pc[c] # "cancelling"
      BY <1>1, <1>10, <2>3 DEF Stop, Goto, Steps
    <3>. QED BY <1>3, <1>4, <2>1, <2>3, <3>1
  <2>. QED BY <2>2, <2>3
<1>11. CASE Resume(c)
  <2>1. UNCHANGED <<takers, putters, deferred, rest, isShutdown>> /\ pc[c] = "waiting"
    BY <1>11 DEF Resume, At
  <2>2. CASE deferred[c] = "interrupted" /\ Goto(c, "cancelling") /\ UNCHANGED <<lo, hi>>
    BY <1>1, <1>2, <2>1, <2>2 DEF WaitOf, Listed, Goto
  <2>3. CASE deferred[c] = "done" /\ ~(deferred[c] = "interrupted")
    <3>1. c \notin ToSet(takers) /\ \A v \in ToSet(putters) : v[1] # c
      BY <1>2, <2>3 DEF WaitOf, Listed
    <3>2. pc'[c] = "accepted" \/ (pc'[c] \in {"between", "taken"} /\ rest[c] = <<>>)
      BY <1>1, <1>11, <2>3 DEF Resume, Goto, Got, Offers
    <3>. QED BY <1>4, <2>1, <3>1, <3>2
  <2>. QED BY <1>11, <2>2, <2>3 DEF Resume
<1>12. CASE Slide(c) \/ Take(c) \/ TakeBetween(c) \/ Poll(c) \/ CompleteHook(c) \/ Closed(c)
  <2>1. UNCHANGED <<takers, putters, rest, isShutdown>> /\ pc[c] \notin {"waiting", "cancelling"}
    BY <1>12 DEF Slide, Take, TakeBetween, Poll, CompleteHook, Closed, At
  <2>2. \/ pc'[c] \in {"accepted", "stopped", "taken", "closed"}
        \/ pc'[c] \in {"joining", "between", "polling", "taking"} /\ rest[c] = <<>>
        \/ pc'[c] = "freeingTakers" /\ isShutdown
    BY <1>1, <1>2, <1>12 DEF Slide, Take, TakeBetween, Poll, CompleteHook, Closed, At, Goto, Got,
                              WaitOf
  <2>. QED BY <1>3, <1>4, <2>1, <2>2
<1>13. CASE Free(c)
  <2>1. UNCHANGED <<takers, putters, rest, isShutdown, pc>>
        /\ pc[c] \in {"freeingTakers", "freeingPutters"}
    BY <1>13 DEF Free, At
  <2>. QED BY <1>2, <1>3, <1>4, <2>1 DEF WaitOf
<1>14. CASE Interrupt(c)
  <2>1. UNCHANGED <<takers, putters, rest, isShutdown, pc, deferred, lo>>
    BY <1>14 DEF Interrupt
  <2>. QED BY <1>2, <2>1 DEF WaitOf, Listed
<1>. QED BY <1>5, <1>6, <1>7, <1>8, <1>9, <1>10, <1>11, <1>12, <1>13, <1>14 DEF Step

-----------------------------------------------------------------------------
(* What a queue keeps: its types, the promise of the loops, the lines, and   *)
(* every client's place in them.                                            *)
QueueInv == TypeOK /\ LoopInv /\ LineInv /\ WaitInv

(* It holds initially.                                                       *)
LEMMA QueueInit == Init => QueueInv
<1>. SUFFICES ASSUME Init PROVE QueueInv
  OBVIOUS
<1>1. TypeOK
  BY TypeInit
<1>2. items = <<>> /\ putters = <<>> /\ takers = <<>> /\ rest = [c \in Client |-> <<>>]
  BY DEF Init
<1>3. \A c \in Client : pc[c] \in Operation
  <2>1. PICK program \in [Client -> UNION {Program[c] : c \in Client}] :
          /\ \A c \in Client : program[c] \in Program[c]
          /\ pc = [c \in Client |-> program[c][1]]
    BY DEF Init
  <2>. QED BY <2>1, ProgramAssumption
<1>4. LoopInv /\ LineInv
  BY <1>2, Heads DEF LoopInv, LineInv, IsInjective
<1>5. WaitInv
  BY <1>2, <1>3, Heads DEF WaitInv, WaitOf, Listed, Operation
<1>. QED BY <1>1, <1>4, <1>5 DEF QueueInv

(* It is kept by every step, of a loop and of a client.                      *)
LEMMA QueueNext == QueueInv /\ [Next]_vars => QueueInv'
<1>. SUFFICES ASSUME QueueInv, [Next]_vars PROVE QueueInv'
  OBVIOUS
<1>1. TypeOK /\ LoopInv /\ LineInv /\ WaitInv
  BY DEF QueueInv
<1>2. TypeOK'
  <2>1. CASE Loop
    BY <1>1, <2>1, TypeLoop
  <2>2. ASSUME NEW c \in Client, Step(c) \/ Interrupt(c) PROVE TypeOK'
    BY <1>1, <2>2, TypeStep DEF WaitInv
  <2>3. CASE UNCHANGED vars
    BY <1>1, <2>3 DEF vars, TypeOK
  <2>. QED BY <2>1, <2>2, <2>3 DEF Next
<1>3. LoopInv' /\ LineInv'
  BY <1>1, <1>2, LoopNext, LineNext
<1>4. WaitInv'
  <2>1. CASE Loop
    BY <1>1, <1>2, <2>1, WaitLoop
  <2>2. ASSUME NEW c \in Client, Step(c) \/ Interrupt(c) PROVE WaitInv'
    <3>1. ASSUME NEW e \in Client PROVE WaitOf(e)'
      BY <1>1, <1>2, <2>2, WaitOthers, WaitSelf
    <3>. QED BY <3>1 DEF WaitInv
  <2>3. CASE UNCHANGED vars
    BY <1>1, <2>3 DEF vars, WaitInv, WaitOf, Listed
  <2>. QED BY <2>1, <2>2, <2>3 DEF Next
<1>. QED BY <1>2, <1>3, <1>4 DEF QueueInv

(* The loops never end with a taker and a value, or a putter and room, and a *)
(* fiber that waits is in the line where its answer comes from.             *)
THEOREM NobodyIsForgotten == Spec => []NobodyWaitsInVain
<1>1. QueueInv => NobodyWaitsInVain
  <2>. SUFFICES ASSUME QueueInv PROVE NobodyWaitsInVain
    OBVIOUS
  <2>1. Idle => /\ takers # <<>> => items = <<>> /\ putters = <<>>
                /\ putters # <<>> => Room = 0
    BY Heads DEF QueueInv, LoopInv, Idle
  <2>2. WaitingRoom
    <3>1. ASSUME NEW c \in Client
          PROVE  /\ pc[c] = "waiting" /\ deferred[c] = "pending" /\ ~isShutdown => Listed(c)
                 /\ Listed(c) => pc[c] \in {"waiting", "cancelling"}
      <4>1. <<c, lo[c]>>[1] = c
        OBVIOUS
      <4>2. <<c, lo[c]>> \in ToSet(putters) => \E v \in ToSet(putters) : v[1] = c
        BY <4>1
      <4>. QED BY <4>2 DEF QueueInv, WaitInv, WaitOf, Listed
    <3>. QED BY <3>1 DEF WaitingRoom
  <2>. QED BY <2>1, <2>2 DEF NobodyWaitsInVain
<1>. QED BY <1>1, QueueInit, QueueNext, PTL DEF Spec

-----------------------------------------------------------------------------
(* What is known of a client's values before its answer: an offer that has   *)
(* not begun has sent none, the values of one under way are in the queue, in *)
(* the line or with the client, and once its Deferred is done they are in.   *)
AnswerOf(c) ==
  /\ pc[c] \in {"offer", "unsafeOffer"} => \A v \in Arrived : v[1] # c
  /\ pc[c] \in {"offer", "unsafeOffer", "surplus"} => deferred[c] = "none"
  /\ pc[c] = "refused" => <<c, lo[c]>> \notin Arrived
  /\ strategy # "sliding" =>
       /\ pc[c] = "accepted" => ToSet(Values(c)) \subseteq Arrived
       /\ pc[c] = "surplus" => ToSet(Values(c)) \subseteq Arrived \cup ToSet(rest[c])
       /\ (\E v \in ToSet(putters) : v[1] = c) =>
            ToSet(Values(c)) \subseteq Arrived \cup ToSet(putters)
       /\ deferred[c] = "done" /\ Offers(c) => ToSet(Values(c)) \subseteq Arrived

AnswerInv == \A c \in Client : AnswerOf(c)

(* The values of a client carry its name.                                    *)
LEMMA ValuesAre ==
  ASSUME TypeOK, NEW c \in Client
  PROVE  /\ ToSet(Values(c)) \subseteq Value
         /\ \A v \in ToSet(Values(c)) : v[1] = c
<1>1. ToSet(Values(c)) = {<<c, k>> : k \in 1..lo[c]}
  BY DEF Values, ToSet
<1>2. lo[c] \in Nat /\ \A k \in 1..lo[c] : <<c, k>> \in Value /\ <<c, k>>[1] = c
  BY DEF TypeOK, Value
<1>. QED BY <1>1, <1>2

(* Who is not in a line keeps what is known of its values, if nothing of its *)
(* own arrives.                                                             *)
LEMMA AnswerKept ==
  ASSUME TypeOK, WaitInv, NEW e \in Client, AnswerOf(e),
         pc'[e] = pc[e], rest'[e] = rest[e], lo'[e] = lo[e], strategy' = strategy,
         \A v \in Arrived' : v[1] = e => v \in Arrived \cup ToSet(putters),
         \A v \in ToSet(putters') : v[1] = e => v \in ToSet(putters),
         \/ deferred'[e] = deferred[e]
         \/ deferred[e] = "pending" /\ deferred'[e] = "interrupted"
         \/ /\ deferred[e] = "pending" /\ deferred'[e] = "done"
            /\ strategy # "sliding" /\ Offers(e) => ToSet(Values(e)) \subseteq Arrived',
         strategy # "sliding" =>
           /\ Arrived \subseteq Arrived'
           /\ (\E v \in ToSet(putters') : v[1] = e) =>
                \A v \in ToSet(putters) : v[1] = e => v \in Arrived' \cup ToSet(putters')
  PROVE  AnswerOf(e)'
<1>1. PICK V : V = ToSet(Values(e)) /\ V = ToSet(Values(e))'
  BY DEF Values
<1>2. \A v \in V : v[1] = e
  BY <1>1, ValuesAre
<1>3. pc[e] \notin {"waiting", "cancelling"} => \A v \in ToSet(putters) : v[1] # e
  BY NotListed
<1>4. <<e, lo[e]>>[1] = e
  OBVIOUS
<1>5. /\ pc'[e] \in {"offer", "unsafeOffer"} => \A v \in Arrived' : v[1] # e
      /\ pc'[e] \in {"offer", "unsafeOffer", "surplus"} => deferred'[e] = "none"
      /\ pc'[e] = "refused" => <<e, lo'[e]>> \notin Arrived'
  BY <1>3, <1>4 DEF AnswerOf
<1>6. ASSUME strategy # "sliding"
      PROVE  /\ pc'[e] = "accepted" => V \subseteq Arrived'
             /\ pc'[e] = "surplus" => V \subseteq Arrived' \cup ToSet(rest'[e])
             /\ (\E v \in ToSet(putters') : v[1] = e) => V \subseteq Arrived' \cup ToSet(putters')
             /\ deferred'[e] = "done" /\ rest'[e] # <<>> => V \subseteq Arrived'
  BY <1>1, <1>2, <1>6 DEF AnswerOf, Offers
<1>. QED BY <1>1, <1>5, <1>6 DEF AnswerOf, Offers

(* The loops bring in the values of the putters, first come first served.    *)
LEMMA AnswerLoop ==
  ASSUME TypeOK, LineInv, WaitInv, AnswerInv, Loop
  PROVE  AnswerInv'
<1>1. /\ takers \in Seq(Client) /\ putters \in Seq(Value) /\ items \in Seq(Value)
      /\ handed \in Seq(Value)
      /\ deferred \in [Client -> {"none", "pending", "done", "interrupted"}]
  BY DEF TypeOK
<1>2. UNCHANGED <<pc, rest, lo, strategy>>
  BY DEF Loop
<1>3. takers # <<>> => Head(takers) \in ToSet(takers)
  <2>1. takers # <<>> => ToSet(takers) = {Head(takers)} \cup ToSet(Tail(takers))
    BY <1>1, HeadAndTail
  <2>. QED BY <2>1
<1>4. \A e \in Client : e \in ToSet(takers) => ~Offers(e)
  BY DEF WaitInv, WaitOf, Offers
<1>5. ASSUME NEW e \in Client PROVE AnswerOf(e)'
  <2>0. AnswerOf(e)
    BY DEF AnswerInv
  <2>1. CASE HandOver
    <3>1. /\ takers # <<>> /\ items # <<>> /\ items' = Tail(items) /\ UNCHANGED putters
          /\ handed' = Append(handed, Head(items)) /\ Settle({Head(takers)}, "done")
      BY <2>1 DEF HandOver
    <3>2. deferred'[e] = IF e = Head(takers) /\ deferred[e] = "pending" THEN "done" ELSE deferred[e]
      BY <3>1, SettleType
    <3>3. PICK x \in Value : x = Head(items) /\ ToSet(items) = {x} \cup ToSet(Tail(items))
      BY <1>1, <3>1, HeadAndTail
    <3>4. ToSet(handed') = ToSet(handed) \cup {x}
      BY <1>1, <3>1, <3>3, Appended
    <3>5. Arrived' = Arrived
      BY <3>1, <3>3, <3>4 DEF Arrived
    <3>. QED BY <1>2, <1>3, <1>4, <2>0, <3>1, <3>2, <3>5, AnswerKept
  <2>2. ASSUME NEW v \in Value, ToSet(putters) = {v} \cup ToSet(putters'),
               Arrived' = Arrived \cup {v},
               IsLast(v) => \A w \in ToSet(putters') : w[1] # v[1],
               \/ deferred'[e] = deferred[e]
               \/ /\ deferred[e] = "pending" /\ deferred'[e] = "done"
                  /\ ~Offers(e) \/ (e = v[1] /\ IsLast(v))
        PROVE  AnswerOf(e)'
    <3>1. strategy # "sliding" /\ e = v[1] /\ IsLast(v) => ToSet(Values(e)) \subseteq Arrived'
      <4>. SUFFICES ASSUME strategy # "sliding", e = v[1], IsLast(v), NEW w \in ToSet(Values(e))
                    PROVE  w \in Arrived'
        OBVIOUS
      <4>1. w \in Arrived \cup ToSet(putters) /\ w[1] = e
        BY <2>0, <2>2, ValuesAre DEF AnswerOf
      <4>. QED BY <2>2, <4>1
    <3>. QED BY <1>2, <2>0, <2>2, <3>1, AnswerKept
  <2>3. CASE Pair
    <3>1. /\ takers # <<>> /\ putters # <<>> /\ putters' = Tail(putters) /\ UNCHANGED items
          /\ handed' = Append(handed, Head(putters))
          /\ Settle({Head(takers)} \cup Putter(Head(putters)), "done")
      BY <2>3 DEF Pair
    <3>2. PICK v \in Value :
           /\ v = Head(putters) /\ v[1] \in Client
           /\ ToSet(putters) = {v} \cup ToSet(Tail(putters))
           /\ IsLast(v) => \A w \in ToSet(Tail(putters)) : w[1] # v[1]
      BY <3>1, FirstPutter
    <3>3. deferred'[e] = IF (e = Head(takers) \/ (e = v[1] /\ IsLast(v))) /\ deferred[e] = "pending"
                         THEN "done" ELSE deferred[e]
      BY <3>1, <3>2, SettleType DEF Putter
    <3>4. ToSet(handed') = ToSet(handed) \cup {v}
      BY <1>1, <3>1, <3>2, Appended
    <3>5. Arrived' = Arrived \cup {v}
      BY <3>1, <3>4 DEF Arrived
    <3>. QED BY <1>3, <1>4, <2>2, <3>1, <3>2, <3>3, <3>5
  <2>4. CASE Refill
    <3>1. /\ putters # <<>> /\ putters' = Tail(putters) /\ UNCHANGED handed
          /\ items' = Append(items, Head(putters)) /\ Settle(Putter(Head(putters)), "done")
      BY <2>4 DEF Refill
    <3>2. PICK v \in Value :
           /\ v = Head(putters) /\ v[1] \in Client
           /\ ToSet(putters) = {v} \cup ToSet(Tail(putters))
           /\ IsLast(v) => \A w \in ToSet(Tail(putters)) : w[1] # v[1]
      BY <3>1, FirstPutter
    <3>3. deferred'[e] = IF e = v[1] /\ IsLast(v) /\ deferred[e] = "pending"
                         THEN "done" ELSE deferred[e]
      BY <3>1, <3>2, SettleType DEF Putter
    <3>4. ToSet(items') = ToSet(items) \cup {v}
      BY <1>1, <3>1, <3>2, Appended
    <3>5. Arrived' = Arrived \cup {v}
      BY <3>1, <3>4 DEF Arrived
    <3>. QED BY <2>2, <3>1, <3>2, <3>3, <3>5
  <2>5. CASE Return
    <3>1. UNCHANGED <<items, handed, putters, deferred>>
      BY <2>5 DEF Return
    <3>2. Arrived' = Arrived
      BY <3>1 DEF Arrived
    <3>. QED BY <1>2, <2>0, <3>1, <3>2, AnswerKept
  <2>. QED BY <2>1, <2>3, <2>4, <2>5 DEF Loop
<1>. QED BY <1>5 DEF AnswerInv

(* An offer's values are its own, each of them once.                         *)
LEMMA ValuesOnce ==
  ASSUME TypeOK, NEW c \in Client
  PROVE  IsInjective(Values(c))
BY ValuesType DEF IsInjective

(* An offer to an open queue brings in what it gives and what is kept.       *)
LEMMA OfferArrives ==
  ASSUME TypeOK, NEW c \in Client, NEW told, NEW given, NEW kept, NEW left,
         Parted(c, told, given, kept, left)
  PROVE  /\ Arrived' = Arrived \cup ToSet(given) \cup ToSet(kept)
         /\ ToSet(Values(c)) = ToSet(given) \cup ToSet(kept) \cup ToSet(left)
         /\ (ToSet(given) \cup ToSet(kept)) \cap ToSet(left) = {}
<1>1. /\ given \in Seq(Value) /\ kept \in Seq(Value) /\ left \in Seq(Value)
      /\ handed' = handed \o given /\ items' = items \o kept
      /\ Values(c) = given \o (kept \o left)
  BY DEF Parted
<1>2. items \in Seq(Value) /\ handed \in Seq(Value)
  BY DEF TypeOK
<1>3. ToSet(handed') = ToSet(handed) \cup ToSet(given) /\ ToSet(items') = ToSet(items) \cup ToSet(kept)
  BY <1>1, <1>2, Union
<1>4. Arrived' = Arrived \cup ToSet(given) \cup ToSet(kept)
  BY <1>3 DEF Arrived
<1>5. PICK others \in Seq(Value) : /\ others = kept \o left
                                   /\ ToSet(others) = ToSet(kept) \cup ToSet(left)
                                   /\ IsInjective(others) => ToSet(kept) \cap ToSet(left) = {}
  BY <1>1, Union
<1>6. /\ ToSet(given \o others) = ToSet(given) \cup ToSet(others)
      /\ IsInjective(given \o others) =>
           IsInjective(others) /\ ToSet(given) \cap ToSet(others) = {}
  BY <1>1, Union
<1>7. IsInjective(given \o others) /\ Values(c) = given \o others
  BY <1>1, <1>5, ValuesOnce
<1>. QED BY <1>4, <1>5, <1>6, <1>7

(* Apart from an offer's own values nothing new arrives, and only a sliding  *)
(* queue loses values that had arrived.                                     *)
LEMMA ArrivedStep ==
  ASSUME TypeOK, LineInv, WaitInv, NEW c \in Client, Step(c) \/ Interrupt(c)
  PROVE  /\ \A v \in Arrived' : v \in Arrived \/ v[1] = c
         /\ strategy # "sliding" => Arrived \subseteq Arrived'
         /\ ~Offer(c) /\ ~Slide(c) => Arrived' = Arrived
<1>1. /\ items \in Seq(Value) /\ handed \in Seq(Value) /\ rest \in [Client -> Seq(Value)]
      /\ lo \in [Client -> Nat] /\ hi[c] \in Nat
  BY DEF TypeOK
<1>2. CASE Offer(c)
  <2>1. CASE isShutdown
    BY <1>2, <2>1 DEF Offer, Arrived
  <2>2. CASE ~isShutdown
    <3>1. PICK told, given, kept, left : Parted(c, told, given, kept, left)
      BY <1>2, <2>2, OfferParts
    <3>2. /\ Arrived' = Arrived \cup ToSet(given) \cup ToSet(kept)
          /\ ToSet(Values(c)) = ToSet(given) \cup ToSet(kept) \cup ToSet(left)
      BY <3>1, OfferArrives
    <3>. QED BY <1>2, <3>2, ValuesAre
  <2>. QED BY <2>1, <2>2
<1>3. CASE Slide(c)
  <2>1. strategy = "sliding" /\ UNCHANGED handed /\ pc[c] = "surplus"
    BY <1>3 DEF Slide, At
  <2>2. PICK r \in Seq(Value) : r = rest[c]
    BY <1>1
  <2>3. \A v \in ToSet(r) : v[1] = c
    <3>1. \A i \in 1..Len(rest[c]) : rest[c][i] = <<c, lo[c] - Len(rest[c]) + i>>
      BY <2>1 DEF WaitInv, WaitOf
    <3>. QED BY <2>2, <3>1 DEF ToSet
  <2>4. PICK all \in Seq(Value) :
          all = items \o r /\ \E n \in 0..Len(all) : items' = After(all, n)
    <3>1. items \o r \in Seq(Value)
      BY <1>1, <2>2, Union
    <3>2. WaitOf(c)
      BY DEF WaitInv
    <3>3. PICK n \in 0..Len(items \o rest[c]) : items' = After(items \o rest[c], n)
      BY <1>3, <3>2, SlideParts
    <3>. QED BY <2>2, <3>1, <3>3
  <2>5. ToSet(items') \subseteq ToSet(all)
    <3>0. PICK n \in 0..Len(all) : items' = After(all, n)
      BY <2>4
    <3>1. /\ items' \in Seq(Value) /\ Len(items') = Len(all) - n
          /\ \A k \in 1..(Len(all) - n) : items'[k] = all[n + k]
      BY <3>0, Cut DEF After
    <3>2. \A k \in 1..Len(items') : \E j \in 1..Len(all) : items'[k] = all[j]
      BY <3>1
    <3>3. \A x \in ToSet(items') : \E k \in 1..Len(items') : x = items'[k]
      BY <3>1 DEF ToSet
    <3>4. \A j \in 1..Len(all) : all[j] \in ToSet(all)
      BY DEF ToSet
    <3>. QED BY <3>2, <3>3, <3>4
  <2>6. ToSet(all) = ToSet(items) \cup ToSet(r)
    BY <1>1, <2>4, Union
  <2>. QED BY <1>3, <2>1, <2>3, <2>5, <2>6 DEF Arrived
<1>4. ASSUME UNCHANGED <<items, handed>> PROVE Arrived' = Arrived
  BY <1>4 DEF Arrived
<1>5. CASE Take(c)
  <2>1. CASE isShutdown \/ items = <<>>
    BY <1>4, <1>5, <2>1 DEF Take
  <2>2. CASE ~(isShutdown \/ items = <<>>)
    <3>1. items # <<>> /\ items' = Tail(items) /\ handed' = Append(handed, Head(items))
      BY <1>5, <2>2 DEF Take
    <3>2. PICK x \in Value : x = Head(items) /\ ToSet(items) = {x} \cup ToSet(Tail(items))
      BY <1>1, <3>1, HeadAndTail
    <3>3. ToSet(handed') = ToSet(handed) \cup {x}
      BY <1>1, <3>1, <3>2, Appended
    <3>4. Arrived' = Arrived
      BY <3>1, <3>2, <3>3 DEF Arrived
    <3>. QED BY <3>4
  <2>. QED BY <2>1, <2>2
<1>6. CASE Poll(c)
  <2>1. PICK n \in 0..Len(items) : handed' = handed \o First(items, n) /\ items' = After(items, n)
    <3>1. Least(hi[c], Len(items)) \in 0..Len(items)
      BY <1>1 DEF Least
    <3>. QED BY <1>6, <3>1 DEF Poll, PollUpTo
  <2>2. PICK a \in Seq(Value), b \in Seq(Value) :
          a = First(items, n) /\ b = After(items, n) /\ items = a \o b
    <3>1. /\ First(items, n) \in Seq(Value) /\ After(items, n) \in Seq(Value)
          /\ First(items, n) \o After(items, n) = items
      BY <1>1, Cut DEF First, After
    <3>. QED BY <3>1
  <2>3. ToSet(a \o b) = ToSet(a) \cup ToSet(b) /\ ToSet(handed \o a) = ToSet(handed) \cup ToSet(a)
    BY <1>1, <2>2, Union
  <2>4. Arrived' = Arrived
    BY <2>1, <2>2, <2>3 DEF Arrived
  <2>. QED BY <2>4
<1>7. CASE Suspend(c) \/ Join(c) \/ TakeBetween(c) \/ Resume(c) \/ Stop(c) \/ Cancel(c)
           \/ Shutdown(c) \/ CompleteHook(c) \/ Free(c) \/ ShutdownStrategy(c) \/ Closed(c)
           \/ Interrupt(c)
  BY <1>4, <1>7 DEF Suspend, Join, TakeBetween, Resume, Stop, Cancel, Shutdown, CompleteHook, Free,
                    ShutdownStrategy, Closed, Interrupt
<1>. QED BY <1>2, <1>3, <1>5, <1>6, <1>7 DEF Step

(* A step of one client leaves what is known of the others.                  *)
LEMMA AnswerOthers ==
  ASSUME TypeOK, LineInv, WaitInv, AnswerInv,
         NEW c \in Client, Step(c) \/ Interrupt(c), NEW e \in Client, e # c
  PROVE  AnswerOf(e)'
<1>1. /\ takers \in Seq(Client) /\ putters \in Seq(Value) /\ IsInjective(takers)
      /\ deferred \in [Client -> {"none", "pending", "done", "interrupted"}]
      /\ pc \in [Client -> Label] /\ rest \in [Client -> Seq(Value)]
      /\ lo \in [Client -> Nat] /\ isShutdown \in BOOLEAN
  BY DEF TypeOK, LineInv
<1>2. AnswerOf(e)
  BY DEF AnswerInv
<1>3. /\ \A v \in Arrived' : v[1] = e => v \in Arrived \cup ToSet(putters)
      /\ strategy # "sliding" => Arrived \subseteq Arrived'
  BY ArrivedStep
<1>4. ASSUME pc'[e] = pc[e], rest'[e] = rest[e], lo'[e] = lo[e], strategy' = strategy,
             \A v \in ToSet(putters') : v[1] = e => v \in ToSet(putters),
             \/ deferred'[e] = deferred[e]
             \/ deferred[e] = "pending" /\ deferred'[e] = "interrupted"
             \/ deferred[e] = "pending" /\ deferred'[e] = "done" /\ ~Offers(e),
             (\E v \in ToSet(putters') : v[1] = e) =>
               \A v \in ToSet(putters) : v[1] = e => v \in ToSet(putters')
      PROVE  AnswerOf(e)'
  BY <1>2, <1>3, <1>4, AnswerKept
<1>5. CASE Offer(c)
  <2>1. UNCHANGED <<putters, strategy, lo>>
    BY <1>5 DEF Offer
  <2>2. CASE isShutdown
    <3>1. pc'[e] = pc[e] /\ UNCHANGED <<rest, deferred>>
      BY <1>1, <1>5, <2>2 DEF Offer, Goto
    <3>. QED BY <1>4, <2>1, <3>1
  <2>3. CASE ~isShutdown
    <3>1. PICK told, given, kept, left : Parted(c, told, given, kept, left)
      BY <1>5, <2>3, OfferParts
    <3>2. /\ told \in Seq(Client) /\ takers' \in Seq(Client) /\ takers = told \o takers'
          /\ Settle(ToSet(told), "done") /\ rest' = [rest EXCEPT ![c] = left]
          /\ \E label : pc' = [pc EXCEPT ![c] = label]
      BY <3>1 DEF Parted
    <3>3. ToSet(takers) = ToSet(told) \cup ToSet(takers')
      BY <1>1, <3>2, Union
    <3>4. deferred'[e] = IF e \in ToSet(told) /\ deferred[e] = "pending" THEN "done" ELSE deferred[e]
      BY <3>2, SettleType
    <3>5. e \in ToSet(told) => ~Offers(e)
      BY <3>3 DEF WaitInv, WaitOf, Offers
    <3>6. pc'[e] = pc[e] /\ rest'[e] = rest[e]
      BY <1>1, <3>2
    <3>. QED BY <1>4, <2>1, <3>4, <3>5, <3>6
  <2>. QED BY <2>2, <2>3
<1>6. CASE Suspend(c)
  <2>1. /\ pc[c] = "surplus" /\ putters' = putters \o rest[c] /\ UNCHANGED <<strategy, rest, lo>>
        /\ deferred'[e] = deferred[e] /\ pc'[e] = pc[e]
    BY <1>1, <1>6 DEF Suspend, At, Goto
  <2>2. /\ rest[c] \in Seq(Value)
        /\ \A i \in 1..Len(rest[c]) : rest[c][i] = <<c, lo[c] - Len(rest[c]) + i>>
    BY <1>1, <2>1 DEF WaitInv, WaitOf
  <2>3. PICK r \in Seq(Value) : r = rest[c]
    BY <2>2
  <2>4. ToSet(putters') = ToSet(putters) \cup ToSet(r) /\ \A v \in ToSet(r) : v[1] = c
    <3>1. ToSet(putters \o r) = ToSet(putters) \cup ToSet(r)
      BY <1>1, Union
    <3>2. \A v \in ToSet(r) : v[1] = c
      BY <2>2, <2>3 DEF ToSet
    <3>. QED BY <2>1, <2>3, <3>1, <3>2
  <2>. QED BY <1>4, <2>1, <2>4
<1>7. CASE Cancel(c)
  <2>1. PICK Q : Q = {v \in Value : v[1] # c} /\ putters' = Keep(putters, Q)
    BY <1>7 DEF Cancel
  <2>2. ToSet(putters') = ToSet(putters) \cap Q /\ ToSet(putters) \subseteq Value
    <3>1. ToSet(putters) \subseteq Value
      BY <1>1 DEF ToSet
    <3>. QED BY <1>1, <2>1, <3>1, KeepMembers
  <2>3. UNCHANGED <<strategy, rest, lo, deferred>> /\ pc'[e] = pc[e]
    BY <1>1, <1>7 DEF Cancel, Goto
  <2>. QED BY <1>4, <2>1, <2>2, <2>3
<1>8. CASE ShutdownStrategy(c)
  <2>1. putters' = <<>> /\ UNCHANGED <<strategy, rest, lo, deferred>> /\ pc'[e] = pc[e]
    BY <1>1, <1>8 DEF ShutdownStrategy, Goto
  <2>. QED BY <1>4, <2>1, Heads
<1>9. CASE Free(c)
  <2>1. UNCHANGED <<putters, strategy, rest, lo, pc>> /\ \E who : Settle({who}, "interrupted")
    BY <1>9 DEF Free
  <2>2. deferred'[e] = deferred[e] \/ (deferred[e] = "pending" /\ deferred'[e] = "interrupted")
    BY <2>1, SettleType
  <2>. QED BY <1>4, <2>1, <2>2
<1>10. CASE Slide(c) \/ Take(c) \/ Join(c) \/ TakeBetween(c) \/ Poll(c) \/ Resume(c) \/ Stop(c)
            \/ Shutdown(c) \/ CompleteHook(c) \/ Closed(c) \/ Interrupt(c)
  <2>1. UNCHANGED <<putters, strategy, rest>> /\ deferred'[e] = deferred[e]
    BY <1>1, <1>10 DEF Slide, Take, Join, TakeBetween, Poll, Resume, Stop, Shutdown, CompleteHook,
                       Closed, Interrupt
  <2>2. pc'[e] = pc[e] /\ lo'[e] = lo[e]
    BY <1>1, <1>10 DEF Slide, Take, Join, TakeBetween, Poll, Resume, Stop, Shutdown, CompleteHook,
                       Closed, Interrupt, Goto, Got
  <2>. QED BY <1>4, <2>1, <2>2
<1>. QED BY <1>5, <1>6, <1>7, <1>8, <1>9, <1>10 DEF Step

(* A client's own step keeps its answer true.                                *)
LEMMA AnswerSelf ==
  ASSUME TypeOK, LineInv, WaitInv, AnswerInv, NEW c \in Client, Step(c) \/ Interrupt(c)
  PROVE  AnswerOf(c)'
<1>1. /\ takers \in Seq(Client) /\ putters \in Seq(Value) /\ IsInjective(takers)
      /\ deferred \in [Client -> {"none", "pending", "done", "interrupted"}]
      /\ pc \in [Client -> Label] /\ rest \in [Client -> Seq(Value)]
      /\ lo \in [Client -> Nat] /\ isShutdown \in BOOLEAN
  BY DEF TypeOK, LineInv
<1>2. AnswerOf(c) /\ WaitOf(c)
  BY DEF AnswerInv, WaitInv
<1>3. pc[c] \notin {"waiting", "cancelling"} =>
        c \notin ToSet(takers) /\ \A v \in ToSet(putters) : v[1] # c
  BY NotListed
<1>4. strategy # "sliding" => Arrived \subseteq Arrived'
  BY ArrivedStep
<1>5. ASSUME strategy' = strategy,
             pc'[c] \notin {"offer", "unsafeOffer", "surplus", "refused", "accepted"},
             \A v \in ToSet(putters') : v[1] # c,
             \/ deferred'[c] # "done" \/ rest'[c] = <<>>
             \/ deferred[c] = "done" /\ rest'[c] = rest[c] /\ lo'[c] = lo[c]
      PROVE  AnswerOf(c)'
  <2>1. lo'[c] = lo[c] => Values(c)' = Values(c)
    BY DEF Values
  <2>. QED BY <1>2, <1>4, <1>5, <2>1 DEF AnswerOf, Offers
<1>6. CASE Offer(c)
  <2>1. /\ pc[c] \in {"offer", "unsafeOffer"} /\ UNCHANGED <<putters, lo, strategy>>
        /\ \A v \in ToSet(putters) : v[1] # c
    BY <1>3, <1>6 DEF Offer, At
  <2>2. deferred[c] = "none" /\ \A v \in Arrived : v[1] # c
    BY <1>2, <2>1 DEF AnswerOf
  <2>3. CASE isShutdown
    <3>1. pc'[c] \in {"stopped", "refused"} /\ UNCHANGED <<deferred, items, handed>>
      BY <1>1, <1>6, <2>3 DEF Offer, Goto
    <3>2. Arrived' = Arrived /\ <<c, lo[c]>> \notin Arrived
      <4>1. <<c, lo[c]>>[1] = c
        OBVIOUS
      <4>. QED BY <2>2, <3>1, <4>1 DEF Arrived
    <3>. QED BY <2>1, <2>2, <3>1, <3>2 DEF AnswerOf
  <2>4. CASE ~isShutdown
    <3>1. PICK told, given, kept, left : Parted(c, told, given, kept, left)
      BY <1>6, <2>4, OfferParts
    <3>2. /\ Arrived' = Arrived \cup ToSet(given) \cup ToSet(kept)
          /\ ToSet(Values(c)) = ToSet(given) \cup ToSet(kept) \cup ToSet(left)
          /\ (ToSet(given) \cup ToSet(kept)) \cap ToSet(left) = {}
      BY <3>1, OfferArrives
    <3>3. /\ left \in Seq(Value) /\ rest' = [rest EXCEPT ![c] = left]
          /\ Settle(ToSet(told), "done")
          /\ \A i \in 1..Len(left) : left[i] = <<c, lo[c] - Len(left) + i>>
          /\ pc' = [pc EXCEPT ![c] = IF left = <<>> THEN "accepted"
                                     ELSE IF pc[c] = "unsafeOffer" \/ strategy = "dropping"
                                     THEN "refused" ELSE "surplus"]
      BY <3>1 DEF Parted
    <3>4. deferred'[c] = "none"
      BY <2>2, <3>3, SettleType
    <3>5. left # <<>> => <<c, lo[c]>> \in ToSet(left)
      <4>1. left # <<>> => Len(left) \in 1..Len(left)
        BY <3>3
      <4>2. left # <<>> => left[Len(left)] = <<c, lo[c]>>
        BY <1>1, <3>3, <4>1
      <4>3. \A i \in 1..Len(left) : left[i] \in ToSet(left)
        BY <3>3 DEF ToSet
      <4>. QED BY <4>1, <4>2, <4>3
    <3>6. <<c, lo[c]>> \notin Arrived
      <4>1. <<c, lo[c]>>[1] = c
        OBVIOUS
      <4>. QED BY <2>2, <4>1
    <3>7. Values(c)' = Values(c)
      BY <2>1 DEF Values
    <3>8. /\ pc'[c] \in {"accepted", "refused", "surplus"}
          /\ pc'[c] = "accepted" => left = <<>>
          /\ pc'[c] # "accepted" => left # <<>>
          /\ rest'[c] = left
      BY <1>1, <3>3
    <3>9. pc'[c] = "refused" => <<c, lo'[c]>> \notin Arrived'
      BY <2>1, <3>2, <3>5, <3>6, <3>8
    <3>10. pc'[c] = "accepted" => ToSet(Values(c)) \subseteq Arrived'
      BY <3>2, <3>8, Heads
    <3>11. ToSet(Values(c)) \subseteq Arrived' \cup ToSet(rest'[c])
      BY <3>2, <3>8
    <3>. QED BY <2>1, <3>4, <3>7, <3>8, <3>9, <3>10, <3>11 DEF AnswerOf
  <2>. QED BY <2>3, <2>4
<1>7. CASE Slide(c)
  <2>1. /\ strategy = "sliding" /\ UNCHANGED <<putters, strategy>> /\ pc'[c] = "accepted"
    BY <1>1, <1>7 DEF Slide, Goto
  <2>. QED BY <2>1 DEF AnswerOf
<1>8. CASE Suspend(c)
  <2>1. /\ pc[c] = "surplus" /\ putters' = putters \o rest[c]
        /\ UNCHANGED <<strategy, rest, lo, items, handed>> /\ strategy = "backPressure"
        /\ deferred'[c] = "pending" /\ pc'[c] \in {"waiting", "cancelling"}
    BY <1>1, <1>8 DEF Suspend, At, Goto, StopOrWait
  <2>2. PICK r \in Seq(Value) : r = rest[c]
    BY <1>1
  <2>3. ToSet(putters') = ToSet(putters) \cup ToSet(r)
    <3>1. ToSet(putters \o r) = ToSet(putters) \cup ToSet(r)
      BY <1>1, Union
    <3>. QED BY <2>1, <2>2, <3>1
  <2>4. Values(c)' = Values(c) /\ Arrived' = Arrived
    BY <2>1 DEF Values, Arrived
  <2>5. ToSet(Values(c)) \subseteq Arrived \cup ToSet(r)
    BY <1>2, <2>1, <2>2 DEF AnswerOf
  <2>. QED BY <2>1, <2>3, <2>4, <2>5 DEF AnswerOf
<1>9. CASE Join(c)
  <2>1. /\ pc[c] = "joining" /\ UNCHANGED <<strategy, putters, rest>>
        /\ deferred'[c] = "pending" /\ pc'[c] \in {"waiting", "cancelling"}
    BY <1>1, <1>9 DEF Join, At, Goto, StopOrWait
  <2>. QED BY <1>3, <1>5, <2>1
<1>10. CASE Cancel(c)
  <2>1. PICK Q : Q = {v \in Value : v[1] # c} /\ putters' = Keep(putters, Q)
    BY <1>10 DEF Cancel
  <2>2. ToSet(putters') = ToSet(putters) \cap Q
    BY <1>1, <2>1, KeepMembers
  <2>3. UNCHANGED <<strategy, rest, lo, deferred>> /\ pc'[c] = "stopped"
    BY <1>1, <1>10 DEF Cancel, Goto
  <2>. QED BY <1>5, <2>1, <2>2, <2>3
<1>11. CASE ShutdownStrategy(c)
  <2>1. /\ putters' = <<>> /\ UNCHANGED <<strategy, rest, lo, deferred>>
        /\ pc'[c] = "freeingPutters"
    BY <1>1, <1>11 DEF ShutdownStrategy, Goto
  <2>. QED BY <1>5, <2>1, Heads
<1>12. CASE Free(c)
  <2>1. /\ UNCHANGED <<putters, strategy, rest, lo, pc>> /\ \E who : Settle({who}, "interrupted")
        /\ pc[c] \in {"freeingTakers", "freeingPutters"}
    BY <1>12 DEF Free, At
  <2>2. deferred'[c] = deferred[c] \/ deferred'[c] = "interrupted"
    BY <2>1, SettleType
  <2>. QED BY <1>3, <1>5, <2>1, <2>2
<1>13. CASE Take(c) \/ Poll(c)
  <2>1. /\ UNCHANGED <<strategy, putters, rest>> /\ pc[c] \in {"taking", "polling"}
        /\ pc'[c] \in {"stopped", "joining", "between", "taking", "taken"}
    BY <1>1, <1>13 DEF Take, Poll, At, Goto, Got
  <2>2. rest[c] = <<>>
    BY <1>2, <2>1 DEF WaitOf
  <2>. QED BY <1>3, <1>5, <2>1, <2>2
<1>14. CASE Resume(c)
  <2>1. UNCHANGED <<strategy, putters, rest, deferred, items, handed>> /\ pc[c] = "waiting"
    BY <1>14 DEF Resume, At
  <2>2. Arrived' = Arrived
    BY <2>1 DEF Arrived
  <2>3. CASE deferred[c] = "interrupted" /\ Goto(c, "cancelling") /\ UNCHANGED <<lo, hi>>
    <3>1. Values(c)' = Values(c) /\ pc'[c] = "cancelling"
      BY <1>1, <2>3 DEF Values, Goto
    <3>. QED BY <1>2, <2>1, <2>2, <2>3, <3>1 DEF AnswerOf, Offers
  <2>4. CASE deferred[c] = "done" /\ Offers(c) /\ Goto(c, "accepted") /\ UNCHANGED <<lo, hi>>
    <3>1. Values(c)' = Values(c) /\ pc'[c] = "accepted"
      BY <1>1, <2>4 DEF Values, Goto
    <3>. QED BY <1>2, <2>1, <2>2, <2>4, <3>1 DEF AnswerOf, Offers
  <2>5. CASE deferred[c] = "done" /\ ~Offers(c) /\ Got(c, 1, "between")
    <3>1. /\ pc'[c] \in {"between", "taken"} /\ rest'[c] = <<>>
          /\ \A v \in ToSet(putters) : v[1] # c
      BY <1>1, <1>2, <2>1, <2>5 DEF Got, Goto, Offers, WaitOf, Listed
    <3>. QED BY <1>5, <2>1, <3>1
  <2>. QED BY <1>14, <2>3, <2>4, <2>5 DEF Resume
<1>15. CASE Stop(c) \/ Interrupt(c)
  <2>1. UNCHANGED <<strategy, putters, rest, lo, deferred, items, handed>>
    BY <1>15 DEF Stop, Interrupt
  <2>2. pc'[c] = pc[c] \/ pc'[c] \in {"cancelling", "stopped"}
    BY <1>1, <1>15 DEF Stop, Interrupt, Goto
  <2>3. Values(c)' = Values(c) /\ Arrived' = Arrived
    BY <2>1 DEF Values, Arrived
  <2>. QED BY <1>2, <2>1, <2>2, <2>3 DEF AnswerOf, Offers
<1>16. CASE TakeBetween(c) \/ Shutdown(c) \/ CompleteHook(c) \/ Closed(c)
  <2>1. /\ UNCHANGED <<strategy, putters, rest, lo, deferred>>
        /\ pc[c] \notin {"waiting", "cancelling"}
    BY <1>16 DEF TakeBetween, Shutdown, CompleteHook, Closed, At
  <2>2. pc'[c] \in {"taken", "stopped", "polling", "hook", "freeingTakers", "closed"}
    BY <1>1, <1>16 DEF TakeBetween, Shutdown, CompleteHook, Closed, Goto
  <2>. QED BY <1>3, <1>5, <2>1, <2>2
<1>. QED BY <1>6, <1>7, <1>8, <1>9, <1>10, <1>11, <1>12, <1>13, <1>14, <1>15, <1>16 DEF Step

(* Initially nothing was offered.                                            *)
LEMMA AnswerInit == Init => AnswerInv
<1>. SUFFICES ASSUME Init, NEW c \in Client PROVE AnswerOf(c)
  BY DEF AnswerInv
<1>1. /\ items = <<>> /\ putters = <<>> /\ handed = <<>> /\ rest = [e \in Client |-> <<>>]
      /\ deferred = [e \in Client |-> "none"]
  BY DEF Init
<1>2. pc[c] \in Operation
  <2>1. PICK program \in [Client -> UNION {Program[e] : e \in Client}] :
          /\ \A e \in Client : program[e] \in Program[e]
          /\ pc = [e \in Client |-> program[e][1]]
    BY DEF Init
  <2>. QED BY <2>1, ProgramAssumption
<1>3. Arrived = {} /\ ToSet(putters) = {}
  BY <1>1, Heads DEF Arrived
<1>. QED BY <1>1, <1>2, <1>3 DEF AnswerOf, Operation

(* Every step keeps what is known of the answers.                            *)
LEMMA AnswerNext == QueueInv /\ AnswerInv /\ [Next]_vars => AnswerInv'
<1>. SUFFICES ASSUME QueueInv, AnswerInv, [Next]_vars PROVE AnswerInv'
  OBVIOUS
<1>1. TypeOK /\ LineInv /\ WaitInv
  BY DEF QueueInv
<1>2. CASE Loop
  BY <1>1, <1>2, AnswerLoop
<1>3. ASSUME NEW c \in Client, Step(c) \/ Interrupt(c) PROVE AnswerInv'
  <2>1. ASSUME NEW e \in Client PROVE AnswerOf(e)'
    BY <1>1, <1>3, AnswerOthers, AnswerSelf
  <2>. QED BY <2>1 DEF AnswerInv
<1>4. CASE UNCHANGED vars
  BY <1>4 DEF vars, AnswerInv, AnswerOf, Arrived, Values, Offers
<1>. QED BY <1>2, <1>3, <1>4 DEF Next

(* The answer that an offer gets is true, whatever is offered, taken,        *)
(* interrupted and shut down in between.                                    *)
THEOREM AnswersStayTrue == Spec => []AnswersAreTrue
<1>1. QueueInv /\ AnswerInv => AnswersAreTrue
  BY DEF AnswerInv, AnswerOf, AnswersAreTrue
<1>. QED BY <1>1, AnswerInit, AnswerNext, QueueInit, QueueNext, PTL DEF Spec

-----------------------------------------------------------------------------
(* Nothing is in the stream of values twice, and what a client is about to   *)
(* send into it is not there yet.                                           *)
StreamInv ==
  /\ IsInjective(Stream)
  /\ \A c \in Client : pc[c] = "surplus" => ToSet(rest[c]) \cap ToSet(Stream) = {}

(* The parts of the stream.                                                  *)
LEMMA StreamIs ==
  ASSUME TypeOK
  PROVE  /\ Stream = handed \o (items \o putters)
         /\ Stream \in Seq(Value) /\ handed \o items \in Seq(Value)
         /\ items \o putters \in Seq(Value)
         /\ ToSet(Stream) = Arrived \cup ToSet(putters)
<1>1. handed \in Seq(Value) /\ items \in Seq(Value) /\ putters \in Seq(Value)
  BY DEF TypeOK
<1>2. PICK f \in Seq(Value) : f = handed \o items /\ ToSet(f) = ToSet(handed) \cup ToSet(items)
  BY <1>1, Union
<1>3. f \o putters \in Seq(Value) /\ ToSet(f \o putters) = ToSet(f) \cup ToSet(putters)
  BY <1>1, Union
<1>4. (handed \o items) \o putters = handed \o (items \o putters)
  BY <1>1, ConcatAssociative
<1>5. items \o putters \in Seq(Value)
  BY <1>1, Union
<1>. QED BY <1>2, <1>3, <1>4, <1>5 DEF Stream, Arrived

(* The loops move values along the stream.                                   *)
LEMMA StreamLoop ==
  ASSUME TypeOK, Loop
  PROVE  Stream' = Stream /\ IsPrefix(handed, handed')
<1>1. handed \in Seq(Value) /\ items \in Seq(Value) /\ putters \in Seq(Value) /\ <<>> \in Seq(Value)
  BY DEF TypeOK
<1>2. PICK f \in Seq(Value), b \in Seq(Value), r \in Seq(Value) :
        f = handed /\ b = items /\ r = putters
  BY <1>1
<1>3. Stream = (f \o b) \o r /\ Stream' = (handed' \o items') \o putters'
  BY <1>2 DEF Stream
<1>4. ASSUME NEW x \in Value
      PROVE  <<x>> \in Seq(Value) /\ Append(f, x) = f \o <<x>> /\ Append(b, x) = b \o <<x>>
  <2>1. f \in Seq(Value) /\ b \in Seq(Value)
    BY <1>2
  <2>. QED BY <2>1, AppendIsConcat
<1>5. IsPrefix(f, f)
  BY <1>2, ArePrefixes
<1>6. CASE HandOver
  <2>1. PICK x \in Value, t \in Seq(Value), o \in Seq(Value) :
          x = Head(items) /\ t = Tail(items) /\ o = <<x>> /\ b = o \o t
    <3>1. /\ Head(items) \in Value /\ Tail(items) \in Seq(Value)
          /\ items = <<Head(items)>> \o Tail(items)
      BY <1>1, <1>6, HeadAndTail DEF HandOver
    <3>. QED BY <1>2, <1>4, <3>1
  <2>2. handed' = f \o o /\ items' = t /\ putters' = r
    BY <1>2, <1>4, <1>6, <2>1 DEF HandOver
  <2>3. (f \o o) \o t = f \o (o \o t)
    BY <1>2, <2>1, ConcatAssociative, SMTT(30)
  <2>4. IsPrefix(f, f \o o)
    BY <1>2, <2>1, ArePrefixes
  <2>. QED BY <1>2, <1>3, <2>1, <2>2, <2>3, <2>4
<1>7. ASSUME putters # <<>>
      PROVE  \E x \in Value, t \in Seq(Value), o \in Seq(Value) :
               x = Head(putters) /\ t = Tail(putters) /\ o = <<x>> /\ r = o \o t
  <2>1. /\ Head(putters) \in Value /\ Tail(putters) \in Seq(Value)
        /\ putters = <<Head(putters)>> \o Tail(putters)
    BY <1>1, <1>7, HeadAndTail
  <2>. QED BY <1>2, <1>4, <2>1
<1>8. CASE Pair
  <2>1. PICK x \in Value, t \in Seq(Value), o \in Seq(Value) :
          x = Head(putters) /\ t = Tail(putters) /\ o = <<x>> /\ r = o \o t
    BY <1>7, <1>8 DEF Pair
  <2>2. handed' = f \o o /\ items' = <<>> /\ b = <<>> /\ putters' = t
    BY <1>2, <1>4, <1>8, <2>1 DEF Pair
  <2>3. (f \o o) \o t = f \o (o \o t) /\ f \o o \in Seq(Value)
    BY <1>2, <2>1, ConcatAssociative, ConcatProperties, SMTT(30)
  <2>4. f \o <<>> = f /\ (f \o o) \o <<>> = f \o o
    BY <1>2, <2>3, ConcatEmptySeq
  <2>5. IsPrefix(f, f \o o)
    BY <1>2, <2>1, ArePrefixes
  <2>. QED BY <1>2, <1>3, <2>1, <2>2, <2>3, <2>4, <2>5
<1>9. CASE Refill
  <2>1. PICK x \in Value, t \in Seq(Value), o \in Seq(Value) :
          x = Head(putters) /\ t = Tail(putters) /\ o = <<x>> /\ r = o \o t
    BY <1>7, <1>9 DEF Refill
  <2>2. handed' = f /\ items' = b \o o /\ putters' = t
    BY <1>2, <1>4, <1>9, <2>1 DEF Refill
  <2>3. f \o (b \o o) = (f \o b) \o o /\ f \o b \in Seq(Value)
    BY <1>2, <2>1, ConcatAssociative, ConcatProperties
  <2>4. ((f \o b) \o o) \o t = (f \o b) \o (o \o t)
    BY <2>1, <2>3, ConcatAssociative, SMTT(30)
  <2>. QED BY <1>2, <1>3, <1>5, <2>1, <2>2, <2>3, <2>4
<1>10. CASE Return
  <2>1. UNCHANGED <<handed, items, putters>>
    BY <1>10 DEF Return
  <2>. QED BY <1>2, <1>3, <1>5, <2>1
<1>. QED BY <1>6, <1>8, <1>9, <1>10 DEF Loop

(* What comes after the first part of a concatenation is the second.         *)
LEMMA AfterFirst ==
  ASSUME NEW S, NEW a \in Seq(S), NEW b \in Seq(S)
  PROVE  After(a \o b, Len(a)) = b
<1>1. PICK m \in Nat, n \in Nat : m = Len(a) /\ n = Len(b)
  OBVIOUS
<1>2. /\ a \o b \in Seq(S) /\ Len(a \o b) = m + n /\ m \in 0..(m + n)
      /\ \A k \in 1..n : (a \o b)[m + k] = b[k]
  BY <1>1, Joined, ConcatProperties
<1>3. PICK c \in Seq(S) : c = a \o b
  BY <1>2
<1>. DEFINE t == SubSeq(c, m + 1, Len(c))
<1>4. t \in Seq(S) /\ Len(t) = n /\ \A k \in 1..n : t[k] = c[m + k]
  <2>1. m \in 0..Len(c) /\ Len(c) - m = n
    BY <1>1, <1>2, <1>3
  <2>. QED BY <1>3, <2>1, Cut
<1>5. t = b
  BY <1>1, <1>2, <1>3, <1>4, SeqEqual
<1>. QED BY <1>1, <1>3, <1>5 DEF After

(* Two sequences, and where the end of their concatenation begins.           *)
Ends(S, b, s, n) ==
  /\ b \in Seq(S) /\ s \in Seq(S) /\ n \in 0..(Len(b) + Len(s))
  /\ IsInjective(b) /\ IsInjective(s)

(* What an end of a concatenation keeps of its first part, and of its second. *)
LEMMA EndOfConcat ==
  ASSUME NEW S, NEW b, NEW s, NEW n, Ends(S, b, s, n)
  PROVE  \E m \in Seq(S) : /\ \E K : After(b \o s, n) = Keep(b, K) \o m
                           /\ IsInjective(m) /\ ToSet(m) \subseteq ToSet(s)
<1>. SUFFICES ASSUME b \in Seq(S), s \in Seq(S), n \in 0..(Len(b) + Len(s)),
                     IsInjective(b), IsInjective(s)
              PROVE  \E m \in Seq(S) : /\ \E K : After(b \o s, n) = Keep(b, K) \o m
                                       /\ IsInjective(m) /\ ToSet(m) \subseteq ToSet(s)
  BY DEF Ends
<1>1. Len(b) \in Nat /\ Len(s) \in Nat
  OBVIOUS
<1>2. CASE n <= Len(b)
  <2>1. n \in 0..Len(b)
    BY <1>1, <1>2
  <2>2. PICK x \in Seq(S), y \in Seq(S) : b = x \o y /\ Len(x) = n
    <3>1. /\ First(b, n) \in Seq(S) /\ After(b, n) \in Seq(S)
          /\ First(b, n) \o After(b, n) = b /\ Len(First(b, n)) = n
      BY <2>1, Cut DEF First, After
    <3>. QED BY <3>1
  <2>3. (x \o y) \o s = x \o (y \o s)
    BY ConcatAssociative, SMTT(60)
  <2>4. y \o s \in Seq(S)
    BY ConcatProperties
  <2>5. After(x \o (y \o s), Len(x)) = y \o s
    BY <2>4, AfterFirst
  <2>6. ToSet(x) \cap ToSet(y) = {}
    BY <2>2, Union
  <2>7. Keep(x, ToSet(y)) = <<>> /\ Keep(y, ToSet(y)) = y
    BY <2>6, KeepAllOrNone
  <2>8. Keep(x \o y, ToSet(y)) = Keep(x, ToSet(y)) \o Keep(y, ToSet(y))
    BY KeepSplits, SMTT(30)
  <2>9. <<>> \o y = y
    BY ConcatEmptySeq
  <2>10. Keep(b, ToSet(y)) = y
    BY <2>2, <2>7, <2>8, <2>9
  <2>11. After(b \o s, n) = Keep(b, ToSet(y)) \o s
    BY <2>2, <2>3, <2>5, <2>10
  <2>. QED BY <2>11
<1>3. CASE ~(n <= Len(b))
  <2>1. PICK k \in 0..Len(s) : n = Len(b) + k
    <3>1. n - Len(b) \in 0..Len(s) /\ n = Len(b) + (n - Len(b))
      BY <1>1, <1>3
    <3>. QED BY <3>1
  <2>2. PICK x \in Seq(S), y \in Seq(S) : s = x \o y /\ Len(x) = k
    <3>1. /\ First(s, k) \in Seq(S) /\ After(s, k) \in Seq(S)
          /\ First(s, k) \o After(s, k) = s /\ Len(First(s, k)) = k
      BY <2>1, Cut DEF First, After
    <3>. QED BY <3>1
  <2>3. b \o (x \o y) = (b \o x) \o y
    BY ConcatAssociative, SMTT(60)
  <2>4. b \o x \in Seq(S) /\ Len(b \o x) = Len(b) + Len(x)
    BY ConcatProperties
  <2>5. After((b \o x) \o y, Len(b \o x)) = y
    BY <2>4, AfterFirst
  <2>6. Keep(b, {}) = <<>> /\ <<>> \o y = y
    BY KeepAllOrNone, ConcatEmptySeq
  <2>7. IsInjective(y) /\ ToSet(y) \subseteq ToSet(s)
    BY <2>2, Union
  <2>8. After(b \o s, n) = Keep(b, {}) \o y
    BY <2>1, <2>2, <2>3, <2>4, <2>5, <2>6
  <2>. QED BY <2>7, <2>8
<1>. QED BY <1>2, <1>3

(* How a client's step changes the stream: after a part that stays, some of  *)
(* the rest goes, and values of the client that were not there come in.     *)
Changes(c, p, q, n, K) ==
  /\ p \in Seq(Value) /\ q \in Seq(Value) /\ n \in Seq(Value)
  /\ Stream = p \o q
  /\ Stream' = p \o (Keep(q, K) \o n)
  /\ IsInjective(n) /\ ToSet(n) \cap ToSet(Stream) = {} /\ \A v \in ToSet(n) : v[1] = c

(* A stream that only grows.                                                 *)
LEMMA Grows ==
  ASSUME TypeOK, NEW c \in Client, NEW n \in Seq(Value), Stream' = Stream \o n,
         IsInjective(n), ToSet(n) \cap ToSet(Stream) = {}, \A v \in ToSet(n) : v[1] = c
  PROVE  \E p, q, K : Changes(c, p, q, n, K)
<1>1. Stream \in Seq(Value) /\ <<>> \in Seq(Value)
  BY StreamIs
<1>2. PICK q \in Seq(Value) : q = <<>>
  BY <1>1
<1>3. ToSet(q) \cap {} = {}
  OBVIOUS
<1>4. Keep(q, {}) = <<>>
  BY <1>2, KeepAllOrNone
<1>5. Stream \o q = Stream /\ <<>> \o n = n
  BY <1>1, <1>2, ConcatEmptySeq
<1>6. Changes(c, Stream, q, n, {})
  BY <1>1, <1>2, <1>4, <1>5 DEF Changes
<1>. QED BY <1>6

(* A step that leaves the stream as it is.                                   *)
LEMMA Stays ==
  ASSUME TypeOK, NEW c \in Client, Stream' = Stream
  PROVE  \E p, q, n, K : Changes(c, p, q, n, K)
<1>1. Stream \in Seq(Value)
  BY StreamIs
<1>2. PICK n \in Seq(Value) : n = <<>> /\ ToSet(n) = {} /\ IsInjective(n)
  <2>1. <<>> \in Seq(Value) /\ ToSet(<<>>) = {} /\ IsInjective(<<>>)
    BY Heads DEF IsInjective
  <2>. QED BY <2>1
<1>3. Stream \o n = Stream
  BY <1>1, <1>2, ConcatEmptySeq
<1>. QED BY <1>2, <1>3, Grows

(* What an offer gives and what the queue keeps of it goes to the end of the *)
(* stream, also when it passes both buffers by.                             *)
LEMMA OfferEntersLast ==
  ASSUME TypeOK, LoopInv, Idle, putters' = putters,
         NEW c, NEW told, NEW given, NEW kept, NEW left, Parted(c, told, given, kept, left)
  PROVE  Stream' = Stream \o (given \o kept)
<1>0. told \in Seq(Client) /\ given \in Seq(Value) /\ kept \in Seq(Value)
  BY DEF Parted
<1>1. /\ Len(told) = Len(given) /\ takers = told \o takers' /\ takers' \in Seq(Client)
      /\ handed' = handed \o given /\ items' = items \o kept /\ Len(kept) <= Room
      /\ told # <<>> => items = <<>>
  BY DEF Parted
<1>2. /\ takers # <<>> => putters = <<>>
      /\ putters # <<>> => Room = 0
  BY Heads DEF LoopInv, Idle
<1>3. given # <<>> => told # <<>>
  <2>1. Len(told) = Len(given)
    BY <1>1
  <2>2. given # <<>> => Len(given) # 0
    BY <1>0
  <2>3. told = <<>> => Len(told) = 0
    OBVIOUS
  <2>. QED BY <2>1, <2>2, <2>3
<1>4. told # <<>> => takers # <<>>
  <2>1. takers' \in Seq(Client) /\ takers = told \o takers'
    BY <1>1
  <2>. QED BY <1>0, <2>1, ConcatEqualIffEmpty
<1>5. given = <<>> \/ (items = <<>> /\ putters = <<>>)
  BY <1>1, <1>2, <1>3, <1>4
<1>6. kept = <<>> \/ putters = <<>>
  <2>1. kept # <<>> => Len(kept) > 0
    BY <1>0
  <2>2. putters # <<>> => ~(Len(kept) > 0)
    BY <1>1, <1>2
  <2>. QED BY <2>1, <2>2
<1>7. handed \in Seq(Value) /\ items \in Seq(Value) /\ putters \in Seq(Value)
  BY DEF TypeOK
<1>8. PICK f, b, r : f = handed /\ b = items /\ r = putters
  OBVIOUS
<1>9. ((f \o given) \o (b \o kept)) \o r = ((f \o b) \o r) \o (given \o kept)
  <2>1. Behind(Value, f, b, r, given, kept)
    BY <1>0, <1>5, <1>6, <1>7, <1>8 DEF Behind
  <2>2. Rearranged(f, b, r, given, kept)
    BY <2>1, Inserted, SMT
  <2>. QED BY <2>2, Zenon DEF Rearranged
<1>. QED BY <1>1, <1>8, <1>9 DEF Stream

(* Every step of a client changes the stream like that.                      *)
LEMMA StreamStep ==
  ASSUME QueueInv, AnswerInv, StreamInv, NEW c \in Client, Step(c) \/ Interrupt(c)
  PROVE  /\ \E p, q, n, K : Changes(c, p, q, n, K)
         /\ IsPrefix(handed, handed')
<1>1. TypeOK /\ LoopInv /\ LineInv /\ WaitInv /\ WaitOf(c) /\ AnswerOf(c)
  BY DEF QueueInv, WaitInv, AnswerInv
<1>2. /\ handed \in Seq(Value) /\ items \in Seq(Value) /\ putters \in Seq(Value)
      /\ rest[c] \in Seq(Value) /\ hi[c] \in Nat /\ lo[c] \in Nat /\ <<>> \in Seq(Value)
  BY <1>1 DEF TypeOK
<1>3. PICK f, b, r, s : /\ f = handed /\ b = items /\ r = putters /\ s = rest[c]
                        /\ f \in Seq(Value) /\ b \in Seq(Value)
                        /\ r \in Seq(Value) /\ s \in Seq(Value)
  BY <1>2
<1>0. /\ \A x, y \in Seq(Value) : x \o y \in Seq(Value)
      /\ \A x, y, z \in Seq(Value) : (x \o y) \o z = x \o (y \o z)
      /\ \A x \in Seq(Value) : x \o <<>> = x /\ <<>> \o x = x
  BY Concats
<1>4. Stream = (f \o b) \o r /\ Stream' = (handed' \o items') \o putters'
  BY <1>3 DEF Stream
<1>5. IsPrefix(f, f)
  BY <1>3, ArePrefixes
<1>6. ASSUME Stream' = Stream PROVE \E p, q, n, K : Changes(c, p, q, n, K)
  BY <1>1, <1>6, Stays
<1>7. pc[c] = "surplus" =>
        /\ IsInjective(s) /\ ToSet(s) \cap ToSet(Stream) = {} /\ \A v \in ToSet(s) : v[1] = c
  <2>. SUFFICES ASSUME pc[c] = "surplus"
                PROVE  /\ IsInjective(s) /\ ToSet(s) \cap ToSet(Stream) = {}
                       /\ \A v \in ToSet(s) : v[1] = c
    OBVIOUS
  <2>1. \A i \in 1..Len(s) : s[i] = <<c, lo[c] - Len(s) + i>>
    BY <1>1, <1>3 DEF WaitOf
  <2>2. IsInjective(s)
    <3>1. \A i \in 1..Len(s) : s[i][2] = lo[c] - Len(s) + i
      BY <2>1
    <3>2. ASSUME NEW i \in 1..Len(s), NEW j \in 1..Len(s), s[i] = s[j] PROVE i = j
      <4>1. lo[c] - Len(s) + i = lo[c] - Len(s) + j /\ Len(s) \in Nat
        BY <1>3, <3>1, <3>2
      <4>. QED BY <1>2, <4>1
    <3>. QED BY <1>3, <3>2 DEF IsInjective
  <2>3. \A v \in ToSet(s) : v[1] = c
    BY <1>3, <2>1 DEF ToSet
  <2>. QED BY <1>3, <2>2, <2>3 DEF StreamInv
<1>8. CASE Offer(c)
  <2>1. CASE isShutdown
    BY <1>3, <1>4, <1>5, <1>6, <1>8, <2>1 DEF Offer
  <2>2. CASE ~isShutdown
    <3>1. PICK told, given, kept, left : Parted(c, told, given, kept, left)
      BY <1>1, <1>8, <2>2, OfferParts
    <3>2. /\ Idle /\ UNCHANGED putters /\ pc[c] \in {"offer", "unsafeOffer"}
      BY <1>8, <2>2 DEF Offer, At
    <3>3. /\ told \in Seq(Client) /\ Len(told) = Len(given) /\ takers = told \o takers'
          /\ given \in Seq(Value) /\ kept \in Seq(Value) /\ left \in Seq(Value)
          /\ takers' \in Seq(Client) /\ told # <<>> => items = <<>>
          /\ handed' = f \o given /\ items' = b \o kept /\ Len(kept) <= Room
          /\ Values(c) = given \o (kept \o left)
      BY <1>3, <3>1 DEF Parted
    <3>7. PICK n \in Seq(Value) : n = given \o kept
      BY <3>3, ConcatProperties
    <3>0. /\ f \in Seq(Value) /\ b \in Seq(Value) /\ r \in Seq(Value)
          /\ given \in Seq(Value) /\ kept \in Seq(Value) /\ left \in Seq(Value)
      BY <1>3, <3>3
    <3>8. Stream' = Stream \o n
      <4>1. Stream' = Stream \o (given \o kept)
        <5>1. putters' = putters
          BY <3>2
        <5>. QED BY <1>1, <3>1, <3>2, <5>1, OfferEntersLast, SMTT(30)
      <4>. QED BY <3>7, <4>1, Zenon
    <3>9. /\ IsInjective(n) /\ ToSet(n) \subseteq ToSet(Values(c))
      <4>1. (given \o kept) \o left = given \o (kept \o left)
        BY <3>0, ConcatAssociative, SMTT(60)
      <4>2. Values(c) = n \o left
        BY <3>3, <3>7, <4>1
      <4>3. IsInjective(n \o left)
        BY <1>1, <4>2, ValuesOnce
      <4>4. n \in Seq(Value) /\ left \in Seq(Value)
        BY <3>0, <3>7
      <4>5. IsInjective(n) /\ ToSet(n \o left) = ToSet(n) \cup ToSet(left)
        BY <4>3, <4>4, Union
      <4>. QED BY <4>2, <4>5
    <3>10. \A v \in ToSet(n) : v[1] = c
      BY <1>1, <3>9, ValuesAre
    <3>11. ToSet(n) \cap ToSet(Stream) = {}
      <4>1. ToSet(Stream) = Arrived \cup ToSet(putters)
        BY <1>1, StreamIs
      <4>2. \A v \in Arrived \cup ToSet(putters) : v[1] # c
        BY <1>1, <3>2, NotListed DEF AnswerOf
      <4>. QED BY <3>10, <4>1, <4>2
    <3>12. IsPrefix(handed, handed')
      BY <1>3, <3>3, ArePrefixes
    <3>. QED BY <1>1, <3>8, <3>9, <3>10, <3>11, <3>12, Grows
  <2>. QED BY <2>1, <2>2
<1>9. CASE Slide(c)
  <2>1. /\ strategy = "sliding" /\ pc[c] = "surplus" /\ UNCHANGED <<handed, putters>>
        /\ putters = <<>>
    BY <1>1, <1>9 DEF Slide, At, LineInv
  <2>2. PICK n \in 0..Len(items \o rest[c]) : items' = After(items \o rest[c], n)
    BY <1>1, <1>9, SlideParts
  <2>3. /\ f \o b \in Seq(Value) /\ Len(b \o s) = Len(b) + Len(s) /\ Len(b) \in Nat /\ Len(s) \in Nat
        /\ b \o s \in Seq(Value) /\ n \in 0..Len(b \o s)
    BY <1>3, <2>2, ConcatProperties
  <2>4. Stream = f \o b
    BY <1>0, <1>3, <1>4, <2>1, <2>3
  <2>5. PICK m \in Seq(Value) : /\ \E K : items' = Keep(b, K) \o m
                               /\ IsInjective(m) /\ ToSet(m) \subseteq ToSet(s)
    <3>1. b \in Seq(Value) /\ s \in Seq(Value) /\ n \in 0..(Len(b) + Len(s))
      BY <1>3, <2>3
    <3>2. IsInjective(b) /\ IsInjective(s)
      <4>1. IsInjective(f \o b)
        BY <2>4 DEF StreamInv
      <4>. QED BY <1>3, <1>7, <2>1, <4>1, Union
    <3>3. \E m \in Seq(Value) : /\ \E K : After(b \o s, n) = Keep(b, K) \o m
                                /\ IsInjective(m) /\ ToSet(m) \subseteq ToSet(s)
      <4>1. Ends(Value, b, s, n)
        BY <3>1, <3>2 DEF Ends
      <4>. QED BY <4>1, EndOfConcat, SMT
    <3>4. items' = After(b \o s, n)
      BY <1>3, <2>2
    <3>. QED BY <3>3, <3>4
  <2>0. PICK K : items' = Keep(b, K) \o m
    BY <2>5
  <2>6. Stream' = f \o (Keep(b, K) \o m)
    <3>1. Keep(b, K) \in Seq(Value) /\ items' \in Seq(Value)
      BY <1>1, <1>3, <1>9, KeepMembers, SlideParts
    <3>2. f \o items' \in Seq(Value)
      BY <1>3, <3>1, ConcatProperties
    <3>3. (f \o items') \o <<>> = f \o items'
      BY <1>0, <3>2
    <3>. QED BY <1>3, <1>4, <2>0, <2>1, <3>3
  <2>7. Changes(c, f, b, m, K)
    BY <1>3, <1>7, <2>1, <2>4, <2>5, <2>6 DEF Changes
  <2>. QED BY <1>3, <1>5, <2>1, <2>7
<1>10. CASE Suspend(c)
  <2>1. /\ pc[c] = "surplus" /\ putters' = r \o s /\ UNCHANGED <<items, handed>>
    BY <1>3, <1>10 DEF Suspend, At
  <2>2. f \o b \in Seq(Value)
    BY <1>3, ConcatProperties
  <2>3. Stream' = Stream \o s
    <3>1. r \in Seq(Value) /\ s \in Seq(Value)
      BY <1>3
    <3>2. ((f \o b) \o r) \o s = (f \o b) \o (r \o s)
      BY <1>0, <2>2, <3>1, Zenon
    <3>. QED BY <1>3, <1>4, <2>1, <3>2
  <2>. QED BY <1>1, <1>3, <1>5, <1>7, <2>1, <2>3, Grows
<1>11. CASE Take(c)
  <2>1. CASE isShutdown \/ items = <<>>
    BY <1>3, <1>4, <1>5, <1>6, <1>11, <2>1 DEF Take
  <2>2. CASE ~(isShutdown \/ items = <<>>)
    <3>1. /\ items # <<>> /\ items' = Tail(items) /\ handed' = Append(handed, Head(items))
          /\ UNCHANGED putters
      BY <1>11, <2>2 DEF Take
    <3>2. PICK x \in Value, t \in Seq(Value), o \in Seq(Value) :
            x = Head(items) /\ t = Tail(items) /\ o = <<x>> /\ b = o \o t
      <4>1. /\ Head(items) \in Value /\ Tail(items) \in Seq(Value)
            /\ items = <<Head(items)>> \o Tail(items)
        BY <1>2, <3>1, HeadAndTail
      <4>2. <<Head(items)>> \in Seq(Value)
        BY <4>1
      <4>. QED BY <1>3, <4>1, <4>2
    <3>0. f \in Seq(Value) /\ x \in Value /\ t \in Seq(Value) /\ o \in Seq(Value)
      BY <1>3, <3>2
    <3>3. handed' = f \o o
      <4>1. Append(f, x) = f \o <<x>>
        BY <3>0, AppendIsConcat
      <4>. QED BY <1>3, <3>1, <3>2, <4>1
    <3>4. (f \o o) \o t = f \o (o \o t)
      BY <3>0, ConcatAssociative, SMTT(60)
    <3>5. Stream' = Stream
      BY <1>3, <1>4, <3>1, <3>2, <3>3, <3>4
    <3>6. IsPrefix(f, f \o o)
      BY <3>0, ArePrefixes
    <3>. QED BY <1>3, <1>6, <3>3, <3>5, <3>6
  <2>. QED BY <2>1, <2>2
<1>12. CASE Poll(c)
  <2>1. PICK n \in 0..Len(items) : handed' = handed \o First(items, n) /\ items' = After(items, n)
    <3>1. Least(hi[c], Len(items)) \in 0..Len(items)
      BY <1>2 DEF Least
    <3>. QED BY <1>12, <3>1 DEF Poll, PollUpTo
  <2>2. PICK x \in Seq(Value), y \in Seq(Value) :
          x = First(items, n) /\ y = After(items, n) /\ items = x \o y
    <3>1. /\ First(items, n) \in Seq(Value) /\ After(items, n) \in Seq(Value)
          /\ First(items, n) \o After(items, n) = items
      BY <1>2, Cut DEF First, After
    <3>. QED BY <3>1
  <2>3. (f \o x) \o y = f \o (x \o y) /\ IsPrefix(f, f \o x)
    <3>1. f \in Seq(Value) /\ x \in Seq(Value) /\ y \in Seq(Value)
      BY <1>3, <2>2
    <3>2. (f \o x) \o y = f \o (x \o y)
      BY <3>1, ConcatAssociative, SMTT(60)
    <3>3. IsPrefix(f, f \o x)
      BY <3>1, ArePrefixes
    <3>. QED BY <3>2, <3>3
  <2>4. Stream' = Stream
    BY <1>3, <1>4, <1>12, <2>1, <2>2, <2>3 DEF Poll
  <2>. QED BY <1>3, <1>6, <2>1, <2>2, <2>3, <2>4
<1>13. CASE Cancel(c) \/ ShutdownStrategy(c)
  <2>1. UNCHANGED <<items, handed>> /\ \E K : putters' = Keep(r, K)
    <3>1. Keep(r, {}) = <<>>
      BY <1>3, KeepAllOrNone
    <3>. QED BY <1>3, <1>13, <3>1 DEF Cancel, ShutdownStrategy
  <2>2. PICK K : putters' = Keep(r, K)
    BY <2>1
  <2>3. Keep(r, K) \in Seq(Value) /\ f \o b \in Seq(Value)
    BY <1>3, KeepMembers, ConcatProperties
  <2>4. PICK n \in Seq(Value) : n = <<>> /\ ToSet(n) = {} /\ IsInjective(n)
    <3>1. <<>> \in Seq(Value) /\ ToSet(<<>>) = {} /\ IsInjective(<<>>)
      BY Heads DEF IsInjective
    <3>. QED BY <3>1
  <2>5. Keep(r, K) \o n = Keep(r, K)
    BY <1>0, <2>3, <2>4
  <2>6. Changes(c, f \o b, r, n, K)
    BY <1>3, <1>4, <2>1, <2>2, <2>3, <2>4, <2>5 DEF Changes
  <2>. QED BY <1>3, <1>5, <2>1, <2>6
<1>14. CASE Join(c) \/ TakeBetween(c) \/ Resume(c) \/ Stop(c) \/ Shutdown(c) \/ CompleteHook(c)
            \/ Free(c) \/ Closed(c) \/ Interrupt(c)
  <2>1. UNCHANGED <<items, handed, putters>>
    BY <1>14 DEF Join, TakeBetween, Resume, Stop, Shutdown, CompleteHook, Free, Closed, Interrupt
  <2>. QED BY <1>3, <1>4, <1>5, <1>6, <2>1
<1>. QED BY <1>8, <1>9, <1>10, <1>11, <1>12, <1>13, <1>14 DEF Step

(* What a client does is its own: the others stay where they are.            *)
LEMMA Others ==
  ASSUME TypeOK, NEW c \in Client, Step(c) \/ Interrupt(c), NEW e \in Client, e # c
  PROVE  pc'[e] = pc[e] /\ rest'[e] = rest[e]
<1>1. pc \in [Client -> Label] /\ rest \in [Client -> Seq(Value)]
  BY DEF TypeOK
<1>2. pc' = [pc EXCEPT ![c] = pc'[c]] \/ pc' = pc
  BY <1>1 DEF Step, Interrupt, Offer, Slide, Suspend, Take, Join, TakeBetween, Poll, Resume, Stop,
    Cancel, Shutdown, CompleteHook, Free, ShutdownStrategy, Closed, Goto, Got
<1>3. rest' = [rest EXCEPT ![c] = rest'[c]] \/ rest' = rest
  BY <1>1 DEF Step, Interrupt, Offer, Slide, Suspend, Take, Join, TakeBetween, Poll, Resume, Stop,
    Cancel, Shutdown, CompleteHook, Free, ShutdownStrategy, Closed, Goto, Got
<1>. QED BY <1>1, <1>2, <1>3

(* The same of the state that a step leads to.                              *)
LEMMA StreamIsNext == (TypeOK => ToSet(Stream) = Arrived \cup ToSet(putters))'
<1>1. TypeOK => ToSet(Stream) = Arrived \cup ToSet(putters)
  BY StreamIs
<1>. QED BY <1>1, PTL

(* A client about to send its surplus: none of it is there yet.              *)
LEMMA SurplusNew ==
  ASSUME QueueInv, TypeOK', AnswerInv, StreamInv, NEW c \in Client, Step(c) \/ Interrupt(c),
         pc'[c] = "surplus"
  PROVE  ToSet(rest'[c]) \cap ToSet(Stream') = {}
<1>1. TypeOK /\ LineInv /\ WaitInv /\ AnswerOf(c)
  BY DEF QueueInv, AnswerInv
<1>2. pc \in [Client -> Label]
  BY <1>1 DEF TypeOK
<1>3. ToSet(Stream) = Arrived \cup ToSet(putters)
  BY <1>1, StreamIs
<1>4. ToSet(Stream') = Arrived' \cup ToSet(putters')
  BY StreamIsNext
<1>5. CASE Interrupt(c)
  <2>1. pc[c] = "surplus" /\ UNCHANGED <<rest, handed, items, putters>>
    BY <1>5 DEF Interrupt
  <2>. QED BY <2>1 DEF StreamInv, Stream
<1>6. CASE Offer(c)
  <2>1. CASE isShutdown
    BY <1>2, <1>6, <2>1 DEF Offer, Goto
  <2>2. CASE ~isShutdown
    <3>1. PICK told, given, kept, left : Parted(c, told, given, kept, left)
      BY <1>1, <1>6, <2>2, OfferParts
    <3>2. /\ Arrived' = Arrived \cup ToSet(given) \cup ToSet(kept)
          /\ ToSet(Values(c)) = ToSet(given) \cup ToSet(kept) \cup ToSet(left)
          /\ (ToSet(given) \cup ToSet(kept)) \cap ToSet(left) = {}
      BY <1>1, <3>1, OfferArrives
    <3>3. pc[c] \in {"offer", "unsafeOffer"} /\ putters' = putters
      BY <1>6, <2>2 DEF Offer, At
    <3>4. \A v \in Arrived \cup ToSet(putters) : v[1] # c
      BY <1>1, <3>3, NotListed DEF AnswerOf
    <3>5. \A v \in ToSet(left) : v[1] = c
      BY <1>1, <3>2, ValuesAre
    <3>6. rest'[c] = left
      BY <1>1, <3>1 DEF Parted, TypeOK
    <3>. QED BY <1>4, <3>2, <3>3, <3>4, <3>5, <3>6
  <2>. QED BY <2>1, <2>2
<1>7. CASE ~Offer(c) /\ ~Interrupt(c)
  <2>1. pc'[c] # "surplus"
    BY <1>2, <1>7 DEF Step, Slide, Suspend, Take, Join, TakeBetween, Poll, Resume, Stop, Cancel,
      Shutdown, CompleteHook, Free, ShutdownStrategy, Closed, Goto, Got, StopOrWait, At
  <2>. QED BY <2>1
<1>. QED BY <1>5, <1>6, <1>7

(* The stream after a step: nothing is there twice, and what was there       *)
(* before, as far as it still is, comes first and in its order.             *)
LEMMA StreamNext ==
  ASSUME QueueInv, QueueInv', AnswerInv, StreamInv, Next
  PROVE  /\ StreamInv' /\ IsPrefix(handed, handed')
         /\ IsPrefix(Keep(Stream, ToSet(Stream')), Stream')
<1>1. TypeOK /\ TypeOK' /\ WaitInv
  BY DEF QueueInv
<1>2. Stream \in Seq(Value)
  BY <1>1, StreamIs
<1>3. CASE Loop
  <2>1. Stream' = Stream /\ IsPrefix(handed, handed')
    BY <1>1, <1>3, StreamLoop
  <2>2. UNCHANGED <<pc, rest>>
    BY <1>3 DEF Loop
  <2>3. Keep(Stream, ToSet(Stream)) = Stream /\ IsPrefix(Stream, Stream)
    <3>1. PICK s : s = Stream /\ s \in Seq(Value)
      BY <1>2
    <3>2. Keep(s, ToSet(s)) = s /\ IsPrefix(s, s)
      BY <3>1, KeepAllOrNone, ArePrefixes
    <3>. QED BY <3>1, <3>2
  <2>4. StreamInv'
    BY <2>1, <2>2 DEF StreamInv
  <2>. QED BY <2>1, <2>3, <2>4
<1>4. ASSUME NEW c \in Client, Step(c) \/ Interrupt(c)
      PROVE  /\ StreamInv' /\ IsPrefix(handed, handed')
             /\ IsPrefix(Keep(Stream, ToSet(Stream')), Stream')
  <2>1. IsPrefix(handed, handed') /\ \E p, q, n, K : Changes(c, p, q, n, K)
    BY <1>4, StreamStep
  <2>2. PICK p, q, n, K : Changes(c, p, q, n, K)
    BY <2>1
  <2>3. /\ Stream = p \o q /\ \A v \in ToSet(n) : v[1] = c
    BY <2>2 DEF Changes
  <2>4. PICK t : t = Stream'
    OBVIOUS
  <2>5. Splices(Value, p, q, n, K, t)
    BY <2>2, <2>4 DEF Changes, Splices, StreamInv
  <2>6. /\ IsInjective(t) /\ ToSet(t) \subseteq ToSet(p \o q) \cup ToSet(n)
        /\ IsPrefix(Keep(p \o q, ToSet(t)), t)
    BY <2>5, InOrder, SMT
  <2>7. ASSUME NEW e \in Client, pc'[e] = "surplus" PROVE ToSet(rest'[e]) \cap ToSet(Stream') = {}
    <3>1. CASE e = c
      BY <1>1, <1>4, <2>7, <3>1, SurplusNew
    <3>2. CASE e # c
      <4>1. pc'[e] = pc[e] /\ rest'[e] = rest[e]
        BY <1>1, <1>4, <3>2, Others
      <4>2. \A v \in ToSet(rest[e]) : v[1] = e
        <5>1. /\ rest[e] \in Seq(Value)
              /\ \A i \in 1..Len(rest[e]) : rest[e][i] = <<e, lo[e] - Len(rest[e]) + i>>
          BY <1>1, <2>7, <4>1 DEF WaitInv, WaitOf, TypeOK
        <5>. QED BY <5>1 DEF ToSet
      <4>3. ToSet(rest[e]) \cap ToSet(Stream) = {}
        BY <2>7, <4>1 DEF StreamInv
      <4>. QED BY <2>3, <2>4, <2>6, <3>2, <4>1, <4>2, <4>3
    <3>. QED BY <3>1, <3>2
  <2>8. StreamInv'
    BY <2>4, <2>6, <2>7 DEF StreamInv
  <2>. QED BY <2>1, <2>3, <2>4, <2>6, <2>8
<1>. QED BY <1>3, <1>4 DEF Next

(* Values leave in the order in which they came in, each once: no taker gets *)
(* a value ahead of one that was there before it.                           *)
THEOREM OrderIsKept == Spec => FirstInFirstOut
<1>1. Init => StreamInv
  <2>. SUFFICES ASSUME Init PROVE StreamInv
    OBVIOUS
  <2>1. Stream = <<>>
    BY DEF Init, Stream
  <2>2. rest = [c \in Client |-> <<>>]
    BY DEF Init
  <2>3. ToSet(<<>>) = {}
    BY Heads
  <2>. QED BY <2>1, <2>2, <2>3 DEF StreamInv, IsInjective
<1>2. Init => AnswerInv
  BY AnswerInit
<1>3. QueueInv /\ QueueInv' /\ AnswerInv /\ StreamInv /\ [Next]_vars => StreamInv'
  <2>. SUFFICES ASSUME QueueInv, QueueInv', AnswerInv, StreamInv, [Next]_vars PROVE StreamInv'
    OBVIOUS
  <2>1. CASE Next
    BY <2>1, StreamNext
  <2>2. CASE UNCHANGED vars
    BY <2>2 DEF vars, StreamInv, Stream
  <2>. QED BY <2>1, <2>2
<1>4. /\ QueueInv /\ QueueInv' /\ AnswerInv /\ StreamInv /\ StreamInv' /\ [Next]_vars
      => [/\ IsPrefix(handed, handed')
          /\ IsPrefix(Keep(Stream, ToSet(Stream')), Stream')
          /\ IsInjective(Stream')]_vars
  <2>1. StreamInv' => IsInjective(Stream')
    BY DEF StreamInv
  <2>. QED BY <2>1, StreamNext
<1>. QED BY <1>1, <1>2, <1>3, <1>4, QueueInit, QueueNext, AnswerNext, PTL DEF Spec, FirstInFirstOut
=============================================================================
